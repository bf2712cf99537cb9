\* Two semaphores and four threads: two run kernel code with
\* interrupts enabled, and one calls semaphore_try_enter.
SPECIFICATION Spec
CONSTANTS
  t1 = t1
  t2 = t2
  t3 = t3
  t4 = t4
  vmem = vmem
  pmem = pmem
  Free = Free
  Thread = {t1, t2, t3, t4}
  Sem = {vmem, pmem}
  InitSlots <- MCInitSlots
  Rank <- MCRank
  Preemptible = {t1, t2}
  TryCallers = {t3}
INVARIANTS
  TypeOK
  SpinlockExclusion
  SlotsConserved
  WaitersSound
  NoLostWakeup
  SomeThreadReady
  SpinsOnlyForPreempted
PROPERTIES
  ImplementsCounting
CHECK_DEADLOCK FALSE
