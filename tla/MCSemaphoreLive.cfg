\* The semaphore of one slot under fair scheduling.
SPECIFICATION FairSpec
CONSTANTS
  t1 = t1
  t2 = t2
  t3 = t3
  t4 = t4
  vmem = vmem
  pmem = pmem
  Free = Free
  Thread = {t1, t2, t3}
  Sem = {vmem}
  InitSlots <- MCInitSlots
  Rank <- MCRank
  Preemptible = {t1, t2}
  TryCallers = {}
PROPERTY SleeperWakes
CHECK_DEADLOCK FALSE
