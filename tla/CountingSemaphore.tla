-------------------------- MODULE CountingSemaphore --------------------------
(***************************************************************************)
(* What the semaphores of semaphore.c promise to their users (the address  *)
(* spaces of vmem.c and the frame map of pmem.c): a thread that returned   *)
(* from semaphore_enter owns one slot until it calls semaphore_leave, and  *)
(* a semaphore never hands out more slots than it was initialised with.    *)
(* There is no spinlock, no waiter list and no scheduler here.             *)
(***************************************************************************)
EXTENDS Naturals

CONSTANTS
  Thread,     \* the threads of the system
  Sem,        \* the semaphores
  InitSlots   \* InitSlots[s]: the argument of semaphore_init(s, slots)

VARIABLES
  avail,      \* avail[s]: slots of s that nobody owns
  owns        \* owns[t]: the semaphores of which thread t owns a slot

vars == <<avail, owns>>

Init ==
  /\ avail = InitSlots
  /\ owns = [t \in Thread |-> {}]

Enter(t, s) ==
  /\ avail[s] > 0
  /\ s \notin owns[t]
  /\ avail' = [avail EXCEPT ![s] = @ - 1]
  /\ owns' = [owns EXCEPT ![t] = @ \union {s}]

Leave(t, s) ==
  /\ s \in owns[t]
  /\ avail' = [avail EXCEPT ![s] = @ + 1]
  /\ owns' = [owns EXCEPT ![t] = @ \ {s}]

Next == \E t \in Thread, s \in Sem : Enter(t, s) \/ Leave(t, s)

Spec == Init /\ [][Next]_vars
=============================================================================
