--------------------------- MODULE SemaphoreProofs ---------------------------
(* Proofs about Semaphore, for every set of threads and semaphores: mutual *)
(* exclusion, refinement, who is in the waiter lists, slots are conserved, *)
(* no wake-up is lost, and the threads never all sleep.                    *)
EXTENDS Semaphore, FiniteSetTheorems, WellFoundedInduction, TLAPS

(* list_dequeue yields a list of the same kind.                            *)
LEMMA WithoutType ==
  ASSUME NEW q \in Seq(Thread), NEW t \in Thread
  PROVE  Without(q, t) \in Seq(Thread)
<1>1. CASE \E j \in DOMAIN q : q[j] = t
  <2>. DEFINE i == CHOOSE j \in DOMAIN q : q[j] = t
  <2>1. i \in 1..Len(q) /\ Len(q) \in Nat
    BY <1>1
  <2>. HIDE DEF i
  <2>2. [j \in 1..(Len(q) - 1) |-> IF j < i THEN q[j] ELSE q[j + 1]] \in Seq(Thread)
    BY <2>1
  <2>. QED  BY <1>1, <2>2, Zenon DEF Without, i
<1>2. CASE ~ \E j \in DOMAIN q : q[j] = t
  BY <1>2, Zenon DEF Without
<1>. QED  BY <1>1, <1>2, Zenon

(* Every step keeps every variable of semaphore.c, spinlock.c and the      *)
(* scheduler in its type.                                                  *)
LEMMA TypeStep == TypeOK /\ [Next]_vars => TypeOK'
<1>. SUFFICES ASSUME TypeOK, [Next]_vars PROVE TypeOK'
  BY Zenon
<1>. USE DEF TypeOK, Points, FunctionNames
<1>1. CASE Calls(cpu)
  <2>1. PICK s \in Sem, f \in FunctionNames : Call(cpu, f, s)
    BY <1>1, Zenon DEF Calls, CallEnter, CallTryEnter, CallLeave
  <2>. QED  BY <2>1, Zenon DEF Call
<1>2. CASE Spin(cpu)
  <2>1. CASE SpinTest(cpu)
    BY <2>1, Zenon DEF SpinTest
  <2>2. CASE SpinXchg(cpu)
    BY <2>2, Zenon DEF SpinXchg
  <2>. QED  BY <1>2, <2>1, <2>2, ZenonT(30) DEF Spin
<1>3. CASE Enter(cpu)
  <2>1. CASE EnterTake(cpu)
    BY <2>1 DEF EnterTake
  <2>2. CASE EnterEnqueue(cpu)
    BY <2>2 DEF EnterEnqueue
  <2>3. CASE EnterSleep(cpu)
    BY <2>3, Zenon DEF EnterSleep
  <2>4. CASE EnterDequeue(cpu)
    BY <2>4, WithoutType, Zenon DEF EnterDequeue
  <2>5. CASE EnterReturn(cpu) \/ EnterBlocked(cpu) \/ EnterRetry(cpu)
    <3>1. PICK to \in Points, f \in FunctionNames : Unlock(cpu, to, f)
      BY <2>5, Zenon DEF EnterReturn, EnterBlocked, EnterRetry
    <3>. QED  BY <3>1, Zenon DEF Unlock
  <2>. QED  BY <1>3, <2>1, <2>2, <2>3, <2>4, <2>5, ZenonT(30) DEF Enter
<1>4. CASE Leave(cpu)
  <2>1. CASE LeaveFree(cpu)
    BY <2>1 DEF LeaveFree
  <2>2. CASE LeaveWake(cpu)
    <3>1. state' \in [Thread -> {"READY", "WAITING"}]
      <4>1. \A i \in DOMAIN waiters[arg[cpu]] : waiters[arg[cpu]][i] \in Thread
        OBVIOUS
      <4>. QED  BY <2>2, <4>1, ZenonT(30) DEF LeaveWake
    <3>. QED  BY <2>2, <3>1, ZenonT(30) DEF LeaveWake
  <2>3. CASE LeaveReturn(cpu)
    BY <2>3, Zenon DEF LeaveReturn, Unlock
  <2>. QED  BY <1>4, <2>1, <2>2, <2>3, ZenonT(30) DEF Leave
<1>5. CASE TryEnter(cpu)
  <2>1. CASE slots[arg[cpu]] > 0 /\ slots' = [slots EXCEPT ![arg[cpu]] = @ - 1]
             /\ held' = [held EXCEPT ![cpu] = @ \union {arg[cpu]}]
    <3>1. slots' \in [Sem -> Nat] /\ held' \in [Thread -> SUBSET Sem]
      BY <2>1
    <3>. QED  BY <1>5, <3>1, ZenonT(30) DEF TryEnter
  <2>2. CASE UNCHANGED <<slots, held>>
    BY <1>5, <2>2, Zenon DEF TryEnter
  <2>. QED  BY <1>5, <2>1, <2>2, Zenon DEF TryEnter
<1>6. CASE \E next \in Thread : SchedSwitch(cpu, next) \/ Preempt(next)
  <2>1. PICK next \in Thread : SchedSwitch(cpu, next) \/ Preempt(next)
    BY <1>6, Zenon
  <2>2. CASE SchedSwitch(cpu, next)
    BY <2>2, Zenon DEF SchedSwitch
  <2>3. CASE Preempt(next)
    BY <2>3, Zenon DEF Preempt
  <2>. QED  BY <2>1, <2>2, <2>3, ZenonT(30)
<1>7. CASE UNCHANGED vars
  BY <1>7, Zenon DEF vars
<1>. QED  BY <1>1, <1>2, <1>3, <1>4, <1>5, <1>6, <1>7, ZenonT(30) DEF Next

(* The inductive invariant behind the theorems of this module.             *)
IInv == SpinlockExclusion /\ Control /\ Asleep /\ LockOwned

(* Every step preserves it: spinlock_lock succeeds only on a word that is  *)
(* 0, so no step puts a second thread into a critical section; slots       *)
(* changes only inside one; a thread that was put to sleep executes        *)
(* nothing but its way into sched_switch until it is READY again; and only *)
(* semaphore_try_enter leaves a spinlock without an owner.                 *)
LEMMA IInvStep == TypeOK /\ IInv /\ [Next]_vars => IInv'
<1>. SUFFICES ASSUME TypeOK, IInv, [Next]_vars PROVE IInv'
  BY Zenon
<1>a. /\ cpu \in Thread /\ at \in [Thread -> Points] /\ arg \in [Thread -> Sem]
      /\ lock \in [Sem -> Thread \union {Free}] /\ Free \notin Thread
      /\ op \in [Thread -> FunctionNames] /\ got \in [Thread -> BOOLEAN]
      /\ slots \in [Sem -> Nat] /\ held \in [Thread -> SUBSET Sem]
      /\ state \in [Thread -> {"READY", "WAITING"}]
  BY SemaphoreAssumption, Zenon DEF TypeOK
<1>1. CASE \E s \in Sem : CallEnter(cpu, s)
  BY <1>a, <1>1, SMTT(30)
  DEF IInv, SpinlockExclusion, Control, Asleep, LockOwned,
      InCritical, Acquiring, RespectsOrder, CallEnter, Call
<1>2. CASE \E s \in Sem : CallTryEnter(cpu, s)
  BY <1>a, <1>2
  DEF IInv, SpinlockExclusion, Control, Asleep, LockOwned,
      InCritical, Acquiring, RespectsOrder, CallTryEnter, Call
<1>3. CASE \E s \in Sem : CallLeave(cpu, s)
  <2>1. SpinlockExclusion'
    BY <1>a, <1>3 DEF IInv, SpinlockExclusion, InCritical,
        CallLeave, Call
  <2>2. Control'
    BY <1>a, <1>3 DEF IInv, Control, SpinlockExclusion, InCritical, Acquiring, RespectsOrder,
        CallLeave, Call
  <2>3. Asleep'
    BY <1>a, <1>3 DEF IInv, Asleep, Control,
        CallLeave, Call
  <2>4. LockOwned'
    <3>1. at[cpu] = "run" /\ \A t \in Thread \ {cpu} : at'[t] = at[t] /\ arg'[t] = arg[t]
      BY <1>a, <1>3, Zenon DEF CallLeave, Call
    <3>2. at'[cpu] = "test" /\ lock' = lock /\ cpu' = cpu
      BY <1>a, <1>3, Zenon DEF CallLeave, Call
    <3>. QED  BY <1>a, <3>1, <3>2 DEF IInv, LockOwned, InCritical
  <2>. QED  BY <2>1, <2>2, <2>3, <2>4, Zenon DEF IInv
<1>4. CASE SpinTest(cpu)
  BY <1>a, <1>4
  DEF IInv, SpinlockExclusion, Control, Asleep, LockOwned,
      InCritical, Acquiring, RespectsOrder, SpinTest
<1>5. CASE SpinXchg(cpu)
  <2>1. SpinlockExclusion'
    BY <1>a, <1>5 DEF IInv, SpinlockExclusion, InCritical,
        SpinXchg
  <2>2. Control'
    BY <1>a, <1>5 DEF IInv, Control, SpinlockExclusion, InCritical, Acquiring, RespectsOrder,
        SpinXchg
  <2>3. Asleep'
    BY <1>a, <1>5, Zenon DEF IInv, Asleep, Control,
        SpinXchg
  <2>4. LockOwned'
    BY <1>a, <1>5 DEF IInv, LockOwned, Control, SpinlockExclusion, InCritical,
        SpinXchg
  <2>. QED  BY <2>1, <2>2, <2>3, <2>4 DEF IInv
<1>6. CASE EnterTake(cpu)
  <2>1. SpinlockExclusion'
    BY <1>a, <1>6 DEF IInv, SpinlockExclusion, InCritical, EnterTake
  <2>2. Control'
    BY <1>a, <1>6 DEF IInv, Control, SpinlockExclusion, InCritical, Acquiring, RespectsOrder,
        EnterTake
  <2>3. Asleep'
    BY <1>a, <1>6, Zenon DEF IInv, Asleep, EnterTake
  <2>4. LockOwned'
    BY <1>a, <1>6 DEF IInv, LockOwned, InCritical, EnterTake
  <2>. QED  BY <2>1, <2>2, <2>3, <2>4 DEF IInv
<1>7. CASE EnterEnqueue(cpu)
  BY <1>a, <1>7
  DEF IInv, SpinlockExclusion, Control, Asleep, LockOwned,
      InCritical, Acquiring, RespectsOrder, EnterEnqueue
<1>8. CASE EnterSleep(cpu)
  <2>1. SpinlockExclusion'
    BY <1>a, <1>8 DEF IInv, SpinlockExclusion, InCritical, EnterSleep
  <2>2. Control'
    BY <1>a, <1>8 DEF IInv, Control, SpinlockExclusion, InCritical, Acquiring, RespectsOrder,
        EnterSleep
  <2>3. Asleep'
    BY <1>a, <1>8 DEF IInv, Asleep, Control, EnterSleep
  <2>4. LockOwned'
    BY <1>a, <1>8 DEF IInv, LockOwned, InCritical, EnterSleep
  <2>. QED  BY <2>1, <2>2, <2>3, <2>4 DEF IInv
<1>9. CASE EnterDequeue(cpu)
  <2>1. SpinlockExclusion'
    BY <1>a, <1>9 DEF IInv, SpinlockExclusion, InCritical, EnterDequeue
  <2>2. Control'
    BY <1>a, <1>9 DEF IInv, Control, SpinlockExclusion, InCritical, Acquiring, RespectsOrder,
        EnterDequeue
  <2>3. Asleep'
    BY <1>a, <1>9, Zenon DEF IInv, Asleep, Control, EnterDequeue
  <2>4. LockOwned'
    BY <1>a, <1>9 DEF IInv, LockOwned, InCritical, EnterDequeue
  <2>. QED  BY <2>1, <2>2, <2>3, <2>4 DEF IInv
<1>10. CASE LeaveFree(cpu)
  <2>1. SpinlockExclusion'
    BY <1>a, <1>10 DEF IInv, SpinlockExclusion, InCritical, LeaveFree
  <2>2. Control'
    BY <1>a, <1>10 DEF IInv, Control, SpinlockExclusion, InCritical, Acquiring, RespectsOrder,
        LeaveFree
  <2>3. Asleep'
    BY <1>a, <1>10, Zenon DEF IInv, Asleep, Control, LeaveFree
  <2>4. LockOwned'
    BY <1>a, <1>10 DEF IInv, LockOwned, InCritical, LeaveFree
  <2>. QED  BY <2>1, <2>2, <2>3, <2>4 DEF IInv
<1>11. CASE LeaveWake(cpu)
  <2>1. SpinlockExclusion'
    BY <1>a, <1>11 DEF IInv, SpinlockExclusion, InCritical, LeaveWake
  <2>2. Control'
    BY <1>a, <1>11 DEF IInv, Control, SpinlockExclusion, InCritical, Acquiring, RespectsOrder,
        LeaveWake
  <2>3. Asleep'
    BY <1>a, <1>11 DEF IInv, Asleep, Control, LeaveWake
  <2>4. LockOwned'
    BY <1>a, <1>11 DEF IInv, LockOwned, InCritical, LeaveWake
  <2>. QED  BY <2>1, <2>2, <2>3, <2>4 DEF IInv
<1>12. CASE TryEnter(cpu)
  BY <1>a, <1>12
  DEF IInv, SpinlockExclusion, Control, Asleep, LockOwned,
      InCritical, Acquiring, RespectsOrder, TryEnter
<1>13. CASE EnterReturn(cpu)
  BY <1>a, <1>13
  DEF IInv, SpinlockExclusion, Control, Asleep, LockOwned,
      InCritical, Acquiring, RespectsOrder, EnterReturn, Unlock
<1>14. CASE EnterBlocked(cpu)
  BY <1>a, <1>14
  DEF IInv, SpinlockExclusion, Control, Asleep, LockOwned,
      InCritical, Acquiring, RespectsOrder, EnterBlocked, Unlock
<1>15. CASE EnterRetry(cpu)
  BY <1>a, <1>15, SMTT(30)
  DEF IInv, SpinlockExclusion, Control, Asleep, LockOwned,
      InCritical, Acquiring, RespectsOrder, EnterRetry, Unlock
<1>16. CASE LeaveReturn(cpu)
  BY <1>a, <1>16, SMTT(30)
  DEF IInv, SpinlockExclusion, Control, Asleep, LockOwned,
      InCritical, Acquiring, RespectsOrder, LeaveReturn, Unlock
<1>17. CASE \E next \in Thread : SchedSwitch(cpu, next)
  BY <1>a, <1>17, SMTT(30)
  DEF IInv, SpinlockExclusion, Control, Asleep, LockOwned,
      InCritical, Acquiring, RespectsOrder, SchedSwitch, Ready
<1>18. CASE \E next \in Thread : Preempt(next)
  BY <1>a, <1>18, SMTT(30)
  DEF IInv, SpinlockExclusion, Control, Asleep, LockOwned,
      InCritical, Acquiring, RespectsOrder, Preempt, Ready, InUserMode
<1>19. CASE UNCHANGED vars
  BY <1>a, <1>19
  DEF IInv, SpinlockExclusion, Control, Asleep, LockOwned,
      InCritical, Acquiring, RespectsOrder, vars
<1>. QED
  BY <1>1, <1>2, <1>3, <1>4, <1>5, <1>6, <1>7, <1>8, <1>9, <1>10, Zenon,
     <1>11, <1>12, <1>13, <1>14, <1>15, <1>16, <1>17, <1>18, <1>19
  DEF Next, Calls, Spin, Enter, Leave

(* Both hold in every state of every behaviour.                            *)
LEMMA Inductive == Spec => [](TypeOK /\ IInv)
<1>1. Init => TypeOK
  BY SemaphoreAssumption DEF Init, TypeOK, Points, FunctionNames
<1>2. Init => IInv
  BY SemaphoreAssumption
  DEF Init, IInv, SpinlockExclusion, Control, Asleep, LockOwned, InCritical, Acquiring
<1>. QED  BY <1>1, <1>2, TypeStep, IInvStep, PTL DEF Spec

(* Every variable of semaphore.c, spinlock.c and the scheduler keeps its   *)
(* type; in particular sem->slots never goes below 0 (semaphore.c:89).     *)
THEOREM TypeCorrect == Spec => []TypeOK
  BY Inductive, PTL

(* The spinlock of a semaphore excludes (spinlock.c:44-60), for any number *)
(* of threads, wherever the timer interrupts them.                         *)
THEOREM MutualExclusion == Spec => []SpinlockExclusion
<1>1. IInv => SpinlockExclusion
  BY Zenon DEF IInv
<1>. QED  BY <1>1, Inductive, PTL

(* A thread spins (spinlock.c:51) only on a lock whose owner was preempted *)
(* inside its critical section, or that semaphore_try_enter left locked.   *)
THEOREM SpinningOnlyForPreempted == Spec => []SpinsOnlyForPreempted
<1>1. TypeOK /\ IInv => SpinsOnlyForPreempted
  BY ZenonT(30) DEF TypeOK, IInv, LockOwned, InCritical, SpinsOnlyForPreempted
<1>. QED  BY <1>1, Inductive, PTL

(* --slots (semaphore.c:64, 89) is an Enter of the abstract semaphore,     *)
(* ++slots (semaphore.c:137) a Leave, and every other step leaves slots    *)
(* and owners alone.                                                       *)
LEMMA RefinementStep == TypeOK /\ IInv /\ [Next]_vars => [Abstract!Next]_Abstract!vars
<1>. SUFFICES ASSUME TypeOK, IInv, Next PROVE [Abstract!Next]_Abstract!vars
  BY Zenon DEF vars, Abstract!vars
<1>1. cpu \in Thread /\ arg[cpu] \in Sem
  BY Zenon DEF TypeOK
<1>2. CASE EnterTake(cpu) \/ TryEnter(cpu)
  <2>1. arg[cpu] \notin held[cpu]
    BY <1>1, <1>2, SemaphoreAssumption, SMTT(30)
    DEF TypeOK, IInv, Control, Acquiring, RespectsOrder, EnterTake, TryEnter
  <2>2. Abstract!Enter(cpu, arg[cpu]) \/ UNCHANGED <<slots, held>>
    BY <1>2, <2>1, Zenon DEF EnterTake, TryEnter, Abstract!Enter
  <2>. QED  BY <1>1, <2>2, Zenon DEF Abstract!Next, Abstract!vars
<1>3. CASE LeaveFree(cpu)
  <2>1. Abstract!Leave(cpu, arg[cpu])
    BY <1>1, <1>3, Zenon DEF IInv, Control, LeaveFree, Abstract!Leave
  <2>. QED  BY <1>1, <2>1, Zenon DEF Abstract!Next
<1>4. CASE UNCHANGED <<slots, held>>
  BY <1>4, Zenon DEF Abstract!vars
<1>5. EnterTake(cpu) \/ TryEnter(cpu) \/ LeaveFree(cpu) \/ UNCHANGED <<slots, held>>
  BY ZenonT(30) DEF Next, Calls, CallEnter, CallTryEnter, CallLeave, Call, Spin, SpinTest,
    SpinXchg, Enter, EnterReturn, EnterEnqueue, EnterSleep, EnterBlocked,
    EnterDequeue, EnterRetry, Unlock, Leave, LeaveWake, LeaveReturn,
    SchedSwitch, Preempt
<1>. QED  BY <1>2, <1>3, <1>4, <1>5, Zenon

(* The semaphores implement counting semaphores, for any number of threads *)
(* and semaphores (semaphore.c:44-165).                                    *)
THEOREM Refinement == Spec => ImplementsCounting
<1>1. Init => Abstract!Init
  BY Zenon DEF Init, Abstract!Init
<1>. QED
  BY <1>1, RefinementStep, Inductive, PTL DEF Spec, ImplementsCounting, Abstract!Spec

-----------------------------------------------------------------------------
(* list_dequeue of an enqueued thread closes the gap in the list.          *)
LEMMA WithoutElements ==
  ASSUME NEW q \in Seq(Thread), NEW i \in DOMAIN q,
         \A j, k \in DOMAIN q : q[j] = q[k] => j = k
  PROVE  LET r == Without(q, q[i])
         IN  /\ r \in Seq(Thread)
             /\ Len(r) = Len(q) - 1
             /\ \A j \in 1..Len(r) : r[j] = IF j < i THEN q[j] ELSE q[j + 1]
<1>. DEFINE c == CHOOSE j \in DOMAIN q : q[j] = q[i]
            r == Without(q, q[i])
<1>1. c = i
  BY Zenon
<1>2. i \in 1..Len(q) /\ Len(q) \in Nat
  OBVIOUS
<1>3. r = [j \in 1..(Len(q) - 1) |-> IF j < i THEN q[j] ELSE q[j + 1]]
  BY <1>1, Zenon DEF Without
<1>. HIDE DEF r
<1>4. r \in Seq(Thread) /\ Len(r) = Len(q) - 1
  BY <1>2, <1>3
<1>. QED  BY <1>3, <1>4, Zenon DEF r

(* The list then holds every other thread it held, each still once.        *)
LEMMA WithoutMembers ==
  ASSUME NEW q \in Seq(Thread), NEW t \in Members(q),
         \A j, k \in DOMAIN q : q[j] = q[k] => j = k
  PROVE  /\ Members(Without(q, t)) = Members(q) \ {t}
         /\ \A j, k \in DOMAIN Without(q, t) :
              Without(q, t)[j] = Without(q, t)[k] => j = k
<1>1. PICK i \in DOMAIN q : q[i] = t
  BY Zenon DEF Members
<1>. DEFINE r == Without(q, t)
<1>2. /\ r \in Seq(Thread) /\ Len(r) = Len(q) - 1
      /\ \A j \in 1..Len(r) : r[j] = IF j < i THEN q[j] ELSE q[j + 1]
  BY <1>1, WithoutElements, Zenon
<1>3. DOMAIN r = 1..(Len(q) - 1) /\ DOMAIN q = 1..Len(q) /\ i \in 1..Len(q) /\ Len(q) \in Nat
  BY <1>2
<1>. HIDE DEF r
<1>4. \A x : x \in Members(r) => x \in Members(q) \ {t}
  BY <1>1, <1>2, <1>3 DEF Members
<1>5. ASSUME NEW x \in Members(q) \ {t} PROVE x \in Members(r)
  <2>1. PICK j \in 1..Len(q) : q[j] = x /\ j # i
    BY <1>1, <1>3, <1>5, Zenon DEF Members
  <2>2. CASE j < i
    <3>1. j \in DOMAIN r /\ r[j] = x
      BY <1>2, <1>3, <2>1, <2>2
    <3>. QED  BY <3>1, Zenon DEF Members
  <2>3. CASE j > i
    <3>1. j - 1 \in DOMAIN r /\ r[j - 1] = x
      BY <1>2, <1>3, <2>1, <2>3
    <3>. QED  BY <3>1, Zenon DEF Members
  <2>. QED  BY <1>3, <2>1, <2>2, <2>3
<1>6. ASSUME NEW j \in DOMAIN r, NEW k \in DOMAIN r, r[j] = r[k] PROVE j = k
  <2>. DEFINE f(n) == IF n < i THEN n ELSE n + 1
  <2>1. f(j) \in DOMAIN q /\ f(k) \in DOMAIN q
    BY <1>3
  <2>2. q[f(j)] = q[f(k)]
    BY <1>2, <1>3, <1>6, Zenon
  <2>3. f(j) = f(k)
    BY <2>1, <2>2, Zenon
  <2>. QED  BY <1>3, <2>3
<1>. QED  BY <1>4, <1>5, <1>6, Zenon DEF r

(* The waiter lists.  Only EnterEnqueue and EnterDequeue move a thread     *)
(* between the inside and the outside of Enqueued.                         *)
LEMMA EnqueuedStep ==
  ASSUME TypeOK, IInv, Next, ~EnterEnqueue(cpu), ~EnterDequeue(cpu),
         NEW u \in Thread, NEW s \in Sem
  PROVE  waiters' = waiters /\ (Enqueued(u, s)' <=> Enqueued(u, s))
<1>a. /\ cpu \in Thread /\ at \in [Thread -> Points] /\ arg \in [Thread -> Sem]
      /\ op \in [Thread -> FunctionNames] /\ got \in [Thread -> BOOLEAN]
  BY Zenon DEF TypeOK
<1>b. Control
  BY Zenon DEF IInv
<1>1. CASE Calls(cpu)
  BY <1>a, <1>b, <1>1 DEF Enqueued, Control, Calls, CallEnter, CallTryEnter, CallLeave, Call
<1>2. CASE Spin(cpu)
  BY <1>a, <1>2, Zenon DEF Enqueued, Spin, SpinTest, SpinXchg
<1>3. CASE EnterTake(cpu) \/ EnterSleep(cpu) \/ LeaveFree(cpu) \/ LeaveWake(cpu) \/ TryEnter(cpu)
  BY <1>a, <1>b, <1>3 DEF Enqueued, Control, EnterTake, EnterSleep, LeaveFree, LeaveWake, TryEnter
<1>4. CASE EnterReturn(cpu) \/ EnterBlocked(cpu) \/ EnterRetry(cpu) \/ LeaveReturn(cpu)
  BY <1>a, <1>4 DEF Enqueued, EnterReturn, EnterBlocked, EnterRetry, LeaveReturn, Unlock
<1>5. CASE \E next \in Thread : SchedSwitch(cpu, next) \/ Preempt(next)
  BY <1>a, <1>b, <1>5 DEF Enqueued, Control, SchedSwitch, Preempt
<1>. QED  BY <1>1, <1>2, <1>3, <1>4, <1>5, Zenon DEF Next, Enter, Leave

(* WaitersSound is preserved.                                              *)
LEMMA WaitersStep ==
  TypeOK /\ IInv /\ WaitersSound /\ [Next]_vars => WaitersSound'
<1>. SUFFICES ASSUME TypeOK, IInv, WaitersSound, [Next]_vars, NEW s \in Sem
              PROVE  /\ Members(waiters'[s]) = {t \in Thread : Enqueued(t, s)'}
                     /\ \A i, j \in DOMAIN waiters'[s] : waiters'[s][i] = waiters'[s][j] => i = j
  BY Zenon DEF WaitersSound
<1>a. /\ cpu \in Thread /\ at \in [Thread -> Points] /\ arg \in [Thread -> Sem]
      /\ op \in [Thread -> FunctionNames] /\ got \in [Thread -> BOOLEAN]
      /\ waiters \in [Sem -> Seq(Thread)]
  BY Zenon DEF TypeOK
<1>. DEFINE q == waiters[s]
<1>b. /\ q \in Seq(Thread) /\ Members(q) = {t \in Thread : Enqueued(t, s)}
      /\ \A i, j \in DOMAIN q : q[i] = q[j] => i = j
  BY <1>a, Zenon DEF WaitersSound
<1>1. CASE UNCHANGED vars
  BY <1>1, <1>b, Zenon DEF vars, Enqueued
<1>2. CASE Next /\ ~EnterEnqueue(cpu) /\ ~EnterDequeue(cpu)
  <2>1. waiters' = waiters /\ \A u \in Thread : Enqueued(u, s)' <=> Enqueued(u, s)
    BY <1>2, <1>a, EnqueuedStep, Zenon
  <2>. QED  BY <1>b, <2>1, Zenon
<1>3. CASE EnterEnqueue(cpu) /\ arg[cpu] = s
  <2>1. waiters'[s] = Append(q, cpu)
    BY <1>a, <1>3, Zenon DEF EnterEnqueue
  <2>2. cpu \notin Members(q)
    BY <1>a, <1>b, <1>3, Zenon DEF EnterEnqueue, Enqueued
  <2>3. {t \in Thread : Enqueued(t, s)'} = Members(q) \union {cpu}
    BY <1>a, <1>b, <1>3 DEF EnterEnqueue, Enqueued
  <2>4. /\ Len(q) \in Nat /\ DOMAIN q = 1..Len(q)
        /\ DOMAIN Append(q, cpu) = 1..(Len(q) + 1)
        /\ \A i \in 1..Len(q) : Append(q, cpu)[i] = q[i]
        /\ Append(q, cpu)[Len(q) + 1] = cpu
    BY <1>a, <1>b
  <2>. HIDE DEF q
  <2>5. Members(Append(q, cpu)) = Members(q) \union {cpu}
    BY <2>4 DEF Members
  <2>6. \A i, j \in 1..(Len(q) + 1) : Append(q, cpu)[i] = Append(q, cpu)[j] => i = j
    BY <1>b, <2>2, <2>4 DEF Members
  <2>. QED  BY <2>1, <2>3, <2>4, <2>5, <2>6, Zenon
<1>4. CASE EnterDequeue(cpu) /\ arg[cpu] = s
  <2>1. waiters'[s] = Without(q, cpu)
    BY <1>a, <1>4, Zenon DEF EnterDequeue
  <2>2. cpu \in Members(q)
    BY <1>a, <1>b, <1>4, Zenon DEF EnterDequeue, Enqueued
  <2>3. {t \in Thread : Enqueued(t, s)'} = Members(q) \ {cpu}
    BY <1>a, <1>b, <1>4, Zenon DEF EnterDequeue, Enqueued
  <2>. HIDE DEF q
  <2>. QED  BY <1>b, <2>1, <2>2, <2>3, WithoutMembers, Zenon
<1>5. CASE (EnterEnqueue(cpu) \/ EnterDequeue(cpu)) /\ arg[cpu] # s
  <2>1. waiters'[s] = q
    BY <1>a, <1>5, Zenon DEF EnterEnqueue, EnterDequeue
  <2>2. \A t \in Thread : Enqueued(t, s)' <=> Enqueued(t, s)
    BY <1>a, <1>5 DEF EnterEnqueue, EnterDequeue, Enqueued
  <2>. QED  BY <1>b, <2>1, <2>2, Zenon
<1>. QED  BY <1>1, <1>2, <1>3, <1>4, <1>5, Zenon

(* A waiter list holds exactly the threads that are between their          *)
(* list_enqueue_back (semaphore.c:97) and their list_dequeue               *)
(* (semaphore.c:117), each of them once, for any number of threads.        *)
THEOREM WaiterLists == Spec => []WaitersSound
<1>1. Init => WaitersSound
  BY DEF Init, WaitersSound, Members, Enqueued
<1>. QED  BY <1>1, WaitersStep, Inductive, PTL DEF Spec

-----------------------------------------------------------------------------
(* Counting holders and wake-ups.                                          *)

(* Holders and InFlight are finite.                                        *)
LEMMA FiniteCounts ==
  ASSUME NEW s \in Sem
  PROVE  /\ IsFiniteSet(Holders(s)) /\ Cardinality(Holders(s)) \in Nat
         /\ IsFiniteSet(InFlight(s)) /\ Cardinality(InFlight(s)) \in Nat
<1>1. IsFiniteSet(Holders(s)) /\ IsFiniteSet(InFlight(s))
  BY FS_Subset, SemaphoreAssumption, Zenon DEF Holders, InFlight
<1>. QED  BY <1>1, FS_CardinalityType, Zenon

(* A step of the abstract semaphores moves one slot between the free ones  *)
(* and a holder.                                                           *)
LEMMA SlotsStep ==
  TypeOK /\ SlotsConserved /\ [Abstract!Next]_Abstract!vars => SlotsConserved'
<1>. SUFFICES ASSUME TypeOK, SlotsConserved, [Abstract!Next]_Abstract!vars,
                     NEW s \in Sem
              PROVE  slots'[s] + Cardinality(Holders(s)') = InitSlots[s]
  BY Zenon DEF SlotsConserved
<1>. USE DEF TypeOK
<1>0. slots[s] + Cardinality(Holders(s)) = InitSlots[s] /\ slots[s] \in Nat
  BY Zenon DEF SlotsConserved
<1>1. CASE UNCHANGED Abstract!vars
  BY <1>0, <1>1, Zenon DEF Abstract!vars, Holders
<1>2. ASSUME NEW t \in Thread, NEW x \in Sem, Abstract!Enter(t, x)
      PROVE  slots'[s] + Cardinality(Holders(s)') = InitSlots[s]
  <2>1. CASE x = s
    <3>1. Holders(s)' = Holders(s) \union {t} /\ t \notin Holders(s)
      BY <1>2, <2>1 DEF Abstract!Enter, Holders
    <3>2. slots'[s] = slots[s] - 1
      BY <1>2, <2>1, Zenon DEF Abstract!Enter
    <3>3. Cardinality(Holders(s)') = Cardinality(Holders(s)) + 1
      BY <3>1, FiniteCounts, FS_AddElement, ZenonT(30)
    <3>. QED  BY <1>0, <3>2, <3>3, FiniteCounts
  <2>2. CASE x # s
    <3>1. Holders(s)' = Holders(s) /\ slots'[s] = slots[s]
      BY <1>2, <2>2, Zenon DEF Abstract!Enter, Holders
    <3>. QED  BY <1>0, <3>1, Zenon
  <2>. QED  BY <2>1, <2>2, Zenon
<1>3. ASSUME NEW t \in Thread, NEW x \in Sem, Abstract!Leave(t, x)
      PROVE  slots'[s] + Cardinality(Holders(s)') = InitSlots[s]
  <2>1. CASE x = s
    <3>1. Holders(s)' = Holders(s) \ {t} /\ t \in Holders(s)
      BY <1>3, <2>1, Zenon DEF Abstract!Leave, Holders
    <3>2. slots'[s] = slots[s] + 1
      BY <1>3, <2>1 DEF Abstract!Leave
    <3>3. Cardinality(Holders(s)') = Cardinality(Holders(s)) - 1
      BY <3>1, FiniteCounts, FS_RemoveElement, ZenonT(30)
    <3>. QED  BY <1>0, <3>2, <3>3, FiniteCounts
  <2>2. CASE x # s
    <3>1. Holders(s)' = Holders(s) /\ slots'[s] = slots[s]
      BY <1>3, <2>2, Zenon DEF Abstract!Leave, Holders
    <3>. QED  BY <1>0, <3>1
  <2>. QED  BY <2>1, <2>2
<1>. QED  BY <1>1, <1>2, <1>3, Zenon DEF Abstract!Next

(* The free slots and the owners of a semaphore always add up to what      *)
(* semaphore_init was given (semaphore.c:27-42): with one slot there is at *)
(* most one owner, for any number of threads.                              *)
THEOREM SlotConservation == Spec => []SlotsConserved
<1>1. Init => SlotsConserved
  <2>. SUFFICES ASSUME Init, NEW s \in Sem
                PROVE  slots[s] + Cardinality(Holders(s)) = InitSlots[s]
    BY Zenon DEF SlotsConserved
  <2>1. Holders(s) = {}
    BY Zenon DEF Init, Holders
  <2>. QED  BY <2>1, FS_EmptySet, SemaphoreAssumption DEF Init
<1>2. TypeOK /\ IInv /\ SlotsConserved /\ [Next]_vars => SlotsConserved'
  BY SlotsStep, RefinementStep, Zenon
<1>. QED  BY <1>1, <1>2, Inductive, PTL DEF Spec

-----------------------------------------------------------------------------
(* Wake-ups.  NoLostWakeup for one semaphore.                              *)
Covered(s) ==
  Waiting(s) # {} =>
    \/ Cardinality(InFlight(s)) >= slots[s]
    \/ \E t \in Thread :
         /\ InCritical(t, s) /\ at[t] = "wake"
         /\ Cardinality(InFlight(s)) + 1 >= slots[s]

(* A step that frees no slot, puts nobody to sleep and turns back nobody   *)
(* who is on the way to the slots loses no wake-up.                        *)
LEMMA QuietStep ==
  ASSUME NEW s \in Sem, Covered(s),
         slots[s] \in Nat, slots'[s] \in Nat, slots'[s] <= slots[s],
         Waiting(s)' \subseteq Waiting(s),
         InFlight(s) \subseteq InFlight(s)',
         \A t \in Thread : InCritical(t, s) /\ at[t] = "wake"
                             => InCritical(t, s)' /\ at'[t] = "wake"
  PROVE  Covered(s)'
<1>1. /\ IsFiniteSet(InFlight(s)') /\ Cardinality(InFlight(s)') \in Nat
      /\ Cardinality(InFlight(s)) \in Nat
  BY FS_Subset, FS_CardinalityType, SemaphoreAssumption, Zenon DEF InFlight
<1>2. Cardinality(InFlight(s)) <= Cardinality(InFlight(s)')
  BY <1>1, FS_Subset, Zenon
<1>. QED  BY <1>1, <1>2 DEF Covered

(* What the steps outside of semaphore_leave do to sleepers and threads on *)
(* their way to the slots.                                                 *)
LEMMA MostStepsQuiet ==
  ASSUME TypeOK, IInv, WaitersSound, Next, NEW s \in Sem,
         ~LeaveFree(cpu), ~LeaveWake(cpu), ~EnterTake(cpu),
         ~EnterSleep(cpu), ~EnterEnqueue(cpu)
  PROVE  /\ slots'[s] <= slots[s]
         /\ Waiting(s)' \subseteq Waiting(s)
         /\ InFlight(s) \subseteq InFlight(s)'
         /\ \A t \in Thread : InCritical(t, s) /\ at[t] = "wake"
                                => InCritical(t, s)' /\ at'[t] = "wake"
<1>a. /\ cpu \in Thread /\ at \in [Thread -> Points] /\ arg \in [Thread -> Sem]
      /\ op \in [Thread -> FunctionNames] /\ got \in [Thread -> BOOLEAN]
      /\ slots \in [Sem -> Nat]
      /\ waiters \in [Sem -> Seq(Thread)]
  BY Zenon DEF TypeOK
<1>b. Control
  BY Zenon DEF IInv
<1>1. slots'[s] <= slots[s]
  <2>1. CASE TryEnter(cpu)
    <3>1. slots' = slots \/ slots' = [slots EXCEPT ![arg[cpu]] = @ - 1]
      BY <2>1, Zenon DEF TryEnter
    <3>2. slots[s] \in Nat /\ slots'[s] \in {slots[s], slots[s] - 1}
      BY <1>a, <3>1
    <3>. QED  BY <3>2
  <2>2. CASE UNCHANGED slots
    BY <1>a, <2>2, SMTT(30)
  <2>3. TryEnter(cpu) \/ UNCHANGED slots
    BY Zenon DEF Next, Calls, CallEnter, CallTryEnter, CallLeave, Call, Spin, SpinTest,
      SpinXchg, Enter, EnterReturn, EnterEnqueue, EnterBlocked,
      EnterDequeue, EnterRetry, Unlock, Leave, LeaveReturn, SchedSwitch, Preempt
  <2>. QED  BY <2>1, <2>2, <2>3, Zenon
<1>s. UNCHANGED state
  BY Zenon DEF Next, Calls, CallEnter, CallTryEnter, CallLeave, Call, Spin, SpinTest,
    SpinXchg, Enter, EnterReturn, EnterEnqueue, EnterBlocked, TryEnter,
    EnterDequeue, EnterRetry, Unlock, Leave, LeaveReturn, SchedSwitch, Preempt
<1>2. Waiting(s)' \subseteq Waiting(s)
  <2>0. WaitersSound'
    BY WaitersStep, Zenon
  <2>1. CASE ~EnterDequeue(cpu)
    <3>1. waiters' = waiters
      BY <1>a, <2>1, EnqueuedStep, Zenon
    <3>. QED  BY <1>s, <3>1, Zenon DEF Waiting
  <2>3. CASE EnterDequeue(cpu)
    <3>1. \A t \in Thread : Enqueued(t, s)' => Enqueued(t, s)
      BY <1>a, <2>3, Zenon DEF EnterDequeue, Enqueued
    <3>. QED  BY <1>s, <2>0, <3>1 DEF Waiting, WaitersSound
  <2>. QED  BY <2>1, <2>3, Zenon
<1>c. ASSUME NEW t \in Thread
      PROVE  /\ t \in InFlight(s) => t \in InFlight(s)'
             /\ InCritical(t, s) /\ at[t] = "wake" => InCritical(t, s)' /\ at'[t] = "wake"
  <2>. USE DEF InFlight, InCritical
  <2>1. CASE Calls(cpu)
    <3>1. PICK r \in Sem, f \in FunctionNames : Call(cpu, f, r)
      BY <2>1, Zenon DEF Calls, CallEnter, CallTryEnter, CallLeave, FunctionNames
    <3>. QED  BY <1>a, <1>b, <3>1, Zenon DEF Control, Call
  <2>2. CASE Spin(cpu)
    BY <1>a, <2>2, Zenon DEF Spin, SpinTest, SpinXchg
  <2>3. CASE TryEnter(cpu)
    BY <1>a, <2>3, Zenon DEF TryEnter
  <2>4. CASE EnterReturn(cpu) \/ EnterBlocked(cpu) \/ EnterRetry(cpu) \/ LeaveReturn(cpu)
    BY <1>a, <2>4, Zenon DEF EnterReturn, EnterBlocked, EnterRetry, LeaveReturn, Unlock
  <2>5. CASE \E next \in Thread : SchedSwitch(cpu, next) \/ Preempt(next)
    BY <1>a, <1>b, <2>5, Zenon DEF Control, SchedSwitch, Preempt
  <2>6. CASE EnterDequeue(cpu)
    BY <1>a, <2>6, Zenon DEF EnterDequeue
  <2>. QED  BY <2>1, <2>2, <2>3, <2>4, <2>5, <2>6, Zenon DEF Next, Enter, Leave
<1>3. InFlight(s) \subseteq InFlight(s)'
  BY <1>c, Zenon DEF InFlight
<1>. QED  BY <1>1, <1>2, <1>3, <1>c, Zenon

(* semaphore_leave, which freed a slot, wakes the first sleeper, if there  *)
(* is one.                                                                 *)
LEMMA LeaveWakeStep ==
  ASSUME TypeOK, IInv, WaitersSound, NEW s \in Sem, Covered(s), LeaveWake(cpu)
  PROVE  Covered(s)'
<1>a. /\ cpu \in Thread /\ at \in [Thread -> Points] /\ arg \in [Thread -> Sem]
      /\ op \in [Thread -> FunctionNames]
      /\ slots \in [Sem -> Nat] /\ state \in [Thread -> {"READY", "WAITING"}]
      /\ waiters \in [Sem -> Seq(Thread)]
  BY Zenon DEF TypeOK
<1>b. Control /\ Asleep /\ SpinlockExclusion
  BY Zenon DEF IInv
<1>e. Cardinality(InFlight(s)') \in Nat /\ Cardinality(InFlight(s)) \in Nat
  BY FS_Subset, FS_CardinalityType, SemaphoreAssumption, Zenon DEF InFlight
<1>0. arg[cpu] \in Sem /\ waiters' = waiters /\ slots' = slots /\ slots[s] \in Nat
  BY <1>a, Zenon DEF LeaveWake
<1>1. CASE \A i \in DOMAIN waiters[arg[cpu]] : state[waiters[arg[cpu]][i]] # "WAITING"
  <2>1. UNCHANGED state
    BY <1>1, Zenon DEF LeaveWake, IsFirstWaiting
  <2>2. CASE arg[cpu] = s
    BY <1>0, <1>1, <2>1, <2>2 DEF Covered, Waiting, Members
  <2>3. CASE arg[cpu] # s
    <3>1. InFlight(s) \subseteq InFlight(s)'
      BY <1>a, <1>b, <2>1, Zenon DEF InFlight, LeaveWake, Control
    <3>2. \A t \in Thread : InCritical(t, s) /\ at[t] = "wake"
                              => InCritical(t, s)' /\ at'[t] = "wake"
      BY <1>a, <2>3, Zenon DEF InCritical, LeaveWake
    <3>3. Waiting(s)' = Waiting(s) /\ slots'[s] = slots[s]
      BY <1>0, <2>1, Zenon DEF Waiting
    <3>. QED  BY <1>0, <3>1, <3>2, <3>3, QuietStep, SMTT(30)
  <2>. QED  BY <2>2, <2>3, Zenon
<1>2. ASSUME NEW i \in DOMAIN waiters[arg[cpu]],
             state[waiters[arg[cpu]][i]] = "WAITING",
             state' = [state EXCEPT ![waiters[arg[cpu]][i]] = "READY"]
      PROVE  Covered(s)'
  <2>. DEFINE w == waiters[arg[cpu]][i]
  <2>1. w \in Thread /\ Enqueued(w, arg[cpu]) /\ state[w] = "WAITING"
    BY <1>a, <1>0, <1>2 DEF WaitersSound, Members
  <2>. HIDE DEF w
  <2>2. w # cpu /\ ~InCritical(w, arg[cpu])
    <3>1. InCritical(cpu, arg[cpu]) /\ at[cpu] = "wake"
      BY Zenon DEF LeaveWake, InCritical
    <3>2. w # cpu
      BY <1>a, <1>b, <2>1, <3>1, Zenon DEF Asleep
    <3>. QED  BY <1>0, <1>a, <1>b, <2>1, <3>1, <3>2, Zenon DEF SpinlockExclusion
  <2>3. op[w] = "dequeue" /\ arg[w] = arg[cpu]
    BY <2>1, <2>2, Zenon DEF Enqueued, InCritical
  <2>4. /\ state'[w] = "READY" /\ \A t \in Thread \ {w} : state'[t] = state[t]
        /\ op' = op /\ arg' = arg /\ \A t \in Thread \ {cpu} : at'[t] = at[t]
        /\ op[cpu] = "leave" /\ at[cpu] = "wake"
    BY <1>a, <1>b, <1>2, <2>1, Zenon DEF LeaveWake, Control, w
  <2>5. CASE arg[cpu] = s
    <3>1. w \notin InFlight(s) /\ InFlight(s)' = InFlight(s) \union {w}
      BY <2>1, <2>2, <2>3, <2>4, <2>5, ZenonT(30) DEF InFlight
    <3>2. Cardinality(InFlight(s)') = Cardinality(InFlight(s)) + 1
      BY <3>1, FiniteCounts, FS_AddElement, ZenonT(30)
    <3>3. w \in Waiting(s)
      BY <1>a, <2>1, <2>5, Zenon DEF Waiting, WaitersSound
    <3>. QED  BY <1>e, <1>0, <3>2, <3>3, SMTT(30) DEF Covered
  <2>6. CASE arg[cpu] # s
    <3>1. InFlight(s) \subseteq InFlight(s)'
      BY <1>a, <2>1, <2>2, <2>4, Zenon DEF InFlight
    <3>2. \A t \in Thread : InCritical(t, s) /\ at[t] = "wake"
                              => InCritical(t, s)' /\ at'[t] = "wake"
      BY <1>a, <2>4, <2>6, Zenon DEF InCritical
    <3>3. Members(waiters[s]) \subseteq Thread
      BY Zenon DEF WaitersSound
    <3>4. Waiting(s)' \subseteq Waiting(s)
      BY <1>0, <2>1, <2>4, <3>3 DEF Waiting
    <3>. QED  BY <1>0, <3>1, <3>2, <3>4, QuietStep
  <2>. QED  BY <2>5, <2>6, Zenon
<1>. QED  BY <1>1, <1>2, Zenon DEF LeaveWake, IsFirstWaiting

(* Every step of a thread keeps every semaphore covered.                   *)
LEMMA WakeupStep ==
  TypeOK /\ IInv /\ WaitersSound /\ NoLostWakeup /\ [Next]_vars => NoLostWakeup'
<1>. SUFFICES ASSUME TypeOK, IInv, WaitersSound, NoLostWakeup, [Next]_vars,
                     NEW s \in Sem
              PROVE  Covered(s)'
  BY Zenon DEF NoLostWakeup, Covered
<1>a. /\ cpu \in Thread /\ at \in [Thread -> Points] /\ arg \in [Thread -> Sem]
      /\ op \in [Thread -> FunctionNames] /\ got \in [Thread -> BOOLEAN]
      /\ slots \in [Sem -> Nat] /\ state \in [Thread -> {"READY", "WAITING"}]
      /\ waiters \in [Sem -> Seq(Thread)]
  BY Zenon DEF TypeOK
<1>b. Control /\ Asleep /\ SpinlockExclusion
  BY Zenon DEF IInv
<1>c. Covered(s)
  BY Zenon DEF NoLostWakeup, Covered
<1>d. slots[s] \in Nat /\ slots'[s] \in Nat
  <2>1. TypeOK'
    BY TypeStep, Zenon
  <2>. QED  BY <1>a, <2>1, Zenon DEF TypeOK
<1>e. Cardinality(InFlight(s)') \in Nat /\ Cardinality(InFlight(s)) \in Nat
  BY FS_Subset, FS_CardinalityType, SemaphoreAssumption, Zenon DEF InFlight
<1>1. CASE UNCHANGED vars
  BY <1>1, <1>c, Zenon DEF vars, Covered, Waiting, InFlight, InCritical
<1>2. CASE Next /\ ~LeaveFree(cpu) /\ ~LeaveWake(cpu) /\ ~EnterTake(cpu)
           /\ ~EnterSleep(cpu) /\ ~EnterEnqueue(cpu)
  BY <1>2, <1>c, <1>d, MostStepsQuiet, QuietStep, Zenon
<1>3. CASE (EnterSleep(cpu) \/ EnterEnqueue(cpu)) /\ arg[cpu] = s
  <2>1. slots'[s] = 0
    BY <1>a, <1>b, <1>3, Zenon DEF Control, EnterSleep, EnterEnqueue
  <2>. QED  BY <1>e, <2>1 DEF Covered
<1>4. CASE (EnterSleep(cpu) \/ EnterEnqueue(cpu) \/ EnterTake(cpu) \/ LeaveFree(cpu)) /\ arg[cpu] # s
  <2>1. slots'[s] <= slots[s] /\ waiters'[s] = waiters[s]
    BY <1>a, <1>4 DEF EnterSleep, EnterEnqueue, EnterTake, LeaveFree
  <2>2. InFlight(s) \subseteq InFlight(s)'
    BY <1>a, <1>4, Zenon DEF InFlight, EnterSleep, EnterEnqueue, EnterTake, LeaveFree
  <2>3. \A t \in Thread : InCritical(t, s) /\ at[t] = "wake"
                            => InCritical(t, s)' /\ at'[t] = "wake"
    BY <1>a, <1>4, Zenon DEF InCritical, EnterSleep, EnterEnqueue, EnterTake, LeaveFree
  <2>4. cpu \notin Members(waiters[s])
    BY <1>a, <1>4 DEF WaitersSound, Enqueued
  <2>5. \A t \in Thread \ {cpu} : state'[t] = state[t]
    BY <1>a, <1>4, Zenon DEF EnterSleep, EnterEnqueue, EnterTake, LeaveFree
  <2>6. Members(waiters[s]) \subseteq Thread
    BY Zenon DEF WaitersSound
  <2>7. Waiting(s)' \subseteq Waiting(s)
    BY <2>1, <2>4, <2>5, <2>6, ZenonT(30) DEF Waiting
  <2>. QED  BY <1>c, <1>d, <2>1, <2>2, <2>3, <2>7, QuietStep
<1>5. CASE EnterTake(cpu) /\ arg[cpu] = s
  <2>1. slots'[s] = slots[s] - 1 /\ slots[s] \in Nat
    BY <1>a, <1>5, Zenon DEF EnterTake
  <2>2. state[cpu] = "READY"
    BY <1>a, <1>b, <1>5, Zenon DEF Asleep, EnterTake
  <2>3. cpu \in InFlight(s) /\ InFlight(s)' = InFlight(s) \ {cpu}
    BY <1>a, <1>5, <2>2 DEF InFlight, EnterTake
  <2>4. Cardinality(InFlight(s)') = Cardinality(InFlight(s)) - 1
    BY <2>3, FiniteCounts, FS_RemoveElement, ZenonT(30)
  <2>5. Waiting(s)' = Waiting(s)
    BY <1>5, Zenon DEF EnterTake, Waiting
  <2>6. \A t \in Thread : ~(InCritical(t, s) /\ at[t] = "wake")
    BY <1>a, <1>b, <1>5, Zenon DEF EnterTake, InCritical, SpinlockExclusion
  <2>. QED  BY <1>c, <1>e, <2>1, <2>4, <2>5, <2>6, SMTT(30) DEF Covered
<1>6. CASE LeaveFree(cpu) /\ arg[cpu] = s
  <2>1. slots'[s] = slots[s] + 1 /\ slots[s] \in Nat
    BY <1>a, <1>6, Zenon DEF LeaveFree
  <2>2. InFlight(s)' = InFlight(s)
    BY <1>a, <1>6, Zenon DEF InFlight, LeaveFree
  <2>3. Waiting(s)' = Waiting(s)
    BY <1>6, Zenon DEF LeaveFree, Waiting
  <2>4. \A t \in Thread : ~(InCritical(t, s) /\ at[t] = "wake")
    BY <1>a, <1>b, <1>6 DEF LeaveFree, InCritical, SpinlockExclusion
  <2>5. \E t \in Thread : InCritical(t, s)' /\ at'[t] = "wake"
    BY <1>a, <1>6, Zenon DEF LeaveFree, InCritical
  <2>6. Waiting(s) # {} => Cardinality(InFlight(s)) >= slots[s]
    BY <1>c, <2>4 DEF Covered
  <2>7. Waiting(s)' # {} => Cardinality(InFlight(s)') + 1 >= slots'[s]
    BY <1>e, <2>1, <2>2, <2>3, <2>6, SMTT(30)
  <2>. QED  BY <2>5, <2>7, Zenon DEF Covered
<1>7. CASE LeaveWake(cpu)
  BY <1>7, <1>c, LeaveWakeStep
<1>. QED  BY <1>1, <1>2, <1>3, <1>4, <1>5, <1>6, <1>7, Zenon

(* No wake-up is lost although semaphore_leave wakes one thread only and   *)
(* skips those that were woken before (semaphore.c:149-153), for any       *)
(* number of threads and slots.                                            *)
THEOREM WakeupsNotLost == Spec => []NoLostWakeup
<1>1. Init => NoLostWakeup
  BY DEF Init, NoLostWakeup, Waiting, Members
<1>. QED  BY <1>1, WakeupStep, WaiterLists, Inductive, PTL DEF Spec

-----------------------------------------------------------------------------
(* Were all threads asleep, the one whose semaphore ranks highest would    *)
(* wait for a slot that nobody owns.                                       *)
LEMMA NotAllAsleep ==
  TypeOK /\ IInv /\ WaitersSound /\ NoLostWakeup /\ SlotsConserved => SomeThreadReady
<1>. SUFFICES ASSUME TypeOK, IInv, WaitersSound, NoLostWakeup, SlotsConserved,
                     \A t \in Thread : state[t] = "WAITING"
              PROVE  FALSE
  BY Zenon DEF SomeThreadReady, Ready, TypeOK
<1>a. /\ at \in [Thread -> Points] /\ arg \in [Thread -> Sem]
      /\ slots \in [Sem -> Nat] /\ held \in [Thread -> SUBSET Sem]
      /\ Rank \in [Sem -> Nat] /\ InitSlots \in [Sem -> Nat \ {0}]
      /\ Thread # {} /\ IsFiniteSet(Sem)
  BY SemaphoreAssumption, Zenon DEF TypeOK
<1>1. ASSUME NEW t \in Thread
      PROVE  \E u \in Thread : Rank[arg[t]] < Rank[arg[u]]
  <2>. DEFINE s == arg[t]
  <2>0. s \in Sem
    BY <1>a, Zenon
  <2>1. Enqueued(t, s) /\ \A u \in Thread : at[u] # "wake"
    BY Zenon DEF IInv, Asleep, Enqueued
  <2>. HIDE DEF s
  <2>2. t \in Waiting(s)
    BY <2>0, <2>1, Zenon DEF Waiting, WaitersSound
  <2>3. InFlight(s) = {}
    BY Zenon DEF InFlight
  <2>4. Cardinality(InFlight(s)) >= slots[s]
    BY <2>0, <2>1, <2>2, Zenon DEF NoLostWakeup
  <2>5. slots[s] = 0
    BY <1>a, <2>0, <2>3, <2>4, FS_EmptySet
  <2>6. Cardinality(Holders(s)) # 0
    BY <1>a, <2>0, <2>5, FiniteCounts DEF SlotsConserved
  <2>7. PICK u \in Thread : s \in held[u]
    BY <2>6, FS_EmptySet, Zenon DEF Holders
  <2>8. Acquiring(u)
    BY Zenon DEF IInv, Asleep, Acquiring
  <2>9. Rank[s] < Rank[arg[u]]
    BY <2>7, <2>8, Zenon DEF IInv, Control, RespectsOrder
  <2>. QED  BY <2>9, Zenon DEF s
<1>. DEFINE A(t) == {x \in Sem : Rank[x] > Rank[arg[t]]}
            T == {A(t) : t \in Thread}
            R == StrictSubsetOrdering(Sem)
<1>2. T \subseteq FiniteSubsetsOf(Sem) /\ T # {}
  <2>1. \A t \in Thread : A(t) \subseteq Sem /\ IsFiniteSet(A(t))
    BY <1>a, FS_Subset, Zenon
  <2>2. \A t \in Thread : A(t) \in FiniteSubsetsOf(Sem)
    BY <2>1, Zenon DEF FiniteSubsetsOf
  <2>. HIDE DEF A
  <2>3. PICK t \in Thread : TRUE
    BY <1>a, Zenon
  <2>4. A(t) \in T
    BY <2>3, Zenon
  <2>. QED  BY <2>2, <2>4, Zenon
<1>3. IsWellFoundedOn(R, FiniteSubsetsOf(Sem))
  BY FS_StrictSubsetOrderingWellFounded, Zenon
<1>4. PICK t \in Thread : \A u \in Thread : <<A(u), A(t)>> \notin R
  <2>. HIDE DEF R
  <2>1. \E x \in T : \A y \in T : ~ (<<y, x>> \in R)
    BY <1>2, <1>3, WFMin, ZenonT(30)
  <2>. QED  BY <2>1, ZenonT(30)
<1>5. PICK u \in Thread : Rank[arg[t]] < Rank[arg[u]]
  BY <1>1, Zenon
<1>6. A(u) \subseteq A(t) /\ A(u) # A(t) /\ A(t) \subseteq Sem
  <2>1. arg[u] \in A(t) /\ arg[u] \notin A(u)
    BY <1>a, <1>5
  <2>2. \A x \in Sem : Rank[x] > Rank[arg[u]] => Rank[x] > Rank[arg[t]]
    BY <1>a, <1>5
  <2>. QED  BY <2>1, <2>2, Zenon
<1>7. <<A(u), A(t)>> \in R
  <2>. HIDE DEF A
  <2>. QED  BY <1>6, Zenon DEF StrictSubsetOrdering
<1>. QED  BY <1>4, <1>7, Zenon

(* There is always a runnable thread (sched.c:264-265): semaphores entered *)
(* in a fixed order (vmem.c:262-285) never put all threads to sleep, for   *)
(* any number of threads and semaphores.                                   *)
THEOREM AlwaysRunnable == Spec => []SomeThreadReady
  BY NotAllAsleep, Inductive, WaiterLists, WakeupsNotLost, SlotConservation, PTL
=============================================================================
