------------------------------ MODULE Semaphore ------------------------------
(***************************************************************************)
(* The sleeping semaphores of semaphore.c on top of the busy-waiting locks *)
(* of spinlock.c, as executed by the threads of a single CPU.              *)
(*                                                                         *)
(* Every thread alternates between code outside the semaphore functions    *)
(* (at = "run") and a call of semaphore_enter, semaphore_leave or          *)
(* semaphore_try_enter, of which each access to shared memory is a step.   *)
(* Threads interleave where the kernel lets them: at sched_switch, and at  *)
(* the timer interrupt when the running thread has interrupts enabled.     *)
(* Which READY thread the scheduler picks is left open here; module Sched  *)
(* models that choice.                                                     *)
(***************************************************************************)
EXTENDS Naturals, Sequences, FiniteSets, Lists

CONSTANTS
  Thread,       \* the threads of the system
  Sem,          \* the semaphores
  InitSlots,    \* InitSlots[s]: the argument of semaphore_init(s, slots)
  Rank,         \* Rank[s]: position of s in the kernel's locking order
  Preemptible,  \* threads that run kernel code with interrupts enabled
  TryCallers,   \* threads that call semaphore_try_enter (none in the kernel)
  Free          \* the value 0 of an unlocked spinlock

ASSUME SemaphoreAssumption ==
  /\ InitSlots \in [Sem -> Nat \ {0}]
  /\ Rank \in [Sem -> Nat]
  /\ Preemptible \subseteq Thread
  /\ TryCallers \subseteq Thread
  /\ Thread # {}
  /\ Sem # {}
  /\ Free \notin Thread
  /\ IsFiniteSet(Thread)
  /\ IsFiniteSet(Sem)

VARIABLES
  lock,      \* lock[s]: the spinlock word sem->lock, Free or the uid last written
  slots,     \* slots[s]: sem->slots
  waiters,   \* waiters[s]: sem->waiters, front first
  state,     \* state[t]: tcb->state
  cpu,       \* g_current_thread of the only CPU
  at,        \* at[t]: the next access of t, "run" outside the functions
  op,        \* op[t]: the function that t executes
  arg,       \* arg[t]: the semaphore that function was called with
  got,       \* got[t]: the local variable avail of semaphore_enter
  held       \* held[t]: the semaphores of which t owns a slot (history)

vars == <<lock, slots, waiters, state, cpu, at, op, arg, got, held>>

Points == {"run", "test", "xchg", "body", "sleep", "wake", "unlock", "switch"}

\* "enter" and "dequeue" are the two critical sections of semaphore_enter.
FunctionNames == {"enter", "dequeue", "leave", "try"}

TypeOK ==
  /\ lock \in [Sem -> Thread \union {Free}]
  /\ slots \in [Sem -> Nat]
  /\ waiters \in [Sem -> Seq(Thread)]
  /\ state \in [Thread -> {"READY", "WAITING"}]
  /\ cpu \in Thread
  /\ at \in [Thread -> Points]
  /\ op \in [Thread -> FunctionNames]
  /\ arg \in [Thread -> Sem]
  /\ got \in [Thread -> BOOLEAN]
  /\ held \in [Thread -> SUBSET Sem]

-----------------------------------------------------------------------------
(* semaphore_init for every semaphore; all threads run and own nothing.    *)

Init ==
  /\ lock = [s \in Sem |-> Free]
  /\ slots = InitSlots
  /\ waiters = [s \in Sem |-> <<>>]
  /\ state = [t \in Thread |-> "READY"]
  /\ cpu \in Thread
  /\ at = [t \in Thread |-> "run"]
  /\ op = [t \in Thread |-> "leave"]
  /\ arg = [t \in Thread |-> CHOOSE s \in Sem : TRUE]
  /\ got = [t \in Thread |-> FALSE]
  /\ held = [t \in Thread |-> {}]

-----------------------------------------------------------------------------
(* Calls.  The callers in vmem.c and pmem.c enter a second semaphore only  *)
(* above the ones they own (semaphore_enter_ordered, and the frame map     *)
(* below every address space), and leave only what they entered.           *)

Call(t, f, s) ==
  /\ at[t] = "run"
  /\ at' = [at EXCEPT ![t] = "test"]
  /\ op' = [op EXCEPT ![t] = f]
  /\ arg' = [arg EXCEPT ![t] = s]
  /\ UNCHANGED <<lock, slots, waiters, state, cpu, got, held>>

\* Mutant: entering in any order.
RespectsNoOrder(t, s) == s \notin held[t]

RespectsOrder(t, s) == \A h \in held[t] : Rank[h] < Rank[s]

CallEnter(t, s) == RespectsOrder(t, s) /\ Call(t, "enter", s)

CallTryEnter(t, s) ==
  t \in TryCallers /\ RespectsOrder(t, s) /\ Call(t, "try", s)

CallLeave(t, s) == s \in held[t] /\ Call(t, "leave", s)

-----------------------------------------------------------------------------
(* spinlock_lock: test the word until it is 0, then exchange it with the   *)
(* thread's uid.  The exchange writes the uid even when it loses the race. *)

SpinTest(t) ==
  /\ at[t] = "test"
  /\ lock[arg[t]] = Free
  /\ at' = [at EXCEPT ![t] = "xchg"]
  /\ UNCHANGED <<lock, slots, waiters, state, cpu, op, arg, got, held>>

\* Mutant: a plain store in place of the exchange.
SpinStore(t) ==
  /\ at[t] = "xchg"
  /\ lock' = [lock EXCEPT ![arg[t]] = t]
  /\ at' = [at EXCEPT ![t] = "body"]
  /\ UNCHANGED <<slots, waiters, state, cpu, op, arg, got, held>>

SpinXchg(t) ==
  /\ at[t] = "xchg"
  /\ lock' = [lock EXCEPT ![arg[t]] = t]
  /\ at' = [at EXCEPT ![t] = IF lock[arg[t]] = Free THEN "body" ELSE "test"]
  /\ UNCHANGED <<slots, waiters, state, cpu, op, arg, got, held>>

-----------------------------------------------------------------------------
(* The first critical section of semaphore_enter.                          *)

\* Mutant: no test of the slots.
EnterTakeAlways(t) ==
  /\ at[t] = "body" /\ op[t] = "enter"
  /\ slots' = [slots EXCEPT ![arg[t]] = @ - 1]
  /\ held' = [held EXCEPT ![t] = @ \union {arg[t]}]
  /\ got' = [got EXCEPT ![t] = TRUE]
  /\ at' = [at EXCEPT ![t] = "unlock"]
  /\ UNCHANGED <<lock, waiters, state, cpu, op, arg>>

EnterTake(t) ==
  /\ at[t] = "body" /\ op[t] = "enter"
  /\ slots[arg[t]] > 0
  /\ slots' = [slots EXCEPT ![arg[t]] = @ - 1]
  /\ held' = [held EXCEPT ![t] = @ \union {arg[t]}]
  /\ got' = [got EXCEPT ![t] = TRUE]
  /\ at' = [at EXCEPT ![t] = "unlock"]
  /\ UNCHANGED <<lock, waiters, state, cpu, op, arg>>

EnterEnqueue(t) ==
  /\ at[t] = "body" /\ op[t] = "enter"
  /\ slots[arg[t]] = 0
  /\ waiters' = [waiters EXCEPT ![arg[t]] = Append(@, t)]
  /\ got' = [got EXCEPT ![t] = FALSE]
  /\ at' = [at EXCEPT ![t] = "sleep"]
  /\ UNCHANGED <<lock, slots, state, cpu, op, arg, held>>

EnterSleep(t) ==
  /\ at[t] = "sleep"
  /\ state' = [state EXCEPT ![t] = "WAITING"]
  /\ at' = [at EXCEPT ![t] = "unlock"]
  /\ UNCHANGED <<lock, slots, waiters, cpu, op, arg, got, held>>

(* The second one, after sched_switch returned: list_dequeue(&self->wait). *)

\* Mutant: the woken thread stays in the list.
EnterStayEnqueued(t) ==
  /\ at[t] = "body" /\ op[t] = "dequeue"
  /\ at' = [at EXCEPT ![t] = "unlock"]
  /\ UNCHANGED <<lock, slots, waiters, state, cpu, op, arg, got, held>>

EnterDequeue(t) ==
  /\ at[t] = "body" /\ op[t] = "dequeue"
  /\ waiters' = [waiters EXCEPT ![arg[t]] = Without(@, t)]
  /\ at' = [at EXCEPT ![t] = "unlock"]
  /\ UNCHANGED <<lock, slots, state, cpu, op, arg, got, held>>

-----------------------------------------------------------------------------
(* semaphore_leave: free the slot, then wake the first waiter that still   *)
(* waits.  The waiter stays in the list until it dequeues itself.          *)

LeaveFree(t) ==
  /\ at[t] = "body" /\ op[t] = "leave"
  /\ slots' = [slots EXCEPT ![arg[t]] = @ + 1]
  /\ held' = [held EXCEPT ![t] = @ \ {arg[t]}]
  /\ at' = [at EXCEPT ![t] = "wake"]
  /\ UNCHANGED <<lock, waiters, state, cpu, op, arg, got>>

IsFirstWaiting(q, i) ==
  /\ i \in DOMAIN q
  /\ state[q[i]] = "WAITING"
  /\ \A j \in 1..(i - 1) : state[q[j]] # "WAITING"

\* Mutants: only the front of the list is looked at; nobody is woken.
LeaveWakeFront(t) ==
  /\ at[t] = "wake"
  /\ LET q == waiters[arg[t]]
     IN  \/ q # <<>> /\ state' = [state EXCEPT ![q[1]] = "READY"]
         \/ q = <<>> /\ UNCHANGED state
  /\ at' = [at EXCEPT ![t] = "unlock"]
  /\ UNCHANGED <<lock, slots, waiters, cpu, op, arg, got, held>>

LeaveWakeNobody(t) ==
  /\ at[t] = "wake"
  /\ at' = [at EXCEPT ![t] = "unlock"]
  /\ UNCHANGED <<lock, slots, waiters, state, cpu, op, arg, got, held>>

LeaveWake(t) ==
  /\ at[t] = "wake"
  /\ LET q == waiters[arg[t]]
     IN  \/ \E i \in DOMAIN q :
              /\ IsFirstWaiting(q, i)
              /\ state' = [state EXCEPT ![q[i]] = "READY"]
         \/ /\ \A i \in DOMAIN q : state[q[i]] # "WAITING"
            /\ UNCHANGED state
  /\ at' = [at EXCEPT ![t] = "unlock"]
  /\ UNCHANGED <<lock, slots, waiters, cpu, op, arg, got, held>>

-----------------------------------------------------------------------------
(* semaphore_try_enter: the function returns without spinlock_unlock.      *)

\* Mutant: the slot is not taken.
TryEnterFree(t) ==
  /\ at[t] = "body" /\ op[t] = "try"
  /\ slots[arg[t]] > 0
  /\ held' = [held EXCEPT ![t] = @ \union {arg[t]}]
  /\ at' = [at EXCEPT ![t] = "run"]
  /\ UNCHANGED <<lock, slots, waiters, state, cpu, op, arg, got>>

TryEnter(t) ==
  /\ at[t] = "body" /\ op[t] = "try"
  /\ \/ /\ slots[arg[t]] > 0
        /\ slots' = [slots EXCEPT ![arg[t]] = @ - 1]
        /\ held' = [held EXCEPT ![t] = @ \union {arg[t]}]
     \/ /\ slots[arg[t]] = 0
        /\ UNCHANGED <<slots, held>>
  /\ at' = [at EXCEPT ![t] = "run"]
  /\ UNCHANGED <<lock, waiters, state, cpu, op, arg, got>>

-----------------------------------------------------------------------------
(* spinlock_unlock, and where semaphore_enter and semaphore_leave go on.   *)

Unlock(t, to, f) ==
  /\ at[t] = "unlock"
  /\ lock' = [lock EXCEPT ![arg[t]] = Free]
  /\ at' = [at EXCEPT ![t] = to]
  /\ op' = [op EXCEPT ![t] = f]
  /\ UNCHANGED <<slots, waiters, state, cpu, arg, got, held>>

\* Mutant: taking a wake-up for a slot.
EnterOwnsOnWakeup(t) ==
  /\ op[t] = "dequeue" /\ at[t] = "unlock"
  /\ lock' = [lock EXCEPT ![arg[t]] = Free]
  /\ held' = [held EXCEPT ![t] = @ \union {arg[t]}]
  /\ at' = [at EXCEPT ![t] = "run"]
  /\ op' = [op EXCEPT ![t] = "enter"]
  /\ UNCHANGED <<slots, waiters, state, cpu, arg, got>>

EnterBlocked(t) == op[t] = "enter" /\ ~got[t] /\ Unlock(t, "switch", "dequeue")

EnterRetry(t) == op[t] = "dequeue" /\ Unlock(t, "test", "enter")

EnterReturn(t) == op[t] = "enter" /\ got[t] /\ Unlock(t, "run", "enter")

LeaveReturn(t) == op[t] = "leave" /\ Unlock(t, "run", "leave")

-----------------------------------------------------------------------------
(* The CPU.  sched_switch returns in the calling thread once the scheduler *)
(* picks it again.  A timer interrupt (alarm_handler) switches as well; it *)
(* needs interrupts enabled, which system calls and kernel threads run     *)
(* without, except for the threads in Preemptible.                         *)

Ready == {t \in Thread : state[t] = "READY"}

SchedSwitch(t, next) ==
  /\ at[t] = "switch"
  /\ next \in Ready
  /\ cpu' = next
  /\ at' = [at EXCEPT ![t] = "test"]
  /\ UNCHANGED <<lock, slots, waiters, state, op, arg, got, held>>

InUserMode(t) == at[t] = "run" /\ held[t] = {}

\* Mutant: every thread runs with interrupts enabled.
PreemptAnywhere(next) ==
  /\ next \in Ready
  /\ cpu' = next
  /\ UNCHANGED <<lock, slots, waiters, state, at, op, arg, got, held>>

Preempt(next) ==
  /\ cpu \in Preemptible \/ InUserMode(cpu)
  /\ next \in Ready
  /\ cpu' = next
  /\ UNCHANGED <<lock, slots, waiters, state, at, op, arg, got, held>>

-----------------------------------------------------------------------------
Spin(t) == SpinTest(t) \/ SpinXchg(t)

Enter(t) ==
  \/ EnterTake(t) \/ EnterReturn(t)
  \/ EnterEnqueue(t) \/ EnterSleep(t) \/ EnterBlocked(t)
  \/ EnterDequeue(t) \/ EnterRetry(t)

Leave(t) == LeaveFree(t) \/ LeaveWake(t) \/ LeaveReturn(t)

Calls(t) == \E s \in Sem : CallEnter(t, s) \/ CallTryEnter(t, s) \/ CallLeave(t, s)

Next ==
  \/ Calls(cpu)
  \/ Spin(cpu)
  \/ Enter(cpu)
  \/ Leave(cpu)
  \/ TryEnter(cpu)
  \/ \E next \in Thread : SchedSwitch(cpu, next) \/ Preempt(next)

Spec == Init /\ [][Next]_vars

-----------------------------------------------------------------------------
(* Fairness.  A thread that is dispatched again and again executes its     *)
(* next instruction; a caller that owns a slot gives it back, since the    *)
(* code between semaphore_enter and semaphore_leave has no unbounded loop; *)
(* and a thread that is READY again and again when the scheduler chooses   *)
(* is eventually chosen, because sched_switch_to moves the chosen thread   *)
(* to the back of the list of its priority.                                *)

Step(t) ==
  \/ Spin(t) \/ Enter(t) \/ Leave(t) \/ TryEnter(t)
  \/ \E next \in Thread : SchedSwitch(t, next)

Dispatch(next) == SchedSwitch(cpu, next) \/ Preempt(next)

Fairness ==
  /\ \A t \in Thread : SF_vars(cpu = t /\ Step(t))
  /\ \A t \in Thread, s \in Sem : SF_vars(cpu = t /\ CallLeave(t, s))
  /\ \A next \in Thread : SF_vars(Dispatch(next))

FairSpec == Spec /\ Fairness

-----------------------------------------------------------------------------
(* Properties.                                                             *)

\* t executes between spinlock_lock and spinlock_unlock of s.
InCritical(t, s) ==
  arg[t] = s /\ at[t] \in {"body", "sleep", "wake", "unlock"}

\* t sits in the waiter list of s: from list_enqueue_back to list_dequeue.
Enqueued(t, s) ==
  /\ arg[t] = s
  /\ \/ op[t] = "enter" /\ (at[t] = "sleep" \/ (at[t] = "unlock" /\ ~got[t]))
     \/ op[t] = "dequeue" /\ at[t] \in {"switch", "test", "xchg", "body"}

Holders(s) == {t \in Thread : s \in held[t]}

Waiting(s) == {t \in Members(waiters[s]) : state[t] = "WAITING"}

\* Threads on their way to look at the slots of s without having to be woken.
InFlight(s) ==
  {t \in Thread :
     /\ arg[t] = s
     /\ state[t] = "READY"
     /\ \/ op[t] = "dequeue"
        \/ op[t] = "enter" /\ at[t] \in {"test", "xchg", "body"}}

\* t is in semaphore_enter or semaphore_try_enter and owns no slot yet.
Acquiring(t) ==
  \/ /\ op[t] \in {"enter", "dequeue", "try"}
     /\ at[t] \in {"test", "xchg", "body", "sleep", "switch"}
  \/ at[t] = "unlock" /\ (op[t] = "dequeue" \/ (op[t] = "enter" /\ ~got[t]))

(* The spinlock of a semaphore excludes: at most one thread is between     *)
(* spinlock_lock and spinlock_unlock of the same semaphore, and while one  *)
(* is, the word is not 0 (although a losing atomic_xchg may have replaced  *)
(* the owner's uid in it, spinlock.c:41).                                  *)
SpinlockExclusion ==
  \A s \in Sem, t, u \in Thread :
    InCritical(t, s) => lock[s] # Free /\ (InCritical(u, s) => u = t)

(* Slots are conserved: the free slots of a semaphore and the threads      *)
(* between their --slots (semaphore.c:89) and their ++slots                *)
(* (semaphore.c:137) always add up to the initial value, so that a         *)
(* semaphore of one slot, which vmem.c:41 and pmem.c:132 create, has at    *)
(* most one owner.                                                         *)
SlotsConserved ==
  \A s \in Sem : slots[s] + Cardinality(Holders(s)) = InitSlots[s]

(* The waiter list holds exactly the threads between list_enqueue_back     *)
(* (semaphore.c:97) and list_dequeue (semaphore.c:117), each once: the one *)
(* link of a thread (tcb->wait) is never enqueued twice.                   *)
WaitersSound ==
  \A s \in Sem :
    /\ Members(waiters[s]) = {t \in Thread : Enqueued(t, s)}
    /\ \A i, j \in DOMAIN waiters[s] : waiters[s][i] = waiters[s][j] => i = j

(* No wake-up is lost: while a thread sleeps in a semaphore's list, there  *)
(* are at least as many threads on their way to look at the slots as there *)
(* are free slots.  This is what lets semaphore_leave wake one thread only *)
(* and skip the ones "woken up by some other, concurrent invocation"       *)
(* (semaphore.c:149-153), although the slot may be taken by a third thread *)
(* before the woken one runs.                                              *)
NoLostWakeup ==
  \A s \in Sem :
    Waiting(s) # {} =>
      \/ Cardinality(InFlight(s)) >= slots[s]
      \/ \E t \in Thread :
           /\ InCritical(t, s) /\ at[t] = "wake"
           /\ Cardinality(InFlight(s)) + 1 >= slots[s]

(* There is always a runnable thread, as sched_select_thread asserts       *)
(* (sched.c:264-265): because semaphores are entered in a fixed order, the *)
(* threads cannot all sleep in waiter lists.                               *)
SomeThreadReady == Ready # {}

(* The semaphores implement counting semaphores: each --slots and ++slots  *)
(* is one Enter and one Leave, everything else is invisible to the users.  *)
Abstract == INSTANCE CountingSemaphore WITH avail <- slots, owns <- held

ImplementsCounting == Abstract!Spec

(* Only a thread that the timer interrupted inside a critical section      *)
(* makes another one spin: whenever the running thread finds the word      *)
(* taken (spinlock.c:51), the lock belongs to a descheduled thread that    *)
(* runs kernel code with interrupts enabled.  No function but              *)
(* semaphore_try_enter, which returns without unlocking                    *)
(* (semaphore.c:67), gives up the CPU with the spinlock held.              *)
SpinsOnlyForPreempted ==
  at[cpu] = "test" /\ lock[arg[cpu]] # Free =>
    \/ \E u \in Preemptible \ {cpu} : InCritical(u, arg[cpu])
    \/ TryCallers # {} /\ \A u \in Thread : ~InCritical(u, arg[cpu])

(* A sleeper is eventually woken (semaphore_enter, semaphore.c:104-120),   *)
(* if none of three things ever happens.  The timer takes the CPU from a   *)
(* thread that holds a spinlock: nothing in spinlock_lock disables         *)
(* interrupts.  Somebody calls semaphore_try_enter, which does not unlock. *)
(* Somebody enters a semaphore while owning another: a woken thread may    *)
(* find the slot taken again, so that the owner of an outer semaphore can  *)
(* starve on an inner one, and with it its sleepers.                       *)
SleeperWakes ==
  [](/\ \A t \in Thread, s \in Sem : InCritical(t, s) => cpu = t
     /\ \A t \in Thread : op[t] # "try"
     /\ \A t \in Thread : Acquiring(t) => held[t] = {})
    => \A t \in Thread : state[t] = "WAITING" ~> state[t] = "READY"

-----------------------------------------------------------------------------
(* What has to be known besides the properties for them to be inductive.   *)

\* Where in which function a thread can be, and what it then owns.
Control ==
  \A t \in Thread :
    /\ at[t] = "sleep" => op[t] = "enter" /\ ~got[t] /\ slots[arg[t]] = 0
    /\ at[t] = "wake" => op[t] = "leave"
    /\ at[t] = "switch" => op[t] = "dequeue"
    /\ at[t] = "unlock" => op[t] # "try"
    /\ at[t] = "run" => op[t] # "dequeue"
    /\ op[t] = "try" => t \in TryCallers
    /\ Acquiring(t) => RespectsOrder(t, arg[t])
    /\ op[t] = "leave" /\ at[t] \in {"test", "xchg", "body"} => arg[t] \in held[t]

\* A sleeping thread is between tcb_set_state and the return of sched_switch.
Asleep ==
  /\ \A t \in Thread :
       state[t] = "WAITING" =>
         \/ op[t] = "enter" /\ at[t] = "unlock" /\ ~got[t]
         \/ op[t] = "dequeue" /\ at[t] \in {"switch", "test"}
  /\ state[cpu] = "WAITING" => at[cpu] \in {"unlock", "switch"}

\* A taken spinlock has an owner, and only preemption deschedules it.
LockOwned ==
  \A s \in Sem :
    /\ TryCallers = {} /\ lock[s] # Free => \E t \in Thread : InCritical(t, s)
    /\ \A t \in Thread : InCritical(t, s) => t = cpu \/ t \in Preemptible
=============================================================================
