-------------------------------- MODULE Sched --------------------------------
(***************************************************************************)
(* The thread scheduler of sched.c: one list of threads per priority       *)
(* class, the voluntary sched_switch of a thread that blocks, and the      *)
(* sched_switch that the timer's alarm handler calls on top of whatever    *)
(* thread it interrupts.                                                   *)
(*                                                                         *)
(* A thread that calls sched_switch itself passes through its steps one by *)
(* one, because the idle thread does so with interrupts enabled.  In the   *)
(* alarm handler interrupts are off and sched_switch is a single step.     *)
(* tcb_switch is modelled by the context that it stores in a TCB and the   *)
(* one that it loads; both are named by the thread they belong to.         *)
(***************************************************************************)
EXTENDS Naturals, Sequences, Lists

CONSTANTS
  Thread,       \* the threads that exist or will be created
  Idle,         \* the idle thread, which also creates the others
  SysSrv,       \* the system service, scheduled before interrupts are on
  MaxPrio,      \* SCHED_NPRIOS - 1
  PrioOf,       \* PrioOf[t]: the priority given to sched_add_thread for t
  Preemptible,  \* threads whose own code runs with interrupts enabled
  InSched,      \* {Idle} if that one calls sched_switch in that state
  None          \* no thread

ASSUME SchedAssumption ==
  /\ Idle \in Thread /\ SysSrv \in Thread \ {Idle}
  /\ None \notin Thread
  /\ MaxPrio \in Nat
  /\ PrioOf \in [Thread -> 0..MaxPrio]
  /\ PrioOf[Idle] = 0
  /\ Preemptible \subseteq Thread
  /\ InSched \subseteq Preemptible \intersect {Idle}
  /\ SysSrv \notin Preemptible

VARIABLES
  state,    \* state[t]: tcb->state; BLOCKED stands for SEND, RECV and WAITING
  prio,     \* prio[t]: tcb->prio
  list,     \* list[p]: g_thread[p], front first
  cur,      \* g_current_thread[0]
  run,      \* the thread whose context the CPU executes
  saved,    \* saved[t]: the owner of the context stored in tcb->regs of t
  pc,       \* pc[t]: where t is in the scheduler's functions
  pick,     \* pick[t]: the local variable next of sched_switch_to
  self,     \* self[t]: the local variable self of sched_switch_to
  handler,  \* the thread that is inside alarm_handler, if any
  raced     \* history: the timer has interrupted a thread of InSched there

vars == <<state, prio, list, cur, run, saved, pc, pick, self, handler, raced>>

Prio == 0..MaxPrio

(* "out": in other code; "adding": in sched_add_thread; then the points of *)
(* sched_switch before each of its effects.                                *)
Points == {"out", "adding", "select", "dequeue", "enqueue", "assign", "switch"}

TypeOK ==
  /\ state \in [Thread -> {"ZOMBIE", "READY", "BLOCKED"}]
  /\ prio \in [Thread -> Prio]
  /\ list \in [Prio -> Seq(Thread)]
  /\ cur \in Thread
  /\ run \in Thread
  /\ saved \in [Thread -> Thread]
  /\ pc \in [Thread -> Points]
  /\ pick \in [Thread -> Thread \union {None}]
  /\ self \in [Thread -> Thread \union {None}]
  /\ handler \in Thread \union {None}
  /\ raced \in BOOLEAN

(* After schedule_kernel_threads, when multiboot_init enables interrupts:  *)
(* the idle thread is the current execution context, the system service is *)
(* scheduled and the alarm is queued.                                      *)
FirstList == [p \in Prio |-> IF p = 0 THEN <<Idle>> ELSE <<>>]

Init ==
  /\ state = [t \in Thread |-> IF t \in {Idle, SysSrv} THEN "READY" ELSE "ZOMBIE"]
  /\ prio = [t \in Thread |-> IF t = SysSrv THEN PrioOf[t] ELSE 0]
  /\ list = [FirstList EXCEPT ![PrioOf[SysSrv]] = Append(@, SysSrv)]
  /\ cur = Idle
  /\ run = Idle
  /\ saved = [t \in Thread |-> t]
  /\ pc = [t \in Thread |-> "out"]
  /\ pick = [t \in Thread |-> None]
  /\ self = [t \in Thread |-> None]
  /\ handler = None
  /\ raced = FALSE

-----------------------------------------------------------------------------
(* The lists.                                                              *)

InList(t, p) == t \in Members(list[p])

Added == {t \in Thread : \E p \in Prio : InList(t, p)}

\* list_dequeue(&tcb->sched) takes t out of whichever list it is in.
Dequeued(t) == [p \in Prio |-> Without(list[p], t)]

\* move_thread_to_back goes by tcb->prio.
MovedToBack(t) == [Dequeued(t) EXCEPT ![prio[t]] = Append(@, t)]

(* sched_select_thread: from the highest class down, the first thread in   *)
(* the list that is READY.                                                 *)

IsRunnable(t) == state[t] = "READY"

Runnable == {t \in Thread : IsRunnable(t)}

Selectable == {p \in Prio : Members(list[p]) \intersect Runnable # {}}

\* Mutant: the classes are walked upwards.
SelectedLowest(t) ==
  \E p \in Selectable : (\A q \in Selectable : p <= q) /\ IsFirst(t, list[p], Runnable)

Selected(t) ==
  \E p \in Selectable : (\A q \in Selectable : q <= p) /\ IsFirst(t, list[p], Runnable)

-----------------------------------------------------------------------------
(* execute_module makes a new thread READY and passes it to                *)
(* sched_add_thread, which enqueues it before it sets its priority.        *)

AddEnqueue(t, new) ==
  /\ t = Idle /\ pc[t] = "out"
  /\ new \notin Added /\ state[new] = "ZOMBIE"
  /\ state' = [state EXCEPT ![new] = "READY"]
  /\ list' = [list EXCEPT ![PrioOf[new]] = Append(@, new)]
  /\ pick' = [pick EXCEPT ![t] = new]
  /\ pc' = [pc EXCEPT ![t] = "adding"]
  /\ UNCHANGED <<prio, cur, run, saved, self, handler, raced>>

AddPrio(t) ==
  /\ pc[t] = "adding"
  /\ prio' = [prio EXCEPT ![pick[t]] = PrioOf[pick[t]]]
  /\ pick' = [pick EXCEPT ![t] = None]
  /\ pc' = [pc EXCEPT ![t] = "out"]
  /\ UNCHANGED <<state, list, cur, run, saved, self, handler, raced>>

-----------------------------------------------------------------------------
(* What threads do to each other's state.  A thread that blocks in         *)
(* semaphore_enter, ipc_recv or ipc_send_and_wait leaves another one       *)
(* READY: for semaphores see AlwaysRunnable in SemaphoreProofs, and        *)
(* the idle thread takes no part in IPC.  A thread that sends to itself    *)
(* calls sched_switch in state READY.                                      *)

Block(t) ==
  /\ pc[t] = "out"
  /\ \/ /\ \E u \in Added \ {t} : IsRunnable(u)
        /\ state' = [state EXCEPT ![t] = "BLOCKED"]
     \/ t # Idle /\ UNCHANGED state
  /\ pc' = [pc EXCEPT ![t] = "select"]
  /\ UNCHANGED <<prio, list, cur, run, saved, pick, self, handler, raced>>

Wake(t, u) ==
  /\ pc[t] = "out"
  /\ state[u] = "BLOCKED"
  /\ state' = [state EXCEPT ![u] = "READY"]
  /\ UNCHANGED <<prio, list, cur, run, saved, pc, pick, self, handler, raced>>

\* system_srv_handle_msg: the sender of a quit message.
Quit(t, u) ==
  /\ t = SysSrv /\ pc[t] = "out"
  /\ u \in Added \ {Idle, SysSrv}
  /\ state' = [state EXCEPT ![u] = "ZOMBIE"]
  /\ UNCHANGED <<prio, list, cur, run, saved, pc, pick, self, handler, raced>>

-----------------------------------------------------------------------------
(* sched_switch in its caller's own steps.                                 *)

Select(t) ==
  /\ pc[t] = "select"
  /\ \E next \in Thread : Selected(next) /\ pick' = [pick EXCEPT ![t] = next]
  /\ pc' = [pc EXCEPT ![t] = "dequeue"]
  /\ UNCHANGED <<state, prio, list, cur, run, saved, self, handler, raced>>

\* Mutant: move_thread_to_back only enqueues.
DequeueNothing(t) ==
  /\ pc[t] = "dequeue"
  /\ pc' = [pc EXCEPT ![t] = "enqueue"]
  /\ UNCHANGED <<state, prio, list, cur, run, saved, pick, self, handler, raced>>

Dequeue(t) ==
  /\ pc[t] = "dequeue"
  /\ list' = Dequeued(pick[t])
  /\ pc' = [pc EXCEPT ![t] = "enqueue"]
  /\ UNCHANGED <<state, prio, cur, run, saved, pick, self, handler, raced>>

\* The rest of move_thread_to_back, and the test for the own thread.
EnqueueTo(t, lists) ==
  /\ pc[t] = "enqueue"
  /\ list' = lists
  /\ IF pick[t] = cur
     THEN /\ pc' = [pc EXCEPT ![t] = "out"]
          /\ pick' = [pick EXCEPT ![t] = None]
          /\ UNCHANGED self
     ELSE /\ pc' = [pc EXCEPT ![t] = "assign"]
          /\ self' = [self EXCEPT ![t] = cur]
          /\ UNCHANGED pick
  /\ UNCHANGED <<state, prio, cur, run, saved, handler, raced>>

\* Mutant: the thread goes to the class of the one that calls sched_switch.
EnqueueCaller(t) == EnqueueTo(t, [list EXCEPT ![prio[t]] = Append(@, pick[t])])

\* Mutant: the thread goes to the front again.
EnqueueFront(t) == EnqueueTo(t, [list EXCEPT ![prio[pick[t]]] = <<pick[t]>> \o @])

Enqueue(t) == EnqueueTo(t, [list EXCEPT ![prio[pick[t]]] = Append(@, pick[t])])

\* Mutant: g_current_thread is left alone.
AssignNothing(t) ==
  /\ pc[t] = "assign"
  /\ pc' = [pc EXCEPT ![t] = "switch"]
  /\ UNCHANGED <<state, prio, list, cur, run, saved, pick, self, handler, raced>>

Assign(t) ==
  /\ pc[t] = "assign"
  /\ cur' = pick[t]
  /\ pc' = [pc EXCEPT ![t] = "switch"]
  /\ UNCHANGED <<state, prio, list, run, saved, pick, self, handler, raced>>

(* tcb_switch(self, next).  A resumed thread that was inside alarm_handler *)
(* returns from it, and handle_timeout queues the alarm again.             *)
Switch(t) ==
  /\ pc[t] = "switch"
  /\ saved' = [saved EXCEPT ![self[t]] = t]
  /\ run' = saved'[pick[t]]
  /\ handler' = IF handler = run' THEN None ELSE handler
  /\ pc' = [pc EXCEPT ![t] = "out"]
  /\ pick' = [pick EXCEPT ![t] = None]
  /\ self' = [self EXCEPT ![t] = None]
  /\ UNCHANGED <<state, prio, list, cur, raced>>

-----------------------------------------------------------------------------
(* The timer interrupt.  handle_timeout has dequeued the alarm before it   *)
(* calls alarm_handler, so that it fires only when no thread is inside     *)
(* alarm_handler already.  The context goes to the TCB of                  *)
(* g_current_thread, whoever is executing.                                 *)

\* Mutant: a system call leaves interrupts enabled.
InterruptibleAlways(t) == t \in Preemptible

Interruptible(t) ==
  t \in Preemptible /\ (pc[t] \in {"out", "adding"} \/ t \in InSched)

\* The idle thread calls sched_switch with interrupts enabled.
Racing == run \in InSched /\ pc[run] \notin {"out", "adding"}

AlarmKeep(next) ==
  /\ next = cur
  /\ UNCHANGED <<cur, run, saved, handler>>

AlarmSwitch(next) ==
  /\ next # cur
  /\ cur' = next
  /\ saved' = [saved EXCEPT ![cur] = run]
  /\ run' = saved'[next]
  /\ handler' = run

Alarm ==
  /\ handler = None
  /\ Interruptible(run)
  /\ \E next \in Thread :
       /\ Selected(next)
       /\ list' = MovedToBack(next)
       /\ AlarmKeep(next) \/ AlarmSwitch(next)
  /\ raced' = (raced \/ Racing)
  /\ UNCHANGED <<state, prio, pc, pick, self>>

-----------------------------------------------------------------------------
Add(t) == AddPrio(t) \/ \E new \in Thread : AddEnqueue(t, new)

Affect(t) == \E u \in Thread : Wake(t, u) \/ Quit(t, u)

SchedSwitch(t) == Select(t) \/ Dequeue(t) \/ Enqueue(t) \/ Assign(t) \/ Switch(t)

Next ==
  \/ Add(run)
  \/ Block(run)
  \/ Affect(run)
  \/ SchedSwitch(run)
  \/ Alarm

Spec == Init /\ [][Next]_vars

-----------------------------------------------------------------------------
(* Fairness: kernel code proceeds, and the timer interrupts whenever it is *)
(* let to.  Nothing makes a thread call the kernel.                        *)

Fairness ==
  /\ WF_vars(SchedSwitch(run))
  /\ WF_vars(AddPrio(run))
  /\ WF_vars(Alarm)

FairSpec == Spec /\ Fairness

-----------------------------------------------------------------------------
(* Properties.                                                             *)

\* t is in its list, but its priority is not set yet.
Adding(t) == \E u \in Thread : pc[u] = "adding" /\ pick[u] = t

\* t was taken out of its list by a thread that is about to put it back.
Moving(t) == \E u \in Thread : pc[u] = "enqueue" /\ pick[u] = t

(* No thread is lost or listed twice (move_thread_to_back, sched.c:186):   *)
(* a thread that is READY or BLOCKED is in exactly one list and there      *)
(* once, or is just being moved; and the timer, which rearranges the lists *)
(* on its own, never makes it both.                                        *)
ListsExact ==
  /\ \A p, q \in Prio : \A i \in DOMAIN list[p], j \in DOMAIN list[q] :
       list[p][i] = list[q][j] => p = q /\ i = j
  /\ \A t \in Thread : Moving(t) => t \notin Added
  /\ \A t \in Thread : state[t] # "ZOMBIE" /\ ~Moving(t) => t \in Added

(* A thread is in the list of its priority, except that the timer may see  *)
(* it between the two statements of sched_add_thread (sched.c:137-138) and *)
(* move it to the class of the idle thread, where it stays until it is     *)
(* dispatched from there or the timer moves it again.                      *)
PrioRespected ==
  \A t \in Thread, p \in Prio : InList(t, p) => p \in {prio[t], 0} \/ Adding(t)

(* sched_select_thread always finds a thread, as it asserts                *)
(* (sched.c:264-265), although the idle thread itself may be BLOCKED and   *)
(* the only other READY thread may be on its way from list to list.        *)
AlwaysFinds == pc[run] = "select" \/ Interruptible(run) => Selectable # {}

(* The same as long as the timer has not interrupted the sched_switch of a *)
(* thread that calls it with interrupts enabled (the idle thread).         *)
SelectFinds ==
  ~raced /\ (pc[run] = "select" \/ (Interruptible(run) /\ ~Racing)) => Selectable # {}

(* As long as that has not happened, every TCB holds the context of its    *)
(* own thread, and the running one is g_current_thread, except in the last *)
(* step of sched_switch_to (sched.c:220-222), which sets it before it      *)
(* switches.                                                               *)
ContextsMatch ==
  ~raced =>
    /\ pc[run] # "switch" => cur = run
    /\ \A t \in Thread : saved[t] = t

(* The scheduler first determines the highest priority class with runnable *)
(* threads (sched.c:30): a READY thread is never passed over for one of a  *)
(* lower priority, not even when it is listed in the wrong class, unless   *)
(* the choice was made before the timer interrupted sched_switch.          *)
HighestClassFirst ==
  [][~raced' /\ run' # run /\ ~Adding(run') =>
       \A t \in Thread : IsRunnable(t) => prio[t] <= prio[run']]_vars

\* t can run, is where its priority says, and nobody who can run is above it.
Topmost(t) ==
  /\ IsRunnable(t)
  /\ InList(t, prio[t]) \/ Moving(t)
  /\ \A p \in Selectable : p <= prio[t]

(* The READY threads of the highest class are scheduled in round-robin     *)
(* order with time slices (sched.c:31): such a thread runs again and       *)
(* again, whatever the other threads of its class do.                      *)
RoundRobin == \A t \in Thread : <>[]Topmost(t) => []<>(run = t)

\* Somebody passes through sched_switch again and again.
KeepsSwitching == []<><<\E t \in Thread : Enqueue(t) \/ Alarm>>_vars

(* The same where the running threads keep calling sched_switch or the     *)
(* alarm keeps firing: the rotation of move_thread_to_back                 *)
(* (sched.c:186-191) passes over nobody in the list of its priority, while *)
(* the timer does not interrupt it.                                        *)
Rotation == []~raced /\ KeepsSwitching => RoundRobin
=============================================================================
