--------------------------------- MODULE Ipc ---------------------------------
(***************************************************************************)
(* Inter-process communication: the system calls of syscall.c, the         *)
(* messages and queues of ipc.c, the system service of syssrv.c that       *)
(* receives them, and the calls that the C library makes.                  *)
(*                                                                         *)
(* System calls and the system service run with interrupts disabled.  Each *)
(* is one step up to the point where it calls sched_switch or has to wait  *)
(* for a lock.  A thread's message is the one in its TCB, so that queues   *)
(* hold the threads whose messages they link.                              *)
(***************************************************************************)
EXTENDS Naturals, Sequences, Lists

CONSTANTS
  Program,   \* the threads of programs
  Idle,      \* the idle thread, which loads programs
  SysSrv,    \* the thread of the system service
  Peers,     \* Peers[t]: the threads that program t sends messages to
  SendFlags, \* the flags that programs send with
  RecvFlags, \* the flags that programs receive with, {} if they never do
  MaxPages,  \* the largest number of pages that a message is made of
  Loads,     \* how often the idle thread still enters the semaphore below
  None       \* no thread

Thread == Program \union {Idle, SysSrv}

ASSUME IpcAssumption ==
  /\ Idle \notin Program /\ SysSrv \notin Program \union {Idle}
  /\ None \notin Thread
  /\ Peers \in [Program -> SUBSET (Program \union {SysSrv})]
  /\ MaxPages \in Nat \ {0}
  /\ Loads \in Nat

VARIABLES
  state,   \* state[t]: tcb->state
  cpu,     \* the thread that the CPU executes
  at,      \* at[t]: where t is
  inq,     \* inq[t]: tcb->ipcin, front first
  msg,     \* msg[t]: tcb->msg; of SysSrv, its local variable msg
  from,    \* from[t]: the local variable msgin of ipc_recv
  lock,    \* lock[t]: tcb->lock is taken while its owner sleeps
  vsem,    \* who is inside the semaphore of the kernel's address space
  loads,   \* how often the idle thread has entered it
  reply    \* reply[t]: what t's last system call returned, if it has returned

vars == <<state, cpu, at, inq, msg, from, lock, vsem, loads, reply>>

-----------------------------------------------------------------------------
(* Flags: an operation in the upper bits, then a bit for mmap mode and one *)
(* for error messages, and a command.                                      *)

Bit(f, i) == (f \div 2^i) % 2

Mmap(f) == Bit(f, 17) = 1

IsErrno(f) == Bit(f, 16) = 1

Command(f) == f % 2^16

\* The flags without IPC_MSG_FLAGS_RESERVED, the upper three bits.
Unreserved(f) == f % 2^29

\* IPC_MSG_FLAGS_TIMEOUT: all bits but the lowest one.
Timeout(f) == f \div 2

SendAndWait == 2^28

RecvOp == 2 * 2^28

\* exit in start.S, and crt_write in crt.c.
Exit == SendAndWait

Write == SendAndWait + 2^17 + 1

Flags ==
  {Unreserved(f) : f \in SendFlags \union RecvFlags} \union {0, 2^16, 2^17, 2^28}

Message == [snd : Thread \union {None}, flags : Flags, n : 0..MaxPages]

Points ==
  {"new", "user", "spin", "wait", "recv", "again", "map", "empty", "handle", "loading"}

TypeOK ==
  /\ state \in [Thread -> {"READY", "RECV", "WAITING", "ZOMBIE"}]
  /\ cpu \in Thread
  /\ at \in [Thread -> Points]
  /\ inq \in [Thread -> Seq(Program)]
  /\ msg \in [Thread -> Message]
  /\ from \in [Thread -> Program \union {None}]
  /\ lock \in [Thread -> BOOLEAN]
  /\ vsem \in {Idle, None}
  /\ loads \in 0..Loads
  /\ reply \in [Thread -> [err : BOOLEAN, flags : Flags] \union {None}]

Init ==
  /\ state = [t \in Thread |-> IF t \in Program THEN "ZOMBIE" ELSE "READY"]
  /\ cpu = Idle
  /\ at = [t \in Thread |->
             IF t = SysSrv THEN "empty" ELSE IF t = Idle THEN "user" ELSE "new"]
  /\ inq = [t \in Thread |-> <<>>]
  /\ msg = [t \in Thread |-> [snd |-> None, flags |-> 2^17, n |-> 0]]
  /\ from = [t \in Thread |-> None]
  /\ lock = [t \in Thread |-> FALSE]
  /\ vsem = None
  /\ loads = 0
  /\ reply = [t \in Thread |-> None]

-----------------------------------------------------------------------------
(* sched_switch: a thread of the highest priority that is READY.  The      *)
(* system service has priority 255, programs have 64, the idle thread 0.   *)

Priority(t) == IF t = SysSrv THEN 255 ELSE IF t = Idle THEN 0 ELSE 64

SchedSwitch(st) ==
  cpu' \in {t \in Thread :
              /\ st[t] = "READY"
              /\ \A u \in Thread : st[u] = "READY" => Priority(u) <= Priority(t)}

\* The timer interrupts programs and the idle thread.
Alarm ==
  /\ at[cpu] \in {"user", "loading"}
  /\ SchedSwitch(state)
  /\ UNCHANGED <<state, at, inq, msg, from, lock, vsem, loads, reply>>

\* t returns from a system call, with an error or with what is in its message.
Returns(t, err, flags) ==
  /\ at' = [at EXCEPT ![t] = "user"]
  /\ reply' = [reply EXCEPT ![t] = [err |-> err, flags |-> flags]]

-----------------------------------------------------------------------------
(* ipc_msg_init in syscall_entry_handler.  What happens to a queue when    *)
(* the message is still in it is not modelled.                             *)

Queued(t) == \E r \in Thread : t \in Members(inq[r])

Prepared(t, flags, n) ==
  [msg EXCEPT ![t] = [snd |-> t, flags |-> Unreserved(flags), n |-> n]]

InSyscall(t) == at[t] = "user" /\ ~Queued(t)

\* An unknown operation, -ENOSYS, or no such receiver, -EAGAIN.
Rejected(t) ==
  /\ at[t] = "user"
  /\ Returns(t, TRUE, 2^16)
  /\ UNCHANGED <<state, cpu, inq, msg, from, lock, vsem, loads>>

\* SYSCALL_OP_SEND and SYSCALL_OP_REPLY_AND_RECV: -ENOSYS.
NotImplemented(t) ==
  /\ InSyscall(t)
  /\ \E op \in {0, 3} : msg' = Prepared(t, op * 2^28, 0)
  /\ Returns(t, TRUE, 2^16)
  /\ UNCHANGED <<state, cpu, inq, from, lock, vsem, loads>>

(* ipc_send_and_wait up to sched_switch.  The wake-up looks at the         *)
(* receiver's state after the sender's own has been set.                   *)

Busy(r, flags) == Timeout(Unreserved(flags)) = 0 /\ state[r] # "RECV"

\* Mutant: the sender does not wait.
SentAtOnce(t, r) == IF state[r] = "RECV" THEN [state EXCEPT ![r] = "READY"] ELSE state

Sent(t, r) ==
  LET waiting == [state EXCEPT ![t] = "RECV"]
  IN  IF waiting[r] = "RECV" THEN [waiting EXCEPT ![r] = "READY"] ELSE waiting

Deliver(t, r) ==
  /\ inq' = [inq EXCEPT ![r] = Append(@, t)]
  /\ state' = Sent(t, r)
  /\ at' = [at EXCEPT ![t] = "wait"]
  /\ reply' = [reply EXCEPT ![t] = None]
  /\ SchedSwitch(state')

Send(t, r, flags, n) ==
  /\ InSyscall(t)
  /\ ~lock[r]
  /\ msg' = Prepared(t, flags, n)
  /\ IF Busy(r, flags)
     THEN Returns(t, TRUE, 2^16) /\ UNCHANGED <<state, cpu, inq>>
     ELSE Deliver(t, r)
  /\ UNCHANGED <<from, lock, vsem, loads>>

\* The receiver's lock is taken: the sender spins, with interrupts disabled.
SendSpin(t, r, flags, n) ==
  /\ InSyscall(t)
  /\ lock[r]
  /\ ~Busy(r, flags)
  /\ msg' = Prepared(t, flags, n)
  /\ at' = [at EXCEPT ![t] = "spin"]
  /\ UNCHANGED <<state, cpu, inq, from, lock, vsem, loads, reply>>

\* sched_switch has returned, and so do ipc_send_and_wait and the system call.
Return(t) ==
  /\ at[t] = "wait"
  /\ Returns(t, IsErrno(msg[t].flags),
             IF IsErrno(msg[t].flags) THEN 2^16 ELSE msg[t].flags)
  /\ UNCHANGED <<state, cpu, inq, msg, from, lock, vsem, loads>>

-----------------------------------------------------------------------------
(* ipc_recv, for programs and the system service.  Programs receive their  *)
(* own messages.                                                           *)

\* The system service handles the message; the system call returns.
Received(r, flags) ==
  IF r = SysSrv
  THEN at' = [at EXCEPT ![r] = "handle"] /\ UNCHANGED reply
  ELSE Returns(r, IsErrno(flags), IF IsErrno(flags) THEN 2^16 ELSE flags)

\* The system service starts over; the system call returns an error.
Failed(r) ==
  IF r = SysSrv
  THEN at' = [at EXCEPT ![r] = "empty"] /\ UNCHANGED reply
  ELSE Returns(r, TRUE, 2^16)

\* Mutant: the thread goes on.
SleepAwake(r) ==
  /\ state' = [state EXCEPT ![r] = "RECV"]
  /\ at' = [at EXCEPT ![r] = "again"]
  /\ UNCHANGED <<cpu, inq, from, lock, vsem, loads, reply>>

\* No message: the thread sleeps once.
Sleep(r) ==
  /\ state' = [state EXCEPT ![r] = "RECV"]
  /\ at' = [at EXCEPT ![r] = "again"]
  /\ SchedSwitch(state')
  /\ UNCHANGED <<inq, from, lock, vsem, loads, reply>>

(* The first message is dequeued and is gone if the receiver cannot take   *)
(* it.  In mmap mode, pages are mapped with the lock held.                 *)
Take(r, buf) ==
  LET s      == Head(inq[r])
      in     == msg[s]
      maps   == Mmap(buf.flags) /\ Mmap(in.flags) /\ buf.n >= in.n
      copies == ~Mmap(buf.flags) /\ ~Mmap(in.flags)
  IN  /\ inq' = [inq EXCEPT ![r] = Tail(@)]
      /\ \/ /\ maps
            /\ at' = [at EXCEPT ![r] = "map"]
            /\ from' = [from EXCEPT ![r] = s]
            /\ lock' = [lock EXCEPT ![r] = TRUE]
            /\ msg' = [msg EXCEPT ![r] = buf]
            /\ UNCHANGED reply
         \/ /\ copies
            /\ msg' = [msg EXCEPT ![r] = in]
            /\ Received(r, in.flags)
            /\ UNCHANGED <<from, lock>>
         \/ /\ ~maps /\ ~copies
            /\ msg' = [msg EXCEPT ![r] = buf]
            /\ Failed(r)
            /\ UNCHANGED <<from, lock>>
      /\ UNCHANGED <<state, cpu, vsem, loads>>

Recv(t, flags, n) ==
  /\ InSyscall(t)
  /\ LET buf == [snd |-> t, flags |-> Unreserved(flags), n |-> n]
     IN  \/ inq[t] = <<>> /\ Sleep(t) /\ msg' = [msg EXCEPT ![t] = buf]
         \/ inq[t] # <<>> /\ Take(t, buf)

RecvAgain(r) ==
  /\ at[r] = "again"
  /\ \/ inq[r] # <<>> /\ Take(r, msg[r])
     \/ /\ inq[r] = <<>>
        /\ Failed(r)
        /\ UNCHANGED <<state, cpu, inq, msg, from, lock, vsem, loads>>

(* The semaphores that vmem_map_pages_at and vmem_empty_pages_in_area      *)
(* enter.  A thread that finds them taken sleeps until it is woken.        *)

Blocked(t) ==
  /\ vsem # None
  /\ state' = [state EXCEPT ![t] = "WAITING"]
  /\ SchedSwitch(state')
  /\ UNCHANGED <<at, inq, msg, from, lock, vsem, loads, reply>>

\* Mutant: any thread that sleeps is woken.
SemaphoreLeaveAny ==
  LET waiting == {t \in Thread : state[t] \in {"WAITING", "RECV"}}
  IN  \/ waiting = {} /\ UNCHANGED state
      \/ \E t \in waiting : state' = [state EXCEPT ![t] = "READY"]

\* semaphore_leave wakes a thread that waits.
SemaphoreLeave ==
  LET waiting == {t \in Thread : state[t] = "WAITING"}
  IN  \/ waiting = {} /\ UNCHANGED state
      \/ \E t \in waiting : state' = [state EXCEPT ![t] = "READY"]

MapPages(r) ==
  /\ at[r] = "map"
  /\ vsem = None
  /\ LET in == msg[from[r]]
     IN  /\ msg' = [msg EXCEPT ![r] = in]
         /\ Received(r, in.flags)
  /\ from' = [from EXCEPT ![r] = None]
  /\ lock' = [lock EXCEPT ![r] = FALSE]
  /\ SemaphoreLeave
  /\ UNCHANGED <<cpu, inq, vsem, loads>>

MapBlocked(r) == at[r] = "map" /\ Blocked(r)

-----------------------------------------------------------------------------
(* The loop of system_srv_start.                                           *)

EmptyPages ==
  /\ at[SysSrv] = "empty"
  /\ vsem = None
  /\ msg' = [msg EXCEPT ![SysSrv] = [snd |-> None, flags |-> 2^17, n |-> 1]]
  /\ at' = [at EXCEPT ![SysSrv] = "recv"]
  /\ SemaphoreLeave
  /\ UNCHANGED <<cpu, inq, from, lock, vsem, loads, reply>>

EmptyBlocked == at[SysSrv] = "empty" /\ Blocked(SysSrv)

ServerRecv ==
  /\ at[SysSrv] = "recv"
  /\ \/ inq[SysSrv] = <<>> /\ Sleep(SysSrv) /\ UNCHANGED msg
     \/ inq[SysSrv] # <<>> /\ Take(SysSrv, msg[SysSrv])

\* system_srv_handle_msg.
Quit ==
  /\ at[SysSrv] = "handle" /\ Command(msg[SysSrv].flags) = 0
  /\ state' = [state EXCEPT ![msg[SysSrv].snd] = "ZOMBIE"]
  /\ at' = [at EXCEPT ![SysSrv] = "empty"]
  /\ UNCHANGED <<cpu, inq, msg, from, lock, vsem, loads, reply>>

\* Mutant: the sender is not woken.
ReplyUnheard ==
  /\ at[SysSrv] = "handle" /\ Command(msg[SysSrv].flags) # 0
  /\ msg' = [msg EXCEPT ![SysSrv] = [snd |-> SysSrv, flags |-> 2^16, n |-> 0]]
  /\ at' = [at EXCEPT ![SysSrv] = "empty"]
  /\ UNCHANGED <<state, cpu, inq, from, lock, vsem, loads, reply>>

\* ipc_reply changes the sender's state, and nothing of its message.
Reply ==
  /\ at[SysSrv] = "handle" /\ Command(msg[SysSrv].flags) # 0
  /\ LET rcv == msg[SysSrv].snd
     IN  state' = IF state[rcv] = "RECV" THEN [state EXCEPT ![rcv] = "READY"] ELSE state
  /\ msg' = [msg EXCEPT ![SysSrv] = [snd |-> SysSrv, flags |-> 2^16, n |-> 0]]
  /\ at' = [at EXCEPT ![SysSrv] = "empty"]
  /\ UNCHANGED <<cpu, inq, from, lock, vsem, loads, reply>>

-----------------------------------------------------------------------------
(* The idle thread loads programs and enters the semaphores for that.      *)

ExecuteModule(t) ==
  /\ at[Idle] = "user" /\ at[t] = "new"
  /\ at' = [at EXCEPT ![t] = "user"]
  /\ state' = [state EXCEPT ![t] = "READY"]
  /\ UNCHANGED <<cpu, inq, msg, from, lock, vsem, loads, reply>>

VmemEnter ==
  /\ loads < Loads
  /\ loads' = loads + 1
  /\ at[Idle] = "user"
  /\ vsem = None
  /\ vsem' = Idle
  /\ at' = [at EXCEPT ![Idle] = "loading"]
  /\ UNCHANGED <<state, cpu, inq, msg, from, lock, reply>>

VmemLeave ==
  /\ at[Idle] = "loading"
  /\ vsem' = None
  /\ at' = [at EXCEPT ![Idle] = "user"]
  /\ SemaphoreLeave
  /\ UNCHANGED <<cpu, inq, msg, from, lock, loads, reply>>

-----------------------------------------------------------------------------
Calls(t) ==
  \/ Rejected(t)
  \/ NotImplemented(t)
  \/ \E r \in Peers[t] \ {u \in Thread : at[u] = "new"}, f \in SendFlags, n \in 1..MaxPages :
       Send(t, r, f, n) \/ SendSpin(t, r, f, n)
  \/ \E f \in RecvFlags, n \in 1..MaxPages : Recv(t, f, n)

Receive(t) == RecvAgain(t) \/ MapPages(t) \/ MapBlocked(t)

Serve == EmptyPages \/ EmptyBlocked \/ ServerRecv \/ Quit \/ Reply

Load == VmemEnter \/ \E t \in Program : ExecuteModule(t)

\* What goes on in the kernel by itself.
Step ==
  \/ Return(cpu)
  \/ Receive(cpu)
  \/ cpu = SysSrv /\ Serve
  \/ cpu = Idle /\ VmemLeave

Next ==
  \/ Step
  \/ cpu \in Program /\ Calls(cpu)
  \/ cpu = Idle /\ Load
  \/ Alarm

Spec == Init /\ [][Next]_vars

(* Kernel code proceeds, and the timer interrupts the idle thread: when    *)
(* that one runs, no other thread is inside the alarm's handler, which     *)
(* would have left it READY.  Nothing is assumed of programs.              *)
Fairness == WF_vars(Step) /\ WF_vars(cpu = Idle /\ Alarm)

FairSpec == Spec /\ Fairness

-----------------------------------------------------------------------------
(* Properties.                                                             *)

\* t's message is linked by a queue, or ipc_recv still points to it.
InUse(t) == Queued(t) \/ \E r \in Thread : from[r] = t

(* tcb->state tells where threads are: the running thread is READY, as the *)
(* comment in syscall.c:107 says, and a thread in state RECV or WAITING is *)
(* inside the function that put it there.                                  *)
StatesSound ==
  /\ state[cpu] = "READY"
  /\ \A t \in Thread :
       /\ state[t] = "RECV" => at[t] \in {"wait", "again"}
       /\ state[t] = "WAITING" => at[t] \in {"map", "empty"}

(* The message in a thread's TCB is in one queue at most, and as long as   *)
(* it is, or as long as the receiver maps its pages, the thread waits:     *)
(* syscall_entry_handler never initialises a message that somebody still   *)
(* uses (syscall.c:96).  This is for programs that call only the system    *)
(* service.                                                                *)
MessagesSound ==
  /\ \A r, q \in Thread : \A i \in DOMAIN inq[r], j \in DOMAIN inq[q] :
       inq[r][i] = inq[q][j] => r = q /\ i = j
  /\ \A t \in Thread : InUse(t) => at[t] = "wait" /\ state[t] = "RECV"

(* Who is woken in ipc_recv finds a message (ipc.c:138-149).               *)
WokenForMessage ==
  \A r \in Thread : at[r] = "again" /\ state[r] = "READY" => inq[r] # <<>>

\* No program keeps the CPU forever without a system call.
ProgramsCall == \A t \in Program : []<>~(cpu = t /\ at[t] = "user")

\* A call of crt_write with one page is answered.
Answered(t) ==
  (at[t] \in {"spin", "wait"} /\ msg[t].flags = Write /\ msg[t].n = 1)
    ~> (at[t] # "spin" /\ state[t] = "READY" /\ ~InUse(t))

(* The program that sends a message waits for its answer                   *)
(* (syscall_consts.h:23) and gets it, although the receiver sleeps for a   *)
(* semaphore with its own lock held (ipc.c:185).                           *)
WriteAnswered == ProgramsCall => \A t \in Program : Answered(t)

(* That holds as long as the timer never takes the CPU from the idle       *)
(* thread while it is inside that semaphore (vmem.c, entered with          *)
(* interrupts enabled).                                                    *)
WriteAnsweredIfUndisturbed ==
  [](vsem = Idle => cpu = Idle) => WriteAnswered

(* A sender waits for its answer (syscall_consts.h:23): it does not return *)
(* while its message is still in the receiver's queue.                     *)
WaitsForAnswer == [][\A t \in Program : Return(t) => ~InUse(t)]_vars

(* The sender of the command to quit is marked for removal                 *)
(* (syssrv.c:36-40), which is how exit "never returns" (start.S:39).       *)
QuitRemoved ==
  \A t \in Program : (at[t] = "wait" /\ msg[t].flags = Exit) ~> state[t] = "ZOMBIE"
=============================================================================
