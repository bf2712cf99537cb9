------------------------------ MODULE IpcProofs ------------------------------
(* Proofs about Ipc, for any set of programs, flags and message sizes.     *)
EXTENDS Ipc, TLAPS

(* The types that matter below: of a message, only the sender's field.     *)
Typed ==
  /\ state \in [Thread -> {"READY", "RECV", "WAITING", "ZOMBIE"}]
  /\ cpu \in Thread
  /\ at \in [Thread -> Points]
  /\ inq \in [Thread -> Seq(Program)]
  /\ msg = [t \in Thread |-> msg[t]]
  /\ from \in [Thread -> Program \union {None}]

(* Who can be where.                                                       *)
Places ==
  /\ at[SysSrv] \in {"empty", "recv", "again", "map", "handle"}
  /\ at[Idle] \in {"user", "loading"}
  /\ \A t \in Program : at[t] \in {"new", "user", "spin", "wait", "again", "map"}
  /\ \A t \in Thread : at[t] = "map" => from[t] \in Program

\* The programs that have filled in the sender's field of their message.
Identified == {t \in Program : msg[t].snd \in Program}

(* A message that is queued, mapped, received or used as a buffer has a    *)
(* program as its sender, so that the system service acts on a program.    *)
Signed ==
  /\ \A r \in Thread : Members(inq[r]) \subseteq Identified
  /\ \A r \in Thread : from[r] \in Identified \union {None}
  /\ \A t \in Program : at[t] = "again" => t \in Identified
  /\ at[SysSrv] = "handle" => msg[SysSrv].snd \in Program

(* The inductive invariant, whoever sends to whom.                         *)
IInv ==
  /\ Typed
  /\ Places
  /\ Signed
  /\ StatesSound

(* Programs that call only the system service, as those of the repository. *)
ServiceOnly == \A t \in Program : Peers[t] \subseteq {SysSrv}

\* No item is in q twice.
Once(q) == \A i, j \in DOMAIN q : q[i] = q[j] => i = j

(* Then only the system service is ever sent a message.                    *)
OthersIdle ==
  /\ \A r \in Thread \ {SysSrv} : inq[r] = <<>> /\ from[r] = None
  /\ \A t \in Program : at[t] = "again" => state[t] = "RECV"

(* The message that the system service works on: ipc_recv maps its pages,  *)
(* or has returned it.                                                     *)
InHand ==
  {t \in Program : from[SysSrv] = t \/ (at[SysSrv] = "handle" /\ msg[SysSrv].snd = t)}

(* It was taken out of the queue, and its sender waits like those in it.   *)
Waiting ==
  /\ Once(inq[SysSrv])
  /\ InHand \intersect Members(inq[SysSrv]) = {}
  /\ from[SysSrv] # None => at[SysSrv] = "map"
  /\ \A t \in InHand \union Members(inq[SysSrv]) :
       at[t] = "wait" /\ state[t] = "RECV" /\ msg[t].snd = t

(* The inductive invariant for these programs, on top of IInv.             *)
ServiceInv ==
  /\ OthersIdle
  /\ Waiting
  /\ WokenForMessage

-----------------------------------------------------------------------------
(* The queues.                                                             *)

(* list_enqueue_back in ipc_send_and_wait.                                 *)
LEMMA Appending ==
  ASSUME NEW q \in Seq(Program), NEW t \in Program
  PROVE  /\ Append(q, t) \in Seq(Program) /\ Append(q, t) # <<>>
         /\ Members(Append(q, t)) = Members(q) \union {t}
         /\ Once(q) /\ t \notin Members(q) => Once(Append(q, t))
<1>. DEFINE a == Append(q, t)
<1>1. /\ a \in Seq(Program) /\ Len(q) \in Nat /\ DOMAIN q = 1..Len(q)
      /\ DOMAIN a = 1..(Len(q) + 1) /\ a[Len(q) + 1] = t
      /\ \A i \in DOMAIN q : a[i] = q[i]
  OBVIOUS
<1>2. a # <<>>
  BY <1>1
<1>. HIDE DEF a
<1>3. \A i \in DOMAIN a : i \in DOMAIN q \/ i = Len(q) + 1
  BY <1>1
<1>4. \A i \in DOMAIN q : i \in DOMAIN a
  BY <1>1
<1>5. Members(a) = Members(q) \union {t}
  <2>1. Len(q) + 1 \in DOMAIN a
    BY <1>1
  <2>. QED  BY <1>1, <1>3, <1>4, <2>1, Zenon DEF Members
<1>6. Once(q) /\ t \notin Members(q) => Once(a)
  <2>1. t \notin Members(q) => \A i \in DOMAIN q : q[i] # t
    BY Zenon DEF Members
  <2>. QED  BY <1>1, <1>3, <2>1, Zenon DEF Once
<1>. QED  BY <1>1, <1>2, <1>5, <1>6, Zenon DEF a

(* list_dequeue of the first message in ipc_recv.                          *)
LEMMA Taking ==
  ASSUME NEW q \in Seq(Program), q # <<>>
  PROVE  /\ Tail(q) \in Seq(Program)
         /\ Head(q) \in Members(q) /\ Head(q) \in Program
         /\ Members(Tail(q)) \subseteq Members(q)
         /\ Once(q) => Once(Tail(q)) /\ Head(q) \notin Members(Tail(q))
<1>1. /\ Tail(q) \in Seq(Program) /\ Len(q) \in Nat \ {0} /\ DOMAIN q = 1..Len(q)
      /\ DOMAIN Tail(q) = 1..(Len(q) - 1)
      /\ Head(q) = q[1] /\ Head(q) \in Program
      /\ \A i \in DOMAIN Tail(q) : Tail(q)[i] = q[i + 1]
  OBVIOUS
<1>2. Head(q) \in Members(q)
  BY <1>1 DEF Members
<1>3. Members(Tail(q)) \subseteq Members(q)
  <2>1. \A i \in DOMAIN Tail(q) : i + 1 \in DOMAIN q
    BY <1>1
  <2>2. \A i \in DOMAIN Tail(q) : Tail(q)[i] \in Members(q)
    BY <1>1, <2>1, Zenon DEF Members
  <2>. QED  BY <2>2, Zenon DEF Members
<1>4. ASSUME Once(q)
      PROVE  Once(Tail(q)) /\ Head(q) \notin Members(Tail(q))
  <2>1. Once(Tail(q))
    BY <1>1, <1>4 DEF Once
  <2>2. \A i \in DOMAIN Tail(q) : Tail(q)[i] # q[1]
    BY <1>1, <1>4 DEF Once
  <2>. QED  BY <1>1, <2>1, <2>2, Zenon DEF Members
<1>. QED  BY <1>1, <1>2, <1>3, <1>4, Zenon

-----------------------------------------------------------------------------
(* The steps, one by one.                                                  *)

(* A step of the running thread that leaves the states alone.              *)
LEMMA RunningStep ==
  ASSUME IInv, state' = state, cpu' = cpu, \A t \in Thread \ {cpu} : at'[t] = at[t]
  PROVE  StatesSound'
  BY Zenon DEF IInv, StatesSound

(* What leaves a system call or makes it spin.                             *)
LEMMA CallStep ==
  ASSUME IInv, cpu \in Program,
         NEW p \in {"user", "spin"}, at' = [at EXCEPT ![cpu] = p],
         NEW m, m.snd = cpu, msg' = msg \/ msg' = [msg EXCEPT ![cpu] = m],
         UNCHANGED <<state, cpu, inq, from>>
  PROVE  IInv'
<1>. USE IpcAssumption DEF IInv
<1>1. Typed'
  BY Zenon DEF Typed, Thread, Points
<1>2. Places'
  BY Zenon DEF Typed, Places, Thread
<1>3. Identified \subseteq Identified'
  BY Zenon DEF Typed, Identified, Thread
<1>4. Signed'
  BY <1>3, Zenon DEF Typed, Signed, Thread
<1>. QED  BY <1>1, <1>2, <1>4, RunningStep, Zenon DEF Typed

(* ipc_recv takes the first message, s, leaves the others in the queue,    *)
(* and goes on at p with m in the receiver's message and g in msgin.       *)
Takes(buf, s, rest, p, g, m) ==
  /\ p \in {"map", "handle", "empty", "user"} /\ m \in {buf, msg[s]}
  /\ s = Head(inq[cpu]) /\ rest = Tail(inq[cpu])
  /\ inq' = [inq EXCEPT ![cpu] = rest] /\ state' = state /\ cpu' = cpu
  /\ at' = [at EXCEPT ![cpu] = p]
  /\ from' = [from EXCEPT ![cpu] = g]
  /\ msg' = [msg EXCEPT ![cpu] = m]
  /\ IF cpu = SysSrv THEN p # "user" ELSE p \in {"map", "user"}
  /\ IF p = "map" THEN g = s ELSE g = from[cpu]
  /\ p = "handle" => m = msg[s]

(* That is what Take does.                                                 *)
LEMMA TakeEffect ==
  ASSUME IInv, cpu # Idle, inq[cpu] # <<>>, NEW buf, Take(cpu, buf)
  PROVE  \E s \in Program, rest \in Seq(Program) : \E p, g, m : Takes(buf, s, rest, p, g, m)
<1>a. cpu \in Thread /\ inq[cpu] \in Seq(Program)
  BY Zenon DEF IInv, Typed
<1>s. PICK s \in Program, rest \in Seq(Program) : s = Head(inq[cpu]) /\ rest = Tail(inq[cpu])
  BY <1>a, Taking, Zenon
<1>1. /\ inq' = [inq EXCEPT ![cpu] = rest] /\ state' = state /\ cpu' = cpu
      /\ \/ /\ at' = [at EXCEPT ![cpu] = "map"]
            /\ from' = [from EXCEPT ![cpu] = s]
            /\ msg' = [msg EXCEPT ![cpu] = buf]
         \/ /\ IF cpu = SysSrv THEN at' = [at EXCEPT ![cpu] = "handle"]
                               ELSE at' = [at EXCEPT ![cpu] = "user"]
            /\ from' = from
            /\ msg' = [msg EXCEPT ![cpu] = msg[s]]
         \/ /\ IF cpu = SysSrv THEN at' = [at EXCEPT ![cpu] = "empty"]
                               ELSE at' = [at EXCEPT ![cpu] = "user"]
            /\ from' = from
            /\ msg' = [msg EXCEPT ![cpu] = buf]
  BY <1>s, Zenon DEF Take, Received, Failed, Returns
<1>2. from = [from EXCEPT ![cpu] = from[cpu]]
  BY <1>a, Zenon DEF IInv, Typed
<1>3. \/ Takes(buf, s, rest, "map", s, buf)
      \/ Takes(buf, s, rest, "handle", from[cpu], msg[s])
      \/ Takes(buf, s, rest, "user", from[cpu], msg[s])
      \/ Takes(buf, s, rest, "empty", from[cpu], buf)
      \/ Takes(buf, s, rest, "user", from[cpu], buf)
  BY <1>s, <1>1, <1>2, Zenon DEF Takes
<1>. QED  BY <1>3, Zenon

(* ipc_recv takes the first message out of the queue.                      *)
LEMMA TakeStep ==
  ASSUME IInv, cpu # Idle, inq[cpu] # <<>>,
         NEW buf, cpu \in Program => buf.snd \in Program, Take(cpu, buf)
  PROVE  IInv'
<1>. USE IpcAssumption
<1>a. cpu \in Thread /\ inq[cpu] \in Seq(Program) /\ cpu \in Program \union {SysSrv}
  BY Zenon DEF IInv, Typed, Thread
<1>t. PICK s \in Program, rest \in Seq(Program) : \E p, g, m : Takes(buf, s, rest, p, g, m)
  BY TakeEffect, Zenon
<1>u. PICK p, g, m : Takes(buf, s, rest, p, g, m)
  BY <1>t, Zenon
<1>s. s \in Identified /\ Members(rest) \subseteq Members(inq[cpu])
  BY <1>a, <1>u, Taking, Zenon DEF IInv, Signed, Takes
<1>i. msg[s].snd \in Program /\ Members(rest) \subseteq Members(inq[cpu])
  BY <1>s, Zenon DEF Identified
<1>e. /\ inq' = [inq EXCEPT ![cpu] = rest] /\ state' = state /\ cpu' = cpu
      /\ at' = [at EXCEPT ![cpu] = p]
      /\ from' = [from EXCEPT ![cpu] = g]
      /\ msg' = [msg EXCEPT ![cpu] = m]
      /\ IF cpu = SysSrv THEN p # "user" ELSE p \in {"map", "user"}
      /\ p \in {"map", "handle", "empty", "user"} /\ g \in {s, from[cpu]} /\ m \in {buf, msg[s]}
      /\ p = "map" => g = s
      /\ p = "handle" => m = msg[s]
  BY <1>u, Zenon DEF Takes
<1>n. cpu \in Program \/ p = "handle" => m.snd \in Program
  BY <1>e, <1>i, Zenon
<1>1. Typed'
  BY <1>a, <1>e, Zenon DEF IInv, Typed, Points
<1>2. Places'
  BY <1>a, <1>e DEF IInv, Typed, Places, Thread
<1>3. Identified \subseteq Identified'
  BY <1>a, <1>n, <1>e, Zenon DEF IInv, Typed, Identified, Thread
<1>4. Signed'
  <2>1. \A r \in Thread : Members(inq'[r]) \subseteq Members(inq[r])
    BY <1>a, <1>i, <1>e, Zenon DEF IInv, Typed
  <2>2. \A r \in Thread : from'[r] \in Identified \union {None}
    BY <1>a, <1>s, <1>e, Zenon DEF IInv, Typed, Signed
  <2>3. \A t \in Program : at'[t] = "again" => t \in Identified
    BY <1>a, <1>e, Zenon DEF IInv, Typed, Signed, Thread
  <2>4. at'[SysSrv] = "handle" => msg'[SysSrv].snd \in Program
    BY <1>a, <1>n, <1>e, Zenon DEF IInv, Typed, Signed, Thread
  <2>. QED  BY <1>3, <2>1, <2>2, <2>3, <2>4, Zenon DEF IInv, Signed
<1>5. StatesSound'
  BY <1>a, <1>e, RunningStep, Zenon DEF IInv, Typed
<1>. QED  BY <1>1, <1>2, <1>4, <1>5, Zenon DEF IInv

(* ipc_recv sleeps.                                                        *)
LEMMA SleepStep ==
  ASSUME IInv, cpu # Idle, Sleep(cpu),
         NEW m, cpu \in Program => m.snd \in Program,
         msg' = [msg EXCEPT ![cpu] = m] \/ (cpu = SysSrv /\ msg' = msg)
  PROVE  IInv'
<1>. USE IpcAssumption
<1>a. cpu \in Thread /\ cpu \in Program \union {SysSrv} /\ cpu' \in Thread /\ state'[cpu'] = "READY"
  BY Zenon DEF IInv, Typed, Thread, Sleep, SchedSwitch
<1>e. /\ state' = [state EXCEPT ![cpu] = "RECV"]
      /\ at' = [at EXCEPT ![cpu] = "again"]
      /\ inq' = inq /\ from' = from
  BY Zenon DEF Sleep
<1>1. Typed'
  BY <1>a, <1>e, Zenon DEF IInv, Typed, Points
<1>2. Places'
  BY <1>a, <1>e, Zenon DEF IInv, Typed, Places, Thread
<1>3. Identified \subseteq Identified' /\ (cpu \in Program => cpu \in Identified')
  BY <1>a, <1>e, Zenon DEF IInv, Typed, Identified, Thread
<1>4. Signed'
  BY <1>a, <1>e, <1>3, Zenon DEF IInv, Typed, Signed, Thread
<1>5. StatesSound'
  BY <1>a, <1>e, Zenon DEF IInv, Typed, StatesSound
<1>. QED  BY <1>1, <1>2, <1>4, <1>5, Zenon DEF IInv

(* ipc_send_and_wait up to sched_switch.                                   *)
LEMMA DeliverStep ==
  ASSUME IInv, cpu \in Program, NEW r \in Thread, Deliver(cpu, r), from' = from,
         NEW m, m.snd = cpu, msg' = [msg EXCEPT ![cpu] = m]
  PROVE  IInv'
<1>. USE IpcAssumption
<1>a. /\ cpu \in Thread /\ cpu # SysSrv /\ cpu # Idle
      /\ cpu' \in Thread /\ state'[cpu'] = "READY" /\ inq[r] \in Seq(Program)
  BY Zenon DEF IInv, Typed, Thread, Deliver, SchedSwitch
<1>q. PICK q \in Seq(Program) :
        q = Append(inq[r], cpu) /\ Members(q) = Members(inq[r]) \union {cpu}
  BY <1>a, Appending, Zenon
<1>e. /\ inq' = [inq EXCEPT ![r] = q]
      /\ at' = [at EXCEPT ![cpu] = "wait"]
      /\ \/ state' = [state EXCEPT ![cpu] = "RECV"]
         \/ state' = [[state EXCEPT ![cpu] = "RECV"] EXCEPT ![r] = "READY"]
  BY <1>q, Zenon DEF Deliver, Sent
<1>m. Members(q) = Members(inq[r]) \union {cpu}
  BY <1>q, Zenon
<1>1. Typed'
  <2>1. state' \in [Thread -> {"READY", "RECV", "WAITING", "ZOMBIE"}]
    BY <1>a, <1>e, Zenon DEF IInv, Typed
  <2>2. inq' \in [Thread -> Seq(Program)]
    BY <1>e DEF IInv, Typed
  <2>3. at' \in [Thread -> Points] /\ msg' = [t \in Thread |-> msg'[t]]
    BY <1>a, <1>e, Zenon DEF IInv, Typed, Points
  <2>. QED  BY <1>a, <2>1, <2>2, <2>3, Zenon DEF IInv, Typed
<1>2. Places'
  BY <1>a, <1>e, Zenon DEF IInv, Typed, Places, Thread
<1>3. Identified \subseteq Identified' /\ cpu \in Identified'
  BY <1>a, <1>e, Zenon DEF IInv, Typed, Identified, Thread
<1>4. Signed'
  <2>1. \A u \in Thread : Members(inq'[u]) \subseteq Members(inq[u]) \union {cpu}
    BY <1>a, <1>e, <1>m DEF IInv, Typed
  <2>2. \A u \in Program : at'[u] = "again" => at[u] = "again"
    BY <1>a, <1>e, Zenon DEF IInv, Typed, Thread
  <2>3. at'[SysSrv] = "handle" => at[SysSrv] = "handle" /\ msg'[SysSrv] = msg[SysSrv]
    BY <1>a, <1>e, Zenon DEF IInv, Typed, Thread
  <2>. QED  BY <1>3, <2>1, <2>2, <2>3, Zenon DEF IInv, Signed
<1>5. StatesSound'
  BY <1>a, <1>e DEF IInv, Typed, StatesSound
<1>. QED  BY <1>1, <1>2, <1>4, <1>5, Zenon DEF IInv

(* semaphore_enter finds the address space taken and sleeps.               *)
LEMMA BlockedStep ==
  ASSUME IInv, Blocked(cpu), at[cpu] \in {"map", "empty"}
  PROVE  IInv'
<1>a. cpu \in Thread /\ cpu' \in Thread /\ state'[cpu'] = "READY"
  BY Zenon DEF IInv, Typed, Blocked, SchedSwitch
<1>e. /\ state' = [state EXCEPT ![cpu] = "WAITING"]
      /\ at' = at /\ inq' = inq /\ from' = from /\ msg' = msg
  BY Zenon DEF Blocked
<1>1. Typed' /\ StatesSound'
  BY <1>a, <1>e, Zenon DEF IInv, Typed, StatesSound
<1>2. Places' /\ Signed'
  BY <1>e, Zenon DEF IInv, Places, Signed, Identified
<1>. QED  BY <1>1, <1>2, Zenon DEF IInv

(* semaphore_leave by the running thread.                                  *)
LEMMA LeaveStates ==
  ASSUME IInv, SemaphoreLeave, cpu' = cpu, \A t \in Thread \ {cpu} : at'[t] = at[t]
  PROVE  StatesSound' /\ state' \in [Thread -> {"READY", "RECV", "WAITING", "ZOMBIE"}]
<1>1. CASE state' = state
  BY <1>1, RunningStep, Zenon DEF IInv, Typed
<1>2. CASE \E t \in Thread : state[t] = "WAITING" /\ state' = [state EXCEPT ![t] = "READY"]
  <2>1. PICK t \in Thread : state[t] = "WAITING" /\ state' = [state EXCEPT ![t] = "READY"]
    BY <1>2, Zenon
  <2>2. state' \in [Thread -> {"READY", "RECV", "WAITING", "ZOMBIE"}]
    BY <2>1 DEF IInv, Typed
  <2>3. state'[t] = "READY" /\ \A u \in Thread \ {t} : state'[u] = state[u]
    BY <2>1 DEF IInv, Typed
  <2>4. cpu \in Thread /\ state[cpu] = "READY" /\ state'[cpu] = "READY"
    BY <2>3 DEF IInv, Typed, StatesSound
  <2>. QED  BY <2>2, <2>3, <2>4 DEF IInv, StatesSound
<1>. QED  BY <1>1, <1>2, Zenon DEF SemaphoreLeave

(* ipc_recv has mapped the pages.                                          *)
LEMMA MapPagesStep ==
  ASSUME IInv, MapPages(cpu)
  PROVE  IInv'
<1>. USE IpcAssumption
<1>b. cpu \in Thread /\ cpu \in Program \union {SysSrv} /\ at[cpu] = "map"
  BY Zenon DEF IInv, Typed, Places, Thread, MapPages
<1>c. from[cpu] \in Program /\ from[cpu] \in Identified
  BY <1>b DEF IInv, Places, Signed, Thread
<1>a. /\ cpu \in Thread /\ cpu \in Program \union {SysSrv} /\ at[cpu] = "map"
      /\ from[cpu] \in Identified /\ from[cpu] \in Program /\ msg[from[cpu]].snd \in Program
  BY <1>b, <1>c, Zenon DEF Identified
<1>e. PICK p \in {"handle", "user"}, m \in {msg[from[cpu]]} :
        /\ at' = [at EXCEPT ![cpu] = p] /\ (p = "handle" <=> cpu = SysSrv)
        /\ from' = [from EXCEPT ![cpu] = None]
        /\ msg' = [msg EXCEPT ![cpu] = m]
        /\ cpu' = cpu /\ inq' = inq /\ SemaphoreLeave
  BY Zenon DEF MapPages, Received, Returns
<1>0. \A t \in Thread \ {cpu} : at'[t] = at[t]
  BY <1>a, <1>e, Zenon DEF IInv, Typed
<1>5. StatesSound' /\ state' \in [Thread -> {"READY", "RECV", "WAITING", "ZOMBIE"}]
  BY <1>0, <1>e, LeaveStates, Zenon
<1>1. Typed'
  BY <1>a, <1>e, <1>5, Zenon DEF IInv, Typed, Points
<1>2. Places'
  BY <1>a, <1>e DEF IInv, Typed, Places, Thread
<1>3. Identified \subseteq Identified'
  BY <1>a, <1>e, Zenon DEF IInv, Typed, Identified, Thread
<1>4. Signed'
  BY <1>a, <1>e, <1>3, Zenon DEF IInv, Typed, Signed, Thread
<1>. QED  BY <1>1, <1>2, <1>4, <1>5, Zenon DEF IInv

(* The system service empties its page, and when ipc_recv fails it starts  *)
(* over.                                                                   *)
LEMMA EmptyStep ==
  ASSUME IInv, cpu = SysSrv, NEW p \in {"recv", "empty"}, NEW m,
         at' = [at EXCEPT ![SysSrv] = p], msg' = [msg EXCEPT ![SysSrv] = m] \/ msg' = msg,
         SemaphoreLeave \/ state' = state, UNCHANGED <<cpu, inq, from>>
  PROVE  IInv'
<1>. USE IpcAssumption
<1>a. SysSrv \in Thread /\ SysSrv \notin Program
  BY Zenon DEF Thread
<1>0. \A t \in Thread \ {cpu} : at'[t] = at[t]
  BY <1>a, Zenon DEF IInv, Typed
<1>5. StatesSound' /\ state' \in [Thread -> {"READY", "RECV", "WAITING", "ZOMBIE"}]
  BY <1>0, LeaveStates, RunningStep, Zenon DEF IInv, Typed
<1>1. Typed'
  BY <1>a, <1>5, Zenon DEF IInv, Typed, Points
<1>2. Places'
  BY <1>a, Zenon DEF IInv, Typed, Places, Thread
<1>3. Identified \subseteq Identified'
  BY <1>a, Zenon DEF IInv, Typed, Identified, Thread
<1>4. Signed'
  BY <1>a, <1>3, Zenon DEF IInv, Typed, Signed, Thread
<1>. QED  BY <1>1, <1>2, <1>4, <1>5, Zenon DEF IInv

(* system_srv_handle_msg, which acts on the sender: a program.             *)
LEMMA HandleStep ==
  ASSUME IInv, cpu = SysSrv, Quit \/ Reply
  PROVE  IInv'
<1>. USE IpcAssumption
<1>a. SysSrv \in Thread /\ SysSrv \notin Program
  BY Zenon DEF Thread
<1>s. PICK s \in Program : s = msg[SysSrv].snd
  BY Zenon DEF IInv, Signed, Quit, Reply
<1>e. PICK m : /\ at' = [at EXCEPT ![SysSrv] = "empty"]
               /\ msg' = msg \/ msg' = [msg EXCEPT ![SysSrv] = m]
               /\ cpu' = cpu /\ inq' = inq /\ from' = from
  BY Zenon DEF Quit, Reply
<1>t. \/ state' = [state EXCEPT ![s] = "ZOMBIE"]
      \/ state[s] = "RECV" /\ state' = [state EXCEPT ![s] = "READY"]
      \/ state' = state
  BY <1>s, Zenon DEF Quit, Reply
<1>u. s \in Thread /\ s # SysSrv
  BY <1>a DEF Thread
<1>0. Typed'
  <2>1. state' \in [Thread -> {"READY", "RECV", "WAITING", "ZOMBIE"}]
    BY <1>t, <1>u, Zenon DEF IInv, Typed
  <2>. QED  BY <1>a, <1>e, <2>1, Zenon DEF IInv, Typed, Points
<1>1. StatesSound'
  <2>1. /\ \A t \in Thread \ {s} : state'[t] = state[t]
        /\ state'[s] \in {"ZOMBIE", "READY", state[s]}
        /\ \A t \in Thread \ {SysSrv} : at'[t] = at[t]
    BY <1>a, <1>e, <1>t, <1>u DEF IInv, Typed
  <2>. QED  BY <1>a, <1>e, <1>u, <2>1 DEF IInv, StatesSound
<1>2. Places'
  BY <1>a, <1>e, Zenon DEF IInv, Typed, Places, Thread
<1>3. Identified \subseteq Identified'
  BY <1>a, <1>e, Zenon DEF IInv, Typed, Identified, Thread
<1>4. Signed'
  BY <1>a, <1>e, <1>3, Zenon DEF IInv, Typed, Signed, Thread
<1>. QED  BY <1>0, <1>1, <1>2, <1>4, Zenon DEF IInv

(* The idle thread loads programs.                                         *)
LEMMA LoadStep ==
  ASSUME IInv, cpu = Idle, Load \/ VmemLeave
  PROVE  IInv'
<1>. USE IpcAssumption
<1>a. Idle \in Thread /\ Idle \notin Program /\ Idle # SysSrv
  BY Zenon DEF Thread
<1>e. cpu' = cpu /\ inq' = inq /\ msg' = msg /\ from' = from
  BY Zenon DEF Load, VmemEnter, VmemLeave, ExecuteModule
<1>i. Identified' = Identified
  BY <1>e, Zenon DEF Identified
<1>1. CASE VmemEnter \/ VmemLeave
  <2>1. PICK p \in {"user", "loading"} : at' = [at EXCEPT ![Idle] = p]
    BY <1>1, Zenon DEF VmemEnter, VmemLeave
  <2>2. \A t \in Thread \ {cpu} : at'[t] = at[t]
    BY <1>a, <2>1, Zenon DEF IInv, Typed
  <2>3. StatesSound' /\ state' \in [Thread -> {"READY", "RECV", "WAITING", "ZOMBIE"}]
    BY <1>1, <1>e, <2>2, LeaveStates, RunningStep, Zenon DEF VmemEnter, VmemLeave, IInv, Typed
  <2>4. Typed' /\ Places' /\ Signed'
    BY <1>a, <1>e, <1>i, <2>1, <2>3 DEF IInv, Typed, Points, Places, Signed, Thread
  <2>. QED  BY <2>3, <2>4, Zenon DEF IInv
<1>2. ASSUME NEW t \in Program, ExecuteModule(t)
      PROVE  IInv'
  <2>1. at' = [at EXCEPT ![t] = "user"] /\ state' = [state EXCEPT ![t] = "READY"] /\ at[t] = "new"
    BY <1>2, Zenon DEF ExecuteModule
  <2>2. Typed' /\ StatesSound'
    BY <1>a, <1>e, <2>1, Zenon DEF IInv, Typed, StatesSound, Points, Thread
  <2>3. Places' /\ Signed'
    BY <1>a, <1>e, <1>i, <2>1, Zenon DEF IInv, Typed, Places, Signed, Thread
  <2>. QED  BY <2>2, <2>3, Zenon DEF IInv
<1>. QED  BY <1>1, <1>2, Zenon DEF Load

(* The timer only changes who runs.                                        *)
LEMMA AlarmStep ==
  ASSUME IInv, Alarm
  PROVE  IInv'
<1>1. cpu' \in Thread /\ state[cpu'] = "READY"
  BY Zenon DEF Alarm, SchedSwitch
<1>. QED  BY <1>1, Zenon DEF Alarm, IInv, Typed, StatesSound, Places, Signed, Identified

(* The system calls of programs.                                           *)
LEMMA CallsStep ==
  ASSUME IInv, cpu \in Program, Calls(cpu)
  PROVE  IInv'
<1>. USE IpcAssumption
<1>. DEFINE M(f, n) == [snd |-> cpu, flags |-> f, n |-> n]
<1>m. \A f, n : M(f, n).snd = cpu
  BY Zenon
<1>a. cpu # Idle
  BY Zenon
<1>1. CASE Rejected(cpu)
  BY <1>1, <1>m, CallStep, Zenon DEF Rejected, Returns
<1>2. CASE NotImplemented(cpu)
  <2>1. PICK f : msg' = [msg EXCEPT ![cpu] = M(f, 0)]
    BY <1>2, Zenon DEF NotImplemented, Prepared
  <2>. HIDE DEF M
  <2>. QED  BY <1>2, <1>m, <2>1, CallStep, Zenon DEF NotImplemented, Returns
<1>3. ASSUME NEW r \in Thread, NEW f, NEW n, Send(cpu, r, f, n)
      PROVE  IInv'
  <2>1. msg' = [msg EXCEPT ![cpu] = M(Unreserved(f), n)] /\ from' = from
    BY <1>3, Zenon DEF Send, Prepared
  <2>. HIDE DEF M
  <2>2. CASE Busy(r, f)
    <3>1. at' = [at EXCEPT ![cpu] = "user"] /\ UNCHANGED <<state, cpu, inq, from>>
      BY <1>3, <2>2, Zenon DEF Send, Returns
    <3>. QED  BY <1>m, <2>1, <3>1, CallStep, Zenon
  <2>3. CASE ~Busy(r, f)
    BY <1>3, <1>m, <2>1, <2>3, DeliverStep, Zenon DEF Send
  <2>. QED  BY <2>2, <2>3, Zenon
<1>4. ASSUME NEW r \in Thread, NEW f, NEW n, SendSpin(cpu, r, f, n)
      PROVE  IInv'
  <2>1. msg' = [msg EXCEPT ![cpu] = M(Unreserved(f), n)]
    BY <1>4, Zenon DEF SendSpin, Prepared
  <2>. HIDE DEF M
  <2>. QED  BY <1>4, <1>m, <2>1, CallStep, Zenon DEF SendSpin
<1>5. ASSUME NEW f, NEW n, Recv(cpu, f, n)
      PROVE  IInv'
  <2>1. \/ Sleep(cpu) /\ msg' = [msg EXCEPT ![cpu] = M(Unreserved(f), n)]
        \/ inq[cpu] # <<>> /\ Take(cpu, M(Unreserved(f), n))
    BY <1>5, Zenon DEF Recv
  <2>. HIDE DEF M
  <2>. QED  BY <1>a, <1>m, <2>1, SleepStep, TakeStep, Zenon
<1>6. Peers[cpu] \subseteq Thread
  BY Zenon DEF Thread
<1>. QED  BY <1>1, <1>2, <1>3, <1>4, <1>5, <1>6, Zenon DEF Calls

(* What goes on in the kernel.                                             *)
LEMMA KernelStep ==
  ASSUME IInv, Step
  PROVE  IInv'
<1>. USE IpcAssumption
<1>p. /\ at[cpu] = "wait" => cpu \in Program
      /\ at[cpu] \in {"again", "map"} => cpu \in Program \/ cpu = SysSrv
      /\ at[cpu] \in {"again", "map"} => cpu # Idle
      /\ cpu \in Program /\ at[cpu] = "again" => msg[cpu].snd \in Program
  BY Zenon DEF IInv, Typed, Places, Signed, Identified, Thread
<1>d. PICK m : m.snd = cpu
  <2>1. [snd |-> cpu].snd = cpu
    OBVIOUS
  <2>. QED  BY <2>1, Zenon
<1>1. CASE Return(cpu)
  BY <1>1, <1>p, <1>d, CallStep, Zenon DEF Return, Returns
<1>2. CASE RecvAgain(cpu)
  <2>1. CASE inq[cpu] # <<>> /\ Take(cpu, msg[cpu])
    BY <1>2, <1>p, <2>1, TakeStep, Zenon DEF RecvAgain
  <2>2. CASE Failed(cpu) /\ UNCHANGED <<state, cpu, inq, msg, from, lock, vsem, loads>>
    <3>1. CASE cpu = SysSrv
      BY <2>2, <3>1, EmptyStep, Zenon DEF Failed
    <3>2. CASE cpu # SysSrv
      BY <1>2, <1>p, <1>d, <2>2, <3>2, CallStep, Zenon DEF Failed, Returns, RecvAgain
    <3>. QED  BY <3>1, <3>2, Zenon
  <2>. QED  BY <1>2, <2>1, <2>2, Zenon DEF RecvAgain
<1>3. CASE MapPages(cpu) \/ MapBlocked(cpu)
  BY <1>3, MapPagesStep, BlockedStep, Zenon DEF MapBlocked
<1>4. CASE cpu = SysSrv /\ Serve
  <2>1. CASE EmptyPages
    BY <1>4, <2>1, EmptyStep, Zenon DEF EmptyPages
  <2>2. CASE EmptyBlocked
    BY <1>4, <2>2, BlockedStep, Zenon DEF EmptyBlocked
  <2>3. CASE ServerRecv
    <3>1. SysSrv \notin Program /\ cpu # Idle
      BY <1>4, Zenon
    <3>. QED  BY <1>4, <2>3, <3>1, SleepStep, TakeStep, Zenon DEF ServerRecv
  <2>. QED  BY <1>4, <2>1, <2>2, <2>3, HandleStep, Zenon DEF Serve
<1>5. CASE cpu = Idle /\ VmemLeave
  BY <1>5, LoadStep, Zenon
<1>. QED  BY <1>1, <1>2, <1>3, <1>4, <1>5, Zenon DEF Step, Receive

(* The invariant holds when interrupts are enabled.                        *)
LEMMA InitIInv == Init => IInv
<1>. SUFFICES ASSUME Init PROVE IInv
  BY Zenon
<1>. USE IpcAssumption
<1>1. Typed
  BY DEF Init, Typed, Thread, Points
<1>2. Places
  BY Zenon DEF Init, Places, Thread
<1>3. Signed
  <2>1. \A r \in Thread : inq[r] = <<>> /\ from[r] = None
    BY Zenon DEF Init
  <2>2. Members(<<>>) = {}
    BY DEF Members
  <2>3. \A t \in Thread : at[t] \notin {"again", "handle"}
    BY Zenon DEF Init
  <2>. QED  BY <2>1, <2>2, <2>3, Zenon DEF Signed, Thread
<1>4. StatesSound
  BY Zenon DEF Init, StatesSound, Thread
<1>. QED  BY <1>1, <1>2, <1>3, <1>4, Zenon DEF IInv

(* Every step preserves it.                                                *)
LEMMA StepIInv == IInv /\ [Next]_vars => IInv'
<1>. SUFFICES ASSUME IInv, [Next]_vars PROVE IInv'
  BY Zenon
<1>1. CASE UNCHANGED vars
  BY <1>1, Zenon DEF vars, IInv, Typed, Places, Signed, Identified, StatesSound
<1>. QED  BY <1>1, KernelStep, CallsStep, LoadStep, AlarmStep, Zenon DEF Next

(* So it holds throughout.                                                 *)
LEMMA Invariance == Spec => []IInv
  BY InitIInv, StepIInv, PTL DEF Spec

(* The running thread is READY, and who sleeps is inside the function that *)
(* made it sleep, whoever sends to whom.                                   *)
THEOREM StatesStaySound == Spec => []StatesSound
<1>1. IInv => StatesSound
  BY Zenon DEF IInv
<1>. QED  BY <1>1, Invariance, PTL

-----------------------------------------------------------------------------
(* Programs that call only the system service.                             *)

(* Who is not in the hand of the system service.                           *)
LEMMA NotInHand ==
  ASSUME IInv, ServiceInv
  PROVE  /\ SysSrv \in Thread /\ SysSrv \notin Program /\ SysSrv # Idle
         /\ Program \subseteq Thread
         /\ \A t \in InHand \union Members(inq[SysSrv]) :
              /\ t \in Program /\ t # cpu
              /\ at[t] = "wait" /\ state[t] = "RECV" /\ msg[t].snd = t
         /\ \A t \in Program : at[t] # "map"
         /\ at[SysSrv] # "map" => from[SysSrv] = None
         /\ at[SysSrv] \notin {"map", "handle"} => InHand = {}
<1>. USE IpcAssumption
<1>1. SysSrv \in Thread /\ SysSrv \notin Program /\ SysSrv # Idle /\ Program \subseteq Thread
  BY Zenon DEF Thread
<1>2. Members(inq[SysSrv]) \subseteq Program
  BY <1>1, Zenon DEF IInv, Signed, Identified
<1>3. InHand \subseteq Program /\ None \notin Program
  BY <1>1, Zenon DEF InHand, Thread
<1>4. \A t \in InHand \union Members(inq[SysSrv]) :
        /\ t \in Program /\ t # cpu
        /\ at[t] = "wait" /\ state[t] = "RECV" /\ msg[t].snd = t
  BY <1>2, <1>3, Zenon DEF IInv, StatesSound, ServiceInv, Waiting
<1>5. \A t \in Program : at[t] # "map"
  BY <1>1, <1>3 DEF IInv, Places, ServiceInv, OthersIdle
<1>6. at[SysSrv] # "map" => from[SysSrv] = None
  BY Zenon DEF ServiceInv, Waiting
<1>7. at[SysSrv] \notin {"map", "handle"} => InHand = {}
  BY <1>3, <1>6, Zenon DEF InHand
<1>. QED  BY <1>1, <1>4, <1>5, <1>6, <1>7, Zenon

(* What leaves a system call or makes it spin.                             *)
LEMMA CallService ==
  ASSUME IInv, ServiceInv, cpu \in Program,
         NEW p \in {"user", "spin"}, at' = [at EXCEPT ![cpu] = p],
         NEW m, msg' = msg \/ msg' = [msg EXCEPT ![cpu] = m],
         UNCHANGED <<state, cpu, inq, from>>
  PROVE  ServiceInv'
<1>. USE NotInHand
<1>1. /\ at'[SysSrv] = at[SysSrv] /\ msg'[SysSrv] = msg[SysSrv]
      /\ \A t \in Thread \ {cpu} : at'[t] = at[t] /\ msg'[t] = msg[t]
      /\ at'[cpu] # "again"
  BY DEF IInv, Typed
<1>2. InHand' = InHand
  BY <1>1 DEF InHand
<1>3. OthersIdle' /\ WokenForMessage'
  BY <1>1 DEF ServiceInv, OthersIdle, WokenForMessage
<1>4. Waiting'
  BY <1>1, <1>2 DEF ServiceInv, Waiting
<1>. QED  BY <1>3, <1>4, Zenon DEF ServiceInv

(* The system service takes a message.                                     *)
LEMMA TakeService ==
  ASSUME IInv, ServiceInv, cpu # Idle, inq[cpu] # <<>>, at[cpu] # "map", at[cpu] # "handle",
         NEW buf, Take(cpu, buf)
  PROVE  ServiceInv'
<1>. USE NotInHand
<1>c. cpu = SysSrv /\ inq[SysSrv] \in Seq(Program) /\ Once(inq[SysSrv])
  BY Zenon DEF IInv, Typed, ServiceInv, OthersIdle, Waiting
<1>t. PICK s \in Program, rest \in Seq(Program) : \E p, g, m : Takes(buf, s, rest, p, g, m)
  BY TakeEffect, Zenon
<1>u. PICK p, g, m : Takes(buf, s, rest, p, g, m)
  BY <1>t, Zenon
<1>s. /\ s \in Members(inq[SysSrv]) /\ s \notin Members(rest) /\ Once(rest)
      /\ Members(rest) \subseteq Members(inq[SysSrv])
  BY <1>c, <1>u, Taking, Zenon DEF Takes
<1>n. InHand = {} /\ from[SysSrv] = None
  BY <1>c, Zenon
<1>e. /\ inq' = [inq EXCEPT ![SysSrv] = rest] /\ state' = state
      /\ at' = [at EXCEPT ![SysSrv] = p]
      /\ from' = [from EXCEPT ![SysSrv] = g]
      /\ msg' = [msg EXCEPT ![SysSrv] = m]
      /\ p \in {"map", "handle", "empty", "user"}
      /\ IF p = "map" THEN g = s ELSE g = from[SysSrv]
      /\ p = "handle" => m = msg[s]
  BY <1>c, <1>u, Zenon DEF Takes
<1>f. /\ inq'[SysSrv] = rest /\ at'[SysSrv] = p /\ from'[SysSrv] = g /\ msg'[SysSrv] = m
      /\ \A t \in Thread \ {SysSrv} :
           inq'[t] = inq[t] /\ at'[t] = at[t] /\ from'[t] = from[t] /\ msg'[t] = msg[t]
  BY <1>e DEF IInv, Typed
<1>1. OthersIdle' /\ WokenForMessage'
  BY <1>e, <1>f DEF ServiceInv, OthersIdle, WokenForMessage
<1>2. \A t \in InHand' : t = s
  <2>1. msg[s].snd = s /\ None \notin Program
    BY <1>s, IpcAssumption, Zenon DEF Thread
  <2>. QED  BY <1>n, <1>e, <1>f, <2>1 DEF InHand
<1>3. from'[SysSrv] # None => at'[SysSrv] = "map"
  BY <1>n, <1>e, <1>f, Zenon
<1>4. Waiting'
  BY <1>s, <1>e, <1>f, <1>2, <1>3 DEF ServiceInv, Waiting
<1>. QED  BY <1>1, <1>4, Zenon DEF ServiceInv

(* ipc_recv sleeps.                                                        *)
LEMMA SleepService ==
  ASSUME IInv, ServiceInv, cpu # Idle, Sleep(cpu), at[cpu] # "map", at[cpu] # "handle",
         NEW m, msg' = [msg EXCEPT ![cpu] = m] \/ msg' = msg
  PROVE  ServiceInv'
<1>. USE NotInHand
<1>a. cpu \in Thread
  BY Zenon DEF IInv, Typed
<1>e. /\ state' = [state EXCEPT ![cpu] = "RECV"]
      /\ at' = [at EXCEPT ![cpu] = "again"]
      /\ inq' = inq /\ from' = from
  BY Zenon DEF Sleep
<1>f. /\ at'[cpu] = "again" /\ state'[cpu] = "RECV"
      /\ \A t \in Thread \ {cpu} : at'[t] = at[t] /\ state'[t] = state[t] /\ msg'[t] = msg[t]
  BY <1>a, <1>e DEF IInv, Typed
<1>1. OthersIdle' /\ WokenForMessage'
  BY <1>e, <1>f DEF ServiceInv, OthersIdle, WokenForMessage
<1>2. InHand' = InHand
  <2>1. CASE cpu = SysSrv
    <3>1. InHand = {} /\ from[SysSrv] = None /\ None \notin Program
      BY <2>1, IpcAssumption, Zenon DEF Thread
    <3>. QED  BY <1>e, <1>f, <2>1, <3>1 DEF InHand
  <2>2. CASE cpu # SysSrv
    BY <1>e, <1>f, <2>2 DEF InHand
  <2>. QED  BY <2>1, <2>2, Zenon
<1>3. Waiting'
  BY <1>e, <1>f, <1>2 DEF ServiceInv, Waiting
<1>. QED  BY <1>1, <1>3, Zenon DEF ServiceInv

(* ipc_send_and_wait puts a message into the queue that is not in it.      *)
LEMMA DeliverService ==
  ASSUME IInv, ServiceInv, cpu \in Program, Deliver(cpu, SysSrv), from' = from,
         ~Queued(cpu), NEW m, m.snd = cpu, msg' = [msg EXCEPT ![cpu] = m]
  PROVE  ServiceInv'
<1>. USE NotInHand
<1>a. cpu \in Thread /\ cpu # SysSrv /\ inq[SysSrv] \in Seq(Program) /\ cpu \notin Members(inq[SysSrv])
  BY DEF IInv, Typed, Queued
<1>q. PICK q \in Seq(Program) :
        /\ q = Append(inq[SysSrv], cpu) /\ Members(q) = Members(inq[SysSrv]) \union {cpu}
        /\ q # <<>> /\ Once(q)
  BY <1>a, Appending, Zenon DEF ServiceInv, Waiting
<1>e. /\ inq' = [inq EXCEPT ![SysSrv] = q]
      /\ at' = [at EXCEPT ![cpu] = "wait"]
      /\ \/ state' = [state EXCEPT ![cpu] = "RECV"]
         \/ state' = [[state EXCEPT ![cpu] = "RECV"] EXCEPT ![SysSrv] = "READY"]
  BY <1>q, Zenon DEF Deliver, Sent
<1>f. /\ inq'[SysSrv] = q /\ at'[cpu] = "wait" /\ state'[cpu] = "RECV" /\ msg'[cpu].snd = cpu
      /\ \A t \in Thread \ {cpu} : at'[t] = at[t] /\ msg'[t] = msg[t]
      /\ \A t \in Thread \ {cpu, SysSrv} : state'[t] = state[t]
      /\ \A t \in Thread \ {SysSrv} : inq'[t] = inq[t]
  BY <1>a, <1>e DEF IInv, Typed
<1>m. Members(q) = Members(inq[SysSrv]) \union {cpu} /\ q # <<>> /\ Once(q)
  BY <1>q, Zenon
<1>1. OthersIdle' /\ WokenForMessage'
  BY <1>a, <1>f, <1>m DEF ServiceInv, OthersIdle, WokenForMessage
<1>2. InHand' = InHand
  BY <1>a, <1>f DEF InHand
<1>3. Waiting'
  BY <1>a, <1>f, <1>m, <1>2 DEF ServiceInv, Waiting
<1>. QED  BY <1>1, <1>3, Zenon DEF ServiceInv

(* The steps at which only threads that wait for a semaphore change their  *)
(* state, and only the system service moves, but not with a new message.   *)
LEMMA SemaphoreService ==
  ASSUME IInv, ServiceInv,
         \A t \in Thread : state[t] = "RECV" <=> state'[t] = "RECV",
         \A t \in Thread \ {SysSrv} : at'[t] = at[t] /\ from'[t] = from[t] /\ msg'[t] = msg[t],
         inq' = inq, InHand' = InHand,
         from'[SysSrv] # None => at'[SysSrv] = "map",
         at'[SysSrv] # "again"
  PROVE  ServiceInv'
<1>. USE NotInHand
<1>1. \A t \in Program : at[t] = "again" => state[t] = "RECV"
  BY Zenon DEF ServiceInv, OthersIdle
<1>2. \A t \in Thread : t \in Program \/ t = SysSrv \/ t = Idle
  BY Zenon DEF Thread
<1>3. at[Idle] # "again" /\ Idle \in Thread
  BY Zenon DEF IInv, Places, Thread
<1>4. OthersIdle' /\ WokenForMessage'
  BY <1>1, <1>2, <1>3 DEF ServiceInv, OthersIdle, WokenForMessage
<1>5. Waiting'
  BY DEF ServiceInv, Waiting
<1>. QED  BY <1>4, <1>5, Zenon DEF ServiceInv

(* semaphore_enter and semaphore_leave do not touch a thread that waits    *)
(* for a message.                                                          *)
LEMMA RecvKept ==
  ASSUME IInv, \/ SemaphoreLeave
               \/ state[cpu] = "READY" /\ state' = [state EXCEPT ![cpu] = "WAITING"]
               \/ state' = state
  PROVE  \A t \in Thread : state[t] = "RECV" <=> state'[t] = "RECV"
  BY Zenon DEF IInv, Typed, SemaphoreLeave

(* The system service sleeps in semaphore_enter.                           *)
LEMMA BlockedService ==
  ASSUME IInv, ServiceInv, Blocked(cpu), at[cpu] \in {"map", "empty"}
  PROVE  ServiceInv'
<1>. USE NotInHand
<1>1. cpu = SysSrv
  BY Zenon DEF IInv, Typed, Places, Thread
<1>2. at' = at /\ inq' = inq /\ from' = from /\ msg' = msg
  BY Zenon DEF Blocked
<1>3. \A t \in Thread : state[t] = "RECV" <=> state'[t] = "RECV"
  BY RecvKept, Zenon DEF Blocked, IInv, StatesSound
<1>4. InHand' = InHand
  BY <1>2, Zenon DEF InHand
<1>5. from'[SysSrv] # None => at'[SysSrv] = "map"
  BY <1>2, Zenon DEF ServiceInv, Waiting
<1>. QED  BY <1>1, <1>2, <1>3, <1>4, <1>5, SemaphoreService, Zenon

(* The system service has mapped the pages of a message.                   *)
LEMMA MapPagesService ==
  ASSUME IInv, ServiceInv, MapPages(cpu)
  PROVE  ServiceInv'
<1>. USE NotInHand
<1>1. cpu = SysSrv /\ at[SysSrv] = "map" /\ from[SysSrv] \in Program
  BY Zenon DEF IInv, Typed, Places, Thread, MapPages
<1>2. from[SysSrv] \in InHand /\ msg[from[SysSrv]].snd = from[SysSrv]
  <2>1. from[SysSrv] \in InHand
    BY <1>1, Zenon DEF InHand
  <2>. QED  BY <2>1, Zenon
<1>3. /\ at' = [at EXCEPT ![SysSrv] = "handle"]
      /\ from' = [from EXCEPT ![SysSrv] = None]
      /\ msg' = [msg EXCEPT ![SysSrv] = msg[from[SysSrv]]]
      /\ inq' = inq /\ SemaphoreLeave
  BY <1>1, Zenon DEF MapPages, Received
<1>4. /\ at'[SysSrv] = "handle" /\ from'[SysSrv] = None
      /\ msg'[SysSrv] = msg[from[SysSrv]]
      /\ \A t \in Thread \ {SysSrv} : at'[t] = at[t] /\ from'[t] = from[t] /\ msg'[t] = msg[t]
  BY <1>3 DEF IInv, Typed
<1>5. InHand' = InHand
  <2>1. None \notin Program
    BY IpcAssumption, Zenon DEF Thread
  <2>. QED  BY <1>1, <1>2, <1>4, <2>1 DEF InHand
<1>. QED  BY <1>3, <1>4, <1>5, RecvKept, SemaphoreService, Zenon

(* The system service empties its page, and when ipc_recv fails it starts  *)
(* over.                                                                   *)
LEMMA EmptyService ==
  ASSUME IInv, ServiceInv, cpu = SysSrv, at[SysSrv] \in {"empty", "again"},
         NEW p \in {"recv", "empty"}, NEW m, at' = [at EXCEPT ![SysSrv] = p],
         msg' = [msg EXCEPT ![SysSrv] = m] \/ msg' = msg,
         SemaphoreLeave \/ state' = state, UNCHANGED <<cpu, inq, from>>
  PROVE  ServiceInv'
<1>. USE NotInHand
<1>1. from[SysSrv] = None /\ InHand = {} /\ None \notin Program
  BY IpcAssumption, Zenon DEF Thread
<1>2. /\ at'[SysSrv] = p
      /\ \A t \in Thread \ {SysSrv} : at'[t] = at[t] /\ from'[t] = from[t] /\ msg'[t] = msg[t]
  BY DEF IInv, Typed
<1>3. InHand' = InHand
  BY <1>1, <1>2, Zenon DEF InHand
<1>4. \A t \in Thread : state[t] = "RECV" <=> state'[t] = "RECV"
  BY RecvKept, Zenon
<1>5. at'[SysSrv] # "again" /\ from'[SysSrv] = None
  BY <1>1, <1>2, Zenon
<1>. QED  BY <1>2, <1>3, <1>4, <1>5, SemaphoreService, Zenon

(* system_srv_handle_msg lets go of the message, whose sender no queue     *)
(* links any more.                                                         *)
LEMMA HandleService ==
  ASSUME IInv, ServiceInv, cpu = SysSrv, Quit \/ Reply
  PROVE  ServiceInv'
<1>. USE NotInHand
<1>a. at[SysSrv] = "handle" /\ from[SysSrv] = None /\ None \notin Program
  BY IpcAssumption, Zenon DEF Quit, Reply, Thread
<1>s. PICK s \in Program : s = msg[SysSrv].snd
  BY <1>a, Zenon DEF IInv, Signed
<1>h. s \in InHand /\ at[s] = "wait" /\ s \notin Members(inq[SysSrv])
  <2>1. s \in InHand
    BY <1>a, <1>s, Zenon DEF InHand
  <2>. QED  BY <2>1, Zenon DEF ServiceInv, Waiting
<1>e. PICK m : /\ at' = [at EXCEPT ![SysSrv] = "empty"]
               /\ msg' = msg \/ msg' = [msg EXCEPT ![SysSrv] = m]
               /\ inq' = inq /\ from' = from
  BY Zenon DEF Quit, Reply
<1>t. \/ state' = [state EXCEPT ![s] = "ZOMBIE"]
      \/ state' = [state EXCEPT ![s] = "READY"]
      \/ state' = state
  BY <1>s, Zenon DEF Quit, Reply
<1>f. /\ at'[SysSrv] = "empty"
      /\ \A t \in Thread \ {SysSrv} : at'[t] = at[t] /\ msg'[t] = msg[t]
      /\ \A t \in Thread \ {s} : state'[t] = state[t]
  BY <1>e, <1>t DEF IInv, Typed
<1>1. OthersIdle' /\ WokenForMessage'
  BY <1>h, <1>e, <1>f DEF ServiceInv, OthersIdle, WokenForMessage
<1>2. InHand' = {}
  BY <1>a, <1>e, <1>f DEF InHand
<1>3. Waiting'
  BY <1>a, <1>h, <1>e, <1>f, <1>2 DEF ServiceInv, Waiting
<1>. QED  BY <1>1, <1>3, Zenon DEF ServiceInv

(* The idle thread and the timer do not disturb the messages.              *)
LEMMA LoadService ==
  ASSUME IInv, ServiceInv, (cpu = Idle /\ (Load \/ VmemLeave)) \/ Alarm
  PROVE  ServiceInv'
<1>. USE NotInHand
<1>e. inq' = inq /\ msg' = msg /\ from' = from
  BY Zenon DEF Load, VmemEnter, VmemLeave, ExecuteModule, Alarm
<1>a. \A t \in Thread : at'[t] # at[t] =>
         t # SysSrv /\ at[t] \in {"new", "user", "loading"} /\ at'[t] \in {"user", "loading"}
  BY DEF IInv, Typed, Load, VmemEnter, VmemLeave, ExecuteModule, Alarm, Thread
<1>s. \A t \in Thread : state'[t] # state[t] =>
         state'[t] = "READY" /\ (state[t] = "WAITING" \/ at[t] = "new")
  BY DEF IInv, Typed, Load, VmemEnter, VmemLeave, ExecuteModule, Alarm, SemaphoreLeave, Thread
<1>1. InHand' = InHand
  BY <1>e, <1>a DEF InHand
<1>2. OthersIdle' /\ WokenForMessage'
  BY <1>e, <1>a, <1>s DEF ServiceInv, OthersIdle, WokenForMessage, IInv, StatesSound
<1>3. Waiting'
  BY <1>e, <1>a, <1>s, <1>1 DEF ServiceInv, Waiting
<1>. QED  BY <1>2, <1>3, Zenon DEF ServiceInv

(* The system calls of programs.                                           *)
LEMMA CallsService ==
  ASSUME ServiceOnly, IInv, ServiceInv, cpu \in Program, Calls(cpu)
  PROVE  ServiceInv'
<1>. DEFINE M(f, n) == [snd |-> cpu, flags |-> f, n |-> n]
<1>m. \A f, n : M(f, n).snd = cpu
  BY Zenon
<1>a. cpu # Idle
  BY IpcAssumption, Zenon
<1>1. CASE Rejected(cpu)
  BY <1>1, CallService, Zenon DEF Rejected, Returns
<1>2. CASE NotImplemented(cpu)
  <2>1. PICK f : msg' = [msg EXCEPT ![cpu] = M(f, 0)]
    BY <1>2, Zenon DEF NotImplemented, Prepared
  <2>. HIDE DEF M
  <2>. QED  BY <1>2, <2>1, CallService, Zenon DEF NotImplemented, Returns
<1>3. ASSUME NEW f, NEW n, Send(cpu, SysSrv, f, n)
      PROVE  ServiceInv'
  <2>1. msg' = [msg EXCEPT ![cpu] = M(Unreserved(f), n)] /\ from' = from /\ ~Queued(cpu)
    BY <1>3, Zenon DEF Send, Prepared, InSyscall
  <2>. HIDE DEF M
  <2>2. CASE Busy(SysSrv, f)
    <3>1. at' = [at EXCEPT ![cpu] = "user"] /\ UNCHANGED <<state, cpu, inq, from>>
      BY <1>3, <2>2, Zenon DEF Send, Returns
    <3>. QED  BY <2>1, <3>1, CallService, Zenon
  <2>3. CASE ~Busy(SysSrv, f)
    BY <1>3, <1>m, <2>1, <2>3, DeliverService, Zenon DEF Send
  <2>. QED  BY <2>2, <2>3, Zenon
<1>4. ASSUME NEW f, NEW n, SendSpin(cpu, SysSrv, f, n)
      PROVE  ServiceInv'
  <2>1. msg' = [msg EXCEPT ![cpu] = M(Unreserved(f), n)]
    BY <1>4, Zenon DEF SendSpin, Prepared
  <2>. HIDE DEF M
  <2>. QED  BY <1>4, <2>1, CallService, Zenon DEF SendSpin
<1>5. ASSUME NEW f, NEW n, Recv(cpu, f, n)
      PROVE  ServiceInv'
  <2>1. \/ Sleep(cpu) /\ msg' = [msg EXCEPT ![cpu] = M(Unreserved(f), n)]
        \/ inq[cpu] # <<>> /\ Take(cpu, M(Unreserved(f), n))
    BY <1>5, Zenon DEF Recv
  <2>. HIDE DEF M
  <2>2. at[cpu] # "map" /\ at[cpu] # "handle"
    BY <1>5, Zenon DEF Recv, InSyscall
  <2>. QED  BY <1>a, <2>1, <2>2, SleepService, TakeService, Zenon
<1>6. \A r \in Peers[cpu] : r = SysSrv
  BY Zenon DEF ServiceOnly
<1>. QED  BY <1>1, <1>2, <1>3, <1>4, <1>5, <1>6, Zenon DEF Calls

(* What goes on in the kernel.                                             *)
LEMMA KernelService ==
  ASSUME IInv, ServiceInv, Step
  PROVE  ServiceInv'
<1>p. /\ at[cpu] = "wait" => cpu \in Program
      /\ at[cpu] = "again" => cpu \in Program \/ cpu = SysSrv
      /\ at[cpu] = "again" => cpu # Idle
  BY IpcAssumption, Zenon DEF IInv, Typed, Places, Thread
<1>1. CASE Return(cpu)
  BY <1>1, <1>p, CallService, Zenon DEF Return, Returns
<1>2. CASE RecvAgain(cpu)
  <2>0. at[cpu] = "again" /\ at[cpu] # "map" /\ at[cpu] # "handle"
    BY <1>2, Zenon DEF RecvAgain
  <2>1. CASE inq[cpu] # <<>> /\ Take(cpu, msg[cpu])
    BY <1>p, <2>0, <2>1, TakeService, Zenon
  <2>2. CASE Failed(cpu) /\ UNCHANGED <<state, cpu, inq, msg, from, lock, vsem, loads>>
    <3>1. CASE cpu = SysSrv
      BY <2>0, <2>2, <3>1, EmptyService, Zenon DEF Failed
    <3>2. CASE cpu # SysSrv
      BY <1>p, <2>0, <2>2, <3>2, CallService, Zenon DEF Failed, Returns
    <3>. QED  BY <3>1, <3>2, Zenon
  <2>. QED  BY <1>2, <2>1, <2>2, Zenon DEF RecvAgain
<1>3. CASE MapPages(cpu) \/ MapBlocked(cpu)
  BY <1>3, MapPagesService, BlockedService, Zenon DEF MapBlocked
<1>4. CASE cpu = SysSrv /\ Serve
  <2>1. CASE EmptyPages
    BY <1>4, <2>1, EmptyService, Zenon DEF EmptyPages
  <2>2. CASE EmptyBlocked
    BY <1>4, <2>2, BlockedService, Zenon DEF EmptyBlocked
  <2>3. CASE ServerRecv
    <3>1. cpu # Idle /\ at[cpu] # "map" /\ at[cpu] # "handle"
      BY <1>4, <2>3, IpcAssumption, Zenon DEF ServerRecv
    <3>. QED  BY <1>4, <2>3, <3>1, SleepService, TakeService, Zenon DEF ServerRecv
  <2>. QED  BY <1>4, <2>1, <2>2, <2>3, HandleService, Zenon DEF Serve
<1>5. CASE cpu = Idle /\ VmemLeave
  BY <1>5, LoadService, Zenon
<1>. QED  BY <1>1, <1>2, <1>3, <1>4, <1>5, Zenon DEF Step, Receive

(* No message has been sent when interrupts are enabled.                   *)
LEMMA InitService == Init => ServiceInv
<1>. SUFFICES ASSUME Init PROVE ServiceInv
  OBVIOUS
<1>1. /\ \A r \in Thread : inq[r] = <<>> /\ from[r] = None
      /\ \A t \in Thread : at[t] \notin {"again", "handle"}
  BY Zenon DEF Init
<1>2. SysSrv \in Thread /\ Program \subseteq Thread /\ None \notin Program
  BY IpcAssumption, Zenon DEF Thread
<1>3. Members(<<>>) = {} /\ Once(<<>>)
  BY DEF Members, Once
<1>4. InHand = {}
  BY <1>1, <1>2, Zenon DEF InHand
<1>. QED  BY <1>1, <1>2, <1>3, <1>4, Zenon DEF ServiceInv, OthersIdle, Waiting, WokenForMessage

(* Every step preserves what is known of the messages.                     *)
LEMMA StepService ==
  ASSUME ServiceOnly
  PROVE  IInv /\ ServiceInv /\ [Next]_vars => ServiceInv'
<1>. SUFFICES ASSUME IInv, ServiceInv, [Next]_vars PROVE ServiceInv'
  BY Zenon
<1>1. CASE UNCHANGED vars
  <2>1. /\ state' = state /\ cpu' = cpu /\ at' = at /\ inq' = inq /\ msg' = msg /\ from' = from
    BY <1>1, Zenon DEF vars
  <2>2. InHand' = InHand
    BY <2>1, Zenon DEF InHand
  <2>. QED  BY <2>1, <2>2, Zenon DEF ServiceInv, OthersIdle, Waiting, WokenForMessage
<1>. QED  BY <1>1, KernelService, CallsService, LoadService, Zenon DEF Next

(* So it holds throughout.                                                 *)
LEMMA ServiceInvariance ==
  ASSUME ServiceOnly
  PROVE  Spec => [](IInv /\ ServiceInv)
<1>1. IInv /\ ServiceInv /\ [Next]_vars => ServiceInv'
  BY StepService, Zenon
<1>. QED  BY <1>1, InitIInv, StepIInv, InitService, PTL DEF Spec

(* While a thread's message is linked by the queue or its pages are        *)
(* mapped, the thread waits.                                               *)
LEMMA InUseWaits ==
  ASSUME IInv, ServiceInv
  PROVE  \A t \in Thread : InUse(t) => at[t] = "wait" /\ state[t] = "RECV"
<1>. SUFFICES ASSUME NEW t \in Thread, InUse(t)
              PROVE  at[t] = "wait" /\ state[t] = "RECV"
  BY Zenon
<1>. USE NotInHand
<1>1. None \notin Thread /\ Members(<<>>) = {}
  BY IpcAssumption DEF Members
<1>2. \A r \in Thread \ {SysSrv} : inq[r] = <<>> /\ from[r] = None
  BY Zenon DEF ServiceInv, OthersIdle
<1>3. t \in Members(inq[SysSrv]) \/ from[SysSrv] = t
  BY <1>1, <1>2 DEF InUse, Queued
<1>4. CASE from[SysSrv] = t
  <2>1. t \in Program
    BY <1>1, <1>4 DEF IInv, Typed
  <2>2. t \in InHand
    BY <1>4, <2>1, Zenon DEF InHand
  <2>. QED  BY <2>2, Zenon
<1>. QED  BY <1>3, <1>4, Zenon

(* For programs that call only the system service, the message in a TCB is *)
(* in one queue at most and is not initialised again while it is in use.   *)
THEOREM MessagesStaySound ==
  ASSUME ServiceOnly
  PROVE  Spec => []MessagesSound
<1>1. IInv /\ ServiceInv => MessagesSound
  <2>. SUFFICES ASSUME IInv, ServiceInv PROVE MessagesSound
    BY Zenon
  <2>1. \A r \in Thread \ {SysSrv} : inq[r] = <<>>
    BY Zenon DEF ServiceInv, OthersIdle
  <2>2. \A i, j \in DOMAIN inq[SysSrv] : inq[SysSrv][i] = inq[SysSrv][j] => i = j
    BY Zenon DEF ServiceInv, Waiting, Once
  <2>3. \A r \in Thread : \A i \in DOMAIN inq[r] : r = SysSrv
    BY <2>1
  <2>. QED  BY <2>2, <2>3, InUseWaits, Zenon DEF MessagesSound
<1>. QED  BY <1>1, ServiceInvariance, PTL

(* Then also, who is woken in ipc_recv finds a message.                    *)
THEOREM WokenFindMessage ==
  ASSUME ServiceOnly
  PROVE  Spec => []WokenForMessage
<1>1. ServiceInv => WokenForMessage
  BY Zenon DEF ServiceInv
<1>. QED  BY <1>1, ServiceInvariance, PTL

(* Nobody but the running thread leaves ipc_send_and_wait.                 *)
LEMMA OthersStay ==
  ASSUME IInv, Next, NEW t \in Program, at[t] = "wait", t # cpu
  PROVE  at'[t] = "wait"
<1>a. at \in [Thread -> Points] /\ t \in Thread
  BY DEF IInv, Typed, Thread
<1>1. CASE Step
  <2>1. CASE Return(cpu) \/ (cpu = Idle /\ VmemLeave)
    BY <2>1, <1>a, Zenon DEF Return, Returns, VmemLeave
  <2>2. CASE RecvAgain(cpu)
    BY <2>2, <1>a, Zenon DEF RecvAgain, Take, Received, Failed, Returns
  <2>3. CASE MapPages(cpu) \/ MapBlocked(cpu)
    BY <2>3, <1>a, Zenon DEF MapPages, Received, Returns, MapBlocked, Blocked
  <2>4. CASE cpu = SysSrv /\ ServerRecv
    BY <2>4, <1>a, Zenon DEF ServerRecv, Sleep, Take, Received, Failed
  <2>5. CASE cpu = SysSrv /\ (EmptyPages \/ EmptyBlocked \/ Quit \/ Reply)
    BY <2>5, <1>a, Zenon DEF EmptyPages, EmptyBlocked, Blocked, Quit, Reply
  <2>. QED  BY <1>1, <2>1, <2>2, <2>3, <2>4, <2>5, Zenon DEF Step, Receive, Serve
<1>2. CASE Calls(cpu)
  <2>1. CASE Rejected(cpu) \/ NotImplemented(cpu)
    BY <2>1, <1>a, Zenon DEF Rejected, NotImplemented, Returns
  <2>2. ASSUME NEW r, NEW f, NEW n, Send(cpu, r, f, n) \/ SendSpin(cpu, r, f, n)
        PROVE  at'[t] = "wait"
    BY <2>2, <1>a, Zenon DEF Send, Deliver, Returns, SendSpin
  <2>3. ASSUME NEW f, NEW n, Recv(cpu, f, n)
        PROVE  at'[t] = "wait"
    BY <2>3, <1>a, Zenon DEF Recv, Sleep, Take, Received, Failed, Returns
  <2>. QED  BY <1>2, <2>1, <2>2, <2>3, Zenon DEF Calls
<1>3. CASE cpu = Idle /\ Load
  BY <1>3, <1>a, Zenon DEF Load, VmemEnter, ExecuteModule
<1>4. CASE Alarm
  BY <1>4, Zenon DEF Alarm
<1>. QED  BY <1>1, <1>2, <1>3, <1>4, Zenon DEF Next

(* A program that calls only the system service waits for its answer: it   *)
(* does not return while its message is still in use.                      *)
THEOREM SendersWait ==
  ASSUME ServiceOnly
  PROVE  Spec => WaitsForAnswer
<1>1. IInv /\ ServiceInv /\ [Next]_vars => [\A t \in Program : Return(t) => ~InUse(t)]_vars
  <2>. SUFFICES ASSUME IInv, ServiceInv, Next, NEW t \in Program, Return(t), InUse(t)
                PROVE  FALSE
    BY Zenon
  <2>1. t \in Thread /\ at[t] = "wait" /\ state[t] = "RECV"
    BY InUseWaits, Zenon DEF Thread
  <2>2. t # cpu
    BY <2>1, Zenon DEF IInv, StatesSound
  <2>3. at'[t] = "wait"
    BY <2>1, <2>2, OthersStay, Zenon
  <2>. QED  BY <2>1, <2>3, Zenon DEF Return, Returns, IInv, Typed
<1>. QED  BY <1>1, ServiceInvariance, PTL DEF Spec, WaitsForAnswer
=============================================================================
