-------------------------------- MODULE Pmem ---------------------------------
(***************************************************************************)
(* The page frames of pmem.c: the functions that allocate, reference and   *)
(* release ranges of frames, frame by frame, under the semaphore map_sem.  *)
(* A thread may be preempted between any two steps.  The semaphore is the  *)
(* one that CountingSemaphore specifies, with its single slot.             *)
(***************************************************************************)
EXTENDS Integers

CONSTANTS
  Thread,    \* the threads that call pmem.c
  NFrames,   \* memmap_len(&g_pmem)
  RefMax,    \* 0x3f, the largest value of the six bits of a reference counter
  Requests,  \* Requests[t]: the calls that t makes
  None       \* no thread, no request

Functions == {"alloc", "alloc_at", "claim", "ref", "unref", "set_type"}

(* No caller asks for zero frames, or sets another type than AVAILABLE.    *)
ASSUME PmemAssumption ==
  /\ NFrames \in Nat \ {0}
  /\ RefMax \in Nat \ {0}
  /\ Requests \in [Thread -> SUBSET [op : Functions, pf : Nat, n : Nat \ {0}]]
  /\ None \notin Thread /\ \A t \in Thread : None \notin Requests[t]

VARIABLES
  type,      \* type[f]: the two bits of g_pmem.map[f] with the type
  ref,       \* ref[f]: the six bits with the number of references
  sem,       \* the thread that owns the slot of g_pmem.map_sem
  req,       \* req[t]: the function that t is in and its arguments
  at,        \* at[t]: where t is in it
  first,     \* first[t]: the first frame of the range that t works on
  beg,       \* beg[t]: the local variable beg
  res,       \* res[t]: the local variables res and pfindex
  ret        \* ret[t]: what t's last call returned, 0 if nothing

vars == <<type, ref, sem, req, at, first, beg, res, ret>>

Frame == 0..(NFrames - 1)

Span(pf, n) == pf..(pf + n - 1)

ENOMEM == -12
ENODEV == -19
EOVERFLOW == -75

Result == (0..NFrames) \union {ENOMEM, ENODEV, EOVERFLOW}

Request == UNION {Requests[t] : t \in Thread}

Points ==
  {"out", "reject", "enter", "scan", "fit", "fail", "ref", "rollback", "unref", "set"}

(* In particular, the counters do not run into the bits of the type.       *)
TypeOK ==
  /\ type \in [Frame -> {"NONE", "AVAILABLE"}]
  /\ ref \in [Frame -> 0..RefMax]
  /\ sem \in Thread \union {None}
  /\ req \in [Thread -> Request \union {None}]
  /\ at \in [Thread -> Points]
  /\ first \in [Thread -> 0..NFrames]
  /\ beg \in [Thread -> 0..(NFrames + 1)]
  /\ res \in [Thread -> Result]
  /\ ret \in [Thread -> Result]

\* pmem_init clears the map.
Init ==
  /\ type = [f \in Frame |-> "NONE"]
  /\ ref = [f \in Frame |-> 0]
  /\ sem = None
  /\ req = [t \in Thread |-> None]
  /\ at = [t \in Thread |-> "out"]
  /\ first = [t \in Thread |-> 0]
  /\ beg = [t \in Thread |-> 0]
  /\ res = [t \in Thread |-> 0]
  /\ ret = [t \in Thread |-> 0]

-----------------------------------------------------------------------------
(* Every function first compares its arguments with the length of the map. *)

InRange(r) == r.n <= NFrames /\ r.pf <= NFrames - r.n

OutOfRange(op) ==
  CASE op = "alloc"    -> 0
    [] op = "set_type" -> ENODEV
    [] op = "unref"    -> 0
    [] OTHER           -> ENOMEM

Call(t) ==
  /\ at[t] = "out"
  /\ \E r \in Requests[t] :
       /\ req' = [req EXCEPT ![t] = r]
       /\ at' = [at EXCEPT ![t] = IF InRange(r) THEN "enter" ELSE "reject"]
  /\ ret' = [ret EXCEPT ![t] = 0]
  /\ UNCHANGED <<type, ref, sem, first, beg, res>>

Reject(t) ==
  /\ at[t] = "reject"
  /\ at' = [at EXCEPT ![t] = "out"]
  /\ req' = [req EXCEPT ![t] = None]
  /\ ret' = [ret EXCEPT ![t] = OutOfRange(req[t].op)]
  /\ UNCHANGED <<type, ref, sem, first, beg, res>>

\* semaphore_enter(&g_pmem.map_sem), and the start of the function's loop.
Loop(op) ==
  CASE op = "alloc"    -> "scan"
    [] op = "alloc_at" -> "fit"
    [] op = "unref"    -> "unref"
    [] op = "set_type" -> "set"
    [] OTHER           -> "ref"

Enter(t) ==
  /\ at[t] = "enter"
  /\ sem = None
  /\ sem' = t
  /\ at' = [at EXCEPT ![t] = Loop(req[t].op)]
  /\ first' = [first EXCEPT ![t] = req[t].pf]
  /\ beg' = [beg EXCEPT ![t] = IF req[t].op = "alloc" THEN 1 ELSE req[t].pf]
  /\ res' = [res EXCEPT ![t] = IF req[t].op = "alloc_at" THEN req[t].pf ELSE 0]
  /\ UNCHANGED <<type, ref, req, ret>>

\* semaphore_leave and the return, once the loop is done.
Done(t) ==
  \/ at[t] = "fail"
  \/ at[t] \in {"ref", "unref", "set"} /\ beg[t] = first[t] + req[t].n
  \/ at[t] = "rollback" /\ beg[t] = first[t]

Leave(t) ==
  /\ Done(t)
  /\ sem' = None
  /\ at' = [at EXCEPT ![t] = "out"]
  /\ req' = [req EXCEPT ![t] = None]
  /\ ret' = [ret EXCEPT ![t] = res[t]]
  /\ first' = [first EXCEPT ![t] = 0]
  /\ beg' = [beg EXCEPT ![t] = 0]
  /\ res' = [res EXCEPT ![t] = 0]
  /\ UNCHANGED <<type, ref>>

-----------------------------------------------------------------------------
(* pmem_alloc_frames and pmem_alloc_frames_at.                             *)

IsAllocable(f) == type[f] = "AVAILABLE" /\ ref[f] = 0

\* f is the first frame from b on with a property, or e if none before e has it.
FindFrame(b, e, ok(_), f) ==
  /\ f \in b..e
  /\ f < e => ok(f)
  /\ \A g \in b..(f - 1) : ~ok(g)

FindAllocable(b, e, f) == FindFrame(b, e, IsAllocable, f)

FindNonAllocable(b, e, f) == FindFrame(b, e, LAMBDA g : ~IsAllocable(g), f)

\* No frame is referenced; the function returns zero.
NotFound(t) ==
  /\ at' = [at EXCEPT ![t] = "fail"]
  /\ res' = [res EXCEPT ![t] = 0]
  /\ UNCHANGED <<first, beg>>

\* alloc_frame_range found n frames at b and goes on to reference them.
Found(t, b) ==
  /\ at' = [at EXCEPT ![t] = "ref"]
  /\ first' = [first EXCEPT ![t] = b]
  /\ beg' = [beg EXCEPT ![t] = b]
  /\ res' = [res EXCEPT ![t] = b]

\* The search before frame end; it goes on after a gap e with frame next(e).
ScanTo(t, n, end, next(_)) ==
  /\ \/ beg[t] >= end /\ NotFound(t)
     \/ \E b \in beg[t]..end :
          /\ beg[t] < end /\ FindAllocable(beg[t], end, b)
          /\ \/ b = end /\ NotFound(t)
             \/ \E e \in b..(b + n) :
                  /\ b < end /\ FindNonAllocable(b, b + n, e)
                  /\ \/ e = b + n /\ Found(t, b)
                     \/ /\ e < b + n
                        /\ beg' = [beg EXCEPT ![t] = next(e)]
                        /\ UNCHANGED <<at, first, res>>
  /\ UNCHANGED <<type, ref, sem, req, ret>>

\* Mutant: the last place where n frames fit is not considered.
ScanShort(t) ==
  at[t] = "scan" /\ ScanTo(t, req[t].n, NFrames - req[t].n, LAMBDA e : e + 1)

\* Mutant: the search goes on where it began.
ScanAgain(t) ==
  at[t] = "scan" /\ ScanTo(t, req[t].n, NFrames - req[t].n + 1, LAMBDA e : beg[t])

\* One round of the loop of pmem_alloc_frames.
Scan(t) ==
  at[t] = "scan" /\ ScanTo(t, req[t].n, NFrames - req[t].n + 1, LAMBDA e : e + 1)

Fit(t) ==
  /\ at[t] = "fit"
  /\ LET end == first[t] + req[t].n
     IN  IF FindNonAllocable(first[t], end, end) THEN Found(t, first[t]) ELSE NotFound(t)
  /\ UNCHANGED <<type, ref, sem, req, ret>>

-----------------------------------------------------------------------------
(* The loops that count references up and down.  Frames that were just     *)
(* found allocable are referenced without a check.                         *)

\* Mutant: can_ref is not asked.
RefusalWithoutLimit(op, f) == IF op = "ref" /\ ref[f] = 0 THEN ENODEV ELSE 0

Refusal(op, f) ==
  CASE op = "ref" /\ ref[f] = 0 -> ENODEV
    [] op \in {"claim", "ref"} /\ ref[f] = RefMax -> EOVERFLOW
    [] OTHER -> 0

InLoop(t, point) == at[t] = point /\ beg[t] < first[t] + req[t].n

RefFrame(t) ==
  /\ InLoop(t, "ref")
  /\ Refusal(req[t].op, beg[t]) = 0
  /\ ref' = [ref EXCEPT ![beg[t]] = @ + 1]
  /\ beg' = [beg EXCEPT ![t] = @ + 1]
  /\ UNCHANGED <<type, sem, req, at, first, res, ret>>

\* Mutant: the rollback starts after the frame that was refused.
RefuseAfter(t) ==
  /\ InLoop(t, "ref")
  /\ Refusal(req[t].op, beg[t]) # 0
  /\ res' = [res EXCEPT ![t] = Refusal(req[t].op, beg[t])]
  /\ at' = [at EXCEPT ![t] = "rollback"]
  /\ beg' = [beg EXCEPT ![t] = @ + 1]
  /\ UNCHANGED <<type, ref, sem, req, first, ret>>

Refuse(t) ==
  /\ InLoop(t, "ref")
  /\ Refusal(req[t].op, beg[t]) # 0
  /\ res' = [res EXCEPT ![t] = Refusal(req[t].op, beg[t])]
  /\ at' = [at EXCEPT ![t] = "rollback"]
  /\ UNCHANGED <<type, ref, sem, req, first, beg, ret>>

\* unref_frame does not check.
Rollback(t) ==
  /\ at[t] = "rollback" /\ beg[t] > first[t]
  /\ ref' = [ref EXCEPT ![beg[t] - 1] = @ - 1]
  /\ beg' = [beg EXCEPT ![t] = @ - 1]
  /\ UNCHANGED <<type, sem, req, at, first, res, ret>>

\* checked_unref_frame leaves a frame without references alone.
UnrefFrame(t) ==
  /\ InLoop(t, "unref")
  /\ ref' = [ref EXCEPT ![beg[t]] = IF @ = 0 THEN 0 ELSE @ - 1]
  /\ beg' = [beg EXCEPT ![t] = @ + 1]
  /\ UNCHANGED <<type, sem, req, at, first, res, ret>>

SetFrameType(t) ==
  /\ InLoop(t, "set")
  /\ type' = [type EXCEPT ![beg[t]] = "AVAILABLE"]
  /\ beg' = [beg EXCEPT ![t] = @ + 1]
  /\ UNCHANGED <<ref, sem, req, at, first, res, ret>>

-----------------------------------------------------------------------------
Step(t) ==
  \/ Reject(t) \/ Enter(t) \/ Leave(t)
  \/ Scan(t) \/ Fit(t)
  \/ RefFrame(t) \/ Refuse(t) \/ Rollback(t) \/ UnrefFrame(t) \/ SetFrameType(t)

Next == \E t \in Thread : Call(t) \/ Step(t)

Spec == Init /\ [][Next]_vars

(* A thread inside a function is scheduled again.  Nothing is assumed of   *)
(* the order in which map_sem serves its waiters.                          *)
Fairness == \A t \in Thread : WF_vars(Step(t))

FairSpec == Spec /\ Fairness

-----------------------------------------------------------------------------
(* Properties.                                                             *)

\* Frames whose reference is not final before t's function returns.
Pending(t) ==
  IF at[t] \in {"ref", "rollback"} THEN first[t]..(beg[t] - 1) ELSE {}

\* Frames that t's function is going to change.
Ahead(t, point) ==
  IF at[t] = point THEN beg[t]..(first[t] + req[t].n - 1) ELSE {}

(* The map as somebody sees it who does not see functions half done: the   *)
(* four functions that acquire references take effect when they return,    *)
(* and the other two when they enter the semaphore.                        *)

FinalType(f) ==
  IF sem # None /\ f \in Ahead(sem, "set") THEN "AVAILABLE" ELSE type[f]

FinalRef(f) ==
  CASE sem = None -> ref[f]
    [] sem # None /\ f \in Pending(sem) -> ref[f] - 1
    [] sem # None /\ f \in Ahead(sem, "unref") /\ ref[f] > 0 -> ref[f] - 1
    [] OTHER -> ref[f]

Abstract == INSTANCE FrameMap WITH
  type <- [f \in Frame |-> FinalType(f)],
  ref <- [f \in Frame |-> FinalRef(f)],
  req <- [t \in Thread |-> IF at[t] \in {"unref", "set"} THEN None ELSE req[t]]

(* Whatever the interleaving, the functions of pmem.c behave as if each    *)
(* happened at once: pmem_alloc_frames returns the lowest frames that fit, *)
(* frames that have no reference and are not given out again, and a        *)
(* function that fails on its way has changed nothing (pmem.c:208-371).    *)
ImplementsFrameMap == Abstract!Spec

(* When pmem_claim_frames or pmem_ref_frames roll back, every frame still  *)
(* has the reference that they take from it without a check                *)
(* (pmem.c:300-303 and 343-346).                                           *)
RollbackSound ==
  \A t \in Thread : at[t] = "rollback" => \A f \in Pending(t) : ref[f] > 0

(* Who enters map_sem leaves it: the search of pmem_alloc_frames           *)
(* (pmem.c:221-236) and the other loops end, and every path out of a       *)
(* function leaves the semaphore.                                          *)
SemaphoreLeft == \A t \in Thread : sem = t ~> sem = None
==================================================
