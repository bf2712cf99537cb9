----------------------------- MODULE PmemProofs -----------------------------
(* Proofs about Pmem, for every number of frames and references, and for   *)
(* all threads and requests.                                               *)
EXTENDS Pmem, TLAPS

\* t is between semaphore_enter and semaphore_leave.
Inside(t) == at[t] \notin {"out", "reject", "enter"}

(* What is true of a thread wherever it is: who is inside owns the         *)
(* semaphore, and the arguments were checked before.                       *)
Control ==
  \A t \in Thread :
    /\ Inside(t) <=> sem = t
    /\ at[t] = "out" <=> req[t] = None
    /\ at[t] # "out" => req[t] \in Requests[t] /\ ret[t] = 0
    /\ at[t] = "reject" => ~InRange(req[t])
    /\ at[t] = "enter" \/ Inside(t) => InRange(req[t])

(* What t is about wherever it is inside, and the range that it works on.  *)
Range(t) ==
  /\ at[t] = "scan" => req[t].op = "alloc" /\ beg[t] > 0
  /\ at[t] = "fit" => req[t].op = "alloc_at"
  /\ at[t] = "fail" => req[t].op \in {"alloc", "alloc_at"} /\ res[t] = 0
  /\ at[t] = "unref" => req[t].op = "unref" /\ res[t] = 0
  /\ at[t] = "set" => req[t].op = "set_type" /\ res[t] = 0
  /\ at[t] = "ref" => /\ req[t].op \in {"alloc", "alloc_at", "claim", "ref"}
                      /\ res[t] = IF req[t].op \in {"alloc", "alloc_at"} THEN first[t] ELSE 0
  /\ at[t] = "rollback" => req[t].op \in {"claim", "ref"}
  /\ at[t] \in {"fit", "ref", "rollback", "unref", "set"} =>
       /\ req[t].op # "alloc" => first[t] = req[t].pf
       /\ first[t] <= beg[t] /\ beg[t] <= first[t] + req[t].n
       /\ first[t] + req[t].n <= NFrames

(* What the loops have done so far: frames that were found allocable have  *)
(* one reference or none, the others at least the one that was added.      *)
Counted(t) ==
  \A f \in Frame :
    /\ at[t] = "ref" /\ req[t].op \in {"alloc", "alloc_at"} =>
         /\ f \in first[t]..(beg[t] - 1) => ref[f] = 1
         /\ f \in beg[t]..(first[t] + req[t].n - 1) => ref[f] = 0
         /\ f \in Span(first[t], req[t].n) => type[f] = "AVAILABLE"
    /\ at[t] \in {"ref", "rollback"} /\ f \in first[t]..(beg[t] - 1) =>
         ref[f] > IF req[t].op = "ref" THEN 1 ELSE 0

(* n frames from i on are not allocable, whatever t does to its own.       *)
Blocked(i, n, own) == \E f \in Span(i, n) \ own : ~IsAllocable(f)

(* What the search has passed over.                                        *)
Searched(t) ==
  LET n == req[t].n
  IN  /\ at[t] = "scan" =>
           \A i \in 1..(NFrames - n) : i < beg[t] => Blocked(i, n, {})
      /\ at[t] = "fail" /\ req[t].op = "alloc" =>
           \A i \in 1..(NFrames - n) : Blocked(i, n, {})
      /\ at[t] = "fail" /\ req[t].op = "alloc_at" => Blocked(req[t].pf, n, {})
      /\ at[t] = "ref" /\ req[t].op = "alloc" =>
           /\ first[t] > 0
           /\ \A i \in 1..(first[t] - 1) : Blocked(i, n, Span(first[t], n))

(* Why t rolls back: frame g was refused, and those before it were not.    *)
Refused(t) ==
  at[t] = "rollback" =>
    \E g \in Span(first[t], req[t].n) :
      /\ beg[t] <= g
      /\ Refusal(req[t].op, g) = res[t] /\ res[t] # 0
      /\ \A f \in beg[t]..(g - 1) : ref[f] < RefMax /\ (req[t].op = "ref" => ref[f] > 0)

Work(t) == Range(t) /\ Counted(t) /\ Searched(t) /\ Refused(t)

IInv == TypeOK /\ Control /\ \A t \in Thread : Work(t)

(* Numbers, where the provers would not see them in the types of records.  *)
LEMMA Numbers ==
  ASSUME TypeOK, Control, NEW t \in Thread
  PROVE  /\ NFrames \in Nat /\ NFrames > 0 /\ RefMax \in Nat /\ RefMax > 0
         /\ first[t] \in Nat /\ first[t] <= NFrames /\ beg[t] \in Nat /\ beg[t] <= NFrames + 1
         /\ at[t] # "out" => /\ req[t] \in Request /\ req[t] \in Requests[t]
                             /\ req[t].op \in Functions
                             /\ req[t].pf \in Nat /\ req[t].n \in Nat /\ req[t].n > 0
<1>1. at[t] # "out" => req[t] \in Request /\ req[t] \in Requests[t]
                       /\ req[t] \in [op : Functions, pf : Nat, n : Nat \ {0}]
  BY PmemAssumption, Zenon DEF Control, Request
<1>. QED  BY <1>1, PmemAssumption DEF TypeOK

(* The loops stay within the map.                                          *)
LEMMA InMap ==
  ASSUME TypeOK, Control, NEW t \in Thread, Range(t)
  PROVE  /\ InLoop(t, "ref") \/ InLoop(t, "unref") \/ InLoop(t, "set") => beg[t] \in Frame
         /\ at[t] = "rollback" /\ beg[t] > first[t] => beg[t] - 1 \in Frame
<1>. USE Numbers
<1>1. at[t] \in {"fit", "ref", "rollback", "unref", "set"} =>
         /\ first[t] <= beg[t] /\ beg[t] <= first[t] + req[t].n
         /\ first[t] + req[t].n <= NFrames
  BY Zenon DEF Range
<1>. QED  BY <1>1 DEF InLoop, Frame

(* One round of the loop of pmem_alloc_frames: the search fails, finds the *)
(* lowest frames that fit, or goes on after frames where none fit.         *)
LEMMA ScanRound ==
  ASSUME TypeOK, Control, NEW t \in Thread, Range(t), Scan(t)
  PROVE  /\ UNCHANGED <<type, ref, sem, req, ret>>
         /\ \/ /\ NotFound(t)
               /\ \A i \in beg[t]..(NFrames - req[t].n) : Blocked(i, req[t].n, {})
            \/ \E b \in beg[t]..(NFrames - req[t].n) :
                 /\ Found(t, b)
                 /\ \A f \in Span(b, req[t].n) : IsAllocable(f)
                 /\ \A i \in beg[t]..(b - 1) : Blocked(i, req[t].n, {})
            \/ \E e \in beg[t]..NFrames :
                 /\ beg' = [beg EXCEPT ![t] = e + 1]
                 /\ UNCHANGED <<at, first, res>>
                 /\ \A i \in beg[t]..e : Blocked(i, req[t].n, {})
<1>. DEFINE n == req[t].n
            end == NFrames - n + 1
<1>0. at[t] = "scan" /\ n \in Nat /\ n > 0 /\ n <= NFrames /\ beg[t] \in Nat
      /\ end \in Nat /\ end = NFrames - n + 1 /\ NFrames \in Nat
  <2>1. at[t] = "scan"
    BY Zenon DEF Scan
  <2>2. n <= NFrames
    BY <2>1, Zenon DEF Control, Inside, InRange
  <2>. QED  BY <2>1, <2>2, Numbers
<1>1. /\ \/ beg[t] >= end /\ NotFound(t)
         \/ \E b \in beg[t]..end :
              /\ beg[t] < end /\ FindAllocable(beg[t], end, b)
              /\ \/ b = end /\ NotFound(t)
                 \/ \E e \in b..(b + n) :
                      /\ b < end /\ FindNonAllocable(b, b + n, e)
                      /\ \/ e = b + n /\ Found(t, b)
                         \/ /\ e < b + n
                            /\ beg' = [beg EXCEPT ![t] = e + 1]
                            /\ UNCHANGED <<at, first, res>>
      /\ UNCHANGED <<type, ref, sem, req, ret>>
  BY Zenon DEF Scan, ScanTo
<1>. HIDE DEF n, end
<1>2. CASE beg[t] >= end /\ NotFound(t)
  <2>1. beg[t]..(NFrames - n) = {}
    BY <1>0, <1>2
  <2>. QED  BY <1>1, <1>2, <2>1, Zenon DEF n
<1>3. ASSUME NEW b \in beg[t]..end, FindAllocable(beg[t], end, b)
      PROVE  /\ b < end => IsAllocable(b)
             /\ \A i \in beg[t]..(b - 1) : Blocked(i, n, {})
  BY <1>0, <1>3 DEF FindAllocable, FindFrame, Blocked, Span
<1>4. ASSUME NEW b \in beg[t]..end, FindAllocable(beg[t], end, b), b = end, NotFound(t)
      PROVE  \A i \in beg[t]..(NFrames - n) : Blocked(i, n, {})
  BY <1>0, <1>3, <1>4
<1>5. ASSUME NEW b \in beg[t]..end, b < end, FindNonAllocable(b, b + n, b + n)
      PROVE  b \in beg[t]..(NFrames - n) /\ \A f \in Span(b, n) : IsAllocable(f)
  BY <1>0, <1>5 DEF FindNonAllocable, FindFrame, Span
<1>6. ASSUME NEW b \in beg[t]..end, FindAllocable(beg[t], end, b), b < end,
             NEW e \in b..(b + n), e < b + n, FindNonAllocable(b, b + n, e)
      PROVE  e \in beg[t]..NFrames /\ \A i \in beg[t]..e : Blocked(i, n, {})
  <2>1. ~IsAllocable(e)
    BY <1>0, <1>6, Zenon DEF FindNonAllocable, FindFrame
  <2>2. ASSUME NEW i \in beg[t]..e, i >= b PROVE Blocked(i, n, {})
    BY <1>0, <1>6, <2>1, <2>2 DEF Blocked, Span
  <2>. QED  BY <1>0, <1>3, <1>6, <2>2
<1>. QED  BY <1>0, <1>1, <1>2, <1>3, <1>4, <1>5, <1>6, Zenon DEF n

(* No step leaves the types: the loops stay within the map and the         *)
(* counters within their bits.                                             *)
LEMMA TypeStep == IInv /\ [Next]_vars => TypeOK'
<1>. SUFFICES ASSUME IInv, [Next]_vars PROVE TypeOK'
  BY Zenon
<1>0. TypeOK /\ Control
  BY Zenon DEF IInv
<1>1. CASE UNCHANGED vars
  BY <1>0, <1>1, Zenon DEF TypeOK, vars
<1>2. ASSUME NEW t \in Thread, Call(t) PROVE TypeOK'
  BY <1>0, <1>2, PmemAssumption DEF TypeOK, Call, Points, Result, Request
<1>3. ASSUME NEW t \in Thread, Step(t) PROVE TypeOK'
  <2>0. Range(t) /\ Counted(t)
    BY Zenon DEF IInv, Work
  <2>. USE <1>0, <2>0, Numbers
  <2>1. CASE Reject(t)
    BY <2>1 DEF TypeOK, Reject, Points, Result, OutOfRange
  <2>2. CASE Enter(t)
    BY <2>2 DEF TypeOK, Enter, Points, Result, Loop, Control, InRange
  <2>3. CASE Leave(t)
    BY <2>3 DEF TypeOK, Leave, Points, Result
  <2>4. CASE Scan(t)
    <3>0. UNCHANGED <<type, ref, sem, req, ret>>
      BY <2>4, ScanRound, Zenon
    <3>1. CASE NotFound(t)
      BY <3>0, <3>1 DEF TypeOK, NotFound, Points, Result
    <3>2. ASSUME NEW b \in beg[t]..(NFrames - req[t].n), Found(t, b) PROVE TypeOK'
      <4>1. at[t] # "out"
        BY <2>4, Zenon DEF Scan
      <4>2. b \in 0..NFrames
        BY <4>1
      <4>. QED  BY <3>0, <3>2, <4>2 DEF TypeOK, Found, Points, Result
    <3>3. ASSUME NEW e \in beg[t]..NFrames, beg' = [beg EXCEPT ![t] = e + 1],
                 UNCHANGED <<at, first, res>>
          PROVE  TypeOK'
      BY <3>0, <3>3 DEF TypeOK
    <3>. QED  BY <2>4, <3>1, <3>2, <3>3, ScanRound, Zenon
  <2>5. CASE Fit(t)
    BY <2>5 DEF TypeOK, Fit, Found, NotFound, Points, Result
  <2>6. CASE RefFrame(t)
    <3>1. beg[t] \in Frame /\ beg[t] < NFrames
      BY <2>6, InMap DEF RefFrame, Frame
    <3>2. ref[beg[t]] \in 0..RefMax /\ ref[beg[t]] < RefMax
      <4>1. CASE req[t].op \in {"claim", "ref"}
        BY <2>6, <3>1, <4>1 DEF TypeOK, RefFrame, Refusal, EOVERFLOW, ENODEV
      <4>2. CASE req[t].op \notin {"claim", "ref"}
        <5>1. at[t] = "ref" /\ req[t].op \in {"alloc", "alloc_at"}
          BY <2>6, <4>2, Zenon DEF RefFrame, InLoop, Range
        <5>2. beg[t] \in beg[t]..(first[t] + req[t].n - 1)
          BY <2>6, <5>1 DEF RefFrame, InLoop
        <5>. QED  BY <3>1, <5>1, <5>2 DEF Counted
      <4>. QED  BY <4>1, <4>2, Zenon
    <3>. QED  BY <2>6, <3>1, <3>2 DEF TypeOK, RefFrame
  <2>7. CASE Refuse(t)
    BY <2>7, Zenon DEF TypeOK, Refuse, Refusal, Points, Result
  <2>8. CASE Rollback(t)
    <3>1. beg[t] - 1 \in Frame /\ beg[t] - 1 \in first[t]..(beg[t] - 1)
      BY <2>8, InMap DEF Rollback
    <3>2. ref[beg[t] - 1] \in 0..RefMax /\ ref[beg[t] - 1] > 0
      BY <2>8, <3>1 DEF TypeOK, Rollback, Counted
    <3>. QED  BY <2>8, <3>1, <3>2 DEF TypeOK, Rollback
  <2>9. CASE UnrefFrame(t)
    <3>1. beg[t] \in Frame /\ beg[t] < NFrames
      BY <2>9, InMap DEF UnrefFrame, Frame
    <3>. QED  BY <2>9, <3>1 DEF TypeOK, UnrefFrame
  <2>10. CASE SetFrameType(t)
    <3>1. beg[t] \in Frame /\ beg[t] < NFrames
      BY <2>10, InMap DEF SetFrameType, Frame
    <3>. QED  BY <2>10, <3>1 DEF TypeOK, SetFrameType
  <2>. QED  BY <1>3, <2>1, <2>2, <2>3, <2>4, <2>5, <2>6, <2>7, <2>8, <2>9, <2>10, Zenon DEF Step
<1>. QED  BY <1>1, <1>2, <1>3, Zenon DEF Next

(* A step of t changes only t's local variables, and the map and the       *)
(* semaphore only if t owns it or enters it.                               *)
LEMMA OwnSteps ==
  ASSUME TypeOK, NEW t \in Thread, Call(t) \/ Step(t), NEW u \in Thread, u # t
  PROVE  /\ at'[u] = at[u] /\ req'[u] = req[u] /\ first'[u] = first[u]
         /\ beg'[u] = beg[u] /\ res'[u] = res[u] /\ ret'[u] = ret[u]
         /\ ~Inside(t) => UNCHANGED <<type, ref>>
<1>1. CASE Call(t) \/ Reject(t) \/ Enter(t)
  BY <1>1 DEF TypeOK, Call, Reject, Enter
<1>2. CASE Leave(t) \/ Fit(t)
  BY <1>2 DEF TypeOK, Leave, Fit, Found, NotFound
<1>3. CASE Scan(t)
  BY <1>3 DEF TypeOK, Scan, ScanTo, Found, NotFound, Inside
<1>4. CASE RefFrame(t) \/ Refuse(t) \/ Rollback(t) \/ UnrefFrame(t) \/ SetFrameType(t)
  BY <1>4, Zenon DEF TypeOK, RefFrame, Refuse, Rollback, UnrefFrame, SetFrameType, InLoop, Inside
<1>. QED  BY <1>1, <1>2, <1>3, <1>4, Zenon DEF Step

(* Whoever is inside owns the semaphore.                                   *)
LEMMA ControlStep == IInv /\ [Next]_vars => Control'
<1>. SUFFICES ASSUME IInv, [Next]_vars PROVE Control'
  BY SMTT(30)
<1>0. TypeOK /\ Control
  BY DEF IInv
<1>. USE PmemAssumption
<1>1. CASE UNCHANGED vars
  BY <1>0, <1>1, SMTT(30) DEF vars, Control, Inside, InRange
<1>2. ASSUME NEW t \in Thread, Call(t) \/ Step(t) PROVE Control'
  <2>1. SUFFICES ASSUME NEW u \in Thread
        PROVE  /\ Inside(u)' <=> sem' = u
               /\ at'[u] = "out" <=> req'[u] = None
               /\ at'[u] # "out" => req'[u] \in Requests[u] /\ ret'[u] = 0
               /\ at'[u] = "reject" => ~InRange(req'[u])
               /\ at'[u] = "enter" \/ Inside(u)' => InRange(req'[u])
    BY Zenon DEF Control, InRange
  <2>a. /\ Inside(u) <=> sem = u
        /\ Inside(t) <=> sem = t
        /\ at[u] = "out" <=> req[u] = None
        /\ at[u] # "out" => req[u] \in Requests[u] /\ ret[u] = 0
        /\ at[u] = "reject" => ~InRange(req[u])
        /\ at[u] = "enter" \/ Inside(u) => InRange(req[u])
    BY <1>0, Zenon DEF Control
  <2>b. /\ at \in [Thread -> Points] /\ req \in [Thread -> Request \union {None}]
        /\ ret \in [Thread -> Result] /\ u # None /\ t # None /\ t \in Thread /\ u \in Thread
    BY <1>0, PmemAssumption, Zenon DEF TypeOK
  <2>2. CASE Call(t)
    BY <2>2, <2>a, <2>b, PmemAssumption DEF Call, Inside
  <2>3. CASE Reject(t)
    BY <2>3, <2>a, <2>b, Zenon DEF Reject, Inside
  <2>4. CASE Enter(t)
    BY <2>4, <2>a, <2>b, Zenon DEF Enter, Inside, Loop
  <2>5. CASE Leave(t)
    BY <2>5, <2>a, <2>b, SMTT(30) DEF Leave, Done, Inside
  <2>6. CASE Scan(t) \/ Fit(t)
    BY <2>6, <2>a, <2>b, SMTT(30) DEF Scan, ScanTo, Fit, Found, NotFound, Inside
  <2>7. CASE RefFrame(t) \/ Refuse(t) \/ Rollback(t) \/ UnrefFrame(t) \/ SetFrameType(t)
    BY <2>7, <2>a, <2>b, Zenon
    DEF RefFrame, Refuse, Rollback, UnrefFrame, SetFrameType, InLoop, Inside
  <2>. QED  BY <1>2, <2>2, <2>3, <2>4, <2>5, <2>6, <2>7, Zenon DEF Step
<1>. QED  BY <1>1, <1>2, Zenon DEF Next

(* A thread that is not inside has nothing to keep, and one that is inside *)
(* is alone there.                                                         *)
LEMMA WorkOfOthers ==
  ASSUME TypeOK, Control, NEW t \in Thread, Call(t) \/ Step(t), NEW u \in Thread, u # t,
         Work(u)
  PROVE  Work(u)'
<1>1. /\ at'[u] = at[u] /\ req'[u] = req[u] /\ first'[u] = first[u]
      /\ beg'[u] = beg[u] /\ res'[u] = res[u]
      /\ ~Inside(t) => UNCHANGED <<type, ref>>
  BY OwnSteps, Zenon
<1>2. CASE Inside(u)
  <2>1. UNCHANGED <<type, ref>>
    BY <1>1, <1>2, SMTT(30) DEF Control
  <2>2. Range(u)' /\ Counted(u)'
    BY <1>1, <2>1, SMTT(30) DEF Work, Range, Counted
  <2>3. Searched(u)'
    BY <1>1, <2>1, ZenonT(30) DEF Work, Searched, Blocked, IsAllocable
  <2>4. Refused(u)'
    BY <1>1, <2>1, Zenon DEF Work, Refused, Refusal
  <2>. QED  BY <2>2, <2>3, <2>4, Zenon DEF Work
<1>3. CASE ~Inside(u)
  <2>1. at'[u] \in {"out", "reject", "enter"}
    BY <1>1, <1>3, ZenonT(30) DEF Inside
  <2>. QED  BY <2>1, ZenonT(30) DEF Work, Range, Counted, Searched, Refused
<1>. QED  BY <1>2, <1>3, Zenon

-----------------------------------------------------------------------------
(* What a thread keeps of its own: the loops of pmem.c count what they     *)
(* did, and the search remembers what it passed over.                      *)
LEMMA WorkOfOwn ==
  ASSUME TypeOK, Control, NEW t \in Thread, Call(t) \/ Step(t), Work(t)
  PROVE  Work(t)'
<1>0. Range(t) /\ Counted(t) /\ Searched(t) /\ Refused(t)
  BY Zenon DEF Work
<1>. USE Numbers
<1>1. CASE Call(t) \/ Reject(t) \/ Leave(t)
  <2>1. at'[t] \in {"out", "reject", "enter"}
    BY <1>1, Zenon DEF TypeOK, Call, Reject, Leave
  <2>. QED  BY <2>1, Zenon DEF Work, Range, Counted, Searched, Refused
<1>2. CASE Enter(t)
  <2>1. InRange(req[t]) /\ req'[t] = req[t] /\ at[t] # "out"
    BY <1>2, Zenon DEF Control, Enter
  <2>2. /\ first'[t] = req[t].pf
        /\ beg'[t] = IF req[t].op = "alloc" THEN 1 ELSE req[t].pf
        /\ res'[t] = IF req[t].op = "alloc_at" THEN req[t].pf ELSE 0
        /\ at'[t] = Loop(req[t].op)
    BY <1>2, Zenon DEF TypeOK, Enter
  <2>3. Range(t)'
    BY <2>1, <2>2 DEF Range, Loop, InRange, Functions
  <2>4. Counted(t)'
    BY <2>1, <2>2 DEF Counted, Loop
  <2>5. Searched(t)' /\ Refused(t)'
    BY <2>1, <2>2 DEF Searched, Refused, Loop
  <2>. QED  BY <2>3, <2>4, <2>5, Zenon DEF Work
<1>3. CASE Scan(t)
  <2>0. UNCHANGED <<type, ref, req>> /\ at[t] = "scan" /\ req[t].op = "alloc" /\ beg[t] > 0
    BY <1>0, <1>3, ScanRound, Zenon DEF Scan, Range
  <2>1. CASE /\ NotFound(t)
             /\ \A i \in beg[t]..(NFrames - req[t].n) : Blocked(i, req[t].n, {})
    <3>1. at'[t] = "fail" /\ res'[t] = 0
      BY <2>1, Zenon DEF TypeOK, NotFound
    <3>2. \A i \in 1..(NFrames - req[t].n) : Blocked(i, req[t].n, {})
      BY <1>0, <2>0, <2>1 DEF Searched
    <3>3. Searched(t)'
      BY <2>0, <3>1, <3>2, Zenon DEF Searched, Blocked, IsAllocable
    <3>. QED  BY <2>0, <3>1, <3>3, Zenon DEF Work, Range, Counted, Refused
  <2>2. ASSUME NEW b \in beg[t]..(NFrames - req[t].n), Found(t, b),
               \A f \in Span(b, req[t].n) : IsAllocable(f),
               \A i \in beg[t]..(b - 1) : Blocked(i, req[t].n, {})
        PROVE  Work(t)'
    <3>0. b \in Nat /\ b > 0 /\ b + req[t].n <= NFrames
      BY <2>0, <2>2
    <3>1. at'[t] = "ref" /\ first'[t] = b /\ beg'[t] = b /\ res'[t] = b /\ req'[t] = req[t]
      BY <2>0, <2>2, Zenon DEF TypeOK, Found
    <3>2. Range(t)'
      BY <2>0, <3>0, <3>1 DEF Range
    <3>3. Counted(t)'
      BY <2>0, <2>2, <3>0, <3>1 DEF Counted, Span, IsAllocable
    <3>4. \A i \in 1..(b - 1) : Blocked(i, req[t].n, {})
      BY <1>0, <2>0, <2>2, <3>0 DEF Searched
    <3>5. \A i \in 1..(b - 1) : Blocked(i, req[t].n, Span(b, req[t].n))
      BY <2>2, <3>4, Zenon DEF Blocked
    <3>6. Searched(t)'
      BY <2>0, <3>0, <3>1, <3>5 DEF Searched, Blocked, IsAllocable
    <3>. QED  BY <3>1, <3>2, <3>3, <3>6, Zenon DEF Work, Refused
  <2>3. ASSUME NEW e \in beg[t]..NFrames, beg' = [beg EXCEPT ![t] = e + 1],
               UNCHANGED <<at, first, res>>,
               \A i \in beg[t]..e : Blocked(i, req[t].n, {})
        PROVE  Work(t)'
    <3>1. beg'[t] = e + 1 /\ e \in Nat /\ at'[t] = "scan" /\ req'[t] = req[t]
      BY <2>0, <2>3 DEF TypeOK
    <3>2. \A i \in 1..(NFrames - req[t].n) : i < e + 1 => Blocked(i, req[t].n, {})
      BY <1>0, <2>0, <2>3 DEF Searched
    <3>3. Searched(t)'
      BY <2>0, <3>1, <3>2, Zenon DEF Searched, Blocked, IsAllocable
    <3>. QED  BY <2>0, <3>1, <3>3 DEF Work, Range, Counted, Refused
  <2>. QED  BY <1>0, <1>3, <2>1, <2>2, <2>3, ScanRound, Zenon
<1>4. CASE Fit(t)
  <2>. DEFINE end == first[t] + req[t].n
  <2>0. /\ at[t] = "fit" /\ req[t].op = "alloc_at" /\ first[t] = req[t].pf
        /\ end \in Nat /\ first[t] <= end /\ end <= NFrames /\ req'[t] = req[t]
        /\ UNCHANGED <<type, ref>>
    BY <1>0, <1>4 DEF Fit, Range
  <2>2. IF FindNonAllocable(first[t], end, end) THEN Found(t, first[t]) ELSE NotFound(t)
    BY <1>4, Zenon DEF Fit
  <2>3. CASE FindNonAllocable(first[t], end, end)
    <3>1. at'[t] = "ref" /\ first'[t] = first[t] /\ beg'[t] = first[t] /\ res'[t] = first[t]
      BY <2>2, <2>3 DEF TypeOK, Found
    <3>2. Range(t)'
      BY <2>0, <3>1 DEF Range
    <3>3. Counted(t)'
      BY <2>0, <2>3, <3>1 DEF Counted, Span, IsAllocable, FindNonAllocable, FindFrame
    <3>. QED  BY <2>0, <3>1, <3>2, <3>3, Zenon DEF Work, Searched, Refused
  <2>4. CASE ~FindNonAllocable(first[t], end, end)
    <3>1. at'[t] = "fail" /\ res'[t] = 0
      BY <2>2, <2>4, SMTT(30) DEF TypeOK, NotFound
    <3>2. Blocked(req[t].pf, req[t].n, {})
      BY <2>0, <2>4 DEF Blocked, Span, FindNonAllocable, FindFrame
    <3>3. Searched(t)'
      BY <2>0, <3>1, <3>2, Zenon DEF Searched, Blocked, IsAllocable
    <3>. QED  BY <2>0, <3>1, <3>3, Zenon DEF Work, Range, Counted, Refused
  <2>. QED  BY <2>3, <2>4, Zenon
<1>5. CASE RefFrame(t)
  <2>1. /\ at[t] = "ref" /\ at'[t] = "ref" /\ req'[t] = req[t] /\ first'[t] = first[t]
        /\ res'[t] = res[t] /\ beg'[t] = beg[t] + 1 /\ beg[t] < first[t] + req[t].n
        /\ type' = type /\ Refusal(req[t].op, beg[t]) = 0
    BY <1>5, Zenon DEF TypeOK, RefFrame, InLoop
  <2>2. beg[t] \in Frame
    BY <1>0, <1>5, InMap, Zenon DEF RefFrame
  <2>3. /\ ref'[beg[t]] = ref[beg[t]] + 1
        /\ \A f \in Frame \ {beg[t]} : ref'[f] = ref[f]
        /\ \A f \in Frame : ref[f] \in Nat
    BY <1>5, <2>2, SMTT(30) DEF TypeOK, RefFrame
  <2>4. Range(t)'
    BY <1>0, <2>1 DEF Range
  <2>5. first[t] <= beg[t] /\ first[t] + req[t].n <= NFrames
    BY <1>0, <2>1, Zenon DEF Range
  <2>6. Counted(t)'
    <3>1. SUFFICES ASSUME NEW f \in Frame
          PROVE  /\ req[t].op \in {"alloc", "alloc_at"} =>
                      /\ f \in first[t]..beg[t] => ref'[f] = 1
                      /\ f \in (beg[t] + 1)..(first[t] + req[t].n - 1) => ref'[f] = 0
                      /\ f \in Span(first[t], req[t].n) => type[f] = "AVAILABLE"
                 /\ f \in first[t]..beg[t] => ref'[f] > IF req[t].op = "ref" THEN 1 ELSE 0
      BY <2>1 DEF Counted
    <3>2. CASE f = beg[t]
      <4>1. req[t].op = "ref" => ref[f] # 0
        BY <2>1, <3>2, SMTT(30) DEF Refusal, ENODEV
      <4>. QED  BY <1>0, <2>1, <2>2, <2>3, <2>5, <3>2, <4>1 DEF Counted, Span
    <3>3. CASE f # beg[t]
      BY <1>0, <2>1, <2>3, <2>5, <3>3, SMTT(30) DEF Counted, Frame
    <3>. QED  BY <3>2, <3>3, Zenon
  <2>7. Searched(t)'
    <3>1. SUFFICES ASSUME req[t].op = "alloc", NEW i \in 1..(first[t] - 1)
          PROVE  Blocked(i, req[t].n, Span(first[t], req[t].n))'
      BY <1>0, <2>1, SMTT(30) DEF Searched, Blocked
    <3>2. PICK f \in Span(i, req[t].n) \ Span(first[t], req[t].n) : ~IsAllocable(f)
      BY <1>0, <2>1, <3>1, ZenonT(30) DEF Searched, Blocked
    <3>3. f \in Frame /\ f # beg[t]
      BY <2>1, <2>5, <3>2 DEF Span, Frame
    <3>4. ~IsAllocable(f)'
      BY <2>1, <2>3, <3>2, <3>3, Zenon DEF IsAllocable
    <3>. QED  BY <2>1, <3>2, <3>4 DEF Blocked
  <2>. QED  BY <2>1, <2>4, <2>6, <2>7, Zenon DEF Work, Refused
<1>6. CASE Refuse(t)
  <2>1. /\ at[t] = "ref" /\ at'[t] = "rollback" /\ req'[t] = req[t] /\ first'[t] = first[t]
        /\ beg'[t] = beg[t] /\ beg[t] < first[t] + req[t].n /\ UNCHANGED <<type, ref>>
        /\ res'[t] = Refusal(req[t].op, beg[t]) /\ res'[t] # 0
    BY <1>6, Zenon DEF TypeOK, Refuse, InLoop
  <2>2. req[t].op \in {"claim", "ref"}
    BY <2>1, SMTT(30) DEF Refusal
  <2>3. Range(t)' /\ Counted(t)' /\ Searched(t)'
    BY <1>0, <2>1, <2>2, Zenon DEF Range, Counted, Searched
  <2>4. Refused(t)'
    BY <1>0, <2>1, SMTT(30) DEF Refused, Refusal, Span, Range
  <2>. QED  BY <2>3, <2>4, Zenon DEF Work
<1>7. CASE Rollback(t)
  <2>1. /\ at[t] = "rollback" /\ at'[t] = "rollback" /\ req'[t] = req[t]
        /\ first'[t] = first[t] /\ res'[t] = res[t] /\ beg'[t] = beg[t] - 1
        /\ beg[t] > first[t]
    BY <1>7, Zenon DEF TypeOK, Rollback
  <2>2. beg[t] - 1 \in Frame
    BY <1>0, <1>7, InMap, Zenon DEF Rollback
  <2>3. /\ ref'[beg[t] - 1] = ref[beg[t] - 1] - 1
        /\ \A f \in Frame \ {beg[t] - 1} : ref'[f] = ref[f]
        /\ \A f \in Frame : ref[f] \in 0..RefMax
    BY <1>7, <2>2, Zenon DEF TypeOK, Rollback
  <2>4. Range(t)'
    BY <1>0, <2>1, SMTT(30) DEF Range
  <2>5. first[t] + req[t].n <= NFrames /\ req[t].op \in {"claim", "ref"}
    BY <1>0, <2>1, SMTT(30) DEF Range
  <2>6. Counted(t)'
    <3>1. ASSUME NEW f \in Frame, f \in first[t]..(beg'[t] - 1)
          PROVE  ref'[f] > IF req[t].op = "ref" THEN 1 ELSE 0
      <4>1. f \in first[t]..(beg[t] - 1) /\ f # beg[t] - 1
        BY <2>1, <3>1
      <4>2. ref[f] > IF req[t].op = "ref" THEN 1 ELSE 0
        BY <1>0, <2>1, <4>1, Zenon DEF Counted
      <4>. QED  BY <2>3, <4>1, <4>2, Zenon
    <3>. QED  BY <2>1, <3>1, Zenon DEF Counted
  <2>7. Refused(t)'
    <3>1. PICK g \in Span(first[t], req[t].n) :
            /\ beg[t] <= g
            /\ Refusal(req[t].op, g) = res[t] /\ res[t] # 0
            /\ \A f \in beg[t]..(g - 1) : ref[f] < RefMax /\ (req[t].op = "ref" => ref[f] > 0)
      BY <1>0, <2>1, Zenon DEF Refused
    <3>2. g \in Frame /\ g # beg[t] - 1
      BY <2>1, <2>5, <3>1 DEF Span, Frame
    <3>3. Refusal(req[t].op, g)' = res[t]
      BY <2>1, <2>3, <3>1, <3>2, SMTT(30) DEF Refusal
    <3>4. ASSUME NEW f \in (beg[t] - 1)..(g - 1)
          PROVE  ref'[f] < RefMax /\ (req[t].op = "ref" => ref'[f] > 0)
      <4>1. f \in Frame
        BY <2>2, <3>2 DEF Frame
      <4>2. CASE f = beg[t] - 1
        <5>1. req[t].op = "ref" => ref[f] > 1
          BY <1>0, <2>1, <4>1, <4>2, SMTT(30) DEF Counted
        <5>. QED  BY <2>3, <4>1, <4>2, <5>1
      <4>3. CASE f # beg[t] - 1
        BY <2>3, <3>1, <4>1, <4>3, SMTT(30)
      <4>. QED  BY <4>2, <4>3, Zenon
    <3>. QED  BY <2>1, <3>1, <3>3, <3>4 DEF Refused, Refusal, Span
  <2>. QED  BY <2>1, <2>4, <2>6, <2>7, ZenonT(30) DEF Work, Searched
<1>8. CASE UnrefFrame(t) \/ SetFrameType(t)
  <2>1. /\ beg'[t] = beg[t] + 1 /\ beg[t] < first[t] + req[t].n
        /\ at'[t] = at[t] /\ at[t] \in {"unref", "set"}
        /\ req'[t] = req[t] /\ first'[t] = first[t] /\ res'[t] = res[t]
    BY <1>8, SMTT(30) DEF TypeOK, UnrefFrame, SetFrameType, InLoop
  <2>2. Range(t)'
    BY <1>0, <2>1 DEF Range
  <2>. QED  BY <2>1, <2>2, ZenonT(30) DEF Work, Counted, Searched, Refused
<1>. QED  BY <1>1, <1>2, <1>3, <1>4, <1>5, <1>6, <1>7, <1>8, Zenon DEF Step

(* The invariant is inductive.                                             *)
LEMMA IInvStep == IInv /\ [Next]_vars => IInv'
<1>. SUFFICES ASSUME IInv, [Next]_vars PROVE IInv'
  BY Zenon
<1>1. TypeOK' /\ Control'
  BY TypeStep, ControlStep, Zenon
<1>2. ASSUME NEW u \in Thread PROVE Work(u)'
  <2>0. TypeOK /\ Control /\ Work(u) /\ \A t \in Thread : Work(t)
    BY Zenon DEF IInv
  <2>1. CASE UNCHANGED vars
    BY <2>0, <2>1 DEF vars, Work, Range, Counted, Searched, Blocked, IsAllocable, Refused, Refusal
  <2>2. ASSUME NEW t \in Thread, Call(t) \/ Step(t) PROVE Work(u)'
    <3>1. CASE u = t
      BY <2>0, <2>2, <3>1, WorkOfOwn, Zenon
    <3>2. CASE u # t
      BY <2>0, <2>2, <3>2, WorkOfOthers, Zenon
    <3>. QED  BY <3>1, <3>2, Zenon
  <2>. QED  BY <2>1, <2>2, Zenon DEF Next
<1>. QED  BY <1>1, <1>2, Zenon DEF IInv

(* Every reachable state satisfies it.                                     *)
LEMMA Inductive == Spec => []IInv
<1>1. Init => IInv
  BY PmemAssumption
  DEF Init, IInv, TypeOK, Control, Inside, Work, Range, Counted, Searched, Refused, Points,
      Result
<1>. QED  BY <1>1, IInvStep, PTL DEF Spec

(* The variables of pmem.c keep their types: the six bits of a reference   *)
(* counter never run over into the type, nor below zero (pmem.c:58-120).   *)
THEOREM TypeCorrect == Spec => []TypeOK
<1>1. IInv => TypeOK
  BY SMTT(30) DEF IInv
<1>. QED  BY <1>1, Inductive, PTL

(* When pmem_claim_frames and pmem_ref_frames roll back, every frame has   *)
(* the reference that is taken from it (pmem.c:300-303 and 343-346).       *)
THEOREM RollbacksSound == Spec => []RollbackSound
<1>1. IInv => RollbackSound
  <2>1. SUFFICES ASSUME IInv, NEW t \in Thread, at[t] = "rollback", NEW f \in Pending(t)
        PROVE  ref[f] > 0
    BY Zenon DEF RollbackSound
  <2>2. TypeOK /\ Control /\ Range(t) /\ Counted(t)
    BY <2>1, Zenon DEF IInv, Work
  <2>3. f \in first[t]..(beg[t] - 1)
    BY <2>1, Zenon DEF Pending
  <2>4. f \in Frame
    BY <2>1, <2>2, <2>3, Numbers DEF Range, Frame
  <2>5. ref[f] \in Nat
    BY <2>2, <2>4, Numbers DEF TypeOK
  <2>. QED  BY <2>1, <2>2, <2>3, <2>4, <2>5 DEF Counted
<1>. QED  BY <1>1, Inductive, PTL
=============================================================================
