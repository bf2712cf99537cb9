--------------------------- MODULE PmemRefinement ----------------------------
(* Pmem implements FrameMap, for every number of frames and references,    *)
(* and for all threads and requests.                                       *)
EXTENDS PmemProofs

(* type, ref and req as the users of pmem.c see them.                      *)
AType == [f \in Frame |-> FinalType(f)]
ARef == [f \in Frame |-> FinalRef(f)]
AReq == [t \in Thread |-> IF at[t] \in {"unref", "set"} THEN None ELSE req[t]]

(* While nobody, or somebody who only searches, is inside, they are what   *)
(* the map holds.                                                          *)
LEMMA FinalOutside ==
  ASSUME TypeOK, sem # None => at[sem] \in {"scan", "fit", "fail"}
  PROVE  AType = type /\ ARef = ref
<1>1. \A f \in Frame : FinalType(f) = type[f] /\ FinalRef(f) = ref[f]
  BY Zenon DEF FinalType, FinalRef, Ahead, Pending
<1>. QED  BY <1>1, Zenon DEF AType, ARef, TypeOK

(* The map as its users see it, while t is inside one of the loops.        *)
LEMMA FinalInside ==
  ASSUME TypeOK, NEW t \in Thread, sem = t, NEW f \in Frame
  PROVE  /\ at[t] # "set" => FinalType(f) = type[f]
         /\ at[t] = "set" =>
              FinalType(f) = IF f \in beg[t]..(first[t] + req[t].n - 1) THEN "AVAILABLE"
                             ELSE type[f]
         /\ at[t] \in {"ref", "rollback"} =>
              FinalRef(f) = IF f \in first[t]..(beg[t] - 1) THEN ref[f] - 1 ELSE ref[f]
         /\ at[t] = "unref" =>
              FinalRef(f) = IF f \in beg[t]..(first[t] + req[t].n - 1) /\ ref[f] > 0
                            THEN ref[f] - 1 ELSE ref[f]
         /\ at[t] \notin {"ref", "rollback", "unref"} => FinalRef(f) = ref[f]
<1>1. sem # None
  BY PmemAssumption, SMTT(30)
<1>. QED  BY <1>1, Zenon DEF FinalType, FinalRef, Ahead, Pending

AVars == <<AType, ARef, AReq, ret>>

(* The loops change nothing for the users of pmem.c.                       *)
LEMMA LoopsHidden ==
  ASSUME IInv, NEW t \in Thread,
         Scan(t) \/ Fit(t) \/ RefFrame(t) \/ Refuse(t) \/ Rollback(t) \/ UnrefFrame(t)
           \/ SetFrameType(t)
  PROVE  UNCHANGED AVars
<1>0. TypeOK /\ Control /\ Range(t)
  BY Zenon DEF IInv, Work
<1>. USE <1>0, Numbers
<1>1. /\ sem = t /\ sem' = t /\ Inside(t) /\ t # None
      /\ UNCHANGED <<req, ret>> /\ at[t] # "out"
      /\ \A u \in Thread \ {t} : at'[u] = at[u]
      /\ at[t] \in {"unref", "set"} <=> at'[t] \in {"unref", "set"}
  <2>1. Inside(t) /\ UNCHANGED <<sem, req, ret>>
    BY Zenon DEF Scan, ScanTo, Fit, RefFrame, Refuse, Rollback, UnrefFrame, SetFrameType, InLoop,
           Inside
  <2>2. /\ \A u \in Thread \ {t} : at'[u] = at[u]
        /\ at[t] \in {"unref", "set"} <=> at'[t] \in {"unref", "set"}
    BY DEF TypeOK, Scan, ScanTo, Fit, Found, NotFound, RefFrame, Refuse, Rollback,
           UnrefFrame, SetFrameType, InLoop
  <2>. QED  BY <2>1, <2>2, PmemAssumption, Zenon DEF Control, Inside
<1>2. AReq' = AReq
  BY <1>1, Zenon DEF AReq
<1>3. SUFFICES ASSUME NEW f \in Frame
      PROVE  FinalType(f)' = FinalType(f) /\ FinalRef(f)' = FinalRef(f)
  BY <1>1, <1>2, Zenon DEF AVars, AType, ARef
<1>. USE <1>1 DEF FinalType, FinalRef, Ahead, Pending
<1>4. CASE Scan(t)
  <2>1. UNCHANGED <<type, ref>> /\ at[t] = "scan"
    BY <1>4, Zenon DEF Scan, ScanTo
  <2>2. at'[t] \in {"scan", "fail"} \/ (at'[t] = "ref" /\ first'[t]..(beg'[t] - 1) = {})
    <3>1. CASE NotFound(t) \/ UNCHANGED at
      BY <2>1, <3>1, Zenon DEF TypeOK, NotFound
    <3>2. ASSUME NEW b \in beg[t]..(NFrames - req[t].n), Found(t, b)
          PROVE  at'[t] = "ref" /\ first'[t]..(beg'[t] - 1) = {}
      BY <3>2 DEF TypeOK, Found
    <3>. QED  BY <1>4, <3>1, <3>2, ScanRound, Zenon
  <2>. QED  BY <2>1, <2>2, SMTT(30)
<1>5. CASE Fit(t)
  <2>1. UNCHANGED <<type, ref>> /\ at[t] = "fit"
    BY <1>5, Zenon DEF Fit
  <2>2. at'[t] = "fail" \/ (at'[t] = "ref" /\ first'[t]..(beg'[t] - 1) = {})
    BY <1>5 DEF TypeOK, Fit, Found, NotFound
  <2>. QED  BY <2>1, <2>2, Zenon
<1>6. CASE RefFrame(t)
  <2>1. /\ at[t] = "ref" /\ at'[t] = "ref" /\ type' = type /\ first'[t] = first[t]
        /\ beg'[t] = beg[t] + 1 /\ beg[t] \in Frame /\ first[t] <= beg[t]
    BY <1>6, InMap, SMTT(30) DEF TypeOK, RefFrame, InLoop, Range
  <2>2. ref[f] \in Nat /\ ref'[f] = IF f = beg[t] THEN ref[f] + 1 ELSE ref[f]
    BY <1>6, <2>1 DEF TypeOK, RefFrame
  <2>. QED  BY <2>1, <2>2, SMTT(30) DEF Frame
<1>7. CASE Refuse(t)
  <2>1. /\ at[t] = "ref" /\ at'[t] = "rollback" /\ UNCHANGED <<type, ref>>
        /\ first'[t] = first[t] /\ beg'[t] = beg[t]
    BY <1>7, Zenon DEF TypeOK, Refuse, InLoop
  <2>. QED  BY <2>1, SMTT(30)
<1>8. CASE Rollback(t)
  <2>1. /\ at[t] = "rollback" /\ at'[t] = "rollback" /\ type' = type /\ first'[t] = first[t]
        /\ beg'[t] = beg[t] - 1 /\ beg[t] - 1 \in Frame /\ first[t] < beg[t]
    BY <1>8, InMap, SMTT(30) DEF TypeOK, Rollback
  <2>2. ref[f] \in Nat /\ ref'[f] = IF f = beg[t] - 1 THEN ref[f] - 1 ELSE ref[f]
    BY <1>8, <2>1 DEF TypeOK, Rollback
  <2>. QED  BY <2>1, <2>2 DEF Frame
<1>9. CASE UnrefFrame(t)
  <2>1. /\ at[t] = "unref" /\ at'[t] = "unref" /\ type' = type /\ first'[t] = first[t]
        /\ beg'[t] = beg[t] + 1 /\ beg[t] \in Frame /\ beg[t] < first[t] + req[t].n
    BY <1>9, InMap, SMTT(30) DEF TypeOK, UnrefFrame, InLoop
  <2>2. /\ ref[f] \in Nat
        /\ ref'[f] = IF f = beg[t] /\ ref[f] > 0 THEN ref[f] - 1 ELSE ref[f]
    BY <1>9, <2>1 DEF TypeOK, UnrefFrame
  <2>. QED  BY <2>1, <2>2, SMTT(30) DEF Frame
<1>10. CASE SetFrameType(t)
  <2>1. /\ at[t] = "set" /\ at'[t] = "set" /\ ref' = ref /\ first'[t] = first[t]
        /\ beg'[t] = beg[t] + 1 /\ beg[t] \in Frame /\ beg[t] < first[t] + req[t].n
    BY <1>10, InMap, SMTT(30) DEF TypeOK, SetFrameType, InLoop
  <2>2. type'[f] = IF f = beg[t] THEN "AVAILABLE" ELSE type[f]
    BY <1>10, <2>1, Zenon DEF TypeOK, SetFrameType
  <2>. QED  BY <2>1, <2>2, SMTT(30) DEF Frame
<1>. QED  BY <1>4, <1>5, <1>6, <1>7, <1>8, <1>9, <1>10, Zenon

(* Who is not inside changes nothing for the users of pmem.c, but begins   *)
(* and ends its own calls.                                                 *)
LEMMA OutsideHidden ==
  ASSUME IInv, NEW t \in Thread, Call(t) \/ Reject(t)
  PROVE  /\ AType' = AType /\ ARef' = ARef
         /\ AReq' = [AReq EXCEPT ![t] = req'[t]] /\ AReq[t] = req[t]
<1>1. TypeOK /\ Control
  BY Zenon DEF IInv
<1>2. /\ UNCHANGED <<type, ref, sem, first, beg>> /\ ~Inside(t)
      /\ at[t] \in {"out", "reject"} /\ at'[t] \in {"out", "reject", "enter"}
      /\ \A u \in Thread \ {t} : at'[u] = at[u] /\ req'[u] = req[u]
  BY <1>1, Zenon DEF TypeOK, Call, Reject, Inside
<1>3. sem # t /\ (sem # None => sem \in Thread \ {t})
  BY <1>1, <1>2, Zenon DEF TypeOK, Control
<1>4. \A f \in Frame : FinalType(f)' = FinalType(f) /\ FinalRef(f)' = FinalRef(f)
  BY <1>2, <1>3, Zenon DEF FinalType, FinalRef, Ahead, Pending
<1>5. AReq' = [AReq EXCEPT ![t] = req'[t]] /\ AReq[t] = req[t]
  BY <1>2, ZenonT(30) DEF AReq
<1>. QED  BY <1>4, <1>5, Zenon DEF AType, ARef

(* A call begins for the users when it begins.                             *)
LEMMA CallRefines ==
  ASSUME IInv, NEW t \in Thread, Call(t)
  PROVE  Abstract!Next
<1>1. PICK r \in Requests[t] : req' = [req EXCEPT ![t] = r]
  BY ZenonT(30) DEF Call
<1>2. TypeOK /\ Control /\ ret' = [ret EXCEPT ![t] = 0] /\ at[t] = "out"
  BY Zenon DEF IInv, Call
<1>3. req'[t] = r /\ req[t] = None
  BY <1>1, <1>2, Zenon DEF TypeOK, Control
<1>4. Abstract!Call(t, r)
  BY <1>2, <1>3, OutsideHidden, Zenon DEF Abstract!Call, AType, ARef, AReq
<1>. QED  BY <1>3, <1>4, OutsideHidden, Zenon DEF Abstract!Next, AReq

(* A call beyond the end of the map fails and changes nothing.             *)
LEMMA RejectRefines ==
  ASSUME IInv, NEW t \in Thread, Reject(t)
  PROVE  Abstract!Next
<1>1. /\ TypeOK /\ Control /\ at[t] = "reject"
      /\ ret' = [ret EXCEPT ![t] = OutOfRange(req[t].op)] /\ req' = [req EXCEPT ![t] = None]
  BY Zenon DEF IInv, Reject
<1>2. req[t] # None /\ ~InRange(req[t]) /\ req'[t] = None
  BY <1>1, Zenon DEF TypeOK, Control
<1>3. Abstract!OutOfRange(t, req[t])
  BY <1>1, <1>2, OutsideHidden, ZenonT(30)
  DEF Abstract!OutOfRange, Abstract!Fails, Abstract!Finish, OutOfRange, AType, ARef, AReq,
      Abstract!ENODEV, Abstract!ENOMEM, ENODEV, ENOMEM
<1>4. Abstract!Do(t, AReq[t])
  BY <1>2, <1>3, OutsideHidden, Zenon DEF Abstract!Do, Abstract!InRange, InRange
<1>. QED  BY <1>2, <1>4, OutsideHidden, ZenonT(30) DEF Abstract!Next, AReq

(* semaphore_enter shows nothing, except that pmem_unref_frames and        *)
(* pmem_set_type take effect there.                                        *)
LEMMA EnterRefines ==
  ASSUME IInv, NEW t \in Thread, Enter(t)
  PROVE  Abstract!Next \/ UNCHANGED AVars
<1>. DEFINE r == req[t]
<1>0. TypeOK /\ Control /\ at[t] = "enter" /\ sem = None /\ sem' = t /\ t # None
  BY PmemAssumption, Zenon DEF IInv, Enter
<1>. USE <1>0, Numbers
<1>1. /\ r \in Requests[t] /\ r # None /\ InRange(r) /\ ret[t] = 0
      /\ r.op \in Functions /\ r.pf \in Nat /\ r.n \in Nat /\ r.n > 0
  BY Zenon DEF Control
<1>2. /\ UNCHANGED <<type, ref, req, ret>> /\ at'[t] = Loop(r.op)
      /\ first'[t] = r.pf /\ beg'[t] = IF r.op = "alloc" THEN 1 ELSE r.pf
      /\ \A u \in Thread \ {t} : at'[u] = at[u]
  BY Zenon DEF TypeOK, Enter
<1>3. AType = type /\ ARef = ref /\ AReq[t] = r
  BY FinalOutside, Zenon DEF AReq
<1>. HIDE DEF r
<1>4. CASE r.op \notin {"unref", "set_type"}
  <2>1. at'[t] \in {"scan", "fit"} \/ (at'[t] = "ref" /\ first'[t]..(beg'[t] - 1) = {})
    BY <1>1, <1>2, <1>4 DEF Loop, Functions
  <2>2. \A f \in Frame : FinalType(f)' = type[f] /\ FinalRef(f)' = ref[f]
    BY <1>2, <2>1, Zenon DEF FinalType, FinalRef, Ahead, Pending
  <2>3. AType' = type /\ ARef' = ref
    BY <2>2, Zenon DEF AType, ARef, TypeOK
  <2>4. AReq' = AReq
    BY <1>2, <2>1, SMTT(30) DEF AReq
  <2>. QED  BY <1>2, <1>3, <2>3, <2>4, Zenon DEF AVars
<1>5. CASE r.op = "unref"
  <2>1. at'[t] = "unref" /\ beg'[t] = r.pf /\ first'[t] = r.pf
    BY <1>2, <1>5, Zenon DEF Loop
  <2>2. ASSUME NEW f \in Frame
        PROVE  /\ FinalType(f)' = type[f]
               /\ FinalRef(f)' = IF f \in Span(r.pf, r.n) /\ ref[f] > 0 THEN ref[f] - 1
                                 ELSE ref[f]
    BY <1>2, <2>1, Zenon DEF FinalType, FinalRef, Ahead, Pending, Span, r
  <2>3. AType' = AType
    BY <1>3, <2>2, Zenon DEF AType, TypeOK
  <2>4. ARef' = [f \in Frame |-> IF f \in Span(r.pf, r.n) /\ ARef[f] > 0 THEN ARef[f] - 1
                                 ELSE ARef[f]]
    BY <1>3, <2>2, Zenon DEF ARef
  <2>5. AReq' = [AReq EXCEPT ![t] = None]
    BY <1>2, <2>1, ZenonT(30) DEF AReq
  <2>6. Abstract!Unref(t, r)
    BY <1>2, <1>5, <2>3, <2>4, <2>5, SMTT(30)
    DEF Abstract!Unref, Abstract!Finish, Abstract!Span, Abstract!Frame, Span, Frame,
        AType, ARef, AReq
  <2>. QED  BY <1>1, <1>3, <2>6, Zenon DEF Abstract!Next, Abstract!Do, Abstract!InRange, InRange, AReq
<1>6. CASE r.op = "set_type"
  <2>1. at'[t] = "set" /\ beg'[t] = r.pf /\ first'[t] = r.pf
    BY <1>2, <1>6, Zenon DEF Loop
  <2>2. ASSUME NEW f \in Frame
        PROVE  /\ FinalRef(f)' = ref[f]
               /\ FinalType(f)' = IF f \in Span(r.pf, r.n) THEN "AVAILABLE" ELSE type[f]
    BY <1>2, <2>1, Zenon DEF FinalType, FinalRef, Ahead, Pending, Span, r
  <2>3. ARef' = ARef
    BY <1>3, <2>2, Zenon DEF ARef, TypeOK
  <2>4. AType' = [f \in Frame |-> IF f \in Span(r.pf, r.n) THEN "AVAILABLE" ELSE AType[f]]
    BY <1>3, <2>2, Zenon DEF AType
  <2>5. AReq' = [AReq EXCEPT ![t] = None]
    BY <1>2, <2>1, ZenonT(30) DEF AReq
  <2>6. Abstract!SetType(t, r)
    BY <1>2, <1>6, <2>3, <2>4, <2>5, Zenon
    DEF Abstract!SetType, Abstract!Finish, Abstract!Span, Abstract!Frame, Span, Frame,
        AType, ARef, AReq
  <2>. QED  BY <1>1, <1>3, <2>6, Zenon DEF Abstract!Next, Abstract!Do, Abstract!InRange, InRange, AReq
<1>. QED  BY <1>4, <1>5, <1>6, Zenon

(* semaphore_leave: the functions that acquire references return what the  *)
(* search or the loop has come to.                                         *)
LEMMA LeaveRefines ==
  ASSUME IInv, NEW t \in Thread, Leave(t)
  PROVE  Abstract!Next \/ UNCHANGED AVars
<1>. DEFINE r == req[t]
<1>0. TypeOK /\ Control /\ Work(t) /\ Done(t) /\ Inside(t) /\ sem = t /\ sem' = None
  BY PmemAssumption, Zenon DEF IInv, Leave, Done, Inside, Control
<1>n. /\ NFrames \in Nat /\ RefMax \in Nat /\ RefMax > 0 /\ first[t] \in Nat
      /\ req[t] \in Requests[t] /\ req[t].op \in Functions /\ req[t].pf \in Nat
      /\ req[t].n \in Nat /\ req[t].n > 0
  BY <1>0, Numbers, Zenon DEF Inside
<1>. USE <1>0
<1>1. /\ r \in Requests[t] /\ r # None /\ InRange(r) /\ ret[t] = 0
      /\ r.op \in Functions /\ r.pf \in Nat /\ r.n \in Nat /\ r.n > 0 /\ r.n <= NFrames
  BY <1>n, Zenon DEF Control, Inside, InRange
<1>2. /\ UNCHANGED <<type, ref>> /\ at'[t] = "out" /\ req'[t] = None
      /\ ret' = [ret EXCEPT ![t] = res[t]]
      /\ \A u \in Thread \ {t} : at'[u] = at[u] /\ req'[u] = req[u]
  BY Zenon DEF TypeOK, Leave
<1>3. \A f \in Frame : FinalType(f)' = type[f] /\ FinalRef(f)' = ref[f]
  BY <1>2, SMTT(30) DEF FinalType, FinalRef
<1>4. AType' = type /\ ARef' = ref
  BY <1>3, Zenon DEF AType, ARef, TypeOK
<1>5. AReq' = [AReq EXCEPT ![t] = None]
  BY <1>2, ZenonT(30) DEF AReq
<1>. HIDE DEF r
<1>6. CASE at[t] \in {"unref", "set"}
  <2>1. beg[t] = first[t] + r.n
    BY <1>6, Zenon DEF Done, r
  <2>2. \A f \in Frame : FinalType(f) = type[f] /\ FinalRef(f) = ref[f]
    BY <1>n, <1>1, <1>6, <2>1, FinalInside, SMTT(30) DEF r
  <2>3. AType = type /\ ARef = ref
    BY <2>2, Zenon DEF AType, ARef, TypeOK
  <2>4. AReq' = AReq
    BY <1>5, <1>6, ZenonT(30) DEF AReq
  <2>5. res[t] = 0
    BY <1>6, SMTT(30) DEF Work, Range
  <2>6. ret' = ret
    BY <1>1, <1>2, <2>5, SMTT(30) DEF TypeOK
  <2>. QED  BY <1>4, <2>3, <2>4, <2>6, Zenon DEF AVars
<1>7. CASE at[t] \in {"fail", "ref", "rollback"}
  <2>0. AReq[t] = r
    BY <1>7, Zenon DEF AReq, r
  <2>a. SUFFICES Abstract!Alloc(t, r) \/ Abstract!AllocAt(t, r) \/ Abstract!Claim(t, r)
                 \/ Abstract!Ref(t, r)
    <3>0. at[t] \notin {"unref", "set"} /\ r # None /\ AReq[t] = r
      BY <1>1, <1>7, <2>0, SMTT(30)
    <3>1. ASSUME Abstract!Alloc(t, r) PROVE Abstract!Next
      BY <1>1, <3>0, <3>1, ZenonT(30)
      DEF Abstract!Next, Abstract!Do, Abstract!InRange, InRange, AReq, Abstract!Alloc,
          Abstract!Fits, Abstract!Span
    <3>2. ASSUME Abstract!AllocAt(t, r) PROVE Abstract!Next
      BY <1>1, <3>0, <3>2, ZenonT(30)
      DEF Abstract!Next, Abstract!Do, Abstract!InRange, InRange, AReq, Abstract!AllocAt,
          Abstract!Span
    <3>3. ASSUME Abstract!Claim(t, r) PROVE Abstract!Next
      BY <1>1, <3>0, <3>3, ZenonT(30)
      DEF Abstract!Next, Abstract!Do, Abstract!InRange, InRange, AReq, Abstract!Claim,
          Abstract!Span
    <3>4. ASSUME Abstract!Ref(t, r) PROVE Abstract!Next
      BY <1>1, <3>0, <3>4, ZenonT(30)
      DEF Abstract!Next, Abstract!Do, Abstract!InRange, InRange, AReq, Abstract!Ref,
          Abstract!Span
    <3>. QED  BY <2>a, <3>1, <3>2, <3>3, <3>4, SMTT(30)
  <2>b. ASSUME NEW err, res[t] = err, AType = type, ARef = ref PROVE Abstract!Fails(t, err)
    BY <1>2, <1>4, <1>5, <2>b, ZenonT(30)
    DEF Abstract!Fails, Abstract!Finish, AType, ARef, AReq
  <2>1. CASE at[t] = "fail"
    <3>1. AType = type /\ ARef = ref /\ res[t] = 0 /\ r.op \in {"alloc", "alloc_at"}
      BY <2>1, FinalOutside, Zenon DEF Work, Range, r
    <3>2. Abstract!Fails(t, 0)
      BY <2>b, <3>1, Zenon
    <3>3. CASE r.op = "alloc"
      <4>1. ASSUME NEW i \in 1..(NFrames - r.n)
            PROVE  \E f \in Span(i, r.n) : ~(AType[f] = "AVAILABLE" /\ ARef[f] = 0)
        BY <2>1, <3>1, <3>3, Zenon DEF Work, Searched, Blocked, IsAllocable, r
      <4>2. Abstract!Fits(r.n) = {}
        BY <4>1, ZenonT(30)
        DEF Abstract!Fits, Abstract!Allocable, Abstract!Span, Span, AType, ARef
      <4>. QED  BY <3>2, <3>3, <4>2, SMTT(30) DEF Abstract!Alloc
    <3>4. CASE r.op = "alloc_at"
      <4>1. \E f \in Span(r.pf, r.n) : ~(AType[f] = "AVAILABLE" /\ ARef[f] = 0)
        BY <2>1, <3>1, <3>4, Zenon DEF Work, Searched, Blocked, IsAllocable, r
      <4>2. ~ \A f \in Abstract!Span(r.pf, r.n) : Abstract!Allocable(f)
        BY <4>1, ZenonT(30) DEF Abstract!Allocable, Abstract!Span, Span, AType, ARef
      <4>. QED  BY <3>2, <3>4, <4>2, SMTT(30) DEF Abstract!AllocAt
    <3>. QED  BY <3>1, <3>3, <3>4, ZenonT(30)
  <2>2. CASE at[t] = "ref"
    <3>1. /\ beg[t] = first[t] + r.n /\ first[t] + r.n <= NFrames
          /\ r.op \in {"alloc", "alloc_at", "claim", "ref"}
          /\ r.op # "alloc" => first[t] = r.pf
          /\ res[t] = IF r.op \in {"alloc", "alloc_at"} THEN first[t] ELSE 0
      BY <1>n, <2>2, SMTT(30) DEF Done, Work, Range, r
    <3>. DEFINE span == Span(first[t], r.n)
    <3>2. /\ span \subseteq Frame /\ span = first[t]..(beg[t] - 1)
          /\ \A f \in Frame : ref[f] \in 0..RefMax
      <4>1. span = first[t]..(beg[t] - 1)
        BY <1>1, <1>n, <3>1 DEF Span
      <4>2. span \subseteq Frame
        BY <1>1, <1>n, <3>1, <4>1, SMTT(30) DEF Frame
      <4>. QED  BY <4>1, <4>2, Zenon DEF TypeOK
    <3>3. AType = type
      BY <2>2, FinalInside, SMTT(30) DEF AType, TypeOK
    <3>4. \A f \in Frame : ARef[f] = IF f \in span THEN ref[f] - 1 ELSE ref[f]
      BY <2>2, <3>2, FinalInside, Zenon DEF ARef
    <3>. HIDE DEF span
    <3>5. ARef' = [f \in Frame |-> IF f \in span THEN ARef[f] + 1 ELSE ARef[f]]
      BY <1>4, <3>2, <3>4, SMTT(30) DEF TypeOK
    <3>6. Abstract!Succeeds(t, span, res[t])
      BY <1>2, <1>4, <1>5, <3>3, <3>5, Zenon
      DEF Abstract!Succeeds, Abstract!Finish, Abstract!Frame, Frame, AType, ARef, AReq
    <3>7. Abstract!Span(first[t], r.n) = span
      BY Zenon DEF Abstract!Span, Span, span
    <3>8. CASE r.op \in {"alloc", "alloc_at"}
      <4>1. \A f \in span : AType[f] = "AVAILABLE" /\ ARef[f] = 0
        <5>1. ASSUME NEW f \in span PROVE type[f] = "AVAILABLE" /\ ref[f] = 1
          BY <2>2, <3>2, <3>8, <5>1, Zenon DEF Work, Counted, r, span
        <5>. QED  BY <3>2, <3>3, <3>4, <5>1
      <4>2. \A f \in span : Abstract!Allocable(f)
        BY <4>1, ZenonT(30) DEF Abstract!Allocable, AType, ARef
      <4>3. CASE r.op = "alloc_at"
        BY <3>1, <3>6, <3>7, <4>2, <4>3, SMTT(30) DEF Abstract!AllocAt
      <4>4. CASE r.op = "alloc"
        <5>1. /\ first[t] > 0
              /\ \A i \in 1..(first[t] - 1) : Blocked(i, r.n, span)
          BY <2>2, <4>4, ZenonT(30) DEF Work, Searched, r, span
        <5>2. first[t] \in Abstract!Fits(r.n)
          BY <1>1, <1>n, <3>1, <3>7, <4>2, <5>1, SMTT(30) DEF Abstract!Fits
        <5>3. ASSUME NEW j \in Abstract!Fits(r.n) PROVE first[t] <= j
          <6>1. j \in 1..(NFrames - r.n) /\ \A f \in Span(j, r.n) : Abstract!Allocable(f)
            BY Zenon DEF Abstract!Fits, Abstract!Span, Span
          <6>2. SUFFICES ASSUME j < first[t] PROVE FALSE
            BY <1>n, <6>1
          <6>3. PICK f \in Span(j, r.n) \ span : ~IsAllocable(f)
            BY <1>n, <5>1, <6>1, <6>2, SMTT(30) DEF Blocked
          <6>4. f \in Frame
            BY <1>1, <1>n, <6>1 DEF Span, Frame
          <6>5. AType[f] = "AVAILABLE" /\ ARef[f] = 0
            BY <6>1, <6>3, ZenonT(30) DEF Abstract!Allocable, AType, ARef
          <6>. QED  BY <3>3, <3>4, <6>3, <6>4, <6>5, SMTT(30) DEF IsAllocable
        <5>. QED  BY <3>1, <3>6, <3>7, <4>4, <5>2, <5>3, SMTT(30) DEF Abstract!Alloc
      <4>. QED  BY <3>8, <4>3, <4>4, SMTT(30)
    <3>9. CASE r.op = "claim"
      <4>1. \A f \in span : ARef[f] < RefMax
        <5>1. ASSUME NEW f \in span PROVE ref[f] > 0 /\ ref[f] \in 0..RefMax
          BY <2>2, <3>2, <3>9, <5>1, Zenon DEF Work, Counted, r
        <5>. QED  BY <1>n, <3>2, <3>4, <5>1
      <4>. QED  BY <3>1, <3>6, <3>7, <3>9, <4>1, SMTT(30) DEF Abstract!Claim, ARef
    <3>10. CASE r.op = "ref"
      <4>1. \A f \in span : ARef[f] \notin {0, RefMax}
        <5>1. ASSUME NEW f \in span PROVE ref[f] > 1 /\ ref[f] \in 0..RefMax
          BY <2>2, <3>2, <3>10, <5>1, Zenon DEF Work, Counted, r
        <5>. QED  BY <1>n, <3>2, <3>4, <5>1
      <4>. QED  BY <3>1, <3>6, <3>7, <3>10, <4>1, ZenonT(30) DEF Abstract!Ref, ARef
    <3>. QED  BY <3>1, <3>8, <3>9, <3>10, SMTT(30)
  <2>3. CASE at[t] = "rollback"
    <3>1. /\ beg[t] = first[t] /\ first[t] + r.n <= NFrames
          /\ r.op \in {"claim", "ref"} /\ first[t] = r.pf
      BY <2>3 DEF Done, Work, Range, r
    <3>2. \A f \in Frame : FinalType(f) = type[f] /\ FinalRef(f) = ref[f]
      BY <1>n, <2>3, <3>1, FinalInside, SMTT(30)
    <3>3. AType = type /\ ARef = ref
      BY <3>2 DEF AType, ARef, TypeOK
    <3>4. Abstract!Fails(t, res[t])
      BY <2>b, <3>3
    <3>5. PICK g \in Span(r.pf, r.n) :
            /\ Refusal(r.op, g) = res[t] /\ res[t] # 0
            /\ \A f \in r.pf..(g - 1) : ref[f] < RefMax /\ (r.op = "ref" => ref[f] > 0)
      BY <2>3, <3>1, SMTT(30) DEF Work, Refused, r
    <3>6. CASE r.op = "claim"
      <4>1. ref[g] = RefMax /\ res[t] = EOVERFLOW
        BY <3>5, <3>6, SMTT(30) DEF Refusal
      <4>2. ~ \A f \in Abstract!Span(r.pf, r.n) : ARef[f] < RefMax
        BY <1>n, <3>3, <3>5, <4>1, SMTT(30) DEF Abstract!Span, Span
      <4>. QED  BY <3>4, <3>6, <4>1, <4>2, Zenon
                DEF Abstract!Claim, Abstract!EOVERFLOW, EOVERFLOW, ARef
    <3>7. CASE r.op = "ref"
      <4>1. /\ ref[g] \in {0, RefMax}
            /\ res[t] = IF ref[g] = 0 THEN ENODEV ELSE EOVERFLOW
        BY <1>n, <3>5, <3>7 DEF Refusal
      <4>. DEFINE bad == {f \in Abstract!Span(r.pf, r.n) : ARef[f] \in {0, RefMax}}
      <4>2. g \in bad
        BY <3>3, <3>5, <4>1, Zenon DEF Abstract!Span, Span
      <4>3. ASSUME NEW f \in bad PROVE g <= f
        <5>1. f \in r.pf..(r.pf + r.n - 1) /\ g \in r.pf..(r.pf + r.n - 1)
              /\ ref[f] \in {0, RefMax}
          BY <3>3, <3>5, SMTT(30) DEF Abstract!Span, Span
        <5>. QED  BY <1>n, <1>1, <3>5, <3>7, <5>1, SMTT(30)
      <4>4. res[t] = IF ARef[g] = 0 THEN Abstract!ENODEV ELSE Abstract!EOVERFLOW
        BY <3>3, <4>1, Zenon DEF ENODEV, EOVERFLOW, Abstract!ENODEV, Abstract!EOVERFLOW
      <4>. QED  BY <3>4, <3>7, <4>2, <4>3, <4>4, ZenonT(30) DEF Abstract!Ref, ARef
    <3>. QED  BY <3>1, <3>6, <3>7, SMTT(30)
  <2>. QED  BY <1>7, <2>1, <2>2, <2>3, ZenonT(30)
<1>. QED  BY <1>6, <1>7, Zenon DEF Done

(* Every step is a step of FrameMap, or hidden from its users.             *)
LEMMA RefinementStep == IInv /\ [Next]_vars => [Abstract!Next]_Abstract!vars
<1>. SUFFICES ASSUME IInv, [Next]_vars PROVE Abstract!Next \/ UNCHANGED AVars
  BY Zenon DEF Abstract!vars, AVars, AType, ARef, AReq
<1>1. CASE UNCHANGED vars
  BY <1>1, Zenon DEF vars, AVars, AType, ARef, AReq, FinalType, FinalRef, Ahead, Pending
<1>2. ASSUME NEW t \in Thread, Call(t) \/ Step(t) PROVE Abstract!Next \/ UNCHANGED AVars
  BY <1>2, CallRefines, RejectRefines, EnterRefines, LeaveRefines, LoopsHidden, Zenon DEF Step
<1>. QED  BY <1>1, <1>2, Zenon DEF Next

(* The functions of pmem.c behave as if each happened at once, for any     *)
(* number of frames and references, any threads and any calls: allocation  *)
(* returns the lowest frames that fit and are in use by nobody, and a      *)
(* function that fails half-way has changed nothing (pmem.c:208-371).      *)
THEOREM Refinement == Spec => ImplementsFrameMap
<1>1. Init => Abstract!Init
  BY Zenon DEF Init, Abstract!Init, FinalType, FinalRef, Abstract!Frame, Frame
<1>. QED
  BY <1>1, RefinementStep, Inductive, PTL DEF Spec, ImplementsFrameMap, Abstract!Spec
=============================================================================
