------------------------------ MODULE FrameMap -------------------------------
(***************************************************************************)
(* What pmem.c promises to its users: a map of page frames, each with a    *)
(* type and a counter of references, whose operations take effect at once  *)
(* or not at all.  There is no semaphore and no loop here.                 *)
(***************************************************************************)
EXTENDS Integers

CONSTANTS
  Thread,    \* the callers
  NFrames,   \* memmap_len(&g_pmem)
  RefMax,    \* the largest number of references to a frame
  Requests,  \* Requests[t]: the calls that t makes
  None       \* no request

VARIABLES
  type,      \* type[f]: the type of page frame f
  ref,       \* ref[f]: its number of references
  req,       \* req[t]: the call that t is in
  ret        \* ret[t]: what t's last call returned, 0 if nothing

vars == <<type, ref, req, ret>>

Frame == 0..(NFrames - 1)

Span(pf, n) == pf..(pf + n - 1)

ENOMEM == -12
ENODEV == -19
EOVERFLOW == -75

\* Some requests are beyond the end of the map.
InRange(r) == r.n <= NFrames /\ r.pf <= NFrames - r.n

Init ==
  /\ type = [f \in Frame |-> "NONE"]
  /\ ref = [f \in Frame |-> 0]
  /\ req = [t \in Thread |-> None]
  /\ ret = [t \in Thread |-> 0]

-----------------------------------------------------------------------------
Call(t, r) ==
  /\ req' = [req EXCEPT ![t] = r]
  /\ ret' = [ret EXCEPT ![t] = 0]
  /\ UNCHANGED <<type, ref>>

Finish(t) == req' = [req EXCEPT ![t] = None]

Fails(t, err) ==
  /\ ret' = [ret EXCEPT ![t] = err]
  /\ Finish(t)
  /\ UNCHANGED <<type, ref>>

Succeeds(t, span, value) ==
  /\ ret' = [ret EXCEPT ![t] = value]
  /\ Finish(t)
  /\ ref' = [f \in Frame |-> IF f \in span THEN ref[f] + 1 ELSE ref[f]]
  /\ UNCHANGED type

Allocable(f) == type[f] = "AVAILABLE" /\ ref[f] = 0

\* Where n frames can be allocated.  Frame 0 is never used.
Fits(n) == {i \in 1..(NFrames - n) : \A f \in Span(i, n) : Allocable(f)}

\* The lowest frames that fit.
Alloc(t, r) ==
  /\ r.op = "alloc"
  /\ \/ Fits(r.n) = {} /\ Fails(t, 0)
     \/ \E i \in Fits(r.n) :
          (\A j \in Fits(r.n) : i <= j) /\ Succeeds(t, Span(i, r.n), i)

AllocAt(t, r) ==
  /\ r.op = "alloc_at"
  /\ IF \A f \in Span(r.pf, r.n) : Allocable(f)
     THEN Succeeds(t, Span(r.pf, r.n), r.pf)
     ELSE Fails(t, 0)

\* A reference to every frame, or to none if one has all it can have.
Claim(t, r) ==
  /\ r.op = "claim"
  /\ IF \A f \in Span(r.pf, r.n) : ref[f] < RefMax
     THEN Succeeds(t, Span(r.pf, r.n), 0)
     ELSE Fails(t, EOVERFLOW)

\* One more reference to frames that have some; the first obstacle counts.
Ref(t, r) ==
  /\ r.op = "ref"
  /\ LET bad == {f \in Span(r.pf, r.n) : ref[f] \in {0, RefMax}}
     IN  \/ bad = {} /\ Succeeds(t, Span(r.pf, r.n), 0)
         \/ \E f \in bad :
              /\ \A g \in bad : f <= g
              /\ Fails(t, IF ref[f] = 0 THEN ENODEV ELSE EOVERFLOW)

Unref(t, r) ==
  /\ r.op = "unref"
  /\ ref' = [f \in Frame |->
               IF f \in Span(r.pf, r.n) /\ ref[f] > 0 THEN ref[f] - 1 ELSE ref[f]]
  /\ Finish(t)
  /\ UNCHANGED <<type, ret>>

SetType(t, r) ==
  /\ r.op = "set_type"
  /\ type' = [f \in Frame |-> IF f \in Span(r.pf, r.n) THEN "AVAILABLE" ELSE type[f]]
  /\ Finish(t)
  /\ UNCHANGED <<ref, ret>>

OutOfRange(t, r) ==
  CASE r.op = "alloc"    -> Fails(t, 0)
    [] r.op = "set_type" -> Fails(t, ENODEV)
    [] r.op = "unref"    -> Fails(t, 0)
    [] OTHER             -> Fails(t, ENOMEM)

Do(t, r) ==
  IF InRange(r)
  THEN \/ Alloc(t, r) \/ AllocAt(t, r) \/ Claim(t, r) \/ Ref(t, r)
       \/ Unref(t, r) \/ SetType(t, r)
  ELSE OutOfRange(t, r)

Next ==
  \E t \in Thread :
    \/ req[t] = None /\ \E r \in Requests[t] : Call(t, r)
    \/ req[t] # None /\ Do(t, req[t])

Spec == Init /\ [][Next]_vars
=============================================================================
