---------------------------- MODULE MCInterrupts ----------------------------
(* The boot thread, the system service and a program.                      *)
EXTENDS Interrupts, FiniteSets, FiniteSetsExt

CONSTANTS idle, srv, prog

\* The interrupts on t's stack whose end is still to be signalled.
Pending(t) == Len(SelectSeq(stack[t], LAMBDA f : f.kind = "irq"))

(* Interrupts nest on the stacks, which are one page each, because a       *)
(* switch enables them (tcbregs.S:95) and the signal of another thread     *)
(* lets the timer in again.  But over all threads there are never more     *)
(* unfinished ones than threads have been created, and the one in service. *)
NestingBounded ==
  MapThenSumSet(Pending, Thread) <= Cardinality(Added) + Cardinality(isr)
=============================================================================
