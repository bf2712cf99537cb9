------------------------------- MODULE MCSched -------------------------------
(* Small instances of Sched: the idle thread, the system service in the    *)
(* highest class, and programs in the class between them.                  *)
EXTENDS Sched

CONSTANTS idle, syssrv, progA, progB

\* sysexec.c:81 and 150; three classes keep the order of 0, 64 and 255.
MCPrioOf == [t \in Thread |-> CASE t = idle -> 0 [] t = syssrv -> 2 [] OTHER -> 1]
=============================================================================
