----------------------------- MODULE MCSemaphore -----------------------------
(* A small instance of Semaphore.                                          *)
EXTENDS Semaphore

CONSTANTS t1, t2, t3, t4, vmem, pmem

(* The kernel initialises its semaphores with one slot.  semaphore_init    *)
(* takes any number; two exercise the counting.                            *)
MCInitSlots == [s \in Sem |-> IF s = vmem THEN 1 ELSE 2]

\* The semaphore of the frame map is entered inside the ones of vmem.c.
MCRank == [s \in Sem |-> IF s = vmem THEN 1 ELSE 2]
=============================================================================
