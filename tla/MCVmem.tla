------------------------------- MODULE MCVmem --------------------------------
(* Small instances of Vmem: the kernel and two programs, one page table    *)
(* for the kernel's area and one for the user's, with three entries each.  *)
EXTENDS Vmem, TLC

CONSTANTS idle, srv, kernel, prog, new

MCOrder == kernel :> 1 @@ prog :> 2 @@ new :> 3

(* The kernel's area has page table 1.  The program's has page table 2,    *)
(* where its first page is mapped to frame 3.  Frame 0 is the BIOS's.      *)
MCInitPd ==
  kernel :> <<1, 0>> @@ prog :> <<1, 2>> @@ new :> <<1, 0>>

Directory(d) == [i \in Table |-> d[i + 1]]

MCPd == [a \in AS |-> Directory(MCInitPd[a])]

MCPt ==
  [f \in Frame |-> [e \in Entry |->
     CASE f = 0 /\ e = 0 -> 5
       [] f = 2 /\ e = 0 -> 3
       [] OTHER -> 0]]

MCRef == [f \in Frame |-> CASE f \in 1..3 -> 2 [] f = 4 -> 1 [] OTHER -> 0]

Request0(op, as, src, lo, hi, n, pg, pf) ==
  [op |-> op, as |-> as, src |-> src, lo |-> lo, hi |-> hi, n |-> n, pg |-> pg, pf |-> pf]

User == NEntries
End == 2 * NEntries

\* Calls that the idle thread and the system service make.
Service ==
  {Request0("empty", kernel, kernel, 0, User, 1, 0, 0),
   Request0("map_at", kernel, prog, 0, 0, 1, User, 0)}

KernelCalls ==
  {Request0("alloc_within", kernel, kernel, 0, User, 1, 0, 0),
   Request0("alloc_within", kernel, kernel, User, End, 1, 0, 0),
   Request0("alloc_frames", kernel, kernel, User - 1, 0, 2, 0, 4),
   Request0("map_within", kernel, prog, 0, User, 1, User, 0),
   Request0("map_within", kernel, prog, 0, User, 1, User + 1, 0),
   Request0("lookup", kernel, kernel, 0, 0, 1, User, 0),
   Request0("init", kernel, new, 0, User, 1, 0, 0)}

MCRequests == idle :> KernelCalls @@ srv :> Service

\* A program is loaded, in its own address space, while another one writes.
MCLoading ==
  idle :> {Request0("alloc_within", new, new, User, End, 1, 0, 0)} @@ srv :> Service
=============================================================================
