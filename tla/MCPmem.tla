------------------------------- MODULE MCPmem --------------------------------
(* A small instance of Pmem: one thread sets up the map and allocates and  *)
(* releases frames, the other claims and references them.                  *)
EXTENDS Pmem, TLC

CONSTANTS t1, t2

Calls(op, pfs, ns) == [op : {op}, pf : pfs, n : ns]

\* Frame 4 is the last one, so that some calls are out of range.
MCRequests ==
  t1 :> Calls("set_type", {1}, {4, 5}) \union Calls("alloc", {0}, {1, 2, 3})
          \union Calls("unref", {1, 2, 3}, {1}) \union Calls("unref", {4}, {2})
  @@
  t2 :> Calls("alloc", {0}, {2, 6}) \union Calls("alloc_at", {2, 4}, {2})
          \union Calls("claim", {2, 4}, {2}) \union Calls("ref", {1, 3, 4}, {2})
=============================================================================
