------------------------------ MODULE VmemProofs ------------------------------
(* Proofs about Vmem, for any number of threads, address spaces, page      *)
(* tables, frames and temporary pages: calls inside the kernel's semaphore *)
(* never disturb each other's temporary pages.                             *)
EXTENDS Vmem, WellFoundedInduction, TLAPS

-----------------------------------------------------------------------------
(* Arithmetic.                                                             *)

\* The pages of k page tables.
Span(k) == k * NEntries

(* What VmemAssumption says of the numbers.                                *)
LEMMA Constants ==
  /\ NTables \in Nat \ {0} /\ NEntries \in Nat \ {0} /\ NFrames \in Nat \ {0}
  /\ NSlots \in Nat /\ RefMax \in Nat \ 0..2
  /\ Size \in Nat \ {0}
  /\ None \notin Thread /\ Kernel \in AS
<1>1. /\ NTables \in Nat \ {0} /\ NEntries \in Nat \ {0} /\ NFrames \in Nat \ {0}
      /\ NSlots \in Nat /\ RefMax \in Nat \ 0..2
      /\ None \notin Thread /\ Kernel \in AS
  BY VmemAssumption, Zenon DEF VmemAssumption
<1>2. Size \in Nat \ {0}
  BY <1>1 DEF Size
<1>. QED  BY <1>1, <1>2, Zenon

(* Span(k) is the number of pages of k page tables.                        *)
LEMMA Spans ==
  /\ Span(0) = 0 /\ Span(NTables) = Size
  /\ \A k \in Nat : Span(k) \in Nat /\ Span(k + 1) = Span(k) + NEntries
  /\ \A j, k \in Nat : j <= k => Span(j) <= Span(k)
<1>1. NTables \in Nat /\ NEntries \in Nat
  BY Constants, Zenon
<1>2. ASSUME NEW k \in Nat  PROVE Span(k) \in Nat /\ Span(k + 1) = Span(k) + NEntries
  BY <1>1 DEF Span
<1>3. ASSUME NEW j \in Nat, NEW k \in Nat, j <= k  PROVE Span(j) <= Span(k)
  <2>1. /\ k - j \in Nat /\ k = j + (k - j)
    BY <1>3
  <2>2. (k - j) * NEntries \in Nat
    BY <2>1, <1>1
  <2>3. (j + (k - j)) * NEntries = j * NEntries + (k - j) * NEntries
    BY <2>1, <1>1
  <2>. QED  BY <2>1, <2>2, <2>3, <1>1 DEF Span
<1>4. Span(0) = 0 /\ Span(NTables) = Size
  BY <1>1 DEF Span, Size
<1>. QED  BY <1>2, <1>3, <1>4, Zenon

(* pagetable_index: x is a page of page table x \div NEntries.             *)
LEMMA Quotient ==
  ASSUME NEW x \in Nat
  PROVE  /\ x \div NEntries \in Nat /\ x % NEntries \in Entry
         /\ Span(x \div NEntries) <= x
         /\ x < Span(x \div NEntries) + NEntries
<1>1. NEntries \in Nat /\ NEntries > 0
  BY Constants
<1>2. /\ x \div NEntries \in Int /\ x % NEntries \in 0..(NEntries - 1)
      /\ x = NEntries * (x \div NEntries) + (x % NEntries)
  BY <1>1
<1>3. x \div NEntries >= 0
  BY <1>1
<1>4. NEntries * (x \div NEntries) = Span(x \div NEntries)
  BY <1>1, <1>2 DEF Span
<1>. QED  BY <1>1, <1>2, <1>3, <1>4 DEF Entry

(* A page that exists has its page table in the directory.                 *)
LEMMA TableOf ==
  ASSUME NEW x \in Nat, x < Size
  PROVE  x \div NEntries \in Table
<1>1. NTables \in Nat /\ x \div NEntries \in Nat
  BY Constants, Quotient, Zenon
<1>2. ASSUME NTables <= x \div NEntries  PROVE FALSE
  <2>1. Span(NTables) <= Span(x \div NEntries) /\ Span(NTables) \in Nat /\ Span(x \div NEntries) \in Nat
    BY <1>1, <1>2, Spans, Zenon
  <2>2. Span(NTables) = Size /\ Span(x \div NEntries) <= x
    BY Spans, Quotient, Zenon
  <2>. QED  BY <2>1, <2>2
<1>. QED  BY <1>1, <1>2 DEF Table

(* Later pages are in later page tables.                                   *)
LEMMA Monotone ==
  ASSUME NEW x \in Nat, NEW y \in Nat, x <= y
  PROVE  x \div NEntries <= y \div NEntries
<1>1. /\ x \div NEntries \in Nat /\ y \div NEntries \in Nat
      /\ Span(x \div NEntries) <= x /\ y < Span(y \div NEntries) + NEntries
  BY Quotient, Zenon
<1>2. ASSUME y \div NEntries < x \div NEntries  PROVE FALSE
  <2>1. y \div NEntries + 1 <= x \div NEntries /\ y \div NEntries + 1 \in Nat
    BY <1>1, <1>2
  <2>2. Span(y \div NEntries + 1) <= Span(x \div NEntries)
    BY <2>1, <1>1, Spans, Zenon
  <2>3. /\ Span(y \div NEntries + 1) = Span(y \div NEntries) + NEntries
        /\ Span(y \div NEntries) \in Nat /\ Span(x \div NEntries) \in Nat
    BY <1>1, Spans, Zenon
  <2>. QED  BY <1>1, <2>2, <2>3, Constants
<1>. QED  BY <1>1, <1>2

(* pagetable_count: a walk over pages that exist stays in the directory.   *)
LEMMA WalkFits ==
  ASSUME NEW p \in Nat, NEW n \in Nat, n > 0, p + n <= Size,
         NEW tabs, tabs = 1 + (p + n - 1) \div NEntries - p \div NEntries
  PROVE  /\ p \div NEntries \in Table
         /\ tabs \in 1..NTables
         /\ p \div NEntries + tabs <= NTables
<1>1. Size \in Nat /\ NTables \in Nat
  BY Constants, Zenon
<1>2. p < Size /\ p + n - 1 \in Nat /\ p + n - 1 < Size /\ p <= p + n - 1
  BY <1>1
<1>3. p \div NEntries \in Table /\ (p + n - 1) \div NEntries \in Table
  BY <1>2, TableOf, Zenon
<1>4. p \div NEntries <= (p + n - 1) \div NEntries
  BY <1>2, Monotone, Zenon
<1>. QED  BY <1>1, <1>3, <1>4 DEF Table

(* What is left of a page table is at least an entry.                      *)
LEMMA Rests ==
  ASSUME NEW x \in Nat
  PROVE  Rest(x) \in 1..NEntries
BY Quotient, Constants DEF Rest, Entry

(* Lowest(S) is the least element of S, as numbers are well-founded.       *)
LEMMA Least ==
  ASSUME NEW S, S \subseteq Nat, S # {}
  PROVE  Lowest(S) \in S /\ \A y \in S : Lowest(S) <= y
<1>. DEFINE Less == {ss \in Nat \X Nat : ss[1] < ss[2]}
<1>1. IsWellFoundedOn(Less, Nat)
  BY NatLessThanWellFounded, Zenon DEF OpToRel
<1>2. PICK x \in S : \A y \in S : ~(<<y, x>> \in Less)
  <2>. HIDE DEF Less
  <2>. QED  BY <1>1, WFMin, Zenon
<1>3. ASSUME NEW y \in S  PROVE x <= y
  <2>1. x \in Nat /\ y \in Nat /\ ~(<<y, x>> \in Less)
    BY <1>2, Zenon
  <2>. QED  BY <2>1
<1>4. \A y \in S : x <= y
  BY <1>3, Zenon
<1>. QED  BY <1>2, <1>4, Zenon DEF Lowest

-----------------------------------------------------------------------------
(* Local variables.                                                        *)

\* The local variables.
Names ==
  {"at", "finding", "fresh", "beg", "pg", "n", "tab", "tabs", "nempty", "slot", "table",
   "sslot", "stable", "pf", "ret"}

\* Their types, as Locals has them.
Typed(l) ==
  /\ l.at \in Points /\ l.finding \in BOOLEAN /\ l.fresh \in BOOLEAN
  /\ l.beg \in 0..(2 * Size) /\ l.pg \in 0..Size /\ l.n \in 0..Size
  /\ l.tab \in 0..NTables /\ l.tabs \in 0..NTables /\ l.nempty \in 0..Size
  /\ l.slot \in Slot \union {-1} /\ l.table \in Frame
  /\ l.sslot \in Slot \union {-1} /\ l.stable \in Frame
  /\ l.pf \in 0..NFrames /\ l.ret \in Nat \union {Error}

(* The types of the local variables, one by one.                           *)
LEMMA LocalsTyped ==
  ASSUME NEW l \in Locals
  PROVE  Typed(l) /\ DOMAIN l = Names
BY Zenon DEF Locals, Typed, Names

(* Changed local variables of the right types are local variables.         *)
LEMMA WithTyped ==
  ASSUME NEW l \in Locals, NEW c, NEW k, k = With(l, c), Typed(k)
  PROVE  k \in Locals
<1>1. DOMAIN l = Names
  BY LocalsTyped, Zenon
<1>2. k = [x \in Names |-> k[x]]
  BY <1>1, Zenon DEF With
<1>. QED  BY <1>2, Zenon DEF Names, Typed, Locals

(* With changes what it says, and nothing else.                            *)
LEMMA WithFields ==
  ASSUME NEW l \in Locals, NEW c
  PROVE  \A x \in Names : With(l, c)[x] = IF x \in DOMAIN c THEN c[x] ELSE l[x]
BY LocalsTyped, Zenon DEF With
-----------------------------------------------------------------------------
(* The invariant.                                                          *)

\* Where a thread has entered all the semaphores it needs.
Inside == Points \ {"out", "enter", "share"}

\* In vmem_32_lookup_frame.
Sourcing == {"source", "srctemp", "srcunmap"}

\* Who is inside owns the semaphore of the kernel's address space.
Locked == \A t \in Thread : loc[t].at \in Inside => sem[Kernel] = t

\* The page found by vmem_empty_pages_in_area has room for what is mapped there.
Roomy(t, p) == \A m \in Requests[t] : m.op = "map_at" => p + m.n <= Size

\* Between calls no temporary page is known; map_at has a page with room.
Called(t, l, r) ==
  /\ l.at # "out" => r \in Requests[t]
  /\ l.at \in {"out", "enter"} => l.slot = -1 /\ (l.ret # Error => Roomy(t, l.ret))
  /\ l.at = "enter" /\ r.op = "map_at" => l.ret # Error

\* The walk over the page tables is inside the page directory.
Walking(l, r) ==
  /\ l.tab + l.tabs <= NTables
  /\ l.pg + l.n <= Size
  /\ r.op # "lookup"
  /\ l.finding => r.op \in Searches
  /\ r.op \in Searches => l.ret = l.beg /\ l.beg + r.n <= Size

\* What has been counted leaves room for the page tables to come.
Counted(l, k) == l.finding => l.nempty + Span(k) <= Size

(* What is true of a thread inside, with local variables l in call r, and  *)
(* of the temporary pages m: it knows none before map_page_table, the page *)
(* table is mapped where it thinks from then on, and a page table that it  *)
(* may change is not frame 0, so that the source's gets another page.      *)
Busy(l, r, m) ==
  /\ l.at = "search" => l.slot = -1 /\ r.op \in Searches
  /\ l.at = "table" => l.slot = -1 /\ Walking(l, r) /\ Counted(l, l.tabs)
  /\ l.at \in {"temp", "install", "entries", "map", "unmap"} \/ (l.at \in Sourcing /\ r.op # "lookup") =>
       /\ Walking(l, r) /\ l.tabs > 0
       /\ Counted(l, IF l.at = "unmap" THEN l.tabs - 1 ELSE l.tabs)
       /\ l.slot # -1 /\ (~l.finding => l.table # 0)
       /\ IF l.at = "temp" THEN m[l.slot] \in {0, Absent} ELSE m[l.slot] = l.table
  /\ l.at \in Sourcing => r.op \in Maps \union {"lookup"} /\ (r.op = "lookup" => l.slot = -1)
  /\ l.at = "map" \/ (l.at \in Sourcing /\ r.op # "lookup") => ~l.finding /\ l.n > 0
  /\ l.at = "srctemp" => l.sslot # -1 /\ l.sslot # l.slot /\ m[l.sslot] \in {0, Absent}
  /\ l.at = "srcunmap" => l.sslot # -1 /\ l.sslot # l.slot /\ m[l.sslot] = l.stable
  /\ l.at = "leave" /\ r.op = "empty" /\ l.ret # Error => l.ret + r.n <= Size

(* Temporary pages that a thread with these local variables works on.      *)
Holds(l, s) ==
  \/ /\ l.at \in {"install", "entries", "map", "unmap", "source", "srctemp", "srcunmap"}
     /\ l.slot = s
  \/ l.at = "srcunmap" /\ l.sslot = s

\* Every page that maps something is in use or lost.
Accounted ==
  \A s \in Slot : tmp[s] # Absent => s \in lost \/ \E t \in Thread : Holds(loc[t], s)

\* The types of what the semaphores protect.
Data ==
  /\ ref \in [Frame -> 0..RefMax]
  /\ pt \in [Frame -> [Entry -> Frame]]
  /\ pd \in [AS -> [Table -> Frame]]
  /\ tmp \in [Slot -> Frame \union {Absent}]
  /\ sem \in [AS -> Thread \union {None}]
  /\ lost \subseteq Slot

IInv ==
  /\ TypeOK
  /\ Locked
  /\ \A t \in Thread : Called(t, loc[t], req[t])
  /\ \A t \in Thread : loc[t].at \in Inside => Busy(loc[t], req[t], tmp)
  /\ Accounted

(* What is known of the call that t is in.                                 *)
LEMMA Known ==
  ASSUME IInv, NEW t \in Thread
  PROVE  /\ Data /\ DOMAIN loc = Thread /\ DOMAIN req = Thread
         /\ loc[t] \in Locals /\ Typed(loc[t])
         /\ Called(t, loc[t], req[t])
         /\ loc[t].at \in Inside => Busy(loc[t], req[t], tmp)
<1>1. TypeOK /\ Called(t, loc[t], req[t]) /\ (loc[t].at \in Inside => Busy(loc[t], req[t], tmp))
  BY Zenon DEF IInv
<1>2. Data /\ DOMAIN loc = Thread /\ DOMAIN req = Thread /\ loc[t] \in Locals
  BY <1>1, Zenon DEF TypeOK, Data
<1>. QED  BY <1>1, <1>2, LocalsTyped, Zenon

(* The types of the arguments of a call.                                   *)
LEMMA RequestTyped ==
  ASSUME NEW t \in Thread, NEW r \in Requests[t]
  PROVE  /\ r \in Request
         /\ r.op \in Functions /\ r.as \in AS /\ r.src \in AS /\ r.lo \in Page
         /\ r.hi \in 0..Size /\ r.n \in Page /\ r.n # 0 /\ r.pg \in Page /\ r.pf \in Frame
<1>1. r \in Request
  BY VmemAssumption, Zenon DEF VmemAssumption
<1>. QED  BY <1>1, Zenon DEF Request

(* The kernel's semaphore lets one thread in.                              *)
LEMMA Alone ==
  ASSUME IInv, NEW t \in Thread, loc[t].at \in Inside,
         NEW u \in Thread, u # t
  PROVE  loc[u].at \notin Inside
BY Zenon DEF IInv, Locked

(* Only one thread is inside: it has every page that is mapped and not     *)
(* lost.                                                                   *)
LEMMA Mine ==
  ASSUME IInv, NEW t \in Thread, loc[t].at \in Inside,
         NEW s \in Slot, tmp[s] # Absent
  PROVE  s \in lost \/ Holds(loc[t], s)
<1>1. ASSUME NEW u \in Thread, Holds(loc[u], s)  PROVE loc[u].at \in Inside
  BY <1>1, Zenon DEF Holds, Inside, Points
<1>2. \A u \in Thread : Holds(loc[u], s) => u = t
  BY <1>1, Alone, Zenon
<1>. QED  BY <1>2, Zenon DEF IInv, Accounted

-----------------------------------------------------------------------------
(* A step of t preserves the invariant, if it does so for t.               *)

(* It is enough to look at the thread that takes the step, at the pages it *)
(* maps and unmaps, and at who is inside.                                  *)
LEMMA Framed ==
  ASSUME IInv, NEW t \in Thread, NEW k \in Locals, NEW q,
         loc' = [loc EXCEPT ![t] = k], req' = [req EXCEPT ![t] = q],
         q \in Requests[t] \union {None},
         Data', Locked', Called(t, k, q),
         k.at \in Inside => Busy(loc[t], req[t], tmp)',
         tmp' = tmp \/ loc[t].at \in Inside,
         lost \subseteq lost',
         \A s \in Slot : tmp'[s] # Absent =>
           \/ s \in lost'
           \/ Holds(k, s)
           \/ tmp[s] # Absent /\ ~Holds(loc[t], s)
  PROVE  IInv'
<1>1. /\ TypeOK /\ DOMAIN loc = Thread /\ DOMAIN req = Thread
  BY Known, Zenon DEF IInv
<1>2. /\ loc'[t] = k /\ req'[t] = q
      /\ \A u \in Thread \ {t} : loc'[u] = loc[u] /\ req'[u] = req[u]
      /\ DOMAIN loc' = Thread /\ DOMAIN req' = Thread
  BY <1>1, Zenon
<1>3. TypeOK'
  <2>1. \A u \in Thread : req'[u] \in Requests[u] \union {None} /\ loc'[u] \in Locals
    BY <1>1, <1>2, Zenon DEF TypeOK
  <2>2. \A u \in Thread : req'[u] \in Request \union {None}
    BY <2>1, RequestTyped, Zenon
  <2>3. /\ req' = [u \in Thread |-> req'[u]] /\ loc' = [u \in Thread |-> loc'[u]]
    BY <1>1, <1>2, Zenon
  <2>4. req' \in [Thread -> Request \union {None}] /\ loc' \in [Thread -> Locals]
    BY <2>1, <2>2, <2>3, Zenon
  <2>. QED  BY <2>1, <2>4, Zenon DEF TypeOK, Data
<1>4. (\A u \in Thread : Called(u, loc[u], req[u]))'
  <2>1. \A u \in Thread : Called(u, loc'[u], req'[u])
    BY <1>2, Zenon DEF IInv
  <2>. QED  BY <2>1, Zenon
<1>5. (\A u \in Thread : loc[u].at \in Inside => Busy(loc[u], req[u], tmp))'
  <2>1. ASSUME NEW u \in Thread, u # t, loc'[u].at \in Inside
        PROVE  Busy(loc[u], req[u], tmp)'
    <3>1. loc'[u] = loc[u] /\ req'[u] = req[u] /\ loc[u].at \in Inside
      BY <1>2, <2>1, Zenon
    <3>2. tmp' = tmp
      BY <3>1, <2>1, Alone, Zenon
    <3>3. Busy(loc[u], req[u], tmp)
      BY <3>1, Zenon DEF IInv
    <3>. QED  BY <3>1, <3>2, <3>3, Zenon
  <2>. QED  BY <2>1, <1>2, Zenon
<1>6. Accounted'
  <2>1. ASSUME NEW s \in Slot, tmp'[s] # Absent
        PROVE  s \in lost' \/ \E u \in Thread : Holds(loc'[u], s)
    <3>1. CASE tmp[s] # Absent /\ ~Holds(loc[t], s)
      BY <3>1, <1>2, Zenon DEF IInv, Accounted
    <3>. QED  BY <2>1, <3>1, <1>2, Zenon
  <2>. QED  BY <2>1, Zenon DEF Accounted, Holds
<1>. QED  BY <1>3, <1>4, <1>5, <1>6, Zenon DEF IInv

(* The same, inside the kernel's semaphore.                                *)
LEMMA InsideStep ==
  ASSUME IInv, NEW t \in Thread, NEW c, Goes(t, c), req' = req, sem' = sem,
         loc[t].at \in Inside, loc'[t].at \in Inside, Data', Typed(loc'[t]),
         Busy(loc[t], req[t], tmp)',
         lost \subseteq lost',
         \A s \in Slot : tmp'[s] # Absent =>
           s \in lost' \/ Holds(loc'[t], s) \/ (tmp[s] # Absent /\ ~Holds(loc[t], s))
  PROVE  IInv'
<1>. DEFINE k == With(loc[t], c)
<1>1. /\ DOMAIN loc = Thread /\ DOMAIN req = Thread /\ loc[t] \in Locals
      /\ Called(t, loc[t], req[t])
  BY Known, Zenon
<1>2. loc' = [loc EXCEPT ![t] = k]
  BY Zenon DEF Goes
<1>3. loc'[t] = k
  BY <1>1, <1>2, Zenon
<1>4. req' = [req EXCEPT ![t] = req[t]]
  <2>1. req \in [Thread -> Request \union {None}]
    BY Zenon DEF IInv, TypeOK
  <2>. QED  BY <2>1, Zenon
<1>5. k \in Locals
  BY <1>1, <1>3, WithTyped, Zenon
<1>6. req[t] \in Requests[t] /\ Called(t, k, req[t])
  BY <1>1, <1>3, Zenon DEF Called, Inside
<1>7. Locked'
  <2>1. \A u \in Thread : loc'[u].at \in Inside => loc[u].at \in Inside
    BY <1>1, <1>2, Zenon
  <2>. QED  BY <2>1, Zenon DEF IInv, Locked
<1>8. \A s \in Slot : tmp'[s] # Absent =>
        s \in lost' \/ Holds(k, s) \/ (tmp[s] # Absent /\ ~Holds(loc[t], s))
  BY <1>3, Zenon
<1>9. req[t] \in Requests[t] \union {None}
  BY <1>6, Zenon
<1>. HIDE DEF k
<1>. QED  BY <1>2, <1>4, <1>5, <1>6, <1>7, <1>8, <1>9, Framed, Zenon

(* The local variables of t after Goes.                                    *)
LEMMA GoesFields ==
  ASSUME IInv, NEW t \in Thread, NEW c, Goes(t, c)
  PROVE  /\ \A x \in Names : loc'[t][x] = IF x \in DOMAIN c THEN c[x] ELSE loc[t][x]
         /\ loc' = [loc EXCEPT ![t] = loc'[t]]
<1>1. DOMAIN loc = Thread /\ loc[t] \in Locals
  BY Known, Zenon
<1>2. loc' = [loc EXCEPT ![t] = With(loc[t], c)]
  BY Zenon DEF Goes
<1>3. loc'[t] = With(loc[t], c)
  BY <1>1, <1>2, Zenon
<1>4. loc' = [loc EXCEPT ![t] = loc'[t]]
  BY <1>2, <1>3, Zenon
<1>5. \A x \in Names : loc'[t][x] = IF x \in DOMAIN c THEN c[x] ELSE loc[t][x]
  <2>1. \A x \in Names : With(loc[t], c)[x] = IF x \in DOMAIN c THEN c[x] ELSE loc[t][x]
    BY <1>1, WithFields, Zenon
  <2>. QED  BY <1>3, <2>1, Zenon
<1>. QED  BY <1>4, <1>5, Zenon

(* The local variables between calls.                                      *)
LEMMA IdlingTyped ==
  ASSUME NEW c, NEW k, k = With(Idling, [ret |-> c]), c \in Nat \union {Error}
  PROVE  /\ Idling \in Locals /\ Idling.at = "out" /\ Idling.slot = -1 /\ Idling.ret = Error
         /\ k \in Locals /\ k.at = "out" /\ k.slot = -1 /\ k.ret = c
<1>1. /\ 0 \in 0..(2 * Size) /\ 0 \in 0..Size /\ 0 \in 0..NTables /\ 0 \in Frame
      /\ 0 \in 0..NFrames
  BY Constants DEF Frame
<1>2. "out" \in Points /\ FALSE \in BOOLEAN /\ -1 \in Slot \union {-1}
  BY Zenon DEF Points
<1>3. Error \in Nat \union {Error}
  BY Zenon
<1>4. Idling \in Locals
  BY <1>1, <1>2, <1>3, Zenon DEF Idling, Locals
<1>5. Idling.at = "out" /\ Idling.slot = -1 /\ Idling.ret = Error
  BY Zenon DEF Idling
<1>6. \A x \in Names : k[x] = IF x \in DOMAIN [ret |-> c] THEN [ret |-> c][x] ELSE Idling[x]
  <2>1. \A x \in Names :
          With(Idling, [ret |-> c])[x] = IF x \in DOMAIN [ret |-> c] THEN [ret |-> c][x] ELSE Idling[x]
    BY <1>4, WithFields, Zenon
  <2>. QED  BY <2>1, Zenon
<1>7. k.ret = c
  BY <1>6, Zenon DEF Names
<1>8. \A x \in Names \ {"ret"} : k[x] = Idling[x]
  BY <1>6, Zenon
<1>9. /\ k.at = Idling.at /\ k.finding = Idling.finding /\ k.fresh = Idling.fresh
      /\ k.beg = Idling.beg /\ k.pg = Idling.pg /\ k.n = Idling.n /\ k.tab = Idling.tab
      /\ k.tabs = Idling.tabs /\ k.nempty = Idling.nempty /\ k.slot = Idling.slot
      /\ k.table = Idling.table /\ k.sslot = Idling.sslot /\ k.stable = Idling.stable
      /\ k.pf = Idling.pf
  BY <1>8, Zenon DEF Names
<1>10. Typed(k)
  BY <1>4, <1>7, <1>9, LocalsTyped, Zenon DEF Typed
<1>. QED  BY <1>4, <1>5, <1>7, <1>9, <1>10, WithTyped, Zenon

(* Nobody is inside and nothing is mapped.                                 *)
LEMMA InitIInv == Init => IInv
<1>. SUFFICES ASSUME Init  PROVE IInv
  BY Zenon
<1>0. Error \in Nat \union {Error}
  BY Zenon
<1>1. Idling \in Locals /\ Idling.at = "out" /\ Idling.slot = -1 /\ Idling.ret = Error
  BY <1>0, IdlingTyped, Zenon
<1>2. \A t \in Thread : loc[t] = Idling /\ req[t] = None
  BY Zenon DEF Init
<1>3. TypeOK
  <2>1. /\ InitPd \in [AS -> [Table -> Frame]] /\ InitPt \in [Frame -> [Entry -> Frame]]
        /\ InitRef \in [Frame -> 0..RefMax]
    BY VmemAssumption, Zenon DEF VmemAssumption
  <2>2. tmp \in [Slot -> Frame \union {Absent}] /\ sem \in [AS -> Thread \union {None}]
    BY Zenon DEF Init
  <2>3. /\ req \in [Thread -> Request \union {None}] /\ loc \in [Thread -> Locals]
        /\ \A t \in Thread : req[t] \in Requests[t] \union {None}
    BY <1>1, <1>2, Zenon DEF Init
  <2>. QED  BY <2>1, <2>2, <2>3, Zenon DEF Init, TypeOK
<1>4. "out" \notin Inside
  BY Zenon DEF Inside
<1>5. Locked /\ \A t \in Thread : loc[t].at \in Inside => Busy(loc[t], req[t], tmp)
  BY <1>1, <1>2, <1>4, Zenon DEF Locked
<1>6. \A t \in Thread : Called(t, loc[t], req[t])
  BY <1>1, <1>2, Zenon DEF Called
<1>7. Accounted
  BY Zenon DEF Init, Accounted
<1>. QED  BY <1>3, <1>5, <1>6, <1>7, Zenon DEF IInv

-----------------------------------------------------------------------------
(* The steps outside of the semaphore.                                     *)

(* t stays outside of the semaphore, and what the semaphore protects       *)
(* stays.                                                                  *)
LEMMA OutsideStep ==
  ASSUME IInv, NEW t \in Thread, NEW k \in Locals, NEW q,
         loc' = [loc EXCEPT ![t] = k], req' = [req EXCEPT ![t] = q],
         q \in Requests[t] \union {None}, Called(t, k, q),
         loc[t].at \notin Inside, k.at \notin Inside,
         Data', sem' = sem, tmp' = tmp, lost' = lost
  PROVE  IInv'
<1>1. DOMAIN loc = Thread
  BY Known, Zenon
<1>2. Locked'
  <2>1. \A u \in Thread : loc'[u].at \in Inside => loc[u].at \in Inside
    BY <1>1, Zenon
  <2>. QED  BY <2>1, Zenon DEF IInv, Locked
<1>3. ASSUME NEW s \in Slot  PROVE ~Holds(loc[t], s)
  BY Zenon DEF Holds, Inside, Points
<1>4. /\ lost \subseteq lost'
      /\ \A s \in Slot : tmp'[s] # Absent =>
           s \in lost' \/ Holds(k, s) \/ (tmp[s] # Absent /\ ~Holds(loc[t], s))
  BY <1>3, Zenon
<1>. QED  BY <1>2, <1>4, Framed, Zenon

(* A call keeps the page that was found before.                            *)
LEMMA CallStep ==
  ASSUME IInv, NEW t \in Thread, Call(t)
  PROVE  IInv'
<1>. DEFINE l == loc[t]
            k == loc'[t]
<1>1. l \in Locals /\ Typed(l) /\ Called(t, l, req[t]) /\ Data
  BY Known, Zenon
<1>2. PICK r \in Requests[t] :
        /\ r.op = "map_at" => l.ret # Error
        /\ req' = [req EXCEPT ![t] = r]
        /\ Goes(t, [at |-> "enter", pf |-> r.pf])
  BY Zenon DEF Call
<1>3. l.at = "out" /\ UNCHANGED <<ref, pt, pd, tmp, sem, lost>>
  BY Zenon DEF Call, Runs, At
<1>4. /\ \A x \in Names : k[x] = IF x \in DOMAIN [at |-> "enter", pf |-> r.pf]
                                 THEN [at |-> "enter", pf |-> r.pf][x] ELSE l[x]
      /\ loc' = [loc EXCEPT ![t] = k]
  BY <1>2, GoesFields, Zenon
<1>5. /\ k.at = "enter" /\ k.finding = l.finding /\ k.fresh = l.fresh /\ k.beg = l.beg
      /\ k.pg = l.pg /\ k.n = l.n /\ k.tab = l.tab /\ k.tabs = l.tabs
      /\ k.nempty = l.nempty /\ k.slot = l.slot /\ k.table = l.table
      /\ k.sslot = l.sslot /\ k.stable = l.stable /\ k.pf = r.pf /\ k.ret = l.ret
  BY <1>4, Zenon DEF Names
<1>6. r.pf \in 0..NFrames
  BY RequestTyped, Constants DEF Frame
<1>7. Typed(k)
  BY <1>1, <1>5, <1>6, Zenon DEF Typed, Points
<1>8. k \in Locals
  <2>1. k = With(l, [at |-> "enter", pf |-> r.pf])
    BY <1>2, Known, Zenon DEF Goes
  <2>. QED  BY <1>1, <1>7, <2>1, WithTyped, Zenon
<1>9. Called(t, k, r)
  BY <1>1, <1>2, <1>3, <1>5, Zenon DEF Called
<1>10. l.at \notin Inside /\ k.at \notin Inside /\ r \in Requests[t] \union {None}
  BY <1>2, <1>3, <1>5, Zenon DEF Inside
<1>11. Data'
  BY <1>1, <1>3, Zenon DEF Data
<1>. HIDE DEF k
<1>. QED  BY <1>2, <1>3, <1>4, <1>8, <1>9, <1>10, <1>11, OutsideStep, Zenon

(* vmem_init_from_parent is done.                                          *)
LEMMA ShareStep ==
  ASSUME IInv, NEW t \in Thread, Share(t)
  PROVE  IInv'
<1>1. Data /\ Called(t, loc[t], req[t])
  BY Known, Zenon
<1>2. /\ loc[t].at = "share" /\ UNCHANGED <<ref, pt, tmp, sem, lost>>
      /\ pd' = [pd EXCEPT ![req[t].src] = SharedFrom(req[t].as)]
      /\ loc' = [loc EXCEPT ![t] = Idling] /\ req' = [req EXCEPT ![t] = None]
  BY Zenon DEF Share, Runs, At
<1>3. req[t] \in Requests[t]
  BY <1>1, <1>2, Zenon DEF Called
<1>4. req[t].src \in AS /\ req[t].as \in AS
  BY <1>3, RequestTyped, Zenon
<1>5. pd' \in [AS -> [Table -> Frame]]
  <2>1. 0 \in Frame /\ pd \in [AS -> [Table -> Frame]]
    BY <1>1, Constants DEF Data, Frame
  <2>2. SharedFrom(req[t].as) \in [Table -> Frame]
    BY <1>4, <2>1, Zenon DEF SharedFrom
  <2>. QED  BY <1>2, <2>1, <2>2, Zenon
<1>6. Data'
  BY <1>1, <1>2, <1>5, Zenon DEF Data
<1>7. Error \in Nat \union {Error}
  BY Zenon
<1>8. Idling \in Locals /\ Idling.at = "out" /\ Idling.slot = -1 /\ Idling.ret = Error
  BY <1>7, IdlingTyped, Zenon
<1>9. Called(t, Idling, None)
  BY <1>8, Zenon DEF Called
<1>10. loc[t].at \notin Inside /\ Idling.at \notin Inside /\ None \in Requests[t] \union {None}
  BY <1>2, <1>8, Zenon DEF Inside
<1>. QED  BY <1>2, <1>6, <1>8, <1>9, <1>10, OutsideStep, Zenon

(* Who leaves has nothing mapped that is not lost.                         *)
LEMMA LeaveFramed ==
  ASSUME IInv, NEW t \in Thread, Leave(t), NEW j \in Locals, NEW q,
         j.at \notin Inside, Called(t, j, q), q \in Requests[t] \union {None},
         loc' = [loc EXCEPT ![t] = j], req' = [req EXCEPT ![t] = q]
  PROVE  IInv'
<1>1. Data /\ DOMAIN loc = Thread
  BY Known, Zenon
<1>2. /\ loc[t].at = "leave" /\ UNCHANGED <<ref, pt, pd, tmp, lost>>
      /\ sem' = [a \in AS |-> IF sem[a] = t THEN None ELSE sem[a]]
  BY Zenon DEF Leave, Runs, At
<1>3. loc[t].at \in Inside
  BY <1>2, Zenon DEF Inside, Points
<1>4. Data'
  <2>1. sem' \in [AS -> Thread \union {None}]
    BY <1>1, <1>2, Zenon DEF Data
  <2>. QED  BY <1>1, <1>2, <2>1, Zenon DEF Data
<1>5. \A s \in Slot : ~Holds(loc[t], s)
  BY <1>2, Zenon DEF Holds
<1>6. Locked'
  BY <1>1, <1>3, Alone, Zenon DEF Locked
<1>7. /\ lost \subseteq lost'
      /\ \A s \in Slot : tmp'[s] # Absent =>
           s \in lost' \/ Holds(j, s) \/ (tmp[s] # Absent /\ ~Holds(loc[t], s))
  BY <1>2, <1>5, Zenon
<1>. QED  BY <1>2, <1>3, <1>4, <1>6, <1>7, Framed, Zenon

(* A page that was found has room for what is mapped there later.          *)
LEMMA LeaveStep ==
  ASSUME IInv, PagesExist, NEW t \in Thread, Leave(t)
  PROVE  IInv'
<1>. DEFINE l == loc[t]
            k == loc'[t]
            r == req[t]
<1>1. /\ Data /\ DOMAIN loc = Thread /\ DOMAIN req = Thread /\ l \in Locals /\ Typed(l)
      /\ Called(t, l, r) /\ (l.at \in Inside => Busy(l, r, tmp))
  BY Known, Zenon
<1>2. l.at = "leave"
  BY Zenon DEF Leave, Runs, At
<1>3. r \in Requests[t] /\ l.at \in Inside /\ Busy(l, r, tmp)
  BY <1>1, <1>2, Zenon DEF Called, Inside, Points
<1>4. CASE r.op = "init" /\ l.ret # Error
  <2>1. Goes(t, [at |-> "share"]) /\ req' = req
    BY <1>4, Zenon DEF Leave
  <2>2. /\ \A x \in Names : k[x] = IF x \in DOMAIN [at |-> "share"]
                                   THEN [at |-> "share"][x] ELSE l[x]
        /\ loc' = [loc EXCEPT ![t] = k]
    BY <2>1, GoesFields, Zenon
  <2>3. /\ k.at = "share" /\ k.finding = l.finding /\ k.fresh = l.fresh /\ k.beg = l.beg
        /\ k.pg = l.pg /\ k.n = l.n /\ k.tab = l.tab /\ k.tabs = l.tabs
        /\ k.nempty = l.nempty /\ k.slot = l.slot /\ k.table = l.table
        /\ k.sslot = l.sslot /\ k.stable = l.stable /\ k.pf = l.pf /\ k.ret = l.ret
    BY <2>2, Zenon DEF Names
  <2>4. Typed(k)
    BY <1>1, <2>3, Zenon DEF Typed, Points
  <2>5. k \in Locals
    <3>1. k = With(l, [at |-> "share"])
      BY <2>1, <1>1, Zenon DEF Goes
    <3>. QED  BY <1>1, <2>4, <3>1, WithTyped, Zenon
  <2>6. Called(t, k, r) /\ r \in Requests[t] \union {None} /\ k.at \notin Inside
    BY <1>3, <2>3, Zenon DEF Called, Inside
  <2>7. req' = [req EXCEPT ![t] = r]
    <3>1. req \in [Thread -> Request \union {None}]
      BY Zenon DEF IInv, TypeOK
    <3>. QED  BY <2>1, <3>1, Zenon
  <2>. HIDE DEF k
  <2>. QED  BY <2>2, <2>5, <2>6, <2>7, LeaveFramed, Zenon
<1>5. CASE ~(r.op = "init" /\ l.ret # Error)
  <2>1. loc' = [loc EXCEPT ![t] = Returned(t)] /\ req' = [req EXCEPT ![t] = None]
    BY <1>5, Zenon DEF Leave
  <2>2. PICK c : c = IF r.op = "empty" THEN l.ret ELSE Error
    BY Zenon
  <2>3. c \in Nat \union {Error}
    BY <1>1, <2>2, Zenon DEF Typed
  <2>4. /\ Returned(t) \in Locals /\ Returned(t).at = "out" /\ Returned(t).slot = -1
        /\ Returned(t).ret = c
    <3>1. Returned(t) = With(Idling, [ret |-> c])
      BY <2>2, Zenon DEF Returned
    <3>. QED  BY <2>3, <3>1, IdlingTyped, Zenon
  <2>5. ASSUME c # Error  PROVE Roomy(t, c)
    <3>1. r.op = "empty" /\ c = l.ret /\ l.ret # Error
      BY <2>2, <2>5, Zenon
    <3>2. l.ret + r.n <= Size /\ l.ret \in Nat
      BY <1>1, <1>2, <1>3, <3>1, Zenon DEF Busy, Typed
    <3>3. ASSUME NEW m \in Requests[t], m.op = "map_at"  PROVE c + m.n <= Size
      <4>1. m.n <= r.n
        BY <1>3, <3>1, <3>3, Zenon DEF PagesExist
      <4>2. m.n \in Page /\ r.n \in Page
        BY <1>3, <3>3, RequestTyped, Zenon
      <4>. QED  BY <3>1, <3>2, <4>1, <4>2, Constants DEF Page
    <3>. QED  BY <3>3, Zenon DEF Roomy
  <2>6. Called(t, Returned(t), None)
    BY <2>4, <2>5, Zenon DEF Called
  <2>7. None \in Requests[t] \union {None} /\ Returned(t).at \notin Inside
    BY <2>4, Zenon DEF Inside
  <2>. QED  BY <2>1, <2>4, <2>6, <2>7, LeaveFramed, Zenon
<1>. QED  BY <1>4, <1>5, Zenon

(* The local variables at the beginning of a walk.                         *)
LEMMA WalkFields ==
  ASSUME IInv, NEW t \in Thread, NEW finding \in BOOLEAN, NEW p \in Nat, NEW n \in Nat,
         n > 0, p + n <= Size, Goes(t, Walk(finding, p, n))
  PROVE  /\ loc'[t].at = "table" /\ loc'[t].finding = finding
         /\ loc'[t].pg = p /\ loc'[t].n = n /\ loc'[t].nempty = 0 /\ loc'[t].ret = p
         /\ loc'[t].beg = loc[t].beg /\ loc'[t].slot = loc[t].slot
         /\ loc'[t].tab + loc'[t].tabs <= NTables /\ Span(loc'[t].tabs) <= Size
         /\ Typed(loc'[t])
<1>. DEFINE l == loc[t]
            k == loc'[t]
            c == Walk(finding, p, n)
<1>1. DOMAIN c = {"at", "finding", "pg", "n", "tab", "tabs", "nempty", "ret"}
  BY Zenon DEF Walk
<1>2. /\ c.at = "table" /\ c.finding = finding /\ c.pg = p /\ c.n = n /\ c.nempty = 0
      /\ c.ret = p /\ c.tab = p \div NEntries
      /\ c.tabs = 1 + (p + n - 1) \div NEntries - p \div NEntries
  BY Zenon DEF Walk
<1>3. \A x \in Names : k[x] = IF x \in DOMAIN c THEN c[x] ELSE l[x]
  BY GoesFields, Zenon
<1>. HIDE DEF c
<1>4. /\ k.at = c.at /\ k.finding = c.finding /\ k.fresh = l.fresh /\ k.beg = l.beg
      /\ k.pg = c.pg /\ k.n = c.n /\ k.tab = c.tab /\ k.tabs = c.tabs
      /\ k.nempty = c.nempty /\ k.slot = l.slot /\ k.table = l.table
      /\ k.sslot = l.sslot /\ k.stable = l.stable /\ k.pf = l.pf /\ k.ret = c.ret
  BY <1>1, <1>3, Zenon DEF Names
<1>5. c.tab \in Table /\ c.tabs \in 1..NTables /\ c.tab + c.tabs <= NTables
  BY <1>2, WalkFits, Zenon
<1>6. c.tab \in 0..NTables /\ c.tabs \in 0..NTables /\ c.tabs \in Nat /\ c.tabs <= NTables
  BY <1>5, Constants DEF Table
<1>7. Span(c.tabs) <= Size
  BY <1>6, Spans, Constants, Zenon
<1>8. p \in 0..Size /\ n \in 0..Size /\ 0 \in 0..Size
  BY Constants
<1>9. Typed(l)
  BY Known, Zenon
<1>10. Typed(k)
  BY <1>2, <1>4, <1>6, <1>8, <1>9, Zenon DEF Typed, Points
<1>. QED  BY <1>2, <1>4, <1>5, <1>7, <1>10, Zenon

(* t has entered a semaphore.                                              *)
LEMMA EnterFramed ==
  ASSUME IInv, NEW t \in Thread, NEW a \in AS, NEW k \in Locals,
         loc[t].at = "enter", sem[a] = None, sem' = [sem EXCEPT ![a] = t],
         loc' = [loc EXCEPT ![t] = k], UNCHANGED <<ref, pt, pd, tmp, req, lost>>,
         Called(t, k, req[t]),
         k.at \in Inside => sem'[Kernel] = t /\ Busy(k, req[t], tmp)
  PROVE  IInv'
<1>1. /\ Data /\ DOMAIN loc = Thread /\ req \in [Thread -> Request \union {None}]
      /\ Called(t, loc[t], req[t])
  BY Known, Zenon DEF IInv, TypeOK
<1>2. req' = [req EXCEPT ![t] = req[t]] /\ req[t] \in Requests[t] \union {None}
  <2>1. req[t] \in Requests[t] \union {None}
    BY <1>1, Zenon DEF Called
  <2>2. req' = [req EXCEPT ![t] = req[t]]
    BY <1>1, Zenon
  <2>. QED  BY <2>1, <2>2, Zenon
<1>3. Data'
  <2>1. sem' \in [AS -> Thread \union {None}]
    BY <1>1, Zenon DEF Data
  <2>. QED  BY <1>1, <2>1, Zenon DEF Data
<1>4. loc'[t] = k /\ \A u \in Thread \ {t} : loc'[u] = loc[u]
  BY <1>1, Zenon
<1>5. Locked'
  <2>1. ASSUME NEW u \in Thread, u # t, loc'[u].at \in Inside  PROVE sem'[Kernel] = u
    <3>1. sem[Kernel] = u
      BY <1>4, <2>1, Zenon DEF IInv, Locked
    <3>2. a # Kernel
      BY <3>1, <2>1, Constants, Zenon
    <3>. QED  BY <1>1, <3>1, <3>2, Constants, Zenon DEF Data
  <2>. QED  BY <2>1, <1>4, Zenon DEF Locked
<1>6. k.at \in Inside => Busy(loc[t], req[t], tmp)'
  BY <1>4, Zenon DEF Busy
<1>7. \A s \in Slot : ~Holds(loc[t], s)
  BY Zenon DEF Holds
<1>8. /\ lost \subseteq lost'
      /\ \A s \in Slot : tmp'[s] # Absent =>
           s \in lost' \/ Holds(k, s) \/ (tmp[s] # Absent /\ ~Holds(loc[t], s))
  BY <1>7, Zenon
<1>9. tmp' = tmp \/ loc[t].at \in Inside
  BY Zenon
<1>. QED  BY <1>2, <1>3, <1>5, <1>6, <1>8, <1>9, Framed, Zenon

(* Who has entered all semaphores is inside, at the start of a walk, a     *)
(* search or a look-up.                                                    *)
LEMMA EnterStep ==
  ASSUME IInv, KernelLocked, PagesExist, NEW t \in Thread, Enter(t)
  PROVE  IInv'
<1>. DEFINE l == loc[t]
            k == loc'[t]
            r == req[t]
            ahead == {a \in Spaces(req[t]) : sem[a] # t}
<1>1. /\ Data /\ DOMAIN loc = Thread /\ l \in Locals /\ Typed(l) /\ Called(t, l, r)
      /\ loc \in [Thread -> Locals]
  BY Known, Zenon DEF IInv, TypeOK
<1>2. l.at = "enter" /\ UNCHANGED <<ref, pt, pd, tmp, req, lost>>
  BY Zenon DEF Enter, Runs, At
<1>3. r \in Requests[t] /\ l.slot = -1 /\ l.at \notin Inside
  BY <1>1, <1>2, Zenon DEF Called, Inside
<1>4. /\ r.op \in Functions /\ r.as \in AS /\ r.src \in AS /\ r.lo \in Page
      /\ r.n \in Page /\ r.n # 0
  BY <1>3, RequestTyped, Zenon
<1>5. PICK a \in ahead :
        /\ sem[a] = None /\ sem' = [sem EXCEPT ![a] = t]
        /\ IF ahead = {a} THEN Goes(t, Entered(t, req[t])) ELSE UNCHANGED loc
  BY Zenon DEF Enter
<1>6. a \in AS
  BY <1>4, <1>5, Zenon DEF Spaces
<1>7. CASE ahead # {a}
  <2>1. loc' = [loc EXCEPT ![t] = l]
    BY <1>1, <1>5, <1>7, Zenon
  <2>. QED  BY <1>1, <1>2, <1>3, <1>5, <1>6, <2>1, EnterFramed, Zenon
<1>8. CASE ahead = {a}
  <2>1. sem'[Kernel] = t
    <3>1. Kernel \in Spaces(r) /\ Kernel \in AS /\ sem \in [AS -> Thread \union {None}]
      BY <1>1, <1>3, Constants, Zenon DEF KernelLocked, Data
    <3>2. sem[Kernel] = t \/ Kernel = a
      BY <1>8, <3>1, Zenon
    <3>. QED  BY <1>5, <3>1, <3>2, Zenon
  <2>2. ASSUME NEW c, Goes(t, c), k.at \in Inside, Typed(k), Busy(k, r, tmp)
        PROVE  IInv'
    <3>1. k = With(l, c) /\ loc' = [loc EXCEPT ![t] = k]
      BY <1>1, <2>2, GoesFields, Zenon DEF Goes
    <3>2. k \in Locals
      BY <1>1, <2>2, <3>1, WithTyped, Zenon
    <3>3. Called(t, k, r)
      BY <1>3, <2>2, Zenon DEF Called, Inside
    <3>. HIDE DEF k
    <3>. QED  BY <1>2, <1>5, <1>6, <2>1, <2>2, <3>1, <3>2, <3>3, EnterFramed, Zenon
  <2>3. Goes(t, Entered(t, r))
    BY <1>5, <1>8, Zenon
  <2>4. CASE r.op \in Searches
    <3>1. Goes(t, [at |-> "search", beg |-> r.lo])
      BY <2>3, <2>4, Zenon DEF Entered
    <3>2. \A x \in Names : k[x] = IF x \in DOMAIN [at |-> "search", beg |-> r.lo]
                                  THEN [at |-> "search", beg |-> r.lo][x] ELSE l[x]
      BY <3>1, GoesFields, Zenon
    <3>3. /\ k.at = "search" /\ k.finding = l.finding /\ k.fresh = l.fresh
          /\ k.beg = r.lo /\ k.pg = l.pg /\ k.n = l.n /\ k.tab = l.tab
          /\ k.tabs = l.tabs /\ k.nempty = l.nempty /\ k.slot = l.slot
          /\ k.table = l.table /\ k.sslot = l.sslot /\ k.stable = l.stable
          /\ k.pf = l.pf /\ k.ret = l.ret
      BY <3>2, Zenon DEF Names
    <3>4. r.lo \in 0..(2 * Size)
      BY <1>4, Constants DEF Page
    <3>5. Typed(k)
      BY <1>1, <3>3, <3>4, Zenon DEF Typed, Points
    <3>6. k.at \in Inside /\ Busy(k, r, tmp)
      BY <1>3, <2>4, <3>3, Zenon DEF Inside, Points, Busy, Sourcing
    <3>. QED  BY <2>2, <3>1, <3>5, <3>6, Zenon
  <2>5. CASE r.op = "lookup"
    <3>0. r.op \notin Searches
      BY <2>5, Zenon DEF Searches
    <3>1. Goes(t, [at |-> "source"])
      BY <2>3, <2>5, <3>0, Zenon DEF Entered
    <3>2. \A x \in Names : k[x] = IF x \in DOMAIN [at |-> "source"]
                                  THEN [at |-> "source"][x] ELSE l[x]
      BY <3>1, GoesFields, Zenon
    <3>3. /\ k.at = "source" /\ k.finding = l.finding /\ k.fresh = l.fresh
          /\ k.beg = l.beg /\ k.pg = l.pg /\ k.n = l.n /\ k.tab = l.tab
          /\ k.tabs = l.tabs /\ k.nempty = l.nempty /\ k.slot = l.slot
          /\ k.table = l.table /\ k.sslot = l.sslot /\ k.stable = l.stable
          /\ k.pf = l.pf /\ k.ret = l.ret
      BY <3>2, Zenon DEF Names
    <3>4. Typed(k)
      BY <1>1, <3>3, Zenon DEF Typed, Points
    <3>5. k.at \in Inside /\ Busy(k, r, tmp)
      BY <1>3, <2>5, <3>3, Zenon DEF Inside, Points, Busy
    <3>. QED  BY <2>2, <3>1, <3>4, <3>5, Zenon
  <2>6. CASE r.op \notin Searches /\ r.op # "lookup"
    <3>1. PICK p : p = IF r.op = "map_at" THEN l.ret ELSE r.lo
      BY Zenon
    <3>2. Goes(t, Walk(FALSE, p, r.n))
      BY <2>3, <2>6, <3>1, Zenon DEF Entered
    <3>3. r.n \in Nat /\ r.n > 0
      BY <1>4, Constants DEF Page
    <3>4. p \in Nat /\ p + r.n <= Size
      <4>1. CASE r.op = "map_at"
        <5>1. l.ret # Error /\ l.ret \in Nat /\ Roomy(t, l.ret)
          BY <1>1, <1>2, <4>1, Zenon DEF Called, Typed
        <5>. QED  BY <1>3, <3>1, <4>1, <5>1, Zenon DEF Roomy
      <4>2. CASE r.op # "map_at"
        <5>1. r.op \in {"alloc_at", "alloc_frames"}
          BY <1>4, <2>6, <4>2, Zenon DEF Functions, Searches, Allocates, Maps
        <5>2. r.lo + r.n <= Size
          BY <1>3, <5>1, Zenon DEF PagesExist
        <5>3. r.lo \in Nat
          BY <1>4, Constants DEF Page
        <5>. QED  BY <3>1, <4>2, <5>2, <5>3, Zenon
      <4>. QED  BY <4>1, <4>2, Zenon
    <3>5. /\ k.at = "table" /\ k.finding = FALSE /\ k.pg = p /\ k.n = r.n /\ k.slot = l.slot
          /\ k.tab + k.tabs <= NTables /\ Typed(k)
      <4>1. PICK no \in BOOLEAN : no = FALSE
        BY Zenon
      <4>2. Goes(t, Walk(no, p, r.n))
        BY <3>2, <4>1, Zenon
      <4>3. /\ k.at = "table" /\ k.finding = no /\ k.pg = p /\ k.n = r.n /\ k.slot = l.slot
            /\ k.tab + k.tabs <= NTables /\ Typed(k)
        BY <3>3, <3>4, <4>2, WalkFields
      <4>. QED  BY <4>1, <4>3, Zenon
    <3>6. k.pg + k.n <= Size /\ k.finding = FALSE
      BY <3>4, <3>5, Zenon
    <3>7. k.at \in Inside /\ Busy(k, r, tmp)
      BY <1>3, <2>6, <3>5, <3>6, Zenon DEF Inside, Points, Busy, Walking, Counted, Sourcing
    <3>. QED  BY <2>2, <3>2, <3>5, <3>7, Zenon
  <2>. QED  BY <2>4, <2>5, <2>6, Zenon
<1>. QED  BY <1>7, <1>8, Zenon

-----------------------------------------------------------------------------
(* The steps inside the semaphore.                                         *)

(* What an error leaves mapped is lost.                                    *)
LEMMA FailsStep ==
  ASSUME IInv, NEW t \in Thread, Fails(t), loc[t].at \in Inside,
         req' = req, sem' = sem, Data',
         \A s \in Slot : tmp'[s] # Absent =>
           tmp[s] # Absent /\ (Holds(loc[t], s) => s = loc[t].slot)
  PROVE  IInv'
<1>. DEFINE l == loc[t]
            k == loc'[t]
<1>1. Typed(l) /\ Data
  BY Known, Zenon
<1>2. /\ Goes(t, [at |-> "leave", ret |-> Error])
      /\ lost' = IF l.slot = -1 THEN lost ELSE lost \union {l.slot}
  BY Zenon DEF Fails
<1>3. \A x \in Names : k[x] = IF x \in DOMAIN [at |-> "leave", ret |-> Error]
                              THEN [at |-> "leave", ret |-> Error][x] ELSE l[x]
  BY <1>2, GoesFields, Zenon
<1>4. /\ k.at = "leave" /\ k.finding = l.finding /\ k.fresh = l.fresh /\ k.beg = l.beg
      /\ k.pg = l.pg /\ k.n = l.n /\ k.tab = l.tab /\ k.tabs = l.tabs
      /\ k.nempty = l.nempty /\ k.slot = l.slot /\ k.table = l.table
      /\ k.sslot = l.sslot /\ k.stable = l.stable /\ k.pf = l.pf /\ k.ret = Error
  BY <1>3, Zenon DEF Names
<1>5. Typed(k) /\ k.at \in Inside
  BY <1>1, <1>4, Zenon DEF Typed, Points, Inside
<1>6. Busy(loc[t], req[t], tmp)'
  BY <1>4, Zenon DEF Busy, Sourcing
<1>7. lost \subseteq lost'
  BY <1>2, Zenon
<1>8. ASSUME NEW s \in Slot, tmp'[s] # Absent
      PROVE  s \in lost' \/ Holds(k, s) \/ (tmp[s] # Absent /\ ~Holds(l, s))
  <2>1. CASE Holds(l, s)
    <3>1. s = l.slot /\ s # -1
      BY <1>8, <2>1, Constants DEF Slot
    <3>. QED  BY <1>2, <3>1, Zenon
  <2>2. CASE ~Holds(l, s)
    BY <1>8, <2>2, Zenon
  <2>. QED  BY <2>1, <2>2, Zenon
<1>. QED  BY <1>2, <1>5, <1>6, <1>7, <1>8, InsideStep, Zenon

(* find_empty_pages looks at the next pages, or gives up.                  *)
LEMMA SearchStep ==
  ASSUME IInv, NEW t \in Thread, Search(t)
  PROVE  IInv'
<1>. DEFINE l == loc[t]
            k == loc'[t]
            r == req[t]
<1>1. /\ Data /\ l \in Locals /\ Typed(l) /\ Called(t, l, r)
      /\ (l.at \in Inside => Busy(l, r, tmp))
  BY Known, Zenon
<1>2. /\ l.at = "search" /\ UNCHANGED <<ref, pt, pd, tmp, sem, req>>
      /\ IF l.beg < r.hi /\ r.n < r.hi - l.beg
         THEN Goes(t, Walk(TRUE, l.beg, r.n)) /\ UNCHANGED lost
         ELSE Fails(t)
  BY Zenon DEF Search, Runs, At
<1>3. r \in Requests[t] /\ l.at \in Inside /\ l.slot = -1 /\ r.op \in Searches
  BY <1>1, <1>2, Zenon DEF Called, Busy, Inside, Points
<1>4. ASSUME NEW s \in Slot  PROVE ~Holds(l, s)
  BY <1>2, Zenon DEF Holds
<1>5. CASE ~(l.beg < r.hi /\ r.n < r.hi - l.beg)
  <2>1. Data'
    <3>1. lost' \subseteq Slot
      BY <1>2, <1>3, <1>5, <1>1, Zenon DEF Fails, Data
    <3>. QED  BY <1>1, <1>2, <3>1, Zenon DEF Data
  <2>. QED  BY <1>2, <1>3, <1>4, <1>5, <2>1, FailsStep, Zenon
<1>6. CASE l.beg < r.hi /\ r.n < r.hi - l.beg
  <2>1. l.beg \in Nat /\ r.n \in Nat /\ r.n > 0 /\ l.beg + r.n <= Size
    <3>1. r.n \in Page /\ r.n # 0 /\ r.hi \in 0..Size /\ l.beg \in 0..(2 * Size)
      BY <1>1, <1>3, RequestTyped, Zenon DEF Typed
    <3>. QED  BY <1>6, <3>1, Constants DEF Page
  <2>2. PICK yes \in BOOLEAN : yes = TRUE
    BY Zenon
  <2>3. Goes(t, Walk(yes, l.beg, r.n)) /\ UNCHANGED lost
    BY <1>2, <1>6, <2>2, Zenon
  <2>4. /\ k.at = "table" /\ k.finding = yes /\ k.pg = l.beg /\ k.n = r.n /\ k.nempty = 0
        /\ k.ret = l.beg /\ k.beg = l.beg /\ k.slot = l.slot
        /\ k.tab + k.tabs <= NTables /\ Span(k.tabs) <= Size
        /\ Typed(k)
    BY <2>1, <2>3, WalkFields
  <2>5. k.at \in Inside
    BY <2>4, Zenon DEF Inside, Points
  <2>6. k.pg + k.n <= Size
    BY <2>1, <2>4, Zenon
  <2>7. k.nempty + Span(k.tabs) <= Size
    <3>1. k.tabs \in Nat
      BY <2>4, Constants DEF Typed
    <3>2. Span(k.tabs) \in Nat
      BY <3>1, Spans, Zenon
    <3>. QED  BY <2>4, <3>2
  <2>8. r.op # "lookup"
    BY <1>3, Zenon DEF Searches
  <2>9. Busy(loc[t], req[t], tmp)'
    <3>1. Busy(k, r, tmp)
      BY <1>3, <2>1, <2>4, <2>6, <2>7, <2>8, Zenon DEF Busy, Walking, Counted, Sourcing
    <3>. QED  BY <1>2, <3>1, Zenon DEF Busy
  <2>10. Data'
    BY <1>1, <1>2, <2>3, Zenon DEF Data
  <2>11. /\ lost \subseteq lost'
         /\ \A s \in Slot : tmp'[s] # Absent =>
              s \in lost' \/ Holds(k, s) \/ (tmp[s] # Absent /\ ~Holds(l, s))
    BY <1>2, <1>4, <2>3, Zenon
  <2>. QED  BY <1>2, <1>3, <2>3, <2>4, <2>5, <2>9, <2>10, <2>11, InsideStep, Zenon
<1>. QED  BY <1>5, <1>6, Zenon

(* No temporary page is mapped or unmapped, and t has still what it had.   *)
LEMMA KeepStep ==
  ASSUME IInv, NEW t \in Thread, NEW c, Goes(t, c), req' = req, sem' = sem,
         tmp' = tmp, lost' = lost, Data',
         loc[t].at \in Inside, loc'[t].at \in Inside, Typed(loc'[t]), Busy(loc'[t], req[t], tmp),
         \A s \in Slot : Holds(loc[t], s) => Holds(loc'[t], s)
  PROVE  IInv'
<1>1. Busy(loc[t], req[t], tmp)'
  BY Zenon
<1>2. /\ lost \subseteq lost'
      /\ \A s \in Slot : tmp'[s] # Absent =>
           s \in lost' \/ Holds(loc'[t], s) \/ (tmp[s] # Absent /\ ~Holds(loc[t], s))
  BY Zenon
<1>. QED  BY <1>1, <1>2, InsideStep, Zenon

(* find_empty_pages goes on behind the pages in use, or has found its      *)
(* pages.                                                                  *)
LEMMA CheckedStep ==
  ASSUME IInv, NEW t \in Thread, Checked(t)
  PROVE  IInv'
<1>. DEFINE l == loc[t]
            k == loc'[t]
            r == req[t]
<1>1. /\ Data /\ l \in Locals /\ Typed(l) /\ Called(t, l, r)
      /\ (l.at \in Inside => Busy(l, r, tmp))
  BY Known, Zenon
<1>2. /\ l.at = "table" /\ l.finding
      /\ UNCHANGED <<ref, pt, pd, tmp, sem, req, lost>>
      /\ IF l.nempty # r.n THEN Goes(t, [at |-> "search", beg |-> l.beg + l.nempty + 1])
         ELSE IF r.op = "empty" THEN Goes(t, [at |-> "leave"])
         ELSE Goes(t, Walk(FALSE, l.beg, r.n))
  BY Zenon DEF Checked, Runs, At
<1>3. l.at \in Inside /\ r \in Requests[t] /\ Busy(l, r, tmp)
  BY <1>1, <1>2, Zenon DEF Called, Inside, Points
<1>4. /\ l.slot = -1 /\ r.op \in Searches /\ l.ret = l.beg /\ l.beg + r.n <= Size
  BY <1>2, <1>3, Zenon DEF Busy, Walking
<1>5. l.beg \in Nat /\ l.nempty \in 0..Size /\ r.n \in Nat /\ r.n > 0
  <2>1. r.n \in Page /\ r.n # 0 /\ l.beg \in 0..(2 * Size) /\ l.nempty \in 0..Size
    BY <1>1, <1>3, RequestTyped, Zenon DEF Typed
  <2>. QED  BY <2>1, Constants DEF Page
<1>6. \A s \in Slot : ~Holds(l, s)
  BY <1>2, Zenon DEF Holds
<1>7. Data'
  BY <1>1, <1>2, Zenon DEF Data
<1>8. r.op # "lookup"
  BY <1>4, Zenon DEF Searches
<1>9. CASE l.nempty # r.n
  <2>0. Goes(t, [at |-> "search", beg |-> l.beg + l.nempty + 1])
    BY <1>2, <1>9, Zenon
  <2>1. \A x \in Names : k[x] = IF x \in DOMAIN [at |-> "search", beg |-> l.beg + l.nempty + 1]
                             THEN [at |-> "search", beg |-> l.beg + l.nempty + 1][x] ELSE l[x]
    BY <2>0, GoesFields, Zenon
  <2>2. /\ k.at = "search" /\ k.finding = l.finding /\ k.fresh = l.fresh
        /\ k.beg = l.beg + l.nempty + 1 /\ k.pg = l.pg /\ k.n = l.n /\ k.tab = l.tab
        /\ k.tabs = l.tabs /\ k.nempty = l.nempty /\ k.slot = l.slot
        /\ k.table = l.table /\ k.sslot = l.sslot /\ k.stable = l.stable /\ k.pf = l.pf
        /\ k.ret = l.ret
    BY <2>1, Zenon DEF Names
  <2>3. l.beg + l.nempty + 1 \in 0..(2 * Size)
    BY <1>4, <1>5, Constants
  <2>4. Typed(k) /\ k.at \in Inside
    BY <1>1, <2>2, <2>3, Zenon DEF Typed, Points, Inside
  <2>5. Busy(k, r, tmp)
    BY <1>4, <2>2, Zenon DEF Busy, Sourcing
  <2>. QED  BY <1>2, <1>3, <1>6, <1>7, <2>0, <2>4, <2>5, KeepStep, Zenon
<1>10. CASE l.nempty = r.n /\ r.op = "empty"
  <2>0. Goes(t, [at |-> "leave"])
    BY <1>2, <1>10, Zenon
  <2>1. \A x \in Names : k[x] = IF x \in DOMAIN [at |-> "leave"]
                             THEN [at |-> "leave"][x] ELSE l[x]
    BY <2>0, GoesFields, Zenon
  <2>2. /\ k.at = "leave" /\ k.finding = l.finding /\ k.fresh = l.fresh /\ k.beg = l.beg
        /\ k.pg = l.pg /\ k.n = l.n /\ k.tab = l.tab /\ k.tabs = l.tabs
        /\ k.nempty = l.nempty /\ k.slot = l.slot /\ k.table = l.table
        /\ k.sslot = l.sslot /\ k.stable = l.stable /\ k.pf = l.pf /\ k.ret = l.ret
    BY <2>1, Zenon DEF Names
  <2>3. Typed(k) /\ k.at \in Inside
    BY <1>1, <2>2, Zenon DEF Typed, Points, Inside
  <2>4. Busy(k, r, tmp)
    BY <1>4, <2>2, Zenon DEF Busy, Sourcing
  <2>. QED  BY <1>2, <1>3, <1>6, <1>7, <2>0, <2>3, <2>4, KeepStep, Zenon
<1>11. CASE l.nempty = r.n /\ r.op # "empty"
  <2>1. PICK no \in BOOLEAN : no = FALSE
    BY Zenon
  <2>2. Goes(t, Walk(no, l.beg, r.n))
    BY <1>2, <1>11, <2>1, Zenon
  <2>3. /\ k.at = "table" /\ k.finding = no /\ k.pg = l.beg /\ k.n = r.n
        /\ k.ret = l.beg /\ k.beg = l.beg /\ k.slot = l.slot
        /\ k.tab + k.tabs <= NTables /\ Typed(k)
    BY <1>4, <1>5, <2>2, WalkFields
  <2>4. k.at \in Inside /\ k.pg + k.n <= Size
    BY <1>4, <2>3, Zenon DEF Points, Inside
  <2>5. Busy(k, r, tmp)
    BY <1>4, <1>8, <2>1, <2>3, <2>4, Zenon DEF Busy, Walking, Counted, Sourcing
  <2>. QED  BY <1>2, <1>3, <1>6, <1>7, <2>2, <2>3, <2>4, <2>5, KeepStep, Zenon
<1>. QED  BY <1>9, <1>10, <1>11, Zenon

(* The last page table is done.                                            *)
LEMMA DoneStep ==
  ASSUME IInv, NEW t \in Thread, Done(t)
  PROVE  IInv'
<1>. DEFINE l == loc[t]
            k == loc'[t]
            r == req[t]
<1>1. /\ Data /\ l \in Locals /\ Typed(l) /\ Called(t, l, r)
      /\ (l.at \in Inside => Busy(l, r, tmp))
  BY Known, Zenon
<1>2. /\ l.at = "table" /\ UNCHANGED <<ref, pt, pd, tmp, sem, req, lost>>
      /\ Goes(t, [at |-> "leave"])
  BY Zenon DEF Done, Runs, At
<1>3. l.at \in Inside /\ Busy(l, r, tmp)
  BY <1>1, <1>2, Zenon DEF Inside, Points
<1>4. \A x \in Names : k[x] = IF x \in DOMAIN [at |-> "leave"]
                            THEN [at |-> "leave"][x] ELSE l[x]
  BY <1>2, GoesFields, Zenon
<1>5. /\ k.at = "leave" /\ k.finding = l.finding /\ k.fresh = l.fresh /\ k.beg = l.beg
       /\ k.pg = l.pg /\ k.n = l.n /\ k.tab = l.tab /\ k.tabs = l.tabs
       /\ k.nempty = l.nempty /\ k.slot = l.slot /\ k.table = l.table
       /\ k.sslot = l.sslot /\ k.stable = l.stable /\ k.pf = l.pf /\ k.ret = l.ret
  BY <1>4, Zenon DEF Names
<1>6. Typed(k) /\ k.at \in Inside /\ Data'
  BY <1>1, <1>2, <1>5, Zenon DEF Typed, Points, Inside, Data
<1>7. Busy(k, r, tmp)
  <2>1. ASSUME r.op = "empty"  PROVE k.ret + r.n <= Size
    BY <1>2, <1>3, <1>5, <2>1, Zenon DEF Busy, Walking, Searches
  <2>. QED  BY <1>5, <2>1, Zenon DEF Busy, Sourcing
<1>8. \A s \in Slot : ~Holds(l, s)
  BY <1>2, Zenon DEF Holds
<1>. QED  BY <1>2, <1>3, <1>6, <1>7, <1>8, KeepStep, Zenon

-----------------------------------------------------------------------------
(* Page frames and temporary pages.                                        *)

(* pmem_alloc_frames never returns frame 0 as a success.                   *)
LEMMA FreeFrame ==
  ASSUME FreeFrames # {}
  PROVE  Lowest(FreeFrames) \in Frame /\ Lowest(FreeFrames) # 0
<1>1. FreeFrames \subseteq Nat
  BY Constants DEF FreeFrames, Frame
<1>. QED  BY <1>1, Least, Zenon DEF FreeFrames

(* install_temp_page_frame finds a page that maps nothing, or frame 0.     *)
LEMMA EmptySlot ==
  ASSUME EmptySlots # {}
  PROVE  /\ Lowest(EmptySlots) \in Slot /\ Lowest(EmptySlots) # -1
         /\ tmp[Lowest(EmptySlots)] \in {0, Absent}
<1>1. EmptySlots \subseteq Nat /\ -1 \notin EmptySlots
  BY Constants DEF EmptySlots, Slot
<1>. QED  BY <1>1, Least, Zenon DEF EmptySlots

(* Counters stay in range when references are added...                     *)
LEMMA RefTyped ==
  ASSUME Data, NEW f
  PROVE  /\ Reffed(f) \in [Frame -> 0..RefMax]
         /\ f \in Frame => [ref EXCEPT ![f] = 1] \in [Frame -> 0..RefMax]
<1>1. ref \in [Frame -> 0..RefMax] /\ RefMax \in Nat \ 0..2
  BY Constants, Zenon DEF Data
<1>2. Reffed(f) \in [Frame -> 0..RefMax]
  <2>1. CASE CanRef(f)
    BY <1>1, <2>1 DEF CanRef, Reffed
  <2>2. CASE ~CanRef(f)
    BY <1>1, <2>2, Zenon DEF Reffed
  <2>. QED  BY <2>1, <2>2, Zenon
<1>3. f \in Frame => [ref EXCEPT ![f] = 1] \in [Frame -> 0..RefMax]
  BY <1>1
<1>. QED  BY <1>2, <1>3, Zenon

(* ...and when they are dropped.                                           *)
LEMMA UnrefTyped ==
  ASSUME NEW q \in [Frame -> 0..RefMax], NEW f \in Frame
  PROVE  Unreffed(q, f) \in [Frame -> 0..RefMax]
BY Constants DEF Unreffed

(* The page table that the walk has come to is one of the directory.       *)
LEMMA Walks ==
  ASSUME IInv, NEW t \in Thread, Typed(loc[t]), Walking(loc[t], req[t]), loc[t].tabs > 0
  PROVE  /\ loc[t].tab \in Table
         /\ loc[t].tab + 1 \in 0..NTables /\ loc[t].tabs - 1 \in 0..NTables
         /\ loc[t].tab + 1 + (loc[t].tabs - 1) <= NTables
<1>1. loc[t].tab \in 0..NTables /\ loc[t].tabs \in 0..NTables /\ loc[t].tab + loc[t].tabs <= NTables
  BY Zenon DEF Typed, Walking
<1>. QED  BY <1>1, Constants DEF Table

(* At most a page table's entries are counted at once.                     *)
LEMMA Counts ==
  ASSUME NEW l, Typed(l), NEW i \in Nat, i <= NEntries, l.nempty + Span(l.tabs) <= Size,
         l.tabs > 0
  PROVE  /\ l.nempty + i \in 0..Size
         /\ l.nempty + i + Span(l.tabs - 1) <= Size
<1>1. l.nempty \in 0..Size /\ l.tabs - 1 \in Nat /\ (l.tabs - 1) + 1 = l.tabs
  BY Constants DEF Typed
<1>2. /\ Span(l.tabs - 1) \in Nat /\ Span((l.tabs - 1) + 1) = Span(l.tabs - 1) + NEntries
  BY <1>1, Spans, Zenon
<1>. QED  BY <1>1, <1>2, Constants

(* The entries of a page table from that of the current page on.           *)
LEMMA Left ==
  ASSUME NEW l, Typed(l)
  PROVE  /\ Lowest({l.n, Rest(l.pg)}) \in Nat
         /\ Lowest({l.n, Rest(l.pg)}) <= l.n /\ Lowest({l.n, Rest(l.pg)}) <= NEntries
<1>1. l.n \in Nat /\ l.pg \in Nat
  BY Constants DEF Typed
<1>2. Rest(l.pg) \in Nat /\ Rest(l.pg) <= NEntries
  BY <1>1, Rests, Constants
<1>. DEFINE S == {l.n, Rest(l.pg)}
<1>3. S \subseteq Nat /\ S # {} /\ l.n \in S /\ Rest(l.pg) \in S
  BY <1>1, <1>2, Zenon
<1>. HIDE DEF S
<1>4. Lowest(S) \in Nat /\ Lowest(S) <= l.n /\ Lowest(S) <= Rest(l.pg)
  BY <1>3, Least, Zenon
<1>. QED  BY <1>1, <1>2, <1>4, Constants DEF S

(* The next page table is in the directory; without leave to create it,    *)
(* none counts as empty.                                                   *)
LEMMA MapTableStep ==
  ASSUME IInv, NEW t \in Thread, MapTable(t)
  PROVE  IInv'
<1>. DEFINE l == loc[t]
            k == loc'[t]
            r == req[t]
<1>1. /\ Data /\ l \in Locals /\ Typed(l) /\ Called(t, l, r)
      /\ (l.at \in Inside => Busy(l, r, tmp))
  BY Known, Zenon
<1>2. /\ l.at = "table" /\ l.tabs > 0 /\ UNCHANGED <<pt, pd, tmp, sem, req>>
  BY Zenon DEF MapTable, Runs, At
<1>3. l.at \in Inside /\ Busy(l, r, tmp) /\ r \in Requests[t]
  BY <1>1, <1>2, Zenon DEF Called, Inside, Points
<1>4. l.slot = -1 /\ Walking(l, r) /\ Counted(l, l.tabs)
  BY <1>2, <1>3, Zenon DEF Busy
<1>5. /\ l.tab \in Table /\ l.tab + 1 \in 0..NTables /\ l.tabs - 1 \in 0..NTables
      /\ l.tab + 1 + (l.tabs - 1) <= NTables
  BY <1>1, <1>2, <1>4, Walks, Zenon
<1>6. \A s \in Slot : ~Holds(l, s)
  BY <1>2, Zenon DEF Holds
<1>7. CASE (Needed(t) /\ FreeFrames = {}) \/ EmptySlots = {}
  <2>1. NoTable(t) /\ UNCHANGED ref
    BY <1>7, Zenon DEF MapTable
  <2>2. CASE ~l.finding
    <3>1. Fails(t)
      BY <2>1, <2>2, Zenon DEF NoTable
    <3>2. lost' = lost
      BY <1>4, <3>1, Zenon DEF Fails
    <3>3. Data'
      BY <1>1, <1>2, <2>1, <3>2, Zenon DEF Data
    <3>. QED  BY <1>2, <1>3, <1>6, <3>1, <3>3, FailsStep, Zenon
  <2>3. CASE l.finding
    <3>. DEFINE i == Lowest({l.n, Rest(l.pg)})
                c == [nempty |-> l.nempty + i, tab |-> l.tab + 1, tabs |-> l.tabs - 1]
    <3>1. Goes(t, c) /\ UNCHANGED lost
      BY <2>1, <2>3, Zenon DEF NoTable
    <3>2. \A x \in Names : k[x] = IF x \in DOMAIN c THEN c[x] ELSE l[x]
      BY <3>1, GoesFields, Zenon
    <3>3. /\ k.at = l.at /\ k.finding = l.finding /\ k.fresh = l.fresh /\ k.beg = l.beg
          /\ k.pg = l.pg /\ k.n = l.n /\ k.tab = l.tab + 1 /\ k.tabs = l.tabs - 1
          /\ k.nempty = l.nempty + i /\ k.slot = l.slot /\ k.table = l.table
          /\ k.sslot = l.sslot /\ k.stable = l.stable /\ k.pf = l.pf /\ k.ret = l.ret
      BY <3>2, Zenon DEF Names
    <3>4. i \in Nat /\ i <= NEntries
      BY <1>1, Left, Zenon
    <3>. HIDE DEF i
    <3>5. l.nempty + Span(l.tabs) <= Size
      BY <1>4, <2>3, Zenon DEF Counted
    <3>6. l.nempty + i \in 0..Size /\ l.nempty + i + Span(l.tabs - 1) <= Size
      BY <1>1, <1>2, <3>4, <3>5, Counts, Zenon
    <3>7. Typed(k) /\ k.at \in Inside
      BY <1>1, <1>3, <1>5, <3>3, <3>6, Zenon DEF Typed
    <3>8. Busy(k, r, tmp)
      <4>1. Walking(k, r)
        BY <1>4, <1>5, <3>3, Zenon DEF Walking
      <4>2. Counted(k, k.tabs)
        BY <3>3, <3>6, Zenon DEF Counted
      <4>. QED  BY <1>2, <1>4, <3>3, <4>1, <4>2, Zenon DEF Busy, Sourcing
    <3>9. Data'
      BY <1>1, <1>2, <2>1, <3>1, Zenon DEF Data
    <3>. HIDE DEF c
    <3>. QED  BY <1>2, <1>3, <1>6, <3>1, <3>7, <3>8, <3>9, KeepStep, Zenon
  <2>. QED  BY <2>2, <2>3, Zenon
<1>8. CASE ~((Needed(t) /\ FreeFrames = {}) \/ EmptySlots = {})
  <2>1. PICK f : f = IF Needed(t) THEN Lowest(FreeFrames) ELSE pd[r.as][l.tab]
    BY Zenon
  <2>. DEFINE c == [at |-> "temp", fresh |-> Needed(t), table |-> f, slot |-> Lowest(EmptySlots)]
  <2>2. /\ Goes(t, c) /\ UNCHANGED lost
        /\ ref' = IF Needed(t) THEN [ref EXCEPT ![f] = 1] ELSE ref
    BY <1>8, <2>1, Zenon DEF MapTable
  <2>3. \A x \in Names : k[x] = IF x \in DOMAIN c THEN c[x] ELSE l[x]
    BY <2>2, GoesFields, Zenon
  <2>4. /\ k.at = "temp" /\ k.finding = l.finding /\ k.fresh = Needed(t)
        /\ k.beg = l.beg /\ k.pg = l.pg /\ k.n = l.n /\ k.tab = l.tab /\ k.tabs = l.tabs
        /\ k.nempty = l.nempty /\ k.slot = Lowest(EmptySlots) /\ k.table = f
        /\ k.sslot = l.sslot /\ k.stable = l.stable /\ k.pf = l.pf /\ k.ret = l.ret
    BY <2>3, Zenon DEF Names
  <2>5. f \in Frame /\ (~l.finding => f # 0)
    <3>1. CASE Needed(t)
      BY <1>8, <2>1, <3>1, FreeFrame, Zenon
    <3>2. CASE ~Needed(t)
      <4>1. r.as \in AS
        BY <1>3, RequestTyped, Zenon
      <4>2. f = pd[r.as][l.tab] /\ (~l.finding => pd[r.as][l.tab] # 0)
        BY <2>1, <3>2, Zenon DEF Needed
      <4>3. pd \in [AS -> [Table -> Frame]]
        BY <1>1, Zenon DEF Data
      <4>4. pd[r.as][l.tab] \in Frame
        BY <1>5, <4>1, <4>3, Zenon
      <4>. QED  BY <4>2, <4>4, Zenon
    <3>. QED  BY <3>1, <3>2, Zenon
  <2>6. /\ Lowest(EmptySlots) \in Slot /\ Lowest(EmptySlots) # -1
        /\ tmp[Lowest(EmptySlots)] \in {0, Absent}
    BY <1>8, EmptySlot, Zenon
  <2>7. Needed(t) \in BOOLEAN
    BY Zenon DEF Needed
  <2>8. Typed(k) /\ k.at \in Inside
    BY <1>1, <2>4, <2>5, <2>6, <2>7, Zenon DEF Typed, Points, Inside
  <2>9. Busy(k, r, tmp)
    <3>1. Walking(k, r) /\ Counted(k, k.tabs)
      BY <1>4, <2>4, Zenon DEF Walking, Counted
    <3>. QED  BY <1>2, <2>4, <2>5, <2>6, <3>1, Zenon DEF Busy, Sourcing
  <2>10. Data'
    <3>1. ref' \in [Frame -> 0..RefMax]
      <4>1. ref \in [Frame -> 0..RefMax] /\ [ref EXCEPT ![f] = 1] \in [Frame -> 0..RefMax]
        BY <1>1, <2>5, RefTyped, Zenon DEF Data
      <4>. QED  BY <2>2, <4>1, Zenon
    <3>. QED  BY <1>1, <1>2, <2>2, <3>1, Zenon DEF Data
  <2>. HIDE DEF c
  <2>. QED  BY <1>2, <1>3, <1>6, <2>2, <2>8, <2>9, <2>10, KeepStep, Zenon
<1>. QED  BY <1>7, <1>8, Zenon

(* The temporary page maps the page table.                                 *)
LEMMA InstallTempStep ==
  ASSUME IInv, NEW t \in Thread, InstallTemp(t)
  PROVE  IInv'
<1>. DEFINE l == loc[t]
            k == loc'[t]
            r == req[t]
<1>1. /\ Data /\ l \in Locals /\ Typed(l) /\ Called(t, l, r)
      /\ (l.at \in Inside => Busy(l, r, tmp))
  BY Known, Zenon
<1>2. /\ l.at = "temp" /\ UNCHANGED <<pd, sem, req, lost>>
      /\ ref' = Reffed(l.table) /\ tmp' = [tmp EXCEPT ![l.slot] = l.table]
      /\ IF l.fresh
         THEN /\ pt' = [pt EXCEPT ![l.table] = [e \in Entry |-> 0]]
              /\ Goes(t, [at |-> "install"])
         ELSE Goes(t, [at |-> "entries"]) /\ UNCHANGED pt
  BY Zenon DEF InstallTemp, Runs, At
<1>3. l.at \in Inside /\ Busy(l, r, tmp)
  BY <1>1, <1>2, Zenon DEF Inside, Points
<1>4. /\ Walking(l, r) /\ l.tabs > 0 /\ Counted(l, l.tabs)
      /\ l.slot # -1 /\ (~l.finding => l.table # 0)
  BY <1>2, <1>3, Zenon DEF Busy
<1>5. l.slot \in Slot /\ l.table \in Frame
  BY <1>1, <1>4, Zenon DEF Typed
<1>6. /\ tmp' \in [Slot -> Frame \union {Absent}] /\ tmp'[l.slot] = l.table
      /\ \A s \in Slot \ {l.slot} : tmp'[s] = tmp[s]
  BY <1>1, <1>2, <1>5, Zenon DEF Data
<1>7. pt' \in [Frame -> [Entry -> Frame]]
  <2>1. pt \in [Frame -> [Entry -> Frame]] /\ 0 \in Frame
    BY <1>1, Constants DEF Data, Frame
  <2>2. [e \in Entry |-> 0] \in [Entry -> Frame]
    BY <2>1, Zenon
  <2>. QED  BY <1>2, <2>1, <2>2, Zenon
<1>8. Data'
  BY <1>1, <1>2, <1>6, <1>7, RefTyped, Zenon DEF Data
<1>9. PICK p : p = IF l.fresh THEN "install" ELSE "entries"
  BY Zenon
<1>10. Goes(t, [at |-> p]) /\ p \in {"install", "entries"}
  BY <1>2, <1>9, Zenon
<1>11. \A x \in Names : k[x] = IF x \in DOMAIN [at |-> p]
                             THEN [at |-> p][x] ELSE l[x]
  BY <1>10, GoesFields, Zenon
<1>12. /\ k.at = p /\ k.finding = l.finding /\ k.fresh = l.fresh /\ k.beg = l.beg
        /\ k.pg = l.pg /\ k.n = l.n /\ k.tab = l.tab /\ k.tabs = l.tabs
        /\ k.nempty = l.nempty /\ k.slot = l.slot /\ k.table = l.table
        /\ k.sslot = l.sslot /\ k.stable = l.stable /\ k.pf = l.pf /\ k.ret = l.ret
  BY <1>11, Zenon DEF Names
<1>13. Typed(k) /\ k.at \in Inside
  BY <1>1, <1>10, <1>12, Zenon DEF Typed, Points, Inside
<1>14. Busy(loc[t], req[t], tmp)'
  <2>1. Walking(k, r) /\ Counted(k, k.tabs) /\ k.tabs > 0
    BY <1>4, <1>12, Zenon DEF Walking, Counted
  <2>2. tmp'[k.slot] = k.table /\ k.slot # -1 /\ (~k.finding => k.table # 0)
    BY <1>4, <1>6, <1>12, Zenon
  <2>3. k.at \in {"install", "entries"} /\ req'[t] = r
    BY <1>2, <1>10, <1>12, Zenon
  <2>. QED  BY <2>1, <2>2, <2>3, Zenon DEF Busy, Walking, Counted, Sourcing, Span
<1>15. ASSUME NEW s \in Slot, tmp'[s] # Absent
       PROVE  s \in lost' \/ Holds(k, s) \/ (tmp[s] # Absent /\ ~Holds(l, s))
  <2>1. CASE s = l.slot
    BY <1>10, <1>12, <2>1, Zenon DEF Holds
  <2>2. CASE s # l.slot
    BY <1>2, <1>6, <1>15, <2>2, Zenon DEF Holds
  <2>. QED  BY <2>1, <2>2, Zenon
<1>16. lost \subseteq lost'
  BY <1>2, Zenon
<1>. QED  BY <1>2, <1>3, <1>8, <1>10, <1>13, <1>14, <1>15, <1>16, InsideStep, Zenon

(* A new page table enters the page directory.                             *)
LEMMA InstallTableStep ==
  ASSUME IInv, NEW t \in Thread, InstallTable(t)
  PROVE  IInv'
<1>. DEFINE l == loc[t]
            k == loc'[t]
            r == req[t]
<1>1. /\ Data /\ l \in Locals /\ Typed(l) /\ Called(t, l, r)
      /\ (l.at \in Inside => Busy(l, r, tmp))
  BY Known, Zenon
<1>. DEFINE c == [at |-> "entries", fresh |-> FALSE]
<1>2. /\ l.at = "install" /\ UNCHANGED <<pt, tmp, sem, req, lost>> /\ Goes(t, c)
      /\ ref' = Unreffed(Reffed(l.table), pd[r.as][l.tab])
      /\ pd' = [pd EXCEPT ![r.as][l.tab] = l.table]
  BY Zenon DEF InstallTable, Runs, At
<1>3. l.at \in Inside /\ Busy(l, r, tmp) /\ r \in Requests[t]
  BY <1>1, <1>2, Zenon DEF Called, Inside, Points
<1>4. /\ Walking(l, r) /\ l.tabs > 0 /\ Counted(l, l.tabs)
      /\ l.slot # -1 /\ (~l.finding => l.table # 0) /\ tmp[l.slot] = l.table
  BY <1>2, <1>3, Zenon DEF Busy
<1>5. l.tab \in Table /\ l.table \in Frame /\ r.as \in AS
  BY <1>1, <1>3, <1>4, Walks, RequestTyped, Zenon DEF Typed
<1>6. Data'
  <2>1. pd \in [AS -> [Table -> Frame]]
    BY <1>1, Zenon DEF Data
  <2>2. pd' \in [AS -> [Table -> Frame]] /\ pd[r.as][l.tab] \in Frame
    BY <1>2, <1>5, <2>1
  <2>3. ref' \in [Frame -> 0..RefMax]
    <3>1. Reffed(l.table) \in [Frame -> 0..RefMax]
      BY <1>1, RefTyped, Zenon
    <3>. QED  BY <1>2, <2>2, <3>1, UnrefTyped, Zenon
  <2>. QED  BY <1>1, <1>2, <2>2, <2>3, Zenon DEF Data
<1>7. \A x \in Names : k[x] = IF x \in DOMAIN c THEN c[x] ELSE l[x]
  BY <1>2, GoesFields, Zenon
<1>8. /\ k.at = "entries" /\ k.finding = l.finding /\ k.fresh = FALSE /\ k.beg = l.beg
      /\ k.pg = l.pg /\ k.n = l.n /\ k.tab = l.tab /\ k.tabs = l.tabs
      /\ k.nempty = l.nempty /\ k.slot = l.slot /\ k.table = l.table
      /\ k.sslot = l.sslot /\ k.stable = l.stable /\ k.pf = l.pf /\ k.ret = l.ret
  BY <1>7, Zenon DEF Names
<1>9. Typed(k) /\ k.at \in Inside
  BY <1>1, <1>8, Zenon DEF Typed, Points, Inside
<1>10. Busy(k, r, tmp)
  <2>1. Walking(k, r) /\ Counted(k, k.tabs)
    BY <1>4, <1>8, Zenon DEF Walking, Counted
  <2>. QED  BY <1>4, <1>8, <2>1, Zenon DEF Busy, Sourcing
<1>11. \A s \in Slot : Holds(l, s) => Holds(k, s)
  BY <1>2, <1>8, Zenon DEF Holds
<1>. HIDE DEF c
<1>. QED  BY <1>2, <1>3, <1>6, <1>9, <1>10, <1>11, KeepStep, Zenon

(* What is counted empty was among the pages asked for.                    *)
LEMMA CountEmptyStep ==
  ASSUME IInv, NEW t \in Thread, CountEmpty(t)
  PROVE  IInv'
<1>. DEFINE l == loc[t]
            k == loc'[t]
            r == req[t]
<1>1. /\ Data /\ l \in Locals /\ Typed(l) /\ Called(t, l, r)
      /\ (l.at \in Inside => Busy(l, r, tmp))
  BY Known, Zenon
<1>. DEFINE len == Lowest({l.n, Rest(l.pg)})
            S == {j \in 0..len : j = len \/ EntryOf(l.slot, l.pg + j) # 0}
<1>2. PICK i : i = Lowest(S)
  BY Zenon
<1>. DEFINE c == [at |-> "unmap", pg |-> l.pg + i, n |-> l.n - i, nempty |-> l.nempty + i]
<1>3. /\ l.at = "entries" /\ l.finding /\ UNCHANGED <<ref, pt, pd, tmp, sem, req, lost>>
      /\ Goes(t, c)
  BY <1>2, Zenon DEF CountEmpty, Runs, At
<1>4. l.at \in Inside /\ Busy(l, r, tmp)
  BY <1>1, <1>3, Zenon DEF Inside, Points
<1>5. /\ Walking(l, r) /\ l.tabs > 0 /\ l.nempty + Span(l.tabs) <= Size
      /\ l.slot # -1 /\ tmp[l.slot] = l.table
  BY <1>3, <1>4, Zenon DEF Busy, Counted
<1>6. i \in Nat /\ i <= l.n /\ i <= NEntries
  <2>1. len \in Nat /\ len <= l.n /\ len <= NEntries
    BY <1>1, Left, Zenon
  <2>. HIDE DEF len
  <2>2. S \subseteq Nat /\ len \in S
    BY <2>1
  <2>3. \A j \in S : j <= len
    BY <2>1
  <2>. HIDE DEF S
  <2>4. i \in S
    BY <1>2, <2>2, Least, Zenon
  <2>5. l.n \in Nat
    BY <1>1, Constants DEF Typed
  <2>6. i \in Nat /\ i <= len /\ NEntries \in Nat
    BY <2>2, <2>3, <2>4, Constants, Zenon
  <2>. QED  BY <2>1, <2>5, <2>6
<1>. HIDE DEF len, S
<1>7. \A x \in Names : k[x] = IF x \in DOMAIN c THEN c[x] ELSE l[x]
  BY <1>3, GoesFields, Zenon
<1>8. /\ k.at = "unmap" /\ k.finding = l.finding /\ k.fresh = l.fresh /\ k.beg = l.beg
      /\ k.pg = l.pg + i /\ k.n = l.n - i /\ k.tab = l.tab /\ k.tabs = l.tabs
      /\ k.nempty = l.nempty + i /\ k.slot = l.slot /\ k.table = l.table
      /\ k.sslot = l.sslot /\ k.stable = l.stable /\ k.pf = l.pf /\ k.ret = l.ret
  BY <1>7, Zenon DEF Names
<1>9. l.nempty + i \in 0..Size /\ l.nempty + i + Span(l.tabs - 1) <= Size
  BY <1>1, <1>5, <1>6, Counts, Zenon
<1>10. /\ l.pg + i \in 0..Size /\ l.n - i \in 0..Size /\ l.pg + i + (l.n - i) <= Size
  <2>1. l.pg \in 0..Size /\ l.n \in 0..Size /\ l.pg + l.n <= Size
    BY <1>1, <1>5, Zenon DEF Typed, Walking
  <2>. QED  BY <1>6, <2>1, Constants
<1>11. Typed(k) /\ k.at \in Inside
  BY <1>1, <1>8, <1>9, <1>10, Zenon DEF Typed, Points, Inside
<1>12. Busy(k, r, tmp)
  <2>1. Walking(k, r)
    BY <1>5, <1>8, <1>10, Zenon DEF Walking
  <2>2. Counted(k, k.tabs - 1)
    BY <1>8, <1>9, Zenon DEF Counted
  <2>. QED  BY <1>3, <1>5, <1>8, <2>1, <2>2, Zenon DEF Busy, Sourcing
<1>13. \A s \in Slot : Holds(l, s) => Holds(k, s)
  BY <1>3, <1>8, Zenon DEF Holds
<1>14. Data'
  BY <1>1, <1>3, Zenon DEF Data
<1>. HIDE DEF c
<1>. QED  BY <1>3, <1>4, <1>11, <1>12, <1>13, <1>14, KeepStep, Zenon

(* A frame for the next page.                                              *)
LEMMA AllocPageStep ==
  ASSUME IInv, NEW t \in Thread, AllocPage(t)
  PROVE  IInv'
<1>. DEFINE l == loc[t]
            k == loc'[t]
            r == req[t]
<1>1. /\ Data /\ l \in Locals /\ Typed(l) /\ Called(t, l, r)
      /\ (l.at \in Inside => Busy(l, r, tmp))
  BY Known, Zenon
<1>2. /\ l.at = "entries" /\ ~l.finding /\ l.n > 0 /\ UNCHANGED <<pt, pd, tmp, sem, req>>
  BY Zenon DEF AllocPage, Runs, At, InTable
<1>3. l.at \in Inside /\ Busy(l, r, tmp) /\ r \in Requests[t]
  BY <1>1, <1>2, Zenon DEF Called, Inside, Points
<1>4. /\ Walking(l, r) /\ l.tabs > 0 /\ l.slot # -1 /\ l.table # 0 /\ tmp[l.slot] = l.table
  BY <1>2, <1>3, Zenon DEF Busy, Sourcing
<1>5. CASE FreeFrames = {}
  <2>1. Fails(t) /\ UNCHANGED ref
    BY <1>5, Zenon DEF AllocPage
  <2>2. Data'
    <3>1. lost' \subseteq Slot
      BY <1>1, <2>1, Zenon DEF Fails, Data, Typed
    <3>. QED  BY <1>1, <1>2, <2>1, <3>1, Zenon DEF Data
  <2>3. \A s \in Slot : Holds(l, s) => s = l.slot
    BY <1>2, Zenon DEF Holds
  <2>. QED  BY <1>2, <1>3, <2>1, <2>2, <2>3, FailsStep, Zenon
<1>6. CASE FreeFrames # {}
  <2>. DEFINE f == Lowest(FreeFrames)
              c == [at |-> "map", pf |-> f]
  <2>0. Goes(t, c) /\ UNCHANGED lost /\ ref' = [ref EXCEPT ![f] = 1]
    BY <1>6, Zenon DEF AllocPage
  <2>1. \A x \in Names : k[x] = IF x \in DOMAIN c THEN c[x] ELSE l[x]
    BY <2>0, GoesFields, Zenon
  <2>2. /\ k.at = "map" /\ k.finding = l.finding /\ k.fresh = l.fresh /\ k.beg = l.beg
        /\ k.pg = l.pg /\ k.n = l.n /\ k.tab = l.tab /\ k.tabs = l.tabs
        /\ k.nempty = l.nempty /\ k.slot = l.slot /\ k.table = l.table
        /\ k.sslot = l.sslot /\ k.stable = l.stable /\ k.pf = f /\ k.ret = l.ret
    BY <2>1, Zenon DEF Names
  <2>3. f \in Frame
    BY <1>6, FreeFrame, Zenon
  <2>. HIDE DEF f
  <2>4. f \in 0..NFrames
    BY <2>3, Constants DEF Frame
  <2>5. Typed(k) /\ k.at \in Inside
    BY <1>1, <2>2, <2>4, Zenon DEF Typed, Points, Inside
  <2>6. Busy(k, r, tmp)
    <3>1. Walking(k, r)
      BY <1>4, <2>2, Zenon DEF Walking
    <3>. QED  BY <1>2, <1>4, <2>2, <3>1, Zenon DEF Busy, Counted, Sourcing
  <2>7. \A s \in Slot : Holds(l, s) => Holds(k, s)
    BY <1>2, <2>2, Zenon DEF Holds
  <2>8. Data'
    <3>1. ref' \in [Frame -> 0..RefMax]
      BY <1>1, <2>0, <2>3, RefTyped, Zenon
    <3>. QED  BY <1>1, <1>2, <2>0, <3>1, Zenon DEF Data
  <2>. HIDE DEF c
  <2>. QED  BY <1>2, <1>3, <2>0, <2>5, <2>6, <2>7, <2>8, KeepStep, Zenon
<1>. QED  BY <1>5, <1>6, Zenon

(* The source of the next page.                                            *)
LEMMA NextPageStep ==
  ASSUME IInv, NEW t \in Thread, NextPage(t)
  PROVE  IInv'
<1>. DEFINE l == loc[t]
            k == loc'[t]
            r == req[t]
<1>1. /\ Data /\ l \in Locals /\ Typed(l) /\ Called(t, l, r)
      /\ (l.at \in Inside => Busy(l, r, tmp))
  BY Known, Zenon
<1>2. /\ l.at = "entries" /\ ~l.finding /\ l.n > 0
      /\ UNCHANGED <<ref, pt, pd, tmp, sem, req, lost>>
      /\ Goes(t, [at |-> IF r.op \in Maps THEN "source" ELSE "map"])
  BY Zenon DEF NextPage, Runs, At, InTable
<1>3. l.at \in Inside /\ Busy(l, r, tmp) /\ r \in Requests[t]
  BY <1>1, <1>2, Zenon DEF Called, Inside, Points
<1>4. /\ Walking(l, r) /\ l.tabs > 0 /\ l.slot # -1 /\ l.table # 0 /\ tmp[l.slot] = l.table
  BY <1>2, <1>3, Zenon DEF Busy, Sourcing
<1>5. PICK p : p = IF r.op \in Maps THEN "source" ELSE "map"
  BY Zenon
<1>6. Goes(t, [at |-> p]) /\ p \in {"source", "map"} /\ (p = "source" => r.op \in Maps)
  BY <1>2, <1>5, Zenon
<1>7. \A x \in Names : k[x] = IF x \in DOMAIN [at |-> p]
                            THEN [at |-> p][x] ELSE l[x]
  BY <1>6, GoesFields, Zenon
<1>8. /\ k.at = p /\ k.finding = l.finding /\ k.fresh = l.fresh /\ k.beg = l.beg
       /\ k.pg = l.pg /\ k.n = l.n /\ k.tab = l.tab /\ k.tabs = l.tabs
       /\ k.nempty = l.nempty /\ k.slot = l.slot /\ k.table = l.table
       /\ k.sslot = l.sslot /\ k.stable = l.stable /\ k.pf = l.pf /\ k.ret = l.ret
  BY <1>7, Zenon DEF Names
<1>9. Typed(k) /\ k.at \in Inside /\ Data'
  BY <1>1, <1>2, <1>6, <1>8, Zenon DEF Typed, Points, Inside, Data
<1>10. Busy(k, r, tmp)
  <2>1. Walking(k, r) /\ r.op # "lookup"
    BY <1>4, <1>8, Zenon DEF Walking
  <2>2. CASE p = "map"
    BY <1>2, <1>4, <1>8, <2>1, <2>2, Zenon DEF Busy, Counted, Sourcing
  <2>3. CASE p = "source"
    BY <1>2, <1>4, <1>6, <1>8, <2>1, <2>3, Zenon DEF Busy, Counted, Sourcing
  <2>. QED  BY <1>6, <2>2, <2>3, Zenon
<1>11. \A s \in Slot : Holds(l, s) => Holds(k, s)
  BY <1>2, <1>6, <1>8, Zenon DEF Holds
<1>. QED  BY <1>2, <1>3, <1>6, <1>9, <1>10, <1>11, KeepStep, Zenon

(* No page of this page table is left.                                     *)
LEMMA LastPageStep ==
  ASSUME IInv, NEW t \in Thread, LastPage(t)
  PROVE  IInv'
<1>. DEFINE l == loc[t]
            k == loc'[t]
            r == req[t]
<1>1. /\ Data /\ l \in Locals /\ Typed(l) /\ Called(t, l, r)
      /\ (l.at \in Inside => Busy(l, r, tmp))
  BY Known, Zenon
<1>2. /\ l.at = "entries" /\ ~l.finding /\ UNCHANGED <<ref, pt, pd, tmp, sem, req, lost>>
      /\ Goes(t, [at |-> "unmap"])
  BY Zenon DEF LastPage, Runs, At
<1>3. l.at \in Inside /\ Busy(l, r, tmp) /\ r \in Requests[t]
  BY <1>1, <1>2, Zenon DEF Called, Inside, Points
<1>4. /\ Walking(l, r) /\ l.tabs > 0 /\ l.slot # -1 /\ l.table # 0 /\ tmp[l.slot] = l.table
  BY <1>2, <1>3, Zenon DEF Busy, Sourcing
<1>5. \A x \in Names : k[x] = IF x \in DOMAIN [at |-> "unmap"]
                            THEN [at |-> "unmap"][x] ELSE l[x]
  BY <1>2, GoesFields, Zenon
<1>6. /\ k.at = "unmap" /\ k.finding = l.finding /\ k.fresh = l.fresh /\ k.beg = l.beg
       /\ k.pg = l.pg /\ k.n = l.n /\ k.tab = l.tab /\ k.tabs = l.tabs
       /\ k.nempty = l.nempty /\ k.slot = l.slot /\ k.table = l.table
       /\ k.sslot = l.sslot /\ k.stable = l.stable /\ k.pf = l.pf /\ k.ret = l.ret
  BY <1>5, Zenon DEF Names
<1>7. Typed(k) /\ k.at \in Inside /\ Data'
  BY <1>1, <1>2, <1>6, Zenon DEF Typed, Points, Inside, Data
<1>8. Busy(k, r, tmp)
  <2>1. Walking(k, r)
    BY <1>4, <1>6, Zenon DEF Walking
  <2>. QED  BY <1>2, <1>4, <1>6, <2>1, Zenon DEF Busy, Counted, Sourcing
<1>9. \A s \in Slot : Holds(l, s) => Holds(k, s)
  BY <1>2, <1>6, Zenon DEF Holds
<1>. QED  BY <1>2, <1>3, <1>7, <1>8, <1>9, KeepStep, Zenon

(* A page is mapped in the page table that the temporary page maps.        *)
LEMMA MapPageStep ==
  ASSUME IInv, NEW t \in Thread, MapPage(t)
  PROVE  IInv'
<1>. DEFINE l == loc[t]
            k == loc'[t]
            r == req[t]
<1>1. /\ Data /\ l \in Locals /\ Typed(l) /\ Called(t, l, r)
      /\ (l.at \in Inside => Busy(l, r, tmp))
  BY Known, Zenon
<1>2. l.at = "map" /\ UNCHANGED <<pd, tmp, sem, req>>
  BY Zenon DEF MapPage, Runs, At
<1>3. l.at \in Inside /\ Busy(l, r, tmp) /\ r \in Requests[t]
  BY <1>1, <1>2, Zenon DEF Called, Inside, Points
<1>4. /\ Walking(l, r) /\ l.tabs > 0 /\ l.slot # -1 /\ l.table # 0 /\ tmp[l.slot] = l.table
      /\ ~l.finding /\ l.n > 0
  BY <1>2, <1>3, Zenon DEF Busy, Sourcing
<1>5. CASE ~CanRef(l.pf)
  <2>1. Fails(t) /\ UNCHANGED <<ref, pt>>
    BY <1>5, Zenon DEF MapPage
  <2>2. Data'
    <3>1. lost' \subseteq Slot
      BY <1>1, <2>1, Zenon DEF Fails, Data, Typed
    <3>. QED  BY <1>1, <1>2, <2>1, <3>1, Zenon DEF Data
  <2>3. \A s \in Slot : Holds(l, s) => s = l.slot
    BY <1>2, Zenon DEF Holds
  <2>. QED  BY <1>2, <1>3, <2>1, <2>2, <2>3, FailsStep, Zenon
<1>6. CASE CanRef(l.pf)
  <2>1. PICK pf : pf = IF r.op = "alloc_frames" THEN l.pf + 1 ELSE 0
    BY Zenon
  <2>. DEFINE c == [at |-> "entries", pg |-> l.pg + 1, n |-> l.n - 1, pf |-> pf]
  <2>2. /\ Goes(t, c) /\ UNCHANGED lost
        /\ ref' = Unreffed(Reffed(l.pf), EntryOf(l.slot, l.pg))
        /\ pt' = [pt EXCEPT ![tmp[l.slot]][l.pg % NEntries] = l.pf]
    BY <1>6, <2>1, Zenon DEF MapPage
  <2>3. \A x \in Names : k[x] = IF x \in DOMAIN c THEN c[x] ELSE l[x]
    BY <2>2, GoesFields, Zenon
  <2>4. /\ k.at = "entries" /\ k.finding = l.finding /\ k.fresh = l.fresh
        /\ k.beg = l.beg /\ k.pg = l.pg + 1 /\ k.n = l.n - 1 /\ k.tab = l.tab
        /\ k.tabs = l.tabs /\ k.nempty = l.nempty /\ k.slot = l.slot
        /\ k.table = l.table /\ k.sslot = l.sslot /\ k.stable = l.stable /\ k.pf = pf
        /\ k.ret = l.ret
    BY <2>3, Zenon DEF Names
  <2>5. l.pf \in Frame /\ l.table \in Frame /\ pt \in [Frame -> [Entry -> Frame]]
    BY <1>1, <1>6, Zenon DEF CanRef, Typed, Data
  <2>6. pf \in 0..NFrames
    BY <2>1, <2>5, Constants DEF Frame
  <2>7. l.pg \in 0..Size /\ l.n \in 0..Size /\ l.pg + l.n <= Size
    BY <1>1, <1>4, Zenon DEF Typed, Walking
  <2>8. l.pg + 1 \in 0..Size /\ l.n - 1 \in 0..Size /\ l.pg + 1 + (l.n - 1) <= Size
    BY <1>4, <2>7, Constants
  <2>9. l.pg % NEntries \in Entry
    BY <2>7, Quotient, Constants
  <2>10. Typed(k) /\ k.at \in Inside
    BY <1>1, <2>4, <2>6, <2>8, Zenon DEF Typed, Points, Inside
  <2>11. Busy(k, r, tmp)
    <3>1. Walking(k, r)
      BY <1>4, <2>4, <2>8, Zenon DEF Walking
    <3>. QED  BY <1>4, <2>4, <3>1, Zenon DEF Busy, Counted, Sourcing
  <2>12. \A s \in Slot : Holds(l, s) => Holds(k, s)
    BY <1>2, <2>4, Zenon DEF Holds
  <2>13. Data'
    <3>1. EntryOf(l.slot, l.pg) \in Frame
      BY <1>4, <2>5, <2>9, Zenon DEF EntryOf
    <3>2. Reffed(l.pf) \in [Frame -> 0..RefMax]
      BY <1>1, RefTyped, Zenon
    <3>3. ref' \in [Frame -> 0..RefMax]
      BY <2>2, <3>1, <3>2, UnrefTyped, Zenon
    <3>4. pt' \in [Frame -> [Entry -> Frame]]
      BY <1>4, <2>2, <2>5, <2>9
    <3>. QED  BY <1>1, <1>2, <2>2, <3>3, <3>4, Zenon DEF Data
  <2>. HIDE DEF c
  <2>. QED  BY <1>2, <1>3, <2>2, <2>10, <2>11, <2>12, <2>13, KeepStep, Zenon
<1>. QED  BY <1>5, <1>6, Zenon

(* The temporary page is given back.                                       *)
LEMMA UnmapTableStep ==
  ASSUME IInv, NEW t \in Thread, UnmapTable(t)
  PROVE  IInv'
<1>. DEFINE l == loc[t]
            k == loc'[t]
            r == req[t]
<1>1. /\ Data /\ l \in Locals /\ Typed(l) /\ Called(t, l, r)
      /\ (l.at \in Inside => Busy(l, r, tmp))
  BY Known, Zenon
<1>. DEFINE c == [at |-> "table", slot |-> -1, tab |-> l.tab + 1, tabs |-> l.tabs - 1]
<1>2. /\ l.at = "unmap" /\ UNCHANGED <<pt, pd, sem, req, lost>> /\ Goes(t, c)
      /\ ref' = Unreffed(ref, tmp[l.slot]) /\ tmp' = [tmp EXCEPT ![l.slot] = Absent]
  BY Zenon DEF UnmapTable, Runs, At
<1>3. l.at \in Inside /\ Busy(l, r, tmp)
  BY <1>1, <1>2, Zenon DEF Inside, Points
<1>4. /\ Walking(l, r) /\ l.tabs > 0 /\ l.slot # -1 /\ tmp[l.slot] = l.table
      /\ Counted(l, l.tabs - 1)
  BY <1>2, <1>3, Zenon DEF Busy
<1>5. l.slot \in Slot /\ l.table \in Frame
  BY <1>1, <1>4, Zenon DEF Typed
<1>6. /\ tmp' \in [Slot -> Frame \union {Absent}] /\ tmp'[l.slot] = Absent
      /\ \A s \in Slot \ {l.slot} : tmp'[s] = tmp[s]
  BY <1>1, <1>2, <1>5, Zenon DEF Data
<1>7. Data'
  <2>1. ref' \in [Frame -> 0..RefMax]
    <3>1. ref \in [Frame -> 0..RefMax]
      BY <1>1, Zenon DEF Data
    <3>. QED  BY <1>2, <1>4, <1>5, <3>1, UnrefTyped, Zenon
  <2>. QED  BY <1>1, <1>2, <1>6, <2>1, Zenon DEF Data
<1>8. \A x \in Names : k[x] = IF x \in DOMAIN c THEN c[x] ELSE l[x]
  BY <1>2, GoesFields, Zenon
<1>9. /\ k.at = "table" /\ k.finding = l.finding /\ k.fresh = l.fresh /\ k.beg = l.beg
      /\ k.pg = l.pg /\ k.n = l.n /\ k.tab = l.tab + 1 /\ k.tabs = l.tabs - 1
      /\ k.nempty = l.nempty /\ k.slot = -1 /\ k.table = l.table /\ k.sslot = l.sslot
      /\ k.stable = l.stable /\ k.pf = l.pf /\ k.ret = l.ret
  BY <1>8, Zenon DEF Names
<1>10. /\ l.tab + 1 \in 0..NTables /\ l.tabs - 1 \in 0..NTables
       /\ l.tab + 1 + (l.tabs - 1) <= NTables
  BY <1>1, <1>4, Walks, Zenon
<1>11. Typed(k) /\ k.at \in Inside
  BY <1>1, <1>9, <1>10, Zenon DEF Typed, Points, Inside
<1>12. Busy(loc[t], req[t], tmp)'
  <2>1. Walking(k, r) /\ Counted(k, k.tabs)
    BY <1>4, <1>9, <1>10, Zenon DEF Walking, Counted
  <2>. QED  BY <1>2, <1>9, <2>1, Zenon DEF Busy, Walking, Counted, Sourcing, Span
<1>13. ASSUME NEW s \in Slot, tmp'[s] # Absent
       PROVE  s \in lost' \/ Holds(k, s) \/ (tmp[s] # Absent /\ ~Holds(l, s))
  BY <1>2, <1>6, <1>13, Zenon DEF Holds
<1>14. lost \subseteq lost'
  BY <1>2, Zenon
<1>. HIDE DEF c
<1>. QED  BY <1>2, <1>3, <1>7, <1>11, <1>12, <1>13, <1>14, InsideStep, Zenon

(* Where the source's page table is looked up, another one may be in use.  *)
LEMMA AtSource ==
  ASSUME IInv, NEW t \in Thread, loc[t].at \in Sourcing
  PROVE  /\ loc[t].at \in Inside /\ req[t] \in Requests[t] /\ Busy(loc[t], req[t], tmp)
         /\ req[t].op \in Maps \union {"lookup"}
         /\ \/ req[t].op = "lookup" /\ loc[t].slot = -1
            \/ /\ req[t].op # "lookup" /\ Walking(loc[t], req[t]) /\ loc[t].tabs > 0
               /\ loc[t].slot \in Slot /\ loc[t].slot # -1
               /\ loc[t].table # 0 /\ tmp[loc[t].slot] = loc[t].table
               /\ ~loc[t].finding /\ loc[t].n > 0
<1>. DEFINE l == loc[t]
            r == req[t]
<1>1. /\ Typed(l) /\ Called(t, l, r) /\ (l.at \in Inside => Busy(l, r, tmp))
  BY Known, Zenon
<1>2. l.at \in Inside /\ l.at # "out" /\ l.at # "temp" /\ l.at # "unmap"
  BY Zenon DEF Inside, Points, Sourcing
<1>3. r \in Requests[t] /\ Busy(l, r, tmp)
  BY <1>1, <1>2, Zenon DEF Called
<1>4. r.op \in Maps \union {"lookup"} /\ (r.op = "lookup" => l.slot = -1)
  BY <1>3, Zenon DEF Busy
<1>5. CASE r.op # "lookup"
  <2>1. /\ Walking(l, r) /\ l.tabs > 0 /\ l.slot # -1 /\ tmp[l.slot] = l.table
        /\ ~l.finding /\ l.n > 0 /\ (~l.finding => l.table # 0)
    BY <1>2, <1>3, <1>5, Zenon DEF Busy
  <2>2. l.slot \in Slot
    BY <1>1, <2>1, Zenon DEF Typed
  <2>. QED  BY <1>2, <1>3, <1>4, <1>5, <2>1, <2>2, Zenon
<1>. QED  BY <1>2, <1>3, <1>4, <1>5, Zenon

(* The source's page table gets another temporary page: the first one maps *)
(* a page table, which is not frame 0.                                     *)
LEMMA MapSourceStep ==
  ASSUME IInv, NEW t \in Thread, MapSource(t)
  PROVE  IInv'
<1>. DEFINE l == loc[t]
            k == loc'[t]
            r == req[t]
<1>1. /\ Data /\ l \in Locals /\ Typed(l) /\ Called(t, l, r)
      /\ (l.at \in Inside => Busy(l, r, tmp))
  BY Known, Zenon
<1>2. l.at = "source" /\ UNCHANGED <<ref, pt, pd, tmp, sem, req>>
  BY Zenon DEF MapSource, Runs, At
<1>3. l.at \in Sourcing
  BY <1>2, Zenon DEF Sourcing
<1>4. /\ l.at \in Inside /\ r \in Requests[t] /\ r.op \in Maps \union {"lookup"}
      /\ \/ r.op = "lookup" /\ l.slot = -1
         \/ /\ r.op # "lookup" /\ Walking(l, r) /\ l.tabs > 0
            /\ l.slot \in Slot /\ l.slot # -1 /\ l.table # 0 /\ tmp[l.slot] = l.table
            /\ ~l.finding /\ l.n > 0
  BY <1>3, AtSource, Zenon
<1>5. CASE EmptySlots = {}
  <2>1. Fails(t)
    BY <1>5, Zenon DEF MapSource
  <2>2. Data'
    <3>1. lost' \subseteq Slot
      BY <1>1, <2>1, Zenon DEF Fails, Data, Typed
    <3>. QED  BY <1>1, <1>2, <3>1, Zenon DEF Data
  <2>3. \A s \in Slot : Holds(l, s) => s = l.slot
    BY <1>2, Zenon DEF Holds
  <2>. QED  BY <1>2, <1>4, <2>1, <2>2, <2>3, FailsStep, Zenon
<1>6. CASE EmptySlots # {}
  <2>. DEFINE s0 == Lowest(EmptySlots)
              f == pd[r.src][r.pg \div NEntries]
              c == [at |-> "srctemp", sslot |-> s0, stable |-> f]
  <2>1. Goes(t, c) /\ UNCHANGED lost
    BY <1>6, Zenon DEF MapSource
  <2>2. \A x \in Names : k[x] = IF x \in DOMAIN c THEN c[x] ELSE l[x]
    BY <2>1, GoesFields, Zenon
  <2>3. /\ k.at = "srctemp" /\ k.finding = l.finding /\ k.fresh = l.fresh
        /\ k.beg = l.beg /\ k.pg = l.pg /\ k.n = l.n /\ k.tab = l.tab /\ k.tabs = l.tabs
        /\ k.nempty = l.nempty /\ k.slot = l.slot /\ k.table = l.table /\ k.sslot = s0
        /\ k.stable = f /\ k.pf = l.pf /\ k.ret = l.ret
    BY <2>2, Zenon DEF Names
  <2>4. s0 \in Slot /\ s0 # -1 /\ tmp[s0] \in {0, Absent}
    BY <1>6, EmptySlot, Zenon
  <2>5. f \in Frame
    <3>1. r.pg \in Page /\ r.src \in AS /\ pd \in [AS -> [Table -> Frame]]
      BY <1>1, <1>4, RequestTyped, Zenon DEF Data
    <3>2. r.pg \in Nat /\ r.pg < Size
      BY <3>1, Constants DEF Page
    <3>3. r.pg \div NEntries \in Table
      BY <3>2, TableOf, Zenon
    <3>. QED  BY <3>1, <3>3, Zenon
  <2>. HIDE DEF s0, f
  <2>6. s0 # l.slot
    <3>1. CASE r.op # "lookup"
      <4>1. tmp[l.slot] = l.table /\ l.table # 0 /\ l.table \in Frame
        BY <1>1, <1>4, <3>1, Zenon DEF Typed
      <4>2. tmp[l.slot] \notin {0, Absent}
        BY <4>1, Constants DEF Frame, Absent
      <4>. QED  BY <2>4, <4>2, Zenon
    <3>. QED  BY <1>4, <2>4, <3>1, Zenon
  <2>7. Typed(k) /\ k.at \in Inside
    BY <1>1, <2>3, <2>4, <2>5, Zenon DEF Typed, Points, Inside
  <2>8. Busy(k, r, tmp)
    <3>1. CASE r.op = "lookup"
      BY <1>4, <2>3, <2>4, <2>6, <3>1, Zenon DEF Busy
    <3>2. CASE r.op # "lookup"
      <4>1. Walking(k, r) /\ ~k.finding /\ k.n > 0 /\ k.tabs > 0
        BY <1>4, <2>3, <3>2, Zenon DEF Walking
      <4>2. k.slot # -1 /\ k.table # 0 /\ tmp[k.slot] = k.table
        BY <1>4, <2>3, <3>2, Zenon
      <4>. QED  BY <1>4, <2>3, <2>4, <2>6, <3>2, <4>1, <4>2, Zenon DEF Busy, Counted
    <3>. QED  BY <3>1, <3>2, Zenon
  <2>9. \A s \in Slot : Holds(l, s) => Holds(k, s)
    BY <1>2, <2>3, Zenon DEF Holds
  <2>10. Data'
    BY <1>1, <1>2, <2>1, Zenon DEF Data
  <2>. HIDE DEF c
  <2>. QED  BY <1>2, <1>4, <2>1, <2>7, <2>8, <2>9, <2>10, KeepStep, Zenon
<1>. QED  BY <1>5, <1>6, Zenon

(* The second temporary page maps the source's page table.                 *)
LEMMA InstallSourceStep ==
  ASSUME IInv, NEW t \in Thread, InstallSource(t)
  PROVE  IInv'
<1>. DEFINE l == loc[t]
            k == loc'[t]
            r == req[t]
<1>1. /\ Data /\ l \in Locals /\ Typed(l) /\ Called(t, l, r)
      /\ (l.at \in Inside => Busy(l, r, tmp))
  BY Known, Zenon
<1>. DEFINE f == pt[l.stable][r.pg % NEntries]
            c == [at |-> "srcunmap", pf |-> f]
<1>2. /\ l.at = "srctemp" /\ UNCHANGED <<pt, pd, sem, req, lost>> /\ Goes(t, c)
      /\ ref' = Reffed(l.stable) /\ tmp' = [tmp EXCEPT ![l.sslot] = l.stable]
  BY Zenon DEF InstallSource, Runs, At
<1>3. l.at \in Sourcing
  BY <1>2, Zenon DEF Sourcing
<1>4. /\ l.at \in Inside /\ r \in Requests[t] /\ r.op \in Maps \union {"lookup"}
      /\ \/ r.op = "lookup" /\ l.slot = -1
         \/ /\ r.op # "lookup" /\ Walking(l, r) /\ l.tabs > 0
            /\ l.slot \in Slot /\ l.slot # -1 /\ l.table # 0 /\ tmp[l.slot] = l.table
            /\ ~l.finding /\ l.n > 0
  BY <1>3, AtSource, Zenon
<1>5. l.sslot # l.slot /\ l.sslot # -1
  BY <1>1, <1>2, <1>4, Zenon DEF Busy
<1>6. l.sslot \in Slot /\ l.stable \in Frame
  BY <1>1, <1>5, Zenon DEF Typed
<1>7. /\ tmp' \in [Slot -> Frame \union {Absent}] /\ tmp'[l.sslot] = l.stable
      /\ \A s \in Slot \ {l.sslot} : tmp'[s] = tmp[s]
  BY <1>1, <1>2, <1>6, Zenon DEF Data
<1>8. Data'
  BY <1>1, <1>2, <1>7, RefTyped, Zenon DEF Data
<1>9. \A x \in Names : k[x] = IF x \in DOMAIN c THEN c[x] ELSE l[x]
  BY <1>2, GoesFields, Zenon
<1>. HIDE DEF f
<1>10. /\ k.at = "srcunmap" /\ k.finding = l.finding /\ k.fresh = l.fresh
      /\ k.beg = l.beg /\ k.pg = l.pg /\ k.n = l.n /\ k.tab = l.tab /\ k.tabs = l.tabs
      /\ k.nempty = l.nempty /\ k.slot = l.slot /\ k.table = l.table
      /\ k.sslot = l.sslot /\ k.stable = l.stable
      /\ k.pf = f /\ k.ret = l.ret
  BY <1>9, Zenon DEF Names
<1>11. f \in 0..NFrames
  <2>1. r.pg \in Page /\ pt \in [Frame -> [Entry -> Frame]]
    BY <1>1, <1>4, RequestTyped, Zenon DEF Data
  <2>2. r.pg % NEntries \in Entry
    BY <2>1, Quotient, Constants DEF Page
  <2>3. pt[l.stable][r.pg % NEntries] \in Frame
    BY <1>6, <2>1, <2>2, Zenon
  <2>. QED  BY <2>3, Constants DEF Frame, f
<1>12. Typed(k) /\ k.at \in Inside
  BY <1>1, <1>10, <1>11, Zenon DEF Typed, Points, Inside
<1>13. Busy(loc[t], req[t], tmp)'
  <2>1. /\ tmp'[k.sslot] = k.stable /\ k.sslot # -1 /\ k.sslot # k.slot /\ req'[t] = r
        /\ k.at = "srcunmap"
    BY <1>2, <1>5, <1>7, <1>10, Zenon
  <2>2. CASE r.op = "lookup"
    BY <1>4, <1>10, <2>1, <2>2, Zenon DEF Busy
  <2>3. CASE r.op # "lookup"
    <3>1. Walking(k, r) /\ ~k.finding /\ k.n > 0 /\ k.tabs > 0
      BY <1>4, <1>10, <2>3, Zenon DEF Walking
    <3>2. k.slot # -1 /\ k.table # 0 /\ tmp'[k.slot] = k.table
      <4>1. /\ l.slot \in Slot /\ l.slot # -1 /\ l.table # 0 /\ tmp[l.slot] = l.table
        BY <1>4, <2>3, Zenon
      <4>2. tmp'[l.slot] = l.table
        BY <1>5, <1>7, <4>1, Zenon
      <4>. QED  BY <1>10, <4>1, <4>2, Zenon
    <3>. QED  BY <1>4, <2>1, <2>3, <3>1, <3>2, Zenon DEF Busy, Counted, Walking
  <2>. QED  BY <2>2, <2>3, Zenon
<1>14. ASSUME NEW s \in Slot, tmp'[s] # Absent
       PROVE  s \in lost' \/ Holds(k, s) \/ (tmp[s] # Absent /\ ~Holds(l, s))
  <2>1. CASE s = l.sslot
    BY <1>10, <2>1, Zenon DEF Holds
  <2>2. CASE s # l.sslot
    BY <1>2, <1>7, <1>10, <1>14, <2>2, Zenon DEF Holds
  <2>. QED  BY <2>1, <2>2, Zenon
<1>15. lost \subseteq lost'
  BY <1>2, Zenon
<1>. HIDE DEF c
<1>. QED  BY <1>2, <1>4, <1>8, <1>12, <1>13, <1>14, <1>15, InsideStep, Zenon

(* The second temporary page is given back.                                *)
LEMMA UnmapSourceStep ==
  ASSUME IInv, NEW t \in Thread, UnmapSource(t)
  PROVE  IInv'
<1>. DEFINE l == loc[t]
            k == loc'[t]
            r == req[t]
<1>1. /\ Data /\ l \in Locals /\ Typed(l) /\ Called(t, l, r)
      /\ (l.at \in Inside => Busy(l, r, tmp))
  BY Known, Zenon
<1>2. /\ l.at = "srcunmap" /\ UNCHANGED <<pt, pd, sem, req>>
      /\ ref' = Unreffed(ref, tmp[l.sslot]) /\ tmp' = [tmp EXCEPT ![l.sslot] = Absent]
  BY Zenon DEF UnmapSource, Runs, At
<1>3. l.at \in Sourcing
  BY <1>2, Zenon DEF Sourcing
<1>4. /\ l.at \in Inside /\ Busy(l, r, tmp) /\ r.op \in Maps \union {"lookup"}
      /\ \/ r.op = "lookup" /\ l.slot = -1
         \/ /\ r.op # "lookup" /\ Walking(l, r) /\ l.tabs > 0
            /\ l.slot \in Slot /\ l.slot # -1 /\ l.table # 0 /\ tmp[l.slot] = l.table
            /\ ~l.finding /\ l.n > 0
  BY <1>3, AtSource, Zenon
<1>5. l.sslot # l.slot /\ l.sslot # -1 /\ tmp[l.sslot] = l.stable
  BY <1>2, <1>4, Zenon DEF Busy
<1>6. l.sslot \in Slot /\ l.stable \in Frame
  BY <1>1, <1>5, Zenon DEF Typed
<1>7. /\ tmp' \in [Slot -> Frame \union {Absent}] /\ tmp'[l.sslot] = Absent
      /\ \A s \in Slot \ {l.sslot} : tmp'[s] = tmp[s]
  BY <1>1, <1>2, <1>6, Zenon DEF Data
<1>8. ref' \in [Frame -> 0..RefMax]
  <2>1. ref \in [Frame -> 0..RefMax]
    BY <1>1, Zenon DEF Data
  <2>. QED  BY <1>2, <1>5, <1>6, <2>1, UnrefTyped, Zenon
<1>9. ASSUME lost' \subseteq Slot  PROVE Data'
  BY <1>1, <1>2, <1>7, <1>8, <1>9, Zenon DEF Data
<1>10. \A s \in Slot : tmp'[s] # Absent =>
         tmp[s] # Absent /\ s # l.sslot /\ (Holds(l, s) => s = l.slot)
  BY <1>7, Zenon DEF Holds
<1>11. -1 \notin Slot
  BY Constants DEF Slot
<1>12. CASE r.op = "lookup"
  <2>1. PICK v : v = IF l.pf = 0 THEN Error ELSE l.pf
    BY Zenon
  <2>. DEFINE c == [at |-> "leave", sslot |-> -1, ret |-> v]
  <2>2. Goes(t, c) /\ UNCHANGED lost
    BY <1>12, <2>1, Zenon DEF UnmapSource
  <2>3. \A x \in Names : k[x] = IF x \in DOMAIN c THEN c[x] ELSE l[x]
    BY <2>2, GoesFields, Zenon
  <2>4. /\ k.at = "leave" /\ k.finding = l.finding /\ k.fresh = l.fresh /\ k.beg = l.beg
        /\ k.pg = l.pg /\ k.n = l.n /\ k.tab = l.tab /\ k.tabs = l.tabs
        /\ k.nempty = l.nempty /\ k.slot = l.slot /\ k.table = l.table /\ k.sslot = -1
        /\ k.stable = l.stable /\ k.pf = l.pf /\ k.ret = v
    BY <2>3, Zenon DEF Names
  <2>5. v \in Nat \union {Error}
    BY <1>1, <2>1, Constants DEF Typed
  <2>6. Typed(k) /\ k.at \in Inside
    BY <1>1, <2>4, <2>5, Zenon DEF Typed, Points, Inside
  <2>7. Busy(loc[t], req[t], tmp)'
    <3>1. k.at = "leave" /\ req'[t].op # "empty"
      BY <1>2, <1>12, <2>4, Zenon
    <3>. QED  BY <3>1, Zenon DEF Busy, Sourcing
  <2>8. Data' /\ lost \subseteq lost'
    BY <1>1, <1>9, <2>2, Zenon DEF Data
  <2>9. ASSUME NEW s \in Slot, tmp'[s] # Absent
        PROVE  s \in lost' \/ Holds(k, s) \/ (tmp[s] # Absent /\ ~Holds(l, s))
    <3>1. l.slot = -1
      BY <1>4, <1>12, Zenon
    <3>. QED  BY <1>10, <1>11, <2>9, <3>1, Zenon
  <2>. HIDE DEF c
  <2>. QED  BY <1>2, <1>4, <2>2, <2>6, <2>7, <2>8, <2>9, InsideStep, Zenon
<1>13. CASE r.op # "lookup" /\ l.pf = 0
  <2>1. Fails(t)
    BY <1>13, Zenon DEF UnmapSource
  <2>2. Data'
    <3>1. lost' \subseteq Slot
      BY <1>1, <2>1, Zenon DEF Fails, Data, Typed
    <3>. QED  BY <1>9, <3>1, Zenon
  <2>. QED  BY <1>2, <1>4, <1>10, <2>1, <2>2, FailsStep, Zenon
<1>14. CASE r.op # "lookup" /\ l.pf # 0
  <2>. DEFINE c == [at |-> "map", sslot |-> -1]
  <2>1. Goes(t, c) /\ UNCHANGED lost
    BY <1>14, Zenon DEF UnmapSource
  <2>2. \A x \in Names : k[x] = IF x \in DOMAIN c THEN c[x] ELSE l[x]
    BY <2>1, GoesFields, Zenon
  <2>3. /\ k.at = "map" /\ k.finding = l.finding /\ k.fresh = l.fresh /\ k.beg = l.beg
        /\ k.pg = l.pg /\ k.n = l.n /\ k.tab = l.tab /\ k.tabs = l.tabs
        /\ k.nempty = l.nempty /\ k.slot = l.slot /\ k.table = l.table /\ k.sslot = -1
        /\ k.stable = l.stable /\ k.pf = l.pf /\ k.ret = l.ret
    BY <2>2, Zenon DEF Names
  <2>4. Typed(k) /\ k.at \in Inside
    BY <1>1, <2>3, Zenon DEF Typed, Points, Inside
  <2>5. Busy(loc[t], req[t], tmp)'
    <3>1. Walking(k, r) /\ ~k.finding /\ k.n > 0 /\ k.tabs > 0
      BY <1>4, <1>14, <2>3, Zenon DEF Walking
    <3>2. k.slot # -1 /\ k.table # 0 /\ tmp'[k.slot] = k.table
      <4>1. /\ l.slot \in Slot /\ l.slot # -1 /\ l.table # 0 /\ tmp[l.slot] = l.table
        BY <1>4, <1>14, Zenon
      <4>2. tmp'[l.slot] = l.table
        BY <1>5, <1>7, <4>1, Zenon
      <4>. QED  BY <2>3, <4>1, <4>2, Zenon
    <3>3. k.at = "map" /\ req'[t] = r
      BY <1>2, <2>3, Zenon
    <3>. QED  BY <3>1, <3>2, <3>3, Zenon DEF Busy, Counted, Walking, Sourcing
  <2>6. Data' /\ lost \subseteq lost'
    BY <1>1, <1>9, <2>1, Zenon DEF Data
  <2>7. ASSUME NEW s \in Slot, tmp'[s] # Absent
        PROVE  s \in lost' \/ Holds(k, s) \/ (tmp[s] # Absent /\ ~Holds(l, s))
    <3>1. CASE Holds(l, s)
      <4>1. k.at = "map" /\ k.slot = s
        BY <1>10, <2>3, <2>7, <3>1, Zenon
      <4>. QED  BY <4>1, Zenon DEF Holds
    <3>. QED  BY <1>10, <2>7, <3>1, Zenon
  <2>. HIDE DEF c
  <2>. QED  BY <1>2, <1>4, <2>1, <2>4, <2>5, <2>6, <2>7, InsideStep, Zenon
<1>. QED  BY <1>12, <1>13, <1>14, Zenon

-----------------------------------------------------------------------------
(* The theorems.                                                           *)

(* Every step preserves the invariant.                                     *)
LEMMA NextIInv ==
  ASSUME KernelLocked, PagesExist, IInv, [Next]_vars
  PROVE  IInv'
<1>1. CASE Next
  <2>1. PICK t \in Thread : Call(t) \/ Step(t)
    BY <1>1, Zenon DEF Next
  <2>2. CASE Call(t)
    BY <2>2, CallStep, Zenon
  <2>3. CASE Step(t)
    BY <2>3, EnterStep, LeaveStep, ShareStep, SearchStep, CheckedStep, DoneStep, MapTableStep,
       InstallTempStep, InstallTableStep, UnmapTableStep, CountEmptyStep, AllocPageStep,
       NextPageStep, LastPageStep, MapPageStep, MapSourceStep, InstallSourceStep,
       UnmapSourceStep, Zenon DEF Step
  <2>. QED  BY <2>1, <2>2, <2>3, Zenon
<1>2. CASE UNCHANGED vars
  <2>1. UNCHANGED <<ref, pt, pd, tmp, sem, req, loc, lost>>
    BY <1>2, Zenon DEF vars
  <2>2. TypeOK' /\ Locked'
    BY <2>1, Zenon DEF IInv, TypeOK, Locked
  <2>3. (\A t \in Thread : Called(t, loc[t], req[t]))'
    BY <2>1, Zenon DEF IInv
  <2>4. (\A t \in Thread : loc[t].at \in Inside => Busy(loc[t], req[t], tmp))'
    BY <2>1, Zenon DEF IInv
  <2>5. Accounted'
    BY <2>1, Zenon DEF IInv, Accounted
  <2>. QED  BY <2>2, <2>3, <2>4, <2>5, Zenon DEF IInv
<1>. QED  BY <1>1, <1>2, Zenon

(* The invariant says who uses which temporary page.                       *)
LEMMA IInvTempExact == IInv => TempExact
<1>. SUFFICES ASSUME IInv  PROVE TempExact
  BY Zenon
<1>1. ASSUME NEW t \in Thread, NEW s \in Slot, NEW f, Uses(t, s, f)
      PROVE  loc[t].at \in Inside /\ tmp[s] = f
  <2>1. loc[t].at \in Inside
    BY <1>1, Zenon DEF Uses, At, Inside, Points
  <2>2. Busy(loc[t], req[t], tmp) /\ loc[t].slot \in Slot \union {-1}
    BY <2>1, Known, Zenon DEF Typed
  <2>3. CASE At(t, "srcunmap") /\ loc[t].sslot = s /\ loc[t].stable = f
    <3>1. loc[t].at = "srcunmap"
      BY <2>3, Zenon DEF At
    <3>2. tmp[loc[t].sslot] = loc[t].stable
      BY <2>2, <3>1, Zenon DEF Busy
    <3>. QED  BY <2>1, <2>3, <3>2, Zenon
  <2>4. CASE /\ loc[t].at \in {"install", "entries", "map", "unmap", "source", "srctemp", "srcunmap"}
             /\ loc[t].slot = s /\ s # -1 /\ loc[t].table = f
    <3>1. CASE loc[t].at \in Sourcing
      <4>1. loc[t].slot # -1
        BY <2>4, Zenon
      <4>2. tmp[loc[t].slot] = loc[t].table
        BY <3>1, <4>1, AtSource, Zenon
      <4>. QED  BY <2>1, <2>4, <4>2, Zenon
    <3>2. CASE loc[t].at \notin Sourcing
      <4>1. loc[t].at \in {"install", "entries", "map", "unmap"}
        BY <2>4, <3>2, Zenon DEF Sourcing
      <4>2. tmp[loc[t].slot] = loc[t].table
        BY <2>2, <4>1, Zenon DEF Busy
      <4>. QED  BY <2>1, <2>4, <4>2, Zenon
    <3>. QED  BY <3>1, <3>2, Zenon
  <2>. QED  BY <1>1, <2>1, <2>3, <2>4, Zenon DEF Uses
<1>2. ASSUME NEW t \in Thread, NEW s \in Slot, NEW f \in Frame, Uses(t, s, f),
             NEW u \in Thread \ {t}, NEW g \in Frame
      PROVE  ~Uses(u, s, g)
  BY <1>1, <1>2, Alone, Zenon
<1>3. ASSUME NEW t \in Thread, NEW s \in Slot, Holds(loc[t], s)
      PROVE  \E f \in Frame : Uses(t, s, f)
  <2>1. loc[t].table \in Frame /\ loc[t].stable \in Frame
    BY Known, Zenon DEF Typed
  <2>2. s # -1
    BY Constants DEF Slot
  <2>. QED  BY <1>3, <2>1, <2>2, Zenon DEF Holds, Uses, At
<1>4. ASSUME NEW s \in Slot, tmp[s] # Absent
      PROVE  s \in lost \/ \E t \in Thread, f \in Frame : Uses(t, s, f)
  <2>1. s \in lost \/ \E t \in Thread : Holds(loc[t], s)
    BY <1>4, Zenon DEF IInv, Accounted
  <2>. QED  BY <1>3, <2>1, Zenon
<1>. QED  BY <1>1, <1>2, <1>4, Zenon DEF TempExact

(* Under the kernel's semaphore the local variables of the walks over the  *)
(* page tables stay in range: no page table is taken from beyond the page  *)
(* directory and no counter runs past the pages there are.                 *)
THEOREM WalksInRange ==
  ASSUME KernelLocked, PagesExist
  PROVE  Spec => []TypeOK
<1>1. Init => IInv
  BY InitIInv, Zenon
<1>2. IInv /\ [Next]_vars => IInv'
  BY NextIInv, Zenon
<1>3. IInv => TypeOK
  BY Zenon DEF IInv
<1>. QED  BY <1>1, <1>2, <1>3, PTL DEF Spec

(* Calls under the kernel's semaphore do not disturb each other's          *)
(* temporary pages: where a thread has mapped a page table it finds that   *)
(* one until it unmaps it, for any number of threads, address spaces,      *)
(* tables, frames and temporary pages.                                     *)
THEOREM TempStaysExact ==
  ASSUME KernelLocked, PagesExist
  PROVE  Spec => []TempExact
<1>1. Init => IInv
  BY InitIInv
<1>2. IInv /\ [Next]_vars => IInv'
  BY NextIInv
<1>3. IInv => TempExact
  BY IInvTempExact, Zenon
<1>. QED  BY <1>1, <1>2, <1>3, PTL DEF Spec
=============================================================================
