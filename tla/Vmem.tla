-------------------------------- MODULE Vmem ---------------------------------
(***************************************************************************)
(* Address spaces: the functions of vmem.c under the semaphore of an       *)
(* address space, and the page tables of vmem_32.c beneath them, which the *)
(* kernel reaches only through pages that it maps temporarily.             *)
(*                                                                         *)
(* Memory is a function from page frames to what they hold as page tables. *)
(* A thread that works on a page table reads and writes the frame that its *)
(* temporary page maps at that moment.  Every step has at most one call of *)
(* pmem.c, where a thread can lose the CPU even with interrupts disabled;  *)
(* what pmem.c does at once is the subject of Pmem.  Entries hold a frame, *)
(* or zero; flags other than PRESENT are left out.                         *)
(***************************************************************************)
EXTENDS Integers, FiniteSets

CONSTANTS
  Thread,       \* the threads that call vmem.c
  AS,           \* the address spaces
  Kernel,       \* the kernel's, from which the others are initialised
  Order,        \* Order[a]: the address of the semaphore of a
  NFrames,      \* memmap_len(&g_pmem); frame 0 is never allocated
  RefMax,       \* the largest number of references to a frame
  NTables,      \* entries of a page directory
  NEntries,     \* entries of a page table
  Global,       \* entries of a page directory with VMEM_AREA_FLAG_GLOBAL
  NSlots,       \* entries of the page table of VMEM_AREA_TMPMAP
  InitPd,       \* the page directories at the beginning
  InitPt,       \* what the frames hold at the beginning
  InitRef,      \* the references to the frames at the beginning
  Preemptible,  \* threads that lose the CPU anywhere in a call
  Requests,     \* Requests[t]: the calls that t makes
  None          \* no thread, no request

Frame == 0..(NFrames - 1)
Table == 0..(NTables - 1)
Entry == 0..(NEntries - 1)
Size == NTables * NEntries
Page == 0..(Size - 1)
Slot == 0..(NSlots - 1)

Searches == {"alloc_within", "map_within", "empty", "init"}
Allocates == {"alloc_at", "alloc_within", "init"}
Maps == {"map_at", "map_within"}
Functions == Searches \union Allocates \union Maps \union {"alloc_frames", "lookup"}

(* r.as is the address space, r.src that of the source; pages are taken    *)
(* from r.lo on, or looked for from there up to r.hi; r.pg is the source   *)
(* page, and r.pf the first frame of vmem_alloc_frames.                    *)
Request ==
  [op : Functions, as : AS, src : AS, lo : Page, hi : 0..Size,
   n : Page \ {0}, pg : Page, pf : Frame]

ASSUME VmemAssumption ==
  /\ Kernel \in AS
  /\ Order \in [AS -> Nat] /\ \A a, b \in AS : Order[a] = Order[b] => a = b
  /\ NFrames \in Nat \ {0} /\ RefMax \in Nat \ 0..2 /\ NSlots \in Nat
  /\ NTables \in Nat \ {0} /\ NEntries \in Nat \ {0}
  /\ Global \subseteq Table
  /\ InitPd \in [AS -> [Table -> Frame]]
  /\ InitPt \in [Frame -> [Entry -> Frame]]
  /\ InitRef \in [Frame -> 0..RefMax]
  /\ Requests \in [Thread -> SUBSET Request]
  /\ Preemptible \subseteq Thread
  /\ None \notin Thread

VARIABLES
  ref,    \* ref[f]: references to frame f
  pt,     \* pt[f]: what frame f holds, as a page table
  pd,     \* pd[a]: the page directory of a
  tmp,    \* tmp[s]: the frame that temporary page s maps
  sem,    \* sem[a]: the thread inside the semaphore of a
  req,    \* req[t]: the call that t is in
  loc,    \* loc[t]: where t is in it, and its local variables
  lost    \* temporary pages that failed calls have left mapped

vars == <<ref, pt, pd, tmp, sem, req, loc, lost>>

\* An entry of the temporary pages' table that is not present.
Absent == -1

\* The negative results -ENOMEM, -EFAULT and so on.
Error == -1

Points ==
  {"out", "enter", "search", "table", "temp", "install", "entries", "map", "unmap",
   "source", "srctemp", "srcunmap", "share", "leave"}

(* beg, pg, n, tab, tabs, nempty: the variables of the loops.  slot, table: *)
(* the temporary page of the current page table, and the frame that was    *)
(* installed there; sslot, stable: of the source's page table.  pf: the    *)
(* frame at hand.  ret: the first page of the walk or the frame found, if  *)
(* that is returned, or Error.                                             *)
Locals ==
  [at : Points, finding : BOOLEAN, fresh : BOOLEAN, beg : 0..(2 * Size), pg : 0..Size,
   n : 0..Size, tab : 0..NTables, tabs : 0..NTables, nempty : 0..Size,
   slot : Slot \union {-1}, table : Frame, sslot : Slot \union {-1}, stable : Frame,
   pf : 0..NFrames, ret : Nat \union {Error}]

TypeOK ==
  /\ ref \in [Frame -> 0..RefMax]
  /\ pt \in [Frame -> [Entry -> Frame]]
  /\ pd \in [AS -> [Table -> Frame]]
  /\ tmp \in [Slot -> Frame \union {Absent}]
  /\ sem \in [AS -> Thread \union {None}]
  /\ req \in [Thread -> Request \union {None}]
  /\ \A t \in Thread : req[t] \in Requests[t] \union {None}
  /\ loc \in [Thread -> Locals]
  /\ lost \subseteq Slot

Idling ==
  [at |-> "out", finding |-> FALSE, fresh |-> FALSE, beg |-> 0, pg |-> 0, n |-> 0,
   tab |-> 0, tabs |-> 0, nempty |-> 0, slot |-> -1, table |-> 0, sslot |-> -1,
   stable |-> 0, pf |-> 0, ret |-> Error]

Init ==
  /\ ref = InitRef
  /\ pt = InitPt
  /\ pd = InitPd
  /\ tmp = [s \in Slot |-> Absent]
  /\ sem = [a \in AS |-> None]
  /\ req = [t \in Thread |-> None]
  /\ loc = [t \in Thread |-> Idling]
  /\ lost = {}

At(t, point) == loc[t].at = point

(* Threads that run with interrupts disabled lose the CPU in a call only   *)
(* where they sleep.  They do so in semaphore_enter, and if they also do   *)
(* so in pmem.c they count as Preemptible.                                 *)
CanRun(t) ==
  \A u \in Thread \ {t} : u \in Preemptible \/ At(u, "out") \/ At(u, "enter")

Runs(t, point) == At(t, point) /\ CanRun(t)

\* These local variables, with some of them changed.
With(l, changes) ==
  [x \in DOMAIN l |-> IF x \in DOMAIN changes THEN changes[x] ELSE l[x]]

Goes(t, changes) == loc' = [loc EXCEPT ![t] = With(@, changes)]

-----------------------------------------------------------------------------
(* The calls of pmem.c: each yields the new references.                    *)

FreeFrames == {f \in Frame \ {0} : ref[f] = 0}

\* pmem_alloc_frames(1) takes the lowest frame that is free.
Lowest(S) == CHOOSE x \in S : \A y \in S : x <= y

\* pmem_ref_frames fails for frames without references or with too many.
CanRef(f) == f \in Frame /\ ref[f] \in 1..(RefMax - 1)

\* Mutant: pmem_ref_frames does not know the limit.
ReffedUnchecked(f) == [ref EXCEPT ![f] = @ + 1]

Reffed(f) == IF CanRef(f) THEN [ref EXCEPT ![f] = @ + 1] ELSE ref

Unreffed(r, f) == IF f > 0 /\ r[f] > 0 THEN [r EXCEPT ![f] = @ - 1] ELSE r

-----------------------------------------------------------------------------
(* Entering and leaving.  Two semaphores are entered in the order of their *)
(* addresses.                                                              *)

Spaces(r) == IF r.op \in Maps THEN {r.as, r.src} ELSE {r.as}

\* pagetable_count and the variables that a walk over n pages begins with.
Walk(finding, p, n) ==
  [at |-> "table", finding |-> finding, pg |-> p, n |-> n, tab |-> p \div NEntries,
   tabs |-> 1 + (p + n - 1) \div NEntries - p \div NEntries, nempty |-> 0, ret |-> p]

Call(t) ==
  /\ Runs(t, "out")
  /\ \E r \in Requests[t] :
       \* The system service receives into the page that it has found.
       /\ r.op = "map_at" => loc[t].ret # Error
       /\ req' = [req EXCEPT ![t] = r]
       /\ Goes(t, [at |-> "enter", pf |-> r.pf])
  /\ UNCHANGED <<ref, pt, pd, tmp, sem, lost>>

Entered(t, r) ==
  IF r.op \in Searches THEN [at |-> "search", beg |-> r.lo]
  ELSE IF r.op = "lookup" THEN [at |-> "source"]
  ELSE Walk(FALSE, IF r.op = "map_at" THEN loc[t].ret ELSE r.lo, r.n)

Enter(t) ==
  /\ Runs(t, "enter")
  /\ LET ahead == {a \in Spaces(req[t]) : sem[a] # t}
     IN  \E a \in ahead :
           /\ \A b \in ahead : Order[a] <= Order[b]
           /\ sem[a] = None
           /\ sem' = [sem EXCEPT ![a] = t]
           /\ IF ahead = {a} THEN Goes(t, Entered(t, req[t])) ELSE UNCHANGED loc
  /\ UNCHANGED <<ref, pt, pd, tmp, req, lost>>

\* Only vmem_empty_pages_in_area has a result that is used later.
Returned(t) ==
  With(Idling, [ret |-> IF req[t].op = "empty" THEN loc[t].ret ELSE Error])

Leave(t) ==
  /\ Runs(t, "leave")
  /\ sem' = [a \in AS |-> IF sem[a] = t THEN None ELSE sem[a]]
  /\ IF req[t].op = "init" /\ loc[t].ret # Error
     THEN Goes(t, [at |-> "share"]) /\ UNCHANGED req
     ELSE /\ loc' = [loc EXCEPT ![t] = Returned(t)]
          /\ req' = [req EXCEPT ![t] = None]
  /\ UNCHANGED <<ref, pt, pd, tmp, lost>>

\* The page tables of global areas, which a page directory has from its parent.
SharedFrom(parent) == [i \in Table |-> IF i \in Global THEN pd[parent][i] ELSE 0]

(* The rest of vmem_init_from_parent: the new page directory is in the     *)
(* page just allocated, and shares the global entries of its parent.       *)
Share(t) ==
  /\ Runs(t, "share")
  /\ pd' = [pd EXCEPT ![req[t].src] = SharedFrom(req[t].as)]
  /\ loc' = [loc EXCEPT ![t] = Idling]
  /\ req' = [req EXCEPT ![t] = None]
  /\ UNCHANGED <<ref, pt, tmp, sem, lost>>

(* An error leaves everything as it is: "TODO: clean up" (vmem_32.c:363,   *)
(* 443 and 497).  The page table in use stays mapped.                      *)
Fails(t) ==
  /\ Goes(t, [at |-> "leave", ret |-> Error])
  /\ lost' = IF loc[t].slot = -1 THEN lost ELSE lost \union {loc[t].slot}

-----------------------------------------------------------------------------
(* find_empty_pages.                                                       *)

\* Mutant: the first pages are taken without a look at them.
SearchNotEmpty(t) ==
  /\ Runs(t, "search")
  /\ LET r == req[t]
         l == loc[t]
     IN  IF l.beg < r.hi /\ r.n < r.hi - l.beg
         THEN Goes(t, Walk(r.op = "empty", l.beg, r.n)) /\ UNCHANGED lost
         ELSE Fails(t)
  /\ UNCHANGED <<ref, pt, pd, tmp, sem, req>>

Search(t) ==
  /\ Runs(t, "search")
  /\ LET r == req[t]
         l == loc[t]
     IN  IF l.beg < r.hi /\ r.n < r.hi - l.beg
         THEN Goes(t, Walk(TRUE, l.beg, r.n)) /\ UNCHANGED lost
         ELSE Fails(t)
  /\ UNCHANGED <<ref, pt, pd, tmp, sem, req>>

\* vmem_32_check_empty_pages has seen the last page table.
Checked(t) ==
  /\ Runs(t, "table") /\ loc[t].tabs = 0 /\ loc[t].finding
  /\ LET r == req[t]
         l == loc[t]
     IN  IF l.nempty # r.n THEN Goes(t, [at |-> "search", beg |-> l.beg + l.nempty + 1])
         ELSE IF r.op = "empty" THEN Goes(t, [at |-> "leave"])
         ELSE Goes(t, Walk(FALSE, l.beg, r.n))
  /\ UNCHANGED <<ref, pt, pd, tmp, sem, req, lost>>

\* vmem_32_alloc_pages and its like have seen the last page table.
Done(t) ==
  /\ Runs(t, "table") /\ loc[t].tabs = 0 /\ ~loc[t].finding
  /\ Goes(t, [at |-> "leave"])
  /\ UNCHANGED <<ref, pt, pd, tmp, sem, req, lost>>

-----------------------------------------------------------------------------
(* map_page_table: the current page table, or a new one, in a temporary    *)
(* page.  A page whose entry holds frame zero counts as empty.             *)

\* Entries from that of page p to the end of its page table.
Rest(p) == NEntries - (p % NEntries)

EmptySlots == {s \in Slot : tmp[s] \in {0, Absent}}

\* Without a page table and without leave to create one, frame 0 is mapped.
Needed(t) == pd[req[t].as][loc[t].tab] = 0 /\ ~loc[t].finding

\* There is no page table: it counts as empty, or the call fails.
NoTable(t) ==
  IF loc[t].finding
  THEN /\ Goes(t, [nempty |-> loc[t].nempty +
                              Lowest({loc[t].n, Rest(loc[t].pg)}),
                   tab |-> loc[t].tab + 1, tabs |-> loc[t].tabs - 1])
       /\ UNCHANGED lost
  ELSE Fails(t)

MapTable(t) ==
  /\ Runs(t, "table") /\ loc[t].tabs > 0
  /\ IF (Needed(t) /\ FreeFrames = {}) \/ EmptySlots = {}
     THEN NoTable(t) /\ UNCHANGED ref
     ELSE LET f == IF Needed(t) THEN Lowest(FreeFrames) ELSE pd[req[t].as][loc[t].tab]
          IN  /\ Goes(t, [at |-> "temp", fresh |-> Needed(t), table |-> f,
                          slot |-> Lowest(EmptySlots)])
              /\ ref' = IF Needed(t) THEN [ref EXCEPT ![f] = 1] ELSE ref
              /\ UNCHANGED lost
  /\ UNCHANGED <<pt, pd, tmp, sem, req>>

\* The rest of install_temp_page_frame, and page_table_init.
InstallTemp(t) ==
  /\ Runs(t, "temp")
  /\ ref' = Reffed(loc[t].table)
  /\ tmp' = [tmp EXCEPT ![loc[t].slot] = loc[t].table]
  /\ IF loc[t].fresh
     THEN /\ pt' = [pt EXCEPT ![loc[t].table] = [e \in Entry |-> 0]]
          /\ Goes(t, [at |-> "install"])
     ELSE Goes(t, [at |-> "entries"]) /\ UNCHANGED pt
  /\ UNCHANGED <<pd, sem, req, lost>>

\* Mutant: the page directory holds no reference.
InstallTableUnreffed(t) ==
  /\ Runs(t, "install")
  /\ pd' = [pd EXCEPT ![req[t].as][loc[t].tab] = loc[t].table]
  /\ Goes(t, [at |-> "entries", fresh |-> FALSE])
  /\ UNCHANGED <<ref, pt, tmp, sem, req, lost>>

\* page_directory_install_page_table.  The new frame has two references.
InstallTable(t) ==
  /\ Runs(t, "install")
  /\ ref' = Unreffed(Reffed(loc[t].table), pd[req[t].as][loc[t].tab])
  /\ pd' = [pd EXCEPT ![req[t].as][loc[t].tab] = loc[t].table]
  /\ Goes(t, [at |-> "entries", fresh |-> FALSE])
  /\ UNCHANGED <<pt, tmp, sem, req, lost>>

-----------------------------------------------------------------------------
(* The entries of the page table behind the temporary page.                *)

EntryOf(s, p) == pt[tmp[s]][p % NEntries]

InTable(l) == l.n > 0 /\ l.pg \div NEntries = l.tab

\* Empty pages at the beginning of what is left in the page table.
CountEmpty(t) ==
  /\ Runs(t, "entries") /\ loc[t].finding
  /\ LET l == loc[t]
         len == Lowest({l.n, Rest(l.pg)})
         k == Lowest({i \in 0..len : i = len \/ EntryOf(l.slot, l.pg + i) # 0})
     IN  Goes(t, [at |-> "unmap", pg |-> l.pg + k, n |-> l.n - k, nempty |-> l.nempty + k])
  /\ UNCHANGED <<ref, pt, pd, tmp, sem, req, lost>>

AllocPage(t) ==
  /\ Runs(t, "entries") /\ ~loc[t].finding /\ InTable(loc[t])
  /\ req[t].op \in Allocates
  /\ IF FreeFrames = {}
     THEN Fails(t) /\ UNCHANGED ref
     ELSE /\ ref' = [ref EXCEPT ![Lowest(FreeFrames)] = 1]
          /\ Goes(t, [at |-> "map", pf |-> Lowest(FreeFrames)])
          /\ UNCHANGED lost
  /\ UNCHANGED <<pt, pd, tmp, sem, req>>

\* The next frame of vmem_32_alloc_frames, or the source of a mapping.
NextPage(t) ==
  /\ Runs(t, "entries") /\ ~loc[t].finding /\ InTable(loc[t])
  /\ req[t].op \notin Allocates
  /\ Goes(t, [at |-> IF req[t].op \in Maps THEN "source" ELSE "map"])
  /\ UNCHANGED <<ref, pt, pd, tmp, sem, req, lost>>

LastPage(t) ==
  /\ Runs(t, "entries") /\ ~loc[t].finding /\ ~InTable(loc[t])
  /\ Goes(t, [at |-> "unmap"])
  /\ UNCHANGED <<ref, pt, pd, tmp, sem, req, lost>>

\* page_table_map_page_frame.
MapPage(t) ==
  /\ Runs(t, "map")
  /\ LET l == loc[t]
     IN  IF CanRef(l.pf)
         THEN /\ ref' = Unreffed(Reffed(l.pf), EntryOf(l.slot, l.pg))
              /\ pt' = [pt EXCEPT ![tmp[l.slot]][l.pg % NEntries] = l.pf]
              /\ Goes(t, [at |-> "entries", pg |-> l.pg + 1, n |-> l.n - 1,
                          pf |-> IF req[t].op = "alloc_frames" THEN l.pf + 1 ELSE 0])
              /\ UNCHANGED lost
         ELSE Fails(t) /\ UNCHANGED <<ref, pt>>
  /\ UNCHANGED <<pd, tmp, sem, req>>

\* Mutant: the temporary page is not unmapped.
UnmapNothing(t) ==
  /\ Runs(t, "unmap")
  /\ Goes(t, [at |-> "table", slot |-> -1, tab |-> loc[t].tab + 1, tabs |-> loc[t].tabs - 1])
  /\ UNCHANGED <<ref, pt, pd, tmp, sem, req, lost>>

\* unmap_page_table, and on to the next page table.
UnmapTable(t) ==
  /\ Runs(t, "unmap")
  /\ ref' = Unreffed(ref, tmp[loc[t].slot])
  /\ tmp' = [tmp EXCEPT ![loc[t].slot] = Absent]
  /\ Goes(t, [at |-> "table", slot |-> -1, tab |-> loc[t].tab + 1, tabs |-> loc[t].tabs - 1])
  /\ UNCHANGED <<pt, pd, sem, req, lost>>

-----------------------------------------------------------------------------
(* vmem_32_lookup_frame, in the source's page table.  A mapping of several *)
(* pages looks up the same source page every time.                         *)

MapSource(t) ==
  /\ Runs(t, "source")
  /\ IF EmptySlots = {}
     THEN Fails(t)
     ELSE /\ Goes(t, [at |-> "srctemp", sslot |-> Lowest(EmptySlots),
                      stable |-> pd[req[t].src][req[t].pg \div NEntries]])
          /\ UNCHANGED lost
  /\ UNCHANGED <<ref, pt, pd, tmp, sem, req>>

InstallSource(t) ==
  /\ Runs(t, "srctemp")
  /\ ref' = Reffed(loc[t].stable)
  /\ tmp' = [tmp EXCEPT ![loc[t].sslot] = loc[t].stable]
  /\ Goes(t, [at |-> "srcunmap", pf |-> pt[loc[t].stable][req[t].pg % NEntries]])
  /\ UNCHANGED <<pt, pd, sem, req, lost>>

UnmapSource(t) ==
  /\ Runs(t, "srcunmap")
  /\ LET l == loc[t]
     IN  /\ ref' = Unreffed(ref, tmp[l.sslot])
         /\ tmp' = [tmp EXCEPT ![l.sslot] = Absent]
         /\ IF req[t].op = "lookup"
            THEN /\ Goes(t, [at |-> "leave", sslot |-> -1,
                             ret |-> IF l.pf = 0 THEN Error ELSE l.pf])
                 /\ UNCHANGED lost
            ELSE IF l.pf = 0 THEN Fails(t)
            ELSE Goes(t, [at |-> "map", sslot |-> -1]) /\ UNCHANGED lost
  /\ UNCHANGED <<pt, pd, sem, req>>

-----------------------------------------------------------------------------
Step(t) ==
  \/ Enter(t) \/ Leave(t) \/ Share(t)
  \/ Search(t) \/ Checked(t) \/ Done(t)
  \/ MapTable(t) \/ InstallTemp(t) \/ InstallTable(t) \/ UnmapTable(t)
  \/ CountEmpty(t) \/ AllocPage(t) \/ NextPage(t) \/ LastPage(t) \/ MapPage(t)
  \/ MapSource(t) \/ InstallSource(t) \/ UnmapSource(t)

Next == \E t \in Thread : Call(t) \/ Step(t)

Spec == Init /\ [][Next]_vars

-----------------------------------------------------------------------------
(* Properties.                                                             *)

\* Every call enters the kernel's semaphore.
KernelLocked == \A t \in Thread : \A r \in Requests[t] : Kernel \in Spaces(r)

\* Calls that name pages name pages of the address space, and a message is
\* no larger than the pages that were found for it.
PagesExist ==
  \A t \in Thread : \A r \in Requests[t] :
    /\ r.op \in {"alloc_at", "alloc_frames"} => r.lo + r.n <= Size
    /\ r.op = "map_at" => \A s \in Requests[t] : s.op = "empty" => r.n <= s.n

\* t works on page table f behind temporary page s.
Uses(t, s, f) ==
  \/ /\ loc[t].at \in {"install", "entries", "map", "unmap", "source", "srctemp", "srcunmap"}
     /\ loc[t].slot = s /\ s # -1 /\ loc[t].table = f
  \/ At(t, "srcunmap") /\ loc[t].sslot = s /\ loc[t].stable = f

(* The temporary pages (vmem_32.c:97-162): where a thread has mapped a     *)
(* page table, it finds that one until it unmaps it, no other thread uses  *)
(* the page, and every page that maps something is in use, or was left     *)
(* behind by a call that failed.                                           *)
TempExact ==
  /\ \A t \in Thread, s \in Slot, f \in Frame : Uses(t, s, f) =>
       /\ tmp[s] = f
       /\ \A u \in Thread \ {t}, g \in Frame : ~Uses(u, s, g)
  /\ \A s \in Slot : tmp[s] # Absent =>
       s \in lost \/ \E t \in Thread, f \in Frame : Uses(t, s, f)

\* Page tables; those of global areas are in several page directories.
Tables == {pd[a][i] : a \in AS, i \in Table} \ {0}

\* The entries that hold frame f.
Mappings(f) ==
  Cardinality({x \in Tables \X Entry : pt[x[1]][x[2]] = f})
  + Cardinality({s \in Slot : tmp[s] = f})
  + (IF f \in Tables THEN 1 ELSE 0)

(* Reference counting (pagetbl.c:38-106, pagedir.c:38-110): a frame has    *)
(* one reference from pmem_alloc_frames or pmem_claim_frames, and one for  *)
(* every entry that holds it, so that no frame in use is given out again.  *)
(* install_temp_page_frame ignores that a counter is at its limit          *)
(* (vmem_32.c:121); the counter then stays near the limit, although every  *)
(* temporary mapping gives back a reference it has not got.                *)
RefsExact ==
  \A f \in Frame \ {0} :
    \/ ref[f] = 0 /\ Mappings(f) = 0
    \/ ref[f] = Mappings(f) + 1
    \/ ref[f] >= RefMax - 2 /\ Mappings(f) >= RefMax - 2

\* The frame that page p of address space a is mapped to.
FrameOf(a, p) ==
  LET f == pd[a][p \div NEntries] IN IF f = 0 THEN 0 ELSE pt[f][p % NEntries]

(* A page that is mapped stays mapped to its frame, whatever is allocated  *)
(* or mapped by functions that look for empty pages (vmem.c:177-197).      *)
(* Functions that are told the page replace it: the page that the system   *)
(* service found empty may be in use when it maps its message there        *)
(* (syssrv.c:83, ipc.c:185).                                               *)
PagesKept ==
  [][\A a \in AS, p \in Page :
       FrameOf(a, p) \notin {0, FrameOf(a, p)'} =>
         \E t \in Thread : At(t, "map") /\ req[t].op \notin Searches]_vars
=============================================================================
