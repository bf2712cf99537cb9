------------------------------ MODULE Multiboot ------------------------------
(***************************************************************************)
(* Memory at boot: multiboot.c finds room for the memory map of pmem.c,    *)
(* claims the frames that hold the kernel, its modules and the boot        *)
(* loader's data, maps them one to one in the kernel's address space,      *)
(* enables paging, and then gives its claims back.                         *)
(*                                                                         *)
(* Everything runs before interrupts are enabled.  What multiboot_init does *)
(* is a sequence of operations, which depends on the layout of memory; the *)
(* next one is the head of todo, and the first one that fails is the last. *)
(* Exec goes on with the kernel's threads and the modules.                 *)
(* Addresses are bytes, of which a page frame has PageSize.                *)
(***************************************************************************)
EXTENDS Integers, FiniteSets, SequencesExt

CONSTANTS
  PageSize,      \* PAGEFRAME_SIZE
  MaxFrames,     \* no layout has more frames
  NEntries,      \* entries of a page table; the first one is KERNEL_LOW's
  KernelTables,  \* page tables of VMEM_AREA_KERNEL
  RefMax,        \* the largest number of references to a frame
  InfoSize,      \* sizeof(struct multiboot_info)
  ModSize,       \* sizeof(struct multiboot_mod_list)
  VgaAddr,       \* the address of the frame buffer
  VgaSize,       \* the size of its window
  Layouts        \* how the boot loader may leave memory

Frame == 0..(MaxFrames - 1)
Table == 0..(KernelTables + 1)
KernelBeg == NEntries
KernelEnd == (KernelTables + 1) * NEntries
Page == 0..((KernelTables + 2) * NEntries - 1)

ASSUME MultibootAssumption ==
  /\ PageSize \in Nat \ {0} /\ RefMax \in Nat \ {0}
  /\ NEntries \in Nat \ {0, 1} /\ KernelTables \in Nat \ {0}
  /\ MaxFrames <= KernelEnd

VARIABLES
  lay,      \* the layout of memory
  todo,     \* the operations that multiboot_init has before it
  running,  \* whether it has not returned
  paging,   \* whether paging is enabled
  nframes,  \* the length of the memory map, or zero
  avail,    \* frames of type PMEM_TYPE_AVAILABLE
  ref,      \* ref[f]: references to frame f
  pd,       \* the frame of the kernel's page directory, or zero
  tabs,     \* tabs[i]: the frame of its page table i, or zero
  kmap      \* kmap[p]: the frame that page p is mapped to, or zero

mbVars == <<lay, todo, running, paging, nframes, avail, ref, pd, tabs, kmap>>

-----------------------------------------------------------------------------
(* Page frames of addresses.                                               *)

pageframe_index(addr) == addr \div PageSize
pageframe_count(bytes) == (bytes + PageSize - 1) \div PageSize
pageframe_span(addr, bytes) ==
  IF bytes = 0 THEN 0
  ELSE 1 + pageframe_index(addr + bytes - 1) - pageframe_index(addr)

\* An operation on n frames from pf on.
Op(op, pf, n) == [op |-> op, pf |-> pf, n |-> n]
Span(op, addr, bytes) == Op(op, pageframe_index(addr), pageframe_span(addr, bytes))
Step(op) == Op(op, 0, 0)

\* The operations of every element, one after the other.
ForEach(s, Ops(_)) == FlattenSeq([i \in DOMAIN s |-> Ops(s[i])])

-----------------------------------------------------------------------------
(* What the boot loader left: entries of the memory map, sections of the   *)
(* kernel and modules.                                                     *)

Available(l) == SelectSeq(l.mmap, LAMBDA m : m.available)
InMemory(l) == SelectSeq(l.sections, LAMBDA s : s.addr # 0)

Sections(op, l) == ForEach(InMemory(l), LAMBDA s : <<Span(op, s.addr, s.size)>>)

\* mod_end is the last address, or the one after it.
Module(op, m) == Span(op, m.start, m.end - m.start + 1)
CommandLine(op, m) == IF m.cmd = 0 THEN <<>> ELSE <<Span(op, m.cmd, m.cmdlen)>>
Modules(op, l) == ForEach(l.mods, LAMBDA m : <<Module(op, m)>>)

-----------------------------------------------------------------------------
(* The memory map.                                                         *)

overlaps_with(beg1, len1, beg2, len2) ==
  ~(beg1 + len1 <= beg2 \/ beg2 + len2 <= beg1)

is_within(inner, innerlen, outer, outerlen) ==
  inner >= outer /\ inner + innerlen <= outer + outerlen

\* Mutant: only sections are avoided.
PastSections(l, pf, n) ==
  FoldLeft(LAMBDA p, a : IF overlaps_with(p, n, a.pf, a.n) THEN a.pf + a.n ELSE p,
           pf, Sections("area", l))

\* One pass over sections and modules, moving behind each that is in the way.
Past(l, pf, n) ==
  FoldLeft(LAMBDA p, a : IF overlaps_with(p, n, a.pf, a.n) THEN a.pf + a.n ELSE p,
           pf, Sections("area", l) \o Modules("area", l))

\* The first entry with room for n frames, or zero.
find_unused_area(l, n) ==
  LET Beg(m) == pageframe_index(m.addr)
      Len0(m) == pageframe_span(m.addr, m.len)
      Fits(m) == /\ Beg(m) # 0 /\ Len0(m) >= n
                 /\ is_within(Past(l, Beg(m), n), n, Beg(m), Len0(m))
      fitting == SelectSeq(Available(l), Fits)
  IN  IF fitting = <<>> THEN 0 ELSE Past(l, Beg(Head(fitting)), n)

available_frames(l) ==
  FoldLeft(LAMBDA n, m : LET end == pageframe_index(m.addr) + pageframe_span(m.addr, m.len)
                         IN  IF end > n THEN end ELSE n,
           0, Available(l))

\* An element of the map takes one byte.
memmap(l) == find_unused_area(l, pageframe_count(available_frames(l)))
MemMap(op, l) == Op(op, memmap(l), pageframe_count(available_frames(l)))

-----------------------------------------------------------------------------
(* The operations of multiboot_init.                                       *)

mark_mmap_areas(l) == ForEach(Available(l), LAMBDA m : <<Span("type", m.addr, m.len)>>)

\* The boot loader's data: info, entries of the memory map, list of modules.
Data(op, l) ==
  <<Span(op, l.info, InfoSize), Span(op, l.mmapaddr, l.mmaplen)>>
  \o (IF l.mods = <<>> THEN <<>> ELSE <<Span(op, l.modsaddr, Len(l.mods) * ModSize)>>)

claim_multiboot_frames(l) == Data("claim", l)
claim_kernel_frames(l) == Sections("claim", l)
claim_modules_frames(l) ==
  ForEach(l.mods, LAMBDA m : <<Module("claim", m)>> \o CommandLine("claim", m))

init_pmem_from_multiboot(l) ==
  <<Step("pmem_init")>> \o mark_mmap_areas(l) \o <<MemMap("claim", l)>>
  \o claim_multiboot_frames(l) \o claim_kernel_frames(l) \o claim_modules_frames(l)

vmem_alloc_page_tables_nopg(ptindex, ptcount) ==
  [i \in 1..ptcount |-> Op("table", 0, ptindex + i - 1)]

\* Areas overlap in no page table, so each page table is allocated once.
vmem_init_nopg ==
  <<Step("directory")>> \o vmem_alloc_page_tables_nopg(0, KernelTables + 2)
  \o <<Step("tmp"), Step("map_directory")>>

\* A module's length is rounded up from its start, which is page aligned.
map_modules_frames(l) ==
  ForEach(l.mods, LAMBDA m :
    <<Op("map", pageframe_index(m.start), pageframe_count(m.end - m.start))>>
    \o CommandLine("map", m))

init_vmem_from_multiboot(l) ==
  vmem_init_nopg \o <<MemMap("map", l)>> \o Data("map", l) \o Sections("map", l)
  \o map_modules_frames(l)

\* Mutant: the kernel's frames are given back twice.
ReclaimTwice(l) == Sections("unref", l) \o Sections("unref", l)

reclaim_kernel_frames(l) == Sections("unref", l)
reclaim_modules_frames(l) ==
  ForEach(l.mods, LAMBDA m : CommandLine("unref", m) \o <<Module("unref", m)>>)
reclaim_multiboot_frames(l) == Reverse(Data("unref", l))

multiboot_vga_late_init == Span("vga", VgaAddr, VgaSize)

\* The part of multiboot_init that sets up memory.
init_memory(l) ==
  init_pmem_from_multiboot(l) \o init_vmem_from_multiboot(l)
  \o <<multiboot_vga_late_init, Step("paging")>>
  \o reclaim_modules_frames(l) \o reclaim_kernel_frames(l) \o reclaim_multiboot_frames(l)

-----------------------------------------------------------------------------
MBInit ==
  /\ lay \in Layouts
  /\ running = TRUE
  /\ paging = FALSE
  /\ nframes = 0
  /\ avail = {}
  /\ ref = [f \in Frame |-> 0]
  /\ pd = 0
  /\ tabs = [i \in Table |-> 0]
  /\ kmap = [p \in Page |-> 0]

Do(op) == running /\ todo # <<>> /\ Head(todo).op = op

Done == todo' = Tail(todo) /\ UNCHANGED running

\* An error: multiboot_init returns.
Fails == running' = FALSE /\ todo' = <<>>

Frames(o) == o.pf..(o.pf + o.n - 1)

\* The test at the beginning of the functions of pmem.c.
InMap(o) == o.n <= nframes /\ o.pf <= nframes - o.n

Free(r) == {f \in avail \ {0} : f < nframes /\ r[f] = 0}
LowestOf(S) == CHOOSE x \in S : \A y \in S : x <= y

\* checked_ref_frame and checked_unref_frame for the frames of a set.
Ref(r, F) == [f \in Frame |-> IF f \in F THEN r[f] + 1 ELSE r[f]]
Unref(r, F) == [f \in Frame |-> IF f \in F /\ r[f] > 0 THEN r[f] - 1 ELSE r[f]]

CanClaim(o) == InMap(o) /\ \A f \in Frames(o) : ref[f] < RefMax
CanRef(r, f) == f < nframes /\ r[f] \in 1..(RefMax - 1)

\* alloc_memmap and pmem_init.
PmemInit ==
  /\ Do("pmem_init")
  /\ IF memmap(lay) = 0
     THEN Fails /\ UNCHANGED nframes
     ELSE Done /\ nframes' = available_frames(lay)
  /\ UNCHANGED <<lay, paging, avail, ref, pd, tabs, kmap>>

SetType ==
  /\ Do("type")
  /\ IF InMap(Head(todo)) THEN Done /\ avail' = avail \union Frames(Head(todo))
     ELSE Fails /\ UNCHANGED avail
  /\ UNCHANGED <<lay, paging, nframes, ref, pd, tabs, kmap>>

Claim ==
  /\ Do("claim")
  /\ IF CanClaim(Head(todo)) THEN Done /\ ref' = Ref(ref, Frames(Head(todo)))
     ELSE Fails /\ UNCHANGED ref
  /\ UNCHANGED <<lay, paging, nframes, avail, pd, tabs, kmap>>

Reclaim ==
  /\ Do("unref")
  /\ ref' = IF InMap(Head(todo)) THEN Unref(ref, Frames(Head(todo))) ELSE ref
  /\ Done
  /\ UNCHANGED <<lay, paging, nframes, avail, pd, tabs, kmap>>

-----------------------------------------------------------------------------
(* Paging structures, while paging is disabled.                            *)

AllocDirectory ==
  /\ Do("directory")
  /\ IF Free(ref) = {} THEN Fails /\ UNCHANGED <<ref, pd>>
     ELSE /\ pd' = LowestOf(Free(ref))
          /\ ref' = Ref(ref, {pd'})
          /\ Done
  /\ UNCHANGED <<lay, paging, nframes, avail, tabs, kmap>>

\* The frame of a page table has one reference more than a page's.
AllocTable ==
  /\ Do("table")
  /\ IF Free(ref) = {} THEN Fails /\ UNCHANGED <<ref, tabs>>
     ELSE LET f == LowestOf(Free(ref))
          IN  /\ tabs' = [tabs EXCEPT ![Head(todo).n] = f]
              /\ ref' = Ref(Ref(ref, {f}), {f})
              /\ Done
  /\ UNCHANGED <<lay, paging, nframes, avail, pd, kmap>>

\* Mutant: page_table_map_page_frame takes no reference.
MapUnreffed(st, o) ==
  [st EXCEPT !.kmap = [p \in Page |-> IF p \in Frames(o) THEN p ELSE st.kmap[p]]]

(* vmem_map_pageframes_nopg for an identity mapping of o's frames, on the  *)
(* state st = [ok, ref, kmap].  Pages before the one that fails remain.    *)
MapFrames(st, o) ==
  LET bad == {p \in Frames(o) : tabs[p \div NEntries] = 0 \/ ~CanRef(st.ref, p)}
      good == {p \in Frames(o) : \A q \in bad : p < q}
      old == {st.kmap[p] : p \in good} \ {0}
  IN  [ok |-> bad = {},
       ref |-> Unref(Ref(st.ref, good), old),
       kmap |-> [p \in Page |-> IF p \in good THEN p ELSE st.kmap[p]]]

Mapped(st) ==
  /\ ref' = st.ref
  /\ kmap' = st.kmap
  /\ IF st.ok THEN Done ELSE Fails

\* The last page of KERNEL_LOW holds the page table of the temporary pages.
TempFrame == NEntries - 1
TempTable == KernelTables + 1

(* vmem_32_install_tmp_nopg.  The page table that was allocated for the    *)
(* area before keeps one reference.  Nothing reads what a failure leaves.  *)
InstallTmp ==
  /\ Do("tmp")
  /\ LET o == Op("claim", TempFrame, 1)
         r == Unref(Ref(Ref(ref, {TempFrame}), {TempFrame}), {tabs[TempTable]})
     IN  IF InMap(o) /\ ref[TempFrame] + 2 < RefMax
         THEN /\ Mapped(MapFrames([ok |-> TRUE, ref |-> r, kmap |-> kmap], o))
              /\ tabs' = [tabs EXCEPT ![TempTable] = TempFrame]
         ELSE Fails /\ UNCHANGED <<ref, kmap, tabs>>
  /\ UNCHANGED <<lay, paging, nframes, avail, pd>>

State == [ok |-> TRUE, ref |-> ref, kmap |-> kmap]

MapRange ==
  /\ Do("map")
  /\ Mapped(MapFrames(State, Head(todo)))
  /\ UNCHANGED <<lay, paging, nframes, avail, pd, tabs>>

MapDirectory ==
  /\ Do("map_directory")
  /\ Mapped(MapFrames(State, Op("map", pd, 1)))
  /\ UNCHANGED <<lay, paging, nframes, avail, pd, tabs>>

\* map_io_range_nopg: a claim, given back if the mapping fails.
MapIoRange ==
  /\ Do("vga")
  /\ IF CanClaim(Head(todo))
     THEN LET st == MapFrames([State EXCEPT !.ref = Ref(ref, Frames(Head(todo)))],
                              Head(todo))
          IN  Mapped(IF st.ok THEN st
                     ELSE [st EXCEPT !.ref = Unref(@, Frames(Head(todo)))])
     ELSE Fails /\ UNCHANGED <<ref, kmap>>
  /\ UNCHANGED <<lay, paging, nframes, avail, pd, tabs>>

EnablePaging ==
  /\ Do("paging")
  /\ paging' = TRUE
  /\ Done
  /\ UNCHANGED <<lay, nframes, avail, ref, pd, tabs, kmap>>

MBNext ==
  \/ PmemInit \/ SetType \/ Claim \/ Reclaim
  \/ AllocDirectory \/ AllocTable \/ InstallTmp
  \/ MapRange \/ MapDirectory \/ MapIoRange \/ EnablePaging

-----------------------------------------------------------------------------
(* Properties.                                                             *)

Taken(l) == UNION {Frames(o) : o \in Range(Sections("area", l) \o Modules("area", l))}

\* n frames from pf on are available, and neither the kernel's nor a module's.
Unused(l, pf, n) ==
  /\ \E m \in Range(Available(l)) :
       /\ pageframe_index(m.addr) # 0
       /\ is_within(pf, n, pageframe_index(m.addr), pageframe_span(m.addr, m.len))
  /\ (pf..(pf + n - 1)) \intersect Taken(l) = {}

(* The memory map is placed in available memory, "carefully avoiding       *)
(* locations that are occupied by the kernel or modules"                   *)
(* (multiboot.c:244-248), if there is room for it, and only then.          *)
MapUnused ==
  LET n == pageframe_count(available_frames(lay))
  IN  /\ nframes > 0 => Unused(lay, memmap(lay), n)
      /\ nframes = 0 /\ ~running => \A pf \in Frame : ~Unused(lay, pf, n)
=============================================================================
