-------------------------------- MODULE Exec ---------------------------------
(***************************************************************************)
(* From memory to threads: what multiboot_init does after Multiboot.  The  *)
(* kernel's heap (memzone.c, alloc.c), tasks and their threads (task.c,    *)
(* tcb.c and their helpers), the kernel's own threads, and one task for    *)
(* every module that is an ELF image (sysexec.c, loader.c, elfldr.c).      *)
(*                                                                         *)
(* Address space 0 is the kernel's, and a is that of the module a.  Calls  *)
(* of vmem.c happen at once; Vmem is about their steps.                    *)
(***************************************************************************)
EXTENDS Multiboot

CONSTANTS
  FlagPages,    \* pages for the flags of the heap's chunks
  HeaderSize,   \* what kmalloc puts before a block
  TaskSize,     \* sizeof(struct task)
  VmemSize,     \* sizeof(struct vmem)
  MaxTask,      \* MAXTASK
  MaxThreads,   \* task_max_nthreads
  NSpaces,      \* address spaces
  NUser,        \* pages of VMEM_AREA_USER
  Bios          \* entries of frame 0, seen as a page table, that are not zero

Space == 0..(NSpaces - 1)
UserPage == 0..(NUser - 1)

VARIABLES
  alloced,  \* chunks with MEMZONE_FLAG_ALLOCED
  inuse,    \* chunks with MEMZONE_FLAG_INUSE
  blocks,   \* the blocks that kmalloc has given out
  taskids,  \* g_taskid
  sp,       \* sp[a]: the task of address space a, and its user area
  threads   \* the thread control blocks, in the order of their creation

execVars == <<alloced, inuse, blocks, taskids, sp, threads>>
vars == <<mbVars, execVars>>

\* The stack that multiboot.S has reserved in the kernel's image.
BootStack == -1

Nothing ==
  [task |-> -1, vmem |-> -1, dir |-> 0, tab |-> 0, map |-> [p \in UserPage |-> 0],
   id |-> -1, nthreads |-> 0, ids |-> {}, stack |-> BootStack]

-----------------------------------------------------------------------------
(* Operations that multiboot_init performs after memory is set up.         *)

In(a, ops) == [i \in DOMAIN ops |-> Op(ops[i], a, 0)]

schedule_kernel_threads ==
  In(0, <<"task", "task_init", "tcb", "sched_init", "stack", "tcb", "run_kernel", "add">>)

task_helper_allocate_task_from_parent(a) ==
  In(a, <<"task", "vmem", "vmem_init", "task_init">>)

loader_exec(l, a) ==
  In(a, <<"elf">>) \o [i \in DOMAIN l.mods[a].phdrs |-> Op("phdr", a, i)]

execute_module(l, a) ==
  task_helper_allocate_task_from_parent(a) \o In(a, <<"stack", "tcb">>)
  \o loader_exec(l, a) \o In(a, <<"run_user", "add">>)

multiboot_load_modules(l) == FlattenSeq([a \in DOMAIN l.mods |-> execute_module(l, a)])

multiboot_init(l) ==
  init_memory(l) \o In(0, <<"allocator_init">>) \o schedule_kernel_threads
  \o multiboot_load_modules(l)

Init ==
  /\ MBInit
  /\ todo = multiboot_init(lay)
  /\ alloced = {}
  /\ inuse = {}
  /\ blocks = {}
  /\ taskids = {}
  /\ sp = [a \in Space |-> Nothing]
  /\ threads = <<>>

\* The address space of the current operation.
At == Head(todo).pf

(* An error in the kernel's part ends multiboot_init.  Errors of a module  *)
(* are ignored, and what it has got is not freed (FIXME, sysexec.c:164).   *)
Gives ==
  IF At = 0 THEN Fails
  ELSE todo' = SelectSeq(todo, LAMBDA o : o.pf # At) /\ UNCHANGED running

-----------------------------------------------------------------------------
(* Pages, with st = [ok, page, ref, kmap] as the outcome.                  *)

NoPages == [ok |-> FALSE, page |-> -1, ref |-> ref, kmap |-> kmap]

\* find_empty_pages, which leaves out the last page of an area.
EmptyRun(n) ==
  {p \in KernelBeg..(KernelEnd - n - 1) : \A q \in p..(p + n - 1) : kmap[q] = 0}

\* The number of frames before f in S.
Rank(S, f) == Cardinality({g \in S : g < f})

(* vmem_alloc_pages_in_area for the kernel's area.  Without memory for all *)
(* pages, the first ones remain.                                           *)
alloc_pages(n) ==
  IF EmptyRun(n) = {} THEN NoPages
  ELSE LET p == LowestOf(EmptyRun(n))
           got == {f \in Free(ref) : Rank(Free(ref), f) < n}
       IN  [ok |-> Cardinality(got) = n,
            page |-> p,
            ref |-> Ref(Ref(ref, got), got),
            kmap |-> [q \in Page |->
                        IF q - p \in 0..(Cardinality(got) - 1)
                        THEN CHOOSE f \in got : Rank(got, f) = q - p
                        ELSE kmap[q]]]

Got(st) == ref' = st.ref /\ kmap' = st.kmap

-----------------------------------------------------------------------------
(* The heap.                                                               *)

\* logbase2, for numbers other than zero.
logbase2(v) == CHOOSE k \in 0..31 : 2^k <= v /\ v < 2^(k + 1)

\* Two bits for a chunk.
memsz == PageSize * (KernelEnd - KernelBeg)
chunksize == 2^(logbase2(memsz \div (FlagPages * PageSize * 4)) + 1)
nchunks == memsz \div chunksize

memzone_get_nchunks(nbytes) == IF nbytes = 0 THEN 0 ELSE 1 + (nbytes - 1) \div chunksize

\* memzone_init; the flags are zero already.
AllocatorInit ==
  /\ Do("allocator_init")
  /\ LET st == alloc_pages(FlagPages)
     IN  Got(st) /\ IF st.ok THEN Done ELSE Gives
  /\ UNCHANGED <<lay, paging, nframes, avail, pd, tabs, execVars>>

\* It gives up at the first chunk in use, and goes on behind those that are not.
memzone_search_unused(n) ==
  LET beg == {c \in 0..nchunks : c % n = 0}
      unused(c) == \A i \in c..(c + n - 1) : i \in alloced /\ i \notin inuse
  IN  IF \A c \in beg : c < nchunks - n => unused(c)
      THEN LowestOf({c \in beg : c >= nchunks - n}) ELSE -1

(* memzone_find_unused, with the chunk in addition to the pages.  Pages    *)
(* are divided by bytes, so that chunks become ALLOCED only if they are    *)
(* many; then the flag is set for the first one alone.                     *)
memzone_find_unused(n) ==
  LET pgcount == pageframe_span(0, n * chunksize)
      st == alloc_pages(pgcount)
      first == ((st.page - KernelBeg) * PageSize) \div chunksize
  IN  IF memzone_search_unused(n) >= 0
      THEN [ok |-> TRUE, chunk |-> memzone_search_unused(n), new |-> {}, pages |-> NoPages]
      ELSE [ok |-> st.ok, chunk |-> first, pages |-> st,
            new |-> IF pgcount \div chunksize > 0 THEN {first} ELSE {}]

\* memzone_alloc: the outcome of kmalloc(nbytes).
kmalloc(nbytes) ==
  LET n == memzone_get_nchunks(nbytes + HeaderSize)
      z == memzone_find_unused(n)
  IN  [ok |-> z.ok, chunk |-> z.chunk, pages |-> z.pages,
       alloced |-> alloced \union z.new,
       inuse |-> (inuse \ z.new) \union (z.chunk..(z.chunk + n - 1)),
       blocks |-> blocks \union {[chunk |-> z.chunk, nbytes |-> nbytes]}]

Kept(z) == alloced' = z.alloced /\ inuse' = z.inuse /\ blocks' = z.blocks

\* Mutant: one chunk less is freed.
FreedShort(b) == b.chunk..(b.chunk + memzone_get_nchunks(b.nbytes) - 2)

\* The chunks that memzone_free changes; the header is not counted.
Freed(b) == b.chunk..(b.chunk + memzone_get_nchunks(b.nbytes) - 1)

Toggle(S, T) == (S \ T) \union (T \ S)

\* kfree of the blocks that begin at chunks of C.
kfree(C) ==
  LET gone == {b \in blocks : b.chunk \in C}
      freed == UNION {Freed(b) : b \in gone}
  IN  /\ inuse' = Toggle(inuse, freed)
      /\ blocks' = blocks \ gone

-----------------------------------------------------------------------------
(* Tasks.                                                                  *)

AllocTask ==
  /\ Do("task")
  /\ LET z == kmalloc(TaskSize)
     IN  /\ Got(z.pages)
         /\ IF z.ok THEN Kept(z) /\ sp' = [sp EXCEPT ![At].task = z.chunk] /\ Done
            ELSE Gives /\ UNCHANGED <<alloced, inuse, blocks, sp>>
  /\ UNCHANGED <<lay, paging, nframes, avail, pd, tabs, taskids, threads>>

\* allocate_vmem_from_parent; without memory the task is freed.
AllocVmem ==
  /\ Do("vmem")
  /\ LET z == kmalloc(VmemSize)
     IN  /\ Got(z.pages)
         /\ IF z.ok THEN Kept(z) /\ sp' = [sp EXCEPT ![At].vmem = z.chunk] /\ Done
            ELSE kfree({sp[At].task}) /\ Gives /\ UNCHANGED <<alloced, sp>>
  /\ UNCHANGED <<lay, paging, nframes, avail, pd, tabs, taskids, threads>>

\* vmem_init_from_parent: a page directory that has the kernel's page tables.
VmemInit ==
  /\ Do("vmem_init")
  /\ LET st == alloc_pages(1)
     IN  /\ Got(st)
         /\ IF st.ok
            THEN /\ sp' = [sp EXCEPT ![At].dir = st.page]
                 /\ Done
                 /\ UNCHANGED <<inuse, blocks>>
            ELSE kfree({sp[At].task, sp[At].vmem}) /\ Gives /\ UNCHANGED sp
  /\ UNCHANGED <<lay, paging, nframes, avail, pd, tabs, alloced, taskids, threads>>

\* Mutant: one bit too many.
FindUnsetPast(S, n) == IF 0..n \subseteq S THEN -1 ELSE LowestOf((0..n) \ S)

\* bitset_find_unset in a set of at most n bits.
FindUnset(S, n) == IF 0..(n - 1) \subseteq S THEN -1 ELSE LowestOf((0..(n - 1)) \ S)

\* Without a number the task is freed, but not its address space.
TaskInit ==
  /\ Do("task_init")
  /\ LET id == FindUnset(taskids, MaxTask)
     IN  IF id >= 0
         THEN /\ taskids' = taskids \union {id}
              /\ sp' = [sp EXCEPT ![At].id = id, ![At].nthreads = 0, ![At].ids = {},
                                  ![At].dir = IF At = 0 THEN pd ELSE @]
              /\ Done
              /\ UNCHANGED <<inuse, blocks>>
         ELSE kfree({sp[At].task}) /\ Gives /\ UNCHANGED <<taskids, sp>>
  /\ UNCHANGED <<lay, paging, nframes, avail, ref, pd, tabs, kmap, alloced, threads>>

-----------------------------------------------------------------------------
(* Threads.                                                                *)

(* Empty pages of the user area.  Where there is no page table yet, frame  *)
(* 0 is read in its place (vmem_32.c:223).                                 *)
EmptyUser ==
  LET used == IF sp[At].tab = 0 THEN Bios ELSE {p \in UserPage : sp[At].map[p] # 0}
  IN  {p \in UserPage \ used : p < NUser - 1}

\* tcb_helper_allocate_tcb_and_stack: a page table if there is none, and a page.
AllocStack ==
  /\ Do("stack")
  /\ LET new == IF sp[At].tab = 0 THEN 2 ELSE 1
         got == {f \in Free(ref) : Rank(Free(ref), f) < new}
         table == IF sp[At].tab = 0 /\ got # {} THEN LowestOf(got) ELSE sp[At].tab
         page == LowestOf(EmptyUser)
     IN  IF EmptyUser = {}
         THEN Gives /\ UNCHANGED <<ref, sp>>
         ELSE /\ ref' = Ref(Ref(ref, got), got)
              /\ IF Cardinality(got) = new
                 THEN /\ sp' = [sp EXCEPT ![At].tab = table, ![At].stack = page + 1,
                                          ![At].map[page] = LowestOf(got \ {table})]
                      /\ Done
                 ELSE sp' = [sp EXCEPT ![At].tab = table] /\ Gives
  /\ UNCHANGED <<lay, paging, nframes, avail, pd, tabs, kmap, alloced, inuse, blocks,
                 taskids, threads>>

\* tcb_init_with_id: the control block of a new thread, which cannot run yet.
Tcb(page, id) ==
  [as |-> At, page |-> page, stack |-> sp[At].stack, id |-> id,
   cr3 |-> kmap[sp[At].dir], state |-> "ZOMBIE", added |-> FALSE]

\* Mutant: the number of the thread is not marked.
TcbUnmarked ==
  /\ Do("tcb")
  /\ LET st == alloc_pages(1)
         id == FindUnset(sp[At].ids, MaxThreads)
     IN  /\ Got(st)
         /\ IF st.ok /\ id >= 0
            THEN /\ sp' = [sp EXCEPT ![At].nthreads = @ + 1]
                 /\ threads' = Append(threads, Tcb(st.page, id))
                 /\ Done
            ELSE Gives /\ UNCHANGED <<sp, threads>>
  /\ UNCHANGED <<lay, paging, nframes, avail, pd, tabs, alloced, inuse, blocks, taskids>>

\* tcb_helper_allocate_tcb: a page, whose memory a failing tcb_init leaves.
AllocTcb ==
  /\ Do("tcb")
  /\ LET st == alloc_pages(1)
         id == FindUnset(sp[At].ids, MaxThreads)
     IN  /\ Got(st)
         /\ IF st.ok /\ id >= 0 /\ sp[At].nthreads < MaxThreads /\ kmap[sp[At].dir] # 0
            THEN /\ sp' = [sp EXCEPT ![At].nthreads = @ + 1, ![At].ids = @ \union {id}]
                 /\ threads' = Append(threads, Tcb(st.page, id))
                 /\ Done
            ELSE Gives /\ UNCHANGED <<sp, threads>>
  /\ UNCHANGED <<lay, paging, nframes, avail, pd, tabs, alloced, inuse, blocks, taskids>>

Newest == Len(threads)

\* tcb_set_initial_ready_state of the newest thread.
MadeReady == [threads EXCEPT ![Newest].state = "READY"]

\* The idle thread is the one that runs; sched_init adds it.
SchedInit ==
  /\ Do("sched_init")
  /\ threads' = [threads EXCEPT ![Newest].state = "READY", ![Newest].added = TRUE]
  /\ Done
  /\ UNCHANGED <<lay, paging, nframes, avail, ref, pd, tabs, kmap, alloced, inuse, blocks,
                 taskids, sp>>

RunKernelThread ==
  /\ Do("run_kernel")
  /\ threads' = MadeReady
  /\ Done
  /\ UNCHANGED <<lay, paging, nframes, avail, ref, pd, tabs, kmap, alloced, inuse, blocks,
                 taskids, sp>>

(* tcb_helper_run_user_thread maps the new thread's stack in the kernel's  *)
(* area, where it stays, and puts the thread's first frame there.          *)
RunUserThread ==
  /\ Do("run_user")
  /\ LET f == sp[At].map[threads[Newest].stack - 1]
     IN  IF EmptyRun(1) # {} /\ f # 0 /\ CanRef(ref, f)
         THEN /\ kmap' = [kmap EXCEPT ![LowestOf(EmptyRun(1))] = f]
              /\ ref' = Ref(ref, {f})
              /\ threads' = MadeReady
              /\ Done
         ELSE Gives /\ UNCHANGED <<kmap, ref, threads>>
  /\ UNCHANGED <<lay, paging, nframes, avail, pd, tabs, alloced, inuse, blocks, taskids, sp>>

AddThread ==
  /\ Do("add")
  /\ threads' = [threads EXCEPT ![Newest].added = TRUE]
  /\ Done
  /\ UNCHANGED <<lay, paging, nframes, avail, ref, pd, tabs, kmap, alloced, inuse, blocks,
                 taskids, sp>>

-----------------------------------------------------------------------------
(* Images.                                                                 *)

\* elf_loader_is_elf and the tests of elf_loader_exec.
CheckElf ==
  /\ Do("elf")
  /\ IF lay.mods[At].elf THEN Done ELSE Gives
  /\ UNCHANGED <<lay, paging, nframes, avail, ref, pd, tabs, kmap, execVars>>

PT_LOAD == 1

\* Mutant: every page is mapped to the first frame.
AllocFirstFrame(pf, p, n) ==
  [ok |-> TRUE, ref |-> ref,
   map |-> [q \in UserPage |-> IF q - p \in 0..(n - 1) THEN pf ELSE sp[At].map[q]]]

(* vmem_alloc_frames: n pages of the user area from p on are mapped to the *)
(* frames from pf on, until one of them cannot get a reference.            *)
alloc_frames(pf, p, n) ==
  LET bad == {i \in 0..(n - 1) : ~CanRef(ref, pf + i)}
      good == {i \in 0..(n - 1) : \A j \in bad : i < j}
      old == {sp[At].map[p + i] : i \in good} \ {0}
  IN  [ok |-> bad = {},
       ref |-> Unref(Ref(ref, {pf + i : i \in good}), old),
       map |-> [q \in UserPage |-> IF q - p \in good THEN pf + q - p ELSE sp[At].map[q]]]

\* The pages of bytes from addr on.
PagesOf(addr, bytes) ==
  pageframe_index(addr)..(pageframe_index(addr) + pageframe_span(addr, bytes) - 1)

(* elf_loader_construct_phdr.  The rest of the segment is set to zero in   *)
(* the address space of the loader, which is the kernel's; if there is no  *)
(* page there, the page-fault handler stops the system.                    *)
LoadSegment ==
  /\ Do("phdr")
  /\ LET m == lay.mods[At]
         h == m.phdrs[Head(todo).n]
         st == alloc_frames(pageframe_index(m.start + h.offset), pageframe_index(h.vaddr),
                            pageframe_span(h.vaddr, h.filesz))
         zero == PagesOf(h.vaddr + h.filesz, h.memsz - h.filesz)
     IN  IF h.type # PT_LOAD THEN Done /\ UNCHANGED <<ref, sp>>
         ELSE /\ ref' = st.ref
              /\ sp' = [sp EXCEPT ![At].map = st.map]
              /\ CASE ~st.ok -> Gives
                   [] st.ok /\ h.filesz < h.memsz /\ \E p \in zero : sp[0].map[p] = 0 -> Fails
                   [] OTHER -> Done
  /\ UNCHANGED <<lay, paging, nframes, avail, pd, tabs, kmap, alloced, inuse, blocks,
                 taskids, threads>>

-----------------------------------------------------------------------------
Memory == MBNext /\ UNCHANGED execVars

Next ==
  \/ Memory
  \/ AllocatorInit \/ AllocTask \/ AllocVmem \/ VmemInit \/ TaskInit
  \/ AllocStack \/ AllocTcb \/ SchedInit \/ RunKernelThread \/ RunUserThread \/ AddThread
  \/ CheckElf \/ LoadSegment

Spec == Init /\ [][Next]_vars

-----------------------------------------------------------------------------
(* Properties.                                                             *)

TypeOK ==
  /\ running \in BOOLEAN /\ paging \in BOOLEAN
  /\ nframes \in 0..MaxFrames /\ avail \subseteq Frame
  /\ ref \in [Frame -> 0..RefMax]
  /\ pd \in Frame /\ tabs \in [Table -> Frame] /\ kmap \in [Page -> Frame]
  /\ alloced \subseteq 0..(nchunks - 1) /\ inuse \subseteq 0..(nchunks - 1)
  /\ taskids \subseteq 0..(MaxTask - 1)
  /\ \A a \in Space : /\ sp[a].tab \in Frame /\ sp[a].map \in [UserPage -> Frame]
                      /\ sp[a].dir \in Page /\ sp[a].ids \subseteq 0..(MaxThreads - 1)

FramesOf(ops) == UNION {Frames(o) : o \in Range(ops)}

\* Frames with the kernel, the boot loader's data, command lines and modules.
Image(m) == Op("map", pageframe_index(m.start), pageframe_span(m.start, m.end - m.start))
Loaded ==
  FramesOf(Sections("map", lay) \o Data("map", lay)
           \o ForEach(lay.mods, LAMBDA m : <<Image(m)>> \o CommandLine("map", m)))

\* Frames that are claimed or allocated, and stay mapped one to one.
Owned ==
  Frames(MemMap("map", lay)) \union Frames(multiboot_vga_late_init) \union {pd, TempFrame}

(* Once paging is enabled, the kernel, the boot loader's data and the      *)
(* modules are found at their addresses, and their frames keep a reference *)
(* when the claims are given back ("All Multiboot page frames should now   *)
(* have been mapped ... and referenced accordingly", multiboot.c:847), so  *)
(* that no other page of the kernel ever gets them.                        *)
BootKept ==
  paging => \A f \in Loaded \union Owned :
    /\ kmap[f] = f /\ ref[f] > 0
    /\ \A p \in Page \ {f} : kmap[p] # f

\* The entries that hold frame f.
Uses(f) ==
  Cardinality({p \in Page : kmap[p] = f}) + Cardinality({i \in Table : tabs[i] = f})
  + Cardinality({x \in Space \X UserPage : sp[x[1]].map[x[2]] = f})
  + Cardinality({a \in Space : sp[a].tab = f})

Reclaimed == paging /\ \A i \in DOMAIN todo : todo[i].op # "unref"

(* After boot a frame has one reference for every entry that holds it, and *)
(* one more if it was allocated; those of the boot loader have none more,  *)
(* whatever claims overlapped and whatever failed (multiboot.c:537-596,    *)
(* vmem_32.c:527-632).                                                     *)
FramesExact ==
  Reclaimed => \A f \in 1..(nframes - 1) :
    IF f \in Loaded \ Owned THEN ref[f] = Uses(f)
    ELSE ref[f] = Uses(f) + 1 \/ (ref[f] = 0 /\ Uses(f) = 0)

\* The chunks of a block, with its header.
Chunks(b) == b.chunk..(b.chunk + memzone_get_nchunks(b.nbytes + HeaderSize) - 1)

(* The heap (memzone.c, alloc.c): exactly the chunks of blocks that are    *)
(* not freed are in use, no two blocks share one, and all lie in pages     *)
(* that are mapped; also after calls that ran out of memory half-way.      *)
HeapExact ==
  /\ inuse = UNION {Chunks(b) : b \in blocks}
  /\ \A b, c \in blocks : b # c => Chunks(b) \intersect Chunks(c) = {}
  /\ \A c \in inuse : kmap[KernelBeg + (c * chunksize) \div PageSize] # 0

(* Threads and tasks (task.c, tcb.c, sysexec.c): the scheduler gets only   *)
(* threads that are ready, whose page directory is their task's, and whose *)
(* control block and stack are in memory that nothing else uses, except    *)
(* that a program's stack is mapped once in the kernel's area.  A task     *)
(* counts its threads and numbers them apart.                              *)
ThreadsSound ==
  /\ \A i \in DOMAIN threads : LET t == threads[i] IN t.added =>
       /\ t.state = "READY"
       /\ t.cr3 = kmap[sp[t.as].dir]
       /\ Uses(kmap[t.page]) = 1
       /\ t.stack # BootStack =>
            /\ sp[t.as].map[t.stack - 1] # 0
            /\ Uses(sp[t.as].map[t.stack - 1]) = IF t.as = 0 THEN 1 ELSE 2
  /\ \A i, j \in DOMAIN threads :
       i # j /\ threads[i].as = threads[j].as => threads[i].id # threads[j].id
  /\ \A a \in Space :
       sp[a].nthreads = Cardinality({i \in DOMAIN threads : threads[i].as = a})
  /\ \A a, b \in Space : a # b /\ sp[a].id # -1 => sp[a].id # sp[b].id

(* A program that is scheduled finds its segments: every page of the user  *)
(* area that a segment's file contents cover is mapped to the frame where  *)
(* the boot loader put them (elfldr.c:41-76).                              *)
ProgramLoaded ==
  \A i \in DOMAIN threads :
    LET a == threads[i].as IN threads[i].added /\ a > 0 =>
      \A h \in Range(lay.mods[a].phdrs) : h.type = PT_LOAD =>
        \A k \in 0..(h.filesz - 1) :
          sp[a].map[pageframe_index(h.vaddr + k)] =
            pageframe_index(lay.mods[a].start + h.offset + k)
=============================================================================
