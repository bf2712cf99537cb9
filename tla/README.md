# A verification of the opsys kernel

opsys is a small i386 microkernel: threads with fixed priorities, semaphores,
page frames and address spaces, and IPC that also carries the system calls.
This directory holds TLA+ models of the kernel from the boot loader's hand-over
to the first programs and their system calls, the TLC configurations that check
them on small instances, and TLAPS proofs.
Paths below are relative to `src/kernel/bin/` of the repository.

## The system

One CPU runs everything.  Interrupt gates (`arch/i386/idt.c`) disable
interrupts on every entry to the kernel, so that system calls, interrupt
handlers and the system service are not interrupted.  The exception is the idle
thread: it is the context that booted the kernel, it enables interrupts
(`arch/i386/multiboot.c:887`) and then loads the programs, inside the same
kernel functions that system calls use.  Threads therefore interleave

* where one calls `sched_switch` because it has to wait, and
* where the timer interrupts a program, or the idle thread anywhere in the
  kernel; `alarm_handler` then calls `sched_switch` on top of it.

| part | source | module | status |
|---|---|---|---|
| spinlocks | `spinlock.c` | `Semaphore` | modelled |
| semaphores | `semaphore.c` | `Semaphore`, `CountingSemaphore` | modelled, proved |
| lists | `list.c` | `Lists`, `Timer` | as sequences |
| scheduler | `sched.c` | `Sched` | modelled |
| page frames | `pmem.c` | `Pmem`, `FrameMap` | modelled, proved |
| virtual memory | `vmem.c`, `arch/i386/vmem_32.c`, `pagedir.c`, `pagetbl.c` | `Vmem`; without paging `Multiboot` | modelled |
| boot | `arch/i386/multiboot.c`, `iomem.c` | `Multiboot`, `Exec`, `Interrupts` | memory, threads, interrupts; not the console |
| kernel heap | `alloc.c`, `memzone.c` | `Exec` | modelled |
| threads and tasks | `tcb.c`, `task.c`, `tcbhlp.c`, `taskhlp.c` | `Exec`, `Sched`, `Ipc` | creation and states; nobody destroys them |
| program start | `sysexec.c`, `loader.c`, `elfldr.c` | `Exec`, `Ipc` | modelled |
| interrupt dispatch, context switch | `irq.c`, `arch/i386/idt.*`, `tcbregs.*`, `drivers/i8259/` | `Interrupts` | one controller, registers proved; faults only as the halt they end in |
| timer, i8254 | `timer.c`, `drivers/i8254/` | `Timer` | modelled |
| IPC, system calls | `ipc.c`, `ipcmsg.c`, `syscall.c`, C library | `Ipc` | partly |
| system service | `syssrv.c` | `Ipc` | modelled |
| console, keyboard, ports, assertions | `console.c`, `drivers/` ... | `Interrupts` (the keyboard's interrupt) | I/O without shared state |
| string functions, hello world | `libc0/`, `helloworld/` | - | sequential, not modelled |

The parts meet in these places.  `Exec` extends `Multiboot`, and boots a
machine from the boot loader's tables to the last program.  The others take the
calls of lower layers as single steps, which is what is checked, or proved, of
those layers: `Pmem`, `Vmem` and `Ipc` use a semaphore as one owner
(`CountingSemaphore`), `Vmem` and `Exec` use page frames as one counter per
frame (`FrameMap`), `Exec` uses the functions of `vmem.c` at once, and
`Interrupts` lets any thread be selected, for which `Sched` has the rule.

`PROJECT.json` relates every definition to the lines it models, and lists the
hazards of the code with the properties that watch over them.

## The modules

**Semaphore** has a step for each access to shared memory in
`semaphore_enter`, `semaphore_leave`, `semaphore_try_enter` and
`spinlock_lock`/`spinlock_unlock`.  `at`, `op` and `arg` say where a thread is,
`held` is a history variable with the slots it owns.  `Preempt` takes the CPU
from a thread in `Preemptible` at any point, from another one only outside the
functions.  The next thread is any READY one.  `CountingSemaphore` is what the
users see: `Enter` and `Leave`, atomic.  Nobody in the kernel calls
`semaphore_try_enter`; the constant `TryCallers` decides whether the model does.

**Sched** has the lists per priority class, `g_current_thread` (`cur`), the
context that really executes (`run`) and the context stored in each TCB
(`saved`), so that a mismatch between them would show.  A thread passes through
`sched_switch` in five steps, the alarm handler in one.  `InSched` holds the
threads that can be interrupted between those five steps.

**Pmem** executes the functions of `pmem.c` frame by frame under `map_sem`.
The variable `sem` is the owner of the only slot, which the theorems about
`Semaphore` justify.  `FrameMap` is the same interface with atomic operations;
the refinement mapping hides what the owner of the semaphore has done halfway.

**Timer** has the alarm list, 32-bit timestamps (`Modulus`), the local variables
of the executing `handle_timeout` (`loop`), and those of one whose alarm
function has switched to another thread (`suspended`).  `isr` is true from an
interrupt to its end-of-interrupt, during which the PIC delivers no other.

**Ipc** has system calls and the system service as steps that end where
`sched_switch` is called or a lock or semaphore may have to be waited for.
`vsem` stands for the semaphores of the address spaces and the frame map, which
the idle thread enters while it loads programs.  Flags are the numbers of the
code, decoded by arithmetic.  The values that are carried are left out.

**Lists** gives the lists of `list.c` as sequences.

**Vmem** has page tables as contents of frames (`pt`), and page directories
(`pd`).  The kernel sees a page table only through a temporary page (`tmp`), so
that a thread which works on one reads and writes whatever frame its temporary
page maps at that moment.  Every step contains at most one call of `pmem.c`.
The calls are those of `vmem.c`; `loc` has the local variables of the loops
underneath.  An error leaves what it has done behind (`lost`), as the code does
("TODO: clean up").  Where there is no page table the code reads frame 0 in its
place, and so does the model.

**Multiboot** turns the tables that the boot loader leaves (a member of
`Layouts`) into the sequence of operations that `multiboot_init` performs
(`todo`), with addresses in bytes, and executes them one by one: the place of the
memory map, types and claims of frames, the kernel's page tables before paging,
and the claims that are given back after it.  The first error ends the boot.

**Exec** goes on with the heap, the kernel's task and threads, and a task for
every module.  Errors of a module are ignored, and what it has got by then stays
allocated, as in `sysexec.c:164`.  Segments are mapped where their program
header says.  What a segment has beyond its file contents is set to zero in the
loader's address space; the model ends where that faults.

**Interrupts** has the registers of the first i8259 (`irr`, `isr`, `imr`), the
interrupt flag, the stacks as sequences of frames that say what continues after
them, and for each TCB the registers saved in it.  `Preempt` is a switch in the
timer's handler, `Sleep` one in a system call or in the service.  `Restore` is
separate from them, because interrupts are enabled between (`tcbregs.S:95`).

## What TLC checks

| run | instance | distinct states | properties |
|---|---|---|---|
| `semaphore` | 4 threads, semaphores of 1 and 2 slots, 2 threads preemptible, 1 calls `try_enter` | 1,582,114 | all safety properties, `ImplementsCounting` |
| `semaphore_live` | 3 threads, 1 slot, fair | 5,978 | `SleeperWakes` |
| `sched` | idle, service, 2 programs, 3 classes, fair, with and without interrupts inside `sched_switch` | 47,777 | `SelectFinds`, `ContextsMatch`, `ListsExact`, `PrioRespected`, `HighestClassFirst`, `Rotation` |
| `pmem` | 2 threads, 5 frames, at most 2 references | 52,302 | `TypeOK`, `RollbackSound`, `ImplementsFrameMap`, `SemaphoreLeft` |
| `timer` | 2 alarms, timestamps modulo 32 | 42,858 | `AlarmKept`, `TimeoutReturns` |
| `ipc` | 3 programs, messages of 1 or 2 pages, 2 uses of the semaphore by idle | 387,066 | `StatesSound`, `MessagesSound`, `WokenForMessage`, `WriteAnsweredIfUndisturbed` |
| `vmem` | idle and the service, 3 address spaces, 7 frames, 2 page tables of 3 entries, 3 temporary pages | 295,387 | `TypeOK`, `TempExact`, `RefsExact`, `PagesKept` |
| `boot` | 246 machines with 14 to 48 frames and up to 3 modules | 12,929 | `TypeOK`, `MapUnused`, `BootKept`, `FramesExact`, `HeapExact`, `ThreadsSound`, `ProgramLoaded` |
| `interrupts` | idle, service, a program; the timer, the keyboard, and an interrupt without a handler | 28,049 | `EoiOwed`, `NestingBounded`, `RegsKept`, `TickHandledIfResumed` |

What the later runs show, in words.

* `vmem`: calls that enter the kernel's semaphore never disturb each other's
  temporary pages; every entry that holds a frame has its reference, also after
  calls that ran out of memory; and functions that look for empty pages never
  replace a mapping.  Functions that are told the page do replace one: the
  service's page may be taken between its search and its message.
* `boot`: whatever the size of memory, and wherever the boot gives up, the
  memory map lies on nothing else, the frames of kernel and modules stay theirs
  when the claims on them are given back, and each thread that reaches the
  scheduler has memory and a program of its own.
* `interrupts`: each interrupt in service is owed the signal of its end by some
  thread; interrupts nest at most as often as there are threads; registers are
  mixed up only if a switch outside the timer's handler is interrupted while it
  loads them.  That does happen (`torn`), and `RegsKept` says exactly when.

Bounds.  Four threads and two slots are the least for which a
`semaphore_leave` that looks only at the front of the list loses a wake-up.
Five frames leave room for two allocations with a gap, two references reach the
limit of a counter, and some requests of `MCRequests` go beyond the last frame.
Three priority classes keep the order of 0, 64 and 255 (`sysexec.c:81,150`).
With steps of 12 modulo 32 the clock wraps after three interrupts.  The second
use of the semaphore in `Ipc` makes the service wait both for an empty page and
for a mapping.  In `vmem`, two requests cross the border of two page tables,
seven frames run out in the middle of a call, and four references reach the
limit.  The memory sizes of `boot` go one by one through the range in which the
boot runs out of frames in each of its operations; sections and modules share
frames, have gaps, end on and off the border of a page, and one segment is
followed by zeros.  Three threads are needed in `interrupts` to switch from one
that was preempted to one that waits and on to a third.

Deadlock is not checked in the runs of `Semaphore` and `Ipc`, where a thread
that spins makes no step, in `sched`, where `sched_select_thread` may find
nobody, in `timer`, where a suspended `handle_timeout` may follow a NULL
pointer, and in `boot` and `interrupts`, where the boot ends.  The first four are
the subjects of `SpinsOnlyForPreempted`, `ipc_spin`, `AlwaysFinds` and
`TimeoutReturns`.

### Fairness

* `Semaphore`: a thread that gets the CPU again and again executes its next
  instruction and leaves what it entered, and a thread that is READY again and
  again is chosen.  The latter is the rotation that `Sched` checks, within one
  class.  `SleeperWakes` excludes preemption inside critical sections,
  `semaphore_try_enter`, and entering one semaphore while owning another: a
  woken thread may always find the slot taken again, so that the owner of an
  outer semaphore can starve on the inner one.
* `Sched`: kernel code proceeds and the alarm fires when it is armed and
  interrupts are enabled.  `Rotation` supposes that `sched_switch` keeps being
  called: the alarm is not armed while the thread it interrupted last has not
  run again, so that alone it does not suffice.
* `Pmem`: a thread inside a function is scheduled again.
* `Timer`: the chip ticks, and `handle_timeout` proceeds.  Nothing is assumed of
  the threads it switches to.
* `Ipc`: kernel code proceeds, and the timer interrupts the idle thread.
  `ProgramsCall`, an antecedent, says that no program keeps the CPU for ever.
* `Interrupts`: kernel code comes to its end, so that handlers return and a
  system call returns or waits; the CPU takes an interrupt that it can take again
  and again (strong fairness, because `sti` and `cli` alternate).  Programs and
  the idle thread need not do anything.  `TickHandledIfResumed` supposes that
  the scheduler runs again each thread that the timer has preempted.

### Where the code disagrees with its documentation

Three runs end in a counterexample, and five more configurations, which are
checked by hand in the same way (`tlc -config X.cfg M`, with the module that the
name begins with).

| run or configuration | property | what the repository says | what happens |
|---|---|---|---|
| `vmem_loading` | `TempExact` | `vmem.h:28` "lock of address-space data structure" | temporary pages are shared by all address spaces; one that maps frame 0 counts as empty, so that the idle thread, loading a program under the program's semaphore, and the service, under the kernel's, use the same one |
| `interrupts_tick` | `TickHandled` | `sched.c:68` the thread-schedule interrupt "triggers switches to other runnable threads" | the timer's handler switches to a program that waited in a system call; nobody signals the end of the interrupt, and no tick arrives while that program computes |
| `ipc_spin` | `WriteAnswered` | `syscall_consts.h:23` "wait for its answer" | the service sleeps for a semaphore with its spinlock held; a second sender spins on it with interrupts disabled |
| `MCSchedIdle.cfg` | `AlwaysFinds` | `sched.c:264` "there should always be an idle thread runnable" | the timer interrupts the idle thread, which is about to sleep, in `move_thread_to_back`, while the only READY thread is in no list |
| `MCTimerWrap.cfg` | `FiresAgain` | `sched.c:31` "round-robin order with fixed time slices" | after the timestamp wraps, the alarm waits for a time that the clock reaches late and finally never |
| `MCIpcReturn.cfg` | `WaitsForAnswer` | `syscall_consts.h:23` again | a message to a thread that waits for its own answer wakes it |
| `MCIpcQuit.cfg` | `QuitRemoved` | `syssrv.c:36` "mark sender thread for removal" | the quit message is in the wrong mode and is dropped |
| `MCBootUnsorted.cfg` | `MapUnused` | `multiboot.c:247` "carefully avoiding locations that are occupied by the kernel or modules" | of two modules not sorted by address, the second one moves the memory map onto the first |

Met while reading or modelling, and not among the runs:

* `memzone.c:159` divides pages by the bytes of a chunk; no chunk becomes
  ALLOCED, so that freed memory is not used again.  `kfree` does not count the
  block's header.
* `vmem_32.c:474` looks up the first page of a message for each of its pages.
* `elfldr.c:68` zeroes the rest of a segment in the loader's address space.
* `pic.c:96` writes to the first controller what is meant for the second;
  `mask_irq` (`pic.c:42`) tests `!imr`, so that the second one is never masked.
* Programs are linked at the page where their stack is searched.  It works
  because the search reads frame 0, whose BIOS vectors look like mapped pages
  (`Bios`), instead of a page table (`vmem_32.c:223`).
* `find_empty_pages` (`vmem.c:177`) never uses the last page of an area.
* `map_io_range` (`iomem.c:76`) has two arguments swapped; nobody calls it.
* The handler of general protection faults (`idt.S:66`) prints and returns, but
  leaves the error code on the stack for `iret`.
* `timer.c:53` calls `g_timer.timestamp_ns` the time "of when the timer last
  fired"; it is never updated, so that alarms added later count from zero.
* `timer.c:82` subtracts unsigned numbers; the list of alarms is not sorted.
* `timer.c:105` keeps `next` across a function call that can last for many
  interrupts; if that alarm leaves the list meanwhile, its link is NULL.
* A thread seen by the timer between `sched.c:137` and `138` is moved to class
  0; `PrioRespected` allows for it.
* `IPC_TIMEOUT_NOW` (`ipc_consts.h:38`) never has an effect, because bit 28 of
  the operation remains in the flags that the timeout is taken from.
* `syscall.c:117` "sender should have received a reply": `ipc_reply` changes
  only the state of the sender.
* `syscall.h:35` documents `-ESRCH` for a receiver that does not exist; the
  entry handler returns `-EAGAIN`.

## What is proved

The proofs about `Semaphore` are for any finite non-empty sets of threads and
semaphores, any positive numbers of slots, any set of preemptible threads and
any locking order (`SemaphoreAssumption`).  Those about `Pmem` are for any
threads, any positive numbers of frames and of references, and any calls with a
positive number of frames (`PmemAssumption`).  Those about `Interrupts` are for
any set of threads with the idle thread and the system service in it
(`InterruptsAssumption`), and so for stacks of any depth.  Those about `Sched`
are for any threads, classes and priorities, with the idle thread in the lowest
class and the only one that calls `sched_switch` with interrupts enabled
(`SchedAssumption`).  The one about `Timer` is for any alarms, any times and any
width of timestamps (`TimerAssumption`).  Those about `Ipc` are for any set of
programs and any sizes of messages (`IpcAssumption`); three of them have the
hypothesis `ServiceOnly`, that programs send to the system service only, as
those of the repository do.  Those about `Vmem` are for any threads, address
spaces, page tables, frames and temporary pages and any initial contents of page
tables (`VmemAssumption`).  They have two hypotheses about the calls that are
made, which the instance of `vmem` satisfies.  `KernelLocked`: every call enters
the kernel's semaphore; `vmem_loading` shows `TempExact` violated without it.
`PagesExist`: a call that names pages names pages of the address space, and a
message is no larger than the area that was found empty for it.

| module | theorem | says |
|---|---|---|
| `SemaphoreProofs` | `TypeCorrect` | `TypeOK` |
| | `MutualExclusion` | `SpinlockExclusion` |
| | `SpinningOnlyForPreempted` | `SpinsOnlyForPreempted` |
| | `Refinement` | `Semaphore` implements `CountingSemaphore` |
| | `WaiterLists` | `WaitersSound` |
| | `SlotConservation` | `SlotsConserved` |
| | `WakeupsNotLost` | `NoLostWakeup` |
| | `AlwaysRunnable` | `SomeThreadReady` |
| `PmemProofs` | `TypeCorrect` | `TypeOK` |
| | `RollbacksSound` | `RollbackSound` |
| `PmemRefinement` | `Refinement` | `Pmem` implements `FrameMap` |
| `InterruptsProofs` | `RegistersKept` | `RegsKept` |
| | `EndsOwed` | `EoiOwed` |
| `SchedProofs` | `ListsStayExact` | `ListsExact` |
| | `ClassesRespected` | `PrioRespected` |
| | `SearchFinds` | `SelectFinds` |
| | `ContextsKept` | `ContextsMatch` |
| `TimerProofs` | `AlarmStays` | `AlarmKept` |
| `IpcProofs` | `StatesStaySound` | `StatesSound` |
| | `MessagesStaySound` | `MessagesSound`, if `ServiceOnly` |
| | `WokenFindMessage` | `WokenForMessage`, if `ServiceOnly` |
| | `SendersWait` | `WaitsForAnswer`, if `ServiceOnly` |
| `VmemProofs` | `WalksInRange` | `TypeOK`, if `KernelLocked` and `PagesExist` |
| | `TempStaysExact` | `TempExact`, if `KernelLocked` and `PagesExist` |

The inductive invariant of `Semaphore` is
`IInv == SpinlockExclusion /\ Control /\ Asleep /\ LockOwned`.  Exclusion alone
is not inductive, since a step of an unlock is safe only if the thread is where
`Control` says, and what `EnterDequeue` and `EnterRetry` do depends on which
function it is in.  `Asleep` ties the state WAITING to the stretch of
`semaphore_enter` in which a thread is in a list.  `LockOwned` says that a lock
that is taken has an owner, which is running or was preempted.

`SlotConservation` follows from `Refinement`: a step of `CountingSemaphore`
changes the slots and the owners together.  `WaiterLists` is inductive given
`IInv` and two lemmas about `Without`.
`WakeupsNotLost` adds both: a step that frees a slot is inside the critical
section and on its way to wake a thread, and a thread that goes to sleep found
no free slot.  `AlwaysRunnable` takes the sleeper of the highest rank: if all
threads slept, the semaphore that it sleeps in would have an owner, which sleeps
in one of a higher rank still, or it would have a free slot and, by
`WakeupsNotLost`, a thread on its way.

The inductive invariant of `Pmem`, in `PmemProofs`, is `TypeOK`, `Control`
(who is inside a function owns `map_sem`, and the arguments were checked before)
and the `Work` of every thread: the range that its loop is in, `Counted` (the
references that it added so far, and that frames found allocable have no other),
`Searched` (every place that the search passed over has a frame in the way) and
`Refused` (the frame for which it rolls back).  None of them is needed to state
a property, and without any of them a loop could not be shown to end where
`FrameMap` says.  `ScanRound` says what one round of the search passes over.
That a round is always possible is left to TLC (`SemaphoreLeft`, and the
absence of deadlock).  A step of one thread leaves
the `Work` of the others alone, since only the owner of the semaphore changes
the map.  `PmemRefinement` shows that rounds of the loops are hidden, that
`pmem_unref_frames` and `pmem_set_type` take effect when they enter the
semaphore, and that the others take effect when they leave it.

The inductive invariant of `Interrupts`, in `InterruptsProofs`, says where
registers can be.  `Saved`: a thread that was never switched away while loading
its registers has its own in its TCB, and runs with its own, or has the loading
still ahead of it, at `restore` or in a frame of its stack.  So `Stacks` is
needed: thread code and system calls are continued from the bottom of a stack
only, where no interrupted loading can be left above them.  `Created` says that
the thread that a switch selects has a frame to return to, and `Booting` that
nothing of this begins before interrupts are enabled.  The second half of
`RegsKept` needs `Awake`: as long as all switches happened in the timer's
handler (`Handling`), the timer is in service while registers are loaded, and
neither it nor an interrupt of a lower priority is accepted there.

`EndsOwed` has an invariant of its own on top of that one.  `Framed`: below
every point where a thread continues is the frame that it expects there, so that
returns remove only frames whose end was signalled, of system calls and of
switches.  `InService`: only one interrupt is in service at a time; if it is not
the timer, its own handler executes with interrupts disabled.  The timer can stay
in service over switches, and keeps all others out.  That is why a signal which
does not name its interrupt ends the right one.

The inductive invariant of `Timer` is `TypeOK`, `AlarmKept` and `Loops`: a
`handle_timeout` that calls a function has taken the alarm out of the list, and
if it goes on with the scheduler's alarm, that one is in the list.  The first
holds although an alarm is taken out of the list a second time when the item of a
resumed invocation is stale.  The second holds because only the function of
the scheduler's alarm switches, and the item after that alarm is another one.

The inductive invariant of `Sched` has one half that always holds and one that
the race with the timer spoils.  The first: `Places` (besides the running thread
only the idle thread can be inside `sched_switch`), `MovedOnce` (the timer does
not move a thread that the idle thread has taken out of its list, since it finds
threads in lists), `Distinct` and `Listed` (what `ListsExact` says, with the
threads that are just being moved), `Unprioritised` and `Classed` (which add to
`PrioRespected` where a thread can be while it is added), and `OnlyKnown`: a
thread that was never added is not selected, saved or switched to, so that
`sched_add_thread` cannot list one twice.  The second, `Undisturbed`, is what
`SearchFinds` and `ContextsKept` rest on: as long as `raced` is false, what a
thread saw in `sched_switch` still holds, and a thread that searches because it
blocks leaves another one READY.  `WithoutList` and `AppendedLists` say what
`list_dequeue` and `list_enqueue_back` do to the lists, and `SelectedListed`
what the search returns.

The inductive invariant of `Ipc`, whoever sends to whom, is `Typed`, `Places`,
`Signed` (a message that somebody can receive has a program as its sender, so
that the system service wakes a program and not itself) and `StatesSound`.
With `ServiceOnly` there is more: `OthersIdle` (nobody sends to a program) and
`Waiting`, which says of the messages in the queue of the system service and of
the one that it works on (`InHand`) that all are different, that their senders
wait in state RECV and that the field for the sender names the sender.  The last
is what makes `ipc_reply` wake the sender of the message at hand and nobody
whose message is still queued.  `SendersWait` is an action property; without the
hypothesis it is false (`MCIpcReturn.cfg`), and so is `MessagesSound`.

The inductive invariant of `Vmem` is `TypeOK`, `Locked`, `Accounted`, the
`Called` of every thread and the `Busy` of those inside.  `Locked`: who is past the
semaphores owns the kernel's, so that one thread at a time works on temporary
pages; a step of another thread leaves all that `Busy` says alone (`Framed`).
`Walking` and `Counted`, parts of `Busy`, keep the walk over page tables inside
the page directory: a search begins below the end of its area, and the entries
counted empty so far leave room for those of the page tables to come.  For the
second temporary page of `vmem_32_lookup_frame`, `Busy` says that the page table
that is being changed is not frame 0.  Otherwise its temporary page would count
as empty and would be taken once more.  `Accounted` has the other half of
`TempExact`: a temporary page that maps something is in use, or was lost in an
error path.  `Roomy` carries what a search found over to the later call that
maps there.

Only model-checked:

* all liveness properties (`SleeperWakes`, `Rotation`, `SemaphoreLeft`,
  `TimeoutReturns`, `TickHandledIfResumed`, `WriteAnsweredIfUndisturbed`), which
  the prover cannot handle;
* `HighestClassFirst`, which does not hold for any priorities but for those that
  the kernel gives, one for the service and one for all programs;
* how deep interrupts nest (`NestingBounded`, a sum over stacks);
* `RefsExact` and `PagesKept` of `Vmem`.  `RefsExact` is not inductive for any
  calls: `install_temp_page_frame` ignores that a counter is at its limit, and
  afterwards the entries that are replaced can take the counter below the number
  of mappings.  With a limit on the calls it would be an invariant that counts
  the entries of all page tables.  `PagesKept` rests on it, since a frame that
  is allocated for a page table must not be in use;
* everything about `Multiboot` and `Exec`, whose loops are folds over sequences:
  what those compute needs induction over data.

## What is left out of the modelled parts

* The pointer updates of `list.c` are atomic here, `list_dequeue` and
  `list_enqueue_back` being two steps.
* `tcb_switch` is one step in `Sched`; its instructions are in `Interrupts`.
* When a message that is still queued is initialised again (`syscall.c:96`),
  the list is damaged; `Ipc` stops short of that.  `MessagesSound` shows that it
  does not happen to programs that call only the system service.
* Programs call `ipc_recv` only for themselves.
* Requests for zero frames, which no caller makes.
* The output of the console and the words that messages carry.
* Flags of page-table entries other than PRESENT; `vmem_alloc_pages_at`,
  `tcb_uninit`, `task_uninit` and `remove_irq_handler`, which nobody calls.
* The second i8259, whose interrupts have no handlers.
* `Vmem` begins with a kernel that has booted; `Exec` has the calls of `vmem.c`
  without interleavings, which is right for the boot until interrupts are
  enabled, and for the programs as far as `Vmem` shows.

## Not modelled

* The console, the frame buffer, the serial port and the keyboard's scan codes:
  input and output without state that other parts depend on.
* `libc0`, `helloworld` and the string functions: sequential and without shared
  state.
* Assertions, `printf` and the other means of debugging.
