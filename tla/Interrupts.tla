----------------------------- MODULE Interrupts -----------------------------
(***************************************************************************)
(* Interrupts and the context switch: the interrupt controller             *)
(* (drivers/i8259/pic.c), the handlers of the interrupt table              *)
(* (arch/i386/idt.S), the list of handlers per interrupt (irq.c) and the   *)
(* exchange of registers between two threads (arch/i386/tcbregs.S).        *)
(*                                                                         *)
(* All gates are interrupt gates, so a handler or a system call runs with  *)
(* interrupts disabled, and returns to what it interrupted with iret.  A   *)
(* switch can happen in the handler of the timer, or in a system call or   *)
(* the system service that waits.  It saves the registers in the TCB of    *)
(* the thread that leaves, changes the stack with interrupts disabled, and *)
(* enables them (tcbregs.S:95) before the registers of the thread that     *)
(* arrives have been loaded.  The thread then returns wherever its stack   *)
(* says, and only a thread that was switched away in an interrupt handler  *)
(* signals the end of an interrupt to the controller.                      *)
(*                                                                         *)
(* Which thread the scheduler selects is open here; Sched has the rule.    *)
(* The boot thread switches only in the timer's handler.                   *)
(***************************************************************************)
EXTENDS Integers, Sequences

CONSTANTS
  Thread,
  Idle,       \* the thread that boots the kernel
  Srv         \* the system service, created before interrupts are enabled

ASSUME InterruptsAssumption == {Idle, Srv} \subseteq Thread /\ Idle # Srv

VARIABLES
  boot,       \* how far multiboot_init has come
  handlers,   \* the interrupts that have a handler in g_irq_handling
  irr, isr, imr,  \* PIC1: requested, in service and masked interrupts
  intr,       \* the interrupt flag of the CPU
  cur,        \* the thread whose stack the CPU uses
  at,         \* what the CPU executes
  regs,       \* the thread whose callee-saved registers the CPU holds
  tcb,        \* what tcb_regs_switch saved in the TCB of each thread
  stack,      \* what each thread's stack says of where to return to
  torn, slept \* history: registers saved twice; a thread switched to sleep

pic == <<irr, isr, imr>>
cpu == <<intr, cur, at, regs>>
history == <<torn, slept>>
vars == <<boot, handlers, pic, cpu, tcb, stack, history>>

\* Interrupts of the timer, of the keyboard, and one that nobody handles.
Timer == 0
Keyboard == 1
Lines == {Timer, Keyboard, 7}

\* Thread code, a system call, an interrupt handler, its end before and after
\* the signal to the controller, tcb_regs_switch_entry_point, and
\* tcb_regs_switch_first_return.
Code == {"run", "sys", "irq", "eoi", "iret", "restore", "first"}

\* A frame on a stack: an interrupt (and whether its end was signalled), a
\* system call or a call of tcb_regs_switch, and what continues after it.
Frame(kind, no, flag, next) == [kind |-> kind, no |-> no, intr |-> flag, next |-> next]
Push(t, f) == [stack EXCEPT ![t] = Append(@, f)]
Top == stack[cur][Len(stack[cur])]
Pop == [stack EXCEPT ![cur] = SubSeq(@, 1, Len(@) - 1)]
Frames(t) == {stack[t][i] : i \in 1..Len(stack[t])}

\* A thread whose stack is prepared has a call of tcb_regs_switch on it.
Added == {t \in Thread \ {Idle} : stack[t] # <<>> \/ tcb[t].used}

TypeOK ==
  /\ boot \in {"pic", "timer", "kbd", "threads", "sti", "on", "failed"}
  /\ handlers \subseteq Lines
  /\ irr \subseteq Lines /\ isr \subseteq Lines /\ imr \subseteq Lines
  /\ intr \in BOOLEAN
  /\ cur \in Thread
  /\ at \in Code
  /\ regs \in Thread
  /\ tcb \in [Thread -> [used : BOOLEAN, regs : Thread, intr : BOOLEAN]]
  /\ \A t \in Thread : \A f \in Frames(t) :
       f \in [kind : {"irq", "done", "sys", "switch"}, no : Lines, intr : BOOLEAN, next : Code]
  /\ torn \subseteq Thread /\ slept \in BOOLEAN

Init ==
  /\ boot = "pic"
  /\ handlers = {}
  /\ irr = {} /\ isr = {} /\ imr = {}
  /\ intr = FALSE /\ cur = Idle /\ at = "run" /\ regs = Idle
  /\ tcb = [t \in Thread |-> [used |-> t = Idle, regs |-> t, intr |-> FALSE]]
  /\ stack = [t \in Thread |-> <<>>]
  /\ torn = {} /\ slept = FALSE

-----------------------------------------------------------------------------
\* Boot: multiboot_init from pic_install to sti, on the idle thread.

init_irq_handling == handlers' = {}

\* The last byte pic_install writes to PIC1 is taken for a mask: it masks the
\* timer and unmasks everything else.
pic_install ==
  /\ boot = "pic"
  /\ boot' = "timer"
  /\ init_irq_handling
  /\ irr' = {} /\ imr' = {Timer}
  /\ UNCHANGED <<isr, cpu, tcb, stack, history>>

unmask_irq(n) == imr \ {n}

\* Mutant: enable_irq only where there is a handler already.
install_irq_handler_masked(n) ==
  /\ imr' = IF n \in handlers THEN unmask_irq(n) ELSE imr
  /\ handlers' = handlers \union {n}
  /\ UNCHANGED <<irr, isr, cpu, tcb, stack, history>>

\* install_irq_handler of an interrupt that has no handler yet.
install_irq_handler(n) ==
  /\ imr' = IF n \in handlers THEN imr ELSE unmask_irq(n)
  /\ handlers' = handlers \union {n}
  /\ UNCHANGED <<irr, isr, cpu, tcb, stack, history>>

i8254_init == boot = "timer" /\ boot' = "kbd" /\ install_irq_handler(Timer)

kbd_init == boot = "kbd" /\ boot' = "threads" /\ install_irq_handler(Keyboard)

\* The self test of the keyboard or of its interface fails, and the boot ends.
kbd_fails ==
  boot = "kbd" /\ boot' = "failed" /\ UNCHANGED <<handlers, pic, cpu, tcb, stack, history>>

\* tcb_regs_init_state: the stack of a new thread looks like the one of a thread
\* that has been preempted by interrupt 0, with the flags of its creator.
AddThread(t) ==
  /\ cur = Idle /\ at = "run"
  /\ t \notin Added \union {Idle}
  /\ IF t = Srv THEN boot = "threads" /\ boot' = "sti" ELSE boot = "on" /\ boot' = boot
  /\ tcb' = [tcb EXCEPT ![t] = [used |-> TRUE, regs |-> t, intr |-> intr]]
  /\ stack' = [stack EXCEPT ![t] = <<Frame("irq", Timer, intr, "run"),
                                     Frame("switch", Timer, FALSE, "first")>>]
  /\ UNCHANGED <<handlers, pic, cpu, history>>

sti ==
  /\ boot = "sti" /\ boot' = "on"
  /\ intr' = TRUE
  /\ UNCHANGED <<handlers, pic, cur, at, regs, tcb, stack, history>>

-----------------------------------------------------------------------------
\* A device requests an interrupt.
Raise(n) ==
  /\ boot # "pic" /\ n \notin irr
  /\ irr' = irr \union {n}
  /\ UNCHANGED <<boot, handlers, isr, imr, cpu, tcb, stack, history>>

\* All gates are interrupt gates: the CPU enters code with interrupts disabled.
Gate(frame, code) == stack' = Push(cur, frame) /\ intr' = FALSE /\ at' = code

\* Mutant: the controller is in the mode of automatic ends of interrupts.
AcceptAutomatic(n) ==
  /\ intr /\ n \in irr \ imr
  /\ irr' = irr \ {n}
  /\ Gate(Frame("irq", n, intr, at), "irq")
  /\ UNCHANGED <<boot, handlers, isr, imr, cur, regs, tcb, history>>

\* The controller interrupts the CPU unless an interrupt of the same or of a
\* higher priority is in service.
Accept(n) ==
  /\ intr /\ n \in irr \ imr /\ \A m \in isr : n < m
  /\ irr' = irr \ {n} /\ isr' = isr \union {n}
  /\ Gate(Frame("irq", n, intr, at), "irq")
  /\ UNCHANGED <<boot, handlers, imr, cur, regs, tcb, history>>

\* Mutant: an interrupt without a handler ends without the signal.
HandleIrqKnown ==
  /\ at = "irq"
  /\ at' = IF Top.no \in handlers THEN "eoi" ELSE "iret"
  /\ UNCHANGED <<boot, handlers, pic, intr, cur, regs, tcb, stack, history>>

\* handle_irq: no handler, or the one handler returns without a switch (the
\* alarm of the scheduler has not expired, or it selects the same thread).
HandleIrq ==
  /\ at = "irq"
  /\ at' = "eoi"
  /\ UNCHANGED <<boot, handlers, pic, intr, cur, regs, tcb, stack, history>>

\* tcb_regs_switch up to the jump: cur calls it and continues with next.
Switch(t, next) ==
  /\ t \in (Added \union {Idle}) \ {cur}
  /\ tcb' = [tcb EXCEPT ![cur] = [used |-> @.used, regs |-> regs, intr |-> intr]]
  /\ stack' = Push(cur, Frame("switch", Timer, FALSE, next))
  /\ torn' = IF \E f \in Frames(cur) : f.next = "restore" THEN torn \union {cur} ELSE torn
  /\ cur' = t
  /\ intr' = TRUE
  /\ at' = "restore"
  /\ UNCHANGED <<boot, handlers, pic, regs>>

\* Mutant: the end of the interrupt is signalled before the switch as well.
PreemptSignalled(t) ==
  /\ at = "irq" /\ Top.no = Timer /\ Timer \in handlers
  /\ t \in (Added \union {Idle}) \ {cur}
  /\ tcb' = [tcb EXCEPT ![cur] = [used |-> @.used, regs |-> regs, intr |-> intr]]
  /\ stack' = Push(cur, Frame("switch", Timer, FALSE, "eoi"))
  /\ isr' = isr \ {Timer}
  /\ cur' = t /\ intr' = TRUE /\ at' = "restore"
  /\ UNCHANGED <<boot, handlers, irr, imr, regs, history>>

\* The timer's handler calls sched_switch.
Preempt(t) ==
  /\ at = "irq" /\ Top.no = Timer /\ Timer \in handlers
  /\ Switch(t, "eoi")
  /\ UNCHANGED slept

\* A system call, or the system service with interrupts disabled, waits.
Sleep(t) ==
  /\ at = "sys" \/ (at = "run" /\ cur = Srv)
  /\ Switch(t, at)
  /\ slept' = TRUE

\* tcb_regs_switch_entry_point: flags and registers of the thread, and return.
Restore ==
  /\ at = "restore"
  /\ regs' = tcb[cur].regs /\ intr' = tcb[cur].intr
  /\ at' = Top.next /\ stack' = Pop
  /\ UNCHANGED <<boot, handlers, pic, cur, tcb, history>>

FirstReturn ==
  /\ at = "first"
  /\ intr' = TRUE /\ at' = "eoi"
  /\ UNCHANGED <<boot, handlers, pic, cur, regs, tcb, stack, history>>

\* pic_eoi: the interrupt of the highest priority is no longer in service.
Eoi ==
  /\ at = "eoi"
  /\ isr' = {n \in isr : \E m \in isr : m < n}
  /\ at' = "iret"
  /\ stack' = [stack EXCEPT ![cur] =
                 Append(SubSeq(@, 1, Len(@) - 1), Frame("done", Top.no, Top.intr, Top.next))]
  /\ UNCHANGED <<boot, handlers, irr, imr, intr, cur, regs, tcb, history>>

\* iret from an interrupt or from a system call.
Iret ==
  /\ at \in {"iret", "sys"}
  /\ intr' = Top.intr /\ at' = Top.next /\ stack' = Pop
  /\ UNCHANGED <<boot, handlers, pic, cur, regs, tcb, history>>

\* A program calls the system.
Syscall ==
  /\ at = "run" /\ cur \notin {Idle, Srv}
  /\ Gate(Frame("sys", Timer, intr, "run"), "sys")
  /\ UNCHANGED <<boot, handlers, pic, cur, regs, tcb, history>>

-----------------------------------------------------------------------------
Boot == pic_install \/ i8254_init \/ kbd_init \/ kbd_fails \/ sti

Next ==
  \/ Boot
  \/ \E t \in Thread : AddThread(t) \/ Preempt(t) \/ Sleep(t)
  \/ \E n \in Lines : Raise(n) \/ Accept(n)
  \/ HandleIrq \/ Restore \/ FirstReturn \/ Eoi \/ Iret \/ Syscall

Spec == Init /\ [][Next]_vars

\* Kernel code comes to its end: handlers return, system calls return or wait,
\* and the service waits for the next message.
Kernel ==
  \/ HandleIrq \/ Restore \/ FirstReturn \/ Eoi \/ Iret
  \/ \E t \in Thread : Preempt(t) \/ Sleep(t)

\* The CPU takes an interrupt that it could take again and again.
FairSpec ==
  /\ Spec
  /\ WF_vars(Kernel)
  /\ \A n \in Lines : SF_vars(Accept(n))

-----------------------------------------------------------------------------
(* An interrupt in service has a handler that will still signal its end    *)
(* (idt.S:108-113): it runs, or its thread was switched away in it and     *)
(* signals the end when it runs again.  The signal does not name the       *)
(* interrupt, and a new thread signals one that it never handled.          *)
EoiOwed ==
  \A n \in isr : \E t \in Thread : \E f \in Frames(t) : f.kind = "irq" /\ f.no = n

(* tcb_regs_switch returns with the registers it was called with, unless   *)
(* the timer switched the thread away again while they were being loaded   *)
(* (tcbregs.S:95-127).  That takes a switch outside the timer's handler:   *)
(* inside, the timer stays in service until the registers are loaded.      *)
RegsKept ==
  /\ at \in {"run", "sys"} /\ cur \notin torn => regs = cur
  /\ ~slept => torn = {}

(* The timer's interrupt reaches the CPU: the thread-schedule interrupt    *)
(* triggers switches to other runnable threads (sched.c:67-70).            *)
TickHandled == boot = "on" /\ Timer \in irr ~> Timer \notin irr

\* t was switched away in the timer's handler.
Preempted(t) == \E f \in Frames(t) : f.kind = "switch" /\ f.next = "eoi"

(* A tick is handled as long as every thread that is switched away in the  *)
(* handler, and so owes the signal of its end (idt.S:110), runs again.     *)
TickHandledIfResumed ==
  (\A t \in Thread : Preempted(t) ~> (cur = t /\ at = "run")) => TickHandled
=============================================================================
