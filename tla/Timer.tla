-------------------------------- MODULE Timer --------------------------------
(***************************************************************************)
(* The timer of timer.c and the i8254 driver that drives it: alarms in a   *)
(* list, the timer interrupt that calls the functions of expired alarms,   *)
(* and timestamps that are 32-bit numbers of nanoseconds.                  *)
(*                                                                         *)
(* The function of the scheduler's alarm may switch to another thread in   *)
(* the middle of handle_timeout.  Further interrupts then run              *)
(* handle_timeout on top of the suspended one.                             *)
(***************************************************************************)
EXTENDS Naturals, Sequences, Lists

CONSTANTS
  Alarm,      \* the alarms
  SchedAlarm, \* g_alarm of sched.c, in the list from sched_init on
  Modulus,    \* timestamps are counted modulo this number, 2^32
  Tick,       \* S_TO_NS(1) / freq: nanoseconds between two interrupts
  RelTimes,   \* the relative times that alarms are set to
  Removable,  \* the alarms that are removed again
  End,        \* list_end: the head of the list
  Null        \* a NULL pointer; no invocation

ASSUME TimerAssumption ==
  /\ SchedAlarm \in Alarm
  /\ Modulus \in Nat \ {0}
  /\ Tick \in 1..(Modulus - 1)
  /\ RelTimes \subseteq 1..(Modulus - 1)
  /\ RelTimes # {}
  /\ Removable \subseteq Alarm \ {SchedAlarm}
  /\ End \notin Alarm
  /\ Null \notin Alarm \union {End}

VARIABLES
  clock,      \* i8254->timestamp
  base,       \* g_timer.timestamp_ns
  list,       \* g_timer.alarm_list, from list_begin on
  stamp,      \* stamp[a]: alarm->timestamp_ns
  loop,       \* the handle_timeout that executes
  suspended,  \* the handle_timeout whose alarm function switched away
  isr         \* the PIC has the timer's interrupt in service

vars == <<clock, base, list, stamp, loop, suspended, isr>>

Stamp == 0..(Modulus - 1)

(* The variables of handle_timeout: its argument, item and next.           *)
Item == Alarm \union {End, Null}

Loop ==
  [ts : Stamp, item : Item, next : Item, at : {"test", "func", "return"}]

ASSUME NullAssumption == Null \notin Loop

TypeOK ==
  /\ clock \in Stamp
  /\ base \in Stamp
  /\ list \in Seq(Alarm)
  /\ stamp \in [Alarm -> Stamp]
  /\ loop \in Loop \union {Null}
  /\ suspended \in Loop \union {Null}
  /\ isr \in BOOLEAN

Init ==
  \E rel \in RelTimes :
    /\ clock = 0
    /\ base = 0
    /\ list = <<SchedAlarm>>
    /\ stamp = [a \in Alarm |-> IF a = SchedAlarm THEN rel ELSE 0]
    /\ loop = Null
    /\ suspended = Null
    /\ isr = FALSE

-----------------------------------------------------------------------------
(* list_enqueue_sorted with cmp_timestamp: before the first alarm for      *)
(* which the difference of the timestamps is positive.  The difference is  *)
(* computed on unsigned numbers, so that it is never negative.             *)

CmpTimestamp(new, old) == (new + Modulus - old) % Modulus

Before(new, i) == CmpTimestamp(new, stamp[list[i]]) > 0

Inserted(q, i, a) ==
  [k \in 1..(Len(q) + 1) |-> IF k < i THEN q[k] ELSE IF k = i THEN a ELSE q[k - 1]]

EnqueueSorted(a, new) ==
  \E i \in 1..(Len(list) + 1) :
    /\ \A j \in 1..(i - 1) : ~Before(new, j)
    /\ i <= Len(list) => Before(new, i)
    /\ list' = Inserted(list, i, a)

ListBegin(q) == Head(Append(q, End))

\* list_next of an alarm that is in no list is NULL.
ListNext(q, a) ==
  IF a \in Members(q)
  THEN Append(q, End)[1 + CHOOSE i \in DOMAIN q : q[i] = a]
  ELSE Null

-----------------------------------------------------------------------------
(* timer_add_alarm and timer_remove_alarm, with interrupts disabled.  The  *)
(* caller does not add an alarm twice.                                     *)

Unused(a) ==
  /\ a \notin Members(list)
  /\ suspended # Null => suspended.item # a

AddAlarm(a, rel) ==
  /\ loop = Null /\ Unused(a)
  /\ LET new == (base + rel) % Modulus
     IN  /\ stamp' = [stamp EXCEPT ![a] = new]
         /\ EnqueueSorted(a, new)
  /\ UNCHANGED <<clock, base, loop, suspended, isr>>

RemoveAlarm(a) ==
  /\ loop = Null /\ a \in Removable
  /\ a \in Members(list)
  /\ list' = Without(list, a)
  /\ UNCHANGED <<clock, base, stamp, loop, suspended, isr>>

-----------------------------------------------------------------------------
(* irq_handler_func of the i8254 and the start of handle_timeout.  The PIC *)
(* delivers no further interrupt until platform_eoi.                       *)

Interrupt ==
  /\ loop = Null /\ ~isr
  /\ isr' = TRUE
  /\ clock' = (clock + Tick) % Modulus
  /\ loop' = [ts |-> clock', item |-> ListBegin(list), next |-> Null, at |-> "test"]
  /\ UNCHANGED <<base, list, stamp, suspended>>

HasExpired(a, ts) == stamp[a] <= ts

\* Mutant: the alarm stays in the list while its function is called.
FireStaysQueued ==
  /\ loop # Null /\ loop.at = "test"
  /\ loop.item \in Alarm
  /\ HasExpired(loop.item, loop.ts)
  /\ loop' = [loop EXCEPT !.next = ListNext(list, loop.item), !.at = "func"]
  /\ UNCHANGED <<clock, base, list, stamp, suspended, isr>>

\* The next alarm has expired: it is dequeued and its function is called.
Fire ==
  /\ loop # Null /\ loop.at = "test"
  /\ loop.item \in Alarm
  /\ HasExpired(loop.item, loop.ts)
  /\ loop' = [loop EXCEPT !.next = ListNext(list, loop.item), !.at = "func"]
  /\ list' = Without(list, loop.item)
  /\ UNCHANGED <<clock, base, stamp, suspended, isr>>

\* The end of the list, or an alarm that has not expired.  A NULL pointer is
\* neither: nothing is known of a handle_timeout that follows one.  On return,
\* idt_handle_irq signals the end of the interrupt.
Finish ==
  /\ loop # Null /\ loop.at = "test"
  /\ loop.item # Null
  /\ loop.item \in Alarm => ~HasExpired(loop.item, loop.ts)
  /\ loop' = Null
  /\ isr' = FALSE
  /\ UNCHANGED <<clock, base, list, stamp, suspended>>

\* alarm_handler of sched.c, whose sched_switch chooses another thread.
Suspend ==
  /\ loop # Null /\ loop.at = "func" /\ loop.item = SchedAlarm
  /\ suspended = Null
  /\ suspended' = loop
  /\ loop' = Null
  /\ UNCHANGED <<clock, base, list, stamp, isr>>

(* The thread that was switched to is new: it starts in                    *)
(* idt_handle_irq_return and signals the end of the interrupt in place of  *)
(* the suspended thread.  A thread that had called sched_switch itself     *)
(* does not.                                                               *)
FirstReturn ==
  /\ loop = Null /\ suspended # Null
  /\ isr
  /\ isr' = FALSE
  /\ UNCHANGED <<clock, base, list, stamp, loop, suspended>>

\* The interrupted thread runs again.
Resume ==
  /\ loop = Null /\ suspended # Null
  /\ loop' = [suspended EXCEPT !.at = "return"]
  /\ suspended' = Null
  /\ UNCHANGED <<clock, base, list, stamp, isr>>

Calling(l) == l # Null /\ l.at \in {"func", "return"}

(* The function returns when to call it again, or zero if the alarm is not *)
(* periodic.  The new time counts from the interrupt that handle_timeout   *)
(* was called for.                                                         *)
Periodic(rel) ==
  /\ Calling(loop)
  /\ LET a   == loop.item
         new == (loop.ts + rel) % Modulus
     IN  /\ stamp' = [stamp EXCEPT ![a] = new]
         /\ EnqueueSorted(a, new)
  /\ loop' = [loop EXCEPT !.item = loop.next, !.at = "test"]
  /\ UNCHANGED <<clock, base, suspended, isr>>

\* Mutant: the loop does not go on to the next alarm.
OneShotAgain ==
  /\ Calling(loop) /\ loop.item # SchedAlarm
  /\ loop' = [loop EXCEPT !.at = "test"]
  /\ UNCHANGED <<clock, base, list, stamp, suspended, isr>>

OneShot ==
  /\ Calling(loop) /\ loop.item # SchedAlarm
  /\ loop' = [loop EXCEPT !.item = loop.next, !.at = "test"]
  /\ UNCHANGED <<clock, base, list, stamp, suspended, isr>>

-----------------------------------------------------------------------------
Callers ==
  \E a \in Alarm : RemoveAlarm(a) \/ \E rel \in RelTimes : AddAlarm(a, rel)

HandleTimeout == Fire \/ Finish \/ OneShot \/ \E rel \in RelTimes : Periodic(rel)

Next == Interrupt \/ HandleTimeout \/ Suspend \/ FirstReturn \/ Resume \/ Callers

Spec == Init /\ [][Next]_vars

\* The timer ticks, and kernel code with interrupts disabled proceeds.
Fairness == WF_vars(Interrupt) /\ WF_vars(HandleTimeout)

FairSpec == Spec /\ Fairness

-----------------------------------------------------------------------------
(* Properties.                                                             *)

Executing(l, a) == Calling(l) /\ l.item = a

(* The scheduler's alarm, which drives preemption, is never lost and never *)
(* doubled: it is in the list once, or else its function runs in one       *)
(* invocation of handle_timeout (timer.c:105-120).                         *)
AlarmKept ==
  /\ \A i, j \in DOMAIN list : list[i] = list[j] => i = j
  /\ ~(Executing(loop, SchedAlarm) /\ Executing(suspended, SchedAlarm))
  /\ SchedAlarm \in Members(list)
       <=> ~(Executing(loop, SchedAlarm) \/ Executing(suspended, SchedAlarm))

(* handle_timeout, which runs with interrupts disabled, returns or is      *)
(* suspended (timer.c:96-123), although alarms are queued again behind its *)
(* back.  The exception is a suspended one whose next alarm was taken out  *)
(* of the list: it follows the NULL pointer of that alarm (timer.c:105).   *)
TimeoutReturns == loop # Null ~> (loop = Null \/ loop.item = Null)

(* Threads get time slices (sched.c:31): the scheduler's alarm fires again *)
(* and again, as long as the threads that it interrupted run again.        *)
FiresAgain == []<>(suspended = Null) => []<><<Fire>>_vars
=============================================================================
