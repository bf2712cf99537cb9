----------------------------- MODULE TimerProofs -----------------------------
(* Proofs about Timer, for any alarms, times and widths of timestamps.     *)
EXTENDS Timer, TLAPS

\* No item is in q twice.
Once(q) == \A i, j \in DOMAIN q : q[i] = q[j] => i = j

(* The variable next of handle_timeout is stale after a switch, but it     *)
(* never names the scheduler's alarm when that is not in the list.         *)
Loops ==
  /\ Calling(loop) => loop.item \in Alarm \ Members(list)
  /\ loop # Null /\ loop.at = "test" /\ loop.item = SchedAlarm => SchedAlarm \in Members(list)
  /\ Calling(loop) /\ loop.next = SchedAlarm => SchedAlarm \in Members(list)
  /\ suspended # Null => /\ suspended.at = "func"
                         /\ suspended.item = SchedAlarm
                         /\ suspended.next # SchedAlarm

IInv == TypeOK /\ AlarmKept /\ Loops

-----------------------------------------------------------------------------
(* The list.                                                               *)

(* list_dequeue on a list in which no item is twice.                       *)
LEMMA Removing ==
  ASSUME NEW q \in Seq(Alarm), NEW a \in Alarm, Once(q)
  PROVE  /\ Without(q, a) \in Seq(Alarm)
         /\ Once(Without(q, a))
         /\ Members(Without(q, a)) = Members(q) \ {a}
<1>1. CASE \E j \in DOMAIN q : q[j] = a
  <2>. DEFINE i == CHOOSE j \in DOMAIN q : q[j] = a
              w == [j \in 1..(Len(q) - 1) |-> IF j < i THEN q[j] ELSE q[j + 1]]
  <2>1. i \in 1..Len(q) /\ Len(q) \in Nat /\ q[i] = a /\ DOMAIN q = 1..Len(q)
    BY <1>1
  <2>2. Without(q, a) = w
    BY <1>1, Zenon DEF Without
  <2>. HIDE DEF i
  <2>3. w \in Seq(Alarm) /\ DOMAIN w = 1..(Len(q) - 1)
    BY <2>1
  <2>4. \A j, k \in DOMAIN w : w[j] = w[k] => j = k
    BY <2>1 DEF Once
  <2>5. \A j \in DOMAIN w : w[j] \in Members(q) /\ w[j] # a
    BY <2>1 DEF Members, Once
  <2>6. \A u \in Members(q) \ {a} : \E j \in DOMAIN w : w[j] = u
    <3>. SUFFICES ASSUME NEW k \in DOMAIN q, q[k] # a
                  PROVE  \E j \in DOMAIN w : w[j] = q[k]
      BY DEF Members
    <3>1. CASE k < i
      <4>1. k \in DOMAIN w /\ w[k] = q[k]
        BY <2>1, <3>1
      <4>. QED  BY <4>1, Zenon
    <3>2. CASE k > i
      <4>1. k - 1 \in DOMAIN w /\ w[k - 1] = q[k]
        BY <2>1, <3>2
      <4>. QED  BY <4>1, Zenon
    <3>. QED  BY <2>1, <3>1, <3>2
  <2>. HIDE DEF w
  <2>7. Members(w) = Members(q) \ {a}
    <3>1. \A u : u \in Members(w) <=> \E j \in DOMAIN w : w[j] = u
      BY Zenon DEF Members
    <3>. QED  BY <2>5, <2>6, <3>1, Zenon
  <2>. QED  BY <2>2, <2>3, <2>4, <2>7, Zenon DEF Once
<1>2. CASE ~ \E j \in DOMAIN q : q[j] = a
  BY <1>2, Zenon DEF Without, Members
<1>. QED  BY <1>1, <1>2, Zenon

(* An item put into a list that it is not in, at any place.                *)
LEMMA Inserting ==
  ASSUME NEW q \in Seq(Alarm), NEW a \in Alarm \ Members(q), Once(q),
         NEW i \in 1..(Len(q) + 1)
  PROVE  /\ Inserted(q, i, a) \in Seq(Alarm)
         /\ Once(Inserted(q, i, a))
         /\ Members(Inserted(q, i, a)) = Members(q) \union {a}
<1>. DEFINE n == Len(q)
            w == [k \in 1..(n + 1) |-> IF k < i THEN q[k] ELSE IF k = i THEN a ELSE q[k - 1]]
<1>1. n \in Nat /\ DOMAIN q = 1..n /\ \A k \in 1..n : q[k] \in Alarm
  OBVIOUS
<1>2. Inserted(q, i, a) = w /\ DOMAIN w = 1..(n + 1)
  BY Zenon DEF Inserted
<1>. HIDE DEF n
<1>3. i \in 1..(n + 1) /\ \A k \in 1..n : q[k] # a
  BY <1>1, Zenon DEF Members, n
<1>4. \A k \in 1..(n + 1) : w[k] \in Alarm
  BY <1>1, <1>3
<1>5. w \in Seq(Alarm)
  BY <1>1, <1>4
<1>6. \A j, k \in DOMAIN w : w[j] = w[k] => j = k
  BY <1>1, <1>3 DEF Once
<1>7. \A k \in DOMAIN w : w[k] = a \/ w[k] \in Members(q)
  BY <1>1, <1>3 DEF Members
<1>8. \A u \in Members(q) \union {a} : \E k \in DOMAIN w : w[k] = u
  <2>1. i \in DOMAIN w /\ w[i] = a
    BY <1>1, <1>3
  <2>2. ASSUME NEW k \in DOMAIN q PROVE \E j \in DOMAIN w : w[j] = q[k]
    <3>1. CASE k < i
      <4>1. k \in DOMAIN w /\ w[k] = q[k]
        BY <1>1, <1>3, <3>1
      <4>. QED  BY <4>1, Zenon
    <3>2. CASE ~(k < i)
      <4>1. k + 1 \in DOMAIN w /\ w[k + 1] = q[k]
        BY <1>1, <1>3, <3>2
      <4>. QED  BY <4>1, Zenon
    <3>. QED  BY <3>1, <3>2, Zenon
  <2>. HIDE DEF w
  <2>3. ASSUME NEW u \in Members(q) PROVE \E j \in DOMAIN w : w[j] = u
    <3>1. PICK k \in DOMAIN q : u = q[k]
      BY Zenon DEF Members
    <3>. QED  BY <2>2, <3>1, Zenon
  <2>. QED  BY <2>1, <2>3, Zenon
<1>. HIDE DEF w
<1>9. Members(w) = Members(q) \union {a}
  <2>1. \A u : u \in Members(w) <=> \E j \in DOMAIN w : w[j] = u
    BY Zenon DEF Members
  <2>. QED  BY <1>7, <1>8, <2>1, Zenon
<1>. QED  BY <1>2, <1>5, <1>6, <1>9, Zenon DEF Once

(* list_enqueue_sorted.                                                    *)
LEMMA Enqueueing ==
  ASSUME IInv, NEW a \in Alarm \ Members(list), NEW new, EnqueueSorted(a, new)
  PROVE  /\ list' \in Seq(Alarm) /\ Once(list')
         /\ Members(list') = Members(list) \union {a}
<1>1. PICK i \in 1..(Len(list) + 1) : list' = Inserted(list, i, a)
  BY Zenon DEF EnqueueSorted
<1>2. list \in Seq(Alarm) /\ Once(list)
  BY Zenon DEF IInv, TypeOK, AlarmKept, Once
<1>. QED  BY <1>1, <1>2, Inserting, Zenon

(* What list_begin and list_next return.                                   *)
LEMMA Walking ==
  ASSUME NEW q \in Seq(Alarm), NEW a \in Alarm, Once(q)
  PROVE  /\ ListBegin(q) \in Members(q) \union {End}
         /\ ListNext(q, a) \in (Members(q) \ {a}) \union {End, Null}
<1>1. Len(q) \in Nat /\ DOMAIN q = 1..Len(q) /\ \A k \in 1..Len(q) : q[k] \in Members(q)
  BY DEF Members
<1>. DEFINE e == Append(q, End)
<1>2. /\ e \in Seq(Alarm \union {End}) /\ Len(e) = Len(q) + 1
      /\ \A k \in 1..Len(q) : e[k] = q[k]
      /\ e[Len(q) + 1] = End
  OBVIOUS
<1>3. ListBegin(q) = e[1]
  BY <1>2 DEF ListBegin
<1>. HIDE DEF e
<1>4. ListBegin(q) \in Members(q) \union {End}
  BY <1>1, <1>2, <1>3
<1>5. CASE a \in Members(q)
  <2>. DEFINE i == CHOOSE j \in DOMAIN q : q[j] = a
  <2>1. i \in DOMAIN q /\ q[i] = a
    BY <1>5, Zenon DEF Members
  <2>2. ListNext(q, a) = e[1 + i]
    BY <1>5, Zenon DEF ListNext, e
  <2>. HIDE DEF i
  <2>3. CASE i = Len(q)
    <3>1. 1 + i = Len(q) + 1
      BY <1>1, <2>3
    <3>. QED  BY <1>2, <1>4, <2>2, <3>1, Zenon
  <2>4. CASE i # Len(q)
    <3>1. 1 + i \in 1..Len(q) /\ 1 + i # i /\ 1 + i \in DOMAIN q
      BY <1>1, <2>1, <2>4
    <3>2. q[1 + i] # a /\ q[1 + i] \in Members(q) /\ e[1 + i] = q[1 + i]
      BY <1>1, <1>2, <2>1, <3>1, Zenon DEF Once
    <3>. QED  BY <1>4, <2>2, <3>2, Zenon
  <2>. QED  BY <1>4, <2>3, <2>4, Zenon
<1>6. CASE a \notin Members(q)
  BY <1>4, <1>6, Zenon DEF ListNext
<1>. QED  BY <1>5, <1>6, Zenon

-----------------------------------------------------------------------------
(* The variables of handle_timeout, and what its steps assign to them.     *)

LEMMA LoopFields ==
  ASSUME NEW l \in Loop
  PROVE  /\ l.ts \in Stamp /\ l.item \in Item /\ l.next \in Item
         /\ l.at \in {"test", "func", "return"} /\ l # Null
BY NullAssumption, Zenon DEF Loop

LEMMA Fired ==
  ASSUME NEW l \in Loop, NEW x \in Item
  PROVE  /\ [l EXCEPT !.next = x, !.at = "func"] \in Loop
         /\ [l EXCEPT !.next = x, !.at = "func"].item = l.item
         /\ [l EXCEPT !.next = x, !.at = "func"].next = x
         /\ [l EXCEPT !.next = x, !.at = "func"].at = "func"
BY Zenon DEF Loop

LEMMA MovedOn ==
  ASSUME NEW l \in Loop
  PROVE  /\ [l EXCEPT !.item = l.next, !.at = "test"] \in Loop
         /\ [l EXCEPT !.item = l.next, !.at = "test"].item = l.next
         /\ [l EXCEPT !.item = l.next, !.at = "test"].at = "test"
BY Zenon DEF Loop

LEMMA Resumed ==
  ASSUME NEW l \in Loop
  PROVE  /\ [l EXCEPT !.at = "return"] \in Loop
         /\ [l EXCEPT !.at = "return"].item = l.item
         /\ [l EXCEPT !.at = "return"].next = l.next
         /\ [l EXCEPT !.at = "return"].at = "return"
BY Zenon DEF Loop

(* Sums of timestamps wrap.                                                *)
LEMMA Wraps ==
  ASSUME NEW x \in Stamp, NEW y \in Nat
  PROVE  (x + y) % Modulus \in Stamp
BY TimerAssumption DEF Stamp

(* What the invariant says of a handle_timeout that executes.              *)
LEMMA InLoop ==
  ASSUME IInv, loop # Null
  PROVE  loop \in Loop /\ loop.item \in Item /\ loop.next \in Item /\ list \in Seq(Alarm) /\ Once(list)
<1>1. loop \in Loop /\ list \in Seq(Alarm) /\ Once(list)
  BY Zenon DEF IInv, TypeOK, AlarmKept, Once
<1>. QED  BY <1>1, LoopFields, Zenon

-----------------------------------------------------------------------------
(* The timer's interrupt begins with the first alarm.                      *)
LEMMA InterruptStep ==
  ASSUME IInv, Interrupt
  PROVE  IInv'
<1>. USE DEF IInv
<1>1. /\ loop = Null /\ UNCHANGED <<base, list, stamp, suspended>> /\ isr' = TRUE
      /\ clock' = (clock + Tick) % Modulus
      /\ loop' = [ts |-> clock', item |-> ListBegin(list), next |-> Null, at |-> "test"]
  BY Zenon DEF Interrupt
<1>2. clock' \in Stamp
  <2>1. clock \in Stamp /\ Tick \in Nat
    BY TimerAssumption DEF TypeOK
  <2>. QED  BY <1>1, <2>1, Wraps, Zenon
<1>3. ListBegin(list) \in Members(list) \union {End} /\ Members(list) \subseteq Alarm
  <2>1. list \in Seq(Alarm) /\ Once(list) /\ SchedAlarm \in Alarm
    BY TimerAssumption, Zenon DEF TypeOK, AlarmKept, Once
  <2>2. Members(list) \subseteq Alarm
    BY <2>1 DEF Members
  <2>. QED  BY <2>1, <2>2, Walking, Zenon
<1>4. loop' \in Loop /\ loop'.item = ListBegin(list) /\ loop'.at = "test"
  <2>1. ListBegin(list) \in Item /\ Null \in Item
    BY <1>3, Zenon DEF Item
  <2>. QED  BY <1>1, <1>2, <2>1, Zenon DEF Loop
<1>5. TypeOK'
  BY <1>1, <1>2, <1>4, Zenon DEF TypeOK
<1>6. ~Calling(loop) /\ ~Calling(loop')
  BY <1>1, <1>4, Zenon DEF Calling
<1>7. AlarmKept'
  BY <1>1, <1>6, Zenon DEF AlarmKept, Executing, Calling
<1>8. Loops'
  <2>1. loop'.item = SchedAlarm => SchedAlarm \in Members(list')
    BY <1>1, <1>3, <1>4, TimerAssumption, Zenon
  <2>. QED  BY <1>1, <1>6, <2>1, Zenon DEF Loops, Calling
<1>. QED  BY <1>5, <1>7, <1>8, Zenon

(* An alarm that has expired, still in the list or not.                    *)
LEMMA FireStep ==
  ASSUME IInv, Fire
  PROVE  IInv'
<1>. USE DEF IInv
<1>1. /\ loop # Null /\ loop.at = "test" /\ loop.item \in Alarm
      /\ UNCHANGED <<clock, base, stamp, suspended, isr>>
      /\ list' = Without(list, loop.item)
      /\ loop' = [loop EXCEPT !.next = ListNext(list, loop.item), !.at = "func"]
  BY Zenon DEF Fire
<1>2. loop \in Loop /\ list \in Seq(Alarm) /\ Once(list)
  BY <1>1, InLoop, Zenon
<1>3. /\ list' \in Seq(Alarm) /\ Once(list')
      /\ Members(list') = Members(list) \ {loop.item}
  BY <1>1, <1>2, Removing, Zenon
<1>4. ListNext(list, loop.item) \in (Members(list) \ {loop.item}) \union {End, Null}
  BY <1>1, <1>2, Walking, Zenon
<1>5. /\ loop' \in Loop /\ loop'.item = loop.item /\ loop'.at = "func"
      /\ loop'.next = ListNext(list, loop.item)
  <2>1. Members(list) \subseteq Alarm
    BY <1>2 DEF Members
  <2>2. ListNext(list, loop.item) \in Item
    BY <1>4, <2>1, Zenon DEF Item
  <2>. QED  BY <1>1, <1>2, <2>2, Fired, Zenon
<1>6. loop' # Null /\ Calling(loop') /\ ~Calling(loop)
  BY <1>1, <1>5, LoopFields, Zenon DEF Calling
<1>7. TypeOK'
  BY <1>1, <1>3, <1>5, Zenon DEF TypeOK
<1>8. AlarmKept'
  <2>1. Executing(loop, SchedAlarm)' <=> loop.item = SchedAlarm
    BY <1>5, <1>6, Zenon DEF Executing
  <2>2. Executing(suspended, SchedAlarm)' <=> Executing(suspended, SchedAlarm)
    BY <1>1, Zenon DEF Executing, Calling
  <2>3. SchedAlarm \in Members(list)' <=> SchedAlarm \in Members(list) /\ loop.item # SchedAlarm
    BY <1>3, Zenon
  <2>4. loop.item = SchedAlarm => SchedAlarm \in Members(list)
    BY <1>1, Zenon DEF Loops
  <2>5. SchedAlarm \in Members(list) <=> ~Executing(suspended, SchedAlarm)
    BY <1>6, Zenon DEF AlarmKept, Executing
  <2>. QED  BY <1>3, <2>1, <2>2, <2>3, <2>4, <2>5, Zenon DEF AlarmKept, Once
<1>9. Loops'
  <2>1. loop'.item \in Alarm \ Members(list')
    BY <1>1, <1>3, <1>5, Zenon
  <2>2. loop'.next = SchedAlarm => SchedAlarm \in Members(list')
    BY <1>3, <1>4, <1>5, TimerAssumption, Zenon
  <2>. QED  BY <1>1, <1>5, <2>1, <2>2, Zenon DEF Loops
<1>. QED  BY <1>7, <1>8, <1>9, Zenon

(* handle_timeout returns.                                                 *)
LEMMA FinishStep ==
  ASSUME IInv, Finish
  PROVE  IInv'
<1>. USE DEF IInv
<1>1. /\ loop.at = "test" /\ loop' = Null /\ isr' = FALSE
      /\ UNCHANGED <<clock, base, list, stamp, suspended>>
  BY Zenon DEF Finish
<1>2. ~Calling(loop) /\ ~Calling(loop')
  BY <1>1, Zenon DEF Calling
<1>3. TypeOK'
  BY <1>1, Zenon DEF TypeOK
<1>4. AlarmKept'
  BY <1>1, <1>2, Zenon DEF AlarmKept, Executing, Calling
<1>5. Loops'
  BY <1>1, <1>2, Zenon DEF Loops, Calling
<1>. QED  BY <1>3, <1>4, <1>5, Zenon

(* The alarm's function switches away, and back.                           *)
LEMMA SwitchStep ==
  ASSUME IInv, Suspend \/ FirstReturn \/ Resume
  PROVE  IInv'
<1>. USE DEF IInv
<1>1. CASE Suspend
  <2>1. /\ loop # Null /\ loop.at = "func" /\ loop.item = SchedAlarm /\ suspended = Null
        /\ suspended' = loop /\ loop' = Null /\ UNCHANGED <<clock, base, list, stamp, isr>>
    BY <1>1, Zenon DEF Suspend
  <2>2. Calling(loop) /\ ~Calling(loop') /\ ~Calling(suspended)
    BY <2>1, Zenon DEF Calling
  <2>3. TypeOK'
    BY <2>1, Zenon DEF TypeOK
  <2>4. AlarmKept'
    BY <2>1, <2>2, Zenon DEF AlarmKept, Executing, Calling
  <2>5. suspended'.next # SchedAlarm
    BY <2>1, <2>2, Zenon DEF Loops
  <2>6. Loops'
    BY <2>1, <2>2, <2>5, Zenon DEF Loops, Calling
  <2>. QED  BY <2>3, <2>4, <2>6, Zenon
<1>2. CASE FirstReturn
  <2>1. isr' = FALSE /\ UNCHANGED <<clock, base, list, stamp, loop, suspended>>
    BY <1>2, Zenon DEF FirstReturn
  <2>2. TypeOK'
    BY <2>1, Zenon DEF TypeOK
  <2>3. AlarmKept' /\ Loops'
    BY <2>1, Zenon DEF AlarmKept, Loops, Executing, Calling
  <2>. QED  BY <2>2, <2>3, Zenon
<1>3. CASE Resume
  <2>1. /\ loop = Null /\ suspended # Null /\ suspended' = Null
        /\ loop' = [suspended EXCEPT !.at = "return"]
        /\ UNCHANGED <<clock, base, list, stamp, isr>>
    BY <1>3, Zenon DEF Resume
  <2>2. suspended \in Loop
    BY <2>1, Zenon DEF TypeOK
  <2>3. /\ loop' \in Loop /\ loop' # Null /\ loop'.at = "return"
        /\ loop'.item = suspended.item /\ loop'.next = suspended.next
    BY <2>1, <2>2, Resumed, LoopFields, Zenon
  <2>4. Calling(loop') /\ ~Calling(loop) /\ ~Calling(suspended')
    BY <2>1, <2>3, Zenon DEF Calling
  <2>5. /\ suspended.item = SchedAlarm /\ suspended.next # SchedAlarm
        /\ Executing(suspended, SchedAlarm)
    BY <2>1, Zenon DEF Loops, Calling, Executing
  <2>6. TypeOK'
    BY <2>1, <2>3, Zenon DEF TypeOK
  <2>7. AlarmKept'
    BY <2>1, <2>3, <2>4, <2>5, Zenon DEF AlarmKept, Executing, Calling
  <2>8. Loops'
    <3>1. loop'.item \in Alarm \ Members(list')
      BY <2>1, <2>3, <2>5, TimerAssumption, Zenon DEF AlarmKept
    <3>. QED  BY <2>1, <2>3, <2>5, <3>1, Zenon DEF Loops
  <2>. QED  BY <2>6, <2>7, <2>8, Zenon
<1>. QED  BY <1>1, <1>2, <1>3, Zenon

(* The alarm's function has returned.                                      *)
LEMMA NextItem ==
  ASSUME IInv, Calling(loop), loop' = [loop EXCEPT !.item = loop.next, !.at = "test"],
         UNCHANGED suspended,
         SchedAlarm \in Members(list)' <=> SchedAlarm \in Members(list) \/ loop.item = SchedAlarm,
         list' \in Seq(Alarm), Once(list')
  PROVE  loop' \in Loop /\ AlarmKept' /\ Loops'
<1>. USE DEF IInv
<1>1. loop # Null /\ loop \in Loop
  BY InLoop, Zenon DEF Calling
<1>2. loop' \in Loop /\ loop'.item = loop.next /\ loop'.at = "test"
  BY <1>1, MovedOn, Zenon
<1>3. ~Calling(loop')
  BY <1>2, Zenon DEF Calling
<1>4. AlarmKept'
  <2>1. ~Executing(loop, SchedAlarm)'
    BY <1>3, Zenon DEF Executing
  <2>2. Executing(suspended, SchedAlarm)' <=> Executing(suspended, SchedAlarm)
    BY Zenon DEF Executing, Calling
  <2>3. Executing(loop, SchedAlarm) <=> loop.item = SchedAlarm
    BY Zenon DEF Executing
  <2>. QED  BY <2>1, <2>2, <2>3, Zenon DEF AlarmKept, Once
<1>5. Loops'
  BY <1>2, <1>3, Zenon DEF Loops, Calling
<1>. QED  BY <1>2, <1>4, <1>5, Zenon

LEMMA ReturnStep ==
  ASSUME IInv, OneShot \/ \E rel \in RelTimes : Periodic(rel)
  PROVE  IInv'
<1>. USE DEF IInv
<1>1. CASE OneShot
  <2>1. /\ Calling(loop) /\ loop.item # SchedAlarm
        /\ loop' = [loop EXCEPT !.item = loop.next, !.at = "test"]
        /\ UNCHANGED <<clock, base, list, stamp, suspended, isr>>
    BY <1>1, Zenon DEF OneShot
  <2>2. list' \in Seq(Alarm) /\ Once(list')
    BY <2>1, InLoop, Zenon DEF Calling
  <2>3. Members(list)' = Members(list)
    BY <2>1, Zenon
  <2>4. loop' \in Loop /\ AlarmKept' /\ Loops'
    BY <2>1, <2>2, <2>3, NextItem, Zenon
  <2>5. TypeOK'
    BY <2>1, <2>4, Zenon DEF TypeOK
  <2>. QED  BY <2>4, <2>5, Zenon
<1>2. ASSUME NEW rel \in RelTimes, Periodic(rel) PROVE IInv'
  <2>. DEFINE a == loop.item
              new == (loop.ts + rel) % Modulus
  <2>1. /\ Calling(loop) /\ stamp' = [stamp EXCEPT ![a] = new] /\ EnqueueSorted(a, new)
        /\ loop' = [loop EXCEPT !.item = loop.next, !.at = "test"]
        /\ UNCHANGED <<clock, base, suspended, isr>>
    BY <1>2, Zenon DEF Periodic
  <2>2. a \in Alarm \ Members(list)
    BY <2>1, Zenon DEF Loops
  <2>3. new \in Stamp
    <3>1. loop.ts \in Stamp /\ rel \in Nat
      BY <2>1, InLoop, LoopFields, TimerAssumption DEF Calling
    <3>. QED  BY <3>1, Wraps, Zenon
  <2>. HIDE DEF new
  <2>4. /\ list' \in Seq(Alarm) /\ Once(list')
        /\ Members(list') = Members(list) \union {a}
    BY <2>1, <2>2, Enqueueing, Zenon
  <2>5. loop' \in Loop /\ AlarmKept' /\ Loops'
    BY <2>1, <2>4, NextItem, Zenon
  <2>6. stamp' \in [Alarm -> Stamp]
    BY <2>1, <2>3, Zenon DEF TypeOK
  <2>7. TypeOK'
    BY <2>1, <2>4, <2>5, <2>6, Zenon DEF TypeOK
  <2>. QED  BY <2>5, <2>7, Zenon
<1>. QED  BY <1>1, <1>2, Zenon

(* Callers of the timer.                                                   *)
LEMMA CallerStep ==
  ASSUME IInv, Callers
  PROVE  IInv'
<1>. USE DEF IInv
<1>0. list \in Seq(Alarm) /\ Once(list)
  BY Zenon DEF TypeOK, AlarmKept, Once
<1>1. ASSUME NEW a \in Alarm, NEW rel \in RelTimes, AddAlarm(a, rel) PROVE IInv'
  <2>. DEFINE new == (base + rel) % Modulus
  <2>1. /\ loop = Null /\ Unused(a) /\ stamp' = [stamp EXCEPT ![a] = new]
        /\ EnqueueSorted(a, new) /\ UNCHANGED <<clock, base, loop, suspended, isr>>
    BY <1>1, Zenon DEF AddAlarm
  <2>2. new \in Stamp
    <3>1. base \in Stamp /\ rel \in Nat
      BY TimerAssumption DEF TypeOK
    <3>. QED  BY <3>1, Wraps, Zenon
  <2>. HIDE DEF new
  <2>3. a \notin Members(list) /\ ~Calling(loop)
    BY <2>1, Zenon DEF Unused, Calling
  <2>4. /\ list' \in Seq(Alarm) /\ Once(list')
        /\ Members(list') = Members(list) \union {a}
    BY <2>1, <2>3, Enqueueing, Zenon
  <2>5. a # SchedAlarm
    BY <2>1, <2>3, Zenon DEF Unused, AlarmKept, Executing, Calling
  <2>6. stamp' \in [Alarm -> Stamp]
    BY <2>1, <2>2, Zenon DEF TypeOK
  <2>7. TypeOK'
    BY <2>1, <2>4, <2>6, Zenon DEF TypeOK
  <2>8. SchedAlarm \in Members(list') <=> SchedAlarm \in Members(list)
    BY <2>4, <2>5, Zenon
  <2>9. AlarmKept' /\ Loops'
    BY <2>1, <2>3, <2>4, <2>8, Zenon DEF AlarmKept, Loops, Executing, Calling, Once
  <2>. QED  BY <2>7, <2>9, Zenon
<1>2. ASSUME NEW a \in Alarm, RemoveAlarm(a) PROVE IInv'
  <2>1. /\ loop = Null /\ a # SchedAlarm /\ list' = Without(list, a)
        /\ UNCHANGED <<clock, base, stamp, loop, suspended, isr>>
    BY <1>2, TimerAssumption, Zenon DEF RemoveAlarm
  <2>2. /\ list' \in Seq(Alarm) /\ Once(list')
        /\ Members(list') = Members(list) \ {a}
    BY <1>0, <2>1, Removing, Zenon
  <2>3. TypeOK'
    BY <2>1, <2>2, Zenon DEF TypeOK
  <2>4. SchedAlarm \in Members(list') <=> SchedAlarm \in Members(list)
    BY <2>1, <2>2, Zenon
  <2>5. AlarmKept' /\ Loops'
    BY <2>1, <2>2, <2>4, Zenon DEF AlarmKept, Loops, Executing, Calling, Once
  <2>. QED  BY <2>3, <2>5, Zenon
<1>. QED  BY <1>1, <1>2, Zenon DEF Callers

-----------------------------------------------------------------------------
LEMMA InitIInv == Init => IInv
<1>. SUFFICES ASSUME NEW rel \in RelTimes,
                     clock = 0, base = 0, list = <<SchedAlarm>>, loop = Null, suspended = Null,
                     isr = FALSE, stamp = [a \in Alarm |-> IF a = SchedAlarm THEN rel ELSE 0]
              PROVE  IInv
  BY Zenon DEF Init
<1>1. 0 \in Stamp /\ rel \in Stamp
  BY TimerAssumption DEF Stamp
<1>2. stamp \in [Alarm -> Stamp]
  BY <1>1, Zenon
<1>3. list \in Seq(Alarm) /\ Once(list) /\ SchedAlarm \in Members(list)
  BY TimerAssumption DEF Once, Members
<1>4. TypeOK
  BY <1>1, <1>2, <1>3, Zenon DEF TypeOK
<1>5. ~Calling(loop) /\ ~Calling(suspended)
  BY Zenon DEF Calling
<1>6. AlarmKept /\ Loops
  BY <1>3, <1>5, Zenon DEF AlarmKept, Loops, Executing, Once
<1>. QED  BY <1>4, <1>6, Zenon DEF IInv

LEMMA StepIInv == IInv /\ [Next]_vars => IInv'
<1>. SUFFICES ASSUME IInv, [Next]_vars PROVE IInv'
  BY Zenon
<1>1. CASE UNCHANGED vars
  <2>1. UNCHANGED <<clock, base, list, stamp, loop, suspended, isr>>
    BY <1>1, Zenon DEF vars
  <2>. QED  BY <2>1, Zenon DEF IInv, TypeOK, AlarmKept, Loops, Executing, Calling
<1>2. CASE Next
  BY <1>2, InterruptStep, FireStep, FinishStep, ReturnStep, SwitchStep, CallerStep, Zenon
     DEF Next, HandleTimeout
<1>. QED  BY <1>1, <1>2, Zenon

(* The scheduler's alarm is never lost and never doubled, for any number   *)
(* of other alarms and although handle_timeout follows pointers that other *)
(* invocations have changed (timer.c:105-120).                             *)
THEOREM AlarmStays == Spec => []AlarmKept
<1>1. IInv => AlarmKept
  BY Zenon DEF IInv
<1>. QED  BY <1>1, InitIInv, StepIInv, PTL DEF Spec
=============================================================================
