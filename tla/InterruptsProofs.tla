-------------------------- MODULE InterruptsProofs --------------------------
(* Proofs about Interrupts, for any set of threads.                        *)
EXTENDS Interrupts, SequenceTheorems, TLAPS

FrameType == [kind : {"irq", "done", "sys", "switch"}, no : Lines, intr : BOOLEAN, next : Code]

Types ==
  /\ boot \in {"pic", "timer", "kbd", "threads", "sti", "on", "failed"}
  /\ handlers \subseteq Lines
  /\ irr \subseteq Lines /\ isr \subseteq Lines /\ imr \subseteq Lines
  /\ intr \in BOOLEAN /\ cur \in Thread /\ at \in Code /\ regs \in Thread
  /\ tcb \in [Thread -> [used : BOOLEAN, regs : Thread, intr : BOOLEAN]]
  /\ stack \in [Thread -> Seq(FrameType)]
  /\ torn \subseteq Thread /\ slept \in BOOLEAN

(* Thread code is at the bottom of a stack, a system call one frame above  *)
(* it, and no handler of an interrupt is interrupted.                      *)
Stacks ==
  /\ \A t \in Thread : \A i \in 1..Len(stack[t]) :
       /\ stack[t][i].next = "run" <=> i = 1
       /\ stack[t][i].next = "sys" => i = 2
       /\ stack[t][i].next # "irq"
  /\ at = "run" <=> Len(stack[cur]) = 0
  /\ at = "sys" => Len(stack[cur]) = 1

(* A thread that exists and does not run can return from its switch.       *)
Created ==
  tcb[Idle].used /\ \A t \in Thread :
    /\ t = cur \/ Len(stack[t]) > 0 => tcb[t].used
    /\ t # cur /\ tcb[t].used => Len(stack[t]) > 0

Booting == boot # "on" => at = "run" /\ cur = Idle /\ ~intr

Handling == at = "irq" => ~intr /\ Top.no \in isr

(* t was interrupted while its registers were loaded.                      *)
Loading(t) == \E i \in 1..Len(stack[t]) : stack[t][i].next = "restore"

(* Registers that are not those of their thread are still to be loaded.    *)
Saved ==
  /\ \A t \in Thread \ torn : tcb[t].regs = t
  /\ cur \notin torn => regs = cur \/ at = "restore" \/ Loading(cur)

(* While nobody slept, the timer is in service when registers are loaded.  *)
Awake ==
  ~slept => /\ torn = {}
            /\ \A t \in Thread : ~Loading(t)
            /\ at = "restore" => Timer \in isr

IInv == Types /\ Stacks /\ Created /\ Booting /\ Handling /\ Saved /\ Awake

-----------------------------------------------------------------------------
(* A sequence without its last element.                                    *)
LEMMA Shorter ==
  ASSUME NEW S, NEW s \in Seq(S), Len(s) > 0
  PROVE  /\ SubSeq(s, 1, Len(s) - 1) \in Seq(S) /\ Len(s) \in Nat
         /\ Len(SubSeq(s, 1, Len(s) - 1)) = Len(s) - 1
         /\ \A i \in 1..(Len(s) - 1) : SubSeq(s, 1, Len(s) - 1)[i] = s[i]
         /\ s[Len(s)] \in S
<1>. DEFINE n == Len(s)
<1>1. n \in Nat /\ n > 0 /\ \A i \in 1..n : s[i] \in S
  BY ElementOfSeq
<1>. HIDE DEF n
<1>2. \A i \in 1..(n - 1) : s[i] \in S
  BY <1>1
<1>3. /\ SubSeq(s, 1, n - 1) \in Seq(S)
      /\ Len(SubSeq(s, 1, n - 1)) = IF 1 <= n - 1 THEN n - 1 - 1 + 1 ELSE 0
      /\ \A i \in 1..(n - 1 - 1 + 1) : SubSeq(s, 1, n - 1)[i] = s[1 + i - 1]
  BY <1>1, <1>2, SubSeqProperties, SMTT(30)
<1>4. ASSUME NEW i \in 1..(n - 1) PROVE SubSeq(s, 1, n - 1)[i] = s[i]
  <2>1. i \in 1..(n - 1 - 1 + 1) /\ 1 + i - 1 = i
    BY <1>1
  <2>. QED  BY <1>3, <2>1, Zenon
<1>5. Len(SubSeq(s, 1, n - 1)) = n - 1 /\ s[n] \in S
  BY <1>1, <1>3
<1>. QED  BY <1>1, <1>3, <1>4, <1>5, Zenon DEF n

(* A frame that is marked.                                                 *)
LEMMA Marked ==
  ASSUME NEW x \in FrameType
  PROVE  /\ Frame("done", x.no, x.intr, x.next) \in FrameType
         /\ Frame("done", x.no, x.intr, x.next).next = x.next
         /\ Frame("done", x.no, x.intr, x.next).kind = "done"
<1>1. x.no \in Lines /\ x.intr \in BOOLEAN /\ x.next \in Code
  BY Zenon DEF FrameType
<1>2. Frame("done", x.no, x.intr, x.next) \in FrameType
  BY <1>1, Zenon DEF FrameType, Frame
<1>. QED  BY <1>2, Zenon DEF Frame

(* What a frame, pushed to the stack of the thread that runs, changes.     *)
LEMMA PushEffect ==
  ASSUME Types, NEW f \in FrameType, stack' = Push(cur, f)
  PROVE  /\ stack' \in [Thread -> Seq(FrameType)]
         /\ \A t \in Thread \ {cur} : stack'[t] = stack[t]
         /\ Len(stack'[cur]) = Len(stack[cur]) + 1 /\ Len(stack[cur]) \in Nat
         /\ \A i \in 1..Len(stack[cur]) : stack'[cur][i] = stack[cur][i]
         /\ stack'[cur][Len(stack[cur]) + 1] = f
<1>. DEFINE s == stack[cur]
<1>1. cur \in Thread /\ s \in Seq(FrameType) /\ stack \in [Thread -> Seq(FrameType)]
  BY Zenon DEF Types
<1>2. stack' = [stack EXCEPT ![cur] = Append(s, f)]
  BY Zenon DEF Push
<1>. HIDE DEF s
<1>3. /\ Append(s, f) \in Seq(FrameType) /\ Len(Append(s, f)) = Len(s) + 1 /\ Len(s) \in Nat
      /\ \A i \in 1..Len(s) : Append(s, f)[i] = s[i]
      /\ Append(s, f)[Len(s) + 1] = f
  BY <1>1
<1>. QED  BY <1>1, <1>2, <1>3, Zenon DEF s

(* What the return to the frame on top of that stack changes.              *)
LEMMA PopEffect ==
  ASSUME Types, Len(stack[cur]) > 0, stack' = Pop
  PROVE  /\ stack' \in [Thread -> Seq(FrameType)]
         /\ \A t \in Thread \ {cur} : stack'[t] = stack[t]
         /\ Len(stack'[cur]) = Len(stack[cur]) - 1 /\ Len(stack[cur]) \in Nat
         /\ \A i \in 1..(Len(stack[cur]) - 1) : stack'[cur][i] = stack[cur][i]
         /\ Top = stack[cur][Len(stack[cur])] /\ Top \in FrameType
<1>. DEFINE s == stack[cur]
<1>1. cur \in Thread /\ s \in Seq(FrameType) /\ stack \in [Thread -> Seq(FrameType)]
  BY Zenon DEF Types
<1>2. stack' = [stack EXCEPT ![cur] = SubSeq(s, 1, Len(s) - 1)] /\ Top = s[Len(s)] /\ Len(s) > 0
  BY Zenon DEF Pop, Top
<1>. HIDE DEF s
<1>3. /\ SubSeq(s, 1, Len(s) - 1) \in Seq(FrameType) /\ Len(s) \in Nat
      /\ Len(SubSeq(s, 1, Len(s) - 1)) = Len(s) - 1
      /\ \A i \in 1..(Len(s) - 1) : SubSeq(s, 1, Len(s) - 1)[i] = s[i]
      /\ s[Len(s)] \in FrameType
  BY <1>1, <1>2, Shorter, SMTT(30)
<1>. QED  BY <1>1, <1>2, <1>3, Zenon DEF s

(* What marking the frame on top of that stack changes.                    *)
LEMMA MarkEffect ==
  ASSUME Types, Len(stack[cur]) > 0,
         stack' = [stack EXCEPT ![cur] =
                     Append(SubSeq(@, 1, Len(@) - 1), Frame("done", Top.no, Top.intr, Top.next))]
  PROVE  /\ stack' \in [Thread -> Seq(FrameType)]
         /\ \A t \in Thread \ {cur} : stack'[t] = stack[t]
         /\ Len(stack'[cur]) = Len(stack[cur])
         /\ \A i \in 1..Len(stack[cur]) : stack'[cur][i].next = stack[cur][i].next
         /\ \A i \in 1..(Len(stack[cur]) - 1) : stack'[cur][i] = stack[cur][i]
         /\ stack'[cur][Len(stack[cur])].kind = "done"
<1>. DEFINE s == stack[cur]
            f == Frame("done", s[Len(s)].no, s[Len(s)].intr, s[Len(s)].next)
            b == SubSeq(s, 1, Len(s) - 1)
<1>1. cur \in Thread /\ s \in Seq(FrameType) /\ stack \in [Thread -> Seq(FrameType)]
  BY Zenon DEF Types
<1>2. stack' = [stack EXCEPT ![cur] = Append(b, f)] /\ Len(s) > 0
  BY Zenon DEF Top
<1>. HIDE DEF s
<1>3. f \in FrameType /\ f.next = s[Len(s)].next /\ f.kind = "done"
  <2>1. s[Len(s)] \in FrameType
    BY <1>1, <1>2, Shorter, Zenon
  <2>. QED  BY <2>1, Marked, Zenon
<1>. HIDE DEF f
<1>4. /\ b \in Seq(FrameType) /\ Len(b) = Len(s) - 1 /\ Len(s) \in Nat
      /\ \A i \in 1..(Len(s) - 1) : b[i] = s[i]
  BY <1>1, <1>2, Shorter, SMTT(30)
<1>. HIDE DEF b
<1>5. /\ Append(b, f) \in Seq(FrameType) /\ Len(Append(b, f)) = Len(s)
      /\ \A i \in 1..(Len(s) - 1) : Append(b, f)[i] = s[i]
      /\ Append(b, f)[Len(s)] = f
  BY <1>3, <1>4
<1>6. \A i \in 1..Len(s) : Append(b, f)[i].next = s[i].next
  BY <1>3, <1>4, <1>5
<1>. QED  BY <1>1, <1>2, <1>3, <1>5, <1>6, ZenonT(30) DEF s

-----------------------------------------------------------------------------
(* The stack of the thread that runs is empty only while it runs its code. *)
LEMMA NotEmpty ==
  ASSUME Types, Stacks
  PROVE  Len(stack[cur]) \in Nat /\ (at # "run" => Len(stack[cur]) > 0)
<1>1. stack[cur] \in Seq(FrameType)
  BY Zenon DEF Types
<1>2. Len(stack[cur]) \in Nat
  BY <1>1
<1>. QED  BY <1>2 DEF Stacks

(* Steps that leave the stacks and the registers alone.                    *)
LEMMA QuietStep ==
  ASSUME IInv, UNCHANGED <<cur, regs, tcb, stack, torn, slept, isr>>,
         at' = at \/ (at \in {"irq", "first"} /\ at' = "eoi"),
         intr' = intr \/ at' # "irq"
  PROVE  Stacks' /\ Created' /\ Handling' /\ Saved' /\ Awake'
<1>. USE DEF IInv
<1>1. Stacks'
  BY Zenon DEF Stacks
<1>2. Created'
  BY Zenon DEF Created
<1>3. Handling'
  BY Zenon DEF Handling, Top
<1>4. Saved'
  BY Zenon DEF Saved, Loading
<1>5. Awake'
  BY Zenon DEF Awake, Loading
<1>. QED  BY <1>1, <1>2, <1>3, <1>4, <1>5, SMTT(30)

(* Interrupts and system calls push what they interrupt.                   *)
LEMMA GateStep ==
  ASSUME IInv, NEW f \in FrameType, NEW code \in {"irq", "sys"}, f.next = at, at # "irq",
         stack' = Push(cur, f), at' = code, intr' = FALSE,
         UNCHANGED <<cur, regs, tcb, torn, slept>>,
         \/ code = "irq" /\ f.no \in isr' /\ isr \subseteq isr' /\ (~slept => at # "restore")
         \/ code = "sys" /\ at = "run" /\ UNCHANGED isr
  PROVE  Stacks' /\ Created' /\ Handling' /\ Saved' /\ Awake'
<1>. USE DEF IInv
<1>0. /\ \A t \in Thread \ {cur} : stack'[t] = stack[t]
      /\ Len(stack'[cur]) = Len(stack[cur]) + 1 /\ Len(stack[cur]) \in Nat /\ cur \in Thread
      /\ \A i \in 1..Len(stack[cur]) : stack'[cur][i] = stack[cur][i]
      /\ stack'[cur][Len(stack[cur]) + 1] = f
  BY PushEffect, SMTT(30) DEF Types
<1>1. Stacks'
  <2>1. ASSUME NEW t \in Thread, NEW i \in 1..Len(stack'[t])
        PROVE  /\ stack'[t][i].next = "run" <=> i = 1
               /\ stack'[t][i].next = "sys" => i = 2
               /\ stack'[t][i].next # "irq"
    <3>1. CASE t # cur
      BY <1>0, <3>1, SMTT(30) DEF Stacks
    <3>2. CASE t = cur /\ i \in 1..Len(stack[cur])
      BY <1>0, <3>2, SMTT(30) DEF Stacks
    <3>3. CASE t = cur /\ i = Len(stack[cur]) + 1
      BY <1>0, <3>3, SMTT(30) DEF Stacks
    <3>. QED  BY <1>0, <3>1, <3>2, <3>3, SMTT(30)
  <2>2. at' # "run" /\ Len(stack'[cur']) > 0 /\ (at' = "sys" => Len(stack'[cur']) = 1)
    BY <1>0 DEF Stacks
  <2>. QED  BY <2>1, <2>2, SMTT(30) DEF Stacks
<1>2. Created'
  BY <1>0, Zenon DEF Created
<1>3. Handling'
  BY <1>0, Zenon DEF Handling, Top
<1>4. \A t \in Thread : Loading(t)' <=> Loading(t) \/ (t = cur /\ at = "restore")
  <2>1. ASSUME NEW t \in Thread, t # cur PROVE Loading(t)' <=> Loading(t)
    BY <1>0, <2>1 DEF Loading
  <2>2. Loading(cur)' <=> Loading(cur) \/ at = "restore"
    <3>1. /\ 1..Len(stack'[cur]) = (1..Len(stack[cur])) \union {Len(stack[cur]) + 1}
          /\ stack'[cur][Len(stack[cur]) + 1].next = at
      BY <1>0
    <3>. QED  BY <1>0, <3>1, ZenonT(30) DEF Loading
  <2>. QED  BY <2>1, <2>2, SMTT(30)
<1>5. Saved'
  BY <1>0, <1>4, SMTT(30) DEF Saved
<1>6. Awake'
  BY <1>4, Zenon DEF Awake
<1>. QED  BY <1>1, <1>2, <1>3, <1>5, <1>6, SMTT(30)

(* Returns pop a frame.                                                    *)
LEMMA ReturnStep ==
  ASSUME IInv, at \in {"restore", "iret", "sys"}, stack' = Pop, at' = Top.next,
         UNCHANGED <<cur, tcb, torn, slept, isr>>,
         IF at = "restore" THEN regs' = tcb[cur].regs ELSE regs' = regs
  PROVE  Stacks' /\ Created' /\ Handling' /\ Saved' /\ Awake'
<1>. USE DEF IInv
<1>0. /\ \A t \in Thread \ {cur} : stack'[t] = stack[t]
      /\ Len(stack'[cur]) = Len(stack[cur]) - 1 /\ Len(stack[cur]) \in Nat /\ cur \in Thread
      /\ \A i \in 1..(Len(stack[cur]) - 1) : stack'[cur][i] = stack[cur][i]
      /\ Top = stack[cur][Len(stack[cur])] /\ Len(stack[cur]) > 0
  BY PopEffect, NotEmpty, SMTT(30) DEF Types
<1>1. Stacks'
  <2>1. ASSUME NEW t \in Thread, NEW i \in 1..Len(stack'[t])
        PROVE  /\ stack'[t][i].next = "run" <=> i = 1
               /\ stack'[t][i].next = "sys" => i = 2
               /\ stack'[t][i].next # "irq"
    <3>1. CASE t # cur
      <4>1. stack'[t] = stack[t]
        BY <1>0, <3>1, Zenon
      <4>. QED  BY <4>1 DEF Stacks
    <3>2. CASE t = cur
      <4>1. i \in 1..Len(stack[t]) /\ stack'[t][i] = stack[t][i]
        BY <1>0, <3>2, SMTT(30)
      <4>. QED  BY <4>1, Zenon DEF Stacks
    <3>. QED  BY <3>1, <3>2, SMTT(30)
  <2>2. /\ at' = "run" <=> Len(stack[cur]) = 1
        /\ at' = "sys" => Len(stack[cur]) = 2
    <3>1. Len(stack[cur]) \in 1..Len(stack[cur]) /\ at' = stack[cur][Len(stack[cur])].next
      BY <1>0
    <3>. QED  BY <1>0, <3>1, ZenonT(30) DEF Stacks
  <2>. QED  BY <1>0, <2>1, <2>2, SMTT(30) DEF Stacks
<1>2. Created'
  BY <1>0, SMTT(30) DEF Created
<1>3. Handling'
  BY <1>0, SMTT(30) DEF Handling, Stacks
<1>4. \A t \in Thread : Loading(t) <=> Loading(t)' \/ (t = cur /\ at' = "restore")
  <2>1. ASSUME NEW t \in Thread, t # cur PROVE Loading(t)' <=> Loading(t)
    BY <1>0, <2>1, Zenon DEF Loading
  <2>2. Loading(cur) <=> Loading(cur)' \/ at' = "restore"
    <3>1. /\ 1..Len(stack[cur]) = (1..Len(stack'[cur])) \union {Len(stack[cur])}
          /\ at' = stack[cur][Len(stack[cur])].next
          /\ \A i \in 1..Len(stack'[cur]) : stack'[cur][i] = stack[cur][i]
      BY <1>0
    <3>. QED  BY <1>0, <3>1, ZenonT(30) DEF Loading
  <2>. QED  BY <2>1, <2>2, Zenon
<1>5. Saved'
  BY <1>0, <1>4, Zenon DEF Saved
<1>6. Awake'
  BY <1>0, <1>4, SMTT(30) DEF Awake
<1>. QED  BY <1>1, <1>2, <1>3, <1>5, <1>6, SMTT(30)

(* A switch leaves a frame to return to, and continues at the one that the *)
(* other thread left.                                                      *)
LEMMA SwitchStep ==
  ASSUME IInv, NEW u \in Thread, NEW next \in {"eoi", "sys", "run"}, Switch(u, next),
         \/ next = "eoi" /\ at = "irq" /\ Timer \in isr /\ slept' = slept
         \/ next = at /\ at \in {"sys", "run"} /\ slept' = TRUE
  PROVE  Stacks' /\ Created' /\ Handling' /\ Saved' /\ Awake'
<1>. USE DEF IInv
<1>. DEFINE f == Frame("switch", Timer, FALSE, next)
<1>a. f \in FrameType /\ f.next = next
  BY Zenon DEF FrameType, Frame, Lines, Code
<1>. HIDE DEF f
<1>0. /\ \A t \in Thread \ {cur} : stack'[t] = stack[t]
      /\ Len(stack'[cur]) = Len(stack[cur]) + 1 /\ Len(stack[cur]) \in Nat /\ cur \in Thread
      /\ \A i \in 1..Len(stack[cur]) : stack'[cur][i] = stack[cur][i]
      /\ stack'[cur][Len(stack[cur]) + 1] = f
  <2>1. stack' = Push(cur, f)
    BY Zenon DEF Switch, f
  <2>. QED  BY <1>a, <2>1, PushEffect, SMTT(30) DEF Types
<1>1. /\ u # cur /\ cur' = u /\ at' = "restore" /\ tcb[u].used /\ Len(stack[u]) > 0
      /\ u \in Thread /\ at # "restore" /\ isr' = isr
  <2>1. u # cur /\ cur' = u /\ at' = "restore" /\ isr' = isr /\ u \in Added \union {Idle}
    BY Zenon DEF Switch, pic
  <2>2. stack[u] \in Seq(FrameType)
    BY Zenon DEF Types
  <2>3. tcb[u].used
    BY <2>1, <2>2, SMTT(30) DEF Added, Created
  <2>. QED  BY <2>1, <2>3, SMTT(30) DEF Created
<1>2. /\ \A t \in Thread \ {cur} : tcb'[t] = tcb[t]
      /\ tcb'[cur].used = tcb[cur].used /\ tcb'[cur].regs = regs
  BY Zenon DEF Switch, Types
<1>3. torn' = IF Loading(cur) THEN torn \union {cur} ELSE torn
  <2>1. stack[cur] \in Seq(FrameType)
    BY Zenon DEF Types
  <2>2. Loading(cur) <=> \E x \in Frames(cur) : x.next = "restore"
    BY <2>1, SMTT(30) DEF Loading, Frames
  <2>. QED  BY <2>2, SMTT(30) DEF Switch
<1>4. Stacks'
  <2>1. ASSUME NEW t \in Thread, NEW i \in 1..Len(stack'[t])
        PROVE  /\ stack'[t][i].next = "run" <=> i = 1
               /\ stack'[t][i].next = "sys" => i = 2
               /\ stack'[t][i].next # "irq"
    <3>1. CASE t # cur
      BY <1>0, <3>1, SMTT(30) DEF Stacks
    <3>2. CASE t = cur /\ i \in 1..Len(stack[cur])
      BY <1>0, <3>2, SMTT(30) DEF Stacks
    <3>3. CASE t = cur /\ i = Len(stack[cur]) + 1
      BY <1>0, <1>a, <3>3, SMTT(30) DEF Stacks
    <3>. QED  BY <1>0, <3>1, <3>2, <3>3, SMTT(30)
  <2>2. at' # "run" /\ Len(stack'[cur']) # 0 /\ at' # "sys"
    BY <1>0, <1>1, SMTT(30)
  <2>. QED  BY <2>1, <2>2, SMTT(30) DEF Stacks
<1>5. Created'
  <2>1. tcb'[Idle].used
    BY <1>2, InterruptsAssumption, SMTT(30) DEF Created
  <2>2. ASSUME NEW t \in Thread
        PROVE  /\ t = u \/ Len(stack'[t]) > 0 => tcb'[t].used
               /\ t # u /\ tcb'[t].used => Len(stack'[t]) > 0
    <3>1. CASE t = cur
      BY <1>0, <1>1, <1>2, <3>1, SMTT(30) DEF Created
    <3>2. CASE t # cur
      <4>1. stack'[t] = stack[t] /\ tcb'[t] = tcb[t]
        BY <1>0, <1>2, <3>2, SMTT(30)
      <4>. QED  BY <1>1, <3>2, <4>1, SMTT(30) DEF Created
    <3>. QED  BY <3>1, <3>2, SMTT(30)
  <2>. QED  BY <1>1, <2>1, <2>2, SMTT(30) DEF Created
<1>6. Handling'
  BY <1>1, Zenon DEF Handling
<1>7. \A t \in Thread : Loading(t)' <=> Loading(t)
  <2>1. ASSUME NEW t \in Thread, t # cur PROVE Loading(t)' <=> Loading(t)
    BY <1>0, <2>1, SMTT(30) DEF Loading
  <2>2. ASSUME NEW t \in Thread, t = cur PROVE Loading(t)' <=> Loading(t)
    <3>1. /\ 1..Len(stack'[cur]) = (1..Len(stack[cur])) \union {Len(stack[cur]) + 1}
          /\ stack'[cur][Len(stack[cur]) + 1].next # "restore"
      BY <1>0, <1>a, SMTT(30)
    <3>. QED  BY <1>0, <2>2, <3>1, ZenonT(30) DEF Loading
  <2>. QED  BY <2>1, <2>2, SMTT(30)
<1>8. Saved'
  BY <1>0, <1>1, <1>2, <1>3, SMTT(30) DEF Saved
<1>9. Awake'
  BY <1>0, <1>1, <1>3, <1>7, SMTT(30) DEF Awake
<1>. QED  BY <1>4, <1>5, <1>6, <1>8, <1>9, SMTT(30)

(* The signal to the controller marks the frame of the interrupt.          *)
LEMMA EoiStep ==
  ASSUME IInv, Eoi
  PROVE  Stacks' /\ Created' /\ Handling' /\ Saved' /\ Awake'
<1>. USE DEF IInv
<1>0. at = "eoi" /\ at' = "iret" /\ UNCHANGED <<cur, regs, tcb, torn, slept>>
  BY Zenon DEF Eoi, history
<1>1. \A t \in Thread : /\ Len(stack'[t]) = Len(stack[t])
                        /\ \A i \in 1..Len(stack[t]) : stack'[t][i].next = stack[t][i].next
  <2>1. Len(stack[cur]) > 0
    BY <1>0, NotEmpty, SMTT(30)
  <2>2. stack' = [stack EXCEPT ![cur] =
                    Append(SubSeq(@, 1, Len(@) - 1), Frame("done", Top.no, Top.intr, Top.next))]
    BY Zenon DEF Eoi
  <2>. QED  BY <2>1, <2>2, MarkEffect, SMTT(30)
<1>2. Stacks'
  <2>1. ASSUME NEW t \in Thread, NEW i \in 1..Len(stack'[t])
        PROVE  /\ stack'[t][i].next = "run" <=> i = 1
               /\ stack'[t][i].next = "sys" => i = 2
               /\ stack'[t][i].next # "irq"
    <3>1. i \in 1..Len(stack[t]) /\ stack'[t][i].next = stack[t][i].next
      BY <1>1, Zenon
    <3>. QED  BY <3>1 DEF Stacks
  <2>2. at' # "run" /\ at' # "sys" /\ Len(stack'[cur']) # 0
    BY <1>0, <1>1, NotEmpty, SMTT(30) DEF Types
  <2>. QED  BY <2>1, <2>2, SMTT(30) DEF Stacks
<1>3. Created'
  BY <1>0, <1>1, SMTT(30) DEF Created
<1>4. Handling'
  BY <1>0, Zenon DEF Handling
<1>5. \A t \in Thread : Loading(t)' <=> Loading(t)
  BY <1>1, SMTT(30) DEF Loading
<1>6. Saved' /\ Awake'
  BY <1>0, <1>5, SMTT(30) DEF Saved, Awake, Types
<1>. QED  BY <1>2, <1>3, <1>4, <1>6, SMTT(30)

(* A sequence of two elements.                                             *)
LEMMA Pair ==
  ASSUME NEW S, NEW a \in S, NEW b \in S
  PROVE  <<a, b>> \in Seq(S) /\ Len(<<a, b>>) = 2 /\ <<a, b>>[1] = a /\ <<a, b>>[2] = b
OBVIOUS

(* A new thread looks as if it had been preempted in its code.             *)
LEMMA AddStep ==
  ASSUME IInv, NEW u \in Thread, AddThread(u)
  PROVE  Types' /\ Stacks' /\ Created' /\ Booting' /\ Handling' /\ Saved' /\ Awake'
<1>. USE DEF IInv
<1>. DEFINE s == <<Frame("irq", Timer, intr, "run"), Frame("switch", Timer, FALSE, "first")>>
<1>0. /\ cur = Idle /\ at = "run" /\ u # Idle /\ ~tcb[u].used
      /\ UNCHANGED <<handlers, irr, isr, imr, intr, cur, at, regs, torn, slept>>
      /\ stack' = [stack EXCEPT ![u] = s]
      /\ tcb' = [tcb EXCEPT ![u] = [used |-> TRUE, regs |-> u, intr |-> intr]]
      /\ boot' \in {"sti", "on"} /\ (boot' = "on" => boot = "on")
      /\ (boot' = "sti" => boot = "threads")
  BY Zenon DEF AddThread, Added, pic, cpu, history
<1>1. /\ s \in Seq(FrameType) /\ Len(s) = 2 /\ s[1].next = "run" /\ s[2].next = "first"
  <2>1. Frame("irq", Timer, intr, "run") \in FrameType
    BY Zenon DEF FrameType, Frame, Lines, Code, Types
  <2>2. Frame("switch", Timer, FALSE, "first") \in FrameType
    BY Zenon DEF FrameType, Frame, Lines, Code
  <2>3. Frame("irq", Timer, intr, "run").next = "run"
        /\ Frame("switch", Timer, FALSE, "first").next = "first"
    BY Zenon DEF Frame
  <2>. QED  BY <2>1, <2>2, <2>3, Pair, Zenon
<1>. HIDE DEF s
<1>2. /\ stack'[u] = s /\ \A t \in Thread \ {u} : stack'[t] = stack[t]
      /\ tcb'[u].used /\ tcb'[u].regs = u /\ \A t \in Thread \ {u} : tcb'[t] = tcb[t]
  BY <1>0, SMTT(30) DEF Types
<1>3. Types'
  <2>1. [used |-> TRUE, regs |-> u, intr |-> intr] \in
          [used : BOOLEAN, regs : Thread, intr : BOOLEAN]
    BY Zenon DEF Types
  <2>2. tcb' \in [Thread -> [used : BOOLEAN, regs : Thread, intr : BOOLEAN]]
    BY <1>0, <2>1, Zenon DEF Types
  <2>3. stack' \in [Thread -> Seq(FrameType)]
    BY <1>0, <1>1, SMTT(30) DEF Types
  <2>. QED  BY <1>0, <2>2, <2>3, SMTT(30) DEF Types
<1>4. cur # u /\ cur \in Thread
  BY <1>0, SMTT(30) DEF Types
<1>5. Stacks'
  <2>1. ASSUME NEW t \in Thread, NEW i \in 1..Len(stack'[t])
        PROVE  /\ stack'[t][i].next = "run" <=> i = 1
               /\ stack'[t][i].next = "sys" => i = 2
               /\ stack'[t][i].next # "irq"
    <3>1. CASE t # u
      <4>1. stack'[t] = stack[t]
        BY <1>2, <3>1, SMTT(30)
      <4>. QED  BY <4>1, SMTT(30) DEF Stacks
    <3>2. CASE t = u
      <4>1. Len(stack'[t]) = 2 /\ stack'[t] = s
        BY <1>1, <1>2, <3>2, SMTT(30)
      <4>2. i = 1 \/ i = 2
        BY <4>1
      <4>. QED  BY <1>1, <4>1, <4>2, SMTT(30)
    <3>. QED  BY <3>1, <3>2, SMTT(30)
  <2>2. stack'[cur] = stack[cur]
    BY <1>2, <1>4, SMTT(30)
  <2>. QED  BY <1>0, <2>1, <2>2, SMTT(30) DEF Stacks
<1>6. Created'
  <2>1. tcb'[Idle].used
    BY <1>0, <1>2, InterruptsAssumption, SMTT(30) DEF Created
  <2>2. ASSUME NEW t \in Thread
        PROVE  /\ t = cur \/ Len(stack'[t]) > 0 => tcb'[t].used
               /\ t # cur /\ tcb'[t].used => Len(stack'[t]) > 0
    <3>1. CASE t = u
      <4>1. tcb'[t].used /\ Len(stack'[t]) = 2
        BY <1>1, <1>2, <3>1, SMTT(30)
      <4>. QED  BY <4>1
    <3>2. CASE t # u
      <4>1. stack'[t] = stack[t] /\ tcb'[t] = tcb[t]
        BY <1>2, <3>2, SMTT(30)
      <4>. QED  BY <4>1, SMTT(30) DEF Created
    <3>. QED  BY <3>1, <3>2, Zenon
  <2>. QED  BY <1>0, <2>1, <2>2, SMTT(30) DEF Created
<1>7. Handling'
  BY <1>0, Zenon DEF Handling
<1>8. \A t \in Thread : Loading(t)' => Loading(t)
  <2>1. ASSUME NEW t \in Thread, t # u PROVE Loading(t)' => Loading(t)
    BY <1>2, <2>1, SMTT(30) DEF Loading
  <2>2. ASSUME NEW i \in 1..Len(s) PROVE s[i].next # "restore"
    BY <1>1, <2>2, SMTT(30)
  <2>3. ~Loading(u)'
    BY <1>2, <2>2, SMTT(30) DEF Loading
  <2>. QED  BY <2>1, <2>3, SMTT(30)
<1>9. Loading(cur)' <=> Loading(cur)
  BY <1>0, <1>2, <1>4, SMTT(30) DEF Loading
<1>10. Saved' /\ Awake'
  BY <1>0, <1>2, <1>4, <1>8, <1>9, SMTT(30) DEF Saved, Awake
<1>11. Booting'
  BY <1>0, Zenon DEF Booting
<1>. QED  BY <1>3, <1>5, <1>6, <1>7, <1>10, <1>11, SMTT(30)

-----------------------------------------------------------------------------
(* The steps of the boot, of the devices, and those that only move on.     *)
LEMMA PreservedByQuiet ==
  ASSUME IInv, Boot \/ (\E n \in Lines : Raise(n)) \/ HandleIrq \/ FirstReturn
  PROVE  IInv'
<1>. USE DEF IInv
<1>1. /\ UNCHANGED <<cur, regs, tcb, stack, torn, slept, isr>>
      /\ at' = at \/ (at \in {"irq", "first"} /\ at' = "eoi")
      /\ intr' = intr \/ at' # "irq"
  BY Zenon DEF Boot, pic_install, i8254_init, kbd_init, kbd_fails, sti, install_irq_handler,
         Raise, HandleIrq, FirstReturn, pic, cpu, history, Booting
<1>2. Types'
  <2>1. /\ boot' \in {"pic", "timer", "kbd", "threads", "sti", "on", "failed"}
        /\ handlers' \subseteq Lines /\ irr' \subseteq Lines /\ imr' \subseteq Lines
    BY ZenonT(30) DEF Types, Boot, pic_install, i8254_init, kbd_init, kbd_fails, sti,
           install_irq_handler, init_irq_handling, unmask_irq, Raise, HandleIrq, FirstReturn,
           pic, cpu, history, Lines, Timer, Keyboard
  <2>2. intr' \in BOOLEAN
    BY ZenonT(30) DEF Types, Boot, pic_install, i8254_init, kbd_init, kbd_fails, sti,
           install_irq_handler, Raise, HandleIrq, FirstReturn, pic, cpu, history
  <2>3. at' \in Code
    BY <1>1, Zenon DEF Types, Code
  <2>. QED  BY <1>1, <2>1, <2>2, <2>3, SMTT(30) DEF Types
<1>3. Booting'
  BY <1>1, Zenon DEF Booting, Boot, pic_install, i8254_init, kbd_init, kbd_fails, sti,
              install_irq_handler, Raise, HandleIrq, FirstReturn, pic, cpu, history
<1>. QED  BY <1>1, <1>2, <1>3, QuietStep, SMTT(30)

(* Entering the kernel.                                                    *)
LEMMA PreservedByGates ==
  ASSUME IInv, (\E n \in Lines : Accept(n)) \/ Syscall
  PROVE  IInv'
<1>. USE DEF IInv
<1>1. ASSUME NEW n \in Lines, Accept(n) PROVE IInv'
  <2>. DEFINE f == Frame("irq", n, intr, at)
  <2>1. f \in FrameType /\ f.next = at /\ f.no = n
    <3>1. f \in FrameType
      BY Zenon DEF FrameType, Frame, Types
    <3>. QED  BY <3>1, Zenon DEF Frame
  <2>2. /\ stack' = Push(cur, f) /\ at' = "irq" /\ intr' = FALSE /\ intr
        /\ irr' \subseteq irr /\ isr' = isr \union {n} /\ \A m \in isr : n < m
        /\ UNCHANGED <<boot, handlers, imr, cur, regs, tcb, torn, slept>>
    BY <1>1, Zenon DEF Accept, Gate, history
  <2>. HIDE DEF f
  <2>3. at # "irq" /\ (~slept => at # "restore")
    <3>1. at # "irq"
      BY <2>2, Zenon DEF Handling
    <3>2. Timer \notin isr
      BY <2>2 DEF Timer, Keyboard, Lines
    <3>. QED  BY <3>1, <3>2, Zenon DEF Awake
  <2>4. Stacks' /\ Created' /\ Handling' /\ Saved' /\ Awake'
    BY <2>1, <2>2, <2>3, GateStep, ZenonT(30)
  <2>5. stack' \in [Thread -> Seq(FrameType)]
    BY <2>1, <2>2, PushEffect, SMTT(30)
  <2>6. Types'
    BY <2>2, <2>5, ZenonT(30) DEF Types, Code
  <2>7. Booting'
    BY <2>2, Zenon DEF Booting
  <2>. QED  BY <2>4, <2>6, <2>7, SMTT(30)
<1>2. CASE Syscall
  <2>. DEFINE f == Frame("sys", Timer, intr, "run")
  <2>1. f \in FrameType /\ f.next = "run"
    <3>1. f \in FrameType
      BY Zenon DEF FrameType, Frame, Types, Lines, Code
    <3>. QED  BY <3>1, Zenon DEF Frame
  <2>2. /\ stack' = Push(cur, f) /\ at = "run" /\ at' = "sys" /\ intr' = FALSE /\ cur # Idle
        /\ UNCHANGED <<boot, handlers, irr, isr, imr, cur, regs, tcb, torn, slept>>
    BY <1>2, Zenon DEF Syscall, Gate, history, pic
  <2>. HIDE DEF f
  <2>4. Stacks' /\ Created' /\ Handling' /\ Saved' /\ Awake'
    BY <2>1, <2>2, GateStep, ZenonT(30)
  <2>5. stack' \in [Thread -> Seq(FrameType)]
    BY <2>1, <2>2, PushEffect, SMTT(30)
  <2>6. Types'
    BY <2>2, <2>5, ZenonT(30) DEF Types, Code
  <2>7. Booting'
    BY <2>2, SMTT(30) DEF Booting
  <2>. QED  BY <2>4, <2>6, <2>7, Zenon
<1>. QED  BY <1>1, <1>2, Zenon

(* Leaving it.                                                             *)
LEMMA PreservedByReturns ==
  ASSUME IInv, Restore \/ Iret
  PROVE  IInv'
<1>. USE DEF IInv
<1>1. /\ at \in {"restore", "iret", "sys"} /\ stack' = Pop /\ at' = Top.next
      /\ UNCHANGED <<boot, handlers, irr, isr, imr, cur, tcb, torn, slept>>
      /\ IF at = "restore" THEN regs' = tcb[cur].regs ELSE regs' = regs
  BY Zenon DEF Restore, Iret, history, pic
<1>2. Len(stack[cur]) > 0
  BY <1>1, NotEmpty, SMTT(30)
<1>3. stack' \in [Thread -> Seq(FrameType)] /\ Top \in FrameType
  BY <1>1, <1>2, PopEffect, SMTT(30)
<1>4. /\ Top.next \in Code /\ Top.intr \in BOOLEAN
      /\ tcb[cur].regs \in Thread /\ tcb[cur].intr \in BOOLEAN
  BY <1>3, Zenon DEF FrameType, Types
<1>5. intr' \in BOOLEAN
  BY <1>4, Zenon DEF Restore, Iret
<1>6. Types'
  BY <1>1, <1>3, <1>4, <1>5, SMTT(30) DEF Types
<1>7. Stacks' /\ Created' /\ Handling' /\ Saved' /\ Awake'
  BY <1>1, ReturnStep, SMTT(30)
<1>8. Booting'
  BY <1>1, Zenon DEF Booting
<1>. QED  BY <1>6, <1>7, <1>8, SMTT(30)

(* Switches.                                                               *)
LEMMA PreservedBySwitches ==
  ASSUME IInv, NEW u \in Thread, Preempt(u) \/ Sleep(u)
  PROVE  IInv'
<1>. USE DEF IInv
<1>1. PICK next \in {"eoi", "sys", "run"} :
        /\ Switch(u, next)
        /\ \/ next = "eoi" /\ at = "irq" /\ Timer \in isr /\ slept' = slept
           \/ next = at /\ at \in {"sys", "run"} /\ slept' = TRUE
        /\ boot = "on"
  <2>1. CASE Preempt(u)
    BY <2>1, InterruptsAssumption, SMTT(30) DEF Preempt, Handling, Booting
  <2>2. CASE Sleep(u)
    BY <2>2, InterruptsAssumption, ZenonT(30) DEF Sleep, Booting
  <2>. QED  BY <2>1, <2>2, ZenonT(30)
<1>2. Stacks' /\ Created' /\ Handling' /\ Saved' /\ Awake'
  BY <1>1, SwitchStep, ZenonT(30)
<1>3. /\ cur' = u /\ at' = "restore" /\ intr' = TRUE
      /\ UNCHANGED <<boot, handlers, irr, isr, imr, regs>>
      /\ stack' = Push(cur, Frame("switch", Timer, FALSE, next))
      /\ tcb' = [tcb EXCEPT ![cur] = [used |-> tcb[cur].used, regs |-> regs, intr |-> intr]]
      /\ torn' \subseteq torn \union {cur}
  BY <1>1, Zenon DEF Switch, pic
<1>4. stack' \in [Thread -> Seq(FrameType)]
  <2>1. Frame("switch", Timer, FALSE, next) \in FrameType
    BY Zenon DEF FrameType, Frame, Lines, Code
  <2>. QED  BY <1>3, <2>1, PushEffect, ZenonT(30)
<1>5. tcb' \in [Thread -> [used : BOOLEAN, regs : Thread, intr : BOOLEAN]]
  <2>1. [used |-> tcb[cur].used, regs |-> regs, intr |-> intr] \in
          [used : BOOLEAN, regs : Thread, intr : BOOLEAN]
    BY Zenon DEF Types
  <2>. QED  BY <1>3, <2>1, Zenon DEF Types
<1>6. slept' \in BOOLEAN
  BY <1>1, Zenon DEF Types
<1>7. Types'
  <2>1. torn' \subseteq Thread /\ at' \in Code /\ cur' \in Thread /\ regs' \in Thread
    BY <1>3, Zenon DEF Types, Code
  <2>2. intr' \in BOOLEAN
    BY <1>3, Zenon
  <2>. QED  BY <1>3, <1>4, <1>5, <1>6, <2>1, <2>2, ZenonT(30) DEF Types
<1>8. Booting'
  BY <1>1, <1>3, SMTT(30) DEF Booting
<1>. QED  BY <1>2, <1>7, <1>8, SMTT(30)

(* The signal of the end.                                                  *)
LEMMA PreservedByEoi ==
  ASSUME IInv, Eoi
  PROVE  IInv'
<1>. USE DEF IInv
<1>1. /\ at = "eoi" /\ at' = "iret" /\ isr' \subseteq isr
      /\ UNCHANGED <<boot, handlers, irr, imr, intr, cur, regs, tcb, torn, slept>>
      /\ stack' = [stack EXCEPT ![cur] =
                     Append(SubSeq(@, 1, Len(@) - 1), Frame("done", Top.no, Top.intr, Top.next))]
  BY Zenon DEF Eoi, history
<1>2. stack' \in [Thread -> Seq(FrameType)]
  <2>1. Len(stack[cur]) > 0
    BY <1>1, NotEmpty, Zenon
  <2>. QED  BY <1>1, <2>1, MarkEffect, SMTT(30)
<1>3. Types'
  BY <1>1, <1>2, Zenon DEF Types, Code
<1>4. Booting'
  BY <1>1, Zenon DEF Booting
<1>. QED  BY <1>3, <1>4, EoiStep, SMTT(30)

(* The invariant is inductive.                                             *)
LEMMA IInvStep == IInv /\ [Next]_vars => IInv'
<1>. SUFFICES ASSUME IInv, [Next]_vars PROVE IInv'
  OBVIOUS
<1>1. CASE UNCHANGED vars
  BY <1>1, QuietStep, SMTT(30) DEF vars, pic, cpu, history, IInv, Types, Booting
<1>2. CASE Next
  BY <1>2, PreservedByQuiet, PreservedByGates, PreservedByReturns, PreservedBySwitches,
     PreservedByEoi, AddStep, SMTT(30) DEF Next, IInv
<1>. QED  BY <1>1, <1>2, Zenon

(* Every reachable state satisfies it.                                     *)
LEMMA Inductive == Spec => []IInv
<1>1. Init => IInv
  <2>. SUFFICES ASSUME Init PROVE IInv
    BY Zenon
  <2>. USE InterruptsAssumption DEF Init
  <2>1. tcb \in [Thread -> [used : BOOLEAN, regs : Thread, intr : BOOLEAN]]
    BY Zenon
  <2>2. stack \in [Thread -> Seq(FrameType)] /\ \A t \in Thread : Len(stack[t]) = 0
    OBVIOUS
  <2>3. Types
    BY <2>1, <2>2, ZenonT(30) DEF Types, Lines, Code
  <2>4. Stacks /\ Handling /\ Booting
    BY <2>2 DEF Stacks, Handling, Booting
  <2>5. tcb[Idle].used /\ \A t \in Thread : tcb[t].regs = t /\ (tcb[t].used <=> t = Idle)
    BY Zenon
  <2>6. Created
    BY <2>2, <2>5, SMTT(30) DEF Created
  <2>7. Saved /\ Awake
    BY <2>2, <2>5, SMTT(30) DEF Saved, Awake, Loading
  <2>. QED  BY <2>3, <2>4, <2>6, <2>7, SMTT(30) DEF IInv
<1>. QED  BY <1>1, IInvStep, PTL DEF Spec

(* For any number of threads and any nesting of interrupts, a thread runs  *)
(* with its own registers unless the timer switched it away again while    *)
(* they were being loaded, which takes a switch outside the timer's        *)
(* handler (tcbregs.S:95-127).                                             *)
THEOREM RegistersKept == Spec => []RegsKept
<1>1. IInv => RegsKept
  <2>. SUFFICES ASSUME IInv PROVE RegsKept
    BY Zenon
  <2>1. ASSUME at \in {"run", "sys"} PROVE at # "restore" /\ ~Loading(cur)
    <3>1. Len(stack[cur]) \in Nat /\ cur \in Thread
      BY NotEmpty, Zenon DEF IInv, Types
    <3>2. ASSUME NEW i \in 1..Len(stack[cur]) PROVE stack[cur][i].next = "run"
      BY <2>1, <3>1 DEF IInv, Stacks
    <3>. QED  BY <2>1, <3>2, SMTT(30) DEF Loading
  <2>. QED  BY <2>1, Zenon DEF IInv, Saved, Awake, RegsKept
<1>. QED  BY <1>1, Inductive, PTL
-----------------------------------------------------------------------------
(* The end of every interrupt is signalled.                                *)

\* Code that runs, or will continue, on top of a frame of a kind.
Over(kind, code) ==
  \/ kind = "irq" /\ code \in {"irq", "eoi", "first"}
  \/ kind = "done" /\ code = "iret"
  \/ kind = "sys" /\ code = "sys"
  \/ kind = "switch" /\ code = "restore"

(* What continues finds the frame below it that it expects, and a thread   *)
(* that does not run was switched away.                                    *)
Framed ==
  /\ \A t \in Thread : \A i \in 2..Len(stack[t]) : Over(stack[t][i - 1].kind, stack[t][i].next)
  /\ at # "run" => Over(Top.kind, at)
  /\ \A t \in Thread \ {cur} : Len(stack[t]) > 0 => stack[t][Len(stack[t])].kind = "switch"

TimerOwed ==
  \E t \in Thread : \E i \in 1..Len(stack[t]) : stack[t][i].kind = "irq" /\ stack[t][i].no = Timer

(* One interrupt is in service at a time, since a switch to code that can  *)
(* be interrupted happens only while it is the timer, which has the        *)
(* highest priority.  Any other is in service only in its own handler.     *)
InService ==
  /\ \A m, n \in isr : m = n
  /\ \A n \in isr \ {Timer} : at \in {"irq", "eoi"} /\ ~intr /\ Top.kind = "irq" /\ Top.no = n
  /\ Timer \in isr => TimerOwed

(* Steps that leave the stacks alone.                                      *)
LEMMA QuietFrames ==
  ASSUME IInv, Framed, InService, UNCHANGED <<cur, stack, isr>>,
         at' = at \/ (at \in {"irq", "first"} /\ at' = "eoi"),
         intr' = intr \/ at \notin {"irq", "eoi"}
  PROVE  Framed' /\ InService'
<1>1. Top' = Top
  BY Zenon DEF Top
<1>2. \A kind : Over(kind, at) /\ at' # at => Over(kind, at')
  BY Zenon DEF Over
<1>3. at' # "run" => Over(Top.kind, at')
  BY <1>2, Zenon DEF Framed
<1>4. Framed'
  BY <1>1, <1>3, Zenon DEF Framed
<1>5. TimerOwed' <=> TimerOwed
  BY Zenon DEF TimerOwed
<1>6. \A n \in isr' \ {Timer} : at' \in {"irq", "eoi"} /\ ~intr' /\ Top'.kind = "irq" /\ Top'.no = n
  BY <1>1, Zenon DEF InService
<1>7. InService'
  BY <1>5, <1>6, Zenon DEF InService
<1>. QED  BY <1>4, <1>7, Zenon

(* A frame on top of the stack of the thread that runs.                    *)
LEMMA PushFrames ==
  ASSUME IInv, Framed, NEW f \in FrameType, stack' = Push(cur, f),
         at = "run" \/ Over(Top.kind, f.next)
  PROVE  /\ \A t \in Thread : \A i \in 2..Len(stack'[t]) :
              Over(stack'[t][i - 1].kind, stack'[t][i].next)
         /\ stack'[cur][Len(stack'[cur])] = f /\ Len(stack'[cur]) > 0
         /\ \A t \in Thread \ {cur} : stack'[t] = stack[t]
         /\ TimerOwed => TimerOwed'
         /\ f.kind = "irq" /\ f.no = Timer => TimerOwed'
<1>0. /\ \A t \in Thread \ {cur} : stack'[t] = stack[t]
      /\ Len(stack'[cur]) = Len(stack[cur]) + 1 /\ Len(stack[cur]) \in Nat /\ cur \in Thread
      /\ \A i \in 1..Len(stack[cur]) : stack'[cur][i] = stack[cur][i]
      /\ stack'[cur][Len(stack[cur]) + 1] = f
  BY PushEffect, SMTT(30) DEF IInv, Types
<1>1. ASSUME NEW t \in Thread, NEW i \in 2..Len(stack'[t])
      PROVE  Over(stack'[t][i - 1].kind, stack'[t][i].next)
  <2>1. CASE t # cur
    BY <1>0, <2>1, Zenon DEF Framed
  <2>2. CASE t = cur /\ i \in 2..Len(stack[cur])
    <3>1. i - 1 \in 1..Len(stack[cur]) /\ i \in 1..Len(stack[cur])
      BY <1>0, <2>2
    <3>. QED  BY <1>0, <2>2, <3>1, Zenon DEF Framed
  <2>3. CASE t = cur /\ i = Len(stack[cur]) + 1
    <3>1. Len(stack[cur]) \in 1..Len(stack[cur]) /\ i - 1 = Len(stack[cur]) /\ Len(stack[cur]) # 0
      BY <1>0, <2>3
    <3>2. at # "run"
      BY <3>1, Zenon DEF IInv, Stacks
    <3>. QED  BY <1>0, <2>3, <3>1, <3>2, Zenon DEF Top
  <2>. QED  BY <1>0, <2>1, <2>2, <2>3
<1>2. Len(stack'[cur]) \in 1..Len(stack'[cur]) /\ stack'[cur][Len(stack'[cur])] = f
  BY <1>0
<1>3. f.kind = "irq" /\ f.no = Timer => TimerOwed'
  BY <1>0, <1>2, Zenon DEF TimerOwed
<1>4. TimerOwed => TimerOwed'
  <2>. SUFFICES ASSUME NEW t \in Thread, NEW i \in 1..Len(stack[t]),
                       stack[t][i].kind = "irq", stack[t][i].no = Timer
                PROVE  TimerOwed'
    BY Zenon DEF TimerOwed
  <2>1. i \in 1..Len(stack'[t]) /\ stack'[t][i] = stack[t][i]
    BY <1>0
  <2>. QED  BY <2>1, Zenon DEF TimerOwed
<1>. QED  BY <1>0, <1>1, <1>2, <1>3, <1>4

(* An interrupt is accepted only when none is in service.                  *)
LEMMA AcceptFrames ==
  ASSUME IInv, Framed, InService, NEW n \in Lines, Accept(n)
  PROVE  Framed' /\ InService'
<1>. DEFINE f == Frame("irq", n, intr, at)
<1>1. f \in FrameType /\ f.next = at /\ f.no = n /\ f.kind = "irq"
  <2>1. f \in FrameType
    BY Zenon DEF FrameType, Frame, IInv, Types
  <2>. QED  BY <2>1, Zenon DEF Frame
<1>2. /\ stack' = Push(cur, f) /\ at' = "irq" /\ intr' = FALSE /\ intr /\ cur' = cur
      /\ isr' = isr \union {n} /\ \A m \in isr : n < m
  BY Zenon DEF Accept, Gate
<1>. HIDE DEF f
<1>3. isr = {}
  <2>1. Timer \notin isr
    BY <1>2 DEF Timer, Keyboard, Lines
  <2>. QED  BY <1>2, <2>1, Zenon DEF InService
<1>4. at = "run" \/ Over(Top.kind, f.next)
  BY <1>1, Zenon DEF Framed
<1>5. /\ \A t \in Thread : \A i \in 2..Len(stack'[t]) :
           Over(stack'[t][i - 1].kind, stack'[t][i].next)
      /\ stack'[cur][Len(stack'[cur])] = f
      /\ \A t \in Thread \ {cur} : stack'[t] = stack[t]
      /\ n = Timer => TimerOwed'
  BY <1>1, <1>2, <1>4, PushFrames, Zenon
<1>6. Top' = f
  BY <1>2, <1>5, Zenon DEF Top
<1>7. Framed'
  <2>1. Over(Top'.kind, at')
    BY <1>1, <1>2, <1>6, Zenon DEF Over
  <2>2. \A t \in Thread \ {cur'} :
          Len(stack'[t]) > 0 => stack'[t][Len(stack'[t])].kind = "switch"
    BY <1>2, <1>5, Zenon DEF Framed
  <2>. QED  BY <1>5, <2>1, <2>2, Zenon DEF Framed
<1>8. InService'
  BY <1>1, <1>2, <1>3, <1>5, <1>6, Zenon DEF InService
<1>. QED  BY <1>7, <1>8, Zenon

(* A system call keeps what is in service.                                 *)
LEMMA SyscallFrames ==
  ASSUME IInv, Framed, InService, Syscall
  PROVE  Framed' /\ InService'
<1>. DEFINE f == Frame("sys", Timer, intr, "run")
<1>1. f \in FrameType /\ f.kind = "sys"
  <2>1. f \in FrameType
    BY Zenon DEF FrameType, Frame, IInv, Types, Lines, Code
  <2>. QED  BY <2>1, Zenon DEF Frame
<1>2. stack' = Push(cur, f) /\ at = "run" /\ at' = "sys" /\ cur' = cur /\ isr' = isr
  BY Zenon DEF Syscall, Gate, pic
<1>. HIDE DEF f
<1>3. /\ \A t \in Thread : \A i \in 2..Len(stack'[t]) :
           Over(stack'[t][i - 1].kind, stack'[t][i].next)
      /\ stack'[cur][Len(stack'[cur])] = f
      /\ \A t \in Thread \ {cur} : stack'[t] = stack[t]
      /\ TimerOwed => TimerOwed'
  BY <1>1, <1>2, PushFrames, Zenon
<1>4. Top' = f
  BY <1>2, <1>3, Zenon DEF Top
<1>5. Framed'
  <2>1. Over(Top'.kind, at')
    BY <1>1, <1>2, <1>4, Zenon DEF Over
  <2>2. \A t \in Thread \ {cur'} :
          Len(stack'[t]) > 0 => stack'[t][Len(stack'[t])].kind = "switch"
    BY <1>2, <1>3, Zenon DEF Framed
  <2>. QED  BY <1>3, <2>1, <2>2, Zenon DEF Framed
<1>6. InService'
  BY <1>2, <1>3, Zenon DEF InService
<1>. QED  BY <1>5, <1>6, Zenon

(* A switch happens while the timer or nothing is in service.              *)
LEMMA SwitchFrames ==
  ASSUME IInv, Framed, InService, NEW u \in Thread, Preempt(u) \/ Sleep(u)
  PROVE  Framed' /\ InService'
<1>1. PICK next \in {"eoi", "sys", "run"} :
        /\ Switch(u, next)
        /\ \/ next = at /\ at \in {"sys", "run"}
           \/ next = "eoi" /\ at = "irq" /\ Top.no = Timer
  BY Zenon DEF Preempt, Sleep
<1>. DEFINE f == Frame("switch", Timer, FALSE, next)
<1>2. f \in FrameType /\ f.kind = "switch" /\ f.next = next
  <2>1. f \in FrameType
    BY Zenon DEF FrameType, Frame, Lines, Code
  <2>. QED  BY <2>1, Zenon DEF Frame
<1>3. /\ stack' = Push(cur, f) /\ u # cur /\ cur' = u /\ at' = "restore" /\ isr' = isr
      /\ u \in Added \union {Idle}
  BY <1>1, Zenon DEF Switch, pic
<1>. HIDE DEF f
<1>4. at = "run" \/ Over(Top.kind, f.next)
  BY <1>1, <1>2, Zenon DEF Framed, Over
<1>5. /\ \A t \in Thread : \A i \in 2..Len(stack'[t]) :
           Over(stack'[t][i - 1].kind, stack'[t][i].next)
      /\ stack'[cur][Len(stack'[cur])] = f
      /\ \A t \in Thread \ {cur} : stack'[t] = stack[t]
      /\ TimerOwed => TimerOwed'
  BY <1>2, <1>3, <1>4, PushFrames, Zenon
<1>6. Len(stack[u]) > 0
  <2>1. stack[u] \in Seq(FrameType)
    BY Zenon DEF IInv, Types
  <2>2. tcb[u].used
    BY <1>3, <2>1, SMTT(30) DEF Added, IInv, Created
  <2>. QED  BY <1>3, <2>2, Zenon DEF IInv, Created
<1>7. Top'.kind = "switch"
  BY <1>3, <1>5, <1>6, Zenon DEF Top, Framed
<1>8. Framed'
  <2>1. \A t \in Thread \ {cur'} :
          Len(stack'[t]) > 0 => stack'[t][Len(stack'[t])].kind = "switch"
    BY <1>2, <1>5, Zenon DEF Framed
  <2>. QED  BY <1>3, <1>5, <1>7, <2>1, Zenon DEF Framed, Over
<1>9. isr \subseteq {Timer}
  <2>1. CASE at = "irq"
    BY <1>1, <2>1, Zenon DEF InService
  <2>2. CASE at # "irq"
    BY <1>1, <2>2, Zenon DEF InService
  <2>. QED  BY <2>1, <2>2, Zenon
<1>10. InService'
  BY <1>3, <1>5, <1>9, Zenon DEF InService
<1>. QED  BY <1>8, <1>10, Zenon

(* A return removes a frame whose end needs no signal any more.            *)
LEMMA ReturnFrames ==
  ASSUME IInv, Framed, InService, Restore \/ Iret
  PROVE  Framed' /\ InService'
<1>1. at \in {"restore", "iret", "sys"} /\ stack' = Pop /\ at' = Top.next /\ UNCHANGED <<isr, cur>>
  BY Zenon DEF Restore, Iret, pic
<1>2. /\ \A t \in Thread \ {cur} : stack'[t] = stack[t]
      /\ Len(stack'[cur]) = Len(stack[cur]) - 1 /\ Len(stack[cur]) \in Nat /\ cur \in Thread
      /\ \A i \in 1..(Len(stack[cur]) - 1) : stack'[cur][i] = stack[cur][i]
      /\ Top = stack[cur][Len(stack[cur])] /\ Len(stack[cur]) > 0
  BY <1>1, PopEffect, NotEmpty, SMTT(30) DEF IInv, Types
<1>3. ASSUME NEW t \in Thread, NEW i \in 2..Len(stack'[t])
      PROVE  Over(stack'[t][i - 1].kind, stack'[t][i].next)
  <2>1. CASE t # cur
    BY <1>2, <2>1, Zenon DEF Framed
  <2>2. CASE t = cur
    <3>1. /\ i - 1 \in 1..(Len(stack[cur]) - 1) /\ i \in 1..(Len(stack[cur]) - 1)
          /\ i \in 2..Len(stack[cur])
      BY <1>2, <2>2
    <3>. QED  BY <1>2, <2>2, <3>1, Zenon DEF Framed
  <2>. QED  BY <2>1, <2>2, Zenon
<1>4. at' # "run" => Over(Top'.kind, at')
  <2>. SUFFICES ASSUME at' # "run" PROVE Over(Top'.kind, at')
    BY Zenon
  <2>. DEFINE n == Len(stack[cur])
  <2>1. n \in 1..Len(stack[cur]) /\ stack[cur][n].next # "run"
    BY <1>1, <1>2
  <2>2. n # 1
    BY <1>2, <2>1, Zenon DEF IInv, Stacks
  <2>3. n \in 2..Len(stack[cur]) /\ n - 1 \in 1..(Len(stack[cur]) - 1) /\ Len(stack'[cur]) = n - 1
    <3>1. n = Len(stack[cur]) /\ n \in Nat /\ n > 0 /\ Len(stack'[cur]) = n - 1
      BY <1>2, Zenon
    <3>. HIDE DEF n
    <3>2. n \in 2..n /\ n - 1 \in 1..(n - 1)
      <4>1. n \in Nat /\ n > 0 /\ n # 1
        BY <2>2, <3>1, Zenon
      <4>. QED  BY <4>1
    <3>. QED  BY <3>1, <3>2, Zenon
  <2>4. Top' = stack[cur][n - 1]
    BY <1>1, <1>2, <2>3, Zenon DEF Top
  <2>. QED  BY <1>1, <1>2, <2>3, <2>4, Zenon DEF Framed
<1>5. Framed'
  BY <1>1, <1>2, <1>3, <1>4, Zenon DEF Framed
<1>6. TimerOwed => TimerOwed'
  <2>. SUFFICES ASSUME NEW t \in Thread, NEW i \in 1..Len(stack[t]),
                       stack[t][i].kind = "irq", stack[t][i].no = Timer
                PROVE  TimerOwed'
    BY Zenon DEF TimerOwed
  <2>1. Top.kind # "irq"
    BY <1>1, Zenon DEF Framed, Over
  <2>2. ~(t = cur /\ i = Len(stack[cur]))
    BY <1>2, <2>1, Zenon
  <2>3. i \in 1..Len(stack'[t]) /\ stack'[t][i] = stack[t][i]
    BY <1>2, <2>2
  <2>. QED  BY <2>3, Zenon DEF TimerOwed
<1>7. isr' \subseteq {Timer}
  BY <1>1, Zenon DEF InService
<1>8. InService'
  BY <1>1, <1>6, <1>7, Zenon DEF InService
<1>. QED  BY <1>5, <1>8, Zenon

(* The signal leaves no interrupt in service.                              *)
LEMMA EoiFrames ==
  ASSUME IInv, Framed, InService, Eoi
  PROVE  Framed' /\ InService'
<1>1. /\ at = "eoi" /\ at' = "iret" /\ cur' = cur
      /\ isr' = {n \in isr : \E m \in isr : m < n}
      /\ stack' = [stack EXCEPT ![cur] =
                     Append(SubSeq(@, 1, Len(@) - 1), Frame("done", Top.no, Top.intr, Top.next))]
  BY Zenon DEF Eoi
<1>2. Len(stack[cur]) > 0 /\ Len(stack[cur]) \in Nat /\ cur \in Thread
  BY <1>1, NotEmpty, Zenon DEF IInv, Types
<1>3. /\ \A t \in Thread \ {cur} : stack'[t] = stack[t]
      /\ Len(stack'[cur]) = Len(stack[cur])
      /\ \A i \in 1..Len(stack[cur]) : stack'[cur][i].next = stack[cur][i].next
      /\ \A i \in 1..(Len(stack[cur]) - 1) : stack'[cur][i] = stack[cur][i]
      /\ stack'[cur][Len(stack[cur])].kind = "done"
  BY <1>1, <1>2, MarkEffect, Zenon DEF IInv
<1>4. ASSUME NEW t \in Thread, NEW i \in 2..Len(stack'[t])
      PROVE  Over(stack'[t][i - 1].kind, stack'[t][i].next)
  <2>1. CASE t # cur
    BY <1>3, <2>1, Zenon DEF Framed
  <2>2. CASE t = cur
    <3>1. /\ i - 1 \in 1..(Len(stack[cur]) - 1) /\ i \in 1..Len(stack[cur])
          /\ i \in 2..Len(stack[cur])
      BY <1>2, <1>3, <2>2
    <3>. QED  BY <1>3, <2>2, <3>1, Zenon DEF Framed
  <2>. QED  BY <2>1, <2>2, Zenon
<1>5. Framed'
  <2>1. Over(Top'.kind, at')
    BY <1>1, <1>3, Zenon DEF Over, Top
  <2>2. \A t \in Thread \ {cur'} :
          Len(stack'[t]) > 0 => stack'[t][Len(stack'[t])].kind = "switch"
    BY <1>1, <1>3, Zenon DEF Framed
  <2>. QED  BY <1>4, <2>1, <2>2, Zenon DEF Framed
<1>6. isr' = {}
  <2>1. \A n \in isr : n \in Lines /\ ~(n < n)
    BY DEF IInv, Types, Lines, Timer, Keyboard
  <2>. QED  BY <1>1, <2>1, Zenon DEF InService
<1>7. InService'
  BY <1>6, Zenon DEF InService
<1>. QED  BY <1>5, <1>7, Zenon

(* A new thread owes an end that nobody waits for.                         *)
LEMMA AddFrames ==
  ASSUME IInv, Framed, InService, NEW u \in Thread, AddThread(u)
  PROVE  Framed' /\ InService'
<1>. DEFINE a == Frame("irq", Timer, intr, "run")
            b == Frame("switch", Timer, FALSE, "first")
<1>1. /\ cur = Idle /\ at = "run" /\ u # Idle /\ stack[u] = <<>>
      /\ UNCHANGED <<isr, intr, cur, at>>
      /\ stack' = [stack EXCEPT ![u] = <<a, b>>]
  BY Zenon DEF AddThread, Added, pic, cpu
<1>2. a.kind = "irq" /\ b.kind = "switch" /\ b.next = "first"
  BY Zenon DEF Frame
<1>. HIDE DEF a, b
<1>3. /\ Len(stack'[u]) = 2 /\ stack'[u][1] = a /\ stack'[u][2] = b
      /\ \A t \in Thread \ {u} : stack'[t] = stack[t]
  BY <1>1, Zenon DEF IInv, Types
<1>4. ASSUME NEW t \in Thread, NEW i \in 2..Len(stack'[t])
      PROVE  Over(stack'[t][i - 1].kind, stack'[t][i].next)
  <2>1. CASE t # u
    BY <1>3, <2>1, Zenon DEF Framed
  <2>2. CASE t = u
    <3>1. Len(stack'[t]) = 2
      BY <1>3, <2>2, Zenon
    <3>2. i = 2 /\ i - 1 = 1
      BY <3>1
    <3>. QED  BY <1>2, <1>3, <2>2, <3>2, Zenon DEF Over
  <2>. QED  BY <2>1, <2>2, Zenon
<1>5. Framed'
  <2>1. at' = "run"
    BY <1>1, Zenon
  <2>2. \A t \in Thread \ {cur'} :
          Len(stack'[t]) > 0 => stack'[t][Len(stack'[t])].kind = "switch"
    BY <1>1, <1>2, <1>3, Zenon DEF Framed
  <2>. QED  BY <1>4, <2>1, <2>2, Zenon DEF Framed
<1>6. TimerOwed => TimerOwed'
  <2>. SUFFICES ASSUME NEW t \in Thread, NEW i \in 1..Len(stack[t]),
                       stack[t][i].kind = "irq", stack[t][i].no = Timer
                PROVE  TimerOwed'
    BY Zenon DEF TimerOwed
  <2>1. t # u
    BY <1>1
  <2>. QED  BY <1>3, <2>1, Zenon DEF TimerOwed
<1>7. isr' \subseteq {Timer}
  BY <1>1, Zenon DEF InService
<1>8. InService'
  BY <1>1, <1>6, <1>7, Zenon DEF InService
<1>. QED  BY <1>5, <1>8, Zenon

(* Both are kept by every step.                                            *)
LEMMA FramesStep == IInv /\ Framed /\ InService /\ [Next]_vars => Framed' /\ InService'
<1>. SUFFICES ASSUME IInv, Framed, InService, [Next]_vars PROVE Framed' /\ InService'
  BY Zenon
<1>1. CASE UNCHANGED vars
  BY <1>1, QuietFrames, Zenon DEF vars, pic, cpu
<1>2. CASE Boot \/ (\E n \in Lines : Raise(n)) \/ HandleIrq \/ FirstReturn
  <2>1. /\ UNCHANGED <<cur, stack, isr>>
        /\ at' = at \/ (at \in {"irq", "first"} /\ at' = "eoi")
    BY <1>2, Zenon DEF Boot, pic_install, i8254_init, kbd_init, kbd_fails, sti,
           install_irq_handler, Raise, HandleIrq, FirstReturn, pic, cpu
  <2>2. intr' = intr \/ at \notin {"irq", "eoi"}
    BY <1>2, Zenon DEF Boot, pic_install, i8254_init, kbd_init, kbd_fails, sti,
           install_irq_handler, Raise, HandleIrq, FirstReturn, pic, cpu, IInv, Booting
  <2>. QED  BY <2>1, <2>2, QuietFrames, Zenon
<1>3. CASE Next
  BY <1>2, <1>3, AcceptFrames, SyscallFrames, SwitchFrames, ReturnFrames, EoiFrames, AddFrames,
     Zenon DEF Next
<1>. QED  BY <1>1, <1>3, Zenon

(* For any number of threads and any nesting, an interrupt in service has  *)
(* a handler on some stack that will still signal its end (idt.S:108-113), *)
(* although the signal does not name the interrupt.                        *)
THEOREM EndsOwed == Spec => []EoiOwed
<1>1. Init => Framed /\ InService
  <2>. SUFFICES ASSUME Init PROVE Framed /\ InService
    BY Zenon
  <2>1. isr = {} /\ at = "run" /\ \A t \in Thread : Len(stack[t]) = 0
    BY Zenon DEF Init
  <2>2. InService
    BY <2>1, Zenon DEF InService
  <2>3. Framed
    BY <2>1 DEF Framed
  <2>. QED  BY <2>2, <2>3, Zenon
<1>2. IInv /\ Framed /\ InService => EoiOwed
  <2>. SUFFICES ASSUME IInv, Framed, InService, NEW n \in isr
                PROVE  \E t \in Thread : \E f \in Frames(t) : f.kind = "irq" /\ f.no = n
    BY Zenon DEF EoiOwed
  <2>1. CASE n = Timer
    BY <2>1, Zenon DEF InService, TimerOwed, Frames
  <2>2. CASE n # Timer
    <3>1. at # "run" /\ Top.kind = "irq" /\ Top.no = n
      BY <2>2, Zenon DEF InService
    <3>2. Len(stack[cur]) \in 1..Len(stack[cur]) /\ cur \in Thread
      BY <3>1, NotEmpty, SMTT(30) DEF IInv, Types
    <3>. QED  BY <3>1, <3>2, Zenon DEF Top, Frames
  <2>. QED  BY <2>1, <2>2, Zenon
<1>. QED  BY <1>1, <1>2, FramesStep, Inductive, PTL DEF Spec
=============================================================================
