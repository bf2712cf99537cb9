----------------------------- MODULE SchedProofs -----------------------------
(* Proofs about Sched, for any set of threads and any number of classes.   *)
EXTENDS Sched, TLAPS

(* The lists of an array l, as list has them: no item is anywhere twice.   *)
Distinct(l) ==
  \A p, q \in Prio : \A i \in DOMAIN l[p], j \in DOMAIN l[q] :
    l[p][i] = l[q][j] => p = q /\ i = j

\* t is inside sched_switch.
InSwitch(t) == pc[t] \notin {"out", "adding"}

(* Who can be where: besides the running thread only the one that the      *)
(* timer took the CPU from is inside sched_switch, and that is the idle    *)
(* thread, which is also the only one to add others.  Local variables hold *)
(* threads once they are assigned.                                         *)
Places ==
  /\ \A t \in Thread : InSwitch(t) => t = run \/ (t = handler /\ t = Idle)
  /\ \A t \in Thread : pc[t] = "adding" => t = Idle
  /\ \A t \in Thread : pc[t] \notin {"out", "select"} => pick[t] \in Thread
  /\ \A t \in Thread : pc[t] \in {"assign", "switch"} => self[t] \in Thread

(* The running thread does not move a thread that the one which the timer  *)
(* interrupted has already taken out of its list.                          *)
MovedOnce ==
  \A t \in Thread :
    t # run /\ pc[t] = "enqueue" /\ pc[run] \in {"dequeue", "enqueue"} => pick[t] # pick[run]

Moved == {t \in Thread : Moving(t)}

\* A thread once added is known for good.
Known == Added \union Moved

(* ListsExact, apart from Distinct.                                        *)
Listed ==
  /\ Moved \intersect Added = {}
  /\ \A t \in Thread : state[t] # "ZOMBIE" => t \in Known

(* Only known threads run or come to run.                                  *)
OnlyKnown ==
  /\ run \in Known /\ cur \in Known
  /\ \A t \in Known : saved[t] \in Known
  /\ \A t \in Thread \ Known : saved[t] = t
  /\ \A t \in Thread : pc[t] \notin {"out", "select"} => pick[t] \in Known
  /\ \A t \in Thread : pc[t] \in {"assign", "switch"} => self[t] \in Known

BeingAdded == {t \in Thread : Adding(t)}

(* A thread has no priority before it is added; while it is added it is    *)
(* listed in its own class, or in that of the idle thread.                 *)
Unprioritised ==
  /\ state[Idle] # "ZOMBIE" /\ state[SysSrv] # "ZOMBIE"
  /\ \A t \in Thread \ Known : prio[t] = 0
  /\ \A t \in BeingAdded : prio[t] = 0 /\ \A p \in Prio : InList(t, p) => p \in {PrioOf[t], 0}

(* PrioRespected.                                                          *)
Classed ==
  \A t \in Thread \ BeingAdded, p \in Prio : InList(t, p) => p \in {prio[t], 0}

(* What the timer spoils when it interrupts sched_switch: nobody but the   *)
(* running thread is inside it, and what it saw there still holds.         *)
Undisturbed ==
  ~raced =>
    /\ \A t \in Thread : InSwitch(t) => t = run
    /\ pc[run] \in {"assign", "switch"} => self[run] = run
    /\ pc[run] = "switch" => cur = pick[run]
    /\ pc[run] \in {"out", "adding"} => IsRunnable(run)
    /\ pc[run] = "select" => \E t \in Added : IsRunnable(t)
    /\ InSwitch(run) /\ pc[run] # "select" => IsRunnable(pick[run])

IInv ==
  /\ TypeOK
  /\ Places
  /\ MovedOnce
  /\ Distinct(list)
  /\ Listed
  /\ Unprioritised
  /\ Classed
  /\ OnlyKnown
  /\ ContextsMatch
  /\ Undisturbed

-----------------------------------------------------------------------------
(* The lists.                                                              *)

(* list_dequeue on a list in which no item is twice: the others stay, each *)
(* once.                                                                   *)
LEMMA WithoutList ==
  ASSUME NEW q \in Seq(Thread), NEW t \in Thread,
         \A i, j \in DOMAIN q : q[i] = q[j] => i = j
  PROVE  /\ Without(q, t) \in Seq(Thread)
         /\ \A i, j \in DOMAIN Without(q, t) : Without(q, t)[i] = Without(q, t)[j] => i = j
         /\ Members(Without(q, t)) = Members(q) \ {t}
<1>1. CASE \E j \in DOMAIN q : q[j] = t
  <2>. DEFINE i == CHOOSE j \in DOMAIN q : q[j] = t
              w == [j \in 1..(Len(q) - 1) |-> IF j < i THEN q[j] ELSE q[j + 1]]
  <2>1. i \in 1..Len(q) /\ Len(q) \in Nat /\ q[i] = t /\ DOMAIN q = 1..Len(q)
    BY <1>1
  <2>2. Without(q, t) = w
    BY <1>1, Zenon DEF Without
  <2>. HIDE DEF i
  <2>3. w \in Seq(Thread) /\ DOMAIN w = 1..(Len(q) - 1)
    BY <2>1
  <2>4. \A j, k \in DOMAIN w : w[j] = w[k] => j = k
    BY <2>1
  <2>5. \A j \in DOMAIN w : w[j] \in Members(q) \ {t}
    BY <2>1 DEF Members
  <2>6. \A u \in Members(q) \ {t} : \E j \in DOMAIN w : w[j] = u
    <3>. SUFFICES ASSUME NEW k \in DOMAIN q, q[k] # t
                  PROVE  \E j \in DOMAIN w : w[j] = q[k]
      BY DEF Members
    <3>1. CASE k < i
      <4>1. k \in DOMAIN w /\ w[k] = q[k]
        BY <2>1, <3>1
      <4>. QED  BY <4>1, Zenon
    <3>2. CASE k > i
      <4>1. k - 1 \in DOMAIN w /\ w[k - 1] = q[k]
        BY <2>1, <3>2
      <4>. QED  BY <4>1, Zenon
    <3>. QED  BY <2>1, <3>1, <3>2
  <2>. HIDE DEF w
  <2>7. Members(w) = Members(q) \ {t}
    <3>1. \A u : u \in Members(w) <=> \E j \in DOMAIN w : w[j] = u
      BY Zenon DEF Members
    <3>. QED  BY <2>5, <2>6, <3>1
  <2>. QED  BY <2>2, <2>3, <2>4, <2>7, Zenon
<1>2. CASE ~ \E j \in DOMAIN q : q[j] = t
  BY <1>2, Zenon DEF Without, Members
<1>. QED  BY <1>1, <1>2, Zenon

(* What list_dequeue leaves in the array of lists.                         *)
LEMMA DequeuedLists ==
  ASSUME list \in [Prio -> Seq(Thread)], Distinct(list), NEW t \in Thread
  PROVE  /\ Dequeued(t) \in [Prio -> Seq(Thread)]
         /\ Distinct(Dequeued(t))
         /\ \A u \in Thread, p \in Prio :
              u \in Members(Dequeued(t)[p]) <=> u # t /\ u \in Members(list[p])
<1>1. \A p \in Prio : \A i, j \in DOMAIN list[p] : list[p][i] = list[p][j] => i = j
  BY Zenon DEF Distinct
<1>. DEFINE d == Dequeued(t)
<1>2. \A p \in Prio : /\ d[p] \in Seq(Thread)
                      /\ \A i, j \in DOMAIN d[p] : d[p][i] = d[p][j] => i = j
                      /\ Members(d[p]) = Members(list[p]) \ {t}
  BY <1>1, WithoutList, Zenon DEF Dequeued
<1>3. DOMAIN d = Prio /\ d = [p \in Prio |-> d[p]]
  BY Zenon DEF Dequeued
<1>. HIDE DEF d
<1>4. ASSUME NEW p \in Prio, NEW q \in Prio, NEW i \in DOMAIN d[p], NEW j \in DOMAIN d[q],
             d[p][i] = d[q][j]
      PROVE  p = q /\ i = j
  <2>1. d[p][i] \in Members(list[p]) /\ d[p][i] \in Members(list[q])
    <3>1. d[p][i] \in Members(d[p]) /\ d[q][j] \in Members(d[q])
      BY Zenon DEF Members
    <3>. QED  BY <1>2, <1>4, <3>1, Zenon
  <2>2. p = q
    BY <2>1 DEF Members, Distinct
  <2>. QED  BY <1>2, <1>4, <2>2, Zenon
<1>5. Distinct(d)
  BY <1>4, Zenon DEF Distinct
<1>. QED  BY <1>2, <1>3, <1>5 DEF d

\* list_enqueue_back puts t into the list of class c.
Appended(l, t, c) == [l EXCEPT ![c] = Append(@, t)]

(* What that does to the array, for an item that is in no list.            *)
LEMMA AppendedLists ==
  ASSUME NEW l \in [Prio -> Seq(Thread)], Distinct(l), NEW t \in Thread, NEW c \in Prio,
         \A p \in Prio : t \notin Members(l[p])
  PROVE  /\ Appended(l, t, c) \in [Prio -> Seq(Thread)]
         /\ Distinct(Appended(l, t, c))
         /\ \A u \in Thread, p \in Prio :
              u \in Members(Appended(l, t, c)[p]) <=> u \in Members(l[p]) \/ (u = t /\ p = c)
<1>. DEFINE a == Appended(l, t, c)
<1>1. a \in [Prio -> Seq(Thread)]
  BY DEF Appended
<1>2. \A p \in Prio : l[p] \in Seq(Thread) /\ (p # c => a[p] = l[p])
  BY Zenon DEF Appended
<1>3. /\ DOMAIN a[c] = DOMAIN l[c] \union {Len(l[c]) + 1} /\ Len(l[c]) + 1 \notin DOMAIN l[c]
      /\ \A i \in DOMAIN l[c] : a[c][i] = l[c][i]
      /\ a[c][Len(l[c]) + 1] = t
  BY DEF Appended
<1>. HIDE DEF a
<1>4. \A u \in Thread, p \in Prio : u \in Members(a[p]) <=> u \in Members(l[p]) \/ (u = t /\ p = c)
  BY <1>2, <1>3 DEF Members
<1>5. Distinct(a)
  <2>. SUFFICES ASSUME NEW p \in Prio, NEW q \in Prio, NEW i \in DOMAIN a[p], NEW j \in DOMAIN a[q],
                       a[p][i] = a[q][j]
                PROVE  p = q /\ i = j
    BY Zenon DEF Distinct
  <2>1. \A r \in Prio : \A k \in DOMAIN l[r] : l[r][k] # t
    BY Zenon DEF Members
  <2>2. ASSUME NEW r \in Prio, NEW k \in DOMAIN a[r]
        PROVE  \/ k \in DOMAIN l[r] /\ a[r][k] = l[r][k]
               \/ r = c /\ k = Len(l[c]) + 1 /\ a[r][k] = t
    BY <1>2, <1>3, Zenon
  <2>3. CASE i \in DOMAIN l[p] /\ j \in DOMAIN l[q]
    BY <1>3, <2>2, <2>3 DEF Distinct
  <2>. QED  BY <2>1, <2>2, <2>3
<1>. QED  BY <1>1, <1>4, <1>5, Zenon DEF a

(* The step that puts a thread into the list of a class.                   *)
LEMMA AppendStep ==
  ASSUME list \in [Prio -> Seq(Thread)], Distinct(list), NEW t \in Thread, NEW c \in Prio,
         t \notin Added, list' = Appended(list, t, c)
  PROVE  /\ list' \in [Prio -> Seq(Thread)]
         /\ Distinct(list')
         /\ \A u \in Thread, p \in Prio :
              u \in Members(list'[p]) <=> u \in Members(list[p]) \/ (u = t /\ p = c)
<1>1. \A p \in Prio : t \notin Members(list[p])
  BY Zenon DEF Added, InList
<1>2. /\ Appended(list, t, c) \in [Prio -> Seq(Thread)]
      /\ Distinct(Appended(list, t, c))
      /\ \A u \in Thread, p \in Prio :
           u \in Members(Appended(list, t, c)[p]) <=> u \in Members(list[p]) \/ (u = t /\ p = c)
  BY <1>1, AppendedLists, Zenon
<1>. QED  BY <1>2, Zenon

(* move_thread_to_back: the thread ends up in the list of its priority.    *)
LEMMA MovedLists ==
  ASSUME list \in [Prio -> Seq(Thread)], Distinct(list), prio \in [Thread -> Prio], NEW t \in Thread
  PROVE  /\ MovedToBack(t) \in [Prio -> Seq(Thread)]
         /\ Distinct(MovedToBack(t))
         /\ \A u \in Thread, p \in Prio :
              u \in Members(MovedToBack(t)[p]) <=> IF u = t THEN p = prio[t] ELSE u \in Members(list[p])
<1>. DEFINE d == Dequeued(t)
            c == prio[t]
<1>1. /\ d \in [Prio -> Seq(Thread)] /\ Distinct(d)
      /\ \A u \in Thread, p \in Prio : u \in Members(d[p]) <=> u # t /\ u \in Members(list[p])
  BY DequeuedLists, Zenon
<1>2. \A p \in Prio : t \notin Members(d[p])
  BY <1>1, Zenon
<1>3. MovedToBack(t) = Appended(d, t, c) /\ c \in Prio
  BY Zenon DEF MovedToBack, Appended
<1>. HIDE DEF d, c
<1>4. /\ Appended(d, t, c) \in [Prio -> Seq(Thread)]
      /\ Distinct(Appended(d, t, c))
      /\ \A u \in Thread, p \in Prio :
           u \in Members(Appended(d, t, c)[p]) <=> u \in Members(d[p]) \/ (u = t /\ p = c)
  BY <1>1, <1>2, <1>3, AppendedLists, Zenon
<1>5. \A u \in Thread, p \in Prio :
        u \in Members(MovedToBack(t)[p]) <=> IF u = t THEN p = prio[t] ELSE u \in Members(list[p])
  BY <1>1, <1>3, <1>4, Zenon DEF c
<1>. QED  BY <1>3, <1>4, <1>5, Zenon

(* sched_select_thread returns a thread that is in a list and READY.       *)
LEMMA SelectedListed ==
  ASSUME NEW t \in Thread, Selected(t)
  PROVE  t \in Added /\ IsRunnable(t)
<1>. QED  BY Zenon DEF Selected, Selectable, IsFirst, Runnable, Added, InList, Members

-----------------------------------------------------------------------------
(* The steps, one by one.                                                  *)

(* The types, without the lists.                                           *)
LEMMA Types ==
  ASSUME IInv
  PROVE  /\ run \in Thread /\ cur \in Thread /\ pc \in [Thread -> Points] /\ prio \in [Thread -> Prio]
         /\ state \in [Thread -> {"ZOMBIE", "READY", "BLOCKED"}] /\ saved \in [Thread -> Thread]
         /\ pick \in [Thread -> Thread \union {None}] /\ self \in [Thread -> Thread \union {None}]
  BY Zenon DEF IInv, TypeOK

(* A step that moves no thread and adds none leaves the sets of threads    *)
(* alone.                                                                  *)
LEMMA SetsKept ==
  ASSUME IInv, list' = list,
         \A t \in Thread :
           /\ pc'[t] = "enqueue" <=> pc[t] = "enqueue"
           /\ pc'[t] = "adding" <=> pc[t] = "adding"
           /\ pc[t] \in {"enqueue", "adding"} => pick'[t] = pick[t]
  PROVE  /\ Distinct(list') /\ Known \subseteq Thread
         /\ Added' = Added /\ Moved' = Moved /\ Known' = Known /\ BeingAdded' = BeingAdded
<1>1. Distinct(list') /\ Added' = Added
  BY Zenon DEF IInv, Added, InList
<1>2. Moved' = Moved /\ BeingAdded' = BeingAdded
  BY DEF Moved, Moving, BeingAdded, Adding
<1>. QED  BY <1>1, <1>2, Zenon DEF Known, Added, Moved

(* sched_add_thread sets the priority of the thread it has listed.         *)
LEMMA AddPrioStep ==
  ASSUME IInv, AddPrio(run)
  PROVE  IInv'
<1>. USE Types DEF IInv
<1>l. list' = list /\ Distinct(list')
  BY Zenon DEF AddPrio
<1>m. Added' = Added /\ Moved' = Moved /\ BeingAdded = {pick[run]} /\ BeingAdded' = {}
  <2>1. Added' = Added
    BY <1>l, Zenon DEF Added, InList
  <2>2. Moved' = Moved
    BY Zenon DEF Moved, Moving, AddPrio
  <2>3. BeingAdded = {pick[run]} /\ BeingAdded' = {}
    <3>1. \A u \in Thread : (pc[u] = "adding" <=> u = run) /\ pc'[u] # "adding"
      BY Zenon DEF Places, AddPrio
    <3>2. pick[run] \in Thread
      BY Zenon DEF Places, AddPrio
    <3>. QED  BY <3>1, <3>2 DEF BeingAdded, Adding
  <2>. QED  BY <2>1, <2>2, <2>3, Zenon
<1>k. Known' = Known /\ Known \subseteq Thread
  BY <1>m, Zenon DEF Known, Added, Moved
<1>p. pick[run] \in Known /\ pick[run] \in Thread
  BY Zenon DEF OnlyKnown, Places, AddPrio
<1>1. TypeOK'
  BY <1>l, SchedAssumption, Zenon DEF TypeOK, Points, Places, AddPrio, Prio
<1>2. Places'
  BY DEF Places, InSwitch, AddPrio
<1>3. MovedOnce'
  BY Zenon DEF MovedOnce, Places, InSwitch, AddPrio
<1>4. Listed'
  BY <1>m, <1>k, Zenon DEF Listed, AddPrio
<1>5. Unprioritised'
  BY <1>l, <1>m, <1>k, <1>p DEF Unprioritised, InList, OnlyKnown, AddPrio
<1>6. Classed'
  BY <1>l, <1>m, Zenon DEF Classed, InList, Unprioritised, AddPrio
<1>7. OnlyKnown'
  BY <1>m, <1>k, Zenon DEF OnlyKnown, AddPrio
<1>8. ContextsMatch'
  BY Zenon DEF ContextsMatch, Undisturbed, InSwitch, AddPrio
<1>9. Undisturbed'
  BY <1>m DEF Undisturbed, Places, InSwitch, IsRunnable, Listed, ContextsMatch, AddPrio
<1>. QED  BY <1>l, <1>1, <1>2, <1>3, <1>4, <1>5, <1>6, <1>7, <1>8, <1>9, Zenon DEF IInv

(* A thread that blocks leaves a READY one behind for sched_switch.        *)
LEMMA BlockStep ==
  ASSUME IInv, Block(run)
  PROVE  IInv'
<1>. USE Types DEF IInv
<1>l. list' = list /\ Distinct(list') /\ Known \subseteq Thread
      /\ Added' = Added /\ Moved' = Moved /\ Known' = Known /\ BeingAdded' = BeingAdded
  BY SetsKept, Zenon DEF Block
<1>1. TypeOK'
  BY <1>l, Zenon DEF TypeOK, Points, Places, Block
<1>2. Places'
  BY DEF Places, InSwitch, Block
<1>3. MovedOnce'
  BY Zenon DEF MovedOnce, Places, InSwitch, Block
<1>4. Listed'
  BY <1>l DEF Listed, OnlyKnown, Block
<1>5. Unprioritised'
  <2>1. Idle \in Thread /\ SysSrv \in Thread
    BY SchedAssumption, Zenon
  <2>. QED  BY <1>l, <2>1, Zenon DEF Unprioritised, InList, Block
<1>6. Classed'
  BY <1>l, Zenon DEF Classed, InList, Block
<1>7. OnlyKnown'
  BY <1>l, Zenon DEF OnlyKnown, Block
<1>8. ContextsMatch'
  BY Zenon DEF ContextsMatch, Undisturbed, InSwitch, Block
<1>9. Undisturbed'
  <2>. SUFFICES ASSUME ~raced PROVE Undisturbed'
    BY Zenon DEF Undisturbed, Block
  <2>1. \E t \in Added : state'[t] = "READY"
    <3>1. Moved = {}
      BY Zenon DEF Moved, Moving, Undisturbed, InSwitch, Block
    <3>2. run \in Added /\ state[run] = "READY"
      BY <3>1, Zenon DEF Undisturbed, IsRunnable, OnlyKnown, Known, Block
    <3>3. Added \subseteq Thread
      BY Zenon DEF Added
    <3>. QED  BY <3>2, <3>3, Zenon DEF IsRunnable, Block
  <2>. QED  BY <1>l, <2>1, Zenon DEF Undisturbed, InSwitch, IsRunnable, Block
<1>. QED  BY <1>l, <1>1, <1>2, <1>3, <1>4, <1>5, <1>6, <1>7, <1>8, <1>9, Zenon DEF IInv

(* Waking a thread or ending one does not touch the lists.                 *)
LEMMA AffectStep ==
  ASSUME IInv, NEW u \in Thread, Wake(run, u) \/ Quit(run, u)
  PROVE  IInv'
<1>. USE Types DEF IInv
<1>l. list' = list /\ Distinct(list') /\ Known \subseteq Thread
      /\ Added' = Added /\ Moved' = Moved /\ Known' = Known /\ BeingAdded' = BeingAdded
  BY SetsKept, Zenon DEF Wake, Quit
<1>1. TypeOK'
  <2>1. state' \in [Thread -> {"ZOMBIE", "READY", "BLOCKED"}]
    BY Zenon DEF Wake, Quit
  <2>. QED  BY <2>1, Zenon DEF TypeOK, Wake, Quit
<1>2. Places'
  BY Zenon DEF Places, InSwitch, Wake, Quit
<1>3. MovedOnce'
  BY Zenon DEF MovedOnce, Places, InSwitch, Wake, Quit
<1>4. Listed'
  BY <1>l, Zenon DEF Listed, Wake, Quit
<1>5. Unprioritised'
  <2>1. state'[Idle] # "ZOMBIE" /\ state'[SysSrv] # "ZOMBIE"
    BY SchedAssumption DEF Unprioritised, Wake, Quit
  <2>. QED  BY <1>l, <2>1, Zenon DEF Unprioritised, InList, Wake, Quit
<1>6. Classed'
  BY <1>l, Zenon DEF Classed, InList, Wake, Quit
<1>7. OnlyKnown'
  BY <1>l DEF OnlyKnown, Wake, Quit
<1>8. ContextsMatch'
  BY Zenon DEF ContextsMatch, Undisturbed, InSwitch, Wake, Quit
<1>9. Undisturbed'
  BY <1>l DEF Undisturbed, Places, InSwitch, IsRunnable, Listed, ContextsMatch, Wake, Quit
<1>. QED  BY <1>l, <1>1, <1>2, <1>3, <1>4, <1>5, <1>6, <1>7, <1>8, <1>9, Zenon DEF IInv

(* sched_switch takes the thread that sched_select_thread returns.         *)
LEMMA SelectStep ==
  ASSUME IInv, Select(run)
  PROVE  IInv'
<1>. USE Types DEF IInv
<1>l. list' = list /\ Distinct(list') /\ Known \subseteq Thread
      /\ Added' = Added /\ Moved' = Moved /\ Known' = Known /\ BeingAdded' = BeingAdded
  BY SetsKept, Zenon DEF Select
<1>s. PICK next \in Thread : Selected(next) /\ pick' = [pick EXCEPT ![run] = next]
  BY Zenon DEF Select
<1>t. next \in Added /\ next \in Known /\ IsRunnable(next)
  BY <1>s, SelectedListed, Zenon DEF Known
<1>1. TypeOK'
  BY <1>l, <1>s, <1>t, Zenon DEF TypeOK, Points, Places, Select
<1>2. Places'
  BY <1>s, <1>t DEF Places, InSwitch, Select
<1>3. MovedOnce'
  <2>1. \A t \in Thread : t # run /\ pc[t] = "enqueue" => pick[t] # next
    BY <1>t, Zenon DEF Listed, Moved, Moving
  <2>. QED  BY <1>s, <2>1, Zenon DEF MovedOnce, Select
<1>4. Listed'
  BY <1>l, Zenon DEF Listed, Select
<1>5. Unprioritised'
  BY <1>l, Zenon DEF Unprioritised, InList, Select
<1>6. Classed'
  BY <1>l, Zenon DEF Classed, InList, Select
<1>7. OnlyKnown'
  BY <1>l, <1>s, <1>t DEF OnlyKnown, Select
<1>8. ContextsMatch'
  BY Zenon DEF ContextsMatch, Undisturbed, InSwitch, Select
<1>9. Undisturbed'
  BY <1>l, <1>s, <1>t DEF Undisturbed, Places, InSwitch, IsRunnable, Listed, ContextsMatch, Select
<1>. QED  BY <1>l, <1>1, <1>2, <1>3, <1>4, <1>5, <1>6, <1>7, <1>8, <1>9, Zenon DEF IInv

(* sched_switch_to sets g_current_thread.                                  *)
LEMMA AssignStep ==
  ASSUME IInv, Assign(run)
  PROVE  IInv'
<1>. USE Types DEF IInv
<1>l. list' = list /\ Distinct(list') /\ Known \subseteq Thread
      /\ Added' = Added /\ Moved' = Moved /\ Known' = Known /\ BeingAdded' = BeingAdded
  BY SetsKept, Zenon DEF Assign
<1>1. TypeOK'
  BY <1>l, Zenon DEF TypeOK, Points, Places, Assign
<1>2. Places'
  BY DEF Places, InSwitch, Assign
<1>3. MovedOnce'
  BY Zenon DEF MovedOnce, Places, InSwitch, Assign
<1>4. Listed'
  BY <1>l, Zenon DEF Listed, Assign
<1>5. Unprioritised'
  BY <1>l, Zenon DEF Unprioritised, InList, Assign
<1>6. Classed'
  BY <1>l, Zenon DEF Classed, InList, Assign
<1>7. OnlyKnown'
  BY <1>l, Zenon DEF OnlyKnown, Assign
<1>8. ContextsMatch'
  BY Zenon DEF ContextsMatch, Undisturbed, InSwitch, Assign
<1>9. Undisturbed'
  BY <1>l DEF Undisturbed, Places, InSwitch, IsRunnable, Listed, ContextsMatch, Assign
<1>. QED  BY <1>l, <1>1, <1>2, <1>3, <1>4, <1>5, <1>6, <1>7, <1>8, <1>9 DEF IInv

(* tcb_switch loads the context of the thread that was selected.           *)
LEMMA SwitchStep ==
  ASSUME IInv, Switch(run)
  PROVE  IInv'
<1>. USE Types DEF IInv
<1>l. list' = list /\ Distinct(list') /\ Known \subseteq Thread
      /\ Added' = Added /\ Moved' = Moved /\ Known' = Known /\ BeingAdded' = BeingAdded
  BY SetsKept, Zenon DEF Switch
<1>r. run' \in Thread /\ self[run] \in Thread /\ pick[run] \in Thread
  BY Zenon DEF Places, Switch
<1>1. TypeOK'
  BY <1>l, Zenon DEF TypeOK, Points, Places, Switch
<1>2. Places'
  BY DEF Places, InSwitch, Switch
<1>3. MovedOnce'
  <2>1. \A t \in Thread : InSwitch(t)' => t = handler
    BY DEF Places, InSwitch, Switch
  <2>. QED  BY <1>r, <2>1, Zenon DEF MovedOnce, InSwitch
<1>4. Listed'
  BY <1>l, Zenon DEF Listed, Switch
<1>5. Unprioritised'
  BY <1>l, Zenon DEF Unprioritised, InList, Switch
<1>6. Classed'
  BY <1>l, Zenon DEF Classed, InList, Switch
<1>7. OnlyKnown'
  <2>1. \A t \in Known : saved'[t] \in Known
    BY <1>r, <1>l, Zenon DEF OnlyKnown, Switch
  <2>2. run' \in Known
    BY <1>r, <2>1, Zenon DEF OnlyKnown, Switch
  <2>3. \A t \in Thread \ Known : saved'[t] = t
    BY <1>r, <1>l DEF OnlyKnown, Switch
  <2>4. \A t \in Thread : pc'[t] \notin {"out", "select"} => pick'[t] \in Known
    BY Zenon DEF OnlyKnown, Switch
  <2>5. \A t \in Thread : pc'[t] \in {"assign", "switch"} => self'[t] \in Known
    BY Zenon DEF OnlyKnown, Switch
  <2>6. cur' \in Known
    BY Zenon DEF OnlyKnown, Switch
  <2>. QED  BY <1>l, <2>1, <2>2, <2>3, <2>4, <2>5, <2>6, Zenon DEF OnlyKnown
<1>8. ContextsMatch'
  BY DEF ContextsMatch, Undisturbed, InSwitch, Switch
<1>9. Undisturbed'
  <2>. SUFFICES ASSUME ~raced PROVE Undisturbed'
    BY Zenon DEF Undisturbed, Switch
  <2>1. \A t \in Thread : pc'[t] \in {"out", "adding"}
    BY Zenon DEF Undisturbed, InSwitch, Switch
  <2>2. saved' = saved /\ run' = pick[run]
    BY <1>r DEF Undisturbed, ContextsMatch, Switch
  <2>3. state'[run'] = "READY"
    BY <1>r, <2>2, Zenon DEF Undisturbed, InSwitch, IsRunnable, Switch
  <2>. QED  BY <1>r, <2>1, <2>3, Zenon DEF Undisturbed, InSwitch, IsRunnable
<1>. QED  BY <1>l, <1>1, <1>2, <1>3, <1>4, <1>5, <1>6, <1>7, <1>8, <1>9 DEF IInv

(* sched_add_thread lists a thread that was in no list.                    *)
LEMMA AddEnqueueStep ==
  ASSUME IInv, NEW new \in Thread, AddEnqueue(run, new)
  PROVE  IInv'
<1>. USE Types DEF IInv
<1>f. \A t \in Thread : pc[t] = "out"
  BY Zenon DEF Places, InSwitch, AddEnqueue
<1>l. /\ list' \in [Prio -> Seq(Thread)] /\ Distinct(list')
      /\ \A u \in Thread, p \in Prio :
           u \in Members(list'[p]) <=> u \in Members(list[p]) \/ (u = new /\ p = PrioOf[new])
  <2>1. PrioOf[new] \in Prio
    BY SchedAssumption, Zenon DEF Prio
  <2>2. list' = Appended(list, new, PrioOf[new]) /\ new \notin Added
    BY Zenon DEF Appended, AddEnqueue
  <2>. QED  BY <2>1, <2>2, AppendStep, Zenon DEF TypeOK
<1>m. /\ Added' = Added \union {new} /\ Moved' = Moved /\ Moved = {}
      /\ BeingAdded = {} /\ BeingAdded' = {new}
  <2>1. Added' = Added \union {new}
    <3>1. PrioOf[new] \in Prio
      BY SchedAssumption DEF Prio
    <3>2. \A u \in Thread : u \in Added' <=> u \in Added \/ u = new
      BY <1>l, <3>1, Zenon DEF Added, InList
    <3>. QED  BY <3>2, Zenon DEF Added
  <2>2. Moved = {} /\ Moved' = {}
    BY <1>f, Zenon DEF Moved, Moving, AddEnqueue
  <2>3. BeingAdded = {} /\ BeingAdded' = {new}
    BY <1>f, Zenon DEF BeingAdded, Adding, AddEnqueue
  <2>. QED  BY <2>1, <2>2, <2>3, Zenon
<1>k. Known' = Known \union {new} /\ Known \subseteq Thread
  BY <1>m, Zenon DEF Known, Added, Moved
<1>n. new \notin Known /\ prio[new] = 0
  BY <1>m, Zenon DEF Known, Unprioritised, AddEnqueue
<1>1. TypeOK'
  BY <1>l, Zenon DEF TypeOK, Points, Places, AddEnqueue
<1>2. Places'
  BY <1>n, <1>f DEF Places, InSwitch, AddEnqueue
<1>3. MovedOnce'
  BY <1>n, <1>f, Zenon DEF MovedOnce, Places, InSwitch, AddEnqueue
<1>4. Listed'
  BY <1>m, <1>k, <1>n, <1>f, Zenon DEF Listed, AddEnqueue
<1>5. Unprioritised'
  <2>1. state'[Idle] # "ZOMBIE" /\ state'[SysSrv] # "ZOMBIE"
    BY DEF Unprioritised, AddEnqueue
  <2>2. \A t \in Thread \ Known' : prio'[t] = 0
    BY <1>k, Zenon DEF Unprioritised, AddEnqueue
  <2>3. \A p \in Prio : new \in Members(list'[p]) => p = PrioOf[new]
    BY <1>l, Zenon DEF Added, InList, AddEnqueue
  <2>. QED  BY <1>m, <1>n, <2>1, <2>2, <2>3 DEF Unprioritised, InList, AddEnqueue
<1>6. Classed'
  BY <1>l, <1>m, <1>n, <1>f, Zenon DEF Classed, InList, AddEnqueue
<1>7. OnlyKnown'
  BY <1>m, <1>k, <1>n, <1>f, Zenon DEF OnlyKnown, AddEnqueue
<1>8. ContextsMatch'
  BY <1>n, <1>f, Zenon DEF ContextsMatch, Undisturbed, InSwitch, AddEnqueue
<1>9. Undisturbed'
  BY <1>m, <1>n, <1>f DEF Undisturbed, Places, InSwitch, IsRunnable, Listed, ContextsMatch, AddEnqueue
<1>. QED  BY <1>l, <1>1, <1>2, <1>3, <1>4, <1>5, <1>6, <1>7, <1>8, <1>9, Zenon DEF IInv

(* move_thread_to_back takes the thread out of its list ...                *)
LEMMA DequeueStep ==
  ASSUME IInv, Dequeue(run)
  PROVE  IInv'
<1>. USE Types DEF IInv
<1>p. pick[run] \in Thread
  BY Zenon DEF Places, Dequeue
<1>l. /\ list' \in [Prio -> Seq(Thread)] /\ Distinct(list')
      /\ \A u \in Thread, p \in Prio :
           u \in Members(list'[p]) <=> u # pick[run] /\ u \in Members(list[p])
  BY <1>p, DequeuedLists, Zenon DEF TypeOK, Dequeue
<1>m. /\ Added' = Added \ {pick[run]} /\ Moved' = Moved \union {pick[run]}
      /\ BeingAdded' = BeingAdded
  <2>1. Added' = Added \ {pick[run]}
    <3>1. \A u \in Thread : u \in Added' <=> u # pick[run] /\ u \in Added
      BY <1>l, Zenon DEF Added, InList
    <3>. QED  BY <3>1, Zenon DEF Added
  <2>2. Moved' = Moved \union {pick[run]}
    BY <1>p, Zenon DEF Moved, Moving, Dequeue
  <2>3. BeingAdded' = BeingAdded
    BY Zenon DEF BeingAdded, Adding, Dequeue
  <2>. QED  BY <2>1, <2>2, <2>3, Zenon
<1>k. Known' = Known /\ Known \subseteq Thread /\ pick[run] \in Known
  <2>1. pick[run] \in Known
    BY Zenon DEF OnlyKnown, Dequeue
  <2>. QED  BY <1>m, <2>1, Zenon DEF Known, Added, Moved
<1>1. TypeOK'
  BY <1>l, Zenon DEF TypeOK, Points, Places, Dequeue
<1>2. Places'
  BY <1>p DEF Places, InSwitch, Dequeue
<1>3. MovedOnce'
  BY <1>p, Zenon DEF MovedOnce, Places, InSwitch, Dequeue
<1>4. Listed'
  BY <1>m, <1>k, <1>p, Zenon DEF Listed, Dequeue
<1>5. Unprioritised'
  <2>1. \A t \in Thread \ Known' : prio'[t] = 0
    BY <1>k, Zenon DEF Unprioritised, Dequeue
  <2>2. BeingAdded \subseteq Thread
    BY Zenon DEF BeingAdded
  <2>3. \A t \in BeingAdded, p \in Prio : t \in Members(list'[p]) => p \in {PrioOf[t], 0}
    BY <1>l, <2>2, Zenon DEF Unprioritised, InList
  <2>. QED  BY <1>m, <2>1, <2>2, <2>3, Zenon DEF Unprioritised, InList, Dequeue
<1>6. Classed'
  BY <1>l, <1>m, <1>p, Zenon DEF Classed, InList, Dequeue
<1>7. OnlyKnown'
  BY <1>m, <1>k, <1>p, Zenon DEF OnlyKnown, Dequeue
<1>8. ContextsMatch'
  BY <1>p, Zenon DEF ContextsMatch, Undisturbed, InSwitch, Dequeue
<1>9. Undisturbed'
  BY <1>m, <1>p DEF Undisturbed, Places, InSwitch, IsRunnable, Listed, ContextsMatch, Dequeue
<1>. QED  BY <1>l, <1>1, <1>2, <1>3, <1>4, <1>5, <1>6, <1>7, <1>8, <1>9, Zenon DEF IInv

(* ... and puts it at the back of the list of its priority.                *)
LEMMA EnqueueStep ==
  ASSUME IInv, Enqueue(run)
  PROVE  IInv'
<1>. USE Types DEF IInv
<1>p. pick[run] \in Thread /\ pick[run] \in Moved /\ pick[run] \notin Added
  BY Zenon DEF Places, Listed, Moved, Moving, Enqueue, EnqueueTo
<1>l. /\ list' \in [Prio -> Seq(Thread)] /\ Distinct(list')
      /\ \A u \in Thread, p \in Prio :
           u \in Members(list'[p]) <=> u \in Members(list[p]) \/ (u = pick[run] /\ p = prio[pick[run]])
  <2>1. prio[pick[run]] \in Prio
    BY <1>p, Zenon
  <2>2. list' = Appended(list, pick[run], prio[pick[run]])
    BY Zenon DEF Appended, Enqueue, EnqueueTo
  <2>. QED  BY <1>p, <2>1, <2>2, AppendStep, Zenon DEF TypeOK
<1>m. /\ Added' = Added \union {pick[run]} /\ Moved' = Moved \ {pick[run]}
      /\ BeingAdded' = BeingAdded
  <2>1. Added' = Added \union {pick[run]}
    BY <1>p, <1>l DEF Added, InList
  <2>2. Moved' = Moved \ {pick[run]}
    BY <1>p DEF Moved, Moving, MovedOnce, Enqueue, EnqueueTo
  <2>3. BeingAdded' = BeingAdded
    BY DEF BeingAdded, Adding, Enqueue, EnqueueTo
  <2>. QED  BY <2>1, <2>2, <2>3, Zenon
<1>k. Known' = Known /\ Known \subseteq Thread /\ pick[run] \in Known
  BY <1>m, <1>p DEF Known, Added, Moved
<1>e. /\ state' = state /\ prio' = prio /\ cur' = cur /\ run' = run /\ saved' = saved
      /\ handler' = handler /\ raced' = raced /\ pc[run] = "enqueue"
  BY Zenon DEF Enqueue, EnqueueTo
<1>o. /\ pc' \in [Thread -> Points] /\ pick' \in [Thread -> Thread \union {None}]
      /\ self' \in [Thread -> Thread \union {None}]
      /\ \A t \in Thread \ {run} : pc'[t] = pc[t] /\ pick'[t] = pick[t] /\ self'[t] = self[t]
      /\ \/ pc'[run] = "out"
         \/ pc'[run] = "assign" /\ pick'[run] = pick[run] /\ self'[run] = cur
  <2>1. CASE pick[run] = cur
    BY <2>1, Zenon DEF Enqueue, EnqueueTo, Points
  <2>2. CASE pick[run] # cur
    <3>1. /\ pc' = [pc EXCEPT ![run] = "assign"] /\ self' = [self EXCEPT ![run] = cur]
          /\ pick' = pick
      BY <2>2, Zenon DEF Enqueue, EnqueueTo
    <3>2. pc' \in [Thread -> Points] /\ self' \in [Thread -> Thread \union {None}]
      BY <3>1, Zenon DEF Points
    <3>. QED  BY <3>1, <3>2
  <2>. QED  BY <2>1, <2>2, Zenon
<1>1. TypeOK'
  BY <1>e, <1>l, <1>o, Zenon DEF TypeOK
<1>2. Places'
  BY <1>e, <1>o DEF Places, InSwitch
<1>3. MovedOnce'
  BY <1>e, <1>o, Zenon DEF MovedOnce, Places, InSwitch
<1>4. Listed'
  BY <1>m, <1>k, <1>p, Zenon DEF Listed, Enqueue, EnqueueTo
<1>5. Unprioritised'
  <2>1. \A t \in Thread \ Known' : prio'[t] = 0
    BY <1>k, Zenon DEF Unprioritised, Enqueue, EnqueueTo
  <2>2. BeingAdded \subseteq Thread
    BY DEF BeingAdded
  <2>3. \A t \in BeingAdded, p \in Prio : t \in Members(list'[p]) => p \in {PrioOf[t], 0}
    BY <1>l, <2>2 DEF Unprioritised, InList
  <2>. QED  BY <1>m, <2>1, <2>2, <2>3, Zenon DEF Unprioritised, InList, Enqueue, EnqueueTo
<1>6. Classed'
  BY <1>l, <1>m, <1>p, Zenon DEF Classed, InList, Enqueue, EnqueueTo
<1>7. OnlyKnown'
  BY <1>k, <1>e, <1>o, Zenon DEF OnlyKnown
<1>8. ContextsMatch'
  BY <1>p, Zenon DEF ContextsMatch, Undisturbed, InSwitch, Enqueue, EnqueueTo
<1>9. Undisturbed'
  BY <1>m, <1>p DEF Undisturbed, Places, InSwitch, IsRunnable, Listed, ContextsMatch, Enqueue, EnqueueTo
<1>. QED  BY <1>l, <1>1, <1>2, <1>3, <1>4, <1>5, <1>6, <1>7, <1>8, <1>9, Zenon DEF IInv

(* The sched_switch of alarm_handler, all of it in one step.               *)
LEMMA AlarmStep ==
  ASSUME IInv, Alarm
  PROVE  IInv'
<1>. USE Types DEF IInv
<1>s. PICK next \in Thread : /\ Selected(next)
                             /\ list' = MovedToBack(next)
                             /\ AlarmKeep(next) \/ AlarmSwitch(next)
  BY Zenon DEF Alarm
<1>t. next \in Added /\ next \in Known /\ next \notin Moved /\ IsRunnable(next)
  BY <1>s, SelectedListed, Zenon DEF Known, Listed
<1>l. /\ list' \in [Prio -> Seq(Thread)] /\ Distinct(list')
      /\ \A u \in Thread, p \in Prio :
           u \in Members(list'[p]) <=> IF u = next THEN p = prio[next] ELSE u \in Members(list[p])
  BY <1>s, MovedLists, Zenon DEF TypeOK
<1>e. /\ state' = state /\ prio' = prio /\ pc' = pc /\ pick' = pick /\ self' = self
      /\ raced' = (raced \/ Racing) /\ handler = None /\ Interruptible(run)
  BY Zenon DEF Alarm
<1>m. Added' = Added /\ Moved' = Moved /\ BeingAdded' = BeingAdded
  <2>1. Added' = Added
    <3>1. \A u \in Thread : u \in Added' <=> u \in Added
      BY <1>l, <1>t, Zenon DEF Added, InList
    <3>. QED  BY <3>1, Zenon DEF Added
  <2>2. Moved' = Moved
    BY <1>e, Zenon DEF Moved, Moving
  <2>3. BeingAdded' = BeingAdded
    BY <1>e, Zenon DEF BeingAdded, Adding
  <2>. QED  BY <2>1, <2>2, <2>3, Zenon
<1>k. Known' = Known /\ Known \subseteq Thread
  BY <1>m, Zenon DEF Known, Added, Moved
<1>o. /\ saved' \in [Thread -> Thread] /\ run' \in Thread /\ cur' \in Thread
      /\ \/ UNCHANGED <<cur, run, saved, handler>> /\ next = cur
         \/ handler' = run /\ cur' = next
  <2>1. CASE AlarmKeep(next)
    BY <2>1, Zenon DEF AlarmKeep
  <2>2. CASE AlarmSwitch(next)
    BY <2>2, Zenon DEF AlarmSwitch
  <2>. QED  BY <1>s, <2>1, <2>2, Zenon
<1>n. /\ \A t \in Thread : InSwitch(t) => t = run
      /\ InSwitch(run) => run = Idle
  BY <1>e, SchedAssumption, Zenon DEF Places, Interruptible, InSwitch
<1>1. TypeOK'
  <2>1. handler' \in Thread \union {None}
    BY <1>e, <1>o, Zenon
  <2>2. raced' \in BOOLEAN
    BY <1>e, Zenon
  <2>. QED  BY <1>e, <1>l, <1>o, <2>1, <2>2, Zenon DEF TypeOK
<1>2. Places'
  BY <1>e, <1>n, <1>o, Zenon DEF Places, InSwitch
<1>3. MovedOnce'
  BY <1>e, <1>n, <1>o, Zenon DEF MovedOnce, InSwitch
<1>4. Listed'
  BY <1>e, <1>m, <1>k, Zenon DEF Listed
<1>5. Unprioritised'
  <2>1. BeingAdded \subseteq Thread
    BY Zenon DEF BeingAdded
  <2>2. \A t \in BeingAdded, p \in Prio : t \in Members(list'[p]) => p \in {PrioOf[t], 0}
    BY <1>l, <2>1 DEF Unprioritised, InList
  <2>. QED  BY <1>e, <1>m, <1>k, <2>2, Zenon DEF Unprioritised, InList
<1>6. Classed'
  BY <1>e, <1>l, <1>m, Zenon DEF Classed, InList
<1>7. OnlyKnown'
  <2>1. CASE AlarmKeep(next)
    BY <1>e, <1>k, <2>1, Zenon DEF OnlyKnown, AlarmKeep
  <2>2. CASE AlarmSwitch(next)
    <3>1. saved' = [saved EXCEPT ![cur] = run] /\ run' = saved'[next] /\ cur' = next
      BY <2>2, Zenon DEF AlarmSwitch
    <3>2. \A t \in Known : saved'[t] \in Known
      BY <1>k, <3>1, Zenon DEF OnlyKnown
    <3>3. \A t \in Thread \ Known : saved'[t] = t
      BY <1>k, <3>1, Zenon DEF OnlyKnown
    <3>. QED  BY <1>e, <1>k, <1>t, <3>1, <3>2, <3>3 DEF OnlyKnown
  <2>. QED  BY <1>s, <2>1, <2>2, Zenon
<1>8. ContextsMatch' /\ Undisturbed'
  <2>. SUFFICES ASSUME ~raced, ~Racing PROVE ContextsMatch' /\ Undisturbed'
    BY <1>e, Zenon DEF ContextsMatch, Undisturbed
  <2>1. \A t \in Thread : pc[t] \in {"out", "adding"}
    BY <1>e, <1>n, Zenon DEF Racing, InSwitch, Interruptible
  <2>2. (\A t \in Thread : saved[t] = t) /\ cur = run /\ IsRunnable(run)
    BY <2>1, Zenon DEF ContextsMatch, Undisturbed
  <2>3. (\A t \in Thread : saved'[t] = t) /\ cur' = run' /\ run' = next
    <3>1. CASE AlarmKeep(next)
      BY <2>2, <3>1, Zenon DEF AlarmKeep
    <3>2. CASE AlarmSwitch(next)
      BY <2>2, <3>2, Zenon DEF AlarmSwitch
    <3>. QED  BY <1>s, <3>1, <3>2, Zenon
  <2>4. ContextsMatch'
    BY <2>3, Zenon DEF ContextsMatch
  <2>5. Undisturbed'
    BY <1>e, <1>o, <1>t, <2>1, <2>3, Zenon DEF Undisturbed, InSwitch, IsRunnable
  <2>. QED  BY <2>4, <2>5, Zenon
<1>. QED  BY <1>l, <1>1, <1>2, <1>3, <1>4, <1>5, <1>6, <1>7, <1>8, Zenon DEF IInv

(* The lists when interrupts are enabled first: the idle thread's class    *)
(* holds it, and that of the system service that one.                      *)
LEMMA FirstLists ==
  ASSUME Init
  PROVE  /\ list \in [Prio -> Seq(Thread)] /\ Distinct(list)
         /\ \A u \in Thread, p \in Prio :
              u \in Members(list[p]) <=> (u = Idle /\ p = 0) \/ (u = SysSrv /\ p = PrioOf[SysSrv])
<1>1. Idle \in Thread /\ SysSrv \in Thread /\ SysSrv # Idle /\ PrioOf[SysSrv] \in Prio /\ 0 \in Prio
  BY SchedAssumption, Zenon DEF Prio
<1>. DEFINE f == FirstList
            c == PrioOf[SysSrv]
<1>2. /\ f \in [Prio -> Seq(Thread)] /\ f[0] = <<Idle>>
      /\ \A p \in Prio : p # 0 => f[p] = <<>>
  BY <1>1 DEF FirstList
<1>3. \A u \in Thread, p \in Prio : u \in Members(f[p]) <=> u = Idle /\ p = 0
  <2>1. Members(<<Idle>>) = {Idle} /\ Members(<<>>) = {}
    BY DEF Members
  <2>. HIDE DEF f
  <2>. QED  BY <1>1, <1>2, <2>1, Zenon
<1>4. Distinct(f)
  <2>1. DOMAIN f[0] = {1} /\ \A p \in Prio : p # 0 => DOMAIN f[p] = {}
    BY <1>1, <1>2
  <2>. HIDE DEF f
  <2>. QED  BY <2>1 DEF Distinct
<1>5. list = Appended(f, SysSrv, c)
  BY Zenon DEF Init, Appended
<1>. HIDE DEF f, c
<1>6. \A p \in Prio : SysSrv \notin Members(f[p])
  BY <1>1, <1>3, Zenon
<1>7. /\ Appended(f, SysSrv, c) \in [Prio -> Seq(Thread)]
      /\ Distinct(Appended(f, SysSrv, c))
      /\ \A u \in Thread, p \in Prio :
           u \in Members(Appended(f, SysSrv, c)[p]) <=> u \in Members(f[p]) \/ (u = SysSrv /\ p = c)
  <2>1. c \in Prio
    BY <1>1, Zenon DEF c
  <2>. QED  BY <1>1, <1>2, <1>4, <1>6, <2>1, AppendedLists, Zenon
<1>. QED  BY <1>3, <1>5, <1>7, Zenon DEF c

(* The invariant holds when interrupts are enabled.                        *)
LEMMA InitIInv == Init => IInv
<1>. SUFFICES ASSUME Init PROVE IInv
  BY Zenon
<1>a. /\ Idle \in Thread /\ SysSrv \in Thread /\ SysSrv # Idle /\ PrioOf \in [Thread -> Prio]
      /\ PrioOf[Idle] = 0 /\ 0 \in Prio
  BY SchedAssumption, Zenon DEF Prio
<1>1. TypeOK
  BY <1>a, FirstLists, Zenon DEF TypeOK, Points, Init
<1>2. Places /\ MovedOnce /\ ContextsMatch
  BY <1>a, Zenon DEF Places, MovedOnce, ContextsMatch, InSwitch, Init
<1>3. Moved = {} /\ BeingAdded = {} /\ Added = {Idle, SysSrv}
  <2>1. Moved = {} /\ BeingAdded = {}
    BY Zenon DEF Moved, Moving, BeingAdded, Adding, Init
  <2>2. \A u \in Thread : u \in Added <=> u \in {Idle, SysSrv}
    BY <1>a, FirstLists, Zenon DEF Added, InList
  <2>. QED  BY <1>a, <2>1, <2>2, Zenon DEF Added
<1>4. Listed /\ OnlyKnown /\ Unprioritised
  <2>1. Known = {Idle, SysSrv}
    BY <1>3, Zenon DEF Known
  <2>. QED  BY <1>a, <1>3, <2>1, Zenon DEF Listed, OnlyKnown, Unprioritised, Init
<1>5. Classed
  BY <1>a, FirstLists, Zenon DEF Classed, InList, Init
<1>6. Undisturbed
  BY <1>a, Zenon DEF Undisturbed, InSwitch, IsRunnable, Init
<1>. QED  BY <1>1, <1>2, <1>4, <1>5, <1>6, FirstLists, Zenon DEF IInv

(* Every step preserves it.                                                *)
LEMMA StepIInv == IInv /\ [Next]_vars => IInv'
<1>. SUFFICES ASSUME IInv, [Next]_vars PROVE IInv'
  BY Zenon
<1>1. CASE Add(run) \/ Block(run)
  BY <1>1, AddPrioStep, AddEnqueueStep, BlockStep, Zenon DEF Add
<1>2. CASE Affect(run)
  BY <1>2, AffectStep, Zenon DEF Affect
<1>3. CASE SchedSwitch(run)
  BY <1>3, SelectStep, DequeueStep, EnqueueStep, AssignStep, SwitchStep, Zenon DEF SchedSwitch
<1>4. CASE Alarm
  BY <1>4, AlarmStep, Zenon
<1>5. CASE UNCHANGED vars
  <2>. USE <1>5 DEF IInv, vars
  <2>1. TypeOK' /\ Distinct(list)'
    BY DEF TypeOK, Distinct
  <2>2. Places' /\ MovedOnce' /\ ContextsMatch'
    BY Zenon DEF Places, InSwitch, MovedOnce, ContextsMatch
  <2>3. Added' = Added /\ Moved' = Moved /\ BeingAdded' = BeingAdded
    BY Zenon DEF Added, InList, Moved, Moving, BeingAdded, Adding
  <2>4. Listed' /\ OnlyKnown' /\ Unprioritised' /\ Classed'
    BY <2>3, Zenon DEF Listed, OnlyKnown, Unprioritised, Classed, Known, InList
  <2>5. Undisturbed'
    BY <2>3, Zenon DEF Undisturbed, InSwitch, IsRunnable
  <2>. QED  BY <2>1, <2>2, <2>4, <2>5, Zenon
<1>. QED  BY <1>1, <1>2, <1>3, <1>4, <1>5, Zenon DEF Next

(* So the invariant holds throughout.                                      *)
LEMMA Invariance == Spec => []IInv
  BY InitIInv, StepIInv, PTL DEF Spec

(* What the invariant says of the lists, the classes and the search.       *)
LEMMA IInvImplies == IInv => ListsExact /\ PrioRespected /\ SelectFinds
<1>. SUFFICES ASSUME IInv PROVE ListsExact /\ PrioRespected /\ SelectFinds
  BY Zenon
<1>1. ListsExact
  <2>1. \A t \in Thread : Moving(t) => t \notin Added
    BY Zenon DEF IInv, Listed, Moved
  <2>2. \A t \in Thread : state[t] # "ZOMBIE" /\ ~Moving(t) => t \in Added
    BY Zenon DEF IInv, Listed, Known, Moved
  <2>3. Distinct(list)
    BY Zenon DEF IInv
  <2>. QED  BY <2>1, <2>2, <2>3, Zenon DEF ListsExact, Distinct
<1>2. PrioRespected
  BY Zenon DEF IInv, Classed, BeingAdded, PrioRespected
<1>3. SelectFinds
  <2>. SUFFICES ASSUME ~raced, pc[run] = "select" \/ (Interruptible(run) /\ ~Racing)
                PROVE  Selectable # {}
    BY Zenon DEF SelectFinds
  <2>1. PICK t \in Added : IsRunnable(t)
    <3>1. CASE pc[run] = "select"
      BY <3>1, Zenon DEF IInv, Undisturbed
    <3>2. CASE Interruptible(run) /\ ~Racing
      <4>1. pc[run] \in {"out", "adding"}
        BY <3>2, Zenon DEF Interruptible, Racing
      <4>2. IsRunnable(run) /\ run \in Known
        BY <4>1, Zenon DEF IInv, Undisturbed, OnlyKnown
      <4>3. run \notin Moved
        BY <4>1, Zenon DEF IInv, Undisturbed, InSwitch, Moved, Moving
      <4>. QED  BY <4>2, <4>3, Zenon DEF Known
    <3>. QED  BY <3>1, <3>2, Zenon
  <2>2. PICK p \in Prio : t \in Members(list[p])
    BY Zenon DEF Added, InList
  <2>. QED  BY <2>1, <2>2, Zenon DEF Added, Selectable, Runnable
<1>. QED  BY <1>1, <1>2, <1>3, Zenon

(* The timer's sched_switch on top of that of the idle thread loses no     *)
(* thread and lists none twice.                                            *)
THEOREM ListsStayExact == Spec => []ListsExact
  BY Invariance, IInvImplies, PTL

(* A thread is in the class of its priority, or in that of the idle thread *)
(* if the timer came between the statements of sched_add_thread.           *)
THEOREM ClassesRespected == Spec => []PrioRespected
  BY Invariance, IInvImplies, PTL

(* sched_select_thread finds a thread, unless the timer has interrupted    *)
(* the sched_switch of the idle thread.                                    *)
THEOREM SearchFinds == Spec => []SelectFinds
  BY Invariance, IInvImplies, PTL

(* With the same exception, every TCB keeps the context of its thread.     *)
THEOREM ContextsKept == Spec => []ContextsMatch
<1>1. IInv => ContextsMatch
  BY Zenon DEF IInv
<1>. QED  BY <1>1, Invariance, PTL
=============================================================================
