-------------------------------- MODULE Lists --------------------------------
(* The circular lists of list.c as their users see them: the sequence of   *)
(* the items from list_begin to list_end.                                  *)
EXTENDS Naturals, Sequences

Members(q) == {q[i] : i \in DOMAIN q}

(* list_dequeue takes an item out of the list it is in.  An item that is   *)
(* in no list has no neighbours, and nothing changes.                      *)
Without(q, x) ==
  LET i == CHOOSE j \in DOMAIN q : q[j] = x
  IN  IF \E j \in DOMAIN q : q[j] = x
      THEN [j \in 1..(Len(q) - 1) |-> IF j < i THEN q[j] ELSE q[j + 1]]
      ELSE q

(* A walk from list_begin with list_next stops at x, the first item of a   *)
(* kind S.                                                                 *)
IsFirst(x, q, S) ==
  \E i \in DOMAIN q : q[i] = x /\ x \in S /\ \A j \in 1..(i - 1) : q[j] \notin S
=============================================================================
