----------------------------- MODULE LinkedList -----------------------------
(***************************************************************************)
(* The circular lists of linux/list.h (not in this tree), as the run       *)
(* queues of rt.c and wrr.c use them: a list is the sequence of its        *)
(* entries, an entry is linked when it is on the list.                     *)
(***************************************************************************)
EXTENDS Integers, Sequences, Functions

Linked(e, s) == e \in Range(s)

list_add(e, s) == <<e>> \o s

list_add_tail(e, s) == Append(s, e)

list_del_init(e, s) ==
  LET i == CHOOSE j \in 1 .. Len(s) : s[j] = e
  IN  [j \in 1 .. (Len(s) - 1) |-> IF j < i THEN s[j] ELSE s[j+1]]

list_move_tail(e, s) == list_add_tail(e, list_del_init(e, s))

Insert(e, s, head) == IF head THEN list_add(e, s) ELSE list_add_tail(e, s)

NoDuplicates(s) == \A i, j \in 1 .. Len(s) : s[i] = s[j] => i = j

\* p comes before q.
Ahead(p, q, s) == \E i, j \in 1 .. Len(s) : i < j /\ s[i] = p /\ s[j] = q
=============================================================================
