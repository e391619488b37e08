------------------------- MODULE CountingSemaphore -------------------------
(***************************************************************************)
(* What a completion promises: tokens that are posted and taken, one at a  *)
(* time, and waiters that go without one only while there is none.         *)
(***************************************************************************)
EXTENDS Integers

CONSTANT Clients

VARIABLES
  value,      \* the tokens there are
  waiting     \* the clients that wait for one

vars == << value, waiting >>

Init == value = 0 /\ waiting = {}

Post == value' \in Nat /\ value' > value /\ UNCHANGED waiting

StartWaiting(c) ==
  /\ value = 0
  /\ c \notin waiting
  /\ waiting' = waiting \cup {c}
  /\ UNCHANGED value

\* By somebody who need not have waited.
Take ==
  /\ value > 0
  /\ value' = value - 1
  /\ \/ UNCHANGED waiting
     \/ \E c \in waiting : waiting' = waiting \ {c}

GiveUp(c) ==
  /\ value = 0
  /\ c \in waiting
  /\ waiting' = waiting \ {c}
  /\ UNCHANGED value

Next == Post \/ Take \/ \E c \in Clients : StartWaiting(c) \/ GiveUp(c)

Spec == Init /\ [][Next]_vars
=============================================================================
