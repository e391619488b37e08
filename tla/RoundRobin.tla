----------------------------- MODULE RoundRobin -----------------------------
(***************************************************************************)
(* What a round-robin class promises, whatever else the scheduler does: a  *)
(* queue that is joined at the tail and served from the head.              *)
(***************************************************************************)
EXTENDS LinkedList

CONSTANT Clients

VARIABLES
  queue,      \* the clients that want the processor, in order
  running     \* {p} when client p has it, {} when no client has

vars == << queue, running >>

Init == queue = << >> /\ running = {}

\* A client joins the queue; it may have the processor already, on other terms.
Join(p) ==
  /\ ~Linked(p, queue)
  /\ queue' = list_add_tail(p, queue)
  /\ running' = running \/ (running = {} /\ running' = {p})

\* A client gives up its place.
Leave(p) ==
  /\ Linked(p, queue)
  /\ queue' = list_del_init(p, queue)
  /\ running' = running \ {p}

\* A client loses its turn, or its slice is over.
GoToTail(p) ==
  /\ Linked(p, queue)
  /\ queue' = list_move_tail(p, queue)
  /\ UNCHANGED running

\* The processor is given to the head of the queue, or to no client; the
\* client that had it may leave, or go to the tail, as it stops.
Dispatch ==
  /\ \/ queue' = queue
     \/ \E p \in running : queue' \in {list_del_init(p, queue), list_move_tail(p, queue)}
  /\ running' = {} \/ (queue' # << >> /\ running' = {queue'[1]})

Next ==
  \/ Dispatch
  \/ \E p \in Clients : Join(p) \/ Leave(p) \/ GoToTail(p)

Spec == Init /\ [][Next]_vars
=============================================================================
