---------------------------- MODULE SchedProofs ----------------------------
(***************************************************************************)
(* The safety properties of SchedProps, for every set of tasks and every   *)
(* value of the other constants.  The inductive invariant IInv is the      *)
(* conjunction of what holds of each task on its own (TaskOK), of the run  *)
(* queue (RqOK) and of the few relations between tasks that outlive a step *)
(* (the rest of StateOK).  It is stated of a task function T, a run queue  *)
(* q and a current task c, so that the lemmas are about plain values; the  *)
(* steps of the theorems instantiate them with the variables, unprimed     *)
(* and primed.  The operations on run queues come first; the action        *)
(* property on missed preemptions and the refinement of RoundRobin, which  *)
(* rest on IInv, last.                                                     *)
(***************************************************************************)
EXTENDS SchedProps, DataProofs

-----------------------------------------------------------------------------
(* The run queue: what enqueueing, dequeueing and requeueing preserve, and *)
(* what pick_next_task finds.                                              *)

\* Two descriptions of a task put it at the same place of a run queue.
SamePlace(t, u) ==
  /\ t.on_rq <=> u.on_rq
  /\ t.on_rq => t.class = u.class /\ (t.class = "rt" => t.prio = u.prio)

\* T and U differ at most in p.
SameButFor(p, T, U) == \A x \in Tasks \ {p} : SamePlace(T[x], U[x])

\* The run queue does not see a change that leaves every task at its place.
LEMMA SamePlaces ==
  ASSUME NEW q, NEW T, NEW U, RqOK(q, T), \A x \in Tasks : SamePlace(T[x], U[x])
  PROVE  RqOK(q, U)
<1>1. \A c : Members(U, c) = Members(T, c)
  BY DEF Members, SamePlace
<1>2. \A i : {x \in Members(U, "rt") : U[x].prio = i} = {x \in Members(T, "rt") : T[x].prio = i}
  BY DEF Members, SamePlace
<1>3. \A x \in Members(U, "rt") : U[x].prio = T[x].prio
  BY DEF Members, SamePlace
<1>4. RtArrayOK(q, U)
  BY <1>1, <1>2, <1>3 DEF RqOK, RtArrayOK
<1> QED  BY <1>1, <1>4 DEF RqOK, WrrListOK, CfsOK

\* A task that was not queued becomes one more member of its class.
LEMMA MembersAdd ==
  ASSUME NEW T, NEW U, NEW p \in Tasks, ~T[p].on_rq, U[p].on_rq, SameButFor(p, T, U)
  PROVE  /\ \A c : Members(U, c) = IF c = U[p].class THEN Members(T, c) \cup {p}
                                                     ELSE Members(T, c)
         /\ \A c : p \notin Members(T, c)
         /\ \A i : {x \in Members(U, "rt") : U[x].prio = i} =
                     IF U[p].class = "rt" /\ i = U[p].prio
                       THEN {x \in Members(T, "rt") : T[x].prio = i} \cup {p}
                       ELSE {x \in Members(T, "rt") : T[x].prio = i}
BY DEF Members, SameButFor, SamePlace

\* A task that leaves is one member less of its class.
LEMMA MembersRemove ==
  ASSUME NEW T, NEW U, NEW p \in Tasks, T[p].on_rq, ~U[p].on_rq, SameButFor(p, T, U)
  PROVE  /\ \A c : Members(U, c) = Members(T, c) \ {p}
         /\ \A c : c # T[p].class => Members(U, c) = Members(T, c)
         /\ \A c : p \in Members(T, c) <=> c = T[p].class
         /\ \A i : {x \in Members(U, "rt") : U[x].prio = i} =
                     {x \in Members(T, "rt") : T[x].prio = i} \ {p}
BY DEF Members, SameButFor, SamePlace

\* The members of a class are finitely many.
LEMMA MembersFinite ==
  ASSUME NEW T, NEW c
  PROVE  /\ IsFiniteSet(Members(T, c))
         /\ Cardinality(Members(T, c)) \in Nat
BY TasksFinite, FS_Subset, FS_CardinalityType DEF Members

-----------------------------------------------------------------------------
(* Enqueueing, class by class. *)

\* A task that is to be queued as u says has a priority of the RT array if
\* its class is RT.
Placeable(u) == u.class \in {"rt", "wrr", "fair"} /\ (u.class = "rt" => u.prio \in RtPrios)

\* enqueue_task_rt.
LEMMA EnqueueRt ==
  ASSUME NEW q \in RqType, NEW T, NEW U, NEW p \in Tasks, NEW head \in BOOLEAN,
         RqOK(q, T), ~T[p].on_rq, U[p].on_rq, SameButFor(p, T, U),
         U[p].class = "rt", U[p].prio \in RtPrios
  PROVE  /\ enqueue_task_rt(q, p, U[p], head) \in RqType
         /\ RqOK(enqueue_task_rt(q, p, U[p], head), U)
<1> DEFINE k == U[p].prio
           r == enqueue_task_rt(q, p, U[p], head)
           s == q.queue[k]
           new == Insert(p, s, head)
<1>1. \A i \in RtPrios : ~Linked(p, q.queue[i])
  BY MembersAdd DEF RqOK, RtArrayOK, Linked
<1>2. dequeue_rt_stack(q, p, U[p]) = q
  BY <1>1 DEF dequeue_rt_stack, on_rt_rq
<1>3. r = [q EXCEPT !.queue[k] = new, !.bitmap = @ \cup {k}, !.rt_nr = @ + 1, !.nr = @ + 1]
  BY <1>2 DEF enqueue_task_rt, __enqueue_rt_entity, inc_nr_running, RqType
<1>4. s \in Seq(Tasks) /\ NoDuplicates(s) /\ p \notin Range(s)
  BY <1>1 DEF RqType, RqOK, RtArrayOK, Linked
<1>5. /\ new \in Seq(Tasks) /\ NoDuplicates(new)
      /\ Len(new) = Len(s) + 1 /\ Range(new) = Range(s) \cup {p}
  BY <1>4, ListInsert
<1>6. new # << >>
  BY <1>4, <1>5
<1> HIDE DEF new
<1>7. r \in RqType
  <2>1. r = [ queue |-> [q.queue EXCEPT ![k] = new], bitmap |-> q.bitmap \cup {k},
              rt_nr |-> q.rt_nr + 1, wrr_queue |-> q.wrr_queue, wrr_nr |-> q.wrr_nr,
              cfs |-> q.cfs, nr |-> q.nr + 1 ]
    BY <1>3 DEF RqType
  <2>2. [q.queue EXCEPT ![k] = new] \in [RtPrios -> Seq(Tasks)]
    BY <1>5 DEF RqType
  <2> QED  BY <2>1, <2>2 DEF RqType
<1>8. /\ r.queue = [q.queue EXCEPT ![k] = new] /\ r.bitmap = q.bitmap \cup {k}
      /\ r.rt_nr = q.rt_nr + 1 /\ r.nr = q.nr + 1
      /\ r.wrr_queue = q.wrr_queue /\ r.wrr_nr = q.wrr_nr /\ r.cfs = q.cfs
  BY <1>3 DEF RqType
<1> HIDE DEF r
<1>9. RtArrayOK(r, U)
  <2>1. ASSUME NEW i \in RtPrios
        PROVE  /\ NoDuplicates(r.queue[i])
               /\ Range(r.queue[i]) = {x \in Members(U, "rt") : U[x].prio = i}
               /\ i \in r.bitmap <=> r.queue[i] # << >>
    <3>1. CASE i = k
      <4>1. r.queue[i] = new
        BY <1>8, <3>1 DEF RqType
      <4>2. Range(s) = {x \in Members(T, "rt") : T[x].prio = k}
        BY DEF RqOK, RtArrayOK
      <4>3. {x \in Members(U, "rt") : U[x].prio = k} = Range(s) \cup {p}
        BY <4>2, MembersAdd
      <4> QED  BY <1>5, <1>6, <1>8, <3>1, <4>1, <4>3
    <3>2. CASE i # k
      <4>1. r.queue[i] = q.queue[i]
        BY <1>8, <3>2 DEF RqType
      <4>2. {x \in Members(U, "rt") : U[x].prio = i} = {x \in Members(T, "rt") : T[x].prio = i}
        BY <3>2, MembersAdd
      <4> QED  BY <1>8, <3>2, <4>1, <4>2 DEF RqOK, RtArrayOK
    <3> QED  BY <3>1, <3>2
  <2>2. Members(U, "rt") = Members(T, "rt") \cup {p} /\ p \notin Members(T, "rt")
    BY MembersAdd
  <2>3. \A x \in Members(U, "rt") : U[x].prio \in RtPrios
    BY <2>2 DEF RqOK, RtArrayOK, SameButFor, SamePlace, Members
  <2>4. Cardinality(Members(U, "rt")) = Cardinality(Members(T, "rt")) + 1
    BY <2>2, MembersFinite, FS_AddElement
  <2> QED  BY <1>8, <2>1, <2>3, <2>4 DEF RqOK, RtArrayOK
<1>10. Members(U, "wrr") = Members(T, "wrr") /\ Members(U, "fair") = Members(T, "fair")
  BY MembersAdd
<1>11. Cardinality(q.cfs) \in Nat
  BY MembersFinite DEF RqOK, CfsOK
<1>12. CountOK(r)
  BY <1>8, <1>11 DEF RqOK, CountOK, RqType
<1> QED  BY <1>7, <1>8, <1>9, <1>10, <1>12 DEF r, RqOK, WrrListOK, CfsOK

\* enqueue_task_wrr.
LEMMA EnqueueWrr ==
  ASSUME NEW q \in RqType, NEW T, NEW U, NEW p \in Tasks, NEW head \in BOOLEAN,
         RqOK(q, T), ~T[p].on_rq, U[p].on_rq, SameButFor(p, T, U), U[p].class = "wrr"
  PROVE  /\ enqueue_task_wrr(q, p, head) \in RqType
         /\ RqOK(enqueue_task_wrr(q, p, head), U)
<1> DEFINE r == enqueue_task_wrr(q, p, head)
           s == q.wrr_queue
           new == Insert(p, s, head)
<1>1. ~Linked(p, s)
  BY MembersAdd DEF RqOK, WrrListOK, Linked
<1>2. r = [q EXCEPT !.wrr_queue = new, !.wrr_nr = @ + 1, !.nr = @ + 1]
  BY <1>1 DEF enqueue_task_wrr, __enqueue_wrr_entity, dequeue_wrr_stack, on_wrr_rq,
              inc_nr_running, RqType
<1>3. s \in Seq(Tasks) /\ NoDuplicates(s) /\ p \notin Range(s)
  BY <1>1 DEF RqType, RqOK, WrrListOK, Linked
<1>4. /\ new \in Seq(Tasks) /\ NoDuplicates(new)
      /\ Len(new) = Len(s) + 1 /\ Range(new) = Range(s) \cup {p}
  BY <1>3, ListInsert
<1> HIDE DEF new
<1>5. r = [ queue |-> q.queue, bitmap |-> q.bitmap, rt_nr |-> q.rt_nr, wrr_queue |-> new,
            wrr_nr |-> q.wrr_nr + 1, cfs |-> q.cfs, nr |-> q.nr + 1 ]
  BY <1>2 DEF RqType
<1> HIDE DEF r
<1>6. r \in RqType
  BY <1>4, <1>5 DEF RqType
<1>7. Members(U, "wrr") = Members(T, "wrr") \cup {p}
      /\ Members(U, "rt") = Members(T, "rt") /\ Members(U, "fair") = Members(T, "fair")
  BY MembersAdd
<1>8. WrrListOK(r, U)
  BY <1>4, <1>5, <1>7 DEF RqOK, WrrListOK
<1>9. \A x \in Members(U, "rt") : U[x].prio = T[x].prio
  BY <1>7 DEF SameButFor, SamePlace, Members
<1>10. RtArrayOK(r, U)
  <2>1. \A i : {x \in Members(U, "rt") : U[x].prio = i} = {x \in Members(T, "rt") : T[x].prio = i}
    BY <1>7, <1>9
  <2>2. \A x \in Members(U, "rt") : U[x].prio \in RtPrios
    BY <1>7, <1>9 DEF RqOK, RtArrayOK
  <2> QED  BY <1>5, <1>7, <2>1, <2>2 DEF RqOK, RtArrayOK
<1>11. Cardinality(q.cfs) \in Nat
  BY MembersFinite DEF RqOK, CfsOK
<1>12. CountOK(r)
  BY <1>5, <1>11 DEF RqOK, CountOK, RqType
<1> QED  BY <1>5, <1>6, <1>7, <1>8, <1>10, <1>12 DEF r, RqOK, CfsOK

\* A run queue whose CFS tasks are c, field by field.
LEMMA SetCfs ==
  ASSUME NEW q \in RqType, NEW c
  PROVE  [q EXCEPT !.cfs = c] =
           [ queue |-> q.queue, bitmap |-> q.bitmap, rt_nr |-> q.rt_nr,
             wrr_queue |-> q.wrr_queue, wrr_nr |-> q.wrr_nr, cfs |-> c, nr |-> q.nr ]
BY DEF RqType

\* enqueue_task_fair, as core.c sees it.
LEMMA EnqueueFair ==
  ASSUME NEW q \in RqType, NEW T, NEW U, NEW p \in Tasks,
         RqOK(q, T), ~T[p].on_rq, U[p].on_rq, SameButFor(p, T, U), U[p].class = "fair"
  PROVE  /\ enqueue_task_fair(q, p) \in RqType
         /\ RqOK(enqueue_task_fair(q, p), U)
<1> DEFINE r == enqueue_task_fair(q, p)
<1>1. r = [ queue |-> q.queue, bitmap |-> q.bitmap, rt_nr |-> q.rt_nr,
            wrr_queue |-> q.wrr_queue, wrr_nr |-> q.wrr_nr,
            cfs |-> q.cfs \cup {p}, nr |-> q.nr + 1 ]
  <2> DEFINE c == q.cfs \cup {p}
             v == [q EXCEPT !.cfs = c]
  <2>1. r = [v EXCEPT !.nr = @ + 1]
    BY DEF enqueue_task_fair, inc_nr_running
  <2> HIDE DEF c
  <2>2. v = [ queue |-> q.queue, bitmap |-> q.bitmap, rt_nr |-> q.rt_nr,
              wrr_queue |-> q.wrr_queue, wrr_nr |-> q.wrr_nr, cfs |-> c, nr |-> q.nr ]
    BY SetCfs
  <2> HIDE DEF r, v
  <2>3. r = [ queue |-> q.queue, bitmap |-> q.bitmap, rt_nr |-> q.rt_nr,
              wrr_queue |-> q.wrr_queue, wrr_nr |-> q.wrr_nr, cfs |-> c, nr |-> q.nr + 1 ]
    BY <2>1, <2>2
  <2> QED  BY <2>3 DEF c
<1> HIDE DEF r
<1>2. r \in RqType
  BY <1>1 DEF RqType
<1>3. Members(U, "fair") = Members(T, "fair") \cup {p} /\ p \notin Members(T, "fair")
      /\ Members(U, "rt") = Members(T, "rt") /\ Members(U, "wrr") = Members(T, "wrr")
  BY MembersAdd
<1>4. CfsOK(r, U)
  BY <1>1, <1>3 DEF RqOK, CfsOK
<1>5. \A x \in Members(U, "rt") : U[x].prio = T[x].prio
  BY <1>3 DEF SameButFor, SamePlace, Members
<1>6. RtArrayOK(r, U)
  <2>1. \A i : {x \in Members(U, "rt") : U[x].prio = i} = {x \in Members(T, "rt") : T[x].prio = i}
    BY <1>3, <1>5
  <2>2. \A x \in Members(U, "rt") : U[x].prio \in RtPrios
    BY <1>3, <1>5 DEF RqOK, RtArrayOK
  <2> QED  BY <1>1, <1>3, <2>1, <2>2 DEF RqOK, RtArrayOK
<1>7. /\ Cardinality(q.cfs \cup {p}) = Cardinality(q.cfs) + 1
      /\ Cardinality(q.cfs) \in Nat
  <2>1. q.cfs = Members(T, "fair")
    BY DEF RqOK, CfsOK
  <2>2. p \notin q.cfs /\ IsFiniteSet(q.cfs) /\ Cardinality(q.cfs) \in Nat
    BY <1>3, <2>1, MembersFinite
  <2> QED  BY <2>2, FS_AddElement
<1>8. CountOK(r)
  BY <1>1, <1>7 DEF RqOK, CountOK, RqType
<1> QED  BY <1>1, <1>2, <1>3, <1>4, <1>6, <1>8 DEF r, RqOK, WrrListOK

\* enqueue_task puts a task at the place its descriptor asks for.
LEMMA EnqueueTask ==
  ASSUME NEW q \in RqType, NEW T, NEW U, NEW p \in Tasks, NEW head \in BOOLEAN,
         RqOK(q, T), ~T[p].on_rq, U[p].on_rq, SameButFor(p, T, U), Placeable(U[p])
  PROVE  /\ enqueue_task(q, p, U[p], head) \in RqType
         /\ RqOK(enqueue_task(q, p, U[p], head), U)
<1>1. CASE U[p].class = "rt"
  <2>1. enqueue_task(q, p, U[p], head) = enqueue_task_rt(q, p, U[p], head)
    BY <1>1 DEF enqueue_task
  <2> QED  BY <1>1, <2>1, EnqueueRt DEF Placeable
<1>2. CASE U[p].class = "wrr"
  <2>1. enqueue_task(q, p, U[p], head) = enqueue_task_wrr(q, p, head)
    BY <1>2 DEF enqueue_task
  <2> QED  BY <1>2, <2>1, EnqueueWrr
<1>3. CASE U[p].class = "fair"
  <2>1. enqueue_task(q, p, U[p], head) = enqueue_task_fair(q, p)
    BY <1>3 DEF enqueue_task
  <2> QED  BY <1>3, <2>1, EnqueueFair
<1> QED  BY <1>1, <1>2, <1>3 DEF Placeable

-----------------------------------------------------------------------------
(* Dequeueing, class by class. *)

\* dequeue_task_rt, with the priority the task was queued with.
LEMMA DequeueRt ==
  ASSUME NEW q \in RqType, NEW T, NEW U, NEW p \in Tasks,
         RqOK(q, T), T[p].on_rq, ~U[p].on_rq, SameButFor(p, T, U), T[p].class = "rt"
  PROVE  /\ dequeue_task_rt(q, p, T[p]) \in RqType
         /\ RqOK(dequeue_task_rt(q, p, T[p]), U)
<1> DEFINE k == T[p].prio
           r == dequeue_task_rt(q, p, T[p])
           s == q.queue[k]
           new == list_del_init(p, s)
           lists == [q.queue EXCEPT ![k] = new]
           bits == IF new = << >> THEN q.bitmap \ {k} ELSE q.bitmap
<1>1. p \in Members(T, "rt") /\ k \in RtPrios
  BY DEF Members, RqOK, RtArrayOK
<1>2. \A i \in RtPrios : Linked(p, q.queue[i]) <=> i = k
  BY <1>1 DEF RqOK, RtArrayOK, Linked
<1>3. s \in Seq(Tasks) /\ NoDuplicates(s) /\ p \in Range(s)
  BY <1>1, <1>2 DEF RqType, RqOK, RtArrayOK, Linked
<1>4. /\ new \in Seq(Tasks) /\ NoDuplicates(new)
      /\ Len(new) = Len(s) - 1 /\ Range(new) = Range(s) \ {p}
  BY <1>3, ListDel
<1> DEFINE unlinked == [i \in RtPrios |-> IF Linked(p, q.queue[i])
                                           THEN list_del_init(p, q.queue[i])
                                           ELSE q.queue[i]]
<1>5. \A i \in RtPrios : unlinked[i] = IF i = k THEN new ELSE q.queue[i]
  BY <1>2
<1> HIDE DEF new
<1>6. lists[k] = new /\ \A i \in RtPrios \ {k} : lists[i] = q.queue[i]
  BY <1>1 DEF RqType
<1>7. lists \in [RtPrios -> Seq(Tasks)]
  BY <1>1, <1>4 DEF RqType
<1> HIDE DEF lists, unlinked
<1>18. unlinked = lists
  <2>1. DOMAIN unlinked = RtPrios /\ unlinked = [i \in RtPrios |-> unlinked[i]]
    BY DEF unlinked
  <2>2. lists = [i \in RtPrios |-> lists[i]]
    BY <1>7
  <2> QED  BY <1>5, <1>6, <2>1, <2>2
<1>8. on_rt_rq(q, p)
  BY <1>1, <1>2 DEF on_rt_rq
<1>9. __dequeue_rt_entity(q, p, T[p]) =
        [ queue |-> lists, bitmap |-> bits, rt_nr |-> q.rt_nr - 1,
          wrr_queue |-> q.wrr_queue, wrr_nr |-> q.wrr_nr, cfs |-> q.cfs, nr |-> q.nr ]
  <2> DEFINE b == IF unlinked[k] = << >> THEN q.bitmap \ {k} ELSE q.bitmap
  <2>1. __dequeue_rt_entity(q, p, T[p]) =
          [q EXCEPT !.queue = unlinked, !.bitmap = b, !.rt_nr = @ - 1]
    BY DEF __dequeue_rt_entity, unlinked
  <2>2. b = bits
    BY <1>6, <1>18
  <2> HIDE DEF b, bits
  <2>3. __dequeue_rt_entity(q, p, T[p]) =
          [ queue |-> unlinked, bitmap |-> b, rt_nr |-> q.rt_nr - 1,
            wrr_queue |-> q.wrr_queue, wrr_nr |-> q.wrr_nr, cfs |-> q.cfs, nr |-> q.nr ]
    BY <2>1 DEF RqType
  <2> QED  BY <1>18, <2>2, <2>3
<1> HIDE DEF bits
<1>10. r = [ queue |-> lists, bitmap |-> bits, rt_nr |-> q.rt_nr - 1,
             wrr_queue |-> q.wrr_queue, wrr_nr |-> q.wrr_nr, cfs |-> q.cfs, nr |-> q.nr - 1 ]
  BY <1>8, <1>9 DEF dequeue_task_rt, dequeue_rt_stack, dec_nr_running
<1> HIDE DEF r
<1>11. Members(U, "rt") = Members(T, "rt") \ {p}
       /\ Members(U, "wrr") = Members(T, "wrr") /\ Members(U, "fair") = Members(T, "fair")
  BY MembersRemove
<1>12. /\ Cardinality(Members(U, "rt")) = Cardinality(Members(T, "rt")) - 1
       /\ Cardinality(Members(U, "rt")) \in Nat
  BY <1>1, <1>11, MembersFinite, FS_RemoveElement
<1>13. q.rt_nr - 1 \in Nat /\ q.rt_nr - 1 = Cardinality(Members(U, "rt"))
  BY <1>12 DEF RqOK, RtArrayOK
<1>14. Cardinality(q.cfs) \in Nat
  BY MembersFinite DEF RqOK, CfsOK
<1>15. q.nr - 1 = (q.rt_nr - 1) + q.wrr_nr + Cardinality(q.cfs) /\ q.nr - 1 \in Nat
  BY <1>13, <1>14 DEF RqOK, CountOK, RqType
<1>16. r \in RqType
  BY <1>7, <1>10, <1>13, <1>15 DEF RqType, bits
<1>17. RtArrayOK(r, U)
  <2>1. ASSUME NEW i \in RtPrios
        PROVE  /\ NoDuplicates(lists[i])
               /\ Range(lists[i]) = {x \in Members(U, "rt") : U[x].prio = i}
               /\ i \in bits <=> lists[i] # << >>
    <3>1. {x \in Members(U, "rt") : U[x].prio = i} =
            {x \in Members(T, "rt") : T[x].prio = i} \ {p}
      BY MembersRemove
    <3>2. CASE i = k
      <4>1. Range(s) = {x \in Members(T, "rt") : T[x].prio = k}
        BY <1>1 DEF RqOK, RtArrayOK
      <4>2. k \in q.bitmap
        BY <1>1, <1>3 DEF RqOK, RtArrayOK, Range
      <4> QED  BY <1>4, <1>6, <3>1, <3>2, <4>1, <4>2 DEF bits
    <3>3. CASE i # k
      <4>1. lists[i] = q.queue[i] /\ (i \in bits <=> i \in q.bitmap)
        BY <1>6, <3>3 DEF bits
      <4>2. p \notin {x \in Members(T, "rt") : T[x].prio = i}
        BY <3>3
      <4> QED  BY <3>1, <4>1, <4>2 DEF RqOK, RtArrayOK
    <3> QED  BY <3>2, <3>3
  <2>2. \A x \in Members(U, "rt") : U[x].prio \in RtPrios
    BY <1>11 DEF RqOK, RtArrayOK, SameButFor, SamePlace, Members
  <2> QED  BY <1>10, <1>13, <2>1, <2>2 DEF RtArrayOK
<1> QED  BY <1>10, <1>11, <1>15, <1>16, <1>17 DEF r, RqOK, WrrListOK, CfsOK, CountOK

\* dequeue_task_wrr.
LEMMA DequeueWrr ==
  ASSUME NEW q \in RqType, NEW T, NEW U, NEW p \in Tasks,
         RqOK(q, T), T[p].on_rq, ~U[p].on_rq, SameButFor(p, T, U), T[p].class = "wrr"
  PROVE  /\ dequeue_task_wrr(q, p) \in RqType
         /\ RqOK(dequeue_task_wrr(q, p), U)
<1> DEFINE r == dequeue_task_wrr(q, p)
           s == q.wrr_queue
           new == list_del_init(p, s)
<1>1. p \in Members(T, "wrr")
  BY DEF Members
<1>2. s \in Seq(Tasks) /\ NoDuplicates(s) /\ p \in Range(s)
  BY <1>1 DEF RqType, RqOK, WrrListOK
<1>3. /\ new \in Seq(Tasks) /\ NoDuplicates(new)
      /\ Len(new) = Len(s) - 1 /\ Range(new) = Range(s) \ {p}
  BY <1>2, ListDel
<1>12. __dequeue_wrr_entity(q, p) = [q EXCEPT !.wrr_queue = new, !.wrr_nr = @ - 1]
  BY DEF __dequeue_wrr_entity
<1> HIDE DEF new
<1>13. __dequeue_wrr_entity(q, p) =
         [ queue |-> q.queue, bitmap |-> q.bitmap, rt_nr |-> q.rt_nr, wrr_queue |-> new,
           wrr_nr |-> q.wrr_nr - 1, cfs |-> q.cfs, nr |-> q.nr ]
  BY <1>12 DEF RqType
<1>4. r = [ queue |-> q.queue, bitmap |-> q.bitmap, rt_nr |-> q.rt_nr, wrr_queue |-> new,
            wrr_nr |-> q.wrr_nr - 1, cfs |-> q.cfs, nr |-> q.nr - 1 ]
  BY <1>2, <1>13 DEF dequeue_task_wrr, dequeue_wrr_stack, on_wrr_rq, Linked, dec_nr_running
<1> HIDE DEF r
<1>5. Members(U, "wrr") = Members(T, "wrr") \ {p}
      /\ Members(U, "rt") = Members(T, "rt") /\ Members(U, "fair") = Members(T, "fair")
  BY MembersRemove
<1>6. Len(new) \in Nat
  BY <1>3
<1>7. q.wrr_nr - 1 \in Nat /\ q.wrr_nr - 1 = Len(new)
  BY <1>3, <1>6 DEF RqOK, WrrListOK
<1>8. Cardinality(q.cfs) \in Nat
  BY MembersFinite DEF RqOK, CfsOK
<1>9. q.nr - 1 = q.rt_nr + (q.wrr_nr - 1) + Cardinality(q.cfs) /\ q.nr - 1 \in Nat
  BY <1>7, <1>8 DEF RqOK, CountOK, RqType
<1>10. r \in RqType
  BY <1>3, <1>4, <1>7, <1>9 DEF RqType
<1>11. WrrListOK(r, U)
  BY <1>3, <1>4, <1>5, <1>7 DEF RqOK, WrrListOK
<1>14. RtArrayOK(r, U)
  <2>1. \A x \in Members(U, "rt") : U[x].prio = T[x].prio
    BY <1>1, <1>5 DEF SameButFor, SamePlace, Members
  <2>2. \A i : {x \in Members(U, "rt") : U[x].prio = i} = {x \in Members(T, "rt") : T[x].prio = i}
    BY <1>5, <2>1
  <2>3. \A x \in Members(U, "rt") : U[x].prio \in RtPrios
    BY <1>5, <2>1 DEF RqOK, RtArrayOK
  <2> QED  BY <1>4, <1>5, <2>2, <2>3 DEF RqOK, RtArrayOK
<1> QED  BY <1>4, <1>5, <1>9, <1>10, <1>11, <1>14 DEF r, RqOK, CfsOK, CountOK

\* dequeue_task_fair, as core.c sees it.
LEMMA DequeueFair ==
  ASSUME NEW q \in RqType, NEW T, NEW U, NEW p \in Tasks,
         RqOK(q, T), T[p].on_rq, ~U[p].on_rq, SameButFor(p, T, U), T[p].class = "fair"
  PROVE  /\ dequeue_task_fair(q, p) \in RqType
         /\ RqOK(dequeue_task_fair(q, p), U)
<1> DEFINE r == dequeue_task_fair(q, p)
           c == q.cfs \ {p}
           v == [q EXCEPT !.cfs = c]
<1>1. r = [v EXCEPT !.nr = @ - 1]
  BY DEF dequeue_task_fair, dec_nr_running
<1> HIDE DEF c
<1>2. v = [ queue |-> q.queue, bitmap |-> q.bitmap, rt_nr |-> q.rt_nr,
            wrr_queue |-> q.wrr_queue, wrr_nr |-> q.wrr_nr, cfs |-> c, nr |-> q.nr ]
  BY SetCfs
<1> HIDE DEF r, v
<1>3. r = [ queue |-> q.queue, bitmap |-> q.bitmap, rt_nr |-> q.rt_nr,
            wrr_queue |-> q.wrr_queue, wrr_nr |-> q.wrr_nr, cfs |-> c, nr |-> q.nr - 1 ]
  BY <1>1, <1>2
<1>4. Members(U, "fair") = Members(T, "fair") \ {p} /\ p \in Members(T, "fair")
      /\ Members(U, "rt") = Members(T, "rt") /\ Members(U, "wrr") = Members(T, "wrr")
  BY MembersRemove
<1>5. CfsOK(r, U)
  BY <1>3, <1>4 DEF RqOK, CfsOK, c
<1>6. Cardinality(c) = Cardinality(q.cfs) - 1 /\ Cardinality(c) \in Nat
      /\ Cardinality(q.cfs) \in Nat
  <2>1. q.cfs = Members(T, "fair") /\ c = Members(U, "fair")
    BY <1>4 DEF RqOK, CfsOK, c
  <2> QED  BY <1>4, <2>1, MembersFinite, FS_RemoveElement
<1>7. q.nr - 1 = q.rt_nr + q.wrr_nr + Cardinality(c) /\ q.nr - 1 \in Nat
  BY <1>6 DEF RqOK, CountOK, RqType
<1>8. r \in RqType
  BY <1>3, <1>7 DEF RqType, c
<1>9. RtArrayOK(r, U)
  <2>1. \A x \in Members(U, "rt") : U[x].prio = T[x].prio
    BY <1>4 DEF SameButFor, SamePlace, Members
  <2>2. \A i : {x \in Members(U, "rt") : U[x].prio = i} = {x \in Members(T, "rt") : T[x].prio = i}
    BY <1>4, <2>1
  <2>3. \A x \in Members(U, "rt") : U[x].prio \in RtPrios
    BY <1>4, <2>1 DEF RqOK, RtArrayOK
  <2> QED  BY <1>3, <1>4, <2>2, <2>3 DEF RqOK, RtArrayOK
<1> QED  BY <1>3, <1>4, <1>5, <1>7, <1>8, <1>9 DEF r, RqOK, WrrListOK, CountOK

\* dequeue_task takes a task off the place its descriptor tells.
LEMMA DequeueTask ==
  ASSUME NEW q \in RqType, NEW T, NEW U, NEW p \in Tasks,
         RqOK(q, T), T[p].on_rq, ~U[p].on_rq, SameButFor(p, T, U),
         T[p].class \in {"rt", "wrr", "fair"}
  PROVE  /\ dequeue_task(q, p, T[p]) \in RqType
         /\ RqOK(dequeue_task(q, p, T[p]), U)
<1>1. CASE T[p].class = "rt"
  <2>1. dequeue_task(q, p, T[p]) = dequeue_task_rt(q, p, T[p])
    BY <1>1 DEF dequeue_task
  <2> QED  BY <1>1, <2>1, DequeueRt
<1>2. CASE T[p].class = "wrr"
  <2>1. dequeue_task(q, p, T[p]) = dequeue_task_wrr(q, p)
    BY <1>2 DEF dequeue_task
  <2> QED  BY <1>2, <2>1, DequeueWrr
<1>3. CASE T[p].class = "fair"
  <2>1. dequeue_task(q, p, T[p]) = dequeue_task_fair(q, p)
    BY <1>3 DEF dequeue_task
  <2> QED  BY <1>3, <2>1, DequeueFair
<1> QED  BY <1>1, <1>2, <1>3

-----------------------------------------------------------------------------
(* Requeueing. *)

\* A task whose attributes change while it is off the run queue: dequeue with
\* the old ones, enqueue with the new ones.
LEMMA RequeueTask ==
  ASSUME NEW q \in RqType, NEW T, NEW U, NEW p \in Tasks, NEW head \in BOOLEAN,
         RqOK(q, T), SameButFor(p, T, U), T[p].on_rq <=> U[p].on_rq,
         T[p].class \in {"rt", "wrr", "fair"}, T[p].on_rq => Placeable(U[p])
  PROVE  /\ Requeue(q, p, T[p], U[p], head) \in RqType
         /\ RqOK(Requeue(q, p, T[p], U[p], head), U)
<1>1. CASE T[p].on_rq
  <2> DEFINE V == [x \in Tasks |-> IF x = p THEN [on_rq |-> FALSE] ELSE T[x]]
             v == dequeue_task(q, p, T[p])
  <2>1. ~V[p].on_rq /\ SameButFor(p, T, V) /\ SameButFor(p, V, U)
    BY DEF SameButFor, SamePlace
  <2>2. v \in RqType /\ RqOK(v, V)
    BY <1>1, <2>1, DequeueTask
  <2>3. Requeue(q, p, T[p], U[p], head) = enqueue_task(v, p, U[p], head)
    BY <1>1 DEF Requeue
  <2> HIDE DEF V, v
  <2> QED  BY <1>1, <2>1, <2>2, <2>3, EnqueueTask
<1>2. CASE ~T[p].on_rq
  <2>1. \A x \in Tasks : SamePlace(T[x], U[x])
    BY <1>2 DEF SameButFor, SamePlace
  <2>2. Requeue(q, p, T[p], U[p], head) = q
    BY <1>2 DEF Requeue
  <2> QED  BY <2>1, <2>2, SamePlaces
<1> QED  BY <1>1, <1>2

\* requeue_task_rt moves a task to the tail of its list.
LEMMA RequeueRt ==
  ASSUME NEW q \in RqType, NEW T, NEW p \in Tasks, RqOK(q, T)
  PROVE  /\ requeue_task_rt(q, p, T[p]) \in RqType
         /\ RqOK(requeue_task_rt(q, p, T[p]), T)
<1> DEFINE k == T[p].prio
           r == requeue_task_rt(q, p, T[p])
           s == q.queue[k]
           new == list_move_tail(p, s)
           lists == [q.queue EXCEPT ![k] = new]
<1>1. CASE on_rt_rq(q, p)
  <2>1. k \in RtPrios /\ p \in Range(s)
    BY <1>1 DEF on_rt_rq, Linked, RqOK, RtArrayOK
  <2>2. s \in Seq(Tasks) /\ NoDuplicates(s)
    BY <2>1 DEF RqType, RqOK, RtArrayOK
  <2>3. new \in Seq(Tasks) /\ Len(new) = Len(s) /\ NoDuplicates(new) /\ Range(new) = Range(s)
    BY <2>1, <2>2, ListMoveTail
  <2>4. r = [q EXCEPT !.queue[k] = new]
    BY <1>1 DEF requeue_task_rt
  <2> HIDE DEF new
  <2>5. r = [ queue |-> lists, bitmap |-> q.bitmap, rt_nr |-> q.rt_nr,
              wrr_queue |-> q.wrr_queue, wrr_nr |-> q.wrr_nr, cfs |-> q.cfs, nr |-> q.nr ]
    BY <2>4 DEF RqType
  <2>6. lists \in [RtPrios -> Seq(Tasks)]
    BY <2>1, <2>3 DEF RqType
  <2>7. lists[k] = new /\ \A i \in RtPrios \ {k} : lists[i] = q.queue[i]
    BY <2>1 DEF RqType
  <2> HIDE DEF r, lists
  <2>8. r \in RqType
    BY <2>5, <2>6 DEF RqType
  <2>9. new # << >> /\ s # << >>
    <3>1. s # << >>
      BY <2>1 DEF Range
    <3> QED  BY <2>2, <2>3, <3>1
  <2>10. ASSUME NEW i \in RtPrios
         PROVE  /\ NoDuplicates(lists[i])
                /\ Range(lists[i]) = Range(q.queue[i])
                /\ lists[i] # << >> <=> q.queue[i] # << >>
    <3>1. CASE i = k
      BY <2>3, <2>7, <2>9, <3>1
    <3>2. CASE i # k
      BY <2>7, <3>2 DEF RqOK, RtArrayOK
    <3> QED  BY <3>1, <3>2
  <2>11. RtArrayOK(r, T)
    BY <2>5, <2>10 DEF RqOK, RtArrayOK
  <2> QED  BY <2>5, <2>8, <2>11 DEF r, RqOK, WrrListOK, CfsOK, CountOK
<1>2. CASE ~on_rt_rq(q, p)
  BY <1>2 DEF requeue_task_rt
<1> QED  BY <1>1, <1>2

\* requeue_task_wrr moves a task to the tail of the WRR list.
LEMMA RequeueWrr ==
  ASSUME NEW q \in RqType, NEW T, NEW p \in Tasks, RqOK(q, T)
  PROVE  /\ requeue_task_wrr(q, p) \in RqType
         /\ RqOK(requeue_task_wrr(q, p), T)
<1> DEFINE r == requeue_task_wrr(q, p)
           s == q.wrr_queue
           new == list_move_tail(p, s)
<1>1. CASE on_wrr_rq(q, p)
  <2>1. s \in Seq(Tasks) /\ NoDuplicates(s) /\ p \in Range(s)
    BY <1>1 DEF on_wrr_rq, Linked, RqType, RqOK, WrrListOK
  <2>2. new \in Seq(Tasks) /\ Len(new) = Len(s) /\ NoDuplicates(new) /\ Range(new) = Range(s)
    BY <2>1, ListMoveTail
  <2>3. r = [q EXCEPT !.wrr_queue = new]
    BY <1>1 DEF requeue_task_wrr
  <2> HIDE DEF new
  <2>4. r = [ queue |-> q.queue, bitmap |-> q.bitmap, rt_nr |-> q.rt_nr,
              wrr_queue |-> new, wrr_nr |-> q.wrr_nr, cfs |-> q.cfs, nr |-> q.nr ]
    BY <2>3 DEF RqType
  <2> HIDE DEF r
  <2>5. r \in RqType
    BY <2>2, <2>4 DEF RqType
  <2>6. RtArrayOK(r, T)
    BY <2>4 DEF RqOK, RtArrayOK
  <2> QED  BY <2>2, <2>4, <2>5, <2>6 DEF r, RqOK, WrrListOK, CfsOK, CountOK
<1>2. CASE ~on_wrr_rq(q, p)
  BY <1>2 DEF requeue_task_wrr
<1> QED  BY <1>1, <1>2

\* The empty run queue holds nobody.
LEMMA EmptyRqOK ==
  ASSUME NEW T, \A p \in Tasks : ~T[p].on_rq
  PROVE  EmptyRq \in RqType /\ RqOK(EmptyRq, T)
<1>1. \A c : Members(T, c) = {}
  BY DEF Members
<1>2. Cardinality({}) = 0
  BY FS_EmptySet
<1>3. << >> \in Seq(Tasks) /\ Len(<< >>) = 0 /\ Range(<< >>) = {} /\ NoDuplicates(<< >>)
  BY DEF Range, NoDuplicates
<1>4. EmptyRq \in RqType
  BY <1>3 DEF EmptyRq, RqType
<1>5. RtArrayOK(EmptyRq, T)
  BY <1>1, <1>2, <1>3 DEF EmptyRq, RtArrayOK
<1>6. WrrListOK(EmptyRq, T)
  BY <1>1, <1>3 DEF EmptyRq, WrrListOK
<1>7. CfsOK(EmptyRq, T)
  BY <1>1 DEF EmptyRq, CfsOK
<1>8. CountOK(EmptyRq)
  BY <1>2 DEF EmptyRq, CountOK
<1> QED  BY <1>4, <1>5, <1>6, <1>7, <1>8 DEF RqOK

-----------------------------------------------------------------------------
(* Picking the next task. *)

\* pick_next_task_rt takes a task of the highest priority there is.
LEMMA PickRt ==
  ASSUME NEW q \in RqType, NEW T, RqOK(q, T)
  PROVE  /\ pick_next_task_rt(q) = {} <=> Members(T, "rt") = {}
         /\ \A c \in pick_next_task_rt(q) :
              /\ c \in Members(T, "rt")
              /\ \A p \in Members(T, "rt") : T[c].prio <= T[p].prio
<1> DEFINE idx == CHOOSE i \in q.bitmap : \A j \in q.bitmap : i <= j
<1>1. q.rt_nr = 0 <=> Members(T, "rt") = {}
  BY MembersFinite, FS_EmptySet DEF RqOK, RtArrayOK
<1>2. CASE q.rt_nr = 0
  BY <1>1, <1>2 DEF pick_next_task_rt
<1>3. CASE q.rt_nr # 0
  <2>1. PICK m \in Members(T, "rt") : TRUE
    BY <1>1, <1>3
  <2>2. T[m].prio \in q.bitmap
    <3>1. T[m].prio \in RtPrios /\ m \in Range(q.queue[T[m].prio])
      BY DEF RqOK, RtArrayOK
    <3> QED  BY <3>1 DEF RqOK, RtArrayOK, Range
  <2>3. q.bitmap \in SUBSET Nat
    BY MAX_RT_PRIOAssumption DEF RqType, RtPrios
  <2>4. idx \in q.bitmap /\ \A j \in q.bitmap : idx <= j
    BY <2>2, <2>3, LeastElement
  <2> HIDE DEF idx
  <2>5. idx \in RtPrios /\ q.queue[idx] \in Seq(Tasks) /\ q.queue[idx] # << >>
    BY <2>4 DEF RqType, RqOK, RtArrayOK
  <2>6. q.queue[idx][1] \in Range(q.queue[idx])
    <3>1. 1 \in DOMAIN q.queue[idx]
      BY <2>5
    <3> QED  BY <3>1 DEF Range
  <2>7. q.queue[idx][1] \in Members(T, "rt") /\ T[q.queue[idx][1]].prio = idx
    BY <2>5, <2>6 DEF RqOK, RtArrayOK
  <2>8. \A p \in Members(T, "rt") : T[p].prio \in q.bitmap
    <3> TAKE p \in Members(T, "rt")
    <3>1. T[p].prio \in RtPrios /\ p \in Range(q.queue[T[p].prio])
      BY DEF RqOK, RtArrayOK
    <3> QED  BY <3>1 DEF RqOK, RtArrayOK, Range
  <2>9. pick_next_task_rt(q) = {q.queue[idx][1]}
    BY <1>3 DEF pick_next_task_rt, idx
  <2> QED  BY <2>1, <2>4, <2>7, <2>8, <2>9
<1> QED  BY <1>2, <1>3

\* pick_next_task_wrr takes a WRR task if there is one.
LEMMA PickWrr ==
  ASSUME NEW q \in RqType, NEW T, RqOK(q, T)
  PROVE  /\ pick_next_task_wrr(q) = {} <=> Members(T, "wrr") = {}
         /\ pick_next_task_wrr(q) \subseteq Members(T, "wrr")
<1>1. q.wrr_queue \in Seq(Tasks) /\ q.wrr_nr = Len(q.wrr_queue)
      /\ Range(q.wrr_queue) = Members(T, "wrr")
  BY DEF RqType, RqOK, WrrListOK
<1>2. CASE q.wrr_nr = 0
  <2>1. \A i \in DOMAIN q.wrr_queue : FALSE
    <3>1. DOMAIN q.wrr_queue = 1 .. Len(q.wrr_queue)
      BY <1>1
    <3> QED  BY <1>1, <1>2, <3>1
  <2>2. Members(T, "wrr") = {}
    BY <1>1, <2>1 DEF Range
  <2>3. pick_next_task_wrr(q) = {}
    BY <1>2 DEF pick_next_task_wrr
  <2> QED  BY <2>2, <2>3
<1>3. CASE q.wrr_nr # 0
  <2>1. 1 \in DOMAIN q.wrr_queue
    BY <1>1, <1>3
  <2>2. q.wrr_queue[1] \in Members(T, "wrr")
    BY <1>1, <2>1 DEF Range
  <2> QED  BY <1>3, <2>2 DEF pick_next_task_wrr
<1> QED  BY <1>2, <1>3

\* pick_next_task takes a runnable task whenever there is one, of the highest
\* class there is; its fast path is only taken when that class is CFS.
LEMMA PickNext ==
  ASSUME NEW q \in RqType, NEW T, RqOK(q, T)
  PROVE  /\ pick_next_task(q) \subseteq
              Members(T, "rt") \cup Members(T, "wrr") \cup Members(T, "fair")
         /\ pick_next_task(q) = {} =>
              Members(T, "rt") = {} /\ Members(T, "wrr") = {} /\ Members(T, "fair") = {}
         /\ \A c \in pick_next_task(q) :
              /\ T[c].class = "rt" => \A p \in Members(T, "rt") : T[c].prio <= T[p].prio
              /\ T[c].class # "rt" => Members(T, "rt") = {}
              /\ T[c].class = "fair" => Members(T, "wrr") = {}
<1>1. pick_next_task_fair(q) = Members(T, "fair")
  BY DEF pick_next_task_fair, RqOK, CfsOK
<1>2. CASE q.nr = Cardinality(q.cfs) /\ q.cfs # {}
  <2>1. pick_next_task(q) = Members(T, "fair")
    BY <1>1, <1>2 DEF pick_next_task
  <2>2. Cardinality(q.cfs) \in Nat
    BY MembersFinite DEF RqOK, CfsOK
  <2>3. q.rt_nr = 0 /\ q.wrr_nr = 0
    BY <1>2, <2>2 DEF RqOK, CountOK, RqType
  <2>4. Members(T, "rt") = {} /\ Members(T, "wrr") = {}
    BY <2>3, PickRt, PickWrr DEF pick_next_task_rt, pick_next_task_wrr
  <2>5. q.cfs = Members(T, "fair")
    BY DEF RqOK, CfsOK
  <2> QED  BY <1>2, <2>1, <2>4, <2>5
<1>3. CASE ~(q.nr = Cardinality(q.cfs) /\ q.cfs # {})
  <2>1. CASE Members(T, "rt") # {}
    <3>1. pick_next_task(q) = pick_next_task_rt(q)
      BY <1>3, <2>1, PickRt DEF pick_next_task
    <3>2. \A c \in pick_next_task(q) : c \in Members(T, "rt") /\ T[c].class = "rt"
      BY <3>1, PickRt DEF Members
    <3> QED  BY <2>1, <3>1, <3>2, PickRt
  <2>2. CASE Members(T, "rt") = {} /\ Members(T, "wrr") # {}
    <3>1. pick_next_task(q) = pick_next_task_wrr(q)
      BY <1>3, <2>2, PickRt, PickWrr DEF pick_next_task
    <3>2. \A c \in pick_next_task(q) : c \in Members(T, "wrr") /\ T[c].class = "wrr"
      BY <3>1, PickWrr DEF Members
    <3> QED  BY <2>2, <3>1, <3>2, PickWrr
  <2>3. CASE Members(T, "rt") = {} /\ Members(T, "wrr") = {}
    <3>1. pick_next_task(q) = Members(T, "fair")
      BY <1>1, <1>3, <2>3, PickRt, PickWrr DEF pick_next_task
    <3>2. \A c \in Members(T, "fair") : T[c].class = "fair"
      BY DEF Members
    <3> QED  BY <2>3, <3>1, <3>2
  <2> QED  BY <2>1, <2>2, <2>3
<1> QED  BY <1>2, <1>3

-----------------------------------------------------------------------------
(* The inductive invariant. *)

\* What the attributes of one task keep to: ClassDiscipline, PiHonoured, and
\* that a task of an RT policy has an RT priority.
AttributesOK(t) ==
  /\ t.class = "wrr" => t.policy = "WRR"
  /\ t.class # "wrr" => t.class = rt_or_fair(t.prio) /\ t.prio < MAX_PRIO
  /\ t.normal_prio = normal_prio(t)
  /\ rt_policy(t.policy) => rt_prio(t.prio)
  /\ t.class # "wrr" /\ (rt_prio(t.pi) \/ t.pi = NO_WAITER) => t.prio = rt_mutex_getprio(t)

\* Only a living task is queued, a living task that wants to run is, and only
\* a living task sleeps.
LifeOK(t) ==
  /\ t.on_rq => t.life = "live"
  /\ t.life = "live" /\ t.state = "running" => t.on_rq
  /\ t.life = "none" => t.state = "dead"
  /\ t.life = "new" => t.state = "running"

TaskOK(t) == t \in TaskType /\ AttributesOK(t) /\ LifeOK(t)

\* A child is being forked by one parent, which has not woken it yet.
NewbornsOK(T) ==
  \A p \in Tasks : \A x \in T[p].newborn :
    /\ T[x].life = "new"
    /\ \A r \in Tasks : x \in T[r].newborn => r = p

Dead(t) == t.life = "live" /\ t.state = "dead"

StateOK(T, q, c) ==
  /\ T \in [Tasks -> TaskType]
  /\ \A p \in Tasks : TaskOK(T[p])
  /\ NewbornsOK(T)
  /\ q \in RqType
  /\ RqOK(q, T)
  /\ c \in Tasks \cup {Idle}
  /\ c # Idle => T[c].on_rq
  /\ \A p \in Tasks : Dead(T[p]) => p = c

IInv == StateOK(task, rq, curr) /\ need_resched \in BOOLEAN

-----------------------------------------------------------------------------
(* One task. *)

\* The ranges of the constants, for the arithmetic.
LEMMA Ranges ==
  /\ MAX_RT_PRIO \in Nat /\ MAX_PRIO \in Nat /\ WRR_MAX_PRIO \in Nat /\ UINT_MAX \in Nat
  /\ 0 < MAX_RT_PRIO /\ MAX_RT_PRIO < MAX_PRIO /\ MAX_PRIO <= WRR_MAX_PRIO /\ 0 < UINT_MAX
  /\ RR_TIMESLICE \in Nat /\ 1 <= RR_TIMESLICE
  /\ NO_WAITER = WRR_MAX_PRIO + 1
  /\ PiPrios \subseteq 0 .. WRR_MAX_PRIO
  /\ NicePrios \subseteq MAX_RT_PRIO .. (MAX_PRIO - 1)
  /\ DEFAULT_PRIO \in NicePrios
  /\ RtParams \subseteq 0 .. (MAX_RT_PRIO - 1)
BY MAX_RT_PRIOAssumption, SchedAssumption DEF NO_WAITER

\* The ranges of a task's priorities.
LEMMA TaskRanges ==
  ASSUME NEW t \in TaskType
  PROVE  /\ t.pi \in Nat /\ t.prio \in 0 .. WRR_MAX_PRIO
         /\ t.normal_prio \in 0 .. (MAX_PRIO - 1)
         /\ t.static_prio \in MAX_RT_PRIO .. (MAX_PRIO - 1)
         /\ t.policy \in AllPolicies /\ t.rt_priority \in 0 .. (MAX_RT_PRIO - 1)
         /\ t.static_prio \in NicePrios
<1>1. t.pi \in PiPrios \cup {NO_WAITER}
  BY DEF TaskType
<1>2. t.pi \in Nat
  <2>1. CASE t.pi \in PiPrios
    <3>1. t.pi \in 0 .. WRR_MAX_PRIO
      BY <2>1, Ranges
    <3> QED  BY <3>1
  <2>2. CASE t.pi = NO_WAITER
    BY <2>2, Ranges
  <2> QED  BY <1>1, <2>1, <2>2
<1>3. t.static_prio \in NicePrios
  BY DEF TaskType
<1>4. t.static_prio \in MAX_RT_PRIO .. (MAX_PRIO - 1)
  BY <1>3, Ranges
<1> QED  BY <1>2, <1>3, <1>4 DEF TaskType

\* A task queued as its attributes say has a place on the run queue.
LEMMA TaskPlaceable ==
  ASSUME NEW t, TaskOK(t)
  PROVE  Placeable(t)
<1>1. t.class \in {"rt", "wrr", "fair"}
  BY DEF TaskOK, TaskType, Classes
<1>2. t.prio \in Nat
  BY Ranges DEF TaskOK, TaskType
<1>3. CASE t.class = "rt"
  BY <1>2, <1>3, Ranges DEF TaskOK, AttributesOK, rt_or_fair, rt_prio, Placeable, RtPrios
<1> QED  BY <1>1, <1>3 DEF Placeable

\* normal_prio is real-time for the RT policies and only for them.
LEMMA NormalPrio ==
  ASSUME NEW t, t.policy \in AllPolicies, t.rt_priority \in 0 .. (MAX_RT_PRIO - 1),
         t.static_prio \in NicePrios
  PROVE  /\ normal_prio(t) \in 0 .. (MAX_PRIO - 1)
         /\ rt_prio(normal_prio(t)) <=> rt_policy(t.policy)
<1>1. t.static_prio \in MAX_RT_PRIO .. (MAX_PRIO - 1)
  BY Ranges
<1>2. CASE rt_policy(t.policy)
  <2>1. normal_prio(t) = MAX_RT_PRIO - 1 - t.rt_priority
    BY <1>2 DEF normal_prio
  <2> QED  BY <1>2, <2>1, Ranges DEF rt_prio
<1>3. CASE ~rt_policy(t.policy)
  <2>1. normal_prio(t) = t.static_prio
    BY <1>3 DEF normal_prio
  <2> QED  BY <1>1, <1>3, <2>1, Ranges DEF rt_prio
<1> QED  BY <1>2, <1>3

\* A free slot is in order.
LEMMA NoTaskOK == TaskOK(NoTask) /\ NoTask.life = "none" /\ ~NoTask.on_rq /\ NoTask.newborn = {}
<1>1. NoTask \in TaskType
  BY Ranges DEF NoTask, TaskType, AllPolicies, Classes
<1>2. AttributesOK(NoTask)
  BY Ranges DEF NoTask, AttributesOK, rt_or_fair, rt_prio, normal_prio, rt_policy, RtPolicies,
                rt_mutex_getprio, Lower
<1>3. LifeOK(NoTask)
  BY DEF NoTask, LifeOK
<1> QED  BY <1>1, <1>2, <1>3 DEF TaskOK, NoTask

\* The task in question is the same but for its attributes.
SameLife(t, u) ==
  /\ u.life = t.life /\ u.state = t.state /\ u.on_rq = t.on_rq /\ u.newborn = t.newborn

\* __setscheduler gives a task attributes that fit together, whatever waits
\* for it.
LEMMA SetSchedulerOK ==
  ASSUME NEW t, TaskOK(t), NEW reset \in BOOLEAN, NEW policy \in AllPolicies,
         NEW prio \in 0 .. (MAX_RT_PRIO - 1)
  PROVE  LET new == __setscheduler([t EXCEPT !.reset_on_fork = reset], policy, prio)
         IN  TaskOK(new) /\ SameLife(t, new)
<1> DEFINE named == [t EXCEPT !.reset_on_fork = reset, !.policy = policy, !.rt_priority = prio]
           n == normal_prio(named)
           eff == Lower(n, t.pi)
           class == IF policy = "WRR" THEN "wrr" ELSE rt_or_fair(eff)
           new == __setscheduler([t EXCEPT !.reset_on_fork = reset], policy, prio)
<1>1. t \in TaskType /\ t.pi \in Nat
  BY TaskRanges DEF TaskOK
<1>2. /\ named \in TaskType /\ named.policy = policy /\ named.rt_priority = prio
      /\ named.static_prio = t.static_prio /\ named.static_prio \in NicePrios
  BY <1>1 DEF TaskType
<1>3. n \in 0 .. (MAX_PRIO - 1) /\ (rt_prio(n) <=> rt_policy(policy))
  BY <1>2, NormalPrio
<1>4. new = [named EXCEPT !.normal_prio = n, !.prio = eff, !.class = class]
  BY <1>1 DEF __setscheduler, rt_mutex_getprio, TaskType
<1> HIDE DEF n
<1>5. eff \in 0 .. WRR_MAX_PRIO /\ eff < MAX_PRIO /\ (rt_policy(policy) => rt_prio(eff))
  BY <1>1, <1>3, Ranges DEF Lower, rt_prio
<1>6. class \in Classes
  BY DEF Classes, rt_or_fair
<1> HIDE DEF named, class, eff, new
<1>7. new \in TaskType
  BY <1>2, <1>3, <1>4, <1>5, <1>6 DEF TaskType
<1>8. /\ new.policy = policy /\ new.rt_priority = prio /\ new.static_prio = t.static_prio
      /\ new.normal_prio = n /\ new.prio = eff /\ new.class = class /\ new.pi = t.pi
      /\ SameLife(t, new)
  BY <1>1, <1>4 DEF TaskType, SameLife, named
<1>9. normal_prio(new) = n
  BY <1>2, <1>8 DEF normal_prio, n
<1>10. AttributesOK(new)
  BY <1>5, <1>8, <1>9 DEF AttributesOK, rt_mutex_getprio, class, rt_or_fair, eff
<1>11. LifeOK(new)
  BY <1>8 DEF LifeOK, SameLife, TaskOK
<1> QED  BY <1>7, <1>8, <1>10, <1>11 DEF TaskOK, new

\* set_user_nice of a task of an RT policy changes what does not show yet; of
\* any other task, its priority unless it is boosted.
LEMMA SetUserNiceOK ==
  ASSUME NEW t, TaskOK(t), NEW static \in NicePrios
  PROVE  LET nice == [t EXCEPT !.static_prio = static]
             new  == [nice EXCEPT !.normal_prio = normal_prio(nice),
                                  !.prio = effective_prio(nice)]
         IN  /\ rt_policy(t.policy) => TaskOK(nice) /\ SameLife(t, nice) /\ SamePlace(t, nice)
             /\ ~rt_policy(t.policy) => TaskOK(new) /\ SameLife(t, new)
<1> DEFINE nice == [t EXCEPT !.static_prio = static]
           n == normal_prio(nice)
           e == effective_prio(nice)
           new == [nice EXCEPT !.normal_prio = n, !.prio = e]
<1>1. t \in TaskType /\ t.pi \in Nat /\ t.prio \in 0 .. WRR_MAX_PRIO
  BY TaskRanges DEF TaskOK
<1>2. /\ nice \in TaskType /\ SameLife(t, nice) /\ nice.class = t.class
      /\ nice.policy = t.policy /\ nice.rt_priority = t.rt_priority /\ nice.prio = t.prio
      /\ nice.static_prio = static /\ nice.normal_prio = t.normal_prio /\ nice.pi = t.pi
  BY <1>1 DEF TaskType, SameLife
<1> HIDE DEF nice
<1>3. LifeOK(nice)
  BY <1>2 DEF LifeOK, SameLife, TaskOK
<1>4. CASE rt_policy(t.policy)
  <2>1. normal_prio(nice) = normal_prio(t)
    BY <1>2, <1>4 DEF normal_prio
  <2>2. AttributesOK(nice)
    BY <1>2, <2>1 DEF TaskOK, AttributesOK, rt_mutex_getprio
  <2> QED  BY <1>2, <1>3, <1>4, <2>2 DEF TaskOK, SamePlace, SameLife, nice
<1>5. CASE ~rt_policy(t.policy)
  <2>1. n = static /\ n \in 0 .. (MAX_PRIO - 1) /\ ~rt_prio(n)
    <3>1. static \in MAX_RT_PRIO .. (MAX_PRIO - 1)
      BY Ranges
    <3> QED  BY <1>2, <1>5, <3>1, Ranges DEF normal_prio, rt_prio
  <2>2. e = IF rt_prio(t.prio) THEN t.prio ELSE n
    BY <1>2 DEF effective_prio
  <2>3. e \in 0 .. WRR_MAX_PRIO /\ (rt_prio(e) <=> rt_prio(t.prio))
        /\ (t.prio < MAX_PRIO => e < MAX_PRIO)
    BY <1>1, <2>1, <2>2, Ranges
  <2> HIDE DEF n, e
  <2>4. new \in TaskType
    BY <1>2, <2>1, <2>3 DEF TaskType
  <2>5. /\ SameLife(t, new) /\ new.class = t.class /\ new.policy = t.policy
        /\ new.rt_priority = t.rt_priority /\ new.static_prio = static
        /\ new.normal_prio = n /\ new.prio = e /\ new.pi = t.pi
    BY <1>2 DEF TaskType, SameLife
  <2> HIDE DEF new
  <2>6. normal_prio(new) = n
    BY <1>5, <2>1, <2>5 DEF normal_prio
  <2>7. ASSUME t.class # "wrr", rt_prio(t.pi) \/ t.pi = NO_WAITER
        PROVE  e = Lower(n, t.pi)
    <3>1. t.prio = Lower(t.normal_prio, t.pi)
      BY <2>7 DEF TaskOK, AttributesOK, rt_mutex_getprio
    <3>2. t.normal_prio \in Nat /\ ~rt_prio(t.normal_prio)
      <4>1. t.normal_prio = normal_prio(t)
        BY DEF TaskOK, AttributesOK
      <4> QED  BY <1>1, <1>5, <4>1, NormalPrio, TaskRanges
    <3>3. CASE rt_prio(t.pi)
      BY <1>1, <2>1, <2>2, <3>1, <3>2, <3>3, Ranges DEF Lower, rt_prio
    <3>4. CASE t.pi = NO_WAITER
      BY <1>1, <2>1, <2>2, <3>1, <3>2, <3>4, Ranges, TaskRanges DEF Lower, rt_prio
    <3> QED  BY <2>7, <3>3, <3>4
  <2>8. AttributesOK(new)
    <3>1. t.class = "wrr" => t.policy = "WRR"
      BY DEF TaskOK, AttributesOK
    <3>2. t.class # "wrr" => t.class = rt_or_fair(t.prio) /\ t.prio < MAX_PRIO
      BY DEF TaskOK, AttributesOK
    <3> QED  BY <1>5, <2>3, <2>5, <2>6, <2>7, <3>1, <3>2
             DEF AttributesOK, rt_or_fair, rt_mutex_getprio
  <2>9. LifeOK(new)
    BY <2>5 DEF LifeOK, SameLife, TaskOK
  <2> QED  BY <1>5, <2>4, <2>5, <2>8, <2>9 DEF TaskOK, new, nice, n, e
<1> QED  BY <1>4, <1>5

\* A change of the top waiter: the task takes the priority rt_mutex_getprio
\* computes and the class that goes with it, or keeps both.
LEMMA AdjustPrioOK ==
  ASSUME NEW t, TaskOK(t), NEW w \in PiPrios \cup {NO_WAITER}
  PROVE  LET u    == [t EXCEPT !.pi = w]
             prio == rt_mutex_getprio(u)
             new  == rt_mutex_setprio(u, prio)
         IN  /\ prio = t.prio => TaskOK(u) /\ SameLife(t, u) /\ SamePlace(t, u)
             /\ TaskOK(new) /\ SameLife(t, new)
<1> DEFINE u == [t EXCEPT !.pi = w]
           prio == rt_mutex_getprio(u)
           class == rt_or_fair(prio)
           new == rt_mutex_setprio(u, prio)
<1>1. t \in TaskType /\ t.normal_prio \in 0 .. (MAX_PRIO - 1)
  BY TaskRanges DEF TaskOK
<1>2. /\ u \in TaskType /\ SameLife(t, u) /\ u.class = t.class /\ u.policy = t.policy
      /\ u.rt_priority = t.rt_priority /\ u.static_prio = t.static_prio /\ u.prio = t.prio
      /\ u.normal_prio = t.normal_prio /\ u.pi = w
  BY <1>1 DEF TaskType, SameLife
<1> HIDE DEF u
<1>3. u.pi \in Nat
  BY <1>2, TaskRanges
<1>4. prio = Lower(u.normal_prio, u.pi)
  BY DEF rt_mutex_getprio
<1>5. u.normal_prio = normal_prio(u)
  BY <1>2 DEF TaskOK, AttributesOK, normal_prio
<1>6. rt_policy(u.policy) => rt_prio(u.normal_prio)
  BY <1>2, <1>5, NormalPrio, TaskRanges
<1>7. prio \in 0 .. WRR_MAX_PRIO /\ prio < MAX_PRIO /\ (rt_policy(u.policy) => rt_prio(prio))
  BY <1>1, <1>2, <1>3, <1>4, <1>6, Ranges DEF Lower, rt_prio
<1>8. class \in Classes /\ class # "wrr"
  BY DEF Classes, rt_or_fair
<1>9. new = [u EXCEPT !.prio = prio, !.class = class]
  BY DEF rt_mutex_setprio
<1> HIDE DEF class, prio
<1>10. new \in TaskType
  BY <1>2, <1>7, <1>8, <1>9 DEF TaskType
<1>11. /\ SameLife(u, new) /\ new.class = class /\ new.policy = u.policy
       /\ new.rt_priority = u.rt_priority /\ new.static_prio = u.static_prio
       /\ new.prio = prio /\ new.normal_prio = u.normal_prio /\ new.pi = u.pi
  BY <1>2, <1>9 DEF TaskType, SameLife
<1> HIDE DEF new
<1>12. normal_prio(new) = normal_prio(u)
  BY <1>11 DEF normal_prio
<1>13. AttributesOK(new)
  BY <1>4, <1>5, <1>7, <1>8, <1>11, <1>12 DEF AttributesOK, rt_mutex_getprio, class
<1>14. LifeOK(u) /\ LifeOK(new) /\ SameLife(t, new)
  BY <1>2, <1>11 DEF LifeOK, SameLife, TaskOK
<1>15. ASSUME prio = t.prio PROVE AttributesOK(u)
  <2>1. /\ t.class = "wrr" => t.policy = "WRR"
        /\ t.class # "wrr" => t.class = rt_or_fair(t.prio) /\ t.prio < MAX_PRIO
        /\ rt_policy(t.policy) => rt_prio(t.prio)
    BY DEF TaskOK, AttributesOK
  <2> QED  BY <1>2, <1>5, <1>15, <2>1 DEF AttributesOK, prio
<1>16. SamePlace(t, u)
  BY <1>2 DEF SamePlace, SameLife
<1> QED  BY <1>2, <1>10, <1>13, <1>14, <1>15, <1>16 DEF TaskOK, new, prio, u

\* sched_fork sets up a child that is not queued and has no boost of its
\* parent's.
LEMMA SchedForkOK ==
  ASSUME NEW t, TaskOK(t)
  PROVE  LET child == sched_fork(t)
         IN  TaskOK(child) /\ child.life = "new" /\ ~child.on_rq /\ child.newborn = {}
<1> DEFINE copy == [t EXCEPT !.life = "new", !.newborn = {}, !.state = "running",
                             !.on_rq = FALSE, !.pi = NO_WAITER, !.prio = inherited_prio(t)]
           base == IF rt_policy(t.policy)
                     THEN [copy EXCEPT !.policy = "NORMAL", !.rt_priority = 0,
                                       !.static_prio = DEFAULT_PRIO]
                     ELSE [copy EXCEPT !.static_prio = IF @ < DEFAULT_PRIO
                                                         THEN DEFAULT_PRIO ELSE @]
           reset == [base EXCEPT !.prio = base.static_prio, !.normal_prio = base.static_prio,
                                 !.reset_on_fork = FALSE]
           child == IF t.reset_on_fork THEN reset ELSE copy
           class == IF rt_prio(child.prio) THEN child.class ELSE "fair"
           New(u) == u.life = "new" /\ u.newborn = {} /\ u.state = "running" /\ ~u.on_rq
                     /\ u.pi = NO_WAITER
           Fits(u) == u.prio = u.normal_prio /\ u.normal_prio = normal_prio(u)
                      /\ (u.class = "wrr" => u.policy = "WRR")
                      /\ (rt_policy(u.policy) => u.class # "fair")
<1>1. /\ t \in TaskType /\ t.normal_prio \in 0 .. (MAX_PRIO - 1)
      /\ t.static_prio \in NicePrios /\ t.normal_prio = normal_prio(t)
      /\ t.class = "wrr" => t.policy = "WRR"
      /\ rt_policy(t.policy) => t.class # "fair"
  BY TaskRanges DEF TaskOK, AttributesOK, rt_or_fair
<1>2. copy \in TaskType
  <2>1. t.normal_prio \in 0 .. WRR_MAX_PRIO
    BY <1>1, Ranges
  <2> QED  BY <1>1, <2>1 DEF TaskType, inherited_prio
<1>3. /\ New(copy) /\ copy.prio = t.normal_prio /\ copy.normal_prio = t.normal_prio
      /\ copy.policy = t.policy /\ copy.class = t.class /\ copy.rt_priority = t.rt_priority
      /\ copy.static_prio = t.static_prio /\ copy.reset_on_fork = t.reset_on_fork
  BY <1>1 DEF TaskType, inherited_prio
<1>4. Fits(copy)
  BY <1>1, <1>3 DEF normal_prio
<1> HIDE DEF copy
<1>5. base \in TaskType
  <2>1. 0 \in 0 .. (MAX_RT_PRIO - 1) /\ "NORMAL" \in AllPolicies /\ DEFAULT_PRIO \in NicePrios
    BY Ranges DEF AllPolicies
  <2>2. ASSUME NEW policy \in AllPolicies, NEW rt \in 0 .. (MAX_RT_PRIO - 1),
               NEW static \in NicePrios
        PROVE  /\ [copy EXCEPT !.policy = policy, !.rt_priority = rt,
                                !.static_prio = static] \in TaskType
               /\ [copy EXCEPT !.static_prio = static] \in TaskType
    BY <1>2 DEF TaskType
  <2>3. copy.static_prio \in NicePrios
    BY <1>1, <1>3
  <2> QED  BY <2>1, <2>2, <2>3 DEF base
<1>6. New(base) /\ (base.class = "wrr" => base.policy = "WRR") /\ ~rt_policy(base.policy)
  <2>1. CASE rt_policy(t.policy)
    <3>1. base = [copy EXCEPT !.policy = "NORMAL", !.rt_priority = 0,
                              !.static_prio = DEFAULT_PRIO]
      BY <2>1
    <3>2. t.class # "wrr"
      BY <1>1, <2>1 DEF rt_policy, RtPolicies
    <3> QED  BY <1>2, <1>3, <3>1, <3>2 DEF TaskType, rt_policy, RtPolicies
  <2>2. CASE ~rt_policy(t.policy)
    <3>1. base = [copy EXCEPT !.static_prio = IF @ < DEFAULT_PRIO THEN DEFAULT_PRIO ELSE @]
      BY <2>2
    <3> QED  BY <1>1, <1>2, <1>3, <2>2, <3>1 DEF TaskType
  <2> QED  BY <2>1, <2>2
<1> HIDE DEF base
<1>7. base.static_prio \in 0 .. (MAX_PRIO - 1) /\ base.static_prio \in 0 .. WRR_MAX_PRIO
  BY <1>5, Ranges, TaskRanges
<1>8. reset \in TaskType
  BY <1>5, <1>7 DEF TaskType
<1>9. /\ New(reset) /\ reset.prio = base.static_prio /\ reset.normal_prio = base.static_prio
      /\ reset.policy = base.policy /\ reset.class = base.class
      /\ reset.static_prio = base.static_prio
  BY <1>5, <1>6 DEF TaskType
<1>10. Fits(reset)
  BY <1>6, <1>9 DEF normal_prio
<1> HIDE DEF reset
<1>11. child \in TaskType /\ New(child) /\ Fits(child)
  BY <1>2, <1>3, <1>4, <1>8, <1>9, <1>10
<1>12. sched_fork(t) = [child EXCEPT !.class = class]
  BY DEF sched_fork, child, reset, base, copy
<1> HIDE DEF child
<1>13. rt_prio(child.prio) <=> rt_policy(child.policy)
  BY <1>11, NormalPrio, TaskRanges
<1>14. class \in Classes /\ (class = "wrr" => child.policy = "WRR")
       /\ (class # "wrr" => class = rt_or_fair(child.prio))
  BY <1>11, <1>13 DEF Classes, rt_or_fair, TaskType
<1> HIDE DEF class
<1> DEFINE new == [child EXCEPT !.class = class]
<1>15. /\ new \in TaskType /\ New(new) /\ new.class = class /\ new.policy = child.policy
       /\ new.prio = child.prio /\ new.normal_prio = child.normal_prio
       /\ new.static_prio = child.static_prio /\ new.rt_priority = child.rt_priority
  BY <1>11, <1>14 DEF TaskType
<1> HIDE DEF new
<1>16. normal_prio(new) = normal_prio(child)
  BY <1>15 DEF normal_prio
<1>17. new.prio = rt_mutex_getprio(new)
  <2>1. new.normal_prio \in 0 .. (MAX_PRIO - 1)
    BY <1>15, TaskRanges
  <2> QED  BY <1>11, <1>15, <2>1, Ranges DEF rt_mutex_getprio, Lower
<1>18. AttributesOK(new)
  <2>1. new.prio < MAX_PRIO
    BY <1>11, <1>15, Ranges, TaskRanges
  <2> QED  BY <1>11, <1>13, <1>14, <1>15, <1>16, <1>17, <2>1 DEF AttributesOK
<1>19. LifeOK(new)
  BY <1>15 DEF LifeOK
<1> QED  BY <1>12, <1>15, <1>18, <1>19 DEF TaskOK, new

\* A tick costs a WRR task a tick of its slice, which stays within an
\* unsigned int, and a step of its priority, which stays within WRR_MAX_PRIO.
LEMMA TickWrrOK ==
  ASSUME NEW t, TaskOK(t), t.class = "wrr", NEW left \in 0 .. UINT_MAX
  PROVE  /\ TaskOK([t EXCEPT !.wrr_slice = left, !.prio = Aged(@)])
         /\ TaskOK([t EXCEPT !.wrr_slice = left])
<1>1. t \in TaskType /\ t.prio \in 0 .. WRR_MAX_PRIO /\ t.policy = "WRR"
  BY TaskRanges DEF TaskOK, AttributesOK
<1>2. Aged(t.prio) \in 0 .. WRR_MAX_PRIO
  BY <1>1, Ranges DEF Aged, Lower
<1>3. ~rt_policy("WRR")
  BY DEF rt_policy, RtPolicies
<1>4. ASSUME NEW prio \in 0 .. WRR_MAX_PRIO
      PROVE  TaskOK([t EXCEPT !.wrr_slice = left, !.prio = prio])
  <2> DEFINE new == [t EXCEPT !.wrr_slice = left, !.prio = prio]
  <2>1. new \in TaskType
    BY <1>1 DEF TaskType
  <2>2. /\ new.class = "wrr" /\ new.policy = "WRR" /\ SameLife(t, new)
        /\ new.normal_prio = t.normal_prio /\ new.static_prio = t.static_prio
        /\ new.rt_priority = t.rt_priority
    BY <1>1 DEF TaskType, SameLife
  <2> HIDE DEF new
  <2>3. new.normal_prio = normal_prio(new)
    BY <1>1, <2>2 DEF normal_prio, TaskOK, AttributesOK
  <2>4. AttributesOK(new)
    BY <1>3, <2>2, <2>3 DEF AttributesOK
  <2>5. LifeOK(new)
    BY <2>2 DEF LifeOK, SameLife, TaskOK
  <2> QED  BY <2>1, <2>4, <2>5 DEF TaskOK, new
<1>5. [t EXCEPT !.wrr_slice = left, !.prio = t.prio] = [t EXCEPT !.wrr_slice = left]
  BY <1>1 DEF TaskType
<1> QED  BY <1>1, <1>2, <1>4, <1>5

-----------------------------------------------------------------------------
(* The whole state. *)

\* A task is replaced, everybody's place stays: the run queue needs nothing.
LEMMA ReplaceOK ==
  ASSUME NEW T, NEW q, NEW c, StateOK(T, q, c), NEW p \in Tasks, NEW new,
         TaskOK(new), SameLife(T[p], new), SamePlace(T[p], new)
  PROVE  StateOK([T EXCEPT ![p] = new], q, c)
<1> DEFINE U == [T EXCEPT ![p] = new]
<1>1. /\ U \in [Tasks -> TaskType] /\ U[p] = new
      /\ \A x \in Tasks \ {p} : U[x] = T[x]
  BY DEF StateOK, TaskOK
<1> HIDE DEF U
<1>2. \A x \in Tasks : TaskOK(U[x]) /\ SameLife(T[x], U[x]) /\ SamePlace(T[x], U[x])
  BY <1>1 DEF StateOK, SameLife, SamePlace
<1>3. NewbornsOK(U)
  <2>1. \A x \in Tasks : U[x].newborn = T[x].newborn /\ U[x].life = T[x].life
    BY <1>2 DEF SameLife
  <2>2. \A x \in Tasks : T[x].newborn \subseteq Tasks
    BY DEF StateOK, TaskType
  <2> QED  BY <2>1, <2>2 DEF StateOK, NewbornsOK
<1>4. RqOK(q, U)
  BY <1>2, SamePlaces DEF StateOK
<1>5. (c # Idle => U[c].on_rq) /\ \A x \in Tasks : Dead(U[x]) => x = c
  BY <1>2 DEF StateOK, SameLife, Dead
<1> QED  BY <1>1, <1>2, <1>3, <1>4, <1>5 DEF StateOK, U

\* The pattern of every attribute change keeps the run queue and the tasks
\* in step.
LEMMA ChangeOK ==
  ASSUME NEW T, NEW q, NEW c, StateOK(T, q, c), NEW p \in Tasks, NEW new,
         NEW head \in BOOLEAN, TaskOK(new), SameLife(T[p], new)
  PROVE  StateOK([T EXCEPT ![p] = new], Requeue(q, p, T[p], new, head), c)
<1> DEFINE U == [T EXCEPT ![p] = new]
           r == Requeue(q, p, T[p], new, head)
<1>1. /\ U \in [Tasks -> TaskType] /\ U[p] = new
      /\ \A x \in Tasks \ {p} : U[x] = T[x]
  BY DEF StateOK, TaskOK
<1> HIDE DEF U
<1>2. \A x \in Tasks : TaskOK(U[x]) /\ SameLife(T[x], U[x])
  BY <1>1 DEF StateOK, SameLife
<1>3. NewbornsOK(U)
  <2>1. \A x \in Tasks : U[x].newborn = T[x].newborn /\ U[x].life = T[x].life
    BY <1>2 DEF SameLife
  <2>2. \A x \in Tasks : T[x].newborn \subseteq Tasks
    BY DEF StateOK, TaskType
  <2> QED  BY <2>1, <2>2 DEF StateOK, NewbornsOK
<1>4. /\ T[p].class \in {"rt", "wrr", "fair"}
      /\ SameButFor(p, T, U)
      /\ T[p].on_rq <=> U[p].on_rq
  BY <1>1, <1>2 DEF StateOK, TaskType, Classes, SameButFor, SamePlace, SameLife
<1>5. Placeable(U[p])
  BY <1>2, TaskPlaceable
<1>6. r \in RqType /\ RqOK(r, U)
  BY <1>1, <1>4, <1>5, RequeueTask DEF StateOK
<1>7. (c # Idle => U[c].on_rq) /\ \A x \in Tasks : Dead(U[x]) => x = c
  BY <1>2 DEF StateOK, SameLife, Dead
<1> QED  BY <1>1, <1>2, <1>3, <1>6, <1>7 DEF StateOK, U

\* __schedule: the picked task is queued, and a dead task, which is off the
\* run queue by then, takes nothing with it.
LEMMA SwitchOK ==
  ASSUME NEW T \in [Tasks -> TaskType], NEW q \in RqType, NEW c, NEW U,
         \A p \in Tasks : TaskOK(T[p]),
         NewbornsOK(T), RqOK(q, T),
         \A p \in Tasks : Dead(T[p]) => ~T[p].on_rq,
         c \in (IF pick_next_task(q) = {} THEN {Idle} ELSE pick_next_task(q)),
         U = [p \in Tasks |-> IF T[p].life = "live" /\ T[p].state = "dead"
                                THEN NoTask ELSE T[p]]
  PROVE  StateOK(U, q, c)
<1>1. \A p \in Tasks : U[p] = IF Dead(T[p]) THEN NoTask ELSE T[p]
  BY DEF Dead
<1>2. U \in [Tasks -> TaskType]
  BY NoTaskOK DEF TaskOK
<1>3. \A p \in Tasks : TaskOK(U[p]) /\ ~Dead(U[p])
  BY <1>1, NoTaskOK DEF Dead
<1>4. \A p \in Tasks : SamePlace(T[p], U[p])
  BY <1>1, NoTaskOK DEF SamePlace
<1>5. RqOK(q, U)
  BY <1>4, SamePlaces
<1>6. NewbornsOK(U)
  <2>1. \A p \in Tasks : U[p].newborn \subseteq T[p].newborn
    BY <1>1, NoTaskOK
  <2>2. \A p \in Tasks : T[p].newborn \subseteq Tasks
    BY DEF TaskType
  <2>3. \A p \in Tasks : T[p].life = "new" => U[p].life = "new"
    BY <1>1 DEF Dead
  <2> QED  BY <2>1, <2>2, <2>3 DEF NewbornsOK
<1>7. c # Idle => c \in Tasks /\ U[c].on_rq
  <2> HAVE c # Idle
  <2>1. c \in Members(U, "rt") \cup Members(U, "wrr") \cup Members(U, "fair")
    BY <1>5, PickNext
  <2> QED  BY <2>1 DEF Members
<1> QED  BY <1>2, <1>3, <1>5, <1>6, <1>7 DEF StateOK

\* A task that was not queued and did not run is put on the run queue.
LEMMA WakeOK ==
  ASSUME NEW T, NEW q, NEW c, StateOK(T, q, c), NEW p \in Tasks, NEW U,
         U \in [Tasks -> TaskType], \A x \in Tasks : TaskOK(U[x]), NewbornsOK(U),
         ~T[p].on_rq, U[p].on_rq, SameButFor(p, T, U),
         \A x \in Tasks \ {p} : Dead(U[x]) => Dead(T[x]), ~Dead(U[p])
  PROVE  StateOK(U, enqueue_task(q, p, U[p], FALSE), c)
<1> DEFINE r == enqueue_task(q, p, U[p], FALSE)
<1>1. r \in RqType /\ RqOK(r, U)
  BY TaskPlaceable, EnqueueTask DEF StateOK
<1>2. c # Idle => U[c].on_rq
  BY DEF StateOK, SameButFor, SamePlace
<1> HIDE DEF r
<1>3. \A x \in Tasks : Dead(U[x]) => x = c
  BY DEF StateOK
<1> QED  BY <1>1, <1>2, <1>3 DEF StateOK, r

-----------------------------------------------------------------------------
(* The invariant is inductive. *)

\* The first task is queued in CFS and runs.
LEMMA InitOK == Init => IInv
<1> SUFFICES ASSUME Init PROVE IInv
  OBVIOUS
<1> DEFINE V == [p \in Tasks |-> NoTask]
           init == [NoTask EXCEPT !.life = "live", !.state = "running", !.on_rq = TRUE]
<1>1. InitTask \in Tasks
  BY SchedAssumption
<1>2. /\ init \in TaskType /\ init.on_rq /\ init.life = "live" /\ init.state = "running"
      /\ init.class = "fair" /\ init.newborn = {} /\ SameLife(init, init)
      /\ init.policy = NoTask.policy /\ init.prio = NoTask.prio /\ init.pi = NoTask.pi
      /\ init.normal_prio = NoTask.normal_prio /\ init.static_prio = NoTask.static_prio
      /\ init.rt_priority = NoTask.rt_priority
  BY NoTaskOK DEF TaskOK, TaskType, NoTask, SameLife
<1>3. NoTask.class = "fair"
  BY DEF NoTask
<1> HIDE DEF init
<1>4. TaskOK(init)
  <2>1. AttributesOK(init)
    BY <1>2, <1>3, NoTaskOK DEF TaskOK, AttributesOK, normal_prio, rt_mutex_getprio
  <2>2. LifeOK(init)
    BY <1>2 DEF LifeOK
  <2> QED  BY <1>2, <2>1, <2>2 DEF TaskOK
<1>5. /\ task \in [Tasks -> TaskType] /\ task[InitTask] = init
      /\ \A p \in Tasks \ {InitTask} : task[p] = NoTask
  BY <1>1, <1>2, NoTaskOK DEF Init, TaskOK, init
<1>6. EmptyRq \in RqType /\ RqOK(EmptyRq, V)
  BY NoTaskOK, EmptyRqOK
<1>7. /\ ~V[InitTask].on_rq
      /\ SameButFor(InitTask, V, task)
  BY <1>1, <1>5, NoTaskOK DEF SameButFor, SamePlace
<1> HIDE DEF V
<1>8. rq \in RqType /\ RqOK(rq, task)
  BY <1>1, <1>2, <1>5, <1>6, <1>7, EnqueueFair DEF Init
<1>9. \A p \in Tasks : TaskOK(task[p]) /\ task[p].newborn = {} /\ ~Dead(task[p])
  BY <1>2, <1>4, <1>5, NoTaskOK DEF Dead
<1>10. NewbornsOK(task)
  BY <1>9 DEF NewbornsOK
<1>11. curr = InitTask /\ need_resched = FALSE
  BY DEF Init
<1> QED  BY <1>1, <1>2, <1>5, <1>8, <1>9, <1>10, <1>11 DEF IInv, StateOK

\* The parts of the invariant at the current task, when it is not idle.
LEMMA CurrOK ==
  ASSUME IInv, curr # Idle
  PROVE  curr \in Tasks /\ TaskOK(task[curr]) /\ task[curr].on_rq /\ task[curr].life = "live"
BY DEF IInv, StateOK, TaskOK, LifeOK

\* The timer interrupt.
LEMMA TickStep == IInv /\ Tick => IInv'
<1> SUFFICES ASSUME IInv, Tick PROVE IInv'
  OBVIOUS
<1> DEFINE t == task[curr]
<1>1. /\ curr # Idle /\ curr' = curr
      /\ curr \in Tasks /\ TaskOK(t) /\ t \in TaskType /\ task \in [Tasks -> TaskType]
  BY CurrOK DEF Tick, IInv, StateOK, TaskOK
<1>2. CASE task_tick_wrr(curr)
  <2> DEFINE left == Decrement(IF t.wrr_slice = 0 THEN timeslice(t) ELSE t.wrr_slice)
             aged == [t EXCEPT !.wrr_slice = left, !.prio = Aged(@)]
             filled == [t EXCEPT !.wrr_slice = timeslice(t)]
  <2>1. timeslice(t) \in 0 .. UINT_MAX
    BY SchedAssumption DEF timeslice
  <2>2. left \in 0 .. UINT_MAX
    <3>1. t.wrr_slice \in 0 .. UINT_MAX
      BY <1>1 DEF TaskType
    <3>2. ASSUME NEW n \in 0 .. UINT_MAX PROVE Decrement(n) \in 0 .. UINT_MAX
      BY Ranges DEF Decrement
    <3> QED  BY <2>1, <3>1, <3>2
  <2> HIDE DEF left
  <2>3. t.class = "wrr"
    BY <1>2 DEF task_tick_wrr
  <2>4. TaskOK(aged) /\ TaskOK(filled)
    BY <1>1, <2>1, <2>2, <2>3, TickWrrOK
  <2>5. /\ SameLife(t, aged) /\ SamePlace(t, aged)
        /\ SameLife(t, filled) /\ SamePlace(t, filled)
    BY <1>1, <2>3 DEF TaskType, SameLife, SamePlace
  <2>6. CASE left > 0 /\ task' = [task EXCEPT ![curr] = aged] /\ rq' = rq
             /\ need_resched' = need_resched
    <3>1. StateOK(task', rq', curr')
      BY <1>1, <2>4, <2>5, <2>6, ReplaceOK DEF IInv
    <3> QED  BY <2>6, <3>1 DEF IInv, StateOK
  <2>7. CASE /\ task' = [task EXCEPT ![curr] = filled]
             /\ \/ rq' = requeue_task_wrr(rq, curr) /\ need_resched' = TRUE
                \/ rq' = rq /\ need_resched' = need_resched
    <3>1. StateOK(task', rq, curr)
      BY <1>1, <2>4, <2>5, <2>7, ReplaceOK DEF IInv
    <3>2. StateOK(task', requeue_task_wrr(rq, curr), curr)
      BY <1>1, <3>1, RequeueWrr DEF StateOK
    <3> QED  BY <1>1, <2>7, <3>1, <3>2 DEF IInv, StateOK
  <2>8. \/ left > 0 /\ task' = [task EXCEPT ![curr] = aged] /\ rq' = rq
           /\ need_resched' = need_resched
        \/ /\ task' = [task EXCEPT ![curr] = filled]
           /\ \/ rq' = requeue_task_wrr(rq, curr) /\ need_resched' = TRUE
              \/ rq' = rq /\ need_resched' = need_resched
    BY <1>1, <1>2 DEF task_tick_wrr, left
  <2> QED  BY <2>6, <2>7, <2>8
<1>3. CASE task_tick_rt(curr)
  <2>1. ASSUME NEW slice \in 1 .. RR_TIMESLICE
        PROVE  LET new == [t EXCEPT !.rt_slice = slice]
               IN  TaskOK(new) /\ SameLife(t, new) /\ SamePlace(t, new) /\ new.prio = t.prio
    <3> DEFINE new == [t EXCEPT !.rt_slice = slice]
    <3>1. /\ new \in TaskType /\ SameLife(t, new) /\ SamePlace(t, new) /\ new.class = t.class
          /\ new.policy = t.policy /\ new.rt_priority = t.rt_priority /\ new.prio = t.prio
          /\ new.static_prio = t.static_prio /\ new.normal_prio = t.normal_prio
          /\ new.pi = t.pi
      BY <1>1 DEF TaskType, SameLife, SamePlace
    <3> HIDE DEF new
    <3>2. AttributesOK(new)
      BY <1>1, <3>1 DEF TaskOK, AttributesOK, normal_prio, rt_mutex_getprio
    <3>3. LifeOK(new)
      BY <1>1, <3>1 DEF TaskOK, LifeOK, SameLife
    <3> QED  BY <3>1, <3>2, <3>3 DEF TaskOK, new
  <2> DEFINE New(slice) == [t EXCEPT !.rt_slice = slice]
  <2>2. PICK slice \in 1 .. RR_TIMESLICE :
          /\ task' = [task EXCEPT ![curr] = New(slice)]
          /\ \/ rq' = requeue_task_rt(rq, curr, t) /\ need_resched' = TRUE
             \/ rq' = rq /\ need_resched' = need_resched
    <3>1. t.rt_slice \in 1 .. RR_TIMESLICE /\ RR_TIMESLICE \in 1 .. RR_TIMESLICE
      BY <1>1, Ranges DEF TaskType
    <3>2. CASE t.rt_slice > 1 /\ task' = [task EXCEPT ![curr].rt_slice = @ - 1]
               /\ rq' = rq /\ need_resched' = need_resched
      <4>1. t.rt_slice - 1 \in 1 .. RR_TIMESLICE
        BY <3>1, <3>2, Ranges
      <4> QED  BY <1>1, <3>2, <4>1
    <3>3. CASE /\ task' = [task EXCEPT ![curr].rt_slice = RR_TIMESLICE]
               /\ \/ rq' = requeue_task_rt(rq, curr, t) /\ need_resched' = TRUE
                  \/ rq' = rq /\ need_resched' = need_resched
      BY <1>1, <3>1, <3>3
    <3> QED  BY <1>3, <3>2, <3>3 DEF task_tick_rt
  <2>3. StateOK(task', rq, curr)
    BY <1>1, <2>1, <2>2, ReplaceOK DEF IInv
  <2>4. StateOK(task', requeue_task_rt(rq, curr, t), curr)
    <3>1. task'[curr].prio = t.prio
      BY <1>1, <2>1, <2>2
    <3>2. requeue_task_rt(rq, curr, t) = requeue_task_rt(rq, curr, task'[curr])
      BY <3>1 DEF requeue_task_rt
    <3> QED  BY <1>1, <2>3, <3>2, RequeueRt DEF StateOK
  <2> QED  BY <1>1, <2>2, <2>3, <2>4 DEF IInv, StateOK
<1>4. CASE task_tick_fair(curr)
  BY <1>1, <1>4 DEF task_tick_fair, IInv, StateOK
<1> QED  BY <1>2, <1>3, <1>4 DEF Tick

\* schedule(), called or by preemption.
LEMMA ScheduleStep == IInv /\ Schedule => IInv'
<1> SUFFICES ASSUME IInv, Schedule PROVE IInv'
  OBVIOUS
<1> DEFINE t == task[curr]
           awake == [task EXCEPT ![curr].state = "running"]
           asleep == [task EXCEPT ![curr].on_rq = FALSE]
<1>1. /\ curr \in Tasks /\ TaskOK(t) /\ t.on_rq /\ t.life = "live" /\ t \in TaskType
      /\ task \in [Tasks -> TaskType] /\ rq \in RqType /\ RqOK(rq, task)
      /\ \A p \in Tasks : TaskOK(task[p])
      /\ NewbornsOK(task)
      /\ \A p \in Tasks : Dead(task[p]) => p = curr
  BY CurrOK DEF Schedule, IInv, StateOK, TaskOK
<1>2. CASE t.state = "running" /\ Switch(task, rq)
  <2>1. \A p \in Tasks : Dead(task[p]) => ~task[p].on_rq
    BY <1>1, <1>2 DEF Dead
  <2>2. StateOK(task', rq, curr')
    BY <1>1, <1>2, <2>1, SwitchOK DEF Switch
  <2> QED  BY <1>2, <2>2 DEF Switch, IInv
<1>3. CASE t.state = "intr" /\ Switch(awake, rq)
  <2> DEFINE new == [t EXCEPT !.state = "running"]
  <2>1. /\ awake = [task EXCEPT ![curr] = new]
        /\ new \in TaskType /\ new.life = t.life /\ new.on_rq = t.on_rq
        /\ new.newborn = t.newborn /\ new.state = "running" /\ new.class = t.class
        /\ new.policy = t.policy /\ new.rt_priority = t.rt_priority /\ new.prio = t.prio
        /\ new.static_prio = t.static_prio /\ new.normal_prio = t.normal_prio
        /\ new.pi = t.pi
    BY <1>1 DEF TaskType
  <2> HIDE DEF new
  <2>2. TaskOK(new)
    BY <1>1, <2>1 DEF TaskOK, AttributesOK, normal_prio, rt_mutex_getprio, LifeOK
  <2>3. /\ awake \in [Tasks -> TaskType] /\ awake[curr] = new
        /\ \A p \in Tasks \ {curr} : awake[p] = task[p]
    BY <1>1, <2>1
  <2> HIDE DEF awake
  <2>4. \A p \in Tasks : /\ TaskOK(awake[p]) /\ SamePlace(task[p], awake[p])
                         /\ awake[p].newborn = task[p].newborn
                         /\ awake[p].life = task[p].life
                         /\ ~Dead(awake[p])
    BY <1>1, <2>1, <2>2, <2>3 DEF SamePlace, Dead
  <2>5. NewbornsOK(awake)
    <3>1. \A p \in Tasks : task[p].newborn \subseteq Tasks
      BY <1>1 DEF TaskType
    <3> QED  BY <1>1, <2>4, <3>1 DEF NewbornsOK
  <2>6. RqOK(rq, awake)
    BY <1>1, <2>4, SamePlaces
  <2>7. StateOK(task', rq, curr')
    BY <1>1, <1>3, <2>3, <2>4, <2>5, <2>6, SwitchOK DEF Switch
  <2> QED  BY <1>3, <2>7 DEF Switch, IInv
<1>4. CASE t.state # "running" /\ Switch(asleep, dequeue_task(rq, curr, t))
  <2> DEFINE new == [t EXCEPT !.on_rq = FALSE]
             q == dequeue_task(rq, curr, t)
  <2>1. /\ asleep = [task EXCEPT ![curr] = new]
        /\ new \in TaskType /\ new.life = t.life /\ new.on_rq = FALSE
        /\ new.newborn = t.newborn /\ new.state = t.state /\ new.class = t.class
        /\ new.policy = t.policy /\ new.rt_priority = t.rt_priority /\ new.prio = t.prio
        /\ new.static_prio = t.static_prio /\ new.normal_prio = t.normal_prio
        /\ new.pi = t.pi
    BY <1>1 DEF TaskType
  <2> HIDE DEF new
  <2>2. TaskOK(new)
    BY <1>1, <1>4, <2>1 DEF TaskOK, AttributesOK, normal_prio, rt_mutex_getprio, LifeOK
  <2>3. /\ asleep \in [Tasks -> TaskType] /\ asleep[curr] = new
        /\ \A p \in Tasks \ {curr} : asleep[p] = task[p]
    BY <1>1, <2>1
  <2> HIDE DEF asleep
  <2>4. \A p \in Tasks : /\ TaskOK(asleep[p])
                         /\ asleep[p].newborn = task[p].newborn
                         /\ asleep[p].life = task[p].life
                         /\ Dead(asleep[p]) => ~asleep[p].on_rq
    BY <1>1, <2>1, <2>2, <2>3 DEF Dead
  <2>5. NewbornsOK(asleep)
    <3>1. \A p \in Tasks : task[p].newborn \subseteq Tasks
      BY <1>1 DEF TaskType
    <3> QED  BY <1>1, <2>4, <3>1 DEF NewbornsOK
  <2>6. SameButFor(curr, task, asleep) /\ ~asleep[curr].on_rq
        /\ t.class \in {"rt", "wrr", "fair"}
    BY <1>1, <2>1, <2>3 DEF SameButFor, SamePlace, TaskType, Classes
  <2>7. q \in RqType /\ RqOK(q, asleep)
    BY <1>1, <2>6, DequeueTask
  <2> HIDE DEF q
  <2>8. StateOK(task', q, curr')
    BY <1>4, <2>3, <2>4, <2>5, <2>7, SwitchOK DEF Switch, q
  <2> QED  BY <1>4, <2>8 DEF Switch, IInv, q
<1> QED  BY <1>2, <1>3, <1>4 DEF Schedule

\* A preemption leaves the current task queued, and is not for the dead.
LEMMA PreemptScheduleStep == IInv /\ PreemptSchedule => IInv'
<1> SUFFICES ASSUME IInv, PreemptSchedule PROVE IInv'
  OBVIOUS
<1>1. \A p \in Tasks : Dead(task[p]) => ~task[p].on_rq
  BY SchedAssumption DEF PreemptSchedule, Dead, IInv, StateOK
<1>2. /\ task \in [Tasks -> TaskType] /\ rq \in RqType /\ RqOK(rq, task)
      /\ NewbornsOK(task) /\ \A p \in Tasks : TaskOK(task[p])
  BY DEF IInv, StateOK
<1>3. Switch(task, rq)
  BY DEF PreemptSchedule
<1>4. StateOK(task', rq, curr')
  BY <1>1, <1>2, <1>3, SwitchOK DEF Switch
<1> QED  BY <1>3, <1>4 DEF Switch, IInv

\* sched_yield sends the current task to the tail of its list.
LEMMA SchedYieldStep == IInv /\ SchedYield => IInv'
<1> SUFFICES ASSUME IInv, SchedYield PROVE IInv'
  OBVIOUS
<1>1. /\ curr \in Tasks /\ task[curr].class \in Classes /\ task[curr].state = "running"
  BY CurrOK DEF SchedYield, InProcess, TaskOK, TaskType
<1>2. yield_task(curr) \in RqType /\ RqOK(yield_task(curr), task)
  <2>1. rq \in RqType /\ RqOK(rq, task)
    BY DEF IInv, StateOK
  <2>2. CASE task[curr].class = "rt"
    BY <1>1, <2>1, <2>2, RequeueRt DEF yield_task
  <2>3. CASE task[curr].class = "wrr"
    BY <1>1, <2>1, <2>3, RequeueWrr DEF yield_task
  <2>4. CASE task[curr].class = "fair"
    BY <2>1, <2>4 DEF yield_task
  <2> QED  BY <1>1, <2>2, <2>3, <2>4 DEF Classes
<1>3. \A p \in Tasks : Dead(task[p]) => ~task[p].on_rq
  BY <1>1 DEF Dead, IInv, StateOK
<1> DEFINE q == yield_task(curr)
<1>4. /\ task \in [Tasks -> TaskType]
      /\ NewbornsOK(task) /\ \A p \in Tasks : TaskOK(task[p])
  BY DEF IInv, StateOK
<1>5. Switch(task, q)
  BY DEF SchedYield
<1> HIDE DEF q
<1>6. StateOK(task', q, curr')
  BY <1>2, <1>3, <1>4, <1>5, SwitchOK DEF Switch, q
<1> QED  BY <1>5, <1>6 DEF Switch, IInv

\* The current task is about to sleep, or to die: it is still queued.
LEMMA SetCurrentStateStep ==
  ASSUME NEW s \in {"intr", "unintr", "dead"}
  PROVE  IInv /\ InProcess(curr) /\ task' = [task EXCEPT ![curr].state = s]
              /\ rq' = rq /\ curr' = curr /\ need_resched' = need_resched => IInv'
<1> SUFFICES ASSUME IInv, InProcess(curr), task' = [task EXCEPT ![curr].state = s],
                    rq' = rq, curr' = curr, need_resched' = need_resched
             PROVE  IInv'
  OBVIOUS
<1> DEFINE t == task[curr]
           new == [t EXCEPT !.state = s]
<1>1. /\ curr \in Tasks /\ TaskOK(t) /\ t.on_rq /\ t.life = "live" /\ t \in TaskType
      /\ task \in [Tasks -> TaskType]
  BY CurrOK DEF InProcess, IInv, StateOK, TaskOK
<1>2. /\ task' = [task EXCEPT ![curr] = new]
      /\ new \in TaskType /\ new.life = t.life /\ new.on_rq = t.on_rq
      /\ new.newborn = t.newborn /\ new.state = s /\ new.class = t.class
      /\ new.policy = t.policy /\ new.rt_priority = t.rt_priority /\ new.prio = t.prio
      /\ new.static_prio = t.static_prio /\ new.normal_prio = t.normal_prio
      /\ new.pi = t.pi
  BY <1>1 DEF TaskType
<1> HIDE DEF new
<1>3. TaskOK(new)
  BY <1>1, <1>2 DEF TaskOK, AttributesOK, normal_prio, rt_mutex_getprio, LifeOK
<1>4. /\ task' \in [Tasks -> TaskType] /\ task'[curr] = new
      /\ \A p \in Tasks \ {curr} : task'[p] = task[p]
  BY <1>1, <1>2
<1>5. \A p \in Tasks : /\ TaskOK(task'[p]) /\ SamePlace(task[p], task'[p])
                       /\ task'[p].newborn = task[p].newborn
                       /\ task'[p].life = task[p].life
                       /\ Dead(task'[p]) => p = curr
  BY <1>1, <1>2, <1>3, <1>4 DEF SamePlace, Dead, IInv, StateOK
<1>6. NewbornsOK(task')
  <2>1. \A p \in Tasks : task[p].newborn \subseteq Tasks
    BY <1>1 DEF TaskType
  <2> QED  BY <1>5, <2>1 DEF NewbornsOK, IInv, StateOK
<1>7. RqOK(rq, task')
  BY <1>5, SamePlaces DEF IInv, StateOK
<1>8. task'[curr].on_rq
  BY <1>1, <1>2, <1>4
<1> QED  BY <1>4, <1>5, <1>6, <1>7, <1>8 DEF IInv, StateOK

\* A sleeper, still queued or not, becomes runnable and queued.
LEMMA WakeUpStep ==
  ASSUME NEW p \in Tasks
  PROVE  IInv /\ try_to_wake_up(p) => IInv'
<1> SUFFICES ASSUME IInv, try_to_wake_up(p) PROVE IInv'
  OBVIOUS
<1> DEFINE t == task[p]
           new == Woken(t)
<1>1. /\ TaskOK(t) /\ t \in TaskType /\ t.state \in {"intr", "unintr"} /\ t.life = "live"
      /\ task \in [Tasks -> TaskType] /\ task' = [task EXCEPT ![p] = new]
      /\ curr' = curr /\ need_resched' \in BOOLEAN
  BY DEF try_to_wake_up, Resched, IInv, StateOK, TaskOK, LifeOK, TaskType
<1>2. /\ new \in TaskType /\ new.life = "live" /\ new.on_rq
      /\ new.newborn = t.newborn /\ new.state = "running" /\ new.class = t.class
      /\ new.policy = t.policy /\ new.rt_priority = t.rt_priority /\ new.prio = t.prio
      /\ new.static_prio = t.static_prio /\ new.normal_prio = t.normal_prio
      /\ new.pi = t.pi
  BY <1>1 DEF TaskType, Woken
<1>3. rq' = IF t.on_rq THEN rq ELSE enqueue_task(rq, p, new, FALSE)
  BY DEF try_to_wake_up
<1> HIDE DEF new
<1>4. TaskOK(new)
  BY <1>1, <1>2 DEF TaskOK, AttributesOK, normal_prio, rt_mutex_getprio, LifeOK
<1>5. /\ task' \in [Tasks -> TaskType] /\ task'[p] = new
      /\ \A x \in Tasks \ {p} : task'[x] = task[x]
  BY <1>1, <1>2
<1>6. \A x \in Tasks : /\ TaskOK(task'[x])
                       /\ task'[x].newborn = task[x].newborn
                       /\ task'[x].life = task[x].life
                       /\ Dead(task'[x]) => Dead(task[x])
  BY <1>1, <1>2, <1>4, <1>5 DEF Dead, IInv, StateOK
<1>7. NewbornsOK(task')
  <2>1. \A x \in Tasks : task[x].newborn \subseteq Tasks
    BY <1>1 DEF TaskType
  <2> QED  BY <1>6, <2>1 DEF NewbornsOK, IInv, StateOK
<1>8. ~Dead(task'[p]) /\ SameButFor(p, task, task')
  BY <1>2, <1>5 DEF Dead, SameButFor, SamePlace
<1>9. CASE t.on_rq
  <2>1. \A x \in Tasks : SamePlace(task[x], task'[x])
    BY <1>2, <1>5, <1>9 DEF SamePlace
  <2>2. RqOK(rq, task') /\ (curr # Idle => task'[curr].on_rq)
    BY <2>1, SamePlaces DEF IInv, StateOK, SamePlace
  <2> QED  BY <1>1, <1>3, <1>5, <1>6, <1>7, <1>9, <2>2 DEF IInv, StateOK
<1>10. CASE ~t.on_rq
  <2>1. StateOK(task', rq', curr)
    BY <1>2, <1>3, <1>5, <1>6, <1>7, <1>8, <1>10, WakeOK DEF IInv
  <2> QED  BY <1>1, <2>1 DEF IInv
<1> QED  BY <1>9, <1>10

\* A child is set up in a free slot; its parent holds it.
LEMMA ForkStep ==
  ASSUME NEW p \in Tasks
  PROVE  IInv /\ Fork(p) => IInv'
<1> SUFFICES ASSUME IInv, Fork(p) PROVE IInv'
  OBVIOUS
<1> DEFINE t == task[curr]
           child == sched_fork(t)
           parent == [t EXCEPT !.newborn = {p}]
<1>1. /\ curr \in Tasks /\ TaskOK(t) /\ t.on_rq /\ t.life = "live" /\ t \in TaskType
      /\ task \in [Tasks -> TaskType] /\ TaskOK(task[p])
      /\ task[p].life = "none" /\ t.newborn = {} /\ t.state = "running"
      /\ task' = [task EXCEPT ![p] = child, ![curr].newborn = {p}]
      /\ rq' = rq /\ curr' = curr /\ need_resched' = need_resched
  BY CurrOK DEF Fork, InProcess, Exists, IInv, StateOK, TaskOK, TaskType
<1>2. p # curr /\ ~task[p].on_rq
  BY <1>1 DEF TaskOK, LifeOK
<1>3. TaskOK(child) /\ child.life = "new" /\ ~child.on_rq /\ child.newborn = {}
  BY <1>1, SchedForkOK
<1>4. /\ parent \in TaskType /\ parent.life = t.life /\ parent.on_rq = t.on_rq
      /\ parent.newborn = {p} /\ parent.state = t.state /\ parent.class = t.class
      /\ parent.policy = t.policy /\ parent.rt_priority = t.rt_priority
      /\ parent.prio = t.prio /\ parent.static_prio = t.static_prio
      /\ parent.normal_prio = t.normal_prio /\ parent.pi = t.pi
  BY <1>1 DEF TaskType
<1>5. task' = [task EXCEPT ![p] = child, ![curr] = parent]
  BY <1>1, <1>2
<1> HIDE DEF child, parent
<1>6. TaskOK(parent)
  BY <1>1, <1>4 DEF TaskOK, AttributesOK, normal_prio, rt_mutex_getprio, LifeOK
<1>7. /\ task' \in [Tasks -> TaskType] /\ task'[p] = child /\ task'[curr] = parent
      /\ \A x \in Tasks \ {p, curr} : task'[x] = task[x]
  BY <1>1, <1>2, <1>3, <1>4, <1>5 DEF TaskOK
<1>8. \A x \in Tasks : TaskOK(task'[x]) /\ SamePlace(task[x], task'[x])
                       /\ (Dead(task'[x]) => Dead(task[x]))
  <2> TAKE x \in Tasks
  <2>1. CASE x = p
    BY <1>2, <1>3, <1>7, <2>1 DEF SamePlace, Dead
  <2>2. CASE x = curr
    BY <1>1, <1>4, <1>6, <1>7, <2>2 DEF SamePlace, Dead
  <2>3. CASE x \notin {p, curr}
    BY <1>7, <2>3 DEF SamePlace, IInv, StateOK
  <2> QED  BY <2>1, <2>2, <2>3
<1>9. NewbornsOK(task')
  <2>1. \A x \in Tasks : task[x].newborn \subseteq Tasks /\ p \notin task[x].newborn
    BY <1>1 DEF NewbornsOK, IInv, StateOK, TaskType
  <2>2. /\ task'[p].newborn = {} /\ task'[curr].newborn = {p}
        /\ \A x \in Tasks \ {p, curr} : task'[x].newborn = task[x].newborn
    BY <1>3, <1>4, <1>7
  <2>3. task'[p].life = "new" /\ \A x \in Tasks \ {p} : task'[x].life = task[x].life
    BY <1>1, <1>3, <1>4, <1>7
  <2>4. \A x \in Tasks : \A y \in task[x].newborn :
          task[y].life = "new" /\ \A r \in Tasks : y \in task[r].newborn => r = x
    BY DEF NewbornsOK, IInv, StateOK
  <2>5. ASSUME NEW x \in Tasks, NEW y \in task'[x].newborn
        PROVE  task'[y].life = "new" /\ \A r \in Tasks : y \in task'[r].newborn => r = x
    <3>1. CASE x = curr
      BY <1>2, <2>1, <2>2, <2>3, <2>5, <3>1
    <3>2. CASE x # curr
      <4>1. x # p /\ y \in task[x].newborn /\ y # p
        BY <2>1, <2>2, <2>5, <3>2
      <4> QED  BY <2>1, <2>2, <2>3, <2>4, <3>2, <4>1
    <3> QED  BY <3>1, <3>2
  <2> QED  BY <2>5 DEF NewbornsOK
<1>10. RqOK(rq, task')
  BY <1>8, SamePlaces DEF IInv, StateOK
<1>11. task'[curr].on_rq /\ \A x \in Tasks : Dead(task'[x]) => x = curr
  BY <1>1, <1>4, <1>7, <1>8 DEF IInv, StateOK
<1> QED  BY <1>1, <1>7, <1>8, <1>9, <1>10, <1>11 DEF IInv, StateOK

\* The child is queued for the first time.
LEMMA WakeUpNewStep ==
  ASSUME NEW p \in Tasks
  PROVE  IInv /\ wake_up_new_task(p) => IInv'
<1> SUFFICES ASSUME IInv, wake_up_new_task(p) PROVE IInv'
  OBVIOUS
<1> DEFINE t == task[curr]
           new == [task[p] EXCEPT !.life = "live", !.on_rq = TRUE]
           parent == [t EXCEPT !.newborn = {}]
<1>1. /\ curr \in Tasks /\ TaskOK(t) /\ t.on_rq /\ t.life = "live" /\ t \in TaskType
      /\ task \in [Tasks -> TaskType] /\ TaskOK(task[p]) /\ task[p] \in TaskType
      /\ p \in t.newborn /\ task[p].life = "new"
      /\ task' = [task EXCEPT ![p] = new, ![curr].newborn = {}]
      /\ rq' = enqueue_task(rq, p, new, FALSE)
      /\ curr' = curr /\ need_resched' \in BOOLEAN
  BY CurrOK DEF wake_up_new_task, Resched, IInv, StateOK, NewbornsOK, TaskOK
<1>2. p # curr /\ ~task[p].on_rq /\ task[p].state = "running"
  BY <1>1 DEF TaskOK, LifeOK
<1>3. /\ parent \in TaskType /\ parent.life = t.life /\ parent.on_rq = t.on_rq
      /\ parent.newborn = {} /\ parent.state = t.state /\ parent.class = t.class
      /\ parent.policy = t.policy /\ parent.rt_priority = t.rt_priority
      /\ parent.prio = t.prio /\ parent.static_prio = t.static_prio
      /\ parent.normal_prio = t.normal_prio /\ parent.pi = t.pi
  BY <1>1 DEF TaskType
<1>4. /\ new \in TaskType /\ new.life = "live" /\ new.on_rq
      /\ new.newborn = task[p].newborn /\ new.state = "running"
      /\ new.class = task[p].class /\ new.policy = task[p].policy
      /\ new.rt_priority = task[p].rt_priority /\ new.prio = task[p].prio
      /\ new.static_prio = task[p].static_prio /\ new.normal_prio = task[p].normal_prio
      /\ new.pi = task[p].pi
  BY <1>1, <1>2 DEF TaskType
<1>5. task' = [task EXCEPT ![p] = new, ![curr] = parent]
  BY <1>1, <1>2
<1> HIDE DEF new, parent
<1>6. TaskOK(parent)
  BY <1>1, <1>3 DEF TaskOK, AttributesOK, normal_prio, rt_mutex_getprio, LifeOK
<1>7. TaskOK(new)
  BY <1>1, <1>4 DEF TaskOK, AttributesOK, normal_prio, rt_mutex_getprio, LifeOK
<1>8. /\ task' \in [Tasks -> TaskType] /\ task'[p] = new /\ task'[curr] = parent
      /\ \A x \in Tasks \ {p, curr} : task'[x] = task[x]
  BY <1>1, <1>2, <1>3, <1>4, <1>5
<1>9. SameButFor(p, task, task')
  BY <1>1, <1>3, <1>8 DEF SameButFor, SamePlace
<1>10. \A x \in Tasks : TaskOK(task'[x])
  BY <1>6, <1>7, <1>8 DEF IInv, StateOK
<1>11. (\A x \in Tasks \ {p} : Dead(task'[x]) => Dead(task[x])) /\ ~Dead(task'[p])
  BY <1>3, <1>4, <1>8 DEF Dead
<1>12. NewbornsOK(task')
  <2>1. \A x \in Tasks : task[x].newborn \subseteq Tasks
    BY <1>1 DEF TaskType
  <2>2. \A x \in Tasks : \A y \in task[x].newborn :
          task[y].life = "new" /\ \A r \in Tasks : y \in task[r].newborn => r = x
    BY DEF NewbornsOK, IInv, StateOK
  <2>3. /\ task'[curr].newborn = {} /\ task'[p].newborn = task[p].newborn
        /\ \A x \in Tasks \ {curr} : task'[x].newborn = task[x].newborn
    BY <1>2, <1>3, <1>4, <1>8
  <2>4. \A x \in Tasks \ {p} : task'[x].life = task[x].life
    BY <1>3, <1>8
  <2>5. ASSUME NEW x \in Tasks, NEW y \in task'[x].newborn
        PROVE  task'[y].life = "new" /\ \A r \in Tasks : y \in task'[r].newborn => r = x
    <3>1. x # curr /\ y \in task[x].newborn /\ y \in Tasks
      BY <2>1, <2>3
    <3>2. y # p
      BY <1>1, <2>2, <3>1
    <3> QED  BY <2>2, <2>3, <2>4, <3>1, <3>2
  <2> QED  BY <2>5 DEF NewbornsOK
<1>13. StateOK(task', rq', curr)
  <2>1. rq' = enqueue_task(rq, p, task'[p], FALSE) /\ task'[p].on_rq
    BY <1>1, <1>4, <1>8
  <2>2. StateOK(task, rq, curr)
    BY DEF IInv
  <2>3. task' \in [Tasks -> TaskType]
    BY <1>8
  <2> QED  BY <1>2, <1>9, <1>10, <1>11, <1>12, <2>1, <2>2, <2>3, WakeOK
<1> QED  BY <1>1, <1>13 DEF IInv

\* The system calls and the rt_mutex code that change a task's attributes.
LEMMA SetSchedulerStep ==
  ASSUME NEW p \in Tasks, NEW policy \in Policies, NEW prio \in {0} \cup RtParams,
         NEW reset \in ResetFlags
  PROVE  IInv /\ sched_setscheduler(p, policy, prio, reset) => IInv'
<1> SUFFICES ASSUME IInv, sched_setscheduler(p, policy, prio, reset) PROVE IInv'
  OBVIOUS
<1> DEFINE new == __setscheduler([task[p] EXCEPT !.reset_on_fork = reset], policy, prio)
<1>1. policy \in AllPolicies /\ reset \in BOOLEAN /\ prio \in 0 .. (MAX_RT_PRIO - 1)
  BY SchedAssumption, Ranges
<1>2. TaskOK(task[p])
  BY DEF IInv, StateOK
<1>3. TaskOK(new) /\ SameLife(task[p], new)
  BY <1>1, <1>2, SetSchedulerOK
<1>4. /\ task' = [task EXCEPT ![p] = new] /\ rq' = Requeue(rq, p, task[p], new, FALSE)
      /\ curr' = curr /\ need_resched' \in BOOLEAN
  BY DEF sched_setscheduler, Change, Resched
<1> HIDE DEF new
<1>5. StateOK(task', rq', curr')
  BY <1>3, <1>4, ChangeOK DEF IInv
<1> QED  BY <1>4, <1>5 DEF IInv

LEMMA SetUserNiceStep ==
  ASSUME NEW p \in Tasks, NEW static \in NicePrios
  PROVE  IInv /\ set_user_nice(p, static) => IInv'
<1> SUFFICES ASSUME IInv, set_user_nice(p, static) PROVE IInv'
  OBVIOUS
<1> DEFINE nice == [task[p] EXCEPT !.static_prio = static]
           new == [nice EXCEPT !.normal_prio = normal_prio(nice), !.prio = effective_prio(nice)]
<1>1. TaskOK(task[p]) /\ StateOK(task, rq, curr)
  BY DEF IInv, StateOK
<1>2. /\ rt_policy(task[p].policy) => TaskOK(nice) /\ SameLife(task[p], nice) /\ SamePlace(task[p], nice)
      /\ ~rt_policy(task[p].policy) => TaskOK(new) /\ SameLife(task[p], new)
  BY <1>1, SetUserNiceOK
<1>3. \/ /\ rt_policy(task[p].policy) /\ task' = [task EXCEPT ![p] = nice]
         /\ rq' = rq /\ curr' = curr /\ need_resched' = need_resched
      \/ /\ ~rt_policy(task[p].policy) /\ task' = [task EXCEPT ![p] = new]
         /\ rq' = Requeue(rq, p, task[p], new, FALSE)
         /\ curr' = curr /\ need_resched' \in BOOLEAN
  BY DEF set_user_nice, Change, Resched
<1> HIDE DEF nice, new
<1>4. CASE rt_policy(task[p].policy)
  <2>1. StateOK(task', rq', curr')
    BY <1>1, <1>2, <1>3, <1>4, ReplaceOK
  <2> QED  BY <1>3, <1>4, <2>1 DEF IInv
<1>5. CASE ~rt_policy(task[p].policy)
  <2>1. TaskOK(new) /\ SameLife(task[p], new)
    BY <1>2, <1>5
  <2>2. StateOK([task EXCEPT ![p] = new], Requeue(rq, p, task[p], new, FALSE), curr)
    BY <1>1, <2>1, ChangeOK
  <2> QED  BY <1>3, <1>5, <2>2 DEF IInv
<1> QED  BY <1>4, <1>5

LEMMA RtMutexAdjustPrioStep ==
  ASSUME NEW p \in Tasks, NEW w \in PiPrios \cup {NO_WAITER}
  PROVE  IInv /\ RtMutexAdjustPrio(p, w) => IInv'
<1> SUFFICES ASSUME IInv, RtMutexAdjustPrio(p, w) PROVE IInv'
  OBVIOUS
<1> DEFINE u == [task[p] EXCEPT !.pi = w]
           prio == rt_mutex_getprio(u)
           new == rt_mutex_setprio(u, prio)
           head == AtHead(u.prio, prio)
<1>1. TaskOK(task[p]) /\ StateOK(task, rq, curr)
  BY DEF IInv, StateOK
<1>2. u.prio = task[p].prio
  BY <1>1 DEF TaskOK, TaskType
<1>3. /\ prio = u.prio => TaskOK(u) /\ SameLife(task[p], u) /\ SamePlace(task[p], u)
      /\ TaskOK(new) /\ SameLife(task[p], new)
  BY <1>1, <1>2, AdjustPrioOK
<1>4. \/ /\ prio = u.prio /\ task' = [task EXCEPT ![p] = u]
         /\ rq' = rq /\ curr' = curr /\ need_resched' = need_resched
      \/ /\ prio # u.prio /\ task' = [task EXCEPT ![p] = new]
         /\ rq' = Requeue(rq, p, task[p], new, head)
         /\ curr' = curr /\ need_resched' \in BOOLEAN
  BY DEF RtMutexAdjustPrio, Change, Resched
<1>5. head \in BOOLEAN
  BY DEF AtHead
<1> HIDE DEF u, prio, new, head
<1>6. CASE prio = u.prio
  <2>1. StateOK(task', rq', curr')
    BY <1>1, <1>3, <1>4, <1>6, ReplaceOK
  <2> QED  BY <1>4, <1>6, <2>1 DEF IInv
<1>7. CASE prio # u.prio
  <2>1. StateOK(task', rq', curr')
    BY <1>1, <1>3, <1>4, <1>5, <1>7, ChangeOK
  <2> QED  BY <1>4, <1>7, <2>1 DEF IInv
<1> QED  BY <1>6, <1>7

LEMMA MoveTaskStep ==
  ASSUME NEW p \in Tasks, NEW g \in Groups
  PROVE  IInv /\ sched_move_task(p, g) => IInv'
<1> SUFFICES ASSUME IInv, sched_move_task(p, g) PROVE IInv'
  OBVIOUS
<1> DEFINE t == task[p]
           new == [t EXCEPT !.group = g]
<1>1. TaskOK(t) /\ t \in TaskType /\ StateOK(task, rq, curr) /\ g \in {"fore", "back"}
  BY SchedAssumption DEF IInv, StateOK, TaskOK
<1>2. /\ new \in TaskType /\ SameLife(t, new) /\ new.class = t.class
      /\ new.policy = t.policy /\ new.rt_priority = t.rt_priority /\ new.prio = t.prio
      /\ new.static_prio = t.static_prio /\ new.normal_prio = t.normal_prio
      /\ new.pi = t.pi
  BY <1>1 DEF TaskType, SameLife
<1>3. /\ task' = [task EXCEPT ![p] = new] /\ rq' = Requeue(rq, p, t, new, FALSE)
      /\ curr' = curr /\ need_resched' = need_resched
  BY DEF sched_move_task, Change
<1> HIDE DEF new
<1>4. TaskOK(new)
  BY <1>1, <1>2 DEF TaskOK, AttributesOK, normal_prio, rt_mutex_getprio, LifeOK, SameLife
<1>5. StateOK(task', rq', curr')
  BY <1>1, <1>2, <1>3, <1>4, ChangeOK
<1> QED  BY <1>3, <1>5 DEF IInv

\* Every step of the kernel keeps the invariant.
LEMMA NextOK == IInv /\ [Next]_vars => IInv'
<1> SUFFICES ASSUME IInv, [Next]_vars PROVE IInv'
  OBVIOUS
<1>1. CASE Tick
  BY <1>1, TickStep
<1>2. CASE Schedule
  BY <1>2, ScheduleStep
<1>3. CASE PreemptSchedule
  BY <1>3, PreemptScheduleStep
<1>4. CASE SchedYield
  BY <1>4, SchedYieldStep
<1>5. ASSUME NEW s \in SleepStates, SetCurrentState(s) PROVE IInv'
  <2>1. s \in {"intr", "unintr", "dead"}
    BY SchedAssumption
  <2> QED  BY <1>5, <2>1, SetCurrentStateStep DEF SetCurrentState
<1>6. CASE Exit
  BY <1>6, SetCurrentStateStep DEF Exit
<1>7. ASSUME NEW p \in Tasks, try_to_wake_up(p) PROVE IInv'
  BY <1>7, WakeUpStep
<1>8. ASSUME NEW p \in Tasks, Fork(p) PROVE IInv'
  BY <1>8, ForkStep
<1>9. ASSUME NEW p \in Tasks, wake_up_new_task(p) PROVE IInv'
  BY <1>9, WakeUpNewStep
<1>10. ASSUME NEW p \in Tasks, NEW policy \in Policies, NEW prio \in {0} \cup RtParams,
              NEW reset \in ResetFlags, sched_setscheduler(p, policy, prio, reset)
       PROVE  IInv'
  BY <1>10, SetSchedulerStep
<1>11. ASSUME NEW p \in Tasks, NEW static \in NicePrios, set_user_nice(p, static)
       PROVE  IInv'
  BY <1>11, SetUserNiceStep
<1>12. ASSUME NEW p \in Tasks, NEW w \in PiPrios \cup {NO_WAITER}, RtMutexAdjustPrio(p, w)
       PROVE  IInv'
  BY <1>12, RtMutexAdjustPrioStep
<1>13. ASSUME NEW p \in Tasks, NEW g \in Groups, sched_move_task(p, g) PROVE IInv'
  BY <1>13, MoveTaskStep
<1>14. CASE UNCHANGED vars
  BY <1>14 DEF vars, IInv
<1> QED  BY <1>1, <1>2, <1>3, <1>4, <1>5, <1>6, <1>7, <1>8, <1>9, <1>10, <1>11, <1>12, <1>13,
            <1>14 DEF Next

\* The inductive invariant holds throughout.
THEOREM Inductive == Spec => []IInv
<1> QED  BY InitOK, NextOK, PTL DEF Spec

-----------------------------------------------------------------------------
(* The properties. *)

\* Every variable keeps its type, for every set of tasks and every choice of
\* priorities and time slices.
THEOREM TypeCorrect == Spec => []TypeOK
<1>1. IInv => TypeOK
  BY DEF IInv, StateOK, TypeOK
<1> QED  BY <1>1, Inductive, PTL

\* The run queue and the tasks agree at every moment at which rq->lock is free.
THEOREM RunQueueConsistent == Spec => []RqConsistent
<1>1. IInv => RqConsistent
  BY DEF IInv, StateOK, RqConsistent
<1> QED  BY <1>1, Inductive, PTL

\* No runnable task is ever off the run queue, and the current task is on it.
THEOREM NoneLost == Spec => []NoRunnableTaskLost
<1>1. IInv => NoRunnableTaskLost
  BY DEF IInv, StateOK, NoRunnableTaskLost, TaskOK, LifeOK
<1> QED  BY <1>1, Inductive, PTL

\* Class, policy and priority fit together, the WRR class being the exception
\* that ClassDiscipline states.
THEOREM ClassesKept == Spec => []ClassDiscipline
<1>1. IInv => ClassDiscipline
  BY DEF IInv, StateOK, ClassDiscipline, TaskOK, AttributesOK
<1> QED  BY <1>1, Inductive, PTL

\* Outside the WRR class no change of attributes loses or leaks a boost.
THEOREM InheritanceHonoured == Spec => []PiHonoured
<1>1. IInv => PiHonoured
  BY DEF IInv, StateOK, PiHonoured, TaskOK, AttributesOK
<1> QED  BY <1>1, Inductive, PTL

\* Nobody outranks the task that __schedule picked.
LEMMA PickedIsHighest ==
  ASSUME IInv', curr' \in (IF pick_next_task(rq') = {} THEN {Idle} ELSE pick_next_task(rq'))
  PROVE  \A p \in Tasks : ~Outranks(p)'
<1> SUFFICES ASSUME NEW p \in Tasks, Outranks(p)' PROVE FALSE
  OBVIOUS
<1>1. rq' \in RqType /\ RqOK(rq', task') /\ task'[p].class \in Classes
  BY DEF IInv, StateOK, TaskType
<1>2. task'[p].on_rq /\ p # curr'
  BY DEF Outranks
<1>3. p \in Members(task', task'[p].class)
  BY <1>2 DEF Members
<1>4. pick_next_task(rq') # {}
  BY <1>1, <1>3, PickNext DEF Classes
<1>5. curr' \in pick_next_task(rq')
  BY <1>4
<1>6. curr' \in Tasks /\ curr' # Idle /\ task'[curr'].class \in Classes
  BY <1>1, <1>5, PickNext, SchedAssumption DEF Members, Classes
<1>7. CASE task'[curr'].class = "rt"
  <2>1. task'[p].class = "rt" /\ task'[p].prio < task'[curr'].prio
    BY <1>1, <1>6, <1>7 DEF Outranks, Rank, Classes
  <2>2. task'[curr'].prio <= task'[p].prio
    BY <1>1, <1>3, <1>5, <1>7, <2>1, PickNext
  <2>3. task'[curr'].prio \in Int /\ task'[p].prio \in Int
    BY <1>6, TaskRanges, Ranges DEF IInv, StateOK
  <2> QED  BY <2>1, <2>2, <2>3
<1>8. CASE task'[curr'].class = "wrr"
  <2>1. task'[p].class = "rt"
    BY <1>1, <1>6, <1>8 DEF Outranks, Rank, Classes
  <2> QED  BY <1>1, <1>3, <1>5, <1>8, <2>1, PickNext
<1>9. CASE task'[curr'].class = "fair"
  <2>1. task'[p].class = "rt" \/ task'[p].class = "wrr"
    BY <1>1, <1>6, <1>9 DEF Outranks, Rank, Classes
  <2> QED  BY <1>1, <1>3, <1>5, <1>9, <2>1, PickNext
<1> QED  BY <1>6, <1>7, <1>8, <1>9 DEF Classes

\* Whatever asks for a reschedule, the reschedule picks a task that nobody
\* queued outranks.
THEOREM HighestPicked == Spec => PickHighest
<1>1. IInv /\ IInv' /\ [Next]_vars /\ need_resched /\ ~need_resched'
        => \A p \in Tasks : ~Outranks(p)'
  <2> SUFFICES ASSUME IInv, IInv', [Next]_vars, need_resched, ~need_resched'
               PROVE  \A p \in Tasks : ~Outranks(p)'
    OBVIOUS
  <2>1. ASSUME NEW answers, Resched(answers) PROVE FALSE
    BY <2>1 DEF Resched
  <2>2. ~ UNCHANGED need_resched
    OBVIOUS
  <2>3. ASSUME NEW T, NEW q, Switch(T, q) PROVE \A p \in Tasks : ~Outranks(p)'
    <3>1. curr' \in (IF pick_next_task(rq') = {} THEN {Idle} ELSE pick_next_task(rq'))
      BY <2>3 DEF Switch
    <3> QED  BY <3>1, PickedIsHighest
  <2>4. CASE Tick
    BY <2>4 DEF Tick, task_tick_wrr, task_tick_rt, task_tick_fair
  <2>5. CASE Schedule
    BY <2>3, <2>5 DEF Schedule
  <2>6. CASE PreemptSchedule
    BY <2>3, <2>6 DEF PreemptSchedule
  <2>7. CASE SchedYield
    BY <2>3, <2>7 DEF SchedYield
  <2>8. ASSUME NEW s \in SleepStates, SetCurrentState(s) PROVE FALSE
    BY <2>2, <2>8 DEF SetCurrentState
  <2>9. CASE Exit
    BY <2>2, <2>9 DEF Exit
  <2>10. ASSUME NEW p \in Tasks, try_to_wake_up(p) PROVE FALSE
    BY <2>1, <2>10 DEF try_to_wake_up
  <2>11. ASSUME NEW p \in Tasks, Fork(p) PROVE FALSE
    BY <2>2, <2>11 DEF Fork
  <2>12. ASSUME NEW p \in Tasks, wake_up_new_task(p) PROVE FALSE
    BY <2>1, <2>12 DEF wake_up_new_task
  <2>13. ASSUME NEW p \in Tasks, NEW policy \in Policies, NEW prio \in {0} \cup RtParams,
                NEW reset \in ResetFlags, sched_setscheduler(p, policy, prio, reset)
         PROVE  FALSE
    BY <2>1, <2>13 DEF sched_setscheduler
  <2>14. ASSUME NEW p \in Tasks, NEW static \in NicePrios, set_user_nice(p, static)
         PROVE  FALSE
    BY <2>1, <2>2, <2>14 DEF set_user_nice
  <2>15. ASSUME NEW p \in Tasks, NEW w \in PiPrios \cup {NO_WAITER}, RtMutexAdjustPrio(p, w)
         PROVE  FALSE
    BY <2>1, <2>2, <2>15 DEF RtMutexAdjustPrio
  <2>16. ASSUME NEW p \in Tasks, NEW g \in Groups, sched_move_task(p, g) PROVE FALSE
    BY <2>2, <2>16 DEF sched_move_task
  <2>17. CASE UNCHANGED vars
    BY <2>2, <2>17 DEF vars
  <2> QED  BY <2>4, <2>5, <2>6, <2>7, <2>8, <2>9, <2>10, <2>11, <2>12, <2>13, <2>14, <2>15,
              <2>16, <2>17 DEF Next
<1>2. IInv /\ IInv' /\ [Next]_vars
        => [need_resched /\ ~need_resched' => \A p \in Tasks : ~Outranks(p)']_vars
  BY <1>1
<1> QED  BY <1>2, Inductive, PTL DEF Spec, PickHighest

-----------------------------------------------------------------------------
(* Preemptions. *)

\* Outranks of any tasks T and current task c.
OutranksIn(T, c, p) ==
  /\ T[p].on_rq
  /\ p # c
  /\ \/ c = Idle
     \/ Rank(T[p].class) < Rank(T[c].class)
     \/ T[p].class = "rt" /\ T[c].class = "rt" /\ T[p].prio < T[c].prio

\* A task's rank, and whether it is queued, are the same.
SameRank(t, u) ==
  (t.on_rq <=> u.on_rq) /\ t.class = u.class /\ (t.class = "rt" => t.prio = u.prio)

\* As long as no rank changes, nobody comes to outrank the current task.
LEMMA RanksKept ==
  ASSUME NEW T, NEW U, NEW c \in Tasks \cup {Idle}, NEW p \in Tasks,
         SameRank(T[p], U[p]), c # Idle => SameRank(T[c], U[c]), OutranksIn(U, c, p)
  PROVE  OutranksIn(T, c, p)
<1>1. T[p].on_rq /\ p # c /\ T[p].class = U[p].class /\ (T[p].class = "rt" => T[p].prio = U[p].prio)
  BY DEF OutranksIn, SameRank
<1>2. CASE c = Idle
  BY <1>1, <1>2 DEF OutranksIn
<1>3. CASE c # Idle
  <2>1. T[c].class = U[c].class /\ (T[c].class = "rt" => T[c].prio = U[c].prio)
    BY <1>3 DEF SameRank
  <2>2. \/ Rank(U[p].class) < Rank(U[c].class)
        \/ U[p].class = "rt" /\ U[c].class = "rt" /\ U[p].prio < U[c].prio
    BY <1>3 DEF OutranksIn
  <2>3. CASE Rank(U[p].class) < Rank(U[c].class)
    <3>1. Rank(T[p].class) < Rank(T[c].class)
      BY <1>1, <2>1, <2>3
    <3> QED  BY <1>1, <3>1 DEF OutranksIn
  <2>4. CASE U[p].class = "rt" /\ U[c].class = "rt" /\ U[p].prio < U[c].prio
    BY <1>1, <2>1, <2>4 DEF OutranksIn
  <2> QED  BY <2>2, <2>3, <2>4
<1> QED  BY <1>2, <1>3

\* check_preempt_curr says yes to a task that outranks the current one.
LEMMA PreemptedIfOutranked ==
  ASSUME NEW T, NEW p \in Tasks, curr \in Tasks \cup {Idle}, OutranksIn(T, curr, p),
         T[p].class \in Classes, curr # Idle => T[curr].class \in Classes
  PROVE  check_preempt_curr(T, p) = {TRUE}
<1>1. CASE curr = Idle
  BY <1>1 DEF check_preempt_curr
<1>2. CASE curr # Idle /\ T[p].class # T[curr].class
  <2>1. Rank(T[p].class) < Rank(T[curr].class)
    BY <1>2 DEF OutranksIn
  <2>2. (Rank(T[p].class) < Rank(T[curr].class)) = TRUE
    BY <2>1
  <2>3. check_preempt_curr(T, p) = {Rank(T[p].class) < Rank(T[curr].class)}
    BY <1>2 DEF check_preempt_curr
  <2> QED  BY <2>2, <2>3
<1>3. CASE curr # Idle /\ T[p].class = T[curr].class
  <2>1. T[p].class = "rt" /\ T[p].prio < T[curr].prio
    <3>1. Rank(T[p].class) \in Int
      BY DEF Rank, Classes
    <3> QED  BY <1>3, <3>1 DEF OutranksIn
  <2>2. (T[p].prio < T[curr].prio) = TRUE
    BY <2>1
  <2>3. check_preempt_curr(T, p) = {T[p].prio < T[curr].prio}
    BY <1>3, <2>1 DEF check_preempt_curr
  <2> QED  BY <2>2, <2>3
<1> QED  BY <1>1, <1>2, <1>3

\* When the attributes of a task other than the current one change so that it
\* comes to outrank the current one, check_class_changed asks for a reschedule,
\* unless the task is switched to the WRR class or the current one is a WRR
\* task with a real-time priority.
LEMMA ChangedTaskPreempts ==
  ASSUME NEW T, NEW p \in Tasks, curr \in Tasks \cup {Idle}, p # curr,
         TaskOK(task[p]), TaskOK(T[p]), task[p].on_rq <=> T[p].on_rq,
         curr # Idle => TaskOK(T[curr]) /\ SameRank(task[curr], T[curr]),
         ~(curr # Idle /\ T[curr].class = "wrr" /\ rt_prio(T[curr].prio)),
         ~(task[p].class # "wrr" /\ T[p].class = "wrr"),
         OutranksIn(T, curr, p), ~OutranksIn(task, curr, p)
  PROVE  check_class_changed(T, p) = {TRUE}
<1>1. /\ T[p].class \in Classes /\ T[p].prio \in Int /\ task[p].prio \in Int
      /\ curr # Idle => T[curr].class \in Classes /\ T[curr].prio \in Int
  BY TaskRanges, Ranges DEF TaskOK, TaskType
<1>2. T[p].on_rq
  BY DEF OutranksIn
<1>3. task[p].class # T[p].class \/ (T[p].class = "rt" /\ task[p].prio # T[p].prio)
  BY RanksKept DEF SameRank
<1>4. CASE T[p].class = "rt"
  <2>1. rt_prio(T[p].prio)
    BY <1>1, <1>4, Ranges DEF TaskOK, AttributesOK, rt_or_fair
  <2>2. ASSUME curr # Idle, T[curr].class # "rt" PROVE ~rt_prio(T[curr].prio)
    BY <2>2, <1>1 DEF TaskOK, AttributesOK, rt_or_fair, Classes
  <2>3. ASSUME curr # Idle PROVE T[p].prio < T[curr].prio
    <3>1. CASE T[curr].class = "rt"
      BY <1>4, <2>3, <3>1 DEF OutranksIn, Rank
    <3>2. CASE T[curr].class # "rt"
      BY <1>1, <2>1, <2>2, <2>3, <3>2, Ranges DEF rt_prio
    <3> QED  BY <3>1, <3>2
  <2>4. HigherPrioThanCurr(T, p)
    BY <2>3 DEF HigherPrioThanCurr
  <2>5. switched_to(T, p) = {TRUE} /\ \A old : prio_changed(T, p, old) = {TRUE}
    BY <1>2, <1>4, <2>4 DEF switched_to, prio_changed
  <2> QED  BY <1>3, <2>5 DEF check_class_changed
<1>5. CASE T[p].class = "fair"
  <2>1. check_preempt_curr(T, p) = {TRUE}
    BY <1>1, PreemptedIfOutranked
  <2> QED  BY <1>2, <1>3, <1>5, <2>1 DEF check_class_changed, switched_to, prio_changed
<1>6. CASE T[p].class = "wrr"
  BY <1>3, <1>6
<1> QED  BY <1>1, <1>4, <1>5, <1>6 DEF Classes

\* When the attributes of the current task change so that another comes to
\* outrank it, check_class_changed asks for a reschedule, unless the task is
\* switched to the WRR class.
LEMMA ChangedCurrPreempted ==
  ASSUME NEW T, NEW p \in Tasks, curr \in Tasks, p # curr, Idle \notin Tasks,
         TaskOK(task[p]), TaskOK(T[p]), SameRank(task[p], T[p]),
         TaskOK(task[curr]), TaskOK(T[curr]), T[curr].on_rq,
         ~(task[curr].class # "wrr" /\ T[curr].class = "wrr"),
         OutranksIn(T, curr, p), ~OutranksIn(task, curr, p)
  PROVE  check_class_changed(T, curr) = {TRUE}
<1>1. /\ T[p].class \in Classes /\ T[p].prio \in Int /\ task[p].prio \in Int
      /\ task[p].class \in Classes /\ task[curr].class \in Classes /\ task[curr].prio \in Int
      /\ T[curr].class \in Classes /\ T[curr].prio \in Int
  BY TaskRanges, Ranges DEF TaskOK, TaskType
<1>2. /\ T[p].on_rq /\ curr # Idle /\ task[p].on_rq
      /\ T[p].class = task[p].class /\ (T[p].class = "rt" => T[p].prio = task[p].prio)
  BY DEF OutranksIn, SameRank
<1>3. task[curr].class # T[curr].class \/ (T[curr].class = "rt" /\ task[curr].prio # T[curr].prio)
  BY <1>1, <1>2 DEF OutranksIn
<1>4. CASE T[curr].class = "rt"
  <2>1. T[p].class = "rt" /\ T[p].prio < T[curr].prio
    BY <1>1, <1>2, <1>4 DEF OutranksIn, Rank, Classes
  <2>2. task[curr].class = "rt" /\ task[curr].prio <= task[p].prio
    BY <1>1, <1>2, <1>4, <2>1 DEF OutranksIn, Rank, Classes
  <2>3. task[curr].prio < T[curr].prio
    BY <1>1, <1>2, <2>1, <2>2
  <2>4. prio_changed(T, curr, task[curr].prio) = {T[curr].on_rq /\ task[curr].prio < T[curr].prio}
    BY <1>4 DEF prio_changed
  <2>5. (T[curr].on_rq /\ task[curr].prio < T[curr].prio) = TRUE
    BY <2>3
  <2>6. check_class_changed(T, curr) = prio_changed(T, curr, task[curr].prio)
    BY <1>1, <1>4, <2>2, <2>3 DEF check_class_changed
  <2> QED  BY <2>4, <2>5, <2>6
<1>5. CASE T[curr].class = "fair"
  BY <1>3, <1>5 DEF check_class_changed, switched_to
<1>6. CASE T[curr].class = "wrr"
  BY <1>3, <1>6
<1> QED  BY <1>1, <1>4, <1>5, <1>6 DEF Classes
-----------------------------------------------------------------------------
\* Where the current task was outranked by nobody, a change of one task's
\* attributes after which somebody outranks it asks for a reschedule, the WRR
\* class's two exceptions apart.
LEMMA AttributeChangePreempts ==
  ASSUME IInv, IInv', curr' = curr, NEW x \in Tasks, NEW p \in Tasks,
         \A y \in Tasks \ {x} : task'[y] = task[y],
         task'[x].on_rq <=> task[x].on_rq,
         ~SwitchedToWrr, ~WrrTaskWithRtPrioRuns,
         \A y \in Tasks : ~Outranks(y), Outranks(p)'
  PROVE  check_class_changed(task', x) = {TRUE}
<1>1. /\ \A y \in Tasks : TaskOK(task[y]) /\ TaskOK(task'[y])
      /\ curr \in Tasks \cup {Idle} /\ Idle \notin Tasks
      /\ curr # Idle => task'[curr].on_rq
  BY SchedAssumption DEF IInv, StateOK
<1>2. OutranksIn(task', curr, p) /\ \A y \in Tasks : ~OutranksIn(task, curr, y)
  BY DEF Outranks, OutranksIn
<1>3. \A y \in Tasks \ {x} : SameRank(task[y], task'[y])
  BY DEF SameRank
<1>4. ~(task[x].class # "wrr" /\ task'[x].class = "wrr")
  BY DEF SwitchedToWrr
<1>5. CASE x # curr
  <2>1. curr # Idle => task'[curr] = task[curr] /\ SameRank(task[curr], task'[curr])
    BY <1>1, <1>3, <1>5
  <2>2. p = x
    BY <1>1, <1>2, <1>3, <2>1, RanksKept
  <2>3. ~(curr # Idle /\ task'[curr].class = "wrr" /\ rt_prio(task'[curr].prio))
    BY <2>1 DEF WrrTaskWithRtPrioRuns
  <2>4. curr # Idle => TaskOK(task'[curr])
    BY <1>1
  <2> QED  BY <1>1, <1>2, <1>4, <1>5, <2>1, <2>2, <2>3, <2>4, ChangedTaskPreempts
<1>6. CASE x = curr
  <2>1. p # curr
    BY <1>2 DEF OutranksIn
  <2> QED  BY <1>1, <1>2, <1>3, <1>4, <1>6, <2>1, ChangedCurrPreempted
<1> QED  BY <1>5, <1>6

\* The same for a task that is put on the run queue.
LEMMA WakeUpPreempts ==
  ASSUME IInv, IInv', curr' = curr, NEW x \in Tasks, NEW p \in Tasks,
         \A y \in Tasks \ {x} : SameRank(task[y], task'[y]),
         x = curr => SameRank(task[x], task'[x]),
         \A y \in Tasks : ~Outranks(y), Outranks(p)'
  PROVE  check_preempt_curr(task', x) = {TRUE}
<1>1. /\ \A y \in Tasks : task'[y].class \in Classes
      /\ curr \in Tasks \cup {Idle} /\ Idle \notin Tasks
  BY SchedAssumption DEF IInv, StateOK, TaskOK, TaskType
<1>2. OutranksIn(task', curr, p) /\ \A y \in Tasks : ~OutranksIn(task, curr, y)
  BY DEF Outranks, OutranksIn
<1>3. curr # Idle => SameRank(task[curr], task'[curr])
  BY <1>1
<1>4. p = x
  BY <1>1, <1>2, <1>3, RanksKept
<1> QED  BY <1>1, <1>2, <1>4, PreemptedIfOutranked

\* A step that changes no rank lets nobody outrank the current task.
LEMMA NoRankChanges ==
  ASSUME IInv, curr' = curr, \A y \in Tasks : SameRank(task[y], task'[y]),
         \A y \in Tasks : ~Outranks(y), NEW p \in Tasks, Outranks(p)'
  PROVE  FALSE
<1>1. OutranksIn(task', curr, p) /\ \A y \in Tasks : ~OutranksIn(task, curr, y)
  BY DEF Outranks, OutranksIn
<1>2. curr \in Tasks \cup {Idle}
  BY DEF IInv, StateOK
<1> QED  BY <1>1, <1>2, RanksKept
\* Only the WRR class lets a task of a higher class or RT priority go
\* unnoticed: at a switch to it, and while one of its tasks runs boosted.
THEOREM PreemptionsNotMissed == Spec => OnlyWrrMissesPreemption
<1>1. IInv /\ IInv' /\ [Next]_vars
        => (MissedPreemption' => MissedPreemption \/ SwitchedToWrr \/ WrrTaskWithRtPrioRuns)
  <2> SUFFICES ASSUME IInv, IInv', [Next]_vars, ~MissedPreemption, ~SwitchedToWrr,
                      ~WrrTaskWithRtPrioRuns, ~need_resched', NEW p \in Tasks, Outranks(p)'
               PROVE  FALSE
    BY DEF MissedPreemption
  <2> USE Ranges
  <2>1. ASSUME NEW T, NEW q, Switch(T, q) PROVE FALSE
    <3>1. curr' \in (IF pick_next_task(rq') = {} THEN {Idle} ELSE pick_next_task(rq'))
      BY <2>1 DEF Switch
    <3> QED  BY <3>1, PickedIsHighest
  <2>2. /\ task \in [Tasks -> TaskType] /\ \A x \in Tasks : TaskOK(task[x])
        /\ curr \in Tasks \cup {Idle} /\ Idle \notin Tasks
        /\ curr # Idle => task[curr].on_rq
    BY SchedAssumption DEF IInv, StateOK
  <2>3. ASSUME UNCHANGED need_resched PROVE \A y \in Tasks : ~Outranks(y)
    BY <2>3 DEF MissedPreemption
  <2>4. ASSUME NEW answers, Resched(answers)
        PROVE  answers # {TRUE} /\ \A y \in Tasks : ~Outranks(y)
    <3>1. PICK r \in answers : need_resched' = (need_resched \/ r)
      BY <2>4 DEF Resched
    <3>2. ~need_resched /\ ~r
      BY <3>1
    <3>3. ASSUME answers = {TRUE} PROVE FALSE
      <4>1. r = TRUE
        BY <3>3
      <4> QED  BY <3>2, <4>1
    <3> QED  BY <3>2, <3>3 DEF MissedPreemption
  <2>5. ASSUME curr' = curr, UNCHANGED need_resched,
               \A y \in Tasks : SameRank(task[y], task'[y])
        PROVE  FALSE
    BY <2>3, <2>5, NoRankChanges
  <2>6. ASSUME NEW x \in Tasks, curr' = curr, \A y \in Tasks \ {x} : task'[y] = task[y],
               task'[x].on_rq <=> task[x].on_rq, Resched(check_class_changed(task', x))
        PROVE  FALSE
    BY <2>4, <2>6, AttributeChangePreempts
  <2>7. CASE Tick
    <3>1. need_resched' = need_resched /\ curr' = curr /\ curr \in Tasks
      BY <2>2, <2>7 DEF Tick, task_tick_wrr, task_tick_rt, task_tick_fair
    <3>2. ASSUME NEW left, NEW prio, task[curr].class = "wrr",
                 task' = [task EXCEPT ![curr].wrr_slice = left, ![curr].prio = prio]
          PROVE  \A y \in Tasks : SameRank(task[y], task'[y])
      <4>1. /\ task'[curr].on_rq = task[curr].on_rq /\ task'[curr].class = task[curr].class
            /\ \A y \in Tasks \ {curr} : task'[y] = task[y]
        BY <2>2, <3>1, <3>2 DEF TaskType
      <4> QED  BY <3>2, <4>1 DEF SameRank
    <3>3. ASSUME NEW left, \/ task' = [task EXCEPT ![curr].wrr_slice = left]
                           \/ task' = [task EXCEPT ![curr].rt_slice = left]
          PROVE  \A y \in Tasks : SameRank(task[y], task'[y])
      <4>1. /\ task'[curr].on_rq = task[curr].on_rq /\ task'[curr].class = task[curr].class
            /\ task'[curr].prio = task[curr].prio
            /\ \A y \in Tasks \ {curr} : task'[y] = task[y]
        BY <2>2, <3>1, <3>3 DEF TaskType
      <4> QED  BY <4>1 DEF SameRank
    <3>4. \A y \in Tasks : SameRank(task[y], task'[y])
      BY <2>7, <3>1, <3>2, <3>3 DEF Tick, task_tick_wrr, task_tick_rt, task_tick_fair
    <3> QED  BY <2>5, <3>1, <3>4
  <2>8. CASE Schedule
    BY <2>1, <2>8 DEF Schedule
  <2>9. CASE PreemptSchedule
    BY <2>1, <2>9 DEF PreemptSchedule
  <2>10. CASE SchedYield
    BY <2>1, <2>10 DEF SchedYield
  <2>11. ASSUME NEW s, UNCHANGED << rq, curr, need_resched >>, curr \in Tasks,
                task' = [task EXCEPT ![curr].state = s]
         PROVE  FALSE
    <3>1. \A y \in Tasks : SameRank(task[y], task'[y])
      BY <2>2, <2>11 DEF SameRank, TaskType
    <3> QED  BY <2>5, <2>11, <3>1
  <2>12. ASSUME NEW s \in SleepStates, SetCurrentState(s) PROVE FALSE
    BY <2>2, <2>11, <2>12 DEF SetCurrentState, InProcess
  <2>13. CASE Exit
    BY <2>2, <2>11, <2>13 DEF Exit, InProcess
  <2>14. ASSUME NEW x \in Tasks, try_to_wake_up(x) PROVE FALSE
    <3> DEFINE new == Woken(task[x])
    <3>1. /\ task' = [task EXCEPT ![x] = new] /\ curr' = curr
          /\ Resched(check_preempt_curr(task', x))
      BY <2>14 DEF try_to_wake_up
    <3>2. \A y \in Tasks \ {x} : SameRank(task[y], task'[y])
      BY <2>2, <3>1 DEF SameRank
    <3>3. new.class = task[x].class /\ new.prio = task[x].prio /\ new.on_rq
      BY <2>2 DEF Woken, TaskType
    <3>4. x = curr => SameRank(task[x], task'[x])
      BY <2>2, <3>1, <3>3 DEF SameRank
    <3> QED  BY <2>4, <3>1, <3>2, <3>4, WakeUpPreempts
  <2>15. ASSUME NEW x \in Tasks, Fork(x) PROVE FALSE
    <3>1. /\ curr \in Tasks /\ task[x].life = "none" /\ curr' = curr
          /\ need_resched' = need_resched
          /\ task' = [task EXCEPT ![x] = sched_fork(task[curr]), ![curr].newborn = {x}]
      BY <2>2, <2>15 DEF Fork, InProcess, Exists
    <3>2. ~sched_fork(task[curr]).on_rq
      BY <2>2, <3>1, SchedForkOK
    <3>3. x # curr /\ ~task'[x].on_rq
      BY <2>2, <3>1, <3>2 DEF TaskOK, LifeOK
    <3>4. \A y \in Tasks \ {x} : SameRank(task[y], task'[y])
      BY <2>2, <3>1 DEF SameRank, TaskType
    <3>5. p # x
      BY <3>3 DEF Outranks
    <3>6. OutranksIn(task', curr, p)
      BY <3>1 DEF Outranks, OutranksIn
    <3>7. OutranksIn(task, curr, p)
      BY <2>2, <3>3, <3>4, <3>5, <3>6, RanksKept
    <3> QED  BY <2>3, <3>1, <3>7 DEF Outranks, OutranksIn
  <2>16. ASSUME NEW x \in Tasks, wake_up_new_task(x) PROVE FALSE
    <3>1. curr \in Tasks /\ x \in task[curr].newborn /\ curr' = curr
      BY <2>2, <2>16 DEF wake_up_new_task
    <3>2. x # curr
      BY <2>2, <3>1 DEF IInv, StateOK, NewbornsOK, TaskOK, LifeOK
    <3>3. /\ \A y \in Tasks \ {x} : SameRank(task[y], task'[y])
          /\ Resched(check_preempt_curr(task', x))
      BY <2>2, <2>16, <3>1 DEF wake_up_new_task, SameRank, TaskType
    <3> QED  BY <2>4, <3>1, <3>2, <3>3, WakeUpPreempts
  <2>17. ASSUME NEW x \in Tasks, NEW policy \in Policies, NEW prio \in {0} \cup RtParams,
                NEW reset \in ResetFlags, sched_setscheduler(x, policy, prio, reset)
         PROVE  FALSE
    <3> DEFINE new == __setscheduler([task[x] EXCEPT !.reset_on_fork = reset], policy, prio)
    <3>1. policy \in AllPolicies /\ reset \in BOOLEAN /\ prio \in 0 .. (MAX_RT_PRIO - 1)
      BY SchedAssumption
    <3>2. new.on_rq = task[x].on_rq
      BY <2>2, <3>1, SetSchedulerOK DEF SameLife
    <3>3. /\ task' = [task EXCEPT ![x] = new] /\ curr' = curr
          /\ Resched(check_class_changed(task', x))
      BY <2>17 DEF sched_setscheduler, Change
    <3> HIDE DEF new
    <3>4. task'[x] = new /\ \A y \in Tasks \ {x} : task'[y] = task[y]
      BY <2>2, <3>3
    <3> QED  BY <2>6, <3>2, <3>3, <3>4
  <2>18. ASSUME NEW x \in Tasks, NEW static \in NicePrios, set_user_nice(x, static)
         PROVE  FALSE
    <3> DEFINE nice == [task[x] EXCEPT !.static_prio = static]
               prio == effective_prio(nice)
               new == [nice EXCEPT !.normal_prio = normal_prio(nice), !.prio = prio]
    <3>1. nice.on_rq = task[x].on_rq /\ nice.class = task[x].class /\ nice.prio = task[x].prio
      BY <2>2 DEF TaskType
    <3>2. new.on_rq = task[x].on_rq /\ new.class = task[x].class /\ new.prio = prio
      BY <2>2, <3>1 DEF TaskType
    <3>3. task[x].class = "rt" => prio = task[x].prio
      BY <2>2, <3>1 DEF effective_prio, TaskOK, AttributesOK, rt_or_fair
    <3>4. (task' = [task EXCEPT ![x] = nice] \/ task' = [task EXCEPT ![x] = new]) /\ curr' = curr
      BY <2>18 DEF set_user_nice, Change
    <3>5. \A y \in Tasks : ~Outranks(y)
      BY <2>3, <2>4, <2>18 DEF set_user_nice
    <3> HIDE DEF nice, new, prio
    <3>6. SameRank(task[x], nice) /\ SameRank(task[x], new)
      BY <3>1, <3>2, <3>3 DEF SameRank
    <3>7. \A y \in Tasks : SameRank(task[y], task'[y])
      BY <2>2, <3>4, <3>6 DEF SameRank
    <3> QED  BY <3>4, <3>5, <3>7, NoRankChanges
  <2>19. ASSUME NEW x \in Tasks, NEW w \in PiPrios \cup {NO_WAITER}, RtMutexAdjustPrio(x, w)
         PROVE  FALSE
    <3> DEFINE t == [task[x] EXCEPT !.pi = w]
               prio == rt_mutex_getprio(t)
               new == rt_mutex_setprio(t, prio)
    <3>1. t.on_rq = task[x].on_rq /\ t.class = task[x].class /\ t.prio = task[x].prio
      BY <2>2 DEF TaskType
    <3>2. SameLife(task[x], new)
      BY <2>2, AdjustPrioOK
    <3>3. \/ task' = [task EXCEPT ![x] = t] /\ curr' = curr /\ UNCHANGED need_resched
          \/ /\ task' = [task EXCEPT ![x] = new] /\ curr' = curr
             /\ Resched(check_class_changed(task', x))
      BY <2>19 DEF RtMutexAdjustPrio, Change
    <3> HIDE DEF t, prio, new
    <3>4. CASE task' = [task EXCEPT ![x] = t] /\ curr' = curr /\ UNCHANGED need_resched
      <4>1. \A y \in Tasks : SameRank(task[y], task'[y])
        BY <2>2, <3>1, <3>4 DEF SameRank
      <4> QED  BY <2>5, <3>4, <4>1
    <3>5. CASE /\ task' = [task EXCEPT ![x] = new] /\ curr' = curr
               /\ Resched(check_class_changed(task', x))
      <4>1. task'[x] = new /\ \A y \in Tasks \ {x} : task'[y] = task[y]
        BY <2>2, <3>5
      <4> QED  BY <2>6, <3>2, <3>5, <4>1 DEF SameLife
    <3> QED  BY <3>3, <3>4, <3>5
  <2>20. ASSUME NEW x \in Tasks, NEW g \in Groups, sched_move_task(x, g) PROVE FALSE
    <3>1. /\ task' = [task EXCEPT ![x] = [task[x] EXCEPT !.group = g]] /\ curr' = curr
          /\ UNCHANGED need_resched
      BY <2>20 DEF sched_move_task, Change
    <3>2. \A y \in Tasks : SameRank(task[y], task'[y])
      BY <2>2, <3>1 DEF SameRank, TaskType
    <3> QED  BY <2>5, <3>1, <3>2
  <2>21. CASE UNCHANGED vars
    <3>1. task' = task /\ curr' = curr /\ UNCHANGED need_resched
      BY <2>21 DEF vars
    <3>2. \A y \in Tasks : SameRank(task[y], task'[y])
      BY <3>1 DEF SameRank
    <3> QED  BY <2>5, <3>1, <3>2
  <2> QED  BY <2>7, <2>8, <2>9, <2>10, <2>12, <2>13, <2>14, <2>15, <2>16, <2>17, <2>18, <2>19,
              <2>20, <2>21 DEF Next
<1>2. IInv /\ IInv' /\ [Next]_vars
        => [MissedPreemption' => MissedPreemption \/ SwitchedToWrr \/ WrrTaskWithRtPrioRuns]_vars
  BY <1>1
<1> QED  BY <1>2, Inductive, PTL DEF Spec, OnlyWrrMissesPreemption

-----------------------------------------------------------------------------
(* The WRR list is the queue of module RoundRobin. *)

\* Taking a task off the run queue takes it off the WRR list if it is a WRR
\* task, and leaves that list alone otherwise.
LEMMA WrrListAfterDequeue ==
  ASSUME NEW q \in RqType, NEW p \in Tasks, NEW t, t.class \in Classes,
         t.class = "wrr" => Linked(p, q.wrr_queue)
  PROVE  dequeue_task(q, p, t).wrr_queue =
           IF t.class = "wrr" THEN list_del_init(p, q.wrr_queue) ELSE q.wrr_queue
<1>1. CASE t.class = "rt"
  <2>1. dequeue_task(q, p, t) = dec_nr_running(dequeue_rt_stack(q, p, t))
    BY <1>1 DEF dequeue_task, dequeue_task_rt
  <2>2. dequeue_rt_stack(q, p, t).wrr_queue = q.wrr_queue
    BY DEF dequeue_rt_stack, __dequeue_rt_entity, RqType
  <2>3. dec_nr_running(dequeue_rt_stack(q, p, t)).wrr_queue = dequeue_rt_stack(q, p, t).wrr_queue
    BY DEF dec_nr_running, dequeue_rt_stack, __dequeue_rt_entity, RqType
  <2> QED  BY <1>1, <2>1, <2>2, <2>3
<1>2. CASE t.class = "wrr"
  BY <1>2 DEF dequeue_task, dequeue_task_wrr, dequeue_wrr_stack, on_wrr_rq,
              __dequeue_wrr_entity, dec_nr_running, RqType
<1>3. CASE t.class = "fair"
  BY <1>3 DEF dequeue_task, dequeue_task_fair, dec_nr_running, RqType
<1> QED  BY <1>1, <1>2, <1>3 DEF Classes

\* Putting a task on the run queue puts a WRR task at the tail of the WRR list.
LEMMA WrrListAfterEnqueue ==
  ASSUME NEW q \in RqType, NEW p \in Tasks, NEW u, NEW head, u.class \in Classes,
         u.class = "wrr" => ~head /\ ~Linked(p, q.wrr_queue)
  PROVE  enqueue_task(q, p, u, head).wrr_queue =
           IF u.class = "wrr" THEN list_add_tail(p, q.wrr_queue) ELSE q.wrr_queue
<1>1. CASE u.class = "rt"
  <2> DEFINE d == dequeue_rt_stack(q, p, u)
             e == __enqueue_rt_entity(d, p, u, head)
  <2>1. enqueue_task(q, p, u, head) = inc_nr_running(e)
    BY <1>1 DEF enqueue_task, enqueue_task_rt
  <2>2. d.wrr_queue = q.wrr_queue /\ "wrr_queue" \in DOMAIN d /\ "nr" \in DOMAIN d
    BY DEF dequeue_rt_stack, __dequeue_rt_entity, RqType
  <2> HIDE DEF d
  <2>3. e.wrr_queue = d.wrr_queue /\ "wrr_queue" \in DOMAIN e /\ "nr" \in DOMAIN e
    BY <2>2 DEF __enqueue_rt_entity
  <2> HIDE DEF e
  <2>4. inc_nr_running(e).wrr_queue = e.wrr_queue
    BY <2>3 DEF inc_nr_running
  <2> QED  BY <1>1, <2>1, <2>2, <2>3, <2>4
<1>2. CASE u.class = "wrr"
  BY <1>2 DEF enqueue_task, enqueue_task_wrr, dequeue_wrr_stack, on_wrr_rq,
              __enqueue_wrr_entity, Insert, inc_nr_running, RqType
<1>3. CASE u.class = "fair"
  BY <1>3 DEF enqueue_task, enqueue_task_fair, inc_nr_running, RqType
<1> QED  BY <1>1, <1>2, <1>3 DEF Classes

\* A task is on the WRR list when it is queued in the WRR class.
LEMMA OnWrrList ==
  ASSUME NEW q, NEW T, RqOK(q, T), NEW p \in Tasks
  PROVE  Linked(p, q.wrr_queue) <=> T[p].on_rq /\ T[p].class = "wrr"
BY DEF RqOK, WrrListOK, Members, Linked

\* What a change of a queued task's attributes does to the WRR list.
LEMMA WrrListAfterRequeue ==
  ASSUME NEW q \in RqType, NEW T, RqOK(q, T), NEW p \in Tasks, T[p].on_rq, TaskOK(T[p]),
         NEW u, u.class \in Classes, NEW head \in BOOLEAN, u.class = "wrr" => ~head
  PROVE  LET s == q.wrr_queue
             r == Requeue(q, p, T[p], u, head).wrr_queue
         IN  /\ T[p].class = "wrr" /\ u.class = "wrr" => r = list_move_tail(p, s)
             /\ T[p].class = "wrr" /\ u.class # "wrr" => r = list_del_init(p, s)
             /\ T[p].class # "wrr" /\ u.class = "wrr" => r = list_add_tail(p, s)
             /\ T[p].class # "wrr" /\ u.class # "wrr" => r = s
<1> DEFINE s == q.wrr_queue
           d == dequeue_task(q, p, T[p])
           U == [x \in Tasks |-> IF x = p THEN [T[p] EXCEPT !.on_rq = FALSE] ELSE T[x]]
<1>1. T[p].class \in Classes /\ T[p] \in TaskType
  BY DEF TaskOK, TaskType
<1>2. Linked(p, s) <=> T[p].class = "wrr"
  BY OnWrrList
<1>3. d.wrr_queue = IF T[p].class = "wrr" THEN list_del_init(p, s) ELSE s
  BY <1>1, <1>2, WrrListAfterDequeue
<1>4. d \in RqType /\ RqOK(d, U)
  <2>1. ~U[p].on_rq /\ SameButFor(p, T, U)
    BY <1>1 DEF SameButFor, SamePlace, TaskType
  <2>2. T[p].class \in {"rt", "wrr", "fair"}
    BY <1>1 DEF Classes
  <2> HIDE DEF U
  <2> QED  BY <2>1, <2>2, DequeueTask
<1>5. ~U[p].on_rq
  BY <1>1 DEF TaskType
<1> HIDE DEF U
<1>6. ~Linked(p, d.wrr_queue)
  BY <1>4, <1>5, OnWrrList
<1> HIDE DEF d
<1>7. enqueue_task(d, p, u, head).wrr_queue =
        IF u.class = "wrr" THEN list_add_tail(p, d.wrr_queue) ELSE d.wrr_queue
  BY <1>4, <1>6, WrrListAfterEnqueue
<1>8. Requeue(q, p, T[p], u, head) = enqueue_task(d, p, u, head)
  BY DEF Requeue, d
<1> QED  BY <1>3, <1>7, <1>8 DEF list_move_tail
\* RoundRobin's lists are the run queue's.
LEMMA SameLists ==
  ASSUME NEW e, NEW s
  PROVE  /\ RR!Linked(e, s) <=> Linked(e, s)
         /\ RR!list_add_tail(e, s) = list_add_tail(e, s)
         /\ RR!list_del_init(e, s) = list_del_init(e, s)
         /\ RR!list_move_tail(e, s) = list_move_tail(e, s)
BY DEF RR!Linked, Linked, RR!Range, Range, RR!list_add_tail, list_add_tail, RR!list_del_init,
       list_del_init, RR!list_move_tail, list_move_tail

\* A step that touches neither the WRR list nor the WRR task that runs.
LEMMA StutterRR ==
  ASSUME rq'.wrr_queue = rq.wrr_queue, WrrRunning' = WrrRunning
  PROVE  [RR!Next]_(RR!vars)
BY DEF RR!vars

\* A change of a task's attributes: it joins the list, leaves it, or goes to
\* its tail.
LEMMA ChangeRR ==
  ASSUME IInv, NEW p \in Tasks, NEW new, NEW head \in BOOLEAN, new.class = "wrr" => ~head,
         TaskOK(new), SameLife(task[p], new), Change(p, new, head)
  PROVE  [RR!Next]_(RR!vars)
<1> DEFINE s == rq.wrr_queue
           t == task[p]
<1>1. /\ task \in [Tasks -> TaskType] /\ TaskOK(t) /\ rq \in RqType /\ RqOK(rq, task)
      /\ curr \in Tasks \cup {Idle} /\ Idle \notin Tasks
      /\ curr # Idle => task[curr].on_rq
      /\ new.class \in Classes /\ t.class \in Classes
  BY SchedAssumption DEF IInv, StateOK, TaskOK, TaskType
<1>2. /\ task'[p] = new /\ \A x \in Tasks \ {p} : task'[x] = task[x]
      /\ curr' = curr /\ rq' = Requeue(rq, p, t, new, head)
  BY <1>1 DEF Change
<1>3. CASE ~t.on_rq
  <2>1. rq' = rq
    BY <1>2, <1>3 DEF Requeue
  <2>2. curr # p
    BY <1>1, <1>3
  <2>3. WrrRunning' = WrrRunning
    BY <1>1, <1>2, <2>2 DEF WrrRunning
  <2> QED  BY <2>1, <2>3, StutterRR
<1>4. CASE t.on_rq
  <2>1. Linked(p, s) <=> t.class = "wrr"
    BY <1>1, <1>4, OnWrrList
  <2>2. /\ t.class = "wrr" /\ new.class = "wrr" => rq'.wrr_queue = list_move_tail(p, s)
        /\ t.class = "wrr" /\ new.class # "wrr" => rq'.wrr_queue = list_del_init(p, s)
        /\ t.class # "wrr" /\ new.class = "wrr" => rq'.wrr_queue = list_add_tail(p, s)
        /\ t.class # "wrr" /\ new.class # "wrr" => rq'.wrr_queue = s
    BY <1>1, <1>2, <1>4, WrrListAfterRequeue
  <2>3. CASE t.class = "wrr" /\ new.class = "wrr"
    <3>1. WrrRunning' = WrrRunning
      BY <1>1, <1>2, <2>3 DEF WrrRunning
    <3>2. RR!GoToTail(p)
      BY <2>1, <2>2, <2>3, <3>1, SameLists DEF RR!GoToTail
    <3> QED  BY <3>2 DEF RR!Next
  <2>4. CASE t.class = "wrr" /\ new.class # "wrr"
    <3>1. WrrRunning' = WrrRunning \ {p}
      BY <1>1, <1>2, <2>4 DEF WrrRunning
    <3>2. RR!Leave(p)
      BY <2>1, <2>2, <2>4, <3>1, SameLists DEF RR!Leave
    <3> QED  BY <3>2 DEF RR!Next
  <2>5. CASE t.class # "wrr" /\ new.class = "wrr"
    <3>1. WrrRunning' = WrrRunning \/ (WrrRunning = {} /\ WrrRunning' = {p})
      BY <1>1, <1>2, <2>5 DEF WrrRunning
    <3>2. RR!Join(p)
      BY <2>1, <2>2, <2>5, <3>1, SameLists DEF RR!Join
    <3> QED  BY <3>2 DEF RR!Next
  <2>6. CASE t.class # "wrr" /\ new.class # "wrr"
    <3>1. WrrRunning' = WrrRunning
      BY <1>1, <1>2, <2>6 DEF WrrRunning
    <3> QED  BY <2>2, <2>6, <3>1, StutterRR
  <2> QED  BY <2>3, <2>4, <2>5, <2>6
<1> QED  BY <1>3, <1>4

\* A wake-up: a WRR task joins at the tail.
LEMMA WakeRR ==
  ASSUME IInv, NEW p \in Tasks, ~task[p].on_rq, NEW u, u.class \in Classes,
         NEW head, ~head, rq' = enqueue_task(rq, p, u, head), WrrRunning' = WrrRunning
  PROVE  [RR!Next]_(RR!vars)
<1>1. rq \in RqType /\ RqOK(rq, task)
  BY DEF IInv, StateOK
<1>2. ~Linked(p, rq.wrr_queue)
  BY <1>1, OnWrrList
<1>3. rq'.wrr_queue = IF u.class = "wrr" THEN list_add_tail(p, rq.wrr_queue) ELSE rq.wrr_queue
  BY <1>1, <1>2, WrrListAfterEnqueue
<1>4. CASE u.class = "wrr"
  <2>1. RR!Join(p)
    BY <1>2, <1>3, <1>4, SameLists DEF RR!Join
  <2> QED  BY <2>1 DEF RR!Next
<1>5. CASE u.class # "wrr"
  BY <1>3, <1>5, StutterRR
<1> QED  BY <1>4, <1>5

\* __schedule gives the processor to the head of the list, or to no WRR task.
LEMMA SwitchRR ==
  ASSUME IInv', NEW T, NEW q, Switch(T, q),
         \/ q.wrr_queue = rq.wrr_queue
         \/ \E p \in WrrRunning : q.wrr_queue \in {list_del_init(p, rq.wrr_queue),
                                                  list_move_tail(p, rq.wrr_queue)}
  PROVE  [RR!Next]_(RR!vars)
<1>1. rq' = q /\ rq' \in RqType /\ RqOK(rq', task')
  BY DEF Switch, IInv, StateOK
<1>2. WrrRunning' = {} \/ (rq'.wrr_queue # << >> /\ WrrRunning' = {rq'.wrr_queue[1]})
  <2> SUFFICES ASSUME curr' # Idle, task'[curr'].class = "wrr"
               PROVE  rq'.wrr_queue # << >> /\ curr' = rq'.wrr_queue[1]
    BY DEF WrrRunning
  <2>1. pick_next_task(q) # {} /\ curr' \in pick_next_task(q)
    BY DEF Switch
  <2>2. curr' \notin pick_next_task_fair(q)
    BY <1>1 DEF pick_next_task_fair, RqOK, CfsOK, Members
  <2>3. curr' \notin pick_next_task_rt(q)
    BY <1>1, PickRt DEF Members
  <2>4. curr' \in pick_next_task_wrr(q)
    BY <2>1, <2>2, <2>3 DEF pick_next_task
  <2>5. q.wrr_nr # 0 /\ curr' = q.wrr_queue[1]
    BY <2>4 DEF pick_next_task_wrr
  <2>6. Len(q.wrr_queue) # 0 /\ q.wrr_queue \in Seq(Tasks)
    BY <1>1, <2>5 DEF RqOK, WrrListOK, RqType
  <2> QED  BY <1>1, <2>5, <2>6
<1>3. RR!Dispatch
  BY <1>1, <1>2, SameLists DEF RR!Dispatch
<1> QED  BY <1>3 DEF RR!Next
\* The WRR list is a round-robin queue whatever the other classes do, and
\* whatever system calls change the attributes of its tasks.
THEOREM RoundRobinRefined == Spec => ImplementsRoundRobin
<1>1. Init => RR!Init
  <2> SUFFICES ASSUME Init PROVE RR!Init
    OBVIOUS
  <2>1. rq.wrr_queue = << >>
    BY DEF Init, enqueue_task_fair, inc_nr_running, EmptyRq
  <2>2. InitTask \in Tasks /\ task[InitTask].class = "fair" /\ curr = InitTask
    BY SchedAssumption DEF Init, NoTask
  <2>3. WrrRunning = {}
    BY <2>2 DEF WrrRunning
  <2> QED  BY <2>1, <2>3 DEF RR!Init
<1>2. IInv /\ IInv' /\ [Next]_vars => [RR!Next]_(RR!vars)
  <2> SUFFICES ASSUME IInv, IInv', [Next]_vars PROVE [RR!Next]_(RR!vars)
    OBVIOUS
  <2>1. /\ task \in [Tasks -> TaskType] /\ \A x \in Tasks : TaskOK(task[x])
        /\ curr \in Tasks \cup {Idle} /\ Idle \notin Tasks
        /\ curr # Idle => task[curr].on_rq
        /\ rq \in RqType /\ RqOK(rq, task)
        /\ \A x \in Tasks : task[x].class \in Classes
    BY SchedAssumption DEF IInv, StateOK, TaskOK, TaskType
  <2>2. ASSUME rq' = rq, curr' = curr, curr \in Tasks => task'[curr].class = task[curr].class
        PROVE  [RR!Next]_(RR!vars)
    <3>1. WrrRunning' = WrrRunning
      BY <2>1, <2>2 DEF WrrRunning
    <3> QED  BY <2>2, <3>1, StutterRR
  <2>3. CASE Tick
    <3>1. curr' = curr /\ curr \in Tasks
      BY <2>1, <2>3 DEF Tick
    <3>2. task'[curr].class = task[curr].class
      BY <2>1, <2>3, <3>1 DEF Tick, task_tick_wrr, task_tick_rt, task_tick_fair, TaskType
    <3>3. WrrRunning' = WrrRunning
      BY <2>1, <3>1, <3>2 DEF WrrRunning
    <3>4. \/ rq' = rq
          \/ task[curr].class = "wrr" /\ rq' = requeue_task_wrr(rq, curr)
          \/ rq' = requeue_task_rt(rq, curr, task[curr])
      BY <2>3 DEF Tick, task_tick_wrr, task_tick_rt, task_tick_fair
    <3>5. CASE rq' = rq
      BY <3>3, <3>5, StutterRR
    <3>6. CASE task[curr].class = "wrr" /\ rq' = requeue_task_wrr(rq, curr)
      <4>1. Linked(curr, rq.wrr_queue)
        BY <2>1, <3>1, <3>6, OnWrrList
      <4>2. rq'.wrr_queue = list_move_tail(curr, rq.wrr_queue)
        BY <2>1, <3>6, <4>1 DEF requeue_task_wrr, on_wrr_rq, RqType
      <4>3. RR!GoToTail(curr)
        BY <3>3, <4>1, <4>2, SameLists DEF RR!GoToTail
      <4> QED  BY <3>1, <4>3 DEF RR!Next
    <3>7. CASE rq' = requeue_task_rt(rq, curr, task[curr])
      <4>1. rq'.wrr_queue = rq.wrr_queue
        BY <2>1, <3>7 DEF requeue_task_rt, RqType
      <4> QED  BY <3>3, <4>1, StutterRR
    <3> QED  BY <3>4, <3>5, <3>6, <3>7
  <2>4. ASSUME NEW T, Switch(T, rq) PROVE [RR!Next]_(RR!vars)
    BY <2>4, SwitchRR
  <2>5. CASE Schedule
    <3>1. CASE \E T : Switch(T, rq)
      BY <2>4, <3>1
    <3>2. ASSUME NEW T, Switch(T, dequeue_task(rq, curr, task[curr])), curr \in Tasks
          PROVE  [RR!Next]_(RR!vars)
      <4> DEFINE q == dequeue_task(rq, curr, task[curr])
      <4>1. task[curr].class = "wrr" <=> Linked(curr, rq.wrr_queue)
        BY <2>1, <3>2, OnWrrList
      <4>2. q.wrr_queue = IF task[curr].class = "wrr" THEN list_del_init(curr, rq.wrr_queue)
                                                      ELSE rq.wrr_queue
        BY <2>1, <3>2, <4>1, WrrListAfterDequeue
      <4>3. task[curr].class = "wrr" => curr \in WrrRunning
        BY <2>1, <3>2 DEF WrrRunning
      <4> HIDE DEF q
      <4>4. \/ q.wrr_queue = rq.wrr_queue
            \/ \E p \in WrrRunning : q.wrr_queue \in {list_del_init(p, rq.wrr_queue),
                                                     list_move_tail(p, rq.wrr_queue)}
        BY <4>2, <4>3
      <4> QED  BY <3>2, <4>4, SwitchRR DEF q
    <3> QED  BY <2>1, <2>5, <3>1, <3>2 DEF Schedule
  <2>6. CASE PreemptSchedule
    BY <2>4, <2>6 DEF PreemptSchedule
  <2>7. CASE SchedYield
    <3> DEFINE q == yield_task(curr)
    <3>1. Switch(task, q) /\ curr \in Tasks
      BY <2>1, <2>7 DEF SchedYield, InProcess
    <3>2. CASE task[curr].class = "wrr"
      <4>1. Linked(curr, rq.wrr_queue) /\ curr \in WrrRunning
        BY <2>1, <3>1, <3>2, OnWrrList DEF WrrRunning
      <4>2. q.wrr_queue = list_move_tail(curr, rq.wrr_queue)
        BY <2>1, <3>2, <4>1 DEF yield_task, requeue_task_wrr, on_wrr_rq, RqType
      <4> HIDE DEF q
      <4> QED  BY <3>1, <4>1, <4>2, SwitchRR
    <3>3. CASE task[curr].class # "wrr"
      <4>1. q.wrr_queue = rq.wrr_queue
        BY <2>1, <3>1, <3>3 DEF yield_task, requeue_task_rt, RqType, Classes
      <4> HIDE DEF q
      <4> QED  BY <3>1, <4>1, SwitchRR
    <3> QED  BY <3>2, <3>3
  <2>8. ASSUME NEW s \in SleepStates, SetCurrentState(s) PROVE [RR!Next]_(RR!vars)
    <3>1. curr \in Tasks => task'[curr].class = task[curr].class
      BY <2>1, <2>8 DEF SetCurrentState, TaskType
    <3> QED  BY <2>2, <2>8, <3>1 DEF SetCurrentState
  <2>9. CASE Exit
    <3>1. curr \in Tasks => task'[curr].class = task[curr].class
      BY <2>1, <2>9 DEF Exit, TaskType
    <3> QED  BY <2>2, <2>9, <3>1 DEF Exit
  <2>10. ASSUME NEW p \in Tasks, try_to_wake_up(p) PROVE [RR!Next]_(RR!vars)
    <3> DEFINE new == Woken(task[p])
    <3>1. /\ new.class = task[p].class /\ curr' = curr
          /\ task' = [task EXCEPT ![p] = new]
          /\ rq' = IF task[p].on_rq THEN rq ELSE enqueue_task(rq, p, new, FALSE)
      BY <2>1, <2>10 DEF try_to_wake_up, Woken, TaskType
    <3> HIDE DEF new
    <3>2. \A x \in Tasks : task'[x].class = task[x].class
      BY <2>1, <3>1
    <3>3. WrrRunning' = WrrRunning
      BY <2>1, <3>1, <3>2 DEF WrrRunning
    <3>4. CASE task[p].on_rq
      BY <3>1, <3>3, <3>4, StutterRR
    <3>5. CASE ~task[p].on_rq
      BY <2>1, <3>1, <3>3, <3>5, WakeRR
    <3> QED  BY <3>4, <3>5
  <2>11. ASSUME NEW p \in Tasks, Fork(p) PROVE [RR!Next]_(RR!vars)
    <3>1. curr \in Tasks /\ task[p].life = "none" /\ task[curr].life = "live"
      BY <2>1, <2>11 DEF Fork, InProcess, Exists, TaskOK, LifeOK
    <3>2. task'[curr].class = task[curr].class
      BY <2>1, <2>11, <3>1 DEF Fork, TaskType
    <3> QED  BY <2>2, <2>11, <3>2 DEF Fork
  <2>12. ASSUME NEW p \in Tasks, wake_up_new_task(p) PROVE [RR!Next]_(RR!vars)
    <3> DEFINE new == [task[p] EXCEPT !.life = "live", !.on_rq = TRUE]
    <3>1. /\ curr \in Tasks /\ curr' = curr /\ p \in task[curr].newborn
          /\ task' = [task EXCEPT ![p] = new, ![curr].newborn = {}]
          /\ rq' = enqueue_task(rq, p, new, FALSE)
      BY <2>1, <2>12 DEF wake_up_new_task
    <3>2. p # curr /\ ~task[p].on_rq
      BY <2>1, <3>1 DEF IInv, StateOK, NewbornsOK, TaskOK, LifeOK
    <3>3. new.class = task[p].class
      BY <2>1 DEF TaskType
    <3> HIDE DEF new
    <3>4. task'[curr].class = task[curr].class
      BY <2>1, <3>1, <3>2 DEF TaskType
    <3>5. WrrRunning' = WrrRunning
      BY <2>1, <3>1, <3>4 DEF WrrRunning
    <3> QED  BY <2>1, <3>1, <3>2, <3>3, <3>5, WakeRR
  <2>13. ASSUME NEW p \in Tasks, NEW policy \in Policies, NEW prio \in {0} \cup RtParams,
                NEW reset \in ResetFlags, sched_setscheduler(p, policy, prio, reset)
         PROVE  [RR!Next]_(RR!vars)
    <3> DEFINE new == __setscheduler([task[p] EXCEPT !.reset_on_fork = reset], policy, prio)
    <3>1. policy \in AllPolicies /\ reset \in BOOLEAN /\ prio \in 0 .. (MAX_RT_PRIO - 1)
      BY SchedAssumption, Ranges
    <3>2. TaskOK(new) /\ SameLife(task[p], new)
      BY <2>1, <3>1, SetSchedulerOK
    <3>3. Change(p, new, FALSE)
      BY <2>13 DEF sched_setscheduler
    <3> HIDE DEF new
    <3> QED  BY <3>2, <3>3, ChangeRR
  <2>14. ASSUME NEW p \in Tasks, NEW static \in NicePrios, set_user_nice(p, static)
         PROVE  [RR!Next]_(RR!vars)
    <3> DEFINE nice == [task[p] EXCEPT !.static_prio = static]
               new == [nice EXCEPT !.normal_prio = normal_prio(nice),
                                   !.prio = effective_prio(nice)]
    <3>1. nice.class = task[p].class
      BY <2>1 DEF TaskType
    <3>2. ~rt_policy(task[p].policy) => TaskOK(new) /\ SameLife(task[p], new)
      BY <2>1, SetUserNiceOK
    <3>3. \/ task' = [task EXCEPT ![p] = nice] /\ rq' = rq /\ curr' = curr
          \/ ~rt_policy(task[p].policy) /\ Change(p, new, FALSE)
      BY <2>14 DEF set_user_nice
    <3> HIDE DEF nice, new
    <3>4. CASE task' = [task EXCEPT ![p] = nice] /\ rq' = rq /\ curr' = curr
      BY <2>1, <2>2, <3>1, <3>4
    <3>5. CASE ~rt_policy(task[p].policy) /\ Change(p, new, FALSE)
      BY <3>2, <3>5, ChangeRR
    <3> QED  BY <3>3, <3>4, <3>5
  <2>15. ASSUME NEW p \in Tasks, NEW w \in PiPrios \cup {NO_WAITER}, RtMutexAdjustPrio(p, w)
         PROVE  [RR!Next]_(RR!vars)
    <3> DEFINE t == [task[p] EXCEPT !.pi = w]
               prio == rt_mutex_getprio(t)
               new == rt_mutex_setprio(t, prio)
               head == AtHead(t.prio, prio)
    <3>1. t.class = task[p].class /\ t \in TaskType
      BY <2>1 DEF TaskType
    <3>2. TaskOK(new) /\ SameLife(task[p], new)
      BY <2>1, AdjustPrioOK
    <3>3. new.class # "wrr"
      BY <3>1 DEF rt_mutex_setprio, rt_or_fair, TaskType
    <3>4. \/ task' = [task EXCEPT ![p] = t] /\ rq' = rq /\ curr' = curr
          \/ Change(p, new, head)
      BY <2>15 DEF RtMutexAdjustPrio
    <3>5. head \in BOOLEAN
      BY DEF AtHead
    <3> HIDE DEF t, prio, new, head
    <3>6. CASE task' = [task EXCEPT ![p] = t] /\ rq' = rq /\ curr' = curr
      BY <2>1, <2>2, <3>1, <3>6
    <3>7. CASE Change(p, new, head)
      BY <3>2, <3>3, <3>5, <3>7, ChangeRR
    <3> QED  BY <3>4, <3>6, <3>7
  <2>16. ASSUME NEW p \in Tasks, NEW g \in Groups, sched_move_task(p, g)
         PROVE  [RR!Next]_(RR!vars)
    <3> DEFINE new == [task[p] EXCEPT !.group = g]
    <3>1. g \in {"fore", "back"}
      BY SchedAssumption
    <3>2. /\ new \in TaskType /\ SameLife(task[p], new) /\ new.class = task[p].class
          /\ new.policy = task[p].policy /\ new.rt_priority = task[p].rt_priority
          /\ new.prio = task[p].prio /\ new.static_prio = task[p].static_prio
          /\ new.normal_prio = task[p].normal_prio /\ new.pi = task[p].pi
      BY <2>1, <3>1 DEF TaskType, SameLife
    <3>3. Change(p, new, FALSE)
      BY <2>16 DEF sched_move_task
    <3> HIDE DEF new
    <3>4. TaskOK(new)
      BY <2>1, <3>2 DEF TaskOK, AttributesOK, normal_prio, rt_mutex_getprio, LifeOK, SameLife
    <3> QED  BY <3>2, <3>3, <3>4, ChangeRR
  <2>17. CASE UNCHANGED vars
    BY <2>2, <2>17 DEF vars
  <2> QED  BY <2>3, <2>5, <2>6, <2>7, <2>8, <2>9, <2>10, <2>11, <2>12, <2>13, <2>14, <2>15,
              <2>16, <2>17 DEF Next
<1> QED  BY <1>1, <1>2, Inductive, PTL DEF Spec, ImplementsRoundRobin, RR!Spec
=============================================================================
