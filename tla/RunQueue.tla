------------------------------ MODULE RunQueue ------------------------------
(***************************************************************************)
(* The run queue of one CPU (struct rq, kernel/sched/sched.h) and the      *)
(* operations with which the scheduling classes put tasks on it and take   *)
(* them off: rt.c and wrr.c.  The fair class (CFS, not in this tree) is    *)
(* the set of its queued tasks.  Every operator is a pure function of a    *)
(* run queue q, so that the actions of module Sched compose them in the    *)
(* order in which the kernel calls them.                                   *)
(*                                                                         *)
(* A task p is described by a record t with (at least) the fields class    *)
(* and prio, its p->sched_class and p->prio at the time of the call.       *)
(***************************************************************************)
EXTENDS LinkedList, FiniteSets

CONSTANTS
  Tasks,        \* the task_structs other than the idle task's
  MAX_RT_PRIO   \* priorities below it are real-time (100 in linux/sched.h)

ASSUME TasksFinite == IsFiniteSet(Tasks)
ASSUME MAX_RT_PRIOAssumption == MAX_RT_PRIO \in Nat \ {0}

RtPrios == 0 .. (MAX_RT_PRIO - 1)

-----------------------------------------------------------------------------
(* struct rq: the RT priority array with its bitmap and counter, the WRR   *)
(* list with its counter, the tasks queued in CFS, and nr_running.         *)
EmptyRq ==
  [ queue     |-> [i \in RtPrios |-> << >>],  bitmap |-> {},  rt_nr |-> 0,
    wrr_queue |-> << >>,                      wrr_nr |-> 0,
    cfs       |-> {},
    nr        |-> 0 ]

RqType ==
  [ queue     : [RtPrios -> Seq(Tasks)],  bitmap : SUBSET RtPrios,  rt_nr : Nat,
    wrr_queue : Seq(Tasks),               wrr_nr : Nat,
    cfs       : SUBSET Tasks,
    nr        : Nat ]

inc_nr_running(q) == [q EXCEPT !.nr = @ + 1]
dec_nr_running(q) == [q EXCEPT !.nr = @ - 1]

-----------------------------------------------------------------------------
(* rt.c.  A group-less task: for_each_sched_rt_entity runs once.           *)

on_rt_rq(q, p) == \E i \in RtPrios : Linked(p, q.queue[i])

__enqueue_rt_entity(q, p, t, head) ==
  [q EXCEPT !.queue[t.prio] = Insert(p, @, head),
            !.bitmap        = @ \cup {t.prio},
            !.rt_nr         = @ + 1]

\* list_del_init unlinks p from the list it is on; the bit that is cleared,
\* and the list looked at for it, are those of p's priority of the moment.
__dequeue_rt_entity(q, p, t) ==
  LET unlinked == [i \in RtPrios |-> IF Linked(p, q.queue[i])
                                       THEN list_del_init(p, q.queue[i])
                                       ELSE q.queue[i]]
  IN  [q EXCEPT !.queue  = unlinked,
                !.bitmap = IF unlinked[t.prio] = << >> THEN @ \ {t.prio} ELSE @,
                !.rt_nr  = @ - 1]

dequeue_rt_stack(q, p, t) ==
  IF on_rt_rq(q, p) THEN __dequeue_rt_entity(q, p, t) ELSE q

enqueue_task_rt(q, p, t, head) ==
  inc_nr_running(__enqueue_rt_entity(dequeue_rt_stack(q, p, t), p, t, head))

dequeue_task_rt(q, p, t) == dec_nr_running(dequeue_rt_stack(q, p, t))

requeue_task_rt(q, p, t) ==
  IF on_rt_rq(q, p) THEN [q EXCEPT !.queue[t.prio] = list_move_tail(p, @)] ELSE q

\* sched_find_first_bit: the highest priority is the lowest number.
pick_next_task_rt(q) ==
  IF q.rt_nr = 0
    THEN {}
    ELSE LET idx == CHOOSE i \in q.bitmap : \A j \in q.bitmap : i <= j
         IN  {q.queue[idx][1]}

-----------------------------------------------------------------------------
(* wrr.c: one list, whatever the priorities of its tasks.                  *)

on_wrr_rq(q, p) == Linked(p, q.wrr_queue)

__enqueue_wrr_entity(q, p, head) ==
  [q EXCEPT !.wrr_queue = Insert(p, @, head), !.wrr_nr = @ + 1]

__dequeue_wrr_entity(q, p) ==
  [q EXCEPT !.wrr_queue = list_del_init(p, @), !.wrr_nr = @ - 1]

dequeue_wrr_stack(q, p) ==
  IF on_wrr_rq(q, p) THEN __dequeue_wrr_entity(q, p) ELSE q

enqueue_task_wrr(q, p, head) ==
  inc_nr_running(__enqueue_wrr_entity(dequeue_wrr_stack(q, p), p, head))

dequeue_task_wrr(q, p) == dec_nr_running(dequeue_wrr_stack(q, p))

requeue_task_wrr(q, p) ==
  IF on_wrr_rq(q, p) THEN [q EXCEPT !.wrr_queue = list_move_tail(p, @)] ELSE q

\* Mutant: the wrong end of the list.
pick_next_task_wrr_Tail(q) ==
  IF q.wrr_nr = 0 THEN {} ELSE {q.wrr_queue[Len(q.wrr_queue)]}

pick_next_task_wrr(q) == IF q.wrr_nr = 0 THEN {} ELSE {q.wrr_queue[1]}

-----------------------------------------------------------------------------
(* CFS, as core.c uses it: a queued task counts in nr_running, and any of  *)
(* the queued tasks may be the one picked.                                 *)

enqueue_task_fair(q, p) == inc_nr_running([q EXCEPT !.cfs = @ \cup {p}])

dequeue_task_fair(q, p) == dec_nr_running([q EXCEPT !.cfs = @ \ {p}])

pick_next_task_fair(q) == q.cfs

-----------------------------------------------------------------------------
(* core.c: the indirect calls through p->sched_class.                      *)

enqueue_task(q, p, t, head) ==
  CASE t.class = "rt"   -> enqueue_task_rt(q, p, t, head)
    [] t.class = "wrr"  -> enqueue_task_wrr(q, p, head)
    [] t.class = "fair" -> enqueue_task_fair(q, p)

dequeue_task(q, p, t) ==
  CASE t.class = "rt"   -> dequeue_task_rt(q, p, t)
    [] t.class = "wrr"  -> dequeue_task_wrr(q, p)
    [] t.class = "fair" -> dequeue_task_fair(q, p)

\* Mutant: the task is changed before it is taken off.
Requeue_ChangedFirst(q, p, old, new, head) ==
  IF old.on_rq THEN enqueue_task(dequeue_task(q, p, new), p, new, head) ELSE q

\* The pattern of every attribute change: if p is on the run queue it is
\* taken off with its old attributes, changed, and put back with its new ones.
Requeue(q, p, old, new, head) ==
  IF old.on_rq THEN enqueue_task(dequeue_task(q, p, old), p, new, head) ELSE q

\* Mutant: CFS is asked first whenever it has a task.
pick_next_task_CfsFirst(q) ==
  IF q.cfs # {}                          THEN pick_next_task_fair(q)
  ELSE IF pick_next_task_rt(q) # {}      THEN pick_next_task_rt(q)
  ELSE pick_next_task_wrr(q)

\* pick_next_task: the tasks that may be picked; {} when only the idle class
\* has one.  The fast path asks CFS alone when it holds every runnable task.
pick_next_task(q) ==
  IF q.nr = Cardinality(q.cfs) /\ q.cfs # {}       THEN pick_next_task_fair(q)
  ELSE IF pick_next_task_rt(q) # {}                THEN pick_next_task_rt(q)
  ELSE IF pick_next_task_wrr(q) # {}               THEN pick_next_task_wrr(q)
  ELSE pick_next_task_fair(q)

-----------------------------------------------------------------------------
(* What the run queue promises, T being the task_structs: the three        *)
(* structures and the counters describe the same set of runnable tasks.    *)

Members(T, class) == {p \in Tasks : T[p].on_rq /\ T[p].class = class}

\* Each runnable RT task is on the one list of its priority, once; the bitmap
\* shows the lists that are not empty.
RtArrayOK(q, T) ==
  /\ \A i \in RtPrios :
       /\ NoDuplicates(q.queue[i])
       /\ Range(q.queue[i]) = {p \in Members(T, "rt") : T[p].prio = i}
       /\ i \in q.bitmap <=> q.queue[i] # << >>
  /\ \A p \in Members(T, "rt") : T[p].prio \in RtPrios
  /\ q.rt_nr = Cardinality(Members(T, "rt"))

\* Each runnable WRR task is on the WRR list, once.
WrrListOK(q, T) ==
  /\ NoDuplicates(q.wrr_queue)
  /\ Range(q.wrr_queue) = Members(T, "wrr")
  /\ q.wrr_nr = Len(q.wrr_queue)

CfsOK(q, T) == q.cfs = Members(T, "fair")

\* nr_running counts the queued tasks of all classes.
CountOK(q) == q.nr = q.rt_nr + q.wrr_nr + Cardinality(q.cfs)

RqOK(q, T) == RtArrayOK(q, T) /\ WrrListOK(q, T) /\ CfsOK(q, T) /\ CountOK(q)
=============================================================================
