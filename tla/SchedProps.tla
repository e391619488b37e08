----------------------------- MODULE SchedProps -----------------------------
(***************************************************************************)
(* What module Sched is to guarantee.                                      *)
(***************************************************************************)
EXTENDS Sched

\* Every variable has its type; in particular no time slice leaves the
\* unsigned range and no RT slice reaches zero.
TypeOK ==
  /\ task \in [Tasks -> TaskType]
  /\ rq \in RqType
  /\ curr \in Tasks \cup {Idle}
  /\ need_resched \in BOOLEAN

\* The RT array, the WRR list, the CFS set and the counters of the run queue
\* agree with p->on_rq, p->sched_class and p->prio of every task, through
\* every dequeue-change-enqueue of core.c (rt_mutex_setprio, set_user_nice,
\* __sched_setscheduler, sched_move_task) and every wake-up, fork and exit.
RqConsistent == RqOK(rq, task)

\* try_to_wake_up's comment: "The current thread is always on the run-queue";
\* and no runnable task is ever off it (it could then never run again).
NoRunnableTaskLost ==
  /\ curr # Idle => task[curr].on_rq
  /\ \A p \in Tasks :
       /\ task[p].life = "live" /\ task[p].state = "running" => task[p].on_rq
       /\ task[p].on_rq => task[p].life = "live"

\* A task's class follows from its policy and effective priority, except that
\* a WRR task stays in the WRR class whatever its priority; nothing else may
\* be in that class.
ClassDiscipline ==
  \A p \in Tasks :
    /\ task[p].class = "wrr" => task[p].policy = "WRR"
    /\ task[p].class # "wrr" => task[p].class = rt_or_fair(task[p].prio)
    /\ task[p].normal_prio = normal_prio(task[p])

\* Priority inheritance: outside the WRR class a task whose top waiter is
\* real-time runs at the better of its own priority and the waiter's, and a
\* task with no waiter at its own, across every setscheduler, nice, fork and
\* wake-up in between.  In particular a task that leaves the WRR class does
\* not take along the prio it has aged to there: outside it "priority goes
\* from 0..MAX_PRIO-1" (linux/sched.h), in it up to the cap of wrr.c.
PiHonoured ==
  \A p \in Tasks :
    LET t == task[p]
    IN  t.class # "wrr" =>
          /\ t.prio < MAX_PRIO
          /\ rt_prio(t.pi) \/ t.pi = NO_WAITER => t.prio = rt_mutex_getprio(t)

-----------------------------------------------------------------------------
\* p should be running rather than curr: it is queued in a higher class, or
\* at a higher RT priority.
Outranks(p) ==
  /\ task[p].on_rq
  /\ p # curr
  /\ \/ curr = Idle
     \/ Rank(task[p].class) < Rank(task[curr].class)
     \/ /\ task[p].class = "rt" /\ task[curr].class = "rt"
        /\ task[p].prio < task[curr].prio

MissedPreemption == ~need_resched /\ \E p \in Tasks : Outranks(p)

SwitchedToWrr == \E p \in Tasks : task[p].class # "wrr" /\ task'[p].class = "wrr"

\* A task made WRR while boosted keeps its real-time prio in the WRR class.
WrrTaskWithRtPrioRuns ==
  curr # Idle /\ task[curr].class = "wrr" /\ rt_prio(task[curr].prio)

\* A runnable task of a higher class or RT priority goes unnoticed only where
\* the WRR class breaks the rules: when a task is switched to it (its
\* switched_to hook is empty), or while a WRR task runs with a real-time prio
\* (the RT hooks compare prio alone).  Every other change of class, priority
\* or run queue asks for a reschedule where it should.
OnlyWrrMissesPreemption ==
  [][MissedPreemption' => MissedPreemption \/ SwitchedToWrr \/ WrrTaskWithRtPrioRuns]_vars

\* "Pick up the highest-prio task": once a reschedule has been done, nobody
\* on the run queue outranks the task that runs.
PickHighest ==
  [][need_resched /\ ~need_resched' => \A p \in Tasks : ~Outranks(p)']_vars

-----------------------------------------------------------------------------
WrrRunning == IF curr # Idle /\ task[curr].class = "wrr" THEN {curr} ELSE {}

RR == INSTANCE RoundRobin WITH Clients <- Tasks, queue <- rq.wrr_queue,
                               running <- WrrRunning

\* The WRR class is a round-robin queue: tasks enter at its tail only, only
\* its head is ever given the processor, and the others keep their places.
ImplementsRoundRobin == RR!Spec

\* p gives up its place among the RT tasks of its priority: it runs and calls
\* sched_yield (which alone switches at once), it has used up the slice of its
\* policy RR, or it is dequeued and queued anew with other attributes.
GivesUpPlace(p) ==
  \/ p = curr /\ ~need_resched'
  \/ p = curr /\ task[p].policy = "RR" /\ task[p].rt_slice = 1
  \/ \E attribute \in {"policy", "rt_priority", "static_prio", "group"} :
       task[p][attribute] # task'[p][attribute]

\* q is lent a better priority no longer.
Deboosted(q) == task[q].prio < task'[q].prio /\ task[q].pi < task'[q].pi

\* Among the RT tasks of one priority nobody gets ahead of a task that has not
\* given up its place, but a task that comes down to that priority when a
\* boost ends: whatever ticks, wake-ups, boosts and changes of attributes
\* take tasks off these lists and put them back.
RtKeepsItsPlace ==
  [][\A i \in RtPrios, p, q \in Tasks :
       /\ Linked(p, rq.queue[i]) /\ ~Ahead(q, p, rq.queue[i])
       /\ Ahead(q, p, rq'.queue[i])
       => GivesUpPlace(p) \/ Deboosted(q)]_vars

\* sys_sched_getscheduler's comment takes the policy for the scheduling
\* class: an unboosted task of policy WRR is in the WRR class.
PolicyIsClass ==
  \A p \in Tasks :
    task[p].life = "live" /\ task[p].policy = "WRR" /\ task[p].pi = NO_WAITER
      => task[p].class = "wrr"
=============================================================================
