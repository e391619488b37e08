-------------------------------- MODULE Sched --------------------------------
(***************************************************************************)
(* The scheduler of a uniprocessor kernel with the weighted round-robin    *)
(* class: kernel/sched/core.c, wrr.c and the real-time class of rt.c       *)
(* (without RT throttling).  CFS and the idle class are outside the tree;  *)
(* they appear through the hooks core.c calls.                             *)
(*                                                                         *)
(* Everything that holds rq->lock runs with interrupts off, so on one CPU  *)
(* each such section is one step.  What may come between two steps is a    *)
(* timer tick, a wake-up from an interrupt, or a preemption.               *)
(***************************************************************************)
EXTENDS RunQueue

CONSTANTS
  Idle,                 \* the idle task
  InitTask,             \* the first task; it never exits
  MAX_PRIO,             \* as core.c sees it: priorities are 0 .. MAX_PRIO-1
  WRR_MAX_PRIO,         \* the MAX_PRIO that wrr.c defines for itself (500)
  UINT_MAX,             \* of the unsigned time_slice
  RR_TIMESLICE, WRR_TIMESLICE_FORE, WRR_TIMESLICE_BACK,
  Policies,             \* the policies sched_setscheduler is called with
  RtParams,             \* the sched_priority values it is called with
  ResetFlags,           \* its SCHED_RESET_ON_FORK bits in use
  SleepStates,          \* the states tasks sleep in
  NicePrios,            \* NICE_TO_PRIO of the nice values in use
  DEFAULT_PRIO,         \* NICE_TO_PRIO(0)
  PiPrios,              \* priorities of the waiters of an rt_mutex
  Groups                \* the task groups in use, "fore" being the root

VARIABLES
  task,                 \* [Tasks -> TaskType], the task_structs
  rq,                   \* the run queue
  curr,                 \* rq->curr
  need_resched          \* TIF_NEED_RESCHED of rq->curr

vars == << task, rq, curr, need_resched >>

RtPolicies == {"FIFO", "RR"}
AllPolicies == RtPolicies \cup {"NORMAL", "WRR"}
Classes == {"rt", "wrr", "fair"}

ASSUME SchedAssumption ==
  /\ Idle \notin Tasks
  /\ InitTask \in Tasks
  /\ MAX_PRIO \in Nat /\ WRR_MAX_PRIO \in Nat /\ MAX_RT_PRIO < MAX_PRIO
  /\ MAX_PRIO <= WRR_MAX_PRIO
  /\ RR_TIMESLICE \in Nat \ {0}
  /\ WRR_TIMESLICE_FORE \in 0 .. UINT_MAX /\ WRR_TIMESLICE_BACK \in 0 .. UINT_MAX
  /\ UINT_MAX \in Nat \ {0}
  /\ Policies \subseteq AllPolicies
  /\ RtParams \subseteq 0 .. (MAX_RT_PRIO - 1)
  /\ ResetFlags \subseteq BOOLEAN
  /\ SleepStates \subseteq {"intr", "unintr"}
  /\ NicePrios \subseteq MAX_RT_PRIO .. (MAX_PRIO - 1)
  /\ DEFAULT_PRIO \in NicePrios
  /\ PiPrios \subseteq 0 .. WRR_MAX_PRIO
  /\ Groups \subseteq {"fore", "back"}

\* Stands for "no waiter": a priority below every real one.
NO_WAITER == WRR_MAX_PRIO + 1

(* A task_struct.  life tells the slot of a task that does not exist       *)
(* ("none") from a child fork() has set up but not yet woken ("new");      *)
(* newborn is the child its parent is in the middle of forking; pi is the  *)
(* priority of the top waiter on the rt_mutexes the task holds.            *)
TaskType ==
  [ life : {"none", "new", "live"},  newborn : SUBSET Tasks,
    state : {"running", "intr", "unintr", "dead"},  on_rq : BOOLEAN,
    policy : AllPolicies,  class : Classes,  rt_priority : 0 .. (MAX_RT_PRIO - 1),
    static_prio : NicePrios,  normal_prio : 0 .. (MAX_PRIO - 1),
    prio : 0 .. WRR_MAX_PRIO,  pi : PiPrios \cup {NO_WAITER},
    wrr_slice : 0 .. UINT_MAX,  rt_slice : 1 .. RR_TIMESLICE,
    group : {"fore", "back"},  reset_on_fork : BOOLEAN ]

NoTask ==
  [ life |-> "none", newborn |-> {}, state |-> "dead", on_rq |-> FALSE,
    policy |-> "NORMAL", class |-> "fair", rt_priority |-> 0,
    static_prio |-> DEFAULT_PRIO, normal_prio |-> DEFAULT_PRIO,
    prio |-> DEFAULT_PRIO, pi |-> NO_WAITER,
    wrr_slice |-> 0, rt_slice |-> RR_TIMESLICE,
    group |-> "fore", reset_on_fork |-> FALSE ]

Exists(p) == task[p].life # "none"

-----------------------------------------------------------------------------
(* Priorities. *)

rt_prio(prio) == prio < MAX_RT_PRIO
rt_policy(policy) == policy \in RtPolicies
Lower(a, b) == IF a < b THEN a ELSE b

normal_prio(t) ==
  IF rt_policy(t.policy) THEN MAX_RT_PRIO - 1 - t.rt_priority ELSE t.static_prio

\* rt_mutex_getprio (kernel/rtmutex.c): the better of one's own priority and
\* that of the top waiter.
rt_mutex_getprio(t) == Lower(t.normal_prio, t.pi)

\* Mutant: a boost does not survive a change of the nice value.
effective_prio_Unboosted(t) == normal_prio(t)

effective_prio(t) == IF rt_prio(t.prio) THEN t.prio ELSE normal_prio(t)

rt_or_fair(prio) == IF rt_prio(prio) THEN "rt" ELSE "fair"

-----------------------------------------------------------------------------
(* Preemption checks.  Each operator is the set of possible answers to     *)
(* "does this call reschedule the current task?"; only CFS leaves more     *)
(* than one.  T is the task function after the change.                     *)

Rank(class) == CASE class = "rt" -> 1 [] class = "wrr" -> 2 [] class = "fair" -> 3

check_preempt_curr(T, p) ==
  IF curr = Idle THEN {TRUE}
  ELSE IF T[p].class # T[curr].class
    THEN {Rank(T[p].class) < Rank(T[curr].class)}
    ELSE CASE T[p].class = "rt"   -> {T[p].prio < T[curr].prio}
           [] T[p].class = "wrr"  -> {FALSE}
           [] T[p].class = "fair" -> IF p = curr THEN {FALSE} ELSE BOOLEAN

\* The idle task's priority is not a real-time one.
HigherPrioThanCurr(T, p) == curr = Idle \/ T[p].prio < T[curr].prio

\* Mutant: the running task's own change of class is never a reason.
switched_to_NotIfRunning(T, p) ==
  IF ~T[p].on_rq \/ curr = p \/ T[p].class = "wrr" THEN {FALSE}
  ELSE check_preempt_curr(T, p)

switched_to(T, p) ==
  CASE T[p].class = "rt"   -> {T[p].on_rq /\ curr # p /\ HigherPrioThanCurr(T, p)}
    [] T[p].class = "wrr"  -> {FALSE}
    [] T[p].class = "fair" -> IF ~T[p].on_rq THEN {FALSE}
                              ELSE IF curr = p THEN {TRUE}
                              ELSE check_preempt_curr(T, p)

prio_changed(T, p, oldprio) ==
  CASE T[p].class = "rt"   -> {T[p].on_rq /\ IF curr = p THEN oldprio < T[p].prio
                                                         ELSE HigherPrioThanCurr(T, p)}
    [] T[p].class = "wrr"  -> {FALSE}
    [] T[p].class = "fair" -> IF ~T[p].on_rq THEN {FALSE}
                              ELSE IF curr = p THEN {oldprio < T[p].prio}
                              ELSE check_preempt_curr(T, p)

check_class_changed(T, p) ==
  IF task[p].class # T[p].class     THEN switched_to(T, p)
  ELSE IF task[p].prio # T[p].prio  THEN prio_changed(T, p, task[p].prio)
  ELSE {FALSE}

\* resched_task(rq->curr) if one of the answers is yes.
Resched(answers) == \E r \in answers : need_resched' = (need_resched \/ r)

\* A task's attributes change under rq->lock: p becomes new, and is taken
\* off the run queue before and put back after if it is on it.
Change(p, new, head) ==
  /\ task' = [task EXCEPT ![p] = new]
  /\ rq' = Requeue(rq, p, task[p], new, head)
  /\ UNCHANGED curr

-----------------------------------------------------------------------------
\* sched_init, and rest_init (init/main.c): the idle task has started the
\* first task, which runs.
Init ==
  /\ task = [p \in Tasks |->
               IF p = InitTask
                 THEN [NoTask EXCEPT !.life = "live", !.state = "running", !.on_rq = TRUE]
                 ELSE NoTask]
  /\ rq = enqueue_task_fair(EmptyRq, InitTask)
  /\ curr = InitTask
  /\ need_resched = FALSE

-----------------------------------------------------------------------------
(* scheduler_tick: the timer interrupt. *)

timeslice(t) == IF t.group = "fore" THEN WRR_TIMESLICE_FORE ELSE WRR_TIMESLICE_BACK

Decrement(n) == (n - 1) % (UINT_MAX + 1)

\* Mutant: without the cap.
Aged_NoCap(prio) == prio + 1

\* Every tick within a slice makes the number larger, the priority lower.
Aged(prio) == Lower(prio + 1, WRR_MAX_PRIO)

\* Mutant: two tasks are not yet worth a requeue.
SharesList_OffByOne(p, s) == Linked(p, s) /\ Len(s) > 2

\* run_list.prev # run_list.next: p shares its list.
SharesList(p, s) == Linked(p, s) /\ Len(s) > 1

task_tick_wrr(p) ==
  LET t    == task[p]
      left == Decrement(IF t.wrr_slice = 0 THEN timeslice(t) ELSE t.wrr_slice)
  IN  /\ t.class = "wrr"
      /\ t.policy = "WRR"
      /\ \/ /\ left > 0
            /\ task' = [task EXCEPT ![p].wrr_slice = left,
                                    ![p].prio = Aged(@)]
            /\ UNCHANGED << rq, need_resched >>
         \/ /\ left = 0
            /\ task' = [task EXCEPT ![p].wrr_slice = timeslice(t)]
            /\ IF SharesList(p, rq.wrr_queue)
                 THEN rq' = requeue_task_wrr(rq, p) /\ need_resched' = TRUE
                 ELSE UNCHANGED << rq, need_resched >>

task_tick_rt(p) ==
  LET t == task[p]
  IN  /\ t.class = "rt"
      /\ t.policy = "RR"
      /\ \/ /\ t.rt_slice > 1
            /\ task' = [task EXCEPT ![p].rt_slice = @ - 1]
            /\ UNCHANGED << rq, need_resched >>
         \/ /\ t.rt_slice = 1
            /\ task' = [task EXCEPT ![p].rt_slice = RR_TIMESLICE]
            /\ IF SharesList(p, rq.queue[t.prio])
                 THEN rq' = requeue_task_rt(rq, p, t) /\ need_resched' = TRUE
                 ELSE UNCHANGED << rq, need_resched >>

\* CFS may preempt at a tick when it has another task to run.
task_tick_fair(p) ==
  /\ task[p].class = "fair"
  /\ Cardinality(rq.cfs) > 1
  /\ need_resched' = TRUE
  /\ UNCHANGED << task, rq >>

Tick ==
  /\ curr # Idle
  /\ task_tick_wrr(curr) \/ task_tick_rt(curr) \/ task_tick_fair(curr)
  /\ UNCHANGED curr

-----------------------------------------------------------------------------
(* __schedule. *)

\* put_prev_task, pick_next_task, clear_tsk_need_resched(prev) and, when a
\* dead task is switched away from, the release of its slot.
Switch(T, q) ==
  /\ curr' \in (IF pick_next_task(q) = {} THEN {Idle} ELSE pick_next_task(q))
  /\ need_resched' = FALSE
  /\ rq' = q
  /\ task' = [p \in Tasks |-> IF T[p].life = "live" /\ T[p].state = "dead"
                                THEN NoTask ELSE T[p]]

\* schedule() called by the current task: one that is not TASK_RUNNING leaves
\* the run queue, unless a signal is pending and it sleeps interruptibly.
Schedule ==
  /\ curr # Idle
  /\ LET t == task[curr]
     IN  \/ t.state = "running" /\ Switch(task, rq)
         \/ t.state = "intr"    /\ Switch([task EXCEPT ![curr].state = "running"], rq)
         \/ /\ t.state # "running"
            /\ Switch([task EXCEPT ![curr].on_rq = FALSE], dequeue_task(rq, curr, t))

\* preempt_schedule[_irq], the return to user mode and the idle loop: with
\* PREEMPT_ACTIVE set the current task stays queued whatever its state.
\* A dead task runs with preemption disabled.
PreemptSchedule ==
  /\ need_resched
  /\ curr # Idle => task[curr].state # "dead"
  /\ Switch(task, rq)

\* sys_sched_yield keeps interrupts off until schedule() has switched.
InProcess(p) == p # Idle /\ task[p].state = "running" /\ task[p].newborn = {}

yield_task(p) ==
  CASE task[p].class = "rt"   -> requeue_task_rt(rq, p, task[p])
    [] task[p].class = "wrr"  -> requeue_task_wrr(rq, p)
    [] task[p].class = "fair" -> rq

SchedYield == InProcess(curr) /\ Switch(task, yield_task(curr))

-----------------------------------------------------------------------------
(* Sleeping and waking. *)

\* set_current_state, the first half of every wait loop.
SetCurrentState(s) ==
  /\ InProcess(curr)
  /\ task' = [task EXCEPT ![curr].state = s]
  /\ UNCHANGED << rq, curr, need_resched >>

\* Mutant: ttwu_activate forgets p->on_rq = 1.
Woken_NotOnRq(t) == [t EXCEPT !.state = "running"]

Woken(t) == [t EXCEPT !.state = "running", !.on_rq = TRUE]

try_to_wake_up(p) ==
  /\ task[p].state \in {"intr", "unintr"}
  /\ LET new == Woken(task[p])
         T   == [task EXCEPT ![p] = new]
     IN  /\ task' = T
         /\ rq' = IF task[p].on_rq THEN rq ELSE enqueue_task(rq, p, new, FALSE)
         /\ Resched(check_preempt_curr(T, p))
  /\ UNCHANGED curr

-----------------------------------------------------------------------------
(* fork and exit. *)

\* A boost of the parent's is not for the child.
inherited_prio(t) == t.normal_prio

\* dup_task_struct (kernel/fork.c) copies the parent; sched_fork then edits
\* the copy.  Note that WRR is not an RT policy and has no branch of its own.
sched_fork(t) ==
  LET copy  == [t EXCEPT !.life = "new", !.newborn = {}, !.state = "running",
                         !.on_rq = FALSE, !.pi = NO_WAITER, !.prio = inherited_prio(t)]
      base  == IF rt_policy(t.policy)
                 THEN [copy EXCEPT !.policy = "NORMAL", !.rt_priority = 0,
                                   !.static_prio = DEFAULT_PRIO]
                 ELSE [copy EXCEPT !.static_prio = IF @ < DEFAULT_PRIO
                                                     THEN DEFAULT_PRIO ELSE @]
      child == IF t.reset_on_fork
                 THEN [base EXCEPT !.prio = base.static_prio,
                                   !.normal_prio = base.static_prio,
                                   !.reset_on_fork = FALSE]
                 ELSE copy
  IN  [child EXCEPT !.class = IF rt_prio(child.prio) THEN @ ELSE "fair"]

Fork(p) ==
  /\ InProcess(curr)
  /\ ~Exists(p)
  /\ task' = [task EXCEPT ![p] = sched_fork(task[curr]), ![curr].newborn = {p}]
  /\ UNCHANGED << rq, curr, need_resched >>

wake_up_new_task(p) ==
  /\ curr # Idle
  /\ p \in task[curr].newborn
  /\ LET new == [task[p] EXCEPT !.life = "live", !.on_rq = TRUE]
         T   == [task EXCEPT ![p] = new, ![curr].newborn = {}]
     IN  /\ task' = T
         /\ rq' = enqueue_task(rq, p, new, FALSE)
         /\ Resched(check_preempt_curr(T, p))
  /\ UNCHANGED curr

\* do_exit: TASK_DEAD, preemption disabled, and schedule() for the last time.
Exit ==
  /\ InProcess(curr)
  /\ curr # InitTask
  /\ task[curr].pi = NO_WAITER
  /\ task' = [task EXCEPT ![curr].state = "dead"]
  /\ UNCHANGED << rq, curr, need_resched >>

-----------------------------------------------------------------------------
(* Changing the attributes of a task p, queued or not, running or not. *)

__setscheduler(t, policy, prio) ==
  LET named == [t EXCEPT !.policy = policy, !.rt_priority = prio]
      ranked == [named EXCEPT !.normal_prio = normal_prio(named)]
      eff   == rt_mutex_getprio(ranked)
  IN  [ranked EXCEPT !.prio = eff,
                     !.class = IF policy = "WRR" THEN "wrr" ELSE rt_or_fair(eff)]

\* The checks of __sched_setscheduler; with "nothing to change" it returns 0
\* and leaves everything as it is.
valid_param(policy, prio) == policy = "WRR" \/ rt_policy(policy) = (prio # 0)

NothingToChange(t, policy, prio) ==
  policy = t.policy /\ (rt_policy(policy) => prio = t.rt_priority)

sched_setscheduler(p, policy, prio, reset) ==
  /\ InProcess(curr)
  /\ Exists(p)
  /\ valid_param(policy, prio)
  /\ ~NothingToChange(task[p], policy, prio)
  /\ LET new == __setscheduler([task[p] EXCEPT !.reset_on_fork = reset], policy, prio)
     IN  /\ Change(p, new, FALSE)
         /\ Resched(check_class_changed([task EXCEPT ![p] = new], p))

set_user_nice(p, static) ==
  LET t    == task[p]
      nice == [t EXCEPT !.static_prio = static]
      new  == [nice EXCEPT !.normal_prio = normal_prio(nice), !.prio = effective_prio(nice)]
  IN  /\ InProcess(curr)
      /\ Exists(p)
      /\ static # t.static_prio
      /\ \/ /\ rt_policy(t.policy)
            /\ task' = [task EXCEPT ![p] = nice]
            /\ UNCHANGED << rq, curr, need_resched >>
         \/ /\ ~rt_policy(t.policy)
            /\ Change(p, new, FALSE)
            /\ Resched({t.on_rq /\ (new.prio < t.prio \/ (new.prio > t.prio /\ p = curr))})

\* The top waiter on p's rt_mutexes becomes w (kernel/rtmutex.c), which calls
\* rt_mutex_setprio when that changes p's effective priority.
rt_mutex_setprio(t, prio) == [t EXCEPT !.prio = prio, !.class = rt_or_fair(prio)]

\* Mutant: the wrong way round.
AtHead_Boosted(oldprio, prio) == oldprio > prio

\* A task that loses a boost goes to the head of its list, others to the tail.
AtHead(oldprio, prio) == oldprio < prio

RtMutexAdjustPrio(p, w) ==
  LET t    == [task[p] EXCEPT !.pi = w]
      prio == rt_mutex_getprio(t)
      new  == rt_mutex_setprio(t, prio)
  IN  /\ InProcess(curr)
      /\ task[p].life = "live" /\ task[p].state # "dead"
      /\ w # task[p].pi
      /\ \/ /\ prio = t.prio
            /\ task' = [task EXCEPT ![p] = t]
            /\ UNCHANGED << rq, curr, need_resched >>
         \/ /\ prio # t.prio
            /\ Change(p, new, AtHead(t.prio, prio))
            /\ Resched(check_class_changed([task EXCEPT ![p] = new], p))

\* cpu_cgroup_attach: p moves to another task group, and to the tail.
sched_move_task(p, g) ==
  /\ InProcess(curr)
  /\ Exists(p)
  /\ task[p].group # g
  /\ Change(p, [task[p] EXCEPT !.group = g], FALSE)
  /\ UNCHANGED need_resched

-----------------------------------------------------------------------------
Next ==
  \/ Tick
  \/ Schedule
  \/ PreemptSchedule
  \/ SchedYield
  \/ \E s \in SleepStates : SetCurrentState(s)
  \/ Exit
  \/ \E p \in Tasks :
       \/ try_to_wake_up(p)
       \/ Fork(p)
       \/ wake_up_new_task(p)
       \/ \E policy \in Policies, prio \in {0} \cup RtParams, reset \in ResetFlags :
            sched_setscheduler(p, policy, prio, reset)
       \/ \E static \in NicePrios : set_user_nice(p, static)
       \/ \E w \in PiPrios \cup {NO_WAITER} : RtMutexAdjustPrio(p, w)
       \/ \E g \in Groups : sched_move_task(p, g)

Spec == Init /\ [][Next]_vars
=============================================================================
