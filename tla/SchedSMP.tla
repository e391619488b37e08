------------------------------ MODULE SchedSMP ------------------------------
(***************************************************************************)
(* Real-time tasks on several CPUs (core.c and rt.c with CONFIG_SMP; wrr.c *)
(* names functions there that it does not define, and does not build):     *)
(* wake-ups of tasks that another CPU is just leaving, wake-ups through    *)
(* the wake_list of another CPU, pushing and pulling, and migration when   *)
(* an affinity changes.                                                    *)
(*                                                                         *)
(* A step is a section under the locks it needs.  A CPU in __schedule      *)
(* holds its rq->lock from one step to the next where Locked says so, and  *)
(* double_lock_balance drops it, as it does with CONFIG_PREEMPT.  The      *)
(* order of equal priorities is module RunQueue's subject: any may be      *)
(* picked.                                                                 *)
(***************************************************************************)
EXTENDS Integers, FiniteSets, FiniteSetsExt

CONSTANTS
  Cpus, Tasks,
  Prio,             \* of each task: less is more urgent
  Idle, Stop,       \* the idle and the stop task of any CPU
  Waiting, Exiting, \* the tasks that wait again, and that exit
  Masks,            \* the affinities that are set
  MaxMasks,         \* bound: how often one is
  MaxWakers         \* bound: wake-ups at a time

IdlePrio == 1000

ASSUME SchedSMPAssumption ==
  /\ IsFiniteSet(Cpus) /\ IsFiniteSet(Tasks) /\ Cpus \cap Tasks = {}
  /\ Prio \in [Tasks -> 1 .. IdlePrio - 1]
  /\ Idle \notin Tasks /\ Stop \notin Tasks /\ Idle # Stop
  /\ Waiting \subseteq Tasks /\ Exiting \subseteq Tasks
  /\ Masks \subseteq (SUBSET Cpus) \ {{}} /\ Cpus # {}
  /\ MaxMasks \in Nat /\ MaxWakers \in Nat

VARIABLES
  state, allowed, task_cpu, on_cpu,   \* of each task
  prog,             \* where a task is in its wait loop
  cond,             \* what it waits for has happened
  waker,            \* where try_to_wake_up of it is, under its pi_lock after "call"
  queue,            \* of each CPU: the RT tasks with on_rq there
  curr, need_resched,
  pc,               \* where the CPU is in __schedule
  pusher,           \* where push_rt_tasks is, of a CPU or of a waker
  wake_list, ipi, pending,
  stop_work,        \* migration_args for the stopper of the CPU
  puts,             \* history: times a dead task's reference has been dropped
  strayed,          \* history: tasks whose mask changed while they were on a wake_list
  masked            \* history: how often a mask has been set

taskVars == << state, allowed, task_cpu, on_cpu, prog, cond >>
rqVars == << queue, curr, need_resched >>
wakeVars == << wake_list, ipi, pending >>
history == << puts, strayed, masked >>
vars == << taskVars, waker, rqVars, pc, pusher, wakeVars, stop_work, history >>

At(a) == [at |-> a, prev |-> Idle, was |-> "running", todo |-> {}, post |-> FALSE]
NotPushing == [at |-> "no", rq |-> Idle, task |-> Idle, dest |-> Idle]

Init ==
  /\ state = [p \in Tasks |-> "sleep"]
  /\ allowed = [p \in Tasks |-> Cpus]
  /\ task_cpu \in [Tasks -> Cpus]
  /\ on_cpu = [p \in Tasks |-> FALSE]
  /\ prog = [p \in Tasks |-> "work"]
  /\ cond = [p \in Tasks |-> FALSE]
  /\ waker = [p \in Tasks |-> "no"]
  /\ queue = [c \in Cpus |-> {}]
  /\ curr = [c \in Cpus |-> Idle]
  /\ need_resched = [c \in Cpus |-> FALSE]
  /\ pc = [c \in Cpus |-> At("run")]
  /\ pusher = [x \in Cpus \cup Tasks |-> NotPushing]
  /\ wake_list = [c \in Cpus |-> {}] /\ pending = [c \in Cpus |-> {}]
  /\ ipi = [c \in Cpus |-> FALSE]
  /\ stop_work = [c \in Cpus |-> {}]
  /\ puts = [p \in Tasks |-> 0]
  /\ strayed = {} /\ masked = 0

-----------------------------------------------------------------------------
(* What the code looks up.                                                 *)

OnRq(p) == \E c \in Cpus : p \in queue[c]

\* rq->lock is held from one step to the next.
Locked(c) == pc[c].at \in {"pick", "switch"}

\* p->pi_lock is held.
PiLocked(p) == waker[p] \notin {"no", "call"} \/ pusher[p].at # "no"

PrioOf(t) == IF t = Idle THEN IdlePrio ELSE IF t = Stop THEN 0 ELSE Prio[t]
Migratory(p) == Cardinality(allowed[p]) > 1
CurrMigratory(c) == curr[c] \in Tasks /\ Migratory(curr[c])

MinPrio(S) == Min({PrioOf(p) : p \in S} \cup {IdlePrio})

\* rt.highest_prio.curr, which cpupri holds for each CPU.
Highest(c) == MinPrio(queue[c])

\* rt.pushable_tasks.
Pushable(c) == {p \in queue[c] : p # curr[c] /\ Migratory(p)}

\* rt.overloaded, the CPUs of rto_mask.
Overloaded(c) == Cardinality(queue[c]) > 1 /\ \E p \in queue[c] : Migratory(p)

\* find_lowest_rq with cpupri_find: the least urgent of the CPUs below p, its
\* own if that is one of them; the domains choose otherwise.
LowestRqs(p) ==
  LET below == {c \in allowed[p] : Highest(c) > Prio[p]}
      mask  == {c \in below : \A d \in below : Highest(c) >= Highest(d)}
  IN  IF ~Migratory(p) THEN {}
      ELSE IF task_cpu[p] \in mask THEN {task_cpu[p]} ELSE mask

\* select_task_rq with select_task_rq_rt and select_fallback_rq.
SelectTaskRq(p) ==
  LET cpu == task_cpu[p]
      target == IF Migratory(p) /\ curr[cpu] \in Tasks \cup {Stop}
                     /\ (~CurrMigratory(cpu) \/ PrioOf(curr[cpu]) <= Prio[p])
                     /\ LowestRqs(p) # {}
                THEN LowestRqs(p) ELSE {cpu}
  IN  IF target \subseteq allowed[p] THEN target ELSE allowed[p]

\* check_preempt_curr with check_preempt_curr_rt and check_preempt_equal_prio.
Preempts(p, c) ==
  \/ Prio[p] < PrioOf(curr[c])
  \/ /\ Prio[p] = PrioOf(curr[c]) /\ CurrMigratory(c)
     /\ ~Migratory(p) \/ LowestRqs(p) = {}
     /\ LowestRqs(curr[c]) # {}

\* task_woken_rt pushes.
WokenPushes(p, c) ==
  /\ ~on_cpu[p] /\ ~need_resched'[c]
  /\ Migratory(p)
  /\ curr[c] \in Tasks \cup {Stop}
  /\ ~CurrMigratory(c) \/ PrioOf(curr[c]) <= Prio[p]

-----------------------------------------------------------------------------
(* A task waits: set_current_state, a look at the condition, schedule.     *)

\* The CPU executes p, and no interrupt.
Executes(c, p) ==
  curr[c] = p /\ pc[c].at = "run" /\ pusher[c].at = "no" /\ pending[c] = {}

SetState(c, p) ==
  /\ p \in Waiting /\ Executes(c, p)
  /\ prog[p] = "work" /\ state[p] = "running"
  /\ prog' = [prog EXCEPT ![p] = "test"]
  /\ state' = [state EXCEPT ![p] = "sleep"]
  /\ UNCHANGED << allowed, task_cpu, on_cpu, cond, waker, rqVars, pc, pusher, wakeVars, stop_work,
                  history >>

\* It has happened: the task goes on.  If not, it will call schedule.
TestCondition(c, p) ==
  /\ Executes(c, p)
  /\ prog[p] = "test"
  /\ IF cond[p]
     THEN /\ state' = [state EXCEPT ![p] = "running"]
          /\ cond' = [cond EXCEPT ![p] = FALSE]
          /\ prog' = [prog EXCEPT ![p] = "work"]
     ELSE prog' = [prog EXCEPT ![p] = "sleep"] /\ UNCHANGED << state, cond >>
  /\ UNCHANGED << allowed, task_cpu, on_cpu, waker, rqVars, pc, pusher, wakeVars, stop_work,
                  history >>

\* do_exit, which waits for the pi_lock.
Exit(c, p) ==
  /\ p \in Exiting /\ Executes(c, p)
  /\ prog[p] = "work" /\ state[p] = "running"
  /\ ~PiLocked(p)
  /\ state' = [state EXCEPT ![p] = "dead"]
  /\ prog' = [prog EXCEPT ![p] = "sleep"]
  /\ UNCHANGED << allowed, task_cpu, on_cpu, cond, waker, rqVars, pc, pusher, wakeVars, stop_work,
                  history >>

-----------------------------------------------------------------------------
(* try_to_wake_up.                                                         *)

\* Somebody lets it happen, and calls try_to_wake_up.
Happens(p) ==
  /\ waker[p] = "no" /\ ~cond[p] /\ state[p] # "dead"
  /\ Cardinality({q \in Tasks : waker[q] # "no"}) < MaxWakers
  /\ cond' = [cond EXCEPT ![p] = TRUE]
  /\ waker' = [waker EXCEPT ![p] = "call"]
  /\ UNCHANGED << state, allowed, task_cpu, on_cpu, prog, rqVars, pc, pusher, wakeVars, stop_work,
                  history >>

\* Under the pi_lock: the state, and on_rq without the rq->lock.
WakeCalled(p) ==
  /\ waker[p] = "call" /\ ~PiLocked(p)
  /\ waker' = [waker EXCEPT ![p] = IF state[p] # "sleep" THEN "no"
                                   ELSE IF OnRq(p) THEN "remote" ELSE "on_cpu"]
  /\ UNCHANGED << taskVars, rqVars, pc, pusher, wakeVars, stop_work,
                  history >>

\* push_rt_tasks on c is begun.
Push(c) == [NotPushing EXCEPT !.at = "pick", !.rq = c]

\* By x, a CPU or the waker of p; the push of task_woken_rt is begun.
ttwu_do_wakeup(p, c, x) ==
  /\ need_resched' = [need_resched EXCEPT ![c] = @ \/ Preempts(p, c)]
  /\ state' = [state EXCEPT ![p] = "running"]
  /\ pusher' = [pusher EXCEPT ![x] = IF WokenPushes(p, c) THEN Push(c) ELSE @]

\* A task that is still on its rq is only marked runnable.
ttwu_remote(p) ==
  /\ waker[p] = "remote" /\ ~Locked(task_cpu[p])
  /\ IF OnRq(p)
     THEN ttwu_do_wakeup(p, task_cpu[p], p) /\ waker' = [waker EXCEPT ![p] = "no"]
     ELSE /\ waker' = [waker EXCEPT ![p] = "on_cpu"]
          /\ UNCHANGED << need_resched, state, pusher >>
  /\ UNCHANGED << allowed, task_cpu, on_cpu, prog, cond, queue, curr, pc, wakeVars, stop_work, history >>

\* Mutant: the CPU that leaves it is not waited for.
WaitOnCpu_Not(p) ==
  /\ waker[p] = "on_cpu"
  /\ state' = [state EXCEPT ![p] = "waking"]
  /\ \E c \in SelectTaskRq(p) : task_cpu' = [task_cpu EXCEPT ![p] = c]
  /\ waker' = [waker EXCEPT ![p] = "queue"]
  /\ strayed' = strayed \ {p}
  /\ UNCHANGED << allowed, on_cpu, prog, cond, rqVars, pc, pusher, wakeVars, stop_work, puts, masked >>

\* The CPU that leaves it has done, and it is given its CPU.
WaitOnCpu(p) ==
  /\ waker[p] = "on_cpu" /\ ~on_cpu[p]
  /\ state' = [state EXCEPT ![p] = "waking"]
  /\ \E c \in SelectTaskRq(p) : task_cpu' = [task_cpu EXCEPT ![p] = c]
  /\ waker' = [waker EXCEPT ![p] = "queue"]
  /\ strayed' = strayed \ {p}
  /\ UNCHANGED << allowed, on_cpu, prog, cond, rqVars, pc, pusher, wakeVars, stop_work, puts, masked >>

\* ttwu_queue for a CPU that shares a cache, and ttwu_do_activate.
ttwu_queue(p) ==
  /\ waker[p] = "queue" /\ ~Locked(task_cpu[p])
  /\ queue' = [queue EXCEPT ![task_cpu[p]] = @ \cup {p}]
  /\ ttwu_do_wakeup(p, task_cpu[p], p)
  /\ waker' = [waker EXCEPT ![p] = "no"]
  /\ UNCHANGED << allowed, task_cpu, on_cpu, prog, cond, curr, pc, wakeVars, stop_work, history >>

\* For another: after it the pi_lock is free.
ttwu_queue_remote(p) ==
  /\ waker[p] = "queue"
  /\ LET c == task_cpu[p] IN
     /\ wake_list' = [wake_list EXCEPT ![c] = @ \cup {p}]
     /\ ipi' = [ipi EXCEPT ![c] = @ \/ wake_list[c] = {}]
  /\ waker' = [waker EXCEPT ![p] = "no"]
  /\ UNCHANGED << taskVars, rqVars, pc, pusher, pending, stop_work, history >>

\* Mutant: one entry is taken.
scheduler_ipi_First(c) ==
  /\ ipi[c] /\ pc[c].at = "run" /\ pusher[c].at = "no" /\ pending[c] = {}
  /\ ipi' = [ipi EXCEPT ![c] = FALSE]
  /\ \E p \in wake_list[c] :
       /\ pending' = [pending EXCEPT ![c] = {p}]
       /\ wake_list' = [wake_list EXCEPT ![c] = @ \ {p}]
  /\ UNCHANGED << taskVars, waker, rqVars, pc, pusher, stop_work, history >>

\* The interrupt: sched_ttwu_pending takes the whole list.
scheduler_ipi(c) ==
  /\ ipi[c] /\ pc[c].at = "run" /\ pusher[c].at = "no" /\ pending[c] = {}
  /\ ipi' = [ipi EXCEPT ![c] = FALSE]
  /\ pending' = [pending EXCEPT ![c] = wake_list[c]]
  /\ wake_list' = [wake_list EXCEPT ![c] = {}]
  /\ UNCHANGED << taskVars, waker, rqVars, pc, pusher, stop_work, history >>

\* ttwu_do_activate for one of them; its push may drop the lock.
sched_ttwu_pending(c, p) ==
  /\ p \in pending[c] /\ pusher[c].at = "no"
  /\ pending' = [pending EXCEPT ![c] = @ \ {p}]
  /\ queue' = [queue EXCEPT ![c] = @ \cup {p}]
  /\ ttwu_do_wakeup(p, c, c)
  /\ UNCHANGED << allowed, task_cpu, on_cpu, prog, cond, waker, curr, pc, wake_list, ipi, stop_work,
                  history >>

-----------------------------------------------------------------------------
(* push_rt_tasks, by a CPU in post_schedule or by who has woken a task.    *)

Urgent(S) == {p \in S : PrioOf(p) = MinPrio(S)}
PushDone(x) == pusher' = [pusher EXCEPT ![x] = NotPushing]
PushTo(x, p, d) == pusher' = [pusher EXCEPT ![x].at = "lock", ![x].task = p, ![x].dest = d]

\* push_rt_task up to double_lock_balance, which drops the lock.
PushPick(x) ==
  LET c == pusher[x].rq IN
  /\ pusher[x].at = "pick" /\ ~Locked(c)
  /\ IF ~Overloaded(c) \/ Pushable(c) = {} THEN PushDone(x) /\ UNCHANGED need_resched
     ELSE \E p \in Urgent(Pushable(c)) :
            IF Prio[p] < PrioOf(curr[c])
            THEN need_resched' = [need_resched EXCEPT ![c] = TRUE] /\ PushDone(x)
            ELSE /\ UNCHANGED need_resched
                 /\ IF LowestRqs(p) \subseteq {c} THEN PushDone(x)
                    ELSE \E d \in LowestRqs(p) \ {c} : PushTo(x, p, d)
  /\ UNCHANGED << taskVars, waker, queue, curr, pc, wakeVars, stop_work, history >>

\* Mutant: the affinity is not looked at again.
StillPushable_AnyCpu(p, c, d) == p \in queue[c] /\ ~on_cpu[p]

\* What may have changed while the lock was dropped.
StillPushable(p, c, d) == p \in queue[c] /\ ~on_cpu[p] /\ d \in allowed[p]

\* p is moved from c to d under both locks.
MoveTask(p, c, d) ==
  /\ queue' = [queue EXCEPT ![c] = @ \ {p}, ![d] = @ \cup {p}]
  /\ task_cpu' = [task_cpu EXCEPT ![p] = d]

\* find_lock_lowest_rq after it has locked, and the rest of push_rt_task.  It
\* looks for another CPU at most three times, which is left open.
PushLocked(x) ==
  LET c == pusher[x].rq
      p == pusher[x].task
      d == pusher[x].dest
  IN
  /\ pusher[x].at = "lock" /\ ~Locked(c) /\ ~Locked(d)
  /\ \/ /\ StillPushable(p, c, d) /\ Highest(d) > Prio[p]
        /\ MoveTask(p, c, d)
        /\ need_resched' = [need_resched EXCEPT ![d] = TRUE]
        /\ pusher' = [pusher EXCEPT ![x] = Push(c)]
     \/ /\ StillPushable(p, c, d) => Highest(d) <= Prio[p]
        /\ UNCHANGED << queue, task_cpu, need_resched >>
        /\ \/ StillPushable(p, c, d) /\ \E e \in LowestRqs(p) \ {c} : PushTo(x, p, e)
           \/ Pushable(c) = {} /\ PushDone(x)
           \/ \E q \in Urgent(Pushable(c)) :
                IF q = p THEN PushDone(x) ELSE pusher' = [pusher EXCEPT ![x] = Push(c)]
  /\ UNCHANGED << state, allowed, on_cpu, prog, cond, waker, curr, pc, wakeVars, stop_work, history >>

-----------------------------------------------------------------------------
(* __schedule.                                                             *)

\* The stopper sleeps once its work is done.
Sleeps(c) ==
  \/ curr[c] = Stop /\ stop_work[c] = {}
  \/ curr[c] \in Tasks /\ prog[curr[c]] = "sleep"

\* pick_next_task, and the switch with prepare_lock_switch; if it is to the
\* same task, the lock is released.
SwitchFrom(c, prev) ==
  /\ \E next \in IF stop_work[c] # {} THEN {Stop}
                 ELSE IF queue'[c] = {} THEN {Idle} ELSE Urgent(queue'[c]) :
       LET post == next # Stop /\ \E p \in queue'[c] \ {next} : Migratory(p) IN
       /\ curr' = [curr EXCEPT ![c] = next]
       /\ on_cpu' = IF next \in Tasks THEN [on_cpu EXCEPT ![next] = TRUE] ELSE on_cpu
       /\ IF next = prev
          THEN /\ pc' = [pc EXCEPT ![c] = At("run")]
               /\ pusher' = [pusher EXCEPT ![c] = IF post THEN Push(c) ELSE @]
          ELSE /\ pc' = [pc EXCEPT ![c] = [At("switch") EXCEPT !.prev = prev, !.post = post]]
               /\ UNCHANGED pusher
  /\ need_resched' = [need_resched EXCEPT ![c] = FALSE]

\* A task that is preempted stays, whatever its state; one that has died is not
\* preempted.  If there is something to pull, the lock is dropped for it.
Schedule(c) ==
  LET prev == curr[c] IN
  /\ Executes(c, prev)
  /\ \E volunteers \in BOOLEAN :
       /\ IF volunteers THEN Sleeps(c)
          ELSE need_resched[c] /\ (prev \in Tasks => state[prev] # "dead")
       /\ queue' = [queue EXCEPT ![c] =
            IF volunteers /\ prev \in Tasks /\ state[prev] # "running" THEN @ \ {prev} ELSE @]
       /\ prog' = IF volunteers /\ prev \in Tasks /\ state[prev] # "dead"
                  THEN [prog EXCEPT ![prev] = "work"] ELSE prog
  /\ LET others == {d \in Cpus \ {c} : Overloaded(d)} IN
     IF prev \in Tasks /\ Highest(c)' > PrioOf(prev) /\ others # {}
     THEN /\ pc' = [pc EXCEPT ![c] = [At("pull") EXCEPT !.prev = prev, !.todo = others]]
          /\ UNCHANGED << on_cpu, curr, need_resched, pusher >>
     ELSE SwitchFrom(c, prev)
  /\ UNCHANGED << state, allowed, task_cpu, cond, waker, wakeVars, stop_work, history >>

\* pick_next_highest_task_rt on d for c.
Pullable(d, c) == {p \in queue[d] : ~on_cpu[p] /\ c \in allowed[p] /\ Migratory(p)}

\* pull_rt_task for one CPU, the lock of c having been dropped.
Pull(c, d) ==
  /\ pc[c].at = "pull" /\ d \in pc[c].todo
  /\ pc' = [pc EXCEPT ![c].todo = @ \ {d}, ![c].at = IF pc[c].todo = {d} THEN "pick" ELSE @]
  /\ LET found == {p \in Urgent(Pullable(d, c)) :
                     Prio[p] < Highest(c) /\ Prio[p] >= PrioOf(curr[d])}
     IN IF MinPrio(Pushable(d)) >= Highest(c) THEN UNCHANGED << queue, task_cpu >>
        ELSE /\ ~Locked(d)
             /\ IF Cardinality(queue[d]) <= 1 \/ found = {} THEN UNCHANGED << queue, task_cpu >>
                ELSE \E p \in found : MoveTask(p, d, c)
  /\ UNCHANGED << state, allowed, on_cpu, prog, cond, waker, curr, need_resched, pusher, wakeVars,
                  stop_work, history >>

\* Having pulled.
PickNext(c) ==
  /\ pc[c].at = "pick"
  /\ UNCHANGED queue /\ SwitchFrom(c, pc[c].prev)
  /\ UNCHANGED << state, allowed, task_cpu, prog, cond, waker, wakeVars, stop_work, history >>

\* Mutant: what is left over is not pushed.
PostSchedule_Keeps(c) == UNCHANGED pusher

\* post_schedule.
PostSchedule(c) == pusher' = [pusher EXCEPT ![c] = IF pc[c].post THEN Push(c) ELSE @]

\* finish_task_switch: prev_state is read, then on_cpu cleared and the lock
\* released.
finish_task_switch(c) ==
  /\ pc[c].at = "switch"
  /\ LET prev == pc[c].prev IN
     IF prev \in Tasks
     THEN /\ on_cpu' = [on_cpu EXCEPT ![prev] = FALSE]
          /\ pc' = [pc EXCEPT ![c].at = "put", ![c].was = state[prev]]
          /\ UNCHANGED pusher
     ELSE /\ pc' = [pc EXCEPT ![c] = At("run")]
          /\ PostSchedule(c) /\ UNCHANGED on_cpu
  /\ UNCHANGED << state, allowed, task_cpu, prog, cond, waker, rqVars, wakeVars, stop_work, history >>

\* Mutant: prev->state is looked at after the lock has been released.
PutPrev_Late(c) ==
  /\ pc[c].at = "put"
  /\ puts' = IF state[pc[c].prev] = "dead"
             THEN [puts EXCEPT ![pc[c].prev] = Min({@ + 1, 2})] ELSE puts
  /\ PostSchedule(c)
  /\ pc' = [pc EXCEPT ![c] = At("run")]
  /\ UNCHANGED << taskVars, waker, rqVars, wakeVars, stop_work, strayed, masked >>

\* put_task_struct of a dead one, and post_schedule.
PutPrev(c) ==
  /\ pc[c].at = "put"
  /\ puts' = IF pc[c].was = "dead" THEN [puts EXCEPT ![pc[c].prev] = @ + 1] ELSE puts
  /\ PostSchedule(c)
  /\ pc' = [pc EXCEPT ![c] = At("run")]
  /\ UNCHANGED << taskVars, waker, rqVars, wakeVars, stop_work, strayed, masked >>

-----------------------------------------------------------------------------
(* set_cpus_allowed_ptr and the stopper.                                   *)

\* A task that is queued where it must not run is left to the stopper of that
\* CPU.  One that is not queued is left to its next wake-up.
set_cpus_allowed_ptr(p, mask) ==
  LET c == task_cpu[p] IN
  /\ ~PiLocked(p) /\ ~Locked(c) /\ mask # allowed[p] /\ state[p] # "dead"
  /\ masked < MaxMasks /\ masked' = masked + 1
  /\ allowed' = [allowed EXCEPT ![p] = mask]
  /\ IF c \notin mask /\ OnRq(p)
     THEN /\ \E d \in mask : stop_work' = [stop_work EXCEPT ![c] = @ \cup {[task |-> p, dest |-> d]}]
          /\ need_resched' = [need_resched EXCEPT ![c] = TRUE]
     ELSE UNCHANGED << stop_work, need_resched >>
  /\ strayed' = IF c \notin mask /\ state[p] = "waking" THEN strayed \cup {p} ELSE strayed
  /\ UNCHANGED << state, task_cpu, on_cpu, prog, cond, waker, queue, curr, pc, pusher, wakeVars, puts >>

\* migration_cpu_stop with __migrate_task.
migrate_task(c, w) ==
  /\ w \in stop_work[c] /\ Executes(c, Stop)
  /\ ~PiLocked(w.task) /\ ~Locked(w.dest)
  /\ stop_work' = [stop_work EXCEPT ![c] = @ \ {w}]
  /\ IF task_cpu[w.task] = c /\ w.dest \in allowed[w.task] /\ OnRq(w.task)
     THEN /\ MoveTask(w.task, c, w.dest)
          /\ need_resched' = [need_resched EXCEPT ![w.dest] = @ \/ Preempts(w.task, w.dest)]
     ELSE UNCHANGED << queue, task_cpu, need_resched >>
  /\ UNCHANGED << state, allowed, on_cpu, prog, cond, waker, curr, pc, pusher, wakeVars, history >>

-----------------------------------------------------------------------------
Next ==
  \/ \E c \in Cpus :
       \/ \E p \in Tasks :
            SetState(c, p) \/ TestCondition(c, p) \/ Exit(c, p) \/ sched_ttwu_pending(c, p)
       \/ scheduler_ipi(c)
       \/ Schedule(c) \/ PickNext(c) \/ finish_task_switch(c) \/ PutPrev(c)
       \/ \E d \in Cpus : Pull(c, d)
       \/ \E w \in stop_work[c] : migrate_task(c, w)
  \/ \E p \in Tasks :
       \/ Happens(p) \/ WakeCalled(p) \/ ttwu_remote(p) \/ WaitOnCpu(p)
       \/ ttwu_queue(p) \/ ttwu_queue_remote(p)
       \/ \E mask \in Masks : set_cpus_allowed_ptr(p, mask)
  \/ \E x \in Cpus \cup Tasks : PushPick(x) \/ PushLocked(x)

Spec == Init /\ [][Next]_vars

-----------------------------------------------------------------------------
(* Properties.                                                             *)

\* Every variable keeps its type.
TypeOK ==
  /\ state \in [Tasks -> {"running", "sleep", "waking", "dead"}]
  /\ allowed \in [Tasks -> SUBSET Cpus] /\ task_cpu \in [Tasks -> Cpus]
  /\ on_cpu \in [Tasks -> BOOLEAN] /\ cond \in [Tasks -> BOOLEAN]
  /\ prog \in [Tasks -> {"work", "test", "sleep"}]
  /\ waker \in [Tasks -> {"no", "call", "remote", "on_cpu", "queue"}]
  /\ queue \in [Cpus -> SUBSET Tasks] /\ curr \in [Cpus -> Tasks \cup {Idle, Stop}]
  /\ need_resched \in [Cpus -> BOOLEAN]
  /\ pc \in [Cpus -> [at : {"run", "pull", "pick", "switch", "put"}, prev : Tasks \cup {Idle, Stop},
                      was : {"running", "sleep", "waking", "dead"}, todo : SUBSET Cpus, post : BOOLEAN]]
  /\ pusher \in [Cpus \cup Tasks -> [at : {"no", "pick", "lock"}, rq : Cpus \cup {Idle},
                                     task : Tasks \cup {Idle}, dest : Cpus \cup {Idle}]]
  /\ wake_list \in [Cpus -> SUBSET Tasks] /\ pending \in [Cpus -> SUBSET Tasks]
  /\ ipi \in [Cpus -> BOOLEAN]
  /\ stop_work \in [Cpus -> SUBSET [task : Tasks, dest : Cpus]]
  /\ puts \in [Tasks -> 0 .. 1] /\ strayed \subseteq Tasks /\ masked \in 0 .. MaxMasks

\* The CPUs that are on the stack of p: it runs there, or is just being left.
OnStack(p) == {c \in Cpus : curr[c] = p \/ (pc[c].at = "switch" /\ pc[c].prev = p)}

\* A task is queued on one CPU at most, its task_cpu, and no two CPUs are on
\* its stack: who wakes it waits until on_cpu is cleared (core.c:1598-1616),
\* and who pushes, pulls or migrates it looks again once both locks are held.
OneCpuAtATime ==
  \A p \in Tasks :
    /\ \A c \in Cpus : p \in queue[c] => task_cpu[p] = c
    /\ Cardinality(OnStack(p)) <= 1
    /\ on_cpu[p] <=> OnStack(p) # {}

\* Who sleeps although it has happened is about to be woken, wherever the
\* wake-up and the __schedule of its CPU, or the list and its interrupt, meet.
NoLostWakeup ==
  \A p \in Tasks : cond[p] /\ ~OnRq(p) /\ state[p] # "dead" =>
    \/ waker[p] # "no"
    \/ \E c \in Cpus : p \in pending[c] \/ (p \in wake_list[c] /\ ipi[c])

\* The reference of a dead task is dropped once, when no CPU is on its stack
\* ("the reference would be dropped twice", core.c:1951-1958).
DeadPutOnce ==
  \A p \in Tasks : puts[p] > 0 => puts[p] = 1 /\ OnStack(p) = {} /\ ~OnRq(p)

\* A task runs where it must not only until the stopper comes, but for one
\* whose mask changed while it was on a wake_list: set_cpus_allowed_ptr finds
\* it not queued and leaves it to a wake-up that has already chosen.
OnlyWakeListStrays ==
  \A c \in Cpus, p \in Tasks : p \in queue[c] /\ c \notin allowed[p] =>
    p \in strayed \/ \E w \in stop_work[c] : w.task = p

\* Nothing is under way.
Quiet ==
  /\ \A c \in Cpus : pc[c].at = "run" /\ ~need_resched[c] /\ ~ipi[c] /\ pending[c] = {}
                       /\ curr[c] # Stop /\ stop_work[c] = {}
  /\ \A x \in Cpus \cup Tasks : pusher[x].at = "no"
  /\ \A p \in Tasks : waker[p] = "no"

\* When nothing is under way no task waits that could run elsewhere at once:
\* between them wake-ups, pushes and pulls find every such task.  A change of
\* a mask neither pushes nor pulls, nor does the stopper when it has moved one.
NoTaskLeftBehind ==
  Quiet /\ masked = 0 =>
    \A c, d \in Cpus : \A p \in Pushable(c) : d \in allowed[p] => Highest(d) <= Prio[p]
=============================================================================
