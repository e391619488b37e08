------------------------------ MODULE SchedLive ------------------------------
(***************************************************************************)
(* Progress of the WRR class, under a workload in which tasks run, yield,  *)
(* sleep, are woken, fork, exit and change their own policy, but nobody    *)
(* changes the attributes of another task: each such change sends a queued *)
(* task to the tail, and repeated for ever it keeps that task from running.*)
(***************************************************************************)
EXTENDS SchedProps

\* A task that switches itself.
SwitchOneself ==
  /\ curr # Idle
  /\ \E policy \in Policies, reset \in ResetFlags :
       sched_setscheduler(curr, policy, 0, reset)

WorkloadNext ==
  \/ Tick
  \/ Schedule
  \/ PreemptSchedule
  \/ SchedYield
  \/ \E s \in SleepStates : SetCurrentState(s)
  \/ Exit
  \/ SwitchOneself
  \/ \E p \in Tasks : try_to_wake_up(p) \/ Fork(p) \/ wake_up_new_task(p)

\* do_exit calls schedule() at once.
LastSchedule == Schedule /\ task[curr].state = "dead"

\* The timer keeps ticking, a pending reschedule is done when the kernel next
\* may, and a dying task leaves.
Fairness == WF_vars(Tick) /\ WF_vars(PreemptSchedule) /\ WF_vars(LastSchedule)

LiveSpec == Init /\ [][WorkloadNext]_vars /\ Fairness

\* No WRR task starves: one that is queued runs, however the tasks ahead of
\* it use, yield or fork away their turns, and although all of them keep
\* ageing their prio.
EveryWrrTaskRuns ==
  \A p \in Tasks : (task[p].on_rq /\ task[p].class = "wrr") ~> (curr = p)
=============================================================================
