# TLA+ models of the CS356 operating-system projects

This directory holds TLA+ models of the programs in this repository, the TLC
configurations that check them on small instances, and TLAPS proofs of what
holds on all instances.

The repository has two parts.  `Prj2` is the scheduler of a Linux 3.4 kernel
(`kernel/sched/core.c`, `rt.c`, `sched.h`, `include/linux/sched.h`) to which a
new scheduling class has been added, weighted round robin
(`kernel/sched/wrr.c`, policy `SCHED_WRR`).  `Prj1` is a system call that lists
the process tree (a kernel module) and *BurgerBuddies*, a program of POSIX
threads and semaphores.

## 1. Inventory

| Component | State | Operations | What is hard |
|---|---|---|---|
| WRR class (`wrr.c`) | the list `wrr_queue`, `wrr_nr_running`, each task's `wrr.time_slice`; it also writes `p->prio` | enqueue, dequeue, requeue, yield, pick, tick; `check_preempt_curr`, `switched_to`, `switched_from`, `prio_changed` are empty | its empty hooks; its habit of incrementing `prio`; a list and a counter that must agree; whether anyone starves |
| RT class (`rt.c`), one CPU | 100 lists, a bitmap, `rt_nr_running`, `rt.time_slice` | the same hooks, all with a body | the bitmap is indexed by the task's priority *of the moment* |
| core scheduler (`core.c`) | `rq->curr`, `nr_running`, `TIF_NEED_RESCHED`, and of each task `state`, `on_rq`, `policy`, `sched_class`, `static_prio`, `normal_prio`, `prio`, `rt_priority`, `sched_reset_on_fork` | `scheduler_tick`, `schedule`, preemption, `sched_yield`, `try_to_wake_up`, `sched_fork` and `wake_up_new_task`, exit, `__sched_setscheduler`, `set_user_nice`, `rt_mutex_setprio`, `sched_move_task` | ticks, interrupts and preemption between any two critical sections; sleeping while being woken; four copies of dequeue-change-enqueue |
| SMP wake-up, migration, RT push and pull | `task_cpu`, `p->on_cpu`, `cpus_allowed`, each CPU's queue, `wake_list` and stopper | `try_to_wake_up`, `ttwu_queue`, `scheduler_ipi`, `__schedule`, `finish_task_switch`, `push_rt_task`, `pull_rt_task`, `set_cpus_allowed_ptr`, `__migrate_task` | locks dropped and taken again in the middle; state read before a lock and used under it; a wake-up while the other CPU is still on the task's stack |
| RT bandwidth | `rt_time`, `rt_runtime`, `rt_throttled` of each CPU, one timer, the sysctl | `update_curr_rt`, `balance_runtime`, the timer, `__enable_runtime`, `__disable_runtime`, `sched_rt_handler` | runtime borrowed between CPUs while CPUs go and come and the sysctl is written |
| task groups | the tree; period and runtime of each group, for RT and for CFS; the global sysctls | files of the groups, the sysctls, creation, removal, moves of tasks | each write reads half of a pair without the lock, and checks the whole tree |
| wait queues, completions | lists of waiters, `x->done` | `__wake_up_common`, `complete`, `wait_for_completion` | exclusive waiters, timeouts racing wake-ups |
| load average | `calc_load_tasks`, two idle deltas and their index, `avenrun` | `calc_load_account_*`, `calc_load_enter_idle`, `calc_load_exit_idle`, `calc_global_load`, CPUs going and coming | no lock at all: deltas in the wrong window, folded twice, or never |
| hotplug, sched domains, cgroup and CPU-time accounting | | | what hotplug does to the components above is modelled with them; the domains are data for the load balancer in `fair.c`, which is not in the tree; the accounting is sums no decision reads |
| BurgerBuddies (`Prj1/problem4`) | eight semaphores, `left_num`, `terminate_signal` | three thread functions and `main` | lock order, an unsynchronised flag, a partial creation of threads |
| `ptree` (`Prj1/problem1` to `3`) | two kernel buffers, a slot of the system call table | the walk of the tree, two copies to user space, loading and unloading of the modules | failures half way; unloading in another order |

Interaction.  `core.c` calls the classes through `p->sched_class` and always
with `rq->lock` held and interrupts off.  The classes touch the shared counter
`nr_running`, the current task's need-resched flag and (WRR) the task's `prio`,
which `core.c`'s priority-inheritance code and the RT class's preemption checks
read.  Task groups reach WRR through `find_group`, which picks the length of a
slice, and RT through the bandwidth of the group.  Between CPUs the scheduler
shares each other's run queues (two locks, taken in the order of the CPUs), the
wake lists (no lock, an interrupt), the runtime of the RT class, and the load
deltas (atomic counters).  BurgerBuddies' threads meet at the semaphores only,
but for `left_num` (under `mutex_leave`) and `terminate_signal` (under
nothing).  `ptree` reads the tree of the tasks under the read side of
`tasklist_lock`.

What makes them correct is the subject of section 4; what is hard to test is
listed with its line under "hazards" in `PROJECT.json`, and at the end of
section 4.

## 2. Modules

| Module | Models | |
|---|---|---|
| `LinkedList` | `linux/list.h` (not in the tree) as sequences | pure operators |
| `RunQueue` | `struct rq` and the class hooks that change it, as pure functions of a run queue; `enqueue_task`, `dequeue_task`, `pick_next_task` of `core.c`; the predicate `RqOK` | extends `LinkedList` |
| `Sched` | the scheduler of one CPU: one action per entry point of `core.c` | extends `RunQueue` |
| `SchedProps` | its properties, and the refinement mapping to `RoundRobin` | extends `Sched` |
| `RoundRobin` | the abstract specification: a queue joined at the tail and served from the head | |
| `SchedLive` | fairness and the workload under which nobody starves | extends `SchedProps` |
| `SchedSMP` | RT tasks on several CPUs: wake-up, switch, push, pull, migration | on its own |
| `RtBandwidth` | the runtime of the RT class on each CPU, its timer and its sysctl | on its own |
| `TaskGroups` | the tree of groups and the tests of its bandwidths | on its own |
| `LoadMath` | the fixed-point arithmetic of the load averages | pure operators |
| `CalcLoad` | the folding of load deltas | extends `LoadMath` |
| `Completion` | `struct completion`, `complete`, `complete_all`, the waits, and `__wake_up_common` as they use it | extends `LinkedList` |
| `CountingSemaphore` | the abstract specification of a completion: tokens posted and taken | |
| `ProcTree` | the three `hello.c` of `ptree` | extends `LinkedList` |
| `BurgerBuddies` | `BurgerBuddies.c` | on its own |
| `DataProofs` | lemmas about lists, sums and loops | extends `LinkedList` |
| `SchedProofs`, `SchedSMPProofs`, `TaskGroupsProofs`, `RtBandwidthProofs`, `CalcLoadProofs`, `CompletionProofs`, `Prj1Proofs` | the proofs | each extends the module it is about, `Prj1Proofs` `ProcTree` and `BurgerBuddies` |
| `MCSched`, `MCSchedLive`, `MCSchedSMP`, `MCRtBandwidth`, `MCTaskGroups`, `MCCalcLoad`, `MCProcTree`, `MCBurgerBuddies` | TLC instances and symmetry | |

The components of the scheduler are modelled apart because the code keeps them
apart: `SchedSMP` needs no list order and no policy, `RtBandwidth` no tasks but
whether there are any, `CalcLoad` only how many.  What each assumes of the
others is said below.  Variables the code does not have are marked *history* in
the modules: no guard reads them, properties do.

### How `Sched` corresponds to the code

*One step per critical section.*  On one CPU a section under `rq->lock` with
interrupts off is atomic.  Between two steps may come a tick, a wake-up from an
interrupt, or a preemption.  An operation made of two sections with a gap
between them is two actions: a task sleeps by `SetCurrentState` and a later
`Schedule`; `Fork` sets the child up and `wake_up_new_task` queues it (the child
is the parent's `newborn` in between, and already visible to system calls,
since `copy_process` publishes it in the pid hash before it is woken); `Exit`
marks the task dead and the `Schedule` that follows releases its slot.

*State.*  `task[p]` is a record of the `task_struct` fields named in section 1.
Three fields stand for facts kept elsewhere: `life` (the slot is free, a child
not yet woken, a living task), `newborn` (above) and `pi` (the priority of the
top waiter of the `rt_mutex`es the task holds, `p->pi_waiters`).  `rq` is a
record of the RT lists, their bitmap and counter, the WRR list and counter, the
CFS tasks, and `nr_running`.  `curr` is `rq->curr`; `need_resched` its flag.

| Action | Code |
|---|---|
| `Tick` | `scheduler_tick`, with `task_tick_wrr`, `task_tick_rt`; CFS may ask for a reschedule when it has two tasks |
| `Schedule` | `schedule()`: a sleeper leaves the queue unless a signal is pending; `put_prev_task`, `pick_next_task`, `context_switch`, `finish_task_switch` |
| `PreemptSchedule` | `preempt_schedule`, `preempt_schedule_irq`, return to user mode, the idle loop |
| `SchedYield` | `sys_sched_yield`, which keeps interrupts off until it has switched |
| `SetCurrentState` | the first half of a wait loop |
| `try_to_wake_up` | both its branches, already queued or not, and `try_to_wake_up_local` |
| `Fork`, `wake_up_new_task` | `sched_fork`, `wake_up_new_task` |
| `Exit` | the `TASK_DEAD` of `do_exit` |
| `sched_setscheduler` | `__sched_setscheduler` and its callers; refused calls change nothing and are no steps |
| `set_user_nice` | `set_user_nice`, `sys_nice` |
| `RtMutexAdjustPrio` | a change of the top waiter, and `rt_mutex_setprio` when it matters |
| `sched_move_task` | `cpu_cgroup_attach` |

*What is outside the tree* appears through the way the code uses it: list
operations, CFS (a set of queued tasks; which one it picks and when it preempts
are free choices), `rt_mutex_getprio`, `do_exit`, `dup_task_struct`.
Signals are a free choice in `Schedule`.  The privilege checks of
`__sched_setscheduler` are left out: a caller who passes them all is the one
that can do most.  `SCHED_BATCH` and `SCHED_IDLE` behave as `SCHED_NORMAL` for
everything modelled.  RT throttling is `RtBandwidth`'s subject and off here
(`sched_rt_runtime_us` = -1); a task is its only scheduling entity.

### How `SchedSMP` corresponds to the code

*One step per section between locks.*  `queue[c]` is the set of RT tasks with
`on_rq` whose `cpu_rq` is `c`; which of several equal priorities comes first is
`RunQueue`'s subject, so any may be picked.  `wrr.c` does not build with
`CONFIG_SMP` (wrr.c:477-485 names functions it does not define), so the tasks
are RT ones.  A CPU in `__schedule` holds its `rq->lock` from `Schedule` to the
switch (`Locked`), but `double_lock_balance` drops it, as it does with
`CONFIG_PREEMPT`: there `Pull` and `PushLocked` of others get in.  A waker holds
the `pi_lock` of its task from `WakeCalled` to `ttwu_queue` (`PiLocked`), which
is what `set_cpus_allowed_ptr` waits for.

| Actions | Code |
|---|---|
| `SetState`, `TestCondition`, `Exit` | a task's wait loop: state, test, `schedule()`; the `TASK_DEAD` of `do_exit` |
| `Happens` | somebody makes true what a task waits for, and will call `try_to_wake_up` |
| `WakeCalled`, `ttwu_remote`, `WaitOnCpu`, `ttwu_queue`, `ttwu_queue_remote` | `try_to_wake_up`: the test of the state under `pi_lock`; the task that still is on a queue; the spin on `p->on_cpu`; the choice of a CPU and the enqueue, or the wake list and its interrupt |
| `scheduler_ipi`, `sched_ttwu_pending` | the interrupt takes the whole list and then wakes one by one |
| `Schedule`, `Pull`, `PickNext`, `finish_task_switch`, `PutPrev` | `__schedule`: `deactivate_task`, `pre_schedule`'s `pull_rt_task` CPU by CPU, the pick, the clearing of `on_cpu`, `post_schedule` and the last reference of a dead task |
| `PushPick`, `PushLocked` | `push_rt_task`: the choice of task and CPU, and the second look of `find_lock_lowest_rq` once both locks are held |
| `set_cpus_allowed_ptr`, `migrate_task` | the new mask, the request to the stopper, `__migrate_task` |

### How `RtBandwidth` corresponds to the code

Every writer of an `rt_runtime` holds `def_rt_bandwidth.rt_runtime_lock`, so a
loop over the CPUs under it is one step; `rt_time` is under the
`rt_runtime_lock` of its CPU.  `held[c]` says who holds `rq->lock` of `c`
between two such steps.  Numbers are `u64`: differences and sums wrap at `U64`
and `RUNTIME_INF` is the largest.

| Actions | Code |
|---|---|
| `Enqueue`, `Dequeue` | the first and the last RT task of a CPU, with `start_rt_bandwidth` |
| `update_curr_rt`, `BalanceRuntime`, `Throttle` | a tick's accounting, `balance_runtime` with `do_balance_runtime`, the rest of `sched_rt_runtime_exceeded` |
| `TimerExpires`, `TimerVisits`, `Refill`, `TimerReturns` | `sched_rt_period_timer` and `do_sched_rt_period_timer`, CPU by CPU |
| `DownPrepare`, `Dying`, `DyingStuck`, `DownFailed`, `CpuUp`, `Online` | the hotplug notifier and `rq_online_rt`, `rq_offline_rt`: `__disable_runtime` and `__enable_runtime`, which may run twice |
| `SysctlWrite`, `SysctlConstraints`, `SysctlStore` | `sched_rt_handler`: the value, the loop over the CPUs, `def_rt_bandwidth` |

There are no groups (`CONFIG_RT_GROUP_SCHED` off), the root domain spans all
CPUs and is not rebuilt, `RT_RUNTIME_SHARE` is on, and the period is not
changed.  How much runs before a timer expires is open, so that late timers
(`overrun`) are covered.  `mixed`, `reclaimed` and `unstarted` remember that one
of the races below has occurred.

### How `TaskGroups` corresponds to the code

This is the kernel with `CONFIG_RT_GROUP_SCHED` and `CONFIG_CFS_BANDWIDTH`.  A
write to a file of a group is two steps, for the handler reads the half that is
not written before it takes the mutex (`sched_group_set_rt_runtime`,
`sched_group_set_rt_period`, `tg_set_cfs_quota`, `tg_set_cfs_period`; then
`tg_set_rt_bandwidth`, `tg_set_cfs_bandwidth` check the tree and store).  A
write to the sysctls is three: stored, checked, put back if refused; only the
check is under the mutex.  A move of a task is `sched_rt_can_attach` and, later,
the attach.  A task is real-time (`rt_task`) by its policy, which
`sched_setscheduler` gives it after a test of its group's runtime, or because a
mutex lends it a priority (`rt_mutex_setprio`, which tests nothing);
`sched_setscheduler_nocheck`, which kernel threads call without the test, is not
modelled.  The walks over the tree (`walk_tg_tree` with
`tg_rt_schedulable`, `tg_cfs_schedulable_down`) are a test of each group, and the
quota that a group inherits (`hierarchal_quota`) is a recursive function on the
tree.  `NSEC_PER_USEC` is 1.

### How `CalcLoad` and `LoadMath` correspond to the code

The CPUs and the timekeeper share no lock: a step is one access to what they
share.  `tk` is where the timekeeper is in `calc_global_load`: `wait`, `fold`
(`calc_load_fold_idle`), `sample`, `catchup` (`calc_global_nohz`), `flip` (of
the index).  A CPU stops its tick in two steps (`calc_load_enter_idle` reads the
index, `AddIdle` adds to the slot it read) and resumes in one.  `LoadMath` gives
the bulk forms (`fixed_power_int`, `calc_load_n`, `decay_load_missed`,
`update_cpu_load`) and the definition they stand for, one step per tick;
`BulkNearStepwise` and `DecayNearStepwise` compare them over the three real
decay factors, up to 60 periods and 130 missed ticks.

### How `ProcTree` corresponds to the code

A step is one record written or one return of `dfs_ptree`, `kmalloc`,
`copy_to_user` succeed or fail separately, and calls run in parallel.  `Fork`
and `Exit` (`kernel/fork.c`, `kernel/exit.c`, outside the tree) need the write
side of `tasklist_lock`.  `addsyscall_init` saves the slot of the system call
table in `oldcall` and takes it, `addsyscall_exit` puts `oldcall` back.
`problem2` and `problem3` have the same `hello.c`; that of `problem1` has no
field `depth` and is the same otherwise.  The buffer has `BufRecords` records
(1024 in the code) and `dfs_ptree` never looks at how many it has written: the
step that would write one more sets `overrun`.  What the kernel does after a
write behind its buffer is undefined, and the model stops there.

### How `Completion` corresponds to the code

Each section under `x->wait.lock` is one step: a waiter's call up to
`schedule_timeout` (`wait_for_common`), the way from there to the next sleep or
to the return (`Recheck`), a `complete`, a `complete_all`, a
`try_wait_for_completion`.  A waiter is *asleep* from the moment it has set its
state, although it still has to leave the CPU: what happens when it is woken in
between is the subject of `Sched` and `SchedSMP`.  `Expire` and `Signal` are
what else wakes it; both may come after it has been woken and before it has the
lock, and what it then does depends on `expired` and `signalled`.  The killable
waits are interruptible ones with fewer signals.  `completion_done` reads only.

### How `BurgerBuddies` corresponds to the code

A thread's function is a table of its semaphore operations and of its accesses
to shared variables, in the order of the source; `ip[t]` is the next.  `Init`,
`Next`, `Spec` and `TypeOK` are `BBInit`, `BBNext`, `BBSpec` and `BBTypeOK` here,
for the proofs are in one module with those of `ProcTree`.
`left_num++` is a load and a store.  `while(!terminate_signal);` is a data race
on a plain `int` in a loop without side effects: the compiler may read it each
time round or once, so `hoisted` is chosen at the start and never changes.
`pthread_create` may fail at any point (`thread_create_fails`), which returns
from `main` and ends the process.

## 3. Plan

Written: the modules above and their proofs.  Left, most important first:

1. `Sched`: `normalize_rt_tasks`, the recheck loop of `__sched_setscheduler`
   (policy read without the lock for `sched_setparam`), `dup_task_struct` and
   `sched_fork` as two steps.
2. `SchedSMP`: `try_to_wake_up_local`, `sched_exec`; the tries of
   `find_lock_lowest_rq` counted, and what then holds of more than two CPUs.
3. Wait queues with waiters that are not exclusive.

## 4. What the runs check

Bounds are those of the `.cfg` files.

| Run | Instance | Properties |
|---|---|---|
| `policies` | two tasks; NORMAL, RR and WRR, two nice values, one real-time priority, an rt_mutex waiter of a better one; tasks that move to a group whose slice is no ticks | `TypeOK`, `RqConsistent`, `NoRunnableTaskLost`, `PiHonoured`, `OnlyWrrMissesPreemption`, `PickHighest`, `RtKeepsItsPlace` |
| `starvation` | three tasks, NORMAL and WRR, slices of two ticks, with fairness | `EveryWrrTaskRuns`, `ImplementsRoundRobin` |
| `smp` | two CPUs, three RT tasks of which the least urgent waits and exits, one change of a mask, two wakers | `OneCpuAtATime`, `NoLostWakeup`, `DeadPutOnce`, `OnlyWakeListStrays`, `NoTaskLeftBehind` |
| `bandwidth` | two CPUs, a period of 3 of which 2 are runtime, one write of -1 (no limit) to the sysctl, `u64` of 64, with fairness | `Consistent`, `OnlyResetsLeaveWanting`, `OnlyReclaimedOverrun`, `TimerRunsUnlessMissed`, `ThrottledIsReleased` |
| `groups` | the root and three groups, two writers, two writes to files of groups (real-time runtimes, or quotas), one task that changes its policy, is boosted and moves, sysctl writes that are accepted and refused | `Consistent`, `OnlyRefusedSysctlsLetMoreBy`, `OnlyUncheckedPeriodDivides`, `OnlyKnownWaysStarve`, `QuotasNest` |
| `calcload` | two CPUs, `LOAD_FREQ` 3, a window of 2, up to 7 ticks missed at once, 9 ticks in all; for the arithmetic the three decay factors of the code, 60 periods, 130 missed ticks | `Consistent`, `OneSamplePerWindow`, `OnlyTornWritesAreLate`, `EveryPeriodCounts`, `OnlyLateWakersSkip`, `CatchingUpIsStepwise` |
| `ptree` | five tasks, a buffer of four records, two callers, two modules, one leaked buffer | `WalkShowsTree`, `OnlyHalfFailedCallsLeak`, `OnlyOutOfOrderUnloadsDangle` |
| `burgers` | two cooks, two cashiers, two customers, a rack of two, with fairness | `Consistent`, `LastCustomerEndsMain`, `EveryoneServed`, `MainReturns` |
| `completion` | three threads, plain waits and timed interruptible ones, a counter up to 4 that `complete_all` raises by 2, with fairness | `NoStrandedWaiter`, `ImplementsSemaphore`, `WaiterReturns` |
| `policy_is_class` | two tasks, NORMAL and WRR, an rt_mutex waiter | `PolicyIsClass`, which is **violated** |
| `completion_wrap` | two threads, a counter of 16 bits | `AllReleased`, which is **violated** |
| `rt_wanting` | the instance of `bandwidth` | `NeverLeftWanting`, which is **violated** |

`Consistent` is, in each of the modules that has one, the type invariant
together with what is conserved: runtime (`RtBandwidth`), the shares of the
groups (`TaskGroups`), load deltas (`CalcLoad`), semaphores, places and orders
(`BurgerBuddies`).

Each property is worth a sentence of its own; it is in the comment that
precedes it.  Some need more:

**Bounds.**  In `Sched` priorities are compressed: a few RT priorities, two fair
ones, and a cap for WRR that may lie beyond `MAX_PRIO` (500 against 140 in the
code); the code only compares priorities and adds one, so that what matters is
which side of `MAX_RT_PRIO`, `MAX_PRIO` and the cap a value is on.  A slice is
one or two ticks, enough to have a tick within a slice and one that ends it; a
slice of no ticks, which the code's arithmetic on `HZ` allows, wraps round.
Tasks exit and are forked again, so two or three slots give unboundedly many
tasks.  Two tasks are enough for the structural properties because each concerns
one task and the structure it is on, or a pair (the task that runs and one that
should); three are used where an order of two tasks is changed by a third.  The
proofs of section 5 remove the bounds for all of these, and cover more of the
model than the instance of `policies` does: boosts by waiters that are not
real-time, and reset-on-fork.

In `smp` two CPUs and three tasks let a task be pushed, pulled, woken and
migrated while both CPUs run others; only one of the three sleeps and dies, for
the hazards of a wake-up concern one sleeper.  With three CPUs `push_rt_task`
may give up after `RT_MAX_TRIES` attempts, each to a CPU that is taken before it
is locked, although another has become free: it leaves the task behind by design
("retry later").  The model leaves the number of tries open, and on three CPUs
TLC finds `NoTaskLeftBehind` violated after the first.  On two there is no other
CPU to give up on, and section 5 proves it.  In
`bandwidth` a second writer of the sysctl is excluded by its mutex, and one
write is enough to meet a CPU in each state of hotplug.  In `groups` two groups
below the root can be siblings or parent and child, and for quotas there is a
third level, so that an unlimited group may lie between two limited ones; two
writes limit both.  The two kinds of bandwidth share no state but the tree, and
the constraint `OneKind` keeps each behaviour to one of them (real-time bandwidth
to trees of three groups).  Legal changes of the sysctl's period are not reached,
and the proofs cover them.  In `ptree` the fifth task is one more than the buffer
has records for; up to four the walk comes to its end.  The constraint
`OneCallInLargeTrees` leaves two calls, and two loaded modules, to trees of one or
two tasks: calls share nothing but the lock, which keeps the tree still for both.
In `calcload` `MaxDebt` bounds the delta
that is left for the next window, and 9 ticks are three windows: one to miss,
one to be late in, one to be late for.

What is proved about all instances is not checked again by TLC where it was
slow: the types of `Completion`, `ProcTree` and `SchedSMP`, `ClassDiscipline`,
`NrCountsCopied`.

*Symmetry* is used where the interchanged CPUs, tasks, groups or modules are
treated alike and no liveness is checked: `smp`, `groups`,
`calcload`, `ptree`.

*Deadlock* is checked for the scheduler of one CPU, which never stops, and for
`completion`.  It is not where the system stops: BurgerBuddies,
when `main` returns (or, with the hoisted read, when nobody but the spinning
`main` is left to do anything), `ptree`, when a walk has written behind its
buffer, and the modules whose counters are bounded (`smp`, `bandwidth`, `groups`,
`calcload`).

**Only the WRR class misses a preemption.**  `OnlyWrrMissesPreemption` says that
a runnable task that outranks the current one goes unnoticed only because of two
things `wrr.c` does: `switched_to_wrr` is empty, so a running RT task that makes
itself WRR keeps the CPU from waiting RT tasks until something else reschedules;
and a task made WRR while it is boosted keeps a real-time `prio` in the WRR
class, where `prio_changed_rt` and `switched_to_rt`, which compare `prio` alone,
take it for a better task than it is.  Everything else in `core.c` and `rt.c`
asks for the reschedule.

**Priorities outside the WRR class.**  `task_tick_wrr` increments `prio` at every
tick within a slice, up to a `MAX_PRIO` of its own (500, wrr.c:8), and no end of a
slice resets it; "Priority of a process goes from 0..MAX_PRIO-1", says
linux/sched.h:1653, and there it is 140.  `PiHonoured` says that the class keeps
this to itself: every way out of it, boosted or not, recomputes `prio`, so that
neither core.c nor CFS's table of weights meets a value beyond its range.

**Places among RT tasks.**  `RtKeepsItsPlace`: the RT tasks of one priority are
requeued by ticks (`task_tick_rt`, for policy RR only, although a boosted task of
another policy sits on the same lists), by yields, and by each
dequeue-change-enqueue, which for a boosted task may put it back on the list it
was on.  A task is overtaken only when it yields, has used up its slice, or is
itself changed; the one that may get ahead of a task that does nothing is one
whose boost ends, which `rt_mutex_setprio` puts at the head of its list.

**Only the wake list strays.**  A task is queued on a CPU outside its mask until
the stopper has moved it, with one exception: a task on a `wake_list` is not
queued yet, `set_cpus_allowed_ptr` leaves it to the next wake-up, and that
wake-up has placed it already (the comment at core.c:5214 says it will take
care).  A request to the stopper that is out of date moves a task although its
mask has been widened again.

**Runtime.**  `OnlyResetsLeaveWanting`: `__disable_runtime` gets back what its
CPU lent unless a CPU has been reset twice, or amid a write of the sysctl
(`mixed`); the run `rt_wanting` shows such a reset and the `BUG_ON(want)` at
rt.c:678 it leads to: a CPU fails to go down while -1 is written (core.c:7800
takes no lock that `__disable_runtime` holds between its loops).
`OnlyReclaimedOverrun`: a CPU that is not throttled is within its runtime, unless
a CPU that went down, or a write, has cut it; or, where a reset amid a write has
left `RUNTIME_INF` on some CPUs and a limit on others, what is borrowed has wrapped
round.  `TimerRunsUnlessMissed`: RT tasks wait without a timer only if
`start_rt_bandwidth` was called, or the timer stopped, while there was no limit, or
if `start_rt_bandwidth` found the timer active while its callback was about to end.

**Groups.**  `tg_has_rt_tasks` compares a group with the root's run queue and so
finds RT tasks in the root group only (core.c:7553, against the comment at
7588), which is why `OnlyKnownWaysStarve` lists a write to the task's own group when it
is another.  A boost and a move whose check has gone out of date are the other
ways, besides the sysctl that turns the limits on; that there are no more, and
above all that `sched_setscheduler` is none, is what the property says.
`OnlyUncheckedPeriodDivides`: a period of zero is stored before it is refused,
and a group's file that is written in between divides by it.

**Load.**  A delta is added to the wrong slot when a CPU reads the index before
the timekeeper turns it and writes after (`OnlyTornWritesAreLate`), and a CPU
that slept through a window and wakes between it and the next passes over the
next (`OnlyLateWakersSkip`).  Neither is lost: `DeltasConserved`.

**`ptree`.**  If one of the two allocations fails, the call returns without
freeing the other (problem1/hello.c:65-69): `OnlyHalfFailedCallsLeak` says that
nothing else leaks.  With more tasks than the buffer has records the walk writes
behind it (problem2/hello.c:64).  `WalkShowsTree` says what a walk has done when
it is over, of the walks that end (`RecordsShowTree`: the whole tree) and of those
that do not (`OnlyManyTasksOverrun`: more tasks is the only way to get there, and
with so many tasks no walk ends well).

**BurgerBuddies.**  `LastCustomerEndsMain`: `left_num` counts the customers who
have left, no update is lost, and `main` does not return under customers who are
still there unless a thread could not be created (BurgerBuddies.c:143).

**Where the documentation and the code differ.**
`PolicyIsClass`: `rt_mutex_setprio` and `sched_fork` choose the class by `rt_prio`
alone.  A WRR task whose boost ends, or whose aged `prio` is put back, and the child
of a WRR task are left with the policy `SCHED_WRR` and the fair class; a later
`sched_setscheduler(SCHED_WRR)` finds "nothing to change", returns 0, and leaves
them there.  The counterexamples of the two are of the same length, and TLC prints
one of them; with `PiPrios` empty only the fork is left.  The comment of
`sys_sched_getscheduler` takes policy and class for the same thing, and the test
program prints "Successfully switched!".
`AllReleased`: "This will wake up all threads waiting on this particular
completion event", says `complete_all`.  It adds `UINT_MAX/2`, twice which is two
short of the range; with two calls of `complete` besides the counter is 0 again,
and a waiter that was woken and has not run yet goes back to sleep.  In the run
`completion` the counter does not get that far (`MaxDone` = `UINT_MAX`).

**Completions.**  A timed interruptible wait may do whatever a timed or an
interruptible one does (its timer need not run out, no signal need come), so that
two kinds of waits stand for the four.  Three threads are one more than it takes
for a woken waiter to lose its token to another and a third to be asleep.

**Fairness.**  `starvation` assumes that the timer keeps ticking (weak fairness
of `Tick`: the tick is a periodic interrupt), that a pending reschedule is
carried out (`PreemptSchedule`: the flag is looked at whenever the kernel returns
from an interrupt) and that a dead task calls `schedule()` (its next statement).
Nothing is assumed of the tasks: they may run for ever, sleep for ever, or yield.
What the workload leaves out is that somebody changes *another* task's
attributes: each such change puts a queued task at the tail, and a task that is
reniced before each of its turns does starve; nor is anybody in the RT class,
which starves everyone below it by design.
`burgers` assumes that the operating system runs every thread that can run
(weak fairness of each thread's step; a semaphore may be taken by others for
ever, but each thread here works for one customer at a time and customers are
finite in number) and that `pthread_create` is called until it fails.
`completion` assumes that a waiter that is awake runs (weak fairness of
`Recheck`), not that anybody completes, times out or is signalled.
`bandwidth` assumes that the timer's callback, whenever it is due, runs to its
end (strong fairness of `TimerRuns`: locks that others take again and again let
it through in the end, as spinlocks do), and that a CPU that is in the middle of
its tick goes on (weak fairness of `BalanceRuntime` and `Throttle`).

**Hazards.**  Those of the code that a property is about are in `PROJECT.json`.
Not listed there: the trust in the counter at wrr.c:304 and the copies of
dequeue-change-enqueue beyond the first, which the same properties cover; a
boosted task that becomes WRR (core.c:4177), the second exception above; renicing
that starves (core.c:4029, below *Fairness*); and what no property here is about:
for how long a WRR slice that has wrapped round lasts (wrr.c:409); a change of a
task's attributes in the middle of its fork (core.c:1752); `completion_done`
(core.c:3877); `list_entry` of a list's head (problem1/hello.c:34); `load *= exp`
in 32 bits (core.c:2267); `RUNTIME_INF` with a difference added (rt.c:594, which is modelled
and excused as `mixed`); `runtime << 20` (core.c:7537); a throttled CPU that goes
down and never ends (core.c:5324, modelled as `DyingStuck`).

## 5. What is proved

The theorems hold for all values of the constants that satisfy the assumptions
named below, which TLC evaluates in the runs.

*Data* (`DataProofs`).  What each operation does to a list without duplicates.
`SubsetInduction`: a set of subsets of `S` that holds `T` whenever it holds `T`
without any one element holds them all; it takes a set and no operator, and rests
on the least element of a set of numbers.  With it, sums over finite sets
(`SumFunctionOnSet` of the module `Functions`): that the recursion they are
defined by has a solution, and only one (`SumExists`, `SumsAgree`), that the order
does not matter (`SumRemove`), and what a change of one summand does
(`SumChange`) or many equal ones (`SumConst`).  A loop over the CPUs is a function
on the numbers of its passes: `Iterates` says that there is one that begins with a
given value and makes a given pass each time, and `Upwards` is induction over the
passes, for a set again.

### The scheduler of one CPU (`SchedProofs`)

For every finite set of tasks, every number of priorities and every slice length
under `TasksFinite`, `MAX_RT_PRIOAssumption` (module `RunQueue`) and
`SchedAssumption` (module `Sched`): real-time priorities are a non-empty initial
segment of the priorities, the `MAX_PRIO` of `wrr.c` is at least that of
`core.c`, slices fit in an `unsigned int` (a WRR slice of zero is allowed), nice
values are not real-time.

*The run queue.*  `RqOK(q, T)` says that the run queue `q`
describes the task function `T`.  One lemma per hook and class, then `EnqueueTask`, `DequeueTask`, `RequeueTask`
(the dequeue-change-enqueue of `core.c`, for any old and new attributes) and
`PickNext`: on a run queue that is `RqOK`, `pick_next_task` finds somebody exactly
when somebody is queued, in the best class, and within RT at the best priority.

*The scheduler.*  The properties are not inductive one by one.
`RqConsistent` fails to be preserved from an arbitrary state because a task of
policy RR with a fair `prio` would be queued beyond the last RT list;
`NoRunnableTaskLost` because two children might be forked into the same slot, or
a dead task might not be the one that runs.  The inductive invariant `IInv` adds
to them what each task keeps to on its own (`TaskOK`: its type, `AttributesOK` on
policy, class and priorities, `LifeOK` on life, state and `on_rq`) and the
relations between tasks (`NewbornsOK`: a newborn has one parent; only the current
task is dead).  It is stated as a predicate `StateOK(T, q, c)` of values, so that
one lemma serves each shape of step: `ReplaceOK` (a task's attributes change, the
queue does not), `ChangeOK` (dequeue-change-enqueue), `SwitchOK`
(`__schedule`), `WakeOK` (a task joins the queue).  One lemma per action follows,
and `NextOK`.

*Preemption.*  `need_resched` is cleared by a switch only, and a switch leaves
nobody who outranks the current task.  While it is clear, who outranks whom
changes only where one task's attributes do or one task joins the queue, and there
`check_class_changed` or `check_preempt_curr` compares just that pair
(`ChangedTaskPreempts`, `ChangedCurrPreempted`, `WakeUpPreempts`); what is left are
the two exceptions of section 4.

*Refinement.*  Under the mapping of `queue` to `rq.wrr_queue` and `running` to the
current task if it is a WRR one, each requeue is a `Join`, a `Leave`, a
`GoToTail` or a stutter of `RoundRobin`, and each switch a `Dispatch` or a
stutter; `Dispatch` serves the head because `pick_next_task` does.

| Theorem | States |
|---|---|
| `Inductive` | `Spec => []IInv` |
| `TypeCorrect` | `Spec => []TypeOK` |
| `RunQueueConsistent` | `Spec => []RqConsistent` |
| `NoneLost` | `Spec => []NoRunnableTaskLost` |
| `ClassesKept` | `Spec => []ClassDiscipline` |
| `InheritanceHonoured` | `Spec => []PiHonoured` |
| `HighestPicked` | `Spec => PickHighest` |
| `PreemptionsNotMissed` | `Spec => OnlyWrrMissesPreemption` |
| `RoundRobinRefined` | `Spec => ImplementsRoundRobin` |

### RT tasks on several CPUs (`SchedSMPProofs`)

For any finite set of CPUs and tasks, any priorities and masks
(`SchedSMPAssumption`).  The inductive invariant is the conjunction of `TypeInv`;
`PushInv` (a CPU pushes while it is locked, and what it has chosen); `PlaceInv`
(where a task can be at once: on whose queue, stack, wake list, in whose push or
pull); `WakeInv` (a sleeper for whom the condition holds has a waker between two
steps, or an interrupt to come); `DeadInv`; `MaskInv`.  The key of it: the CPU on
whose stack a task is stays its `task_cpu` until it has switched away, because
everybody who would move it finds it running or spins on `on_cpu`.

*Nobody is left behind.*  `NoTaskLeftBehind` speaks of moments when nothing is
under way and says nothing about how they come about.  `LeftInv`, on top of
`IInv`, says it of every moment, as long as no mask has been changed and on at
most two CPUs: if a task waits on `c` that `d` could run at once, then somebody is
`Obliged` to look: `c` itself, which will reschedule or has picked and not pushed
yet; somebody who is pushing from `c`; or `d`, which is pulling and has `c` before
it (`LeftOK`).  A CPU whose current task is not its most urgent one will pick
(`PreemptOK`).  Each step that ends an obligation either finds the task or hands
on: a pusher gives up only if what it would push is no more urgent than what `d`
has, and with two CPUs there is no third to which `cpupri_find` could have sent
it; a CPU that becomes less urgent does so in `__schedule`, which pulls first if
there is anything to pull; a waker that does not push has woken the current task,
or one whose CPU will reschedule, or one that its CPU is still switching away
from, and this CPU will push.  `OneCallInv` is what makes an obligation last: a
CPU, and a waker, is in one function at a time.

The proof found a gap in the model: `try_to_wake_up` takes the `pi_lock`
(core.c:1587), which a waker that still pushes holds, and `WakeCalled` did not
wait for it, so that a second waker could put its push in the place of the
first's.

| Theorem | States |
|---|---|
| `NeverOnTwoCpus` | `Spec => []OneCpuAtATime` |
| `NoneSleepsOn` | `Spec => []NoLostWakeup` |
| `DeadArePutOnce` | `Spec => []DeadPutOnce` |
| `AffinityKept` | `Spec => []OnlyWakeListStrays` |
| `NoneLeftBehind` | `Cardinality(Cpus) <= 2` implies `Spec => []NoTaskLeftBehind` |
| `TypeCorrect` | `Spec => []TypeOK` |

### The runtime of the RT class (`RtBandwidthProofs`)

For any number of CPUs, any period, and any values written to the sysctl
(`RtBandwidthAssumption`: 2^64 is even, and more than twice what all CPUs may have
or use: the sysctl is an `int` of microseconds, so that this holds of fewer than
2^22 CPUs).  The properties excuse the races that the history variables remember;
that there are no others is what is proved.  The inductive invariant is `TypeOK`
with

- `SettingsOK`: what is in force has been written, and accepted;
- `Holders`: what is known of a CPU while its `rq->lock` is held from one step to
  the next; above all, that a CPU borrows only while it is enabled;
- `Conserved`: the sum of `RuntimeConserved`, also between the two halves of a
  write, when the limit is the one that is being stored and all CPUs are up;
- `Within`: that of `OnlyReclaimedOverrun`, also of the CPU that is refilled;
- `TimerSeen`: who needs the timer, and is behind its callback, has made it go on,
  or is in `unstarted`; who is throttled has used something, for else the callback
  would pass it;
- `Stopped`: the `BUG_ON` has stopped everything.

The two loops over the CPUs carry the argument.  A pass of `do_balance_runtime`
moves part of what one CPU has not used to another (`LendShares`), which keeps the
sum and leaves the lender what it has used (`Balanced`).  In `__disable_runtime` the
sum of what the others have, less what is still wanting, does not change
(`OwingKept`): while the CPU wants, those passed are left with nothing, so that if
something were wanting at the end the others would have nothing and be allotted
less than nothing (`AllTakenBack`).  As long as the sum is right no share, and no
two, come near 2^63 (`SharesFit`), which is why none of the `s64` and `u64` of these
loops wraps.

| Theorem | States |
|---|---|
| `Inductive` | `Spec => []IInv` |
| `RuntimeShared` | `Spec => []Consistent` |
| `LeftWanting` | `Spec => []OnlyResetsLeaveWanting` |
| `OverrunExplained` | `Spec => []OnlyReclaimedOverrun` |
| `TimerMissedExplained` | `Spec => []TimerRunsUnlessMissed` |

### Task groups (`TaskGroupsProofs`)

For any finite set of groups in any tree, any writers and tasks, and whatever they
write (`TaskGroupsAssumption`: what is written fits in 64 bits and group periods
are not 0, as the handlers ensure; 2^64 is a multiple of `1 << 20`).  The
inductive invariant is `TypeOK` with

- `WritersOK`, `SysctlOK`: what a writer holds has passed its handler's own tests,
  and a period of 0 stands in the sysctl only while it can still be refused;
- `LimitsOK`: no group has more than the sysctls at rest allow, or the pair that
  will be put back, or the pair just accepted, unless one got by meanwhile: which
  of these holds depends on where the handler is;
- `TargetsOK`: a real-time task on its way to a group without runtime is in
  `overtaken`;
- `TreeInv`: `ChildrenFit`, `QuotasNest`, the root has no quota, and `Acyclic`
  (each group has a depth greater than its parent's).

`ChildrenFit` is kept by the making and the removal of groups through the lemmas
about sums: a new group has no runtime and so a ratio of 0.  For `QuotasNest`,
`Acyclic` makes `hierarchal_quota` well defined (`QuotaExists`), and by depth the
quota that binds a group is at most that of every limited group above it
(`CheckedQuotasNest`).  There the arithmetic matters: a group's ratio is never
mistaken for `RUNTIME_INF`, because the product of a runtime and `1 << 20`, taken
modulo 2^64, is never odd (`ToRatio`).

| Theorem | States |
|---|---|
| `Inductive` | `Spec => []IInv` |
| `TreeSchedulable` | `Spec => []Consistent` |
| `LimitsRespected` | `Spec => []OnlyRefusedSysctlsLetMoreBy` |
| `DivisionsSafe` | `Spec => OnlyUncheckedPeriodDivides` |
| `StarvationExplained` | `Spec => OnlyKnownWaysStarve` |
| `QuotasHierarchical` | `Spec => []QuotasNest` |

### The load average (`CalcLoadProofs`)

For any CPUs, `LOAD_FREQ` and window shorter than it (`CalcLoadAssumption`).  The
inductive invariant is `TypeOK` with `PeriodInv` (every update time is a multiple
of `LOAD_FREQ`, and where the timekeeper is says on which side of the window
`jiffies` is), `DueInv` (how far a CPU's next sample may be from the global one),
`SettledInv` (who has given its sample in this window) and `EarlyInv` (which slots
hold deltas of before the window).  Two facts carry it: a CPU that is on its way
to idle is torn once the timekeeper is inside `calc_global_load`, and `ticked`
limits how long a CPU that wakes after a jump is behind.

That no delta is lost has an invariant of its own, `BooksInv`: besides the
equation itself, the timekeeper holds a delta only between its fold and its
sample, and a CPU only while it is entering idle.  Each step then moves one
amount from one account to another, which `SumChange` carries over to the sums of
all CPUs.

| Theorem | States |
|---|---|
| `PeriodsCounted` | `Spec => []EveryPeriodCounts` |
| `OthersSkipNone` | `Spec => []OnlyLateWakersSkip` |
| `OthersAreInTime` | `Spec => []OnlyTornWritesAreLate` |
| `SampledOnce` | `Spec => OneSamplePerWindow` |
| `NoDeltaLost` | `Spec => []Consistent` |
| `TypeCorrect` | `Spec => []TypeOK` |

### Completions (`CompletionProofs`)

For every finite set of threads and every width of the counter.  `TypeOK` and
`NoStrandedWaiter` together are inductive: that a waiter that leaves was awake,
and on the queue once, is what makes the number of those awake fall by no more
than the tokens; that `complete` finds the *first* sleeper is what makes it rise.
`Refinement` needs `TypeOK` only, and that the counter does not wrap round
(`MaxDone <= UINT_MAX`); `NobodyStranded` does not need that: after a wrap there
are fewer tokens.

| Theorem | States |
|---|---|
| `TypeCorrect` | `Spec => []TypeOK` |
| `NobodyStranded` | `Spec => []NoStrandedWaiter` |
| `Refinement` | `MaxDone <= UINT_MAX /\ Spec => ImplementsSemaphore` |

### `ptree` (`Prj1Proofs`)

For any finite set of tasks, any callers and modules and any size of the buffer
but none at all (`TreeAssumption`).  The invariant is `TreeInv` (parents and children agree),
`DepthInv` (the tree has depths), `SlotInv` (what each loaded module has saved is
what was there before it), `CallInv` (what each call has allocated, and how far it
has got), `WalkInv` (what a walk has written, and what is still before it) and
`RoomInv` (no buffer holds more than it has room for, and one is overrun only
while more tasks are alive than that).

*Depths.*  `DepthOf` is recursive along `parent`, which is a variable, and what a
recursive function computes cannot be had by induction here.  Instead `DepthInv`
says that *some* function satisfies the equation, and that it does is an
invariant: `Fork` extends the function, and `Exit`, which gives the children of
the dead to init, keeps it for everybody but their descendants, and gives these
less.  The descendants are the smallest set that holds the children and is closed;
with a function for the new tree, `DepthOf`, the chosen solution, satisfies its
equation (`DepthOfParent`), and that is all the walk needs.

*The walk.*  `WalkInv` describes the buffer `b` and the stack `s` in the middle of
`dfs_ptree`.  `RecordsOK`, `ParentsAbove` and `SiblingsOrdered` are the parts of
`RecordsShowTree` for what has been written; `FramesOK` says that each frame has a
record, below which everything is deeper, and that `pos` is a child; `VisitedOK`
that a task has a record exactly if its parent has and, while the parent is on the
stack, if its `pos` has come to the task.  When the stack is empty the tasks that
have one are closed under children, which by depth makes them everybody.  That no
step of another call and neither `Fork` nor `Exit` comes in between is due to
`tasklist_lock`.

*The buffer.*  When `dfs_ptree` is about to write a task, no record is of that task
yet (`NextUnseen`), and the records are of different tasks that are all alive
(`RecordsCount`): if there is no room for one more, more tasks are alive than there
are records.  A finished walk has a record of each task, so that there was room.
The tree cannot change in between, nor after the overrun, where the model stops.

The proof corrected the model: `NextOn`, the next entry of a list, chose its
index in a way that the end of the list always satisfied as well as the entry
itself.  TLC took the right one; nothing said that it must.

| Theorem | States |
|---|---|
| `RecordsAreTheTree` | `Spec => []RecordsShowTree` |
| `ManyTasksOverrun` | `Spec => []OnlyManyTasksOverrun` |
| `WalkIsTheTree` | `Spec => []WalkShowsTree`, from the two |
| `SlotRestored` | `Spec => []OnlyOutOfOrderUnloadsDangle` |
| `NothingElseLeaks` | `Spec => []OnlyHalfFailedCallsLeak` |
| `CountNotAhead` | `Spec => []NrCountsCopied` |
| `TypeCorrect` | `Spec => []TypeOK` |

### BurgerBuddies (`Prj1Proofs`)

For any numbers of cooks, cashiers, customers and places (`arg_parser`: none is
zero).  `Books` has one equation per pair of semaphores: the value of each is
determined by how many threads are between its waits and its posts.  A step of
one thread changes each count by the lemmas `Moved` and `NotMoved`, and the table
of the thread's program says by how much.  `LastCustomerEndsMain` adds that
`left_num` is read and written by one customer at a time, which is where the book
of `mutex_leave` comes in, and that every thread `main` counts on exists unless a
`pthread_create` has failed.

| Theorem | States |
|---|---|
| `BooksBalance` | `BBSpec => []Consistent` |
| `LastEndsMain` | `BBSpec => []LastCustomerEndsMain` |

### Model-checked only

`CatchingUpIsStepwise` compares recursions of fixed-point
numbers: what a recursive definition computes for all inputs is beyond the prover,
but for the cases above (sums, loops over the CPUs, quotas along a path, depths),
where the data can be reached through a set or a function that is known to exist.
`RtKeepsItsPlace`, which compares the orders of lists before and after every
dequeue and enqueue, is checked on the lists of two tasks.
`NoTaskLeftBehind` is proved for up to two CPUs and is not promised beyond
(section 4).  Liveness under fairness
(`EveryWrrTaskRuns`, `ThrottledIsReleased`, `EveryoneServed`, `MainReturns`,
`WaiterReturns`) is beyond the prover and stays with TLC.

## 6. Not modelled

CFS (`fair.c` is not in the tree) but for the set of its tasks; the sched domains
and root domains, which are data for the load balancer; CPU-time and cgroup
accounting, which no decision here depends on; the race of `sched_setaffinity`
with cpusets; the run queues of groups (rt.c:360-530); `sleep_on` and waiters
that are not exclusive; `try_to_wake_up_local` and the choice of a CPU at exec
and fork; unloading a module while a call is in it; the user programs in `test/`
and `extend-ideas/`, which call the system calls and print; the generated build
files.
