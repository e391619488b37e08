---------------------------- MODULE RtBandwidth ----------------------------
(***************************************************************************)
(* The budget of the real-time class (rt.c without RT_GROUP_SCHED): each   *)
(* CPU may run RT tasks for rt_runtime in a period, borrows from the       *)
(* others when that is not enough, is throttled when it finds no more, and *)
(* is refilled by one timer for all CPUs.  The period is not changed, and  *)
(* the timer may expire at any time: how much runs in a period is open.    *)
(*                                                                         *)
(* A step is a section under rt_b->rt_runtime_lock or under one            *)
(* rt_rq->rt_runtime_lock: every writer of an rt_runtime holds the former, *)
(* so the loops over the CPUs under it are one step each.  rq->lock is     *)
(* held across several steps: see held.                                    *)
(***************************************************************************)
EXTENDS Integers, FiniteSets, FiniteSetsExt, Functions

CONSTANTS
  NCpus,                \* the CPUs 0 .. NCpus - 1 are possible, and are the rd->span
  U64,                  \* 2^64, or less for TLC
  Period, BootRuntime,
  Runtimes,             \* what is written to sched_rt_runtime_us
  MaxTime, MaxWrites,   \* bounds: of rt_time, and of the writes
  MaxOverrun            \* bound: periods that an expiry may be late

ASSUME RtBandwidthAssumption ==
  /\ NCpus \in Nat \ {0} /\ U64 \in Nat /\ U64 % 2 = 0 /\ MaxWrites \in Nat /\ MaxTime \in Nat
  /\ MaxOverrun \in Nat \ {0}
  /\ Period \in Nat /\ BootRuntime \in 1 .. Period
  /\ Runtimes \subseteq Int /\ \A v \in Runtimes : v >= -1 /\ 2 * NCpus * v < U64
  /\ 2 * NCpus * (Period + MaxTime) < U64

Cpus == 0 .. NCpus - 1
RUNTIME_INF == U64 - 1

VARIABLES
  rt_runtime, rt_time, rt_throttled, \* of each rt_rq
  rt_nr_running,        \* 0 or 1
  held,                 \* who holds rq->lock and what is next in it; "stuck" once
                        \*   a BUG, or a stop_machine without end, has stopped all
  b_runtime,            \* def_rt_bandwidth.rt_runtime
  sysctl,               \* sysctl_sched_rt_runtime
  writer,               \* where sched_rt_handler is, and the old value
  timer,                \* rt_period_timer: at is the CPU its callback has come to
  cpu,                  \* CPU hotplug
  wanting,              \* BUG_ON(want) has been hit
  writes,
  mixed,                \* history: a reset took place amid a loan or a write
  reclaimed,            \* history: CPUs whose runtime was cut below what they had used
  unstarted             \* history: CPUs that had tasks when no timer was started, or it stopped

vars == << rt_runtime, rt_time, rt_throttled, rt_nr_running, held, b_runtime, sysctl, writer,
           timer, cpu, wanting, writes, mixed, reclaimed, unstarted >>

rtVars == << rt_runtime, rt_time, rt_throttled, rt_nr_running >>
sysctlVars == << b_runtime, sysctl, writer, writes >>
history == << mixed, reclaimed, unstarted >>

TimerOff == [state |-> "off", at |-> 0, overrun |-> 0, idle |-> TRUE, throttled |-> FALSE]
TimerArmed == [TimerOff EXCEPT !.state = "armed"]

\* init_rt_rq and init_rt_bandwidth.
Init ==
  /\ rt_runtime = [c \in Cpus |-> BootRuntime]
  /\ rt_time = [c \in Cpus |-> 0]
  /\ rt_throttled = [c \in Cpus |-> FALSE]
  /\ rt_nr_running = [c \in Cpus |-> 0]
  /\ held = [c \in Cpus |-> "no"]
  /\ b_runtime = BootRuntime /\ sysctl = BootRuntime
  /\ writer = [at |-> "no", old |-> BootRuntime] /\ writes = 0
  /\ timer = TimerOff
  /\ cpu = [c \in Cpus |-> "up"]
  /\ wanting = FALSE
  /\ mixed = FALSE /\ reclaimed = {} /\ unstarted = {}

OnlineCpus == {c \in Cpus : cpu[c] # "dead"}
rt_bandwidth_enabled == sysctl >= 0
\* A u64 difference taken for an s64.
S64(x) == IF x % U64 < U64 \div 2 THEN x % U64 ELSE (x % U64) - U64

global_rt_runtime(v) == IF v < 0 THEN RUNTIME_INF ELSE v

-----------------------------------------------------------------------------
(* Borrowing.                                                              *)

\* Mutant: a CPU lends what it has used, too.
Spare_All(runtime, c) == runtime[c]

\* What c has not used.
Spare(runtime, c) == S64(runtime[c] - rt_time[c])

\* Mutant: the borrower does not get what is lent.
Lend_Lost(runtime, from, to) ==
  LET part == Spare(runtime, from) \div NCpus
      diff == IF (runtime[to] + part) % U64 > Period THEN Period - runtime[to] ELSE part
  IN  [runtime EXCEPT ![from] = (@ - diff) % U64]

\* A 1/n-th of what is spare, up to the period.
Lend(runtime, from, to) ==
  LET part == Spare(runtime, from) \div NCpus
      diff == IF (runtime[to] + part) % U64 > Period THEN Period - runtime[to] ELSE part
  IN  [runtime EXCEPT ![from] = (@ - diff) % U64, ![to] = (@ + diff) % U64]

\* One pass of its loop: c borrows from CPU i.
BorrowFrom(b, i, c) ==
  IF b.full \/ i = c \/ b.runtime[i] = RUNTIME_INF \/ Spare(b.runtime, i) <= 0 THEN b
  ELSE LET r == Lend(b.runtime, i, c) IN [runtime |-> r, full |-> r[c] = Period]

\* rt_runtime after do_balance_runtime for c; after[i]: once the loop has
\* passed the CPUs below i.
do_balance_runtime(c) ==
  LET after[i \in 0 .. NCpus] == IF i = 0 THEN [runtime |-> rt_runtime, full |-> FALSE]
                                 ELSE BorrowFrom(after[i - 1], i - 1, c)
  IN  after[NCpus].runtime

-----------------------------------------------------------------------------
(* RT tasks come, run and go.                                              *)

\* start_rt_bandwidth by an enqueue on c: nothing if the timer is active,
\* and a timer that runs its callback is.
start_rt_bandwidth(c) ==
  IF ~rt_bandwidth_enabled \/ b_runtime = RUNTIME_INF
  THEN unstarted' = unstarted \cup {c} /\ UNCHANGED timer
  ELSE IF timer.state = "off" THEN timer' = TimerArmed /\ unstarted' = {}
  ELSE /\ unstarted' = IF timer.state = "running" /\ timer.at > c THEN unstarted \cup {c}
                       ELSE unstarted
       /\ UNCHANGED timer

\* inc_rt_tasks, with inc_rt_group.
Enqueue(c) ==
  /\ c \in OnlineCpus /\ held[c] = "no" /\ rt_nr_running[c] = 0
  /\ rt_nr_running' = [rt_nr_running EXCEPT ![c] = 1]
  /\ start_rt_bandwidth(c)
  /\ UNCHANGED << rt_runtime, rt_time, rt_throttled, held, sysctlVars, cpu, wanting, mixed,
                  reclaimed >>

Dequeue(c) ==
  /\ c \in OnlineCpus /\ held[c] = "no" /\ rt_nr_running[c] = 1
  /\ rt_nr_running' = [rt_nr_running EXCEPT ![c] = 0]
  /\ unstarted' = IF rt_throttled[c] THEN unstarted ELSE unstarted \ {c}
  /\ UNCHANGED << rt_runtime, rt_time, rt_throttled, held, sysctlVars, timer, cpu, wanting,
                  mixed, reclaimed >>

\* update_curr_rt while an RT task runs, and sched_rt_runtime_exceeded up to
\* the lock that balance_runtime takes.
update_curr_rt(c) ==
  /\ held[c] = "no" /\ c \in OnlineCpus
  /\ rt_nr_running[c] > 0 /\ ~rt_throttled[c]
  /\ rt_bandwidth_enabled /\ rt_runtime[c] # RUNTIME_INF
  /\ rt_time[c] < MaxTime
  /\ rt_time' = [rt_time EXCEPT ![c] = @ + 1]
  /\ held' = [held EXCEPT ![c] =
       IF rt_runtime[c] >= Period THEN "no"
       ELSE IF rt_time'[c] > rt_runtime[c] THEN "balance" ELSE "no"]
  /\ reclaimed' = reclaimed \ {c}
  /\ UNCHANGED << rt_runtime, rt_throttled, rt_nr_running, sysctlVars, timer, cpu, wanting,
                  mixed, unstarted >>

\* do_balance_runtime, from the tick or from the timer.
BalanceRuntime(c) ==
  /\ held[c] \in {"balance", "timer balance"}
  /\ rt_runtime' = do_balance_runtime(c)
  /\ held' = [held EXCEPT ![c] = IF @ = "balance" THEN "throttle" ELSE "refill"]
  /\ UNCHANGED << rt_time, rt_throttled, rt_nr_running, sysctlVars, timer, cpu, wanting, history >>

\* The rest of sched_rt_runtime_exceeded.
Throttle(c) ==
  /\ held[c] = "throttle"
  /\ held' = [held EXCEPT ![c] = "no"]
  /\ LET over == rt_runtime[c] # RUNTIME_INF /\ rt_time[c] > rt_runtime[c] IN
     /\ rt_throttled' = [rt_throttled EXCEPT ![c] = over /\ b_runtime # 0]
     /\ rt_time' = [rt_time EXCEPT ![c] = IF over /\ b_runtime = 0 THEN 0 ELSE @]
  /\ UNCHANGED << rt_runtime, rt_nr_running, sysctlVars, timer, cpu, wanting, history >>

-----------------------------------------------------------------------------
(* The period timer.                                                       *)

TimerExpires(n) ==
  /\ timer.state = "armed"
  /\ timer' = [TimerArmed EXCEPT !.state = "running", !.overrun = n]
  /\ UNCHANGED << rtVars, held, sysctlVars, cpu, wanting, history >>

\* The callback has done with a CPU.
Passed(c, busy) ==
  timer' = [timer EXCEPT !.at = @ + 1, !.idle = @ /\ ~busy,
                         !.throttled = @ \/ rt_throttled'[c]]

\* Mutant: a CPU that has tasks and has used nothing lets the timer stop.
TimerVisits_NoTasks(c) ==
  /\ timer.state = "running" /\ timer.at = c
  /\ held[c] = "no"
  /\ UNCHANGED << rtVars, sysctlVars, cpu, wanting, history >>
  /\ IF c \notin OnlineCpus THEN timer' = [timer EXCEPT !.at = @ + 1] /\ UNCHANGED held
     ELSE IF rt_time[c] = 0 THEN Passed(c, FALSE) /\ UNCHANGED held
     ELSE /\ held' = [held EXCEPT ![c] =
               IF rt_throttled[c] /\ rt_time[c] > rt_runtime[c] THEN "timer balance" ELSE "refill"]
          /\ UNCHANGED timer

\* The callback takes rq->lock of the next CPU.
TimerVisits(c) ==
  /\ timer.state = "running" /\ timer.at = c
  /\ held[c] = "no"
  /\ UNCHANGED << rtVars, sysctlVars, cpu, wanting, history >>
  /\ IF c \notin OnlineCpus THEN timer' = [timer EXCEPT !.at = @ + 1] /\ UNCHANGED held
     ELSE IF rt_time[c] = 0 THEN Passed(c, rt_nr_running[c] > 0) /\ UNCHANGED held
     ELSE /\ held' = [held EXCEPT ![c] =
               IF rt_throttled[c] /\ rt_time[c] > rt_runtime[c] THEN "timer balance" ELSE "refill"]
          /\ UNCHANGED timer

\* Mutant: refilled and not let run.
Refill_Throttled(c) ==
  /\ held[c] = "refill"
  /\ held' = [held EXCEPT ![c] = "no"]
  /\ rt_time' = [rt_time EXCEPT ![c] = @ - Min({@, (timer.overrun * rt_runtime[c]) % U64})]
  /\ UNCHANGED rt_throttled
  /\ Passed(c, rt_time'[c] > 0 \/ rt_nr_running[c] > 0)
  /\ UNCHANGED << rt_runtime, rt_nr_running, sysctlVars, cpu, wanting, history >>

\* The rest of the visit.
Refill(c) ==
  /\ held[c] = "refill"
  /\ held' = [held EXCEPT ![c] = "no"]
  /\ rt_time' = [rt_time EXCEPT ![c] = @ - Min({@, (timer.overrun * rt_runtime[c]) % U64})]
  /\ rt_throttled' = [rt_throttled EXCEPT ![c] = @ /\ rt_time'[c] >= rt_runtime[c]]
  /\ Passed(c, rt_time'[c] > 0 \/ rt_nr_running[c] > 0)
  /\ UNCHANGED << rt_runtime, rt_nr_running, sysctlVars, cpu, wanting, history >>

\* The callback is over, and says whether the timer goes on.
TimerReturns ==
  /\ timer.state = "running" /\ timer.at = NCpus
  /\ LET off == ~timer.throttled /\ (~rt_bandwidth_enabled \/ b_runtime = RUNTIME_INF) IN
     IF off \/ timer.idle
     THEN /\ timer' = TimerOff
          /\ unstarted' = unstarted \cup
              (IF off THEN {c \in Cpus : rt_nr_running[c] > 0 \/ rt_throttled[c]} ELSE {})
     ELSE timer' = TimerArmed /\ unstarted' = {}
  /\ UNCHANGED << rtVars, held, sysctlVars, cpu, wanting, mixed, reclaimed >>

-----------------------------------------------------------------------------
(* sched_rt_handler, in its mutex.                                         *)

\* proc_dointvec.
SysctlWrite(v) ==
  /\ writer.at = "no" /\ writes < MaxWrites
  /\ sysctl' = v
  /\ writer' = [at |-> "constraints", old |-> sysctl] /\ writes' = writes + 1
  /\ UNCHANGED << rtVars, held, b_runtime, timer, cpu, wanting, history >>

\* sched_rt_global_constraints; it does not compare with the period.
SysctlConstraints ==
  /\ writer.at = "constraints"
  /\ \A c \in Cpus : held[c] # "stuck"
  /\ IF sysctl = 0
     THEN /\ sysctl' = writer.old
          /\ writer' = [writer EXCEPT !.at = "no"]
          /\ UNCHANGED << rt_runtime, mixed, reclaimed >>
     ELSE /\ rt_runtime' = [c \in Cpus |-> global_rt_runtime(sysctl)]
          /\ mixed' = \E c \in Cpus : cpu[c] # "up"
          /\ reclaimed' = {c \in Cpus : rt_time[c] > rt_runtime'[c]}
          /\ writer' = [writer EXCEPT !.at = "store"]
          /\ UNCHANGED sysctl
  /\ UNCHANGED << rt_time, rt_throttled, rt_nr_running, held, b_runtime, writes, timer, cpu,
                  wanting, unstarted >>

\* def_rt_bandwidth.rt_runtime is written, without its lock.
SysctlStore ==
  /\ writer.at = "store"
  /\ b_runtime' = global_rt_runtime(sysctl)
  /\ writer' = [writer EXCEPT !.at = "no"]
  /\ UNCHANGED << rtVars, held, sysctl, writes, timer, cpu, wanting, history >>

-----------------------------------------------------------------------------
(* CPU hotplug: update_runtime, migration_call and set_rq_online/offline.  *)

\* Mutant: only what is owed to c is taken back, not what it owes.
TakeBack_NoReturn(b, i, c) ==
  LET part == IF b.want > 0 THEN Min({S64(b.runtime[i]), b.want}) ELSE 0 IN
  IF b.want = 0 \/ i = c \/ b.runtime[i] = RUNTIME_INF THEN b
  ELSE [runtime |-> [b.runtime EXCEPT ![i] = (@ - part) % U64],
        want |-> IF b.want > 0 THEN b.want - part ELSE 0]

\* One pass of the loop of __disable_runtime: c takes back from CPU i, or
\* returns to it.
TakeBack(b, i, c) ==
  LET part == IF b.want > 0 THEN Min({S64(b.runtime[i]), b.want}) ELSE b.want IN
  IF b.want = 0 \/ i = c \/ b.runtime[i] = RUNTIME_INF THEN b
  ELSE [runtime |-> [b.runtime EXCEPT ![i] = (@ - part) % U64], want |-> b.want - part]

\* That loop: the runtimes, and what is left wanting.
disable_runtime(c) ==
  LET after[i \in 0 .. NCpus] ==
        IF i = 0 THEN [runtime |-> rt_runtime, want |-> S64(b_runtime - rt_runtime[c])]
        ELSE TakeBack(after[i - 1], i - 1, c)
  IN  IF rt_runtime[c] \in {RUNTIME_INF, b_runtime} THEN [runtime |-> rt_runtime, want |-> 0]
      ELSE after[NCpus]

\* __disable_runtime.
Disable(c) ==
  LET d == disable_runtime(c) IN
  /\ rt_runtime' = [d.runtime EXCEPT ![c] = RUNTIME_INF]
  /\ wanting' = (d.want # 0)
  /\ held' = IF wanting' THEN [e \in Cpus |-> "stuck"] ELSE held
  /\ reclaimed' = reclaimed \cup {e \in Cpus \ {c} :
                     d.runtime[e] # rt_runtime[e] /\ rt_time[e] > d.runtime[e]}

\* __enable_runtime.
Enable(c) ==
  /\ rt_runtime' = [rt_runtime EXCEPT ![c] = b_runtime]
  /\ rt_time' = [rt_time EXCEPT ![c] = 0]
  /\ rt_throttled' = [rt_throttled EXCEPT ![c] = FALSE]
  /\ mixed' = (mixed \/ writer.at = "store" \/ rt_runtime[c] \notin {RUNTIME_INF, b_runtime})

Alone(c) == \A d \in Cpus \ {c} : cpu[d] \in {"up", "dead"}

\* CPU_DOWN_PREPARE: not the last one.
DownPrepare(c) ==
  /\ cpu[c] = "up" /\ Alone(c) /\ OnlineCpus # {c}
  /\ held[c] = "no"
  /\ Disable(c)
  /\ mixed' = (mixed \/ writer.at = "store")
  /\ cpu' = [cpu EXCEPT ![c] = "down"]
  /\ UNCHANGED << rt_time, rt_throttled, rt_nr_running, sysctlVars, timer, unstarted >>

\* CPU_DOWN_FAILED.
DownFailed(c) ==
  /\ cpu[c] = "down" /\ held[c] = "no"
  /\ Enable(c)
  /\ cpu' = [cpu EXCEPT ![c] = "up"]
  /\ UNCHANGED << rt_nr_running, held, sysctlVars, timer, wanting, reclaimed, unstarted >>

\* CPU_DYING, under stop_machine: set_rq_offline, and migrate_tasks, which
\* picks the tasks that it moves to d.
Dying(c, d) ==
  /\ cpu[c] = "down" /\ cpu[d] = "up"
  /\ \A e \in Cpus : held[e] = "no"
  /\ timer.state # "running"
  /\ rt_nr_running[c] = 0 \/ ~rt_throttled[c]
  /\ Disable(c)
  /\ mixed' = (mixed \/ writer.at = "store")
  /\ cpu' = [cpu EXCEPT ![c] = "dead"]
  /\ IF rt_nr_running[c] > 0 /\ rt_nr_running[d] = 0
     THEN /\ rt_nr_running' = [rt_nr_running EXCEPT ![c] = 0, ![d] = 1]
          /\ start_rt_bandwidth(d)
     ELSE /\ rt_nr_running' = [rt_nr_running EXCEPT ![c] = 0]
          /\ UNCHANGED << timer, unstarted >>
  /\ UNCHANGED << rt_time, rt_throttled, sysctlVars >>

\* The same with a throttled rt_rq: __disable_runtime leaves rt_throttled,
\* _pick_next_task_rt picks none of its tasks, and the loop of migrate_tasks
\* does not end.
DyingStuck(c) ==
  /\ cpu[c] = "down" /\ Alone(c)
  /\ \A e \in Cpus : held[e] = "no"
  /\ timer.state # "running"
  /\ rt_nr_running[c] > 0 /\ rt_throttled[c]
  /\ cpu' = [cpu EXCEPT ![c] = "stuck"]
  /\ held' = [e \in Cpus |-> "stuck"]
  /\ UNCHANGED << rtVars, sysctlVars, timer, wanting, history >>

\* The CPU is online and no notifier of CPU_ONLINE has been called.
CpuUp(c) ==
  /\ cpu[c] = "dead" /\ Alone(c)
  /\ cpu' = [cpu EXCEPT ![c] = "online"]
  /\ UNCHANGED << rtVars, held, sysctlVars, timer, wanting, history >>

\* CPU_ONLINE: migration_call resets the CPU, and update_runtime after it.
Online(c) ==
  /\ cpu[c] \in {"online", "online again"} /\ held[c] = "no"
  /\ Enable(c)
  /\ cpu' = [cpu EXCEPT ![c] = IF @ = "online" THEN "online again" ELSE "up"]
  /\ UNCHANGED << rt_nr_running, held, sysctlVars, timer, wanting, reclaimed, unstarted >>

-----------------------------------------------------------------------------
Next ==
  \/ \E c \in Cpus :
       \/ Enqueue(c) \/ Dequeue(c)
       \/ update_curr_rt(c) \/ BalanceRuntime(c) \/ Throttle(c)
       \/ TimerVisits(c) \/ Refill(c)
       \/ DownPrepare(c) \/ DownFailed(c) \/ CpuUp(c) \/ Online(c) \/ DyingStuck(c)
       \/ \E d \in Cpus : Dying(c, d)
  \/ \E n \in 1 .. MaxOverrun : TimerExpires(n)
  \/ TimerReturns
  \/ \E v \in Runtimes : SysctlWrite(v)
  \/ SysctlConstraints \/ SysctlStore

Spec == Init /\ [][Next]_vars

\* The callback of the timer.
TimerRuns ==
  \/ \E n \in 1 .. MaxOverrun : TimerExpires(n)
  \/ \E c \in Cpus : TimerVisits(c) \/ Refill(c) \/ (held[c] = "timer balance" /\ BalanceRuntime(c))
  \/ TimerReturns

\* The timer expires and its callback goes on, for a CPU does not hold its
\* rq->lock whenever the callback asks for it, and critical sections end.
Fairness ==
  /\ SF_vars(TimerRuns)
  /\ \A c \in Cpus : WF_vars((held[c] = "balance" /\ BalanceRuntime(c)) \/ Throttle(c))

FairSpec == Spec /\ Fairness

-----------------------------------------------------------------------------
(* Properties.                                                             *)

\* Every variable keeps its type.
TypeOK ==
  /\ rt_runtime \in [Cpus -> 0 .. U64 - 1] /\ rt_time \in [Cpus -> 0 .. MaxTime]
  /\ rt_throttled \in [Cpus -> BOOLEAN] /\ rt_nr_running \in [Cpus -> 0 .. 1]
  /\ held \in [Cpus -> {"no", "balance", "throttle", "timer balance", "refill", "stuck"}]
  /\ b_runtime \in 0 .. U64 - 1 /\ sysctl \in Int
  /\ writer \in [at : {"no", "constraints", "store"}, old : Int] /\ writes \in 0 .. MaxWrites
  /\ timer \in [state : {"off", "armed", "running"}, at : 0 .. NCpus, overrun : Nat,
                idle : BOOLEAN, throttled : BOOLEAN]
  /\ cpu \in [Cpus -> {"up", "down", "dead", "online", "online again", "stuck"}]
  /\ wanting \in BOOLEAN /\ mixed \in BOOLEAN
  /\ reclaimed \subseteq Cpus /\ unstarted \subseteq Cpus

Enabled == {c \in Cpus : cpu[c] \in {"up", "online again"}}
Total(S) == SumFunctionOnSet(rt_runtime, S)

\* Borrowing and hotplug move runtime between CPUs and neither make nor lose
\* any, unless a CPU was reset twice or amid a write of the sysctl.
RuntimeConserved ==
  ~mixed /\ writer.at # "store" =>
    IF b_runtime = RUNTIME_INF THEN \A c \in Cpus : rt_runtime[c] = RUNTIME_INF
    ELSE /\ Total(Enabled) = Cardinality(Enabled) * b_runtime
         /\ \A c \in Cpus \ Enabled : rt_runtime[c] = RUNTIME_INF

\* Values within their widths, and a total that balances.
Consistent == TypeOK /\ RuntimeConserved

\* "We cannot be left wanting" (rt.c:677-681) needs such a reset.
OnlyResetsLeaveWanting == wanting => mixed

\* What the comment at rt.c:677-681 says: __disable_runtime takes back all.
NeverLeftWanting == ~wanting

\* No CPU runs RT tasks past its runtime, although others borrow of it between
\* its checks: only a CPU that went down, or a write, has cut it since; or else
\* a reset amid a write has left RUNTIME_INF where runtime is borrowed.
OnlyReclaimedOverrun ==
  \A c \in OnlineCpus : held[c] = "no" /\ ~rt_throttled[c] /\ rt_runtime[c] < Period =>
    rt_time[c] <= rt_runtime[c] \/ c \in reclaimed \/ mixed

\* While RT tasks are queued or throttled the timer goes on, unless they were
\* queued, or the timer stopped, while there was no limit, or they were queued
\* while a callback that had passed them was about to stop it
\* (start_rt_bandwidth asks hrtimer_active).
TimerRunsUnlessMissed ==
  timer.state = "off" /\ b_runtime # RUNTIME_INF /\ rt_bandwidth_enabled /\ writer.at = "no" =>
    \A c \in OnlineCpus : cpu[c] # "online" =>
      (rt_nr_running[c] > 0 \/ rt_throttled[c] => c \in unstarted)

\* Who is throttled while the timer is started will be let run, while no
\* runtime has leaked: an overflow past RUNTIME_INF can leave a CPU with none.
ThrottledIsReleased ==
  \A c \in Cpus : rt_throttled[c] /\ timer.state = "armed" ~>
    ~rt_throttled[c] \/ cpu[c] = "dead" \/ held[c] = "stuck" \/ mixed
=============================================================================
