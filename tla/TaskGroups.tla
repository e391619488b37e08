----------------------------- MODULE TaskGroups -----------------------------
(***************************************************************************)
(* The tree of task groups and the bandwidth its groups are given:         *)
(* kernel/sched/core.c with CONFIG_RT_GROUP_SCHED and CONFIG_CFS_BANDWIDTH *)
(* (module RtBandwidth models the kernel without groups).                  *)
(*                                                                         *)
(* A write to a file of a group is two steps: the handler reads the half   *)
(* of the pair (period, runtime) that is not being written, without a      *)
(* lock; then the pair is checked against the whole tree and stored, under *)
(* rt_constraints_mutex or cfs_constraints_mutex.  A write to the sysctls  *)
(* is three: the value is stored, checked, and put back if refused; only   *)
(* the check holds rt_constraints_mutex.  NSEC_PER_USEC is 1 here.         *)
(***************************************************************************)
EXTENDS Integers, FiniteSets, Functions

CONSTANTS
  Groups, Root, None,
  Tasks,
  Writers,              \* processes that write to files of groups
  Periods, Runtimes,    \* what they write to rt_period_us and rt_runtime_us
  CfsPeriods, Quotas,   \* what they write to cfs_period_us and cfs_quota_us
  SysPeriods, SysRuntimes,    \* what is written to the two sysctls
  DefaultPeriod, DefaultRuntime,    \* the sysctls at boot
  DefaultCfsPeriod,
  MinCfs, MaxCfs,       \* min_cfs_quota_period, max_cfs_quota_period
  FULL,                 \* 1 << 20, the ratio of the whole CPU
  U64,                  \* 2^64
  MaxWrites             \* bounds the writes to files of groups

ASSUME TaskGroupsAssumption ==
  /\ IsFiniteSet(Groups) /\ Root \in Groups /\ None \notin Groups
  /\ Periods \subseteq Nat \ {0} /\ CfsPeriods \subseteq Nat
  /\ Runtimes \subseteq Int /\ Quotas \subseteq Int /\ SysRuntimes \subseteq Int
  /\ \A v \in Runtimes \cup Quotas \cup SysRuntimes : v < U64
  /\ SysPeriods \subseteq Nat    \* it is unsigned (core.c:280)
  /\ DefaultPeriod \in 1 .. (U64 - 1) /\ DefaultRuntime \in 1 .. DefaultPeriod
  /\ MinCfs \in Nat \ {0} /\ MaxCfs \in Nat /\ DefaultCfsPeriod \in MinCfs .. MaxCfs
  /\ FULL \in Nat \ {0, 1} /\ U64 \in Nat /\ \E n \in 1 .. U64 : U64 = FULL * n
  /\ MaxWrites \in Nat

VARIABLES
  parent,       \* [Groups -> Groups \cup {None}], None: the group does not exist
  rt,           \* tg->rt_bandwidth of each group
  cfs,          \* tg->cfs_bandwidth
  task,         \* each task's group, whether its policy is real-time, whether
                \* a mutex lends it a real-time priority, and the group that
                \* sched_rt_can_attach has let it into
  writer,       \* what each writer is about to check and store
  sysctl,       \* sysctl_sched_rt_period, sysctl_sched_rt_runtime
  def_period,   \* def_rt_bandwidth.rt_period
  handler,      \* the process in sched_rt_handler
  writes,       \* how many writes to files of groups have begun
  oops,         \* a division by zero
  slipped,      \* history: the last accepted write was checked against sysctls
                \* that were refused later
  overtaken     \* history: the tasks that sched_rt_can_attach would no longer
                \* let into the group they are on their way to

treeVars == << parent, rt, cfs >>
sysctlVars == << sysctl, def_period, handler >>
history == << slipped, overtaken >>
vars == << parent, rt, cfs, task, writer, sysctl, def_period, handler, writes, oops,
           slipped, overtaken >>

RUNTIME_INF == U64 - 1
ToRuntime(v) == IF v < 0 THEN RUNTIME_INF ELSE v

Live == {g \in Groups : g = Root \/ parent[g] # None}
Children(t) == {g \in Live : g # Root /\ parent[g] = t}

NoWrite == [file |-> "none", tg |-> Root, period |-> 0, runtime |-> 0]
NoHandler == [at |-> "no", period |-> 0, runtime |-> 0, passed |-> FALSE]

Init ==
  /\ parent = [g \in Groups |-> None]
  /\ rt = [g \in Groups |-> [period  |-> DefaultPeriod,
                             runtime |-> IF g = Root THEN DefaultRuntime ELSE 0]]
  /\ cfs = [g \in Groups |-> [period |-> DefaultCfsPeriod, runtime |-> RUNTIME_INF]]
  /\ task = [p \in Tasks |-> [group |-> Root, policy |-> FALSE, boosted |-> FALSE,
                             target |-> None]]
  /\ writer = [w \in Writers |-> NoWrite]
  /\ sysctl = [period |-> DefaultPeriod, runtime |-> DefaultRuntime]
  /\ def_period = DefaultPeriod
  /\ handler = NoHandler
  /\ writes = 0
  /\ oops = FALSE
  /\ slipped = FALSE
  /\ overtaken = {}

-----------------------------------------------------------------------------
(* The tree.  The cgroup core removes a group only when it has neither     *)
(* tasks nor children nor open files, and holds one mutex while it makes   *)
(* or removes a group and while it moves a task.                           *)

Moving == \E p \in Tasks : task[p].target # None

cpu_cgroup_create(g, p) ==
  /\ g \notin Live /\ p \in Live /\ ~Moving
  /\ parent' = [parent EXCEPT ![g] = p]
  /\ rt' = [rt EXCEPT ![g] = [period |-> def_period, runtime |-> 0]]
  /\ cfs' = [cfs EXCEPT ![g] = [period |-> DefaultCfsPeriod, runtime |-> RUNTIME_INF]]
  /\ UNCHANGED << task, writer, sysctlVars, writes, oops, history >>

InUse(g) ==
  \/ Children(g) # {}
  \/ \E p \in Tasks : task[p].group = g
  \/ \E w \in Writers : writer[w].file # "none" /\ writer[w].tg = g

cpu_cgroup_destroy(g) ==
  /\ g \in Live \ {Root} /\ ~InUse(g) /\ ~Moving
  /\ parent' = [parent EXCEPT ![g] = None]
  /\ UNCHANGED << rt, cfs, task, writer, sysctlVars, writes, oops, history >>

-----------------------------------------------------------------------------
(* Can the bandwidths bw, by group, be had at once?                        *)

to_ratio(period, runtime) ==
  IF runtime = RUNTIME_INF THEN FULL ELSE ((runtime * FULL) % U64) \div period

Ratio(bw, g) == to_ratio(bw[g].period, bw[g].runtime)
SumOfChildren(bw, t) == SumFunctionOnSet([g \in Groups |-> Ratio(bw, g)], Children(t))

rt_bandwidth_enabled == sysctl.runtime >= 0
GlobalRatio == to_ratio(sysctl.period, ToRuntime(sysctl.runtime))

rt_task(p) == task[p].policy \/ task[p].boosted

\* Mutant: no group is looked at.
tg_has_rt_tasks_Never(t) == FALSE

\* The code compares t with the group of the run queue's own rt_rq, which is
\* the root, and not with the group of the task.
tg_has_rt_tasks(t) == t = Root /\ \E p \in Tasks : rt_task(p)

\* tg_rt_schedulable to its first division.
Sane(bw, t) ==
  /\ bw[t].runtime <= bw[t].period \/ bw[t].runtime = RUNTIME_INF
  /\ ~(rt_bandwidth_enabled /\ bw[t].runtime = 0 /\ tg_has_rt_tasks(t))

\* The root is visited first, and there is no visit after a refusal.
DividesByZero(bw) == Sane(bw, Root) /\ rt_bandwidth_enabled /\ sysctl.period = 0

\* Mutant: the children are not summed up.
tg_rt_schedulable_NoSum(bw, t) == Sane(bw, t) /\ Ratio(bw, t) <= GlobalRatio

tg_rt_schedulable(bw, t) ==
  /\ Sane(bw, t)
  /\ Ratio(bw, t) <= GlobalRatio
  /\ SumOfChildren(bw, t) <= Ratio(bw, t)

__rt_schedulable(bw) == \A t \in Live : tg_rt_schedulable(bw, t)

-----------------------------------------------------------------------------
(* Writes to rt_runtime_us and rt_period_us.                               *)

Begin(w, file, g, period, runtime) ==
  /\ writer[w] = NoWrite /\ g \in Live
  /\ writes < MaxWrites
  /\ writes' = writes + 1
  /\ writer' = [writer EXCEPT ![w] = [file |-> file, tg |-> g, period |-> period,
                                      runtime |-> runtime]]
  /\ UNCHANGED << treeVars, task, sysctlVars, oops, history >>

sched_group_set_rt_runtime(w, g, v) == Begin(w, "rt", g, rt[g].period, ToRuntime(v))
sched_group_set_rt_period(w, g, v)  == Begin(w, "rt", g, v, rt[g].runtime)

Asked(x, bw) == [bw EXCEPT ![x.tg] = [period |-> x.period, runtime |-> x.runtime]]

tg_set_rt_bandwidth(w) ==
  LET x  == writer[w]
      bw == Asked(x, rt)
  IN  /\ x.file = "rt"
      /\ writer' = [writer EXCEPT ![w] = NoWrite]
      /\ \/ /\ DividesByZero(bw)
            /\ oops' = TRUE
            /\ UNCHANGED << rt, handler, history >>
         \/ /\ ~DividesByZero(bw) /\ ~__rt_schedulable(bw)
            /\ UNCHANGED << rt, handler, history, oops >>
         \/ /\ ~DividesByZero(bw) /\ __rt_schedulable(bw)
            /\ rt' = bw
            /\ handler' = [handler EXCEPT !.passed = handler.at # "no"]
            /\ overtaken' = IF x.runtime = 0
                              THEN overtaken \cup {p \in Tasks : task[p].target = x.tg}
                              ELSE overtaken
            /\ slipped' = (slipped /\ handler.at # "no")
            /\ UNCHANGED oops
      /\ UNCHANGED << parent, cfs, task, sysctl, def_period, writes >>

-----------------------------------------------------------------------------
(* Writes to sched_rt_period_us and sched_rt_runtime_us: sched_rt_handler  *)

sched_rt_handler(period, runtime) ==
  /\ handler.at = "no"
  /\ << period, runtime >> # << sysctl.period, sysctl.runtime >>
  /\ handler' = [at |-> "check", period |-> sysctl.period, runtime |-> sysctl.runtime,
                 passed |-> FALSE]
  /\ sysctl' = [period |-> period, runtime |-> runtime]
  /\ UNCHANGED << treeVars, task, writer, def_period, writes, oops, history >>

GlobalSane ==
  LET runtime == ToRuntime(sysctl.runtime)
  IN  sysctl.period > 0 /\ (runtime <= sysctl.period \/ runtime = RUNTIME_INF)

\* Mutant: the groups are not checked against the new limit.
sched_rt_global_constraints_Unwalked ==
  /\ handler.at = "check"
  /\ handler' = [handler EXCEPT !.at = IF GlobalSane THEN "store" ELSE "restore"]
  /\ UNCHANGED << treeVars, task, writer, sysctl, def_period, writes, oops, history >>

sched_rt_global_constraints ==
  /\ handler.at = "check"
  /\ handler' = [handler EXCEPT !.at = IF GlobalSane /\ __rt_schedulable(rt) THEN "store"
                                                                             ELSE "restore"]
  /\ UNCHANGED << treeVars, task, writer, sysctl, def_period, writes, oops, history >>

SysctlStore ==
  /\ handler.at = "store"
  /\ def_period' = sysctl.period
  /\ handler' = NoHandler
  /\ slipped' = FALSE
  /\ UNCHANGED << treeVars, task, writer, sysctl, writes, oops, overtaken >>

\* Mutant: the period is not put back.
SysctlRestore_KeepsPeriod ==
  /\ handler.at = "restore"
  /\ sysctl' = [sysctl EXCEPT !.runtime = handler.runtime]
  /\ slipped' = (slipped \/ handler.passed)
  /\ handler' = NoHandler
  /\ UNCHANGED << treeVars, task, writer, def_period, writes, oops, overtaken >>

SysctlRestore ==
  /\ handler.at = "restore"
  /\ sysctl' = [period |-> handler.period, runtime |-> handler.runtime]
  /\ slipped' = (slipped \/ handler.passed)
  /\ handler' = NoHandler
  /\ UNCHANGED << treeVars, task, writer, def_period, writes, oops, overtaken >>

-----------------------------------------------------------------------------
(* Writes to cfs_quota_us and cfs_period_us.                               *)

tg_set_cfs_quota(w, g, v)  == Begin(w, "cfs", g, cfs[g].period, ToRuntime(v))
tg_set_cfs_period(w, g, v) == Begin(w, "cfs", g, v, cfs[g].runtime)

\* Mutant: what binds the parent is not passed on to an unlimited group.
Hierarchal_NotInherited(bw) ==
  [t \in Live |-> IF t = Root \/ bw[t].runtime = RUNTIME_INF THEN RUNTIME_INF
                                                             ELSE Ratio(bw, t)]

\* The quota that binds a group, its own or inherited: hierarchal_quota, which
\* each walk computes anew, parents first.
Hierarchal(bw) ==
  LET quota[t \in Live] == IF t = Root THEN RUNTIME_INF
                           ELSE IF bw[t].runtime = RUNTIME_INF THEN quota[parent[t]]
                           ELSE Ratio(bw, t)
  IN  quota

tg_cfs_schedulable_down(bw, t) ==
  LET above == Hierarchal(bw)[parent[t]]
  IN  bw[t].runtime = RUNTIME_INF \/ above = RUNTIME_INF \/ Ratio(bw, t) <= above

__cfs_schedulable(bw) == \A t \in Live \ {Root} : tg_cfs_schedulable_down(bw, t)

\* Mutant: the groups below are not looked at.
tg_set_cfs_bandwidth_OwnOnly(w) ==
  LET x  == writer[w]
      bw == Asked(x, cfs)
      ok == /\ x.tg # Root
            /\ x.runtime >= MinCfs /\ x.period \in MinCfs .. MaxCfs
            /\ tg_cfs_schedulable_down(bw, x.tg)
  IN  /\ x.file = "cfs"
      /\ writer' = [writer EXCEPT ![w] = NoWrite]
      /\ cfs' = IF ok THEN bw ELSE cfs
      /\ UNCHANGED << parent, rt, task, sysctlVars, writes, oops, history >>

tg_set_cfs_bandwidth(w) ==
  LET x  == writer[w]
      bw == Asked(x, cfs)
      ok == /\ x.tg # Root
            /\ x.runtime >= MinCfs /\ x.period \in MinCfs .. MaxCfs
            /\ __cfs_schedulable(bw)
  IN  /\ x.file = "cfs"
      /\ writer' = [writer EXCEPT ![w] = NoWrite]
      /\ cfs' = IF ok THEN bw ELSE cfs
      /\ UNCHANGED << parent, rt, task, sysctlVars, writes, oops, history >>

-----------------------------------------------------------------------------
(* Tasks become and cease to be real-time, and move.                       *)

__setscheduler(p, policy, boosted) ==
  LET to == task[p].target
  IN  /\ task' = [task EXCEPT ![p].policy = policy, ![p].boosted = boosted]
      /\ overtaken' = IF (policy \/ boosted) /\ to # None /\ rt[to].runtime = 0
                        THEN overtaken \cup {p} ELSE overtaken
      /\ UNCHANGED << treeVars, writer, sysctlVars, writes, oops, slipped >>

\* Mutant: the runtime of the group is not looked at.
sched_setscheduler_Untested(p, real) ==
  /\ task[p].policy # real
  /\ __setscheduler(p, real, task[p].boosted)

sched_setscheduler(p, real) ==
  /\ task[p].policy # real
  /\ real /\ rt_bandwidth_enabled => rt[task[p].group].runtime # 0
  /\ __setscheduler(p, real, task[p].boosted)

\* A boost, which has no such test, or its end.
rt_mutex_setprio(p) == __setscheduler(p, task[p].policy, ~task[p].boosted)

\* Mutant: the runtime of the group is not looked at.
sched_rt_can_attach_Any(p, g) == TRUE

sched_rt_can_attach(p, g) == rt_task(p) => rt[g].runtime # 0

cpu_cgroup_can_attach(p, g) ==
  /\ ~Moving
  /\ g \in Live \ {task[p].group}
  /\ sched_rt_can_attach(p, g)
  /\ task' = [task EXCEPT ![p].target = g]
  /\ UNCHANGED << treeVars, writer, sysctlVars, writes, oops, history >>

cpu_cgroup_attach(p) ==
  /\ task[p].target # None
  /\ task' = [task EXCEPT ![p].group = task[p].target, ![p].target = None]
  /\ overtaken' = overtaken \ {p}
  /\ UNCHANGED << treeVars, writer, sysctlVars, writes, oops, slipped >>

-----------------------------------------------------------------------------
Next ==
  \/ \E g \in Groups : cpu_cgroup_destroy(g) \/ \E p \in Groups : cpu_cgroup_create(g, p)
  \/ \E w \in Writers :
       \/ tg_set_rt_bandwidth(w)
       \/ tg_set_cfs_bandwidth(w)
       \/ \E g \in Groups :
            \/ \E v \in Runtimes   : sched_group_set_rt_runtime(w, g, v)
            \/ \E v \in Periods    : sched_group_set_rt_period(w, g, v)
            \/ \E v \in Quotas     : tg_set_cfs_quota(w, g, v)
            \/ \E v \in CfsPeriods : tg_set_cfs_period(w, g, v)
  \/ \E period \in SysPeriods : sched_rt_handler(period, sysctl.runtime)
  \/ \E runtime \in SysRuntimes : sched_rt_handler(sysctl.period, runtime)
  \/ sched_rt_global_constraints
  \/ SysctlStore
  \/ SysctlRestore
  \/ \E p \in Tasks :
       \/ \E real \in BOOLEAN : sched_setscheduler(p, real)
       \/ rt_mutex_setprio(p)
       \/ \E g \in Groups : cpu_cgroup_can_attach(p, g)
       \/ cpu_cgroup_attach(p)

Spec == Init /\ [][Next]_vars

-----------------------------------------------------------------------------
Bandwidth == [period : Nat, runtime : 0 .. RUNTIME_INF]

\* The variables keep their types, the groups are a tree below Root, and the
\* period of a group is never 0.
TypeOK ==
  /\ parent \in [Groups -> Groups \cup {None}]
  /\ parent[Root] = None
  /\ \A g \in Live \ {Root} : parent[g] \in Live \ {g}
  /\ rt \in [Groups -> Bandwidth] /\ cfs \in [Groups -> Bandwidth]
  /\ \A g \in Groups : rt[g].period # 0 /\ cfs[g].period \in MinCfs .. MaxCfs
  /\ task \in [Tasks -> [group : Live, policy : BOOLEAN, boosted : BOOLEAN,
                      target : Live \cup {None}]]
  /\ writer \in [Writers -> [file : {"none", "rt", "cfs"}, tg : Live,
                             period : Nat, runtime : 0 .. RUNTIME_INF]]
  /\ sysctl \in [period : Nat, runtime : Int]
  /\ def_period \in Nat \ {0}
  /\ handler \in [at : {"no", "check", "store", "restore"}, period : Nat, runtime : Int,
                  passed : BOOLEAN]
  /\ writes \in 0 .. MaxWrites
  /\ oops \in BOOLEAN /\ slipped \in BOOLEAN /\ overtaken \subseteq Tasks

\* The groups below a group never hold more of the CPU than it does, although
\* the halves of each pair are read and written by processes that overlap and
\* a pair may be stored over one that was set in between.
ChildrenFit == \A t \in Live : SumOfChildren(rt, t) <= Ratio(rt, t)

\* A tree, with bandwidths of the right types that fit into each other.
Consistent == TypeOK /\ ChildrenFit

\* "Nobody can have more than the global setting allows": at rest, true unless
\* the write that was last accepted had been checked against sysctls that were
\* themselves refused a moment later.
OnlyRefusedSysctlsLetMoreBy ==
  handler.at = "no" /\ ~slipped =>
    \A t \in Live : sysctl.runtime >= 0 => Ratio(rt, t) <= GlobalRatio

\* The division by the sysctl's period is by zero only in the moment between
\* the store of a zero and its refusal.
OnlyUncheckedPeriodDivides ==
  [][oops' /\ ~oops => handler.at \in {"check", "restore"} /\ sysctl.period = 0]_vars

Starved(p) ==
  rt_bandwidth_enabled /\ rt_task(p) /\ rt[task[p].group].runtime = 0

\* A real-time task that could run is left without runtime in four ways only:
\* its group, which is not the root, is given another runtime
\* (tg_has_rt_tasks sees the tasks of the root alone); it arrives in a group
\* after the check that let it in has gone out of date; a mutex boosts it,
\* which tests nothing; the sysctl turns the limits on again.  Never by
\* sched_setscheduler, by a write to the root or to another group, by a new
\* period, or by a move whose check still holds.
OnlyKnownWaysStarve ==
  [][\A p \in Tasks : Starved(p)' /\ ~Starved(p) =>
       LET g == task[p].group
       IN  \/ g # Root /\ rt'[g].runtime # rt[g].runtime
           \/ p \in overtaken /\ task'[p].group # g
           \/ task'[p].boosted /\ ~task[p].boosted
           \/ sysctl'.runtime # sysctl.runtime]_vars

\* The groups above t: those in each set that holds the parent of t and the
\* parents of its own members.
Above(t) ==
  {a \in Live : \A S \in SUBSET Live :
     parent[t] \in S /\ (\A g \in S \ {Root} : parent[g] \in S) => a \in S}

\* No group has a larger share of quota than any group above it, whatever
\* unlimited groups are in between.
QuotasNest ==
  \A t \in Live \ {Root} : \A a \in Above(t) :
    cfs[t].runtime # RUNTIME_INF /\ cfs[a].runtime # RUNTIME_INF =>
      Ratio(cfs, t) <= Ratio(cfs, a)
=============================================================================
