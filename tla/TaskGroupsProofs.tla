-------------------------- MODULE TaskGroupsProofs --------------------------
(***************************************************************************)
(* Proofs about module TaskGroups, for every number of groups, writers and *)
(* tasks and whatever they write: the tree stays schedulable, quotas nest, *)
(* and the exceptions are the named ones.                                  *)
(***************************************************************************)
EXTENDS TaskGroups, DataProofs

\* What a writer is about to check has passed the handler's own tests.
WritersOK ==
  \A w \in Writers :
    /\ writer[w].file = "rt" => writer[w].period # 0
    /\ writer[w].file = "none" => writer[w] = NoWrite

\* A period of 0 is stored only while it can still be refused.
SysctlOK ==
  /\ handler.at \in {"no", "store"} => sysctl.period # 0
  /\ handler.at \in {"check", "restore"} => handler.period # 0

\* No group has more than this limit allows.
Within(period, runtime) ==
  runtime >= 0 => \A t \in Live : Ratio(rt, t) <= to_ratio(period, ToRuntime(runtime))

\* No group has more than the limit at rest, once accepted, or that will be put
\* back, unless one got by meanwhile.
LimitsOK ==
  /\ handler.at = "no" /\ ~slipped => Within(sysctl.period, sysctl.runtime)
  /\ handler.at \in {"check", "restore"} /\ ~slipped /\ ~handler.passed =>
       Within(handler.period, handler.runtime)
  /\ handler.at = "store" => Within(sysctl.period, sysctl.runtime)

\* sched_rt_can_attach would say of every other task what it has said.
TargetsOK ==
  \A p \in Tasks :
    task[p].target # None /\ rt_task(p) /\ rt[task[p].target].runtime = 0 => p \in overtaken

\* The groups are a tree: the parent of a group is nearer to the root.
Acyclic ==
  \E n \in Nat : \E depth \in [Groups -> 0 .. n] :
    \A g \in Live \ {Root} : depth[parent[g]] < depth[g]

TreeInv ==
  /\ ChildrenFit
  /\ Acyclic
  /\ cfs[Root].runtime = RUNTIME_INF
  /\ QuotasNest

IInv == TypeOK /\ WritersOK /\ SysctlOK /\ LimitsOK /\ TargetsOK /\ TreeInv

-----------------------------------------------------------------------------
(* Ratios.                                                                 *)

LEMMA Division ==
  ASSUME NEW x \in Nat, NEW u \in Int, u > 0
  PROVE  /\ x % u \in 0 .. (u - 1)
         /\ x \div u \in Nat
         /\ x = u * (x \div u) + (x % u)
OBVIOUS

\* to_ratio of a period that is not 0 is a number, 0 of no runtime, and is not
\* mistaken for RUNTIME_INF, which is odd while a ratio's dividend is even.
LEMMA ToRatio ==
  ASSUME NEW period \in Nat \ {0}, NEW runtime \in 0 .. RUNTIME_INF
  PROVE  /\ to_ratio(period, runtime) \in Nat
         /\ runtime = 0 => to_ratio(period, runtime) = 0
         /\ runtime # RUNTIME_INF => to_ratio(period, runtime) < RUNTIME_INF
<1> DEFINE x == runtime * FULL
           r == x % U64
<1>1. PICK n \in 1 .. U64 : U64 = FULL * n
  BY TaskGroupsAssumption
<1>2. FULL \in Nat /\ FULL > 1 /\ U64 \in Nat /\ n \in Nat /\ n >= 1
  BY TaskGroupsAssumption
<1>3. U64 > 1 /\ RUNTIME_INF = U64 - 1
  BY <1>1, <1>2 DEF RUNTIME_INF
<1>4. x \in Nat /\ runtime \in Nat
  BY <1>2, <1>3
<1>5. r \in 0 .. (U64 - 1) /\ x \div U64 \in Int /\ x = U64 * (x \div U64) + r
  BY <1>2, <1>3, <1>4, Division
<1>6. r # U64 - 1
  <2> SUFFICES ASSUME r = U64 - 1 PROVE FALSE
    OBVIOUS
  <2> DEFINE q == x \div U64
             k == runtime - n * q - n
  <2>1. k \in Int
    BY <1>2, <1>4, <1>5
  <2>2. FULL * k = FULL * runtime - (FULL * n) * q - FULL * n
    <3>1. FULL \in Int /\ runtime \in Int /\ n \in Int /\ q \in Int
      BY <1>2, <1>4, <1>5
    <3> HIDE DEF q
    <3> QED BY ONLY <3>1, Z3
  <2>3. FULL * k = -1
    <3>1. FULL * runtime = U64 * q + U64 - 1
      BY <1>2, <1>4, <1>5
    <3> QED BY <1>1, <1>2, <1>5, <2>2, <3>1
  <2> HIDE DEF k
  <2>4. CASE k >= 0
    BY <1>2, <2>1, <2>3, <2>4
  <2>5. CASE k <= -1
    BY <1>2, <2>1, <2>3, <2>5
  <2> QED BY <2>1, <2>4, <2>5
<1>7. r \div period \in Nat /\ r \div period <= r
  BY <1>5
<1>8. runtime = 0 => r = 0
  BY <1>2, <1>3
<1> HIDE DEF r
<1>9. r \div period < RUNTIME_INF
  BY <1>3, <1>5, <1>6, <1>7
<1>10. r = 0 => r \div period = 0
  OBVIOUS
<1>11. to_ratio(period, runtime) = IF runtime = RUNTIME_INF THEN FULL ELSE r \div period
  BY DEF to_ratio, r
<1>12. runtime = 0 => runtime # RUNTIME_INF
  BY <1>3
<1> QED BY <1>2, <1>7, <1>8, <1>9, <1>10, <1>11, <1>12

LEMMA RatioType ==
  ASSUME NEW bw \in [Groups -> Bandwidth], NEW g \in Groups, bw[g].period # 0
  PROVE  /\ Ratio(bw, g) \in Nat
         /\ bw[g].runtime = 0 => Ratio(bw, g) = 0
         /\ bw[g].runtime # RUNTIME_INF => Ratio(bw, g) < RUNTIME_INF
<1>1. bw[g].period \in Nat \ {0} /\ bw[g].runtime \in 0 .. RUNTIME_INF
  BY DEF Bandwidth
<1> QED BY <1>1, ToRatio DEF Ratio

\* What a file is written with, or -1 for no limit, fits.
LEMMA ToRuntimeType ==
  ASSUME NEW v \in Runtimes \cup Quotas \cup SysRuntimes
  PROVE  ToRuntime(v) \in 0 .. RUNTIME_INF
<1>1. v \in Int /\ v < U64 /\ U64 \in Nat
  BY TaskGroupsAssumption
<1>2. U64 >= 1
  BY TaskGroupsAssumption
<1> QED BY <1>1, <1>2 DEF ToRuntime, RUNTIME_INF

-----------------------------------------------------------------------------
(* The types.                                                              *)

LEMMA StartType == Init => TypeOK /\ WritersOK /\ SysctlOK
<1> SUFFICES ASSUME Init PROVE TypeOK /\ WritersOK /\ SysctlOK
  OBVIOUS
<1> USE DEF Init
<1>1. /\ Root \in Groups /\ None \notin Groups /\ U64 \in Nat
      /\ DefaultPeriod \in Nat \ {0} /\ DefaultRuntime \in 0 .. RUNTIME_INF
      /\ DefaultCfsPeriod \in MinCfs .. MaxCfs /\ DefaultCfsPeriod \in Nat
      /\ 0 \in 0 .. RUNTIME_INF /\ RUNTIME_INF \in 0 .. RUNTIME_INF /\ MaxWrites \in Nat
      /\ DefaultRuntime \in Int
  BY TaskGroupsAssumption DEF RUNTIME_INF
<1>2. Live = {Root}
  BY <1>1 DEF Live
<1>3. rt \in [Groups -> Bandwidth] /\ cfs \in [Groups -> Bandwidth]
  BY <1>1 DEF Bandwidth
<1>4. \A g \in Groups : rt[g].period # 0 /\ cfs[g].period \in MinCfs .. MaxCfs
  BY <1>1
<1>5. /\ task \in [Tasks -> [group : Live, policy : BOOLEAN, boosted : BOOLEAN,
                        target : Live \cup {None}]]
      /\ writer \in [Writers -> [file : {"none", "rt", "cfs"}, tg : Live,
                                 period : Nat, runtime : 0 .. RUNTIME_INF]]
  BY <1>1, <1>2 DEF NoWrite
<1>6. TypeOK
  <2>1. parent \in [Groups -> Groups \cup {None}] /\ parent[Root] = None
        /\ \A g \in Live \ {Root} : parent[g] \in Live \ {g}
    BY <1>1, <1>2
  <2>2. /\ sysctl \in [period : Nat, runtime : Int] /\ def_period \in Nat \ {0}
        /\ handler \in [at : {"no", "check", "store", "restore"}, period : Nat, runtime : Int,
                        passed : BOOLEAN]
    BY <1>1 DEF NoHandler
  <2>3. writes \in 0 .. MaxWrites
    <3>1. writes = 0
      OBVIOUS
    <3> QED BY <1>1, <3>1
  <2>4. oops \in BOOLEAN /\ slipped \in BOOLEAN /\ overtaken \subseteq Tasks
    OBVIOUS
  <2> HIDE DEF Init
  <2> QED BY <1>3, <1>4, <1>5, <2>1, <2>2, <2>3, <2>4 DEF TypeOK
<1> QED BY <1>1, <1>6 DEF WritersOK, SysctlOK, NoHandler, NoWrite

\* The part of the types that is about the tree.
TreeType ==
  /\ parent \in [Groups -> Groups \cup {None}]
  /\ parent[Root] = None
  /\ \A g \in Live \ {Root} : parent[g] \in Live \ {g}
  /\ rt \in [Groups -> Bandwidth] /\ cfs \in [Groups -> Bandwidth]
  /\ \A g \in Groups : rt[g].period # 0 /\ cfs[g].period \in MinCfs .. MaxCfs

LEMMA CreateType ==
  ASSUME TypeOK, WritersOK, SysctlOK, NEW g \in Groups, NEW p \in Groups, cpu_cgroup_create(g, p)
  PROVE  /\ TypeOK' /\ WritersOK' /\ SysctlOK'
         /\ Live' = Live \cup {g} /\ g # Root /\ g \notin Live /\ p \in Live
<1> USE DEF cpu_cgroup_create, sysctlVars, history
<1>1. Root \in Groups /\ None \notin Groups /\ p \in Live /\ g \notin Live /\ g # Root /\ g # p
  BY TaskGroupsAssumption DEF Live
<1>2. Live' = Live \cup {g}
  BY <1>1 DEF Live, TypeOK
<1>3. [period |-> def_period, runtime |-> 0] \in Bandwidth
      /\ [period |-> DefaultCfsPeriod, runtime |-> RUNTIME_INF] \in Bandwidth
      /\ DefaultCfsPeriod \in MinCfs .. MaxCfs
  BY TaskGroupsAssumption DEF Bandwidth, TypeOK, RUNTIME_INF
<1>4. TreeType'
  <2>1. parent' \in [Groups -> Groups \cup {None}] /\ parent'[Root] = None
    BY <1>1 DEF TypeOK, Live
  <2>2. ASSUME NEW x \in Live' \ {Root} PROVE parent'[x] \in Live' \ {x}
    BY <1>1, <1>2 DEF TypeOK, Live
  <2>3. rt' \in [Groups -> Bandwidth] /\ cfs' \in [Groups -> Bandwidth]
    BY <1>3 DEF TypeOK
  <2>4. \A x \in Groups : rt'[x].period # 0 /\ cfs'[x].period \in MinCfs .. MaxCfs
    BY <1>3 DEF TypeOK
  <2> QED BY <2>1, <2>2, <2>3, <2>4 DEF TreeType
<1>5. TypeOK'
  BY <1>2, <1>4 DEF TypeOK, TreeType
<1> QED BY <1>1, <1>2, <1>5 DEF WritersOK, SysctlOK

LEMMA DestroyType ==
  ASSUME TypeOK, WritersOK, SysctlOK, NEW g \in Groups, cpu_cgroup_destroy(g)
  PROVE  /\ TypeOK' /\ WritersOK' /\ SysctlOK'
         /\ Live' = Live \ {g} /\ \A x \in Live \ {Root} : parent[x] # g
<1> USE DEF cpu_cgroup_destroy, sysctlVars, history, InUse, Children
<1>1. Root \in Groups /\ None \notin Groups /\ g \in Live /\ g # Root
  BY TaskGroupsAssumption
<1>2. Live' = Live \ {g}
  BY <1>1 DEF Live, TypeOK
<1>3. \A x \in Live \ {Root} : parent[x] # g
  OBVIOUS
<1>4. TreeType'
  BY <1>1, <1>2, <1>3 DEF TypeOK, Live, TreeType
<1>5. \A t \in Tasks : task[t].group \in Live' /\ task[t].target \in Live' \cup {None}
  BY <1>2 DEF TypeOK, Moving
<1>6. \A w \in Writers : writer[w].tg \in Live'
  BY <1>1, <1>2 DEF TypeOK, WritersOK, NoWrite, Live
<1>7. /\ task \in [Tasks -> [group : Live', policy : BOOLEAN, boosted : BOOLEAN,
                        target : Live' \cup {None}]]
      /\ writer \in [Writers -> [file : {"none", "rt", "cfs"}, tg : Live',
                                 period : Nat, runtime : 0 .. RUNTIME_INF]]
  BY <1>5, <1>6 DEF TypeOK
<1>8. TypeOK'
  BY <1>4, <1>7 DEF TypeOK, TreeType
<1> QED BY <1>2, <1>3, <1>8 DEF WritersOK, SysctlOK

LEMMA BeginType ==
  ASSUME TypeOK, WritersOK, SysctlOK, NEW w \in Writers, NEW g \in Groups,
         NEW file \in {"rt", "cfs"}, NEW period \in Nat, NEW runtime \in 0 .. RUNTIME_INF,
         file = "rt" => period # 0,
         Begin(w, file, g, period, runtime)
  PROVE  TypeOK' /\ WritersOK' /\ SysctlOK'
<1> USE DEF Begin, treeVars, sysctlVars, history
<1>1. Live' = Live
  BY DEF Live
<1>2. writer' \in [Writers -> [file : {"none", "rt", "cfs"}, tg : Live,
                               period : Nat, runtime : 0 .. RUNTIME_INF]]
  BY DEF TypeOK
<1>3. writes' \in 0 .. MaxWrites
  BY TaskGroupsAssumption DEF TypeOK
<1>4. TypeOK'
  BY <1>1, <1>2, <1>3 DEF TypeOK
<1>5. WritersOK'
  BY DEF WritersOK, TypeOK
<1> QED BY <1>4, <1>5 DEF SysctlOK

\* The four files.
LEMMA FileType ==
  ASSUME TypeOK, WritersOK, SysctlOK, NEW w \in Writers, NEW g \in Groups,
         \/ \E v \in Runtimes   : sched_group_set_rt_runtime(w, g, v)
         \/ \E v \in Periods    : sched_group_set_rt_period(w, g, v)
         \/ \E v \in Quotas     : tg_set_cfs_quota(w, g, v)
         \/ \E v \in CfsPeriods : tg_set_cfs_period(w, g, v)
  PROVE  TypeOK' /\ WritersOK' /\ SysctlOK'
<1>1. /\ rt[g].period \in Nat \ {0} /\ rt[g].runtime \in 0 .. RUNTIME_INF
      /\ cfs[g].period \in Nat /\ cfs[g].runtime \in 0 .. RUNTIME_INF
  BY DEF TypeOK, Bandwidth
<1>2. CASE \E v \in Runtimes : sched_group_set_rt_runtime(w, g, v)
  BY <1>1, <1>2, ToRuntimeType, BeginType DEF sched_group_set_rt_runtime
<1>3. CASE \E v \in Periods : sched_group_set_rt_period(w, g, v)
  BY <1>1, <1>3, BeginType, TaskGroupsAssumption DEF sched_group_set_rt_period
<1>4. CASE \E v \in Quotas : tg_set_cfs_quota(w, g, v)
  BY <1>1, <1>4, ToRuntimeType, BeginType DEF tg_set_cfs_quota
<1>5. CASE \E v \in CfsPeriods : tg_set_cfs_period(w, g, v)
  BY <1>1, <1>5, BeginType, TaskGroupsAssumption DEF tg_set_cfs_period
<1> QED BY <1>2, <1>3, <1>4, <1>5

LEMMA NoWriteType ==
  ASSUME TypeOK
  PROVE  NoWrite \in [file : {"none", "rt", "cfs"}, tg : Live, period : Nat,
                      runtime : 0 .. RUNTIME_INF]
BY TaskGroupsAssumption DEF NoWrite, Live, RUNTIME_INF

LEMMA SetRtType ==
  ASSUME TypeOK, WritersOK, SysctlOK, NEW w \in Writers, tg_set_rt_bandwidth(w)
  PROVE  TypeOK' /\ WritersOK' /\ SysctlOK' /\ Live' = Live
<1> USE DEF tg_set_rt_bandwidth
<1>1. Live' = Live
  BY DEF Live
<1>2. writer[w].period \in Nat \ {0} /\ writer[w].runtime \in 0 .. RUNTIME_INF
      /\ writer[w].tg \in Groups
  BY DEF TypeOK, WritersOK, Live
<1>3. Asked(writer[w], rt) \in [Groups -> Bandwidth]
      /\ \A g \in Groups : Asked(writer[w], rt)[g].period # 0
  BY <1>2 DEF Asked, Bandwidth, TypeOK
<1>4. rt' \in {rt, Asked(writer[w], rt)}
  OBVIOUS
<1>5. rt' \in [Groups -> Bandwidth] /\ \A g \in Groups : rt'[g].period # 0
  BY <1>3, <1>4 DEF TypeOK
<1>6. writer' \in [Writers -> [file : {"none", "rt", "cfs"}, tg : Live,
                               period : Nat, runtime : 0 .. RUNTIME_INF]]
  BY NoWriteType DEF TypeOK
<1>7. handler' \in [at : {"no", "check", "store", "restore"}, period : Nat, runtime : Int,
                    passed : BOOLEAN]
      /\ handler'.at = handler.at /\ handler'.period = handler.period
  BY DEF TypeOK, history
<1>8. oops' \in BOOLEAN /\ slipped' \in BOOLEAN /\ overtaken' \subseteq Tasks
  BY DEF TypeOK, history
<1>9. TypeOK'
  BY <1>1, <1>5, <1>6, <1>7, <1>8 DEF TypeOK
<1>10. WritersOK'
  BY DEF WritersOK, TypeOK, NoWrite
<1> QED BY <1>1, <1>7, <1>9, <1>10 DEF SysctlOK

LEMMA SetCfsType ==
  ASSUME TypeOK, WritersOK, SysctlOK, NEW w \in Writers, tg_set_cfs_bandwidth(w)
  PROVE  TypeOK' /\ WritersOK' /\ SysctlOK' /\ Live' = Live
<1> USE DEF tg_set_cfs_bandwidth, sysctlVars, history
<1>1. Live' = Live
  BY DEF Live
<1>2. writer[w].period \in Nat /\ writer[w].runtime \in 0 .. RUNTIME_INF /\ writer[w].tg \in Groups
  BY DEF TypeOK, Live
<1>3. Asked(writer[w], cfs) \in [Groups -> Bandwidth]
      /\ (writer[w].period \in MinCfs .. MaxCfs =>
            \A g \in Groups : Asked(writer[w], cfs)[g].period \in MinCfs .. MaxCfs)
  BY <1>2 DEF Asked, Bandwidth, TypeOK
<1>4. cfs' = cfs \/ (cfs' = Asked(writer[w], cfs) /\ writer[w].period \in MinCfs .. MaxCfs)
  OBVIOUS
<1>5. cfs' \in [Groups -> Bandwidth] /\ \A g \in Groups : cfs'[g].period \in MinCfs .. MaxCfs
  BY <1>3, <1>4 DEF TypeOK
<1>6. writer' \in [Writers -> [file : {"none", "rt", "cfs"}, tg : Live,
                               period : Nat, runtime : 0 .. RUNTIME_INF]]
  BY NoWriteType DEF TypeOK
<1>7. TypeOK'
  BY <1>1, <1>5, <1>6 DEF TypeOK
<1>8. WritersOK'
  BY DEF WritersOK, TypeOK, NoWrite
<1> QED BY <1>1, <1>7, <1>8 DEF SysctlOK

LEMMA SysctlType ==
  ASSUME TypeOK, WritersOK, SysctlOK,
         \/ \E period \in SysPeriods : sched_rt_handler(period, sysctl.runtime)
         \/ \E runtime \in SysRuntimes : sched_rt_handler(sysctl.period, runtime)
         \/ sched_rt_global_constraints \/ SysctlStore \/ SysctlRestore
  PROVE  TypeOK' /\ WritersOK' /\ SysctlOK'
<1> USE DEF treeVars, history
<1>1. UNCHANGED << parent, rt, cfs, task, writer, writes, oops, overtaken >> /\ Live' = Live
      /\ slipped' \in BOOLEAN
  BY DEF Live, sched_rt_handler, sched_rt_global_constraints, SysctlStore, SysctlRestore, TypeOK
<1>2. WritersOK'
  BY <1>1 DEF WritersOK
<1>3. ASSUME NEW period \in Nat, NEW runtime \in Int, sched_rt_handler(period, runtime)
      PROVE  TypeOK' /\ SysctlOK'
  BY <1>1, <1>3 DEF sched_rt_handler, TypeOK, SysctlOK
<1> DEFINE HandlerType == [at : {"no", "check", "store", "restore"}, period : Nat, runtime : Int,
                            passed : BOOLEAN]
<1>4. CASE sched_rt_global_constraints
  <2>1. handler' \in HandlerType /\ sysctl' = sysctl /\ def_period' = def_period
        /\ handler'.at \in {"store", "restore"} /\ handler'.period = handler.period
        /\ (handler'.at = "store" => GlobalSane)
    BY <1>4 DEF sched_rt_global_constraints, TypeOK
  <2>2. TypeOK'
    BY <1>1, <2>1 DEF TypeOK
  <2>3. GlobalSane => sysctl.period # 0
    BY DEF GlobalSane, TypeOK
  <2>4. handler.at = "check"
    BY <1>4 DEF sched_rt_global_constraints
  <2> QED BY <1>2, <2>1, <2>2, <2>3, <2>4 DEF SysctlOK
<1>5. CASE SysctlStore
  <2>1. handler' \in HandlerType /\ handler'.at = "no" /\ sysctl' = sysctl
        /\ handler.at = "store" /\ def_period' = sysctl.period
    BY <1>5 DEF SysctlStore, NoHandler
  <2>2. def_period' \in Nat \ {0}
    BY <2>1 DEF TypeOK, SysctlOK
  <2>3. TypeOK'
    BY <1>1, <2>1, <2>2 DEF TypeOK
  <2> QED BY <1>2, <2>1, <2>3 DEF SysctlOK
<1>6. CASE SysctlRestore
  <2>1. handler' \in HandlerType /\ handler'.at = "no" /\ handler.at = "restore"
        /\ sysctl' = [period |-> handler.period, runtime |-> handler.runtime]
        /\ def_period' = def_period
    BY <1>6 DEF SysctlRestore, NoHandler
  <2>2. sysctl' \in [period : Nat, runtime : Int] /\ sysctl'.period = handler.period
    BY <2>1 DEF TypeOK
  <2>3. TypeOK'
    BY <1>1, <2>1, <2>2 DEF TypeOK
  <2> QED BY <1>2, <2>1, <2>2, <2>3 DEF SysctlOK
<1>7. SysPeriods \subseteq Nat /\ SysRuntimes \subseteq Int /\ sysctl.period \in Nat /\ sysctl.runtime \in Int
  BY TaskGroupsAssumption DEF TypeOK
<1> QED BY <1>2, <1>4, <1>5, <1>6, <1>3, <1>7

\* What becomes of a task that is given a policy and a boost.
LEMMA TwoFields ==
  ASSUME NEW G, NEW B, NEW T, NEW p \in Tasks, NEW policy \in B, NEW boosted \in B,
         NEW f \in [Tasks -> [group : G, policy : B, boosted : B, target : T]]
  PROVE  [f EXCEPT ![p].policy = policy, ![p].boosted = boosted]
           \in [Tasks -> [group : G, policy : B, boosted : B, target : T]]
  OBVIOUS

\* The types through what becomes of tasks.
LEMMA TaskType ==
  ASSUME TypeOK, WritersOK, SysctlOK, NEW p \in Tasks,
         \/ \E real \in BOOLEAN : sched_setscheduler(p, real)
         \/ rt_mutex_setprio(p)
         \/ \E g \in Groups : cpu_cgroup_can_attach(p, g)
         \/ cpu_cgroup_attach(p)
  PROVE  TypeOK' /\ WritersOK' /\ SysctlOK'
<1> USE DEF treeVars, sysctlVars, history
<1>1. /\ UNCHANGED << parent, rt, cfs, writer, sysctl, def_period, handler, writes, oops, slipped >>
      /\ Live' = Live
  BY DEF Live, sched_setscheduler, rt_mutex_setprio, __setscheduler, cpu_cgroup_can_attach,
         cpu_cgroup_attach
<1>2. task' \in [Tasks -> [group : Live, policy : BOOLEAN, boosted : BOOLEAN,
                           target : Live \cup {None}]]
      /\ overtaken' \subseteq Tasks
  <2>1. ASSUME NEW policy \in BOOLEAN, NEW boosted \in BOOLEAN, __setscheduler(p, policy, boosted)
        PROVE  task' \in [Tasks -> [group : Live, policy : BOOLEAN, boosted : BOOLEAN,
                                    target : Live \cup {None}]]
               /\ overtaken' \subseteq Tasks
    <3>1. task' = [task EXCEPT ![p].policy = policy, ![p].boosted = boosted]
          /\ overtaken' \in {overtaken, overtaken \cup {p}}
      BY <2>1 DEF __setscheduler
    <3>2. task \in [Tasks -> [group : Live, policy : BOOLEAN, boosted : BOOLEAN,
                             target : Live \cup {None}]]
          /\ overtaken \subseteq Tasks
      BY DEF TypeOK
    <3>3. [task EXCEPT ![p].policy = policy, ![p].boosted = boosted]
            \in [Tasks -> [group : Live, policy : BOOLEAN, boosted : BOOLEAN,
                          target : Live \cup {None}]]
      BY <3>2, TwoFields
    <3> QED BY <3>1, <3>2, <3>3
  <2>2. task[p].policy \in BOOLEAN /\ task[p].boosted \in BOOLEAN /\ (~task[p].boosted) \in BOOLEAN
    BY DEF TypeOK
  <2>3. CASE (\E real \in BOOLEAN : sched_setscheduler(p, real)) \/ rt_mutex_setprio(p)
    BY <2>1, <2>2, <2>3 DEF sched_setscheduler, rt_mutex_setprio
  <2>4. CASE \E g \in Groups : cpu_cgroup_can_attach(p, g)
    BY <2>4 DEF cpu_cgroup_can_attach, TypeOK
  <2>5. CASE cpu_cgroup_attach(p)
    BY <2>5 DEF cpu_cgroup_attach, TypeOK
  <2> QED BY <2>3, <2>4, <2>5
<1> QED BY <1>1, <1>2 DEF TypeOK, WritersOK, SysctlOK

-----------------------------------------------------------------------------
(* The steps, by what they leave alone.                                    *)

\* The writes that begin, and all that is done to a task.
Bystander ==
  \/ \E w \in Writers, g \in Groups :
       \/ \E v \in Runtimes   : sched_group_set_rt_runtime(w, g, v)
       \/ \E v \in Periods    : sched_group_set_rt_period(w, g, v)
       \/ \E v \in Quotas     : tg_set_cfs_quota(w, g, v)
       \/ \E v \in CfsPeriods : tg_set_cfs_period(w, g, v)
  \/ \E p \in Tasks :
       \/ \E real \in BOOLEAN : sched_setscheduler(p, real)
       \/ rt_mutex_setprio(p)
       \/ \E g \in Groups : cpu_cgroup_can_attach(p, g)
       \/ cpu_cgroup_attach(p)
  \/ UNCHANGED vars

LEMMA BystanderKeeps ==
  ASSUME Bystander
  PROVE  UNCHANGED << parent, rt, cfs, sysctl, handler, slipped >> /\ Live' = Live
<1>1. UNCHANGED << parent, rt, cfs, sysctl, handler, slipped >>
  BY DEF Bystander, Begin, sched_group_set_rt_runtime, sched_group_set_rt_period,
         tg_set_cfs_quota, tg_set_cfs_period, sched_setscheduler, rt_mutex_setprio, __setscheduler,
         cpu_cgroup_can_attach, cpu_cgroup_attach, treeVars, sysctlVars, history, vars
<1> QED BY <1>1 DEF Live

-----------------------------------------------------------------------------
(* The limits.                                                             *)

LEMMA LimitType ==
  ASSUME NEW period \in Nat \ {0}, NEW runtime \in Nat
  PROVE  to_ratio(period, ToRuntime(runtime)) \in Nat
<1> DEFINE x == runtime * FULL
           r == x % U64
<1>1. FULL \in Nat /\ U64 \in Nat /\ U64 > 0
  BY TaskGroupsAssumption
<1>2. x \in Nat
  BY <1>1
<1> HIDE DEF x
<1>3. r \in Nat
  BY <1>1, <1>2, Division
<1> HIDE DEF r
<1>4. r \div period \in Nat
  BY <1>3, Division
<1> QED BY <1>1, <1>4 DEF to_ratio, ToRuntime, r, x

LEMMA LimitsKept ==
  ASSUME TypeOK, WritersOK, SysctlOK, LimitsOK, [Next]_vars
  PROVE  LimitsOK'
<1>1. ASSUME NEW g \in Groups, NEW p \in Groups, cpu_cgroup_create(g, p)
      PROVE  LimitsOK'
  <2>1. Live' = Live \cup {g} /\ g \notin Live /\ UNCHANGED << sysctl, handler, slipped >>
    BY <1>1, CreateType DEF cpu_cgroup_create, sysctlVars, history
  <2>2. \A t \in Live : rt'[t] = rt[t]
    BY <1>1 DEF cpu_cgroup_create, TypeOK, Live
  <2>3. rt' \in [Groups -> Bandwidth] /\ rt'[g].period # 0 /\ rt'[g].runtime = 0
    <3>1. TypeOK'
      BY <1>1, CreateType
    <3>2. rt \in [Groups -> Bandwidth]
      BY DEF TypeOK
    <3>3. rt'[g] = [period |-> def_period, runtime |-> 0]
      BY <1>1, <3>2 DEF cpu_cgroup_create
    <3> QED BY <3>1, <3>3 DEF TypeOK
  <2>4. Ratio(rt', g) = 0
    BY <2>3, RatioType
  <2>5. \A t \in Live : Ratio(rt', t) = Ratio(rt, t)
    BY <2>2 DEF Ratio
  <2>6. ASSUME NEW period \in Nat \ {0}, NEW runtime \in Int, Within(period, runtime)
        PROVE  runtime >= 0 =>
                 \A t \in Live' : Ratio(rt', t) <= to_ratio(period, ToRuntime(runtime))
    <3> HAVE runtime >= 0
    <3>1. to_ratio(period, ToRuntime(runtime)) \in Nat
      BY LimitType
    <3> QED BY <2>1, <2>4, <2>5, <2>6, <3>1 DEF Within
  <2>7. sysctl.period \in Nat /\ sysctl.runtime \in Int /\ handler.period \in Nat
        /\ handler.runtime \in Int
    BY DEF TypeOK
  <2> QED BY <2>1, <2>6, <2>7 DEF LimitsOK, SysctlOK, Within
<1>2. ASSUME NEW g \in Groups, cpu_cgroup_destroy(g)
      PROVE  LimitsOK'
  <2>1. Live' \subseteq Live /\ UNCHANGED << rt, sysctl, handler, slipped >>
    BY <1>2, DestroyType DEF cpu_cgroup_destroy, sysctlVars, history
  <2> QED BY <2>1 DEF LimitsOK, Within
<1>3. ASSUME NEW w \in Writers, tg_set_rt_bandwidth(w)
      PROVE  LimitsOK'
  <2>1. Live' = Live
    BY <1>3, SetRtType
  <2>2. CASE UNCHANGED << rt, handler, slipped >>
    BY <1>3, <2>1, <2>2 DEF tg_set_rt_bandwidth, LimitsOK, Within
  <2>3. CASE /\ rt' = Asked(writer[w], rt) /\ __rt_schedulable(Asked(writer[w], rt))
             /\ handler' = [handler EXCEPT !.passed = handler.at # "no"]
             /\ slipped' = (slipped /\ handler.at # "no")
    <3>1. sysctl' = sysctl /\ Within(sysctl.period, sysctl.runtime)'
      BY <1>3, <2>1, <2>3 DEF tg_set_rt_bandwidth, __rt_schedulable, tg_rt_schedulable, Within,
                              GlobalRatio
    <3>2. handler'.at = handler.at /\ (handler'.at # "no" => handler'.passed)
      BY <2>3 DEF TypeOK
    <3> QED BY <3>1, <3>2 DEF LimitsOK
  <2> QED BY <1>3, <2>2, <2>3 DEF tg_set_rt_bandwidth, history
<1>4. ASSUME NEW w \in Writers, tg_set_cfs_bandwidth(w)
      PROVE  LimitsOK'
  <2>1. Live' = Live /\ UNCHANGED << rt, sysctl, handler, slipped >>
    BY <1>4, SetCfsType DEF tg_set_cfs_bandwidth, sysctlVars, history
  <2> QED BY <2>1 DEF LimitsOK, Within
<1>5. ASSUME NEW period \in Nat, NEW runtime \in Int, sched_rt_handler(period, runtime)
      PROVE  LimitsOK'
  <2>1. /\ UNCHANGED << rt, slipped >> /\ Live' = Live /\ handler.at = "no"
        /\ handler'.at = "check" /\ handler'.period = sysctl.period
        /\ handler'.runtime = sysctl.runtime
    BY <1>5 DEF sched_rt_handler, treeVars, history, Live
  <2> QED BY <2>1 DEF LimitsOK, Within
<1>6. CASE sched_rt_global_constraints
  <2>1. /\ UNCHANGED << rt, slipped, sysctl >> /\ Live' = Live /\ handler.at = "check"
        /\ handler'.at \in {"store", "restore"} /\ handler'.period = handler.period
        /\ handler'.runtime = handler.runtime /\ handler'.passed = handler.passed
        /\ (handler'.at = "store" => __rt_schedulable(rt))
    BY <1>6 DEF sched_rt_global_constraints, treeVars, history, Live, TypeOK
  <2>2. __rt_schedulable(rt) => Within(sysctl.period, sysctl.runtime)
    BY DEF __rt_schedulable, tg_rt_schedulable, Within, GlobalRatio
  <2> QED BY <2>1, <2>2 DEF LimitsOK, Within
<1>7. CASE SysctlStore
  <2>1. UNCHANGED << rt, sysctl >> /\ Live' = Live /\ handler.at = "store" /\ handler'.at = "no"
    BY <1>7 DEF SysctlStore, treeVars, Live, NoHandler
  <2> QED BY <2>1 DEF LimitsOK, Within
<1>8. CASE SysctlRestore
  <2>1. /\ rt' = rt /\ Live' = Live /\ handler.at = "restore" /\ handler'.at = "no"
        /\ sysctl'.period = handler.period /\ sysctl'.runtime = handler.runtime
        /\ (~slipped' => ~slipped /\ ~handler.passed)
    BY <1>8 DEF SysctlRestore, treeVars, Live, NoHandler, TypeOK
  <2> QED BY <2>1 DEF LimitsOK, Within
<1>9. CASE Bystander
  BY <1>9, BystanderKeeps DEF LimitsOK, Within
<1>10. SysPeriods \subseteq Nat /\ SysRuntimes \subseteq Int /\ sysctl.period \in Nat
       /\ sysctl.runtime \in Int
  BY TaskGroupsAssumption DEF TypeOK
<1> QED BY <1>1, <1>2, <1>3, <1>4, <1>5, <1>6, <1>7, <1>8, <1>9, <1>10 DEF Next, Bystander

-----------------------------------------------------------------------------
(* The tasks on their way.                                                 *)

LEMMA TargetsKept ==
  ASSUME TypeOK, TargetsOK, [Next]_vars
  PROVE  TargetsOK'
<1>1. ASSUME NEW g \in Groups,
             cpu_cgroup_destroy(g) \/ \E p \in Groups : cpu_cgroup_create(g, p)
      PROVE  TargetsOK'
  <2>1. \A p \in Tasks : task'[p].target = None
    BY <1>1 DEF cpu_cgroup_create, cpu_cgroup_destroy, Moving
  <2> QED BY <2>1 DEF TargetsOK
<1>2. ASSUME NEW w \in Writers, tg_set_rt_bandwidth(w)
      PROVE  TargetsOK'
  <2>1. CASE rt' = rt /\ overtaken' = overtaken
    BY <1>2, <2>1 DEF tg_set_rt_bandwidth, TargetsOK, rt_task
  <2>2. CASE rt' = Asked(writer[w], rt)
    <3>1. rt \in [Groups -> Bandwidth] /\ writer[w].tg \in Groups
      BY DEF TypeOK, Live
    <3>2. \A g \in Groups : rt'[g].runtime = IF g = writer[w].tg THEN writer[w].runtime
                                                                ELSE rt[g].runtime
      BY <2>2, <3>1 DEF Asked
    <3>3. task' = task /\ \A p \in Tasks : task[p].target \in Groups \cup {None}
      BY <1>2 DEF tg_set_rt_bandwidth, TypeOK, Live
    <3>4. overtaken' = overtaken \/
          overtaken' = IF writer[w].runtime = 0
                         THEN overtaken \cup {p \in Tasks : task[p].target = writer[w].tg}
                         ELSE overtaken
      BY <1>2 DEF tg_set_rt_bandwidth, history
    <3>5. CASE overtaken' = IF writer[w].runtime = 0
                              THEN overtaken \cup {p \in Tasks : task[p].target = writer[w].tg}
                              ELSE overtaken
      BY <3>2, <3>3, <3>5 DEF TargetsOK, rt_task
    <3>6. CASE rt' = rt /\ overtaken' = overtaken
      BY <3>3, <3>6 DEF TargetsOK, rt_task
    <3> QED BY <1>2, <3>5, <3>6 DEF tg_set_rt_bandwidth, history
  <2> QED BY <1>2, <2>1, <2>2 DEF tg_set_rt_bandwidth, history
<1>3. ASSUME UNCHANGED << rt, task, overtaken >>
      PROVE  TargetsOK'
  BY <1>3 DEF TargetsOK, rt_task
<1>4. ASSUME NEW p \in Tasks, NEW policy, NEW boosted, __setscheduler(p, policy, boosted)
      PROVE  TargetsOK'
  <2>1. rt' = rt /\ \A q \in Tasks : task'[q].target = task[q].target
        /\ (q # p => task'[q].policy = task[q].policy /\ task'[q].boosted = task[q].boosted)
        /\ task'[p].policy = policy /\ task'[p].boosted = boosted
    BY <1>4 DEF __setscheduler, treeVars, TypeOK
  <2>2. /\ overtaken \subseteq overtaken'
        /\ (policy \/ boosted) /\ task[p].target # None /\ rt[task[p].target].runtime = 0 =>
             p \in overtaken'
    BY <1>4 DEF __setscheduler
  <2> QED BY <2>1, <2>2 DEF TargetsOK, rt_task
<1>5. ASSUME NEW p \in Tasks, NEW g \in Groups, cpu_cgroup_can_attach(p, g)
      PROVE  TargetsOK'
  <2>1. rt' = rt /\ overtaken' = overtaken /\ \A q \in Tasks :
          /\ task'[q].policy = task[q].policy /\ task'[q].boosted = task[q].boosted
          /\ task'[q].target = IF q = p THEN g ELSE None
    BY <1>5 DEF cpu_cgroup_can_attach, treeVars, history, TypeOK, Moving
  <2>2. rt_task(p) => rt[g].runtime # 0
    BY <1>5 DEF cpu_cgroup_can_attach, sched_rt_can_attach
  <2> QED BY <2>1, <2>2 DEF TargetsOK, rt_task
<1>6. ASSUME NEW p \in Tasks, cpu_cgroup_attach(p)
      PROVE  TargetsOK'
  <2>1. rt' = rt /\ overtaken' = overtaken \ {p} /\ \A q \in Tasks :
          /\ task'[q].policy = task[q].policy /\ task'[q].boosted = task[q].boosted
          /\ task'[q].target = IF q = p THEN None ELSE task[q].target
    BY <1>6 DEF cpu_cgroup_attach, treeVars, TypeOK
  <2> QED BY <2>1 DEF TargetsOK, rt_task
<1>7. ASSUME NEW p \in Tasks,
             \/ \E real \in BOOLEAN : sched_setscheduler(p, real)
             \/ rt_mutex_setprio(p)
      PROVE  TargetsOK'
  BY <1>4, <1>7 DEF sched_setscheduler, rt_mutex_setprio
<1>8. ASSUME NEW w \in Writers,
             \/ tg_set_cfs_bandwidth(w)
             \/ \E g \in Groups :
                  \/ \E v \in Runtimes   : sched_group_set_rt_runtime(w, g, v)
                  \/ \E v \in Periods    : sched_group_set_rt_period(w, g, v)
                  \/ \E v \in Quotas     : tg_set_cfs_quota(w, g, v)
                  \/ \E v \in CfsPeriods : tg_set_cfs_period(w, g, v)
      PROVE  TargetsOK'
  BY <1>3, <1>8 DEF tg_set_cfs_bandwidth, sched_group_set_rt_runtime, sched_group_set_rt_period,
                    tg_set_cfs_quota, tg_set_cfs_period, Begin, treeVars, history
<1>9. ASSUME \/ \E period \in SysPeriods : sched_rt_handler(period, sysctl.runtime)
             \/ \E runtime \in SysRuntimes : sched_rt_handler(sysctl.period, runtime)
             \/ sched_rt_global_constraints \/ SysctlStore \/ SysctlRestore
             \/ UNCHANGED vars
      PROVE  TargetsOK'
  BY <1>3, <1>9 DEF sched_rt_handler, sched_rt_global_constraints, SysctlStore, SysctlRestore,
                    treeVars, history, vars
<1> QED BY <1>1, <1>2, <1>5, <1>6, <1>7, <1>8, <1>9 DEF Next

-----------------------------------------------------------------------------
(* The two properties of the steps.                                        *)

\* What a step that divides by zero is.
LEMMA ZeroDivides ==
  ASSUME TypeOK, SysctlOK, [Next]_vars, oops', ~oops
  PROVE  handler.at \in {"check", "restore"} /\ sysctl.period = 0
<1>1. PICK w \in Writers : tg_set_rt_bandwidth(w) /\ DividesByZero(Asked(writer[w], rt))
  BY DEF Next, vars, cpu_cgroup_create, cpu_cgroup_destroy, tg_set_rt_bandwidth,
         tg_set_cfs_bandwidth, sched_group_set_rt_runtime, sched_group_set_rt_period,
         tg_set_cfs_quota, tg_set_cfs_period, Begin, sched_rt_handler, sched_rt_global_constraints,
         SysctlStore, SysctlRestore, sched_setscheduler, rt_mutex_setprio, __setscheduler,
         cpu_cgroup_can_attach, cpu_cgroup_attach
<1>2. sysctl.period = 0
  BY <1>1 DEF DividesByZero
<1> QED BY <1>2 DEF SysctlOK, TypeOK

\* How a task comes to starve.
LEMMA WaysToStarve ==
  ASSUME TypeOK, TargetsOK, [Next]_vars, NEW p \in Tasks, Starved(p)', ~Starved(p)
  PROVE  LET g == task[p].group
         IN  \/ g # Root /\ rt'[g].runtime # rt[g].runtime
             \/ p \in overtaken /\ task'[p].group # g
             \/ task'[p].boosted /\ ~task[p].boosted
             \/ sysctl'.runtime # sysctl.runtime
<1> DEFINE g == task[p].group
           Way == \/ g # Root /\ rt'[g].runtime # rt[g].runtime
                  \/ p \in overtaken /\ task'[p].group # g
                  \/ task'[p].boosted /\ ~task[p].boosted
<1> SUFFICES ASSUME sysctl'.runtime = sysctl.runtime
             PROVE  Way
  OBVIOUS
<1>1. /\ rt_bandwidth_enabled /\ rt_task(p)' /\ rt'[task'[p].group].runtime = 0
      /\ (rt_task(p) => rt[g].runtime # 0)
  BY DEF Starved, rt_bandwidth_enabled
<1>2. Root \in Live /\ task[p].group \in Live /\ task[p].group \in Groups
  BY TaskGroupsAssumption DEF Live, TypeOK
<1>3. ASSUME NEW h \in Groups, cpu_cgroup_destroy(h) \/ \E q \in Groups : cpu_cgroup_create(h, q)
      PROVE  FALSE
  <2>1. task' = task /\ rt'[g] = rt[g]
    BY <1>2, <1>3 DEF cpu_cgroup_create, cpu_cgroup_destroy, treeVars, TypeOK
  <2> QED BY <1>1, <2>1 DEF rt_task
<1>4. ASSUME NEW w \in Writers, tg_set_rt_bandwidth(w)
      PROVE  g # Root /\ rt'[g].runtime # rt[g].runtime
  <2>1. task' = task /\ rt_task(p) /\ rt' # rt /\ rt'[g].runtime # rt[g].runtime
    BY <1>1, <1>4 DEF tg_set_rt_bandwidth, rt_task
  <2>2. Sane(rt', Root)
    BY <1>2, <1>4, <2>1 DEF tg_set_rt_bandwidth, __rt_schedulable, tg_rt_schedulable
  <2>3. g = Root => tg_has_rt_tasks(Root) /\ rt'[Root].runtime = 0
    BY <1>1, <2>1 DEF tg_has_rt_tasks
  <2> QED BY <1>1, <2>1, <2>2, <2>3 DEF Sane
<1>5. ASSUME UNCHANGED << rt, task >>
      PROVE  FALSE
  BY <1>1, <1>5 DEF rt_task
<1>6. ASSUME NEW q \in Tasks, NEW policy, NEW boosted, __setscheduler(q, policy, boosted)
      PROVE  /\ rt' = rt /\ task'[p].group = g
             /\ q # p => rt_task(p)' = rt_task(p)
             /\ q = p => task'[p].policy = policy /\ task'[p].boosted = boosted
  BY <1>6 DEF __setscheduler, treeVars, rt_task, TypeOK
<1>7. ASSUME NEW q \in Tasks, NEW h \in Groups, cpu_cgroup_can_attach(q, h)
      PROVE  FALSE
  <2>1. rt' = rt /\ task'[p].group = g /\ rt_task(p)' = rt_task(p)
    BY <1>7 DEF cpu_cgroup_can_attach, treeVars, rt_task, TypeOK
  <2> QED BY <1>1, <2>1
<1>8. ASSUME NEW q \in Tasks, cpu_cgroup_attach(q)
      PROVE  p \in overtaken /\ task'[p].group # g
  <2>1. rt' = rt /\ rt_task(p)' = rt_task(p) /\ task[q].target # None
        /\ task'[p].group = IF q = p THEN task[p].target ELSE g
    BY <1>8 DEF cpu_cgroup_attach, treeVars, rt_task, TypeOK
  <2>2. task'[p].group # g
    BY <1>1, <2>1
  <2> QED BY <1>1, <2>1, <2>2 DEF TargetsOK
<1>9. ASSUME NEW q \in Tasks, NEW real \in BOOLEAN, sched_setscheduler(q, real)
      PROVE  FALSE
  <2>1. /\ rt' = rt /\ task'[p].group = g
        /\ q # p => rt_task(p)' = rt_task(p)
        /\ q = p => task'[p].policy = real /\ task'[p].boosted = task[p].boosted
    BY <1>6, <1>9 DEF sched_setscheduler
  <2>2. CASE q = p /\ real
    BY <1>1, <1>9, <2>1, <2>2 DEF sched_setscheduler
  <2>3. CASE q = p /\ ~real
    BY <1>1, <2>1, <2>3 DEF rt_task
  <2> QED BY <1>1, <2>1, <2>2, <2>3
<1>10. ASSUME NEW q \in Tasks, rt_mutex_setprio(q)
       PROVE  task'[p].boosted /\ ~task[p].boosted
  <2>1. /\ rt' = rt /\ task'[p].group = g
        /\ q # p => rt_task(p)' = rt_task(p)
        /\ q = p => task'[p].policy = task[p].policy /\ task'[p].boosted = ~task[p].boosted
    BY <1>6, <1>10 DEF rt_mutex_setprio
  <2>2. task[p].boosted \in BOOLEAN
    BY DEF TypeOK
  <2> QED BY <1>1, <2>1, <2>2 DEF rt_task
<1>11. ASSUME NEW w \in Writers,
              \/ tg_set_cfs_bandwidth(w)
              \/ \E h \in Groups :
                   \/ \E v \in Runtimes   : sched_group_set_rt_runtime(w, h, v)
                   \/ \E v \in Periods    : sched_group_set_rt_period(w, h, v)
                   \/ \E v \in Quotas     : tg_set_cfs_quota(w, h, v)
                   \/ \E v \in CfsPeriods : tg_set_cfs_period(w, h, v)
       PROVE  FALSE
  BY <1>5, <1>11 DEF tg_set_cfs_bandwidth, sched_group_set_rt_runtime, sched_group_set_rt_period,
                     tg_set_cfs_quota, tg_set_cfs_period, Begin, treeVars
<1>12. ASSUME \/ \E period \in SysPeriods : sched_rt_handler(period, sysctl.runtime)
              \/ \E runtime \in SysRuntimes : sched_rt_handler(sysctl.period, runtime)
              \/ sched_rt_global_constraints \/ SysctlStore \/ SysctlRestore
              \/ UNCHANGED vars
       PROVE  FALSE
  BY <1>5, <1>12 DEF sched_rt_handler, sched_rt_global_constraints, SysctlStore, SysctlRestore,
                     treeVars, vars
<1> QED BY <1>3, <1>4, <1>7, <1>8, <1>9, <1>10, <1>11, <1>12 DEF Next

-----------------------------------------------------------------------------
(* The children fit.                                                       *)

\* What SumOfChildren sums.
Ratios(bw) == [g \in Groups |-> Ratio(bw, g)]

LEMMA ChildrenAre ==
  ASSUME NEW bw, NEW t
  PROVE  /\ SumOfChildren(bw, t) = SumFunctionOnSet(Ratios(bw), Children(t))
         /\ Children(t) \subseteq Groups /\ IsFiniteSet(Children(t))
<1>1. Children(t) \subseteq Groups
  BY DEF Children, Live
<1>2. IsFiniteSet(Children(t))
  BY <1>1, FS_Subset, TaskGroupsAssumption
<1> QED BY <1>1, <1>2 DEF SumOfChildren, Ratios

LEMMA RatiosType ==
  ASSUME NEW bw \in [Groups -> Bandwidth], \A g \in Groups : bw[g].period # 0
  PROVE  \A g \in Groups : Ratios(bw)[g] \in Int /\ Ratios(bw)[g] >= 0 /\ Ratios(bw)[g] = Ratio(bw, g)
BY RatioType DEF Ratios

LEMMA ChildrenFitCreate ==
  ASSUME TypeOK, WritersOK, SysctlOK, ChildrenFit,
         NEW g \in Groups, NEW p \in Groups, cpu_cgroup_create(g, p)
  PROVE  ChildrenFit'
<1> DEFINE F == Ratios(rt)
           G == Ratios(rt)'
<1>1. Live' = Live \cup {g} /\ g \notin Live /\ g # Root /\ p \in Live /\ TypeOK'
  BY CreateType
<1>2. \A x \in Groups \ {g} : rt'[x] = rt[x] /\ parent'[x] = parent[x]
  BY DEF cpu_cgroup_create, TypeOK
<1>3. rt'[g].runtime = 0 /\ parent'[g] = p
  BY DEF cpu_cgroup_create, TypeOK
<1>4. \A x \in Groups : F[x] \in Int /\ F[x] >= 0 /\ F[x] = Ratio(rt, x)
  <2>1. rt \in [Groups -> Bandwidth] /\ \A x \in Groups : rt[x].period # 0
    BY DEF TypeOK
  <2> QED BY <2>1, RatiosType
<1>5. \A x \in Groups : G[x] \in Int /\ G[x] >= 0 /\ G[x] = Ratio(rt', x)
  <2>1. rt' \in [Groups -> Bandwidth] /\ \A x \in Groups : rt'[x].period # 0
    BY <1>1 DEF TypeOK
  <2>2. G = Ratios(rt')
    BY DEF Ratios
  <2> QED BY <2>1, <2>2, RatiosType
<1>6. G[g] = 0 /\ \A x \in Groups \ {g} : G[x] = F[x]
  <2>1. rt' \in [Groups -> Bandwidth] /\ rt'[g].period # 0
    BY <1>1 DEF TypeOK
  <2>2. Ratio(rt', g) = 0
    BY <1>3, <2>1, RatioType
  <2>3. \A x \in Groups \ {g} : Ratio(rt', x) = Ratio(rt, x)
    BY <1>2 DEF Ratio
  <2> QED BY <1>4, <1>5, <2>2, <2>3
<1>7. \A t \in {p} : Children(t)' = Children(p) \cup {g} /\ g \notin Children(p)
  BY <1>1, <1>2, <1>3 DEF Children, Live
<1>8. \A t \in {g} : Children(t)' = {}
  <2>1. \A x \in Live \ {Root} : parent[x] \in Live
    BY DEF TypeOK
  <2> QED BY <1>1, <1>2, <1>3, <2>1 DEF Children, Live
<1>9. \A t \in Live \ {p} : Children(t)' = Children(t)
  BY <1>1, <1>2, <1>3 DEF Children, Live
<1> SUFFICES ASSUME NEW t \in Live' PROVE SumFunctionOnSet(G, Children(t)') <= Ratio(rt', t)
  BY DEF ChildrenFit, SumOfChildren, Ratios
<1>10. t \in Live => SumFunctionOnSet(F, Children(t)) <= F[t]
  BY <1>4, ChildrenAre DEF ChildrenFit, Live
<1>11. t \in Live => t \in Groups \ {g}
  BY <1>1 DEF Live
<1> HIDE DEF F, G
<1>12. SumFunctionOnSet(G, Children(t)) = SumFunctionOnSet(F, Children(t))
  <2>1. \A x \in Children(t) : G[x] = F[x]
    BY <1>1, <1>6 DEF Children, Live
  <2> QED BY <2>1, ChildrenAre, SumSame
<1>13. CASE t = g
  <2>1. SumFunctionOnSet(G, {}) = 0
    BY FS_EmptySet, SumZero
  <2> QED BY <1>5, <1>6, <1>8, <1>13, <2>1
<1>14. CASE t = p
  <2> DEFINE C == Children(p) \cup {g}
  <2>1. IsFiniteSet(C) /\ C \subseteq Groups
    BY ChildrenAre, FS_AddElement
  <2>2. SumFunctionOnSet(G, C) = G[g] + SumFunctionOnSet(G, C \ {g})
    BY <1>5, <2>1, SumRemove
  <2>3. C \ {g} = Children(p)
    BY <1>7
  <2>4. SumFunctionOnSet(G, Children(p)) \in Int
    BY <1>5, ChildrenAre, SumType
  <2>5. SumFunctionOnSet(G, Children(t)') = SumFunctionOnSet(G, Children(t))
    <3>1. Children(t)' = C
      BY <1>7, <1>14
    <3> QED BY <1>6, <1>14, <2>2, <2>3, <2>4, <3>1
  <2> QED BY <1>1, <1>5, <1>6, <1>10, <1>11, <1>12, <1>14, <2>5
<1>15. CASE t \in Live \ {p}
  BY <1>5, <1>6, <1>9, <1>10, <1>11, <1>12, <1>15
<1> QED BY <1>1, <1>13, <1>14, <1>15

LEMMA ChildrenFitDestroy ==
  ASSUME TypeOK, WritersOK, SysctlOK, ChildrenFit, NEW g \in Groups, cpu_cgroup_destroy(g)
  PROVE  ChildrenFit'
<1> DEFINE F == Ratios(rt)
<1>1. Live' = Live \ {g} /\ rt' = rt /\ g # Root
  BY DestroyType DEF cpu_cgroup_destroy
<1>2. \A x \in Live' : parent'[x] = parent[x]
  BY <1>1 DEF cpu_cgroup_destroy, TypeOK, Live
<1>3. \A x \in Groups : F[x] \in Int /\ F[x] >= 0 /\ F[x] = Ratio(rt, x)
  <2>1. rt \in [Groups -> Bandwidth] /\ \A x \in Groups : rt[x].period # 0
    BY DEF TypeOK
  <2> QED BY <2>1, RatiosType
<1> SUFFICES ASSUME NEW t \in Live' PROVE SumFunctionOnSet(F, Children(t)') <= Ratio(rt, t)
  BY <1>1 DEF ChildrenFit, SumOfChildren, Ratios
<1>4. t \in Live /\ SumFunctionOnSet(F, Children(t)) <= Ratio(rt, t)
  BY <1>1, ChildrenAre DEF ChildrenFit
<1>5. Children(t)' = Children(t) \ {g}
  BY <1>1, <1>2 DEF Children
<1>6. IsFiniteSet(Children(t)) /\ Children(t) \subseteq Groups /\ IsFiniteSet(Children(t) \ {g})
  BY ChildrenAre, FS_Subset
<1> HIDE DEF F
<1>7. g \in Children(t) =>
        SumFunctionOnSet(F, Children(t)) = F[g] + SumFunctionOnSet(F, Children(t) \ {g})
  BY <1>3, <1>6, SumRemove
<1>8. SumFunctionOnSet(F, Children(t) \ {g}) \in Int
  BY <1>3, <1>6, SumType
<1>9. Ratio(rt, t) \in Int
  BY <1>3, <1>4 DEF Live
<1>10. CASE g \notin Children(t)
  <2>1. Children(t) \ {g} = Children(t)
    BY <1>10
  <2> QED BY <1>4, <1>5, <2>1
<1>11. CASE g \in Children(t)
  BY <1>3, <1>4, <1>5, <1>7, <1>8, <1>9, <1>11
<1> QED BY <1>10, <1>11

LEMMA ChildrenFitKept ==
  ASSUME TypeOK, WritersOK, SysctlOK, ChildrenFit, [Next]_vars
  PROVE  ChildrenFit'
<1>1. ASSUME UNCHANGED << parent, rt >> PROVE ChildrenFit'
  BY <1>1 DEF ChildrenFit, SumOfChildren, Ratio, Children, Live
<1>2. ASSUME NEW w \in Writers, tg_set_rt_bandwidth(w) PROVE ChildrenFit'
  <2>1. CASE rt' = rt
    BY <1>1, <1>2, <2>1 DEF tg_set_rt_bandwidth
  <2>2. CASE rt' = Asked(writer[w], rt) /\ __rt_schedulable(Asked(writer[w], rt))
    <3>1. parent' = parent
      BY <1>2 DEF tg_set_rt_bandwidth
    <3>2. \A t \in Live : SumOfChildren(rt', t) <= Ratio(rt', t)
      BY <2>2 DEF __rt_schedulable, tg_rt_schedulable
    <3> QED BY <3>1, <3>2 DEF ChildrenFit, SumOfChildren, Ratio, Children, Live
  <2> QED BY <1>2, <2>1, <2>2 DEF tg_set_rt_bandwidth
<1>3. ASSUME NEW w \in Writers, tg_set_cfs_bandwidth(w) PROVE ChildrenFit'
  BY <1>1, <1>3 DEF tg_set_cfs_bandwidth
<1>4. ASSUME \/ \E period \in SysPeriods : sched_rt_handler(period, sysctl.runtime)
             \/ \E runtime \in SysRuntimes : sched_rt_handler(sysctl.period, runtime)
             \/ sched_rt_global_constraints \/ SysctlStore \/ SysctlRestore
      PROVE  ChildrenFit'
  BY <1>1, <1>4 DEF sched_rt_handler, sched_rt_global_constraints, SysctlStore, SysctlRestore,
                    treeVars
<1>5. CASE Bystander
  BY <1>1, <1>5, BystanderKeeps
<1> QED BY <1>2, <1>3, <1>4, <1>5, ChildrenFitCreate, ChildrenFitDestroy DEF Next, Bystander

-----------------------------------------------------------------------------
(* The quotas nest.                                                        *)

LEMMA AcyclicKept ==
  ASSUME TypeOK, WritersOK, SysctlOK, Acyclic, [Next]_vars
  PROVE  Acyclic'
<1>1. PICK n \in Nat : \E depth \in [Groups -> 0 .. n] :
               \A x \in Live \ {Root} : depth[parent[x]] < depth[x]
  BY DEF Acyclic
<1>2. PICK depth \in [Groups -> 0 .. n] : \A x \in Live \ {Root} : depth[parent[x]] < depth[x]
  BY <1>1
<1>3. ASSUME NEW g \in Groups, NEW p \in Groups, cpu_cgroup_create(g, p)
      PROVE  Acyclic'
  <2> DEFINE deeper == [depth EXCEPT ![g] = depth[p] + 1]
  <2>1. Live' = Live \cup {g} /\ g \notin Live /\ g # Root /\ p \in Live
    BY <1>3, CreateType
  <2>2. /\ \A x \in Groups \ {g} : parent'[x] = parent[x]
        /\ parent'[g] = p
    BY <1>3 DEF cpu_cgroup_create, TypeOK
  <2>3. deeper \in [Groups -> 0 .. (n + 1)] /\ n + 1 \in Nat
    OBVIOUS
  <2>4. ASSUME NEW x \in Live' \ {Root} PROVE deeper[parent'[x]] < deeper[x]
    <3>1. CASE x = g
      BY <2>1, <2>2, <3>1
    <3>2. CASE x # g
      <4>1. x \in Live \ {Root} /\ x \in Groups /\ parent'[x] = parent[x] /\ parent[x] \in Live
        BY <2>1, <2>2, <3>2 DEF TypeOK, Live
      <4>2. parent[x] # g /\ parent[x] \in Groups
        BY <2>1, <4>1 DEF Live
      <4>3. depth[parent[x]] < depth[x]
        BY <1>2, <4>1
      <4> QED BY <3>2, <4>1, <4>2, <4>3
    <3> QED BY <3>1, <3>2
  <2> HIDE DEF deeper
  <2>5. \E d \in [Groups -> 0 .. (n + 1)] : \A x \in Live' \ {Root} : d[parent'[x]] < d[x]
    BY <2>3, <2>4
  <2> QED BY <2>3, <2>5 DEF Acyclic
<1>4. ASSUME Live' \subseteq Live, \A x \in Live' : parent'[x] = parent[x]
      PROVE  Acyclic'
  <2>1. \A x \in Live' \ {Root} : depth[parent'[x]] < depth[x]
    BY <1>2, <1>4
  <2> QED BY <2>1 DEF Acyclic
<1>5. ASSUME NEW g \in Groups, cpu_cgroup_destroy(g)
      PROVE  Acyclic'
  <2>1. Live' = Live \ {g}
    BY <1>5, DestroyType
  <2>2. \A x \in Live' : parent'[x] = parent[x]
    BY <1>5, <2>1 DEF cpu_cgroup_destroy, TypeOK, Live
  <2> QED BY <1>4, <2>1, <2>2
<1>6. ASSUME parent' = parent PROVE Acyclic'
  BY <1>4, <1>6 DEF Live
<1>7. ASSUME NEW w \in Writers, tg_set_rt_bandwidth(w) \/ tg_set_cfs_bandwidth(w)
      PROVE  Acyclic'
  BY <1>6, <1>7 DEF tg_set_rt_bandwidth, tg_set_cfs_bandwidth
<1>8. ASSUME \/ \E period \in SysPeriods : sched_rt_handler(period, sysctl.runtime)
             \/ \E runtime \in SysRuntimes : sched_rt_handler(sysctl.period, runtime)
             \/ sched_rt_global_constraints \/ SysctlStore \/ SysctlRestore
      PROVE  Acyclic'
  BY <1>6, <1>8 DEF sched_rt_handler, sched_rt_global_constraints, SysctlStore, SysctlRestore,
                    treeVars
<1>9. CASE Bystander
  BY <1>6, <1>9, BystanderKeeps
<1> QED BY <1>3, <1>5, <1>7, <1>8, <1>9 DEF Next, Bystander

\* hierarchal_quota, as a function that refers to itself.
Quota(bw, quota) ==
  quota = [t \in Live |-> IF t = Root THEN RUNTIME_INF
                          ELSE IF bw[t].runtime = RUNTIME_INF THEN quota[parent[t]]
                          ELSE Ratio(bw, t)]

LEMMA QuotaDef ==
  ASSUME NEW bw
  PROVE  Hierarchal(bw) = CHOOSE quota : Quota(bw, quota)
BY DEF Hierarchal, Quota

\* The walk meets the parent of a group before the group.
LEMMA QuotaExists ==
  ASSUME TypeOK, Acyclic, NEW bw
  PROVE  \E quota : Quota(bw, quota)
<1>1. PICK n \in Nat : \E depth \in [Groups -> 0 .. n] :
               \A x \in Live \ {Root} : depth[parent[x]] < depth[x]
  BY DEF Acyclic
<1>2. PICK depth \in [Groups -> 0 .. n] : \A x \in Live \ {Root} : depth[parent[x]] < depth[x]
  BY <1>1
<1> DEFINE Down(k) == {t \in Live : t = Root \/ depth[t] <= k}
           P(k, q) == q = [t \in Down(k) |-> IF t = Root THEN RUNTIME_INF
                                             ELSE IF bw[t].runtime = RUNTIME_INF THEN q[parent[t]]
                                             ELSE Ratio(bw, t)]
           Bad == {k \in Nat : ~ \E q : P(k, q)}
<1>3. Root \in Live /\ Live \subseteq Groups /\ \A t \in Live \ {Root} : parent[t] \in Live
  BY TaskGroupsAssumption DEF Live, TypeOK
<1>4. \A t \in Groups : depth[t] \in Nat /\ depth[t] <= n
  OBVIOUS
<1>5. ASSUME NEW k \in Nat, NEW t \in Down(k), t # Root
      PROVE  k # 0 /\ parent[t] \in Down(k - 1)
  <2>1. t \in Live \ {Root} /\ depth[t] <= k /\ t \in Groups
    BY <1>3, <1>5
  <2>2. depth[parent[t]] < depth[t] /\ parent[t] \in Live /\ parent[t] \in Groups
    BY <1>2, <1>3, <2>1
  <2>3. depth[parent[t]] \in Nat /\ depth[t] \in Nat
    BY <1>4, <2>1, <2>2
  <2> QED BY <2>1, <2>2, <2>3
<1>6. \A k \in Nat : \E q : P(k, q)
  <2> SUFFICES ASSUME Bad # {} PROVE FALSE
    OBVIOUS
  <2>1. PICK k \in Bad : \A m \in Bad : k <= m
    <3>1. Bad \in SUBSET Nat
      OBVIOUS
    <3> HIDE DEF Bad
    <3> QED BY <3>1, LeastElement
  <2>2. k # 0
    <3>1. Down(0) = {Root}
      <4>1. \A t \in Down(0) : t = Root
        BY <1>5
      <4> QED BY <1>3, <4>1
    <3>2. P(0, [t \in {Root} |-> RUNTIME_INF])
      BY <3>1
    <3>3. 0 \notin Bad
      <4> HIDE DEF P
      <4> QED BY <3>2
    <3> HIDE DEF Bad
    <3> QED BY <2>1, <3>3
  <2>3. k \in Nat /\ k - 1 \in Nat /\ k - 1 \notin Bad
    <3>1. k \in Nat
      OBVIOUS
    <3> HIDE DEF Bad
    <3> QED BY <2>1, <2>2, <3>1
  <2>4. PICK q : P(k - 1, q)
    BY <2>3
  <2> DEFINE r == [t \in Down(k) |-> IF t = Root THEN RUNTIME_INF
                                     ELSE IF bw[t].runtime = RUNTIME_INF THEN q[parent[t]]
                                     ELSE Ratio(bw, t)]
  <2>5. ASSUME NEW t \in Down(k - 1) PROVE t \in Down(k) /\ r[t] = q[t]
    <3>1. t \in Down(k)
      BY <1>3, <1>4, <2>3
    <3>2. q[t] = IF t = Root THEN RUNTIME_INF
                 ELSE IF bw[t].runtime = RUNTIME_INF THEN q[parent[t]] ELSE Ratio(bw, t)
      BY <2>4
    <3> QED BY <3>1, <3>2
  <2>6. P(k, r)
    <3>1. ASSUME NEW t \in Down(k)
          PROVE  r[t] = IF t = Root THEN RUNTIME_INF
                        ELSE IF bw[t].runtime = RUNTIME_INF THEN r[parent[t]] ELSE Ratio(bw, t)
      <4>1. t # Root => parent[t] \in Down(k - 1)
        BY <1>5, <2>3
      <4> HIDE DEF Down
      <4> QED BY <2>5, <4>1
    <3> HIDE DEF Down
    <3> QED BY <3>1
  <2> QED BY <2>1, <2>6
<1>7. Down(n) = Live
  BY <1>3, <1>4
<1>8. PICK q : P(n, q)
  BY <1>6
<1>9. q = [t \in Live |-> IF t = Root THEN RUNTIME_INF
                          ELSE IF bw[t].runtime = RUNTIME_INF THEN q[parent[t]]
                          ELSE Ratio(bw, t)]
  <2> HIDE DEF Down
  <2> QED BY <1>7, <1>8
<1> QED BY <1>9 DEF Quota

LEMMA QuotaIs ==
  ASSUME TypeOK, Acyclic, NEW bw, NEW t \in Live
  PROVE  Hierarchal(bw)[t] = IF t = Root THEN RUNTIME_INF
                             ELSE IF bw[t].runtime = RUNTIME_INF THEN Hierarchal(bw)[parent[t]]
                             ELSE Ratio(bw, t)
<1> DEFINE q == CHOOSE quota : Quota(bw, quota)
<1>1. Quota(bw, q) /\ Hierarchal(bw) = q
  BY QuotaExists, QuotaDef
<1> HIDE DEF q
<1>2. q[t] = IF t = Root THEN RUNTIME_INF
             ELSE IF bw[t].runtime = RUNTIME_INF THEN q[parent[t]] ELSE Ratio(bw, t)
  BY <1>1 DEF Quota
<1> QED BY <1>1, <1>2

\* What is above a group is its parent, or above its parent.
LEMMA AboveIs ==
  ASSUME TypeOK, NEW t \in Live \ {Root}, NEW a \in Above(t)
  PROVE  a = parent[t] \/ (parent[t] # Root /\ a \in Above(parent[t]))
<1> DEFINE p == parent[t]
<1>1. p \in Live /\ Root \in Live /\ a \in Live
  BY TaskGroupsAssumption DEF TypeOK, Live, Above
<1>2. \A S \in SUBSET Live : p \in S /\ (\A g \in S \ {Root} : parent[g] \in S) => a \in S
  BY DEF Above
<1>3. CASE p = Root
  <2>1. {Root} \in SUBSET Live
    BY <1>1
  <2> QED BY <1>2, <1>3, <2>1
<1>4. CASE p # Root /\ a # p
  <2>1. ASSUME NEW S \in SUBSET Live, parent[p] \in S, \A g \in S \ {Root} : parent[g] \in S
        PROVE  a \in S
    <3>1. S \cup {p} \in SUBSET Live
      BY <1>1
    <3>2. \A g \in (S \cup {p}) \ {Root} : parent[g] \in S \cup {p}
      BY <2>1
    <3> HIDE DEF p
    <3>3. a \in S \cup {p}
      BY <1>2, <3>1, <3>2
    <3> QED BY <1>4, <3>3
  <2> QED BY <1>1, <1>4, <2>1 DEF Above
<1> QED BY <1>3, <1>4

\* A group that may not have more than the quota that binds its parent has no
\* more than any group above it: the quota that binds a group is at most that
\* of each limited group above.
LEMMA CheckedQuotasNest ==
  ASSUME TypeOK, Acyclic, NEW bw \in [Groups -> Bandwidth],
         \A g \in Groups : bw[g].period # 0, bw[Root].runtime = RUNTIME_INF,
         __cfs_schedulable(bw), NEW u \in Live \ {Root}, NEW b \in Above(u),
         bw[u].runtime # RUNTIME_INF, bw[b].runtime # RUNTIME_INF
  PROVE  Ratio(bw, u) <= Ratio(bw, b)
<1> DEFINE q == Hierarchal(bw)
           Bound(t, a) == bw[a].runtime # RUNTIME_INF => q[t] # RUNTIME_INF /\ q[t] <= Ratio(bw, a)
           Good(t) == q[t] \in Int /\ Bound(t, t) /\ (t # Root => \A a \in Above(t) : Bound(t, a))
<1>1. PICK n \in Nat : \E depth \in [Groups -> 0 .. n] :
               \A x \in Live \ {Root} : depth[parent[x]] < depth[x]
  BY DEF Acyclic
<1>2. PICK depth \in [Groups -> 0 .. n] : \A x \in Live \ {Root} : depth[parent[x]] < depth[x]
  BY <1>1
<1>3. Live \subseteq Groups /\ \A t \in Live \ {Root} : parent[t] \in Live
  BY DEF Live, TypeOK
<1>4. \A t \in Live : q[t] = IF t = Root THEN RUNTIME_INF
                             ELSE IF bw[t].runtime = RUNTIME_INF THEN q[parent[t]]
                             ELSE Ratio(bw, t)
  BY QuotaIs
<1>5. \A t \in Live \ {Root} :
        bw[t].runtime = RUNTIME_INF \/ q[parent[t]] = RUNTIME_INF \/ Ratio(bw, t) <= q[parent[t]]
  BY DEF __cfs_schedulable, tg_cfs_schedulable_down
<1>6. \A t \in Live : /\ Ratio(bw, t) \in Nat
                      /\ bw[t].runtime # RUNTIME_INF => Ratio(bw, t) < RUNTIME_INF
  BY <1>3, RatioType
<1>7. \A t \in Live \ {Root} : Above(t) \subseteq Live
  BY DEF Above
<1>8. RUNTIME_INF \in Int
  BY TaskGroupsAssumption DEF RUNTIME_INF
<1> HIDE DEF q
<1>9. ASSUME NEW t \in Live \ {Root}, Good(parent[t])
      PROVE  Good(t)
  <2> DEFINE p == parent[t]
  <2>1. p \in Live
    BY <1>3
  <2>2. ASSUME NEW a \in Above(t) PROVE Bound(p, a)
    BY <1>9, <2>2, AboveIs
  <2>3. CASE bw[t].runtime = RUNTIME_INF
    <3>1. q[t] = q[p]
      BY <1>4, <2>3
    <3> QED BY <1>9, <2>2, <2>3, <3>1
  <2>4. CASE bw[t].runtime # RUNTIME_INF
    <3>1. q[t] = Ratio(bw, t) /\ q[t] # RUNTIME_INF /\ q[t] \in Nat
      BY <1>4, <1>6, <1>8, <2>4
    <3>2. ASSUME NEW a \in Above(t), bw[a].runtime # RUNTIME_INF
          PROVE  q[t] <= Ratio(bw, a)
      <4>1. q[p] # RUNTIME_INF /\ q[p] <= Ratio(bw, a)
        BY <2>2, <3>2
      <4>2. Ratio(bw, t) <= q[p]
        BY <1>5, <2>4, <4>1
      <4>3. q[p] \in Int
        BY <1>9
      <4>4. Ratio(bw, a) \in Int
        BY <1>6, <1>7
      <4> QED BY <3>1, <4>1, <4>2, <4>3, <4>4
    <3> QED BY <3>1, <3>2
  <2> QED BY <2>3, <2>4
<1>10. Good(Root)
  <2>1. q[Root] = RUNTIME_INF
    BY <1>4, TaskGroupsAssumption DEF Live
  <2> QED BY <1>8, <2>1
<1> DEFINE Bad == {t \in Live : ~Good(t)}
           Depths == {depth[t] : t \in Bad}
<1> HIDE DEF Good
<1>11. Bad = {}
  <2> SUFFICES ASSUME Bad # {} PROVE FALSE
    OBVIOUS
  <2>1. Depths \in SUBSET Nat /\ Depths # {}
    BY <1>3
  <2> HIDE DEF Depths
  <2>2. PICK k \in Depths : \A m \in Depths : k <= m
    BY <2>1, LeastElement
  <2>3. PICK t \in Bad : k = depth[t]
    BY DEF Depths
  <2>4. t \in Live \ {Root} /\ parent[t] \in Live /\ depth[parent[t]] < depth[t]
    BY <1>2, <1>3, <1>10
  <2>5. parent[t] \notin Bad
    <3>1. depth[parent[t]] \in Nat /\ depth[t] \in Nat
      BY <1>3, <2>4
    <3>2. parent[t] \in Bad => depth[parent[t]] \in Depths
      BY DEF Depths
    <3> QED BY <2>2, <2>3, <2>4, <3>1, <3>2
  <2> QED BY <1>9, <2>3, <2>4, <2>5
<1>12. q[u] = Ratio(bw, u) /\ Bound(u, b)
  BY <1>4, <1>11 DEF Good
<1> QED BY <1>12

LEMMA QuotasKept ==
  ASSUME TypeOK, WritersOK, SysctlOK, Acyclic, cfs[Root].runtime = RUNTIME_INF, QuotasNest,
         [Next]_vars
  PROVE  QuotasNest' /\ cfs'[Root].runtime = RUNTIME_INF
<1> USE DEF Ratio
<1>1. \A g \in Live \ {Root} : parent[g] \in Live \ {g}
  BY DEF TypeOK
<1>2. ASSUME NEW g \in Groups, NEW p \in Groups, cpu_cgroup_create(g, p)
      PROVE  QuotasNest' /\ cfs'[Root].runtime = RUNTIME_INF
  <2>1. Live' = Live \cup {g} /\ g \notin Live /\ g # Root
    BY <1>2, CreateType
  <2>2. /\ \A x \in Groups \ {g} : parent'[x] = parent[x] /\ cfs'[x] = cfs[x]
        /\ cfs'[g].runtime = RUNTIME_INF
    BY <1>2 DEF cpu_cgroup_create, TypeOK
  <2>3. Live \subseteq Groups /\ Root \in Groups
    BY TaskGroupsAssumption DEF Live
  <2>4. ASSUME NEW t \in Live \ {Root}, NEW a \in Above(t)'
        PROVE  a \in Above(t)
    <3>1. \A S \in SUBSET Live' :
            parent'[t] \in S /\ (\A x \in S \ {Root} : parent'[x] \in S) => a \in S
      BY DEF Above
    <3>2. \A x \in Live : parent'[x] = parent[x]
      BY <2>1, <2>2, <2>3
    <3>3. \A S \in SUBSET Live :
            parent[t] \in S /\ (\A x \in S \ {Root} : parent[x] \in S) => a \in S
      BY <2>1, <3>1, <3>2
    <3>4. a \in Live
      BY <1>1, <3>3
    <3> QED BY <3>3, <3>4 DEF Above
  <2>5. ASSUME NEW t \in Live' \ {Root}, NEW a \in Above(t)',
               cfs'[t].runtime # RUNTIME_INF, cfs'[a].runtime # RUNTIME_INF
        PROVE  Ratio(cfs', t) <= Ratio(cfs', a)
    <3>1. t \in Live \ {Root}
      BY <2>1, <2>2, <2>5
    <3>2. a \in Above(t) /\ a \in Live
      BY <2>4, <3>1 DEF Above
    <3>3. cfs'[t] = cfs[t] /\ cfs'[a] = cfs[a]
      BY <2>1, <2>2, <2>3, <3>1, <3>2
    <3> QED BY <2>5, <3>1, <3>2, <3>3 DEF QuotasNest
  <2> QED BY <2>1, <2>2, <2>3, <2>5 DEF QuotasNest
<1>3. ASSUME NEW g \in Groups, cpu_cgroup_destroy(g)
      PROVE  QuotasNest' /\ cfs'[Root].runtime = RUNTIME_INF
  <2>1. Live' = Live \ {g} /\ cfs' = cfs /\ \A x \in Live \ {Root} : parent[x] # g
    BY <1>3, DestroyType DEF cpu_cgroup_destroy
  <2>2. \A x \in Live' : parent'[x] = parent[x]
    BY <1>3, <2>1 DEF cpu_cgroup_destroy, TypeOK, Live
  <2>3. ASSUME NEW t \in Live' \ {Root}, NEW a \in Above(t)'
        PROVE  a \in Above(t)
    <3>1. \A S \in SUBSET Live' :
            parent'[t] \in S /\ (\A x \in S \ {Root} : parent'[x] \in S) => a \in S
      BY DEF Above
    <3>2. ASSUME NEW S \in SUBSET Live, parent[t] \in S, \A x \in S \ {Root} : parent[x] \in S
          PROVE  a \in S
      <4>1. S \ {g} \in SUBSET Live' /\ parent'[t] \in S \ {g}
        BY <2>1, <2>2, <3>2
      <4>2. \A x \in (S \ {g}) \ {Root} : parent'[x] \in S \ {g}
        BY <2>1, <2>2, <3>2
      <4> QED BY <3>1, <4>1, <4>2
    <3>3. a \in Live
      BY <2>1 DEF Above
    <3> QED BY <3>2, <3>3 DEF Above
  <2> QED BY <2>1, <2>3 DEF QuotasNest
<1>4. ASSUME UNCHANGED << parent, cfs >>
      PROVE  QuotasNest' /\ cfs'[Root].runtime = RUNTIME_INF
  BY <1>4 DEF QuotasNest, Above, Live
<1>5. ASSUME NEW w \in Writers, tg_set_cfs_bandwidth(w)
      PROVE  QuotasNest' /\ cfs'[Root].runtime = RUNTIME_INF
  <2> DEFINE bw == Asked(writer[w], cfs)
  <2>1. CASE cfs' = cfs
    BY <1>4, <1>5, <2>1 DEF tg_set_cfs_bandwidth
  <2>2. CASE /\ cfs' = bw /\ __cfs_schedulable(bw) /\ writer[w].tg # Root
    <3>1. bw[Root].runtime = RUNTIME_INF
      BY <2>2, TaskGroupsAssumption DEF Asked, TypeOK
    <3>2. TypeOK' /\ parent' = parent /\ Live' = Live
      BY <1>5, SetCfsType DEF tg_set_cfs_bandwidth
    <3>3. bw \in [Groups -> Bandwidth] /\ \A g \in Groups : bw[g].period # 0
      <4>1. cfs' \in [Groups -> Bandwidth] /\ \A g \in Groups : cfs'[g].period \in MinCfs .. MaxCfs
        BY <3>2 DEF TypeOK
      <4> QED BY <2>2, <4>1, TaskGroupsAssumption
    <3> HIDE DEF bw
    <3>4. ASSUME NEW t \in Live \ {Root}, NEW a \in Above(t),
                 bw[t].runtime # RUNTIME_INF, bw[a].runtime # RUNTIME_INF
          PROVE  Ratio(bw, t) <= Ratio(bw, a)
      BY <2>2, <3>1, <3>3, <3>4, CheckedQuotasNest
    <3>5. \A t \in Live \ {Root} : Above(t)' = Above(t)
      BY <3>2 DEF Above
    <3> QED BY <2>2, <3>1, <3>2, <3>4, <3>5 DEF QuotasNest
  <2> QED BY <1>5, <2>1, <2>2 DEF tg_set_cfs_bandwidth
<1>6. ASSUME NEW w \in Writers, tg_set_rt_bandwidth(w)
      PROVE  QuotasNest' /\ cfs'[Root].runtime = RUNTIME_INF
  BY <1>4, <1>6 DEF tg_set_rt_bandwidth
<1>7. ASSUME \/ \E period \in SysPeriods : sched_rt_handler(period, sysctl.runtime)
             \/ \E runtime \in SysRuntimes : sched_rt_handler(sysctl.period, runtime)
             \/ sched_rt_global_constraints \/ SysctlStore \/ SysctlRestore
      PROVE  QuotasNest' /\ cfs'[Root].runtime = RUNTIME_INF
  BY <1>4, <1>7 DEF sched_rt_handler, sched_rt_global_constraints, SysctlStore, SysctlRestore,
                    treeVars
<1>8. CASE Bystander
  BY <1>4, <1>8, BystanderKeeps
<1> QED BY <1>2, <1>3, <1>5, <1>6, <1>7, <1>8 DEF Next, Bystander

-----------------------------------------------------------------------------
(* The theorems.                                                           *)

LEMMA Initially == Init => IInv
<1> SUFFICES ASSUME Init PROVE IInv
  OBVIOUS
<1>1. TypeOK /\ WritersOK /\ SysctlOK
  BY StartType
<1>2. Live = {Root} /\ Root \in Groups
  BY TaskGroupsAssumption DEF Init, Live
<1>3. rt[Root].period = DefaultPeriod /\ rt[Root].runtime = DefaultRuntime
      /\ sysctl.period = DefaultPeriod /\ sysctl.runtime = DefaultRuntime /\ handler.at = "no"
      /\ cfs[Root].runtime = RUNTIME_INF
  BY <1>2 DEF Init, NoHandler
<1>4. DefaultPeriod \in Nat \ {0} /\ DefaultRuntime \in Nat
  BY TaskGroupsAssumption
<1>5. LimitsOK
  <2>1. to_ratio(DefaultPeriod, ToRuntime(DefaultRuntime)) \in Nat
    BY <1>4, LimitType
  <2>2. ToRuntime(DefaultRuntime) = DefaultRuntime
    BY <1>4 DEF ToRuntime
  <2>3. Within(sysctl.period, sysctl.runtime)
    BY <1>2, <1>3, <2>1, <2>2 DEF Within, Ratio
  <2> QED BY <1>3, <2>3 DEF LimitsOK
<1>6. TargetsOK
  BY DEF Init, TargetsOK
<1>7. ChildrenFit
  <2>1. Children(Root) = {}
    BY <1>2 DEF Children
  <2>2. SumOfChildren(rt, Root) = 0
    BY <2>1, FS_EmptySet, SumZero DEF SumOfChildren
  <2>3. Ratio(rt, Root) \in Nat
    BY <1>1, <1>2, RatioType DEF TypeOK
  <2> QED BY <1>2, <2>2, <2>3 DEF ChildrenFit
<1>8. Acyclic
  <2>1. [g \in Groups |-> 0] \in [Groups -> 0 .. 0] /\ 0 \in Nat
    OBVIOUS
  <2> QED BY <1>2, <2>1 DEF Acyclic
<1>9. QuotasNest
  BY <1>2 DEF QuotasNest
<1> QED BY <1>1, <1>3, <1>5, <1>6, <1>7, <1>8, <1>9 DEF IInv, TreeInv

\* Every step keeps the types.
LEMMA TypesKept ==
  ASSUME TypeOK, WritersOK, SysctlOK, [Next]_vars
  PROVE  TypeOK' /\ WritersOK' /\ SysctlOK'
<1>1. CASE UNCHANGED vars
  BY <1>1 DEF vars, TypeOK, WritersOK, SysctlOK, Live
<1> QED BY <1>1, CreateType, DestroyType, FileType, SetRtType, SetCfsType, SysctlType, TaskType
        DEF Next

LEMMA Step == IInv /\ [Next]_vars => IInv'
<1> SUFFICES ASSUME IInv, [Next]_vars PROVE IInv'
  OBVIOUS
<1> USE DEF IInv, TreeInv
<1>1. TypeOK' /\ WritersOK' /\ SysctlOK'
  BY TypesKept
<1>2. LimitsOK' /\ TargetsOK' /\ ChildrenFit' /\ Acyclic'
  BY LimitsKept, TargetsKept, ChildrenFitKept, AcyclicKept
<1>3. QuotasNest' /\ cfs'[Root].runtime = RUNTIME_INF
  BY QuotasKept
<1> QED BY <1>1, <1>2, <1>3

\* The inductive invariant holds in every state of the program.
THEOREM Inductive == Spec => []IInv
<1> USE DEF Spec
<1> QED BY Initially, Step, PTL

\* core.c, __rt_schedulable: however the readings and the checks of the writers
\* overlap, groups come and go and the sysctls change, what the children of a
\* group may have between them is never more than it may have itself, and the
\* groups stay a tree.
THEOREM TreeSchedulable == Spec => []Consistent
<1>1. IInv => Consistent
  BY DEF IInv, TreeInv, Consistent
<1> QED BY <1>1, Inductive, PTL

\* core.c, sched_rt_handler: at rest no group has more than the sysctls allow,
\* but for a write that was accepted against a sysctl refused later.
THEOREM LimitsRespected == Spec => []OnlyRefusedSysctlsLetMoreBy
<1>1. IInv => OnlyRefusedSysctlsLetMoreBy
  BY DEF IInv, LimitsOK, Within, OnlyRefusedSysctlsLetMoreBy, GlobalRatio
<1> QED BY <1>1, Inductive, PTL

\* core.c, tg_rt_schedulable: the only division by zero is by a sysctl's period
\* that the handler has stored and not yet refused.
THEOREM DivisionsSafe == Spec => OnlyUncheckedPeriodDivides
<1>1. IInv /\ [Next]_vars =>
        [oops' /\ ~oops => handler.at \in {"check", "restore"} /\ sysctl.period = 0]_vars
  BY ZeroDivides DEF IInv
<1> QED BY <1>1, Inductive, PTL DEF Spec, OnlyUncheckedPeriodDivides

\* core.c, tg_has_rt_tasks and sched_rt_can_attach: the ways in which a real-time
\* task comes to be without runtime are the four that the property names.
THEOREM StarvationExplained == Spec => OnlyKnownWaysStarve
<1>1. IInv /\ [Next]_vars =>
        [\A p \in Tasks : Starved(p)' /\ ~Starved(p) =>
           LET g == task[p].group
           IN  \/ g # Root /\ rt'[g].runtime # rt[g].runtime
               \/ p \in overtaken /\ task'[p].group # g
               \/ task'[p].boosted /\ ~task[p].boosted
               \/ sysctl'.runtime # sysctl.runtime]_vars
  BY WaysToStarve DEF IInv
<1> QED BY <1>1, Inductive, PTL DEF Spec, OnlyKnownWaysStarve

\* core.c, tg_cfs_schedulable_down: whatever unlimited groups are in between, no
\* group has a larger share of quota than any group above it.
THEOREM QuotasHierarchical == Spec => []QuotasNest
<1>1. IInv => QuotasNest
  BY DEF IInv, TreeInv
<1> QED BY <1>1, Inductive, PTL
=============================================================================
