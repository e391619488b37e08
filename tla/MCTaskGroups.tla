---------------------------- MODULE MCTaskGroups ----------------------------
(***************************************************************************)
(* Module TaskGroups on a few groups, for TLC.                             *)
(***************************************************************************)
EXTENDS TaskGroups, TLC

\* The groups but the root, and the writers, are interchangeable.
Symmetry == Permutations(Groups \ {Root}) \cup Permutations(Writers)

\* No limit, the limit at boot, and one that is refused.
Written == {-1, 1, 3}

\* Nothing of the one kind of bandwidth has changed since boot.
RtAtBoot ==
  /\ \A g \in Groups : rt[g] = [period  |-> DefaultPeriod,
                              runtime |-> IF g = Root THEN DefaultRuntime ELSE 0]
  /\ \A p \in Tasks : task[p].group = Root /\ task[p].target = None /\ ~rt_task(p)
  /\ \A w \in Writers : writer[w].file # "rt"
  /\ handler = NoHandler
  /\ sysctl = [period |-> DefaultPeriod, runtime |-> DefaultRuntime]

CfsAtBoot ==
  /\ \A g \in Groups : cfs[g] = [period |-> DefaultCfsPeriod, runtime |-> RUNTIME_INF]
  /\ \A w \in Writers : writer[w].file # "cfs"

\* Bound: the two kinds, which share nothing but the tree, are not changed in
\* one behaviour, and the third level of the tree is for quotas.
OneKind ==
  /\ RtAtBoot \/ CfsAtBoot
  /\ Cardinality(Live) > 3 => RtAtBoot
=============================================================================
