----------------------------- MODULE MCProcTree -----------------------------
(***************************************************************************)
(* Module ProcTree on a few tasks, for TLC.                                *)
(***************************************************************************)
EXTENDS ProcTree, TLC

\* Tasks but init, callers and modules are interchangeable.
Symmetry ==
  Permutations(Tasks \ {InitTask}) \cup Permutations(Callers) \cup Permutations(Mods)

\* Bound: only in trees of one or two tasks two processes have called, at once
\* or one after the other, and two modules are loaded.
OneCallInLargeTrees ==
  Cardinality({t \in Tasks : Live(t)}) > 2 =>
    /\ Cardinality({c \in Callers : pc[c] # "user" \/ user[c].ret = 1 \/ user[c].recs > 0}) <= 1
    /\ Len(loaded) <= 1
=============================================================================
