----------------------------- MODULE MCSchedSMP -----------------------------
(***************************************************************************)
(* Module SchedSMP on two CPUs, for TLC.                                   *)
(***************************************************************************)
EXTENDS SchedSMP, TLC

CONSTANTS t1, t2, t3

\* t2 is less urgent than the others, which are interchangeable, as the CPUs are.
Priorities == [t \in Tasks |-> IF t = t2 THEN 2 ELSE 1]

AnyMask == (SUBSET Cpus) \ {{}}

Symmetry == Permutations(Cpus) \cup Permutations({t1, t3})
=============================================================================
