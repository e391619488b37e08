----------------------------- MODULE MCCalcLoad -----------------------------
(***************************************************************************)
(* Module CalcLoad on a few CPUs, for TLC.                                 *)
(***************************************************************************)
EXTENDS CalcLoad, TLC

\* The CPUs are interchangeable.
Symmetry == Permutations(Cpus)
=============================================================================
