------------------------------- MODULE MCSched -------------------------------
(***************************************************************************)
(* Module Sched on a few tasks, for TLC.                                   *)
(***************************************************************************)
EXTENDS SchedProps, TLC

\* The tasks but the first one are interchangeable.
Symmetry == Permutations(Tasks \ {InitTask})
=============================================================================
