---------------------------- MODULE MCSchedLive ----------------------------
(***************************************************************************)
(* Module SchedLive on a few tasks, for TLC.                               *)
(***************************************************************************)
EXTENDS SchedLive, TLC
=============================================================================
