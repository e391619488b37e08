--------------------------- MODULE MCRtBandwidth ---------------------------
(***************************************************************************)
(* Module RtBandwidth on two CPUs, for TLC.                                *)
(***************************************************************************)
EXTENDS RtBandwidth

\* The limit is taken away.
Written == {-1}
=============================================================================
