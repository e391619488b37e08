--------------------------- MODULE MCBurgerBuddies ---------------------------
(***************************************************************************)
(* BurgerBuddies with a few threads, for TLC.                              *)
(***************************************************************************)
EXTENDS BurgerBuddies, TLC
=============================================================================
