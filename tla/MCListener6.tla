---------------------------- MODULE MCListener6 ----------------------------
(* Instances of Listener6 for TLC: the cfg gives the constants.  Its         *)
(* liveness property rules out symmetry.                                     *)
EXTENDS Listener6
=============================================================================
