---------------------------- MODULE MCRnConfig ----------------------------
(***************************************************************************)
(* RnConfig for TLC.  The two guards are alike: no template of theirs has  *)
(* variables or is malformed, and both may name any tracker.               *)
(***************************************************************************)
EXTENDS RnConfig, TLC

MCSymmetry == Permutations(Guards)
=============================================================================
