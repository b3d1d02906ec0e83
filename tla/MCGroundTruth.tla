---------------------------- MODULE MCGroundTruth ----------------------------
(* Two keys, so that a clean one meets one the normal traffic shares. *)
EXTENDS GroundTruth, TLC

MCSymmetry == Permutations(Key)
=============================================================================
