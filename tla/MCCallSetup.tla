---------------------------- MODULE MCCallSetup ----------------------------
(* Alice and Bob call each other. *)
EXTENDS CallSetup, TLC

Symmetry == Permutations(Peers)
=============================================================================
