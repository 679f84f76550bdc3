---------------------------- MODULE MCPublishing ----------------------------
(* Instances of Publishing for TLC.                                         *)
EXTENDS Publishing, TLC

Symmetry == Permutations(Requests)

=============================================================================
