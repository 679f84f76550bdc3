---------------------------- MODULE MCEngagement ----------------------------
(* Instances of Engagement for TLC.                                         *)
EXTENDS Engagement, TLC

Symmetry == Permutations(Users) \cup Permutations(Requests) \cup Permutations(Ids)

=============================================================================
