---------------------------- MODULE MCSocialGraph ----------------------------
(* Instances of SocialGraph for TLC: users and requests are model values.   *)
EXTENDS SocialGraph, TLC

=============================================================================
