------------------------------- MODULE MCFeeds -------------------------------
(* An instance of Feeds for TLC: one read of the timeline, where everything  *)
(* may change.  (Reads are also a part of MCContent.)                        *)
EXTENDS Feeds

=============================================================================
