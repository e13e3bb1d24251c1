---------------------------- MODULE MCZerobusFeed ----------------------------
(***************************************************************************)
(* Instances of ZerobusFeed: two runs of the push task, of up to two       *)
(* batches each, on a clock that crosses midnight.                         *)
(***************************************************************************)
EXTENDS ZerobusFeed

=============================================================================
