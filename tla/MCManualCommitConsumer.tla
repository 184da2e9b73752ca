----------------------- MODULE MCManualCommitConsumer -----------------------
(* Instances of ManualCommitConsumer for TLC. *)
EXTENDS ManualCommitConsumer, TLC
=============================================================================
