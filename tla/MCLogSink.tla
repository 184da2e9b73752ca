------------------------------ MODULE MCLogSink ------------------------------
(* Instances of LogSink for TLC. *)
EXTENDS LogSink, TLC
=============================================================================
