----------------------------- MODULE MCLifeCycle -----------------------------
(* Instance of LifeCycle for TLC. *)
EXTENDS LifeCycle

CONSTANTS p1, c1, c2
=============================================================================
