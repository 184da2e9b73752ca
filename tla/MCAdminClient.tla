----------------------------- MODULE MCAdminClient -----------------------------
(* Instance of AdminClient for TLC. *)
EXTENDS AdminClient

CONSTANTS c1, c2
=============================================================================
