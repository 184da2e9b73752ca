--------------------------- MODULE MCLogCompression ---------------------------
(* Instance of LogCompression for TLC. *)
EXTENDS LogCompression

CONSTANTS a, b
=============================================================================
