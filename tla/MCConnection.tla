---------------------------- MODULE MCConnection ----------------------------
(* The set-up of a connection, for TLC. *)
EXTENDS Connection
=============================================================================
