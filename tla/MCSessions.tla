----------------------------- MODULE MCSessions -----------------------------
(* Module Sessions for TLC. *)
EXTENDS Sessions
=============================================================================
