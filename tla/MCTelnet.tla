------------------------------ MODULE MCTelnet ------------------------------
(* Instances of Telnet for TLC. *)
EXTENDS Telnet
=============================================================================
