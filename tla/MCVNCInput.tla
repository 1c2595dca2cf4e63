------------------------------ MODULE MCVNCInput ------------------------------
(* Two connections to servers whose messages are of two and three bytes. *)
EXTENDS VNCInput
=============================================================================
