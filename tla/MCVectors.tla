----------------------------- MODULE MCVectors -----------------------------
(* Module Vectors on small instances; the configurations say which. *)
EXTENDS Vectors
=============================================================================
