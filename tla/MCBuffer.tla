------------------------------ MODULE MCBuffer ------------------------------
(* A buffer of Size cells, chunks of up to MaxChunk bytes, so that a chunk
   may be longer than the buffer, and amounts past the size. *)
EXTENDS Buffer

CONSTANTS MaxChunk, MaxAmount

MCChunks  == UNION {[1..n -> Byte] : n \in 0..MaxChunk}
MCAmounts == 0..MaxAmount
=============================================================================
