---------------------------- MODULE BoundedFifo ----------------------------
(***************************************************************************)
(* What a BTTelnet buffer promises its users, without positions or memory: *)
(* a queue of at most Size bytes.  A caller that puts gets as much of its  *)
(* chunk appended as fits, and is told how much that was; a caller that    *)
(* takes or peeks is handed a prefix of the queue; bytes never change,     *)
(* overtake one another or appear twice.  BTTelnet/Module/buffer.c is      *)
(* shown to implement it in module Buffer.                                 *)
(***************************************************************************)
EXTENDS Integers, Sequences

CONSTANTS Size,     \* capacity in bytes
          Chunks,   \* the runs of bytes that callers offer
          Amounts   \* the numbers of bytes that callers ask for

VARIABLES queue,    \* the bytes held, oldest first
          out,      \* the bytes the last operation handed to its caller
          result    \* the count the last operation returned

fvars == <<queue, out, result>>

FifoInit == queue = <<>> /\ out = <<>> /\ result = 0

(* The part of the chunk that fits is appended, and its length returned. *)
Put(s) == /\ result' \in 0..Len(s)
          /\ queue' = queue \o SubSeq(s, 1, result')
          /\ \/ result' = Len(s) /\ Len(queue') <= Size
             \/ result' < Len(s) /\ Len(queue') = Size
          /\ out' = <<>>

(* Of n bytes asked for, as many as there are. *)
Granted(n) == IF n < Len(queue) THEN n ELSE Len(queue)

(* The oldest n bytes leave the queue: handed to the caller, or unseen. *)
Take(n) == /\ result' = Granted(n)
           /\ queue' = SubSeq(queue, result' + 1, Len(queue))
           /\ out' \in {SubSeq(queue, 1, result'), <<>>}

(* The caller is handed a copy of the oldest n bytes. *)
Peek(n) == /\ result' = Granted(n)
           /\ out' = SubSeq(queue, 1, result')
           /\ queue' = queue

FifoNext == \/ \E s \in Chunks : Put(s)
            \/ \E n \in Amounts : Take(n) \/ Peek(n)

FifoSpec == FifoInit /\ [][FifoNext]_fvars
=============================================================================
