------------------------------- MODULE Buffer -------------------------------
(***************************************************************************)
(* The linear byte buffer of BTTelnet/Module/buffer.c, which each session  *)
(* uses three times (read, write, work).  Every bufferCreate of the module *)
(* asks for a linear buffer, so the circular branches are not modelled.    *)
(*                                                                         *)
(* The counters are CARD32; writePos and used never pass size, which is    *)
(* 4096, so the width does not matter here.  The callers' amounts may be   *)
(* anything: telnetWork can pass a wrapped counter to bufferDrain.         *)
(***************************************************************************)
EXTENDS Integers, Sequences

CONSTANTS Size,       \* BUFFER_SIZE
          Byte,       \* what a cell can hold
          Zero,       \* the byte calloc fills the cells with
          Chunks,     \* the runs of bytes callers offer to bufferWrite
          Amounts     \* the counts callers pass

ASSUME SizeAssumption   == Size \in Nat
ASSUME ByteAssumption   == Zero \in Byte
ASSUME ChunksAssumption == Chunks \subseteq Seq(Byte)
ASSUME AmountAssumption == Amounts \subseteq Nat

VARIABLES data, readPos, writePos, used,    \* BTBuffer_s
          out,                              \* bytes handed to the caller
          result                            \* the count returned

vars == <<data, readPos, writePos, used, out, result>>

(* calloc(1, size + 1): one cell more than is ever used. *)
Cells == 0..Size

Least(a, b) == IF a < b THEN a ELSE b

Free == Size - used

(* bufferCreate *)
Init == /\ data = [c \in Cells |-> Zero]
        /\ readPos = 0 /\ writePos = 0 /\ used = 0
        /\ out = <<>> /\ result = 0

(* memcpy of the first n bytes of s to the cells from position p on *)
CopyIn(p, s, n) ==
  [c \in Cells |-> IF c \in p..(p + n - 1) THEN s[c - p + 1] ELSE data[c]]

(* the n bytes found from position p on *)
CopyOut(p, n) == [i \in 1..n |-> data[p + i - 1]]

(* bufferConsume: bytes were stored behind the buffer's back *)
Consume(n) == LET available == Least(n, Free) IN
  /\ writePos' = writePos + available
  /\ used' = used + available
  /\ result' = available

(* Plausible slips in bufferDrain, against which the properties are tested:
   the clamp of line 161 forgotten, the bytes not moved down (line 173), the
   write position not moved down with them (line 175). *)
DrainUnclamped(amount) ==
  /\ result' = amount
  /\ data' = [c \in Cells |-> IF c < used - amount
                              THEN data[c + readPos + amount] ELSE data[c]]
  /\ readPos' = 0
  /\ writePos' = writePos - amount
  /\ used' = used - amount

DrainInPlace(amount) == LET available == Least(amount, used) IN
  /\ result' = available
  /\ readPos' = 0
  /\ writePos' = writePos - available
  /\ used' = used - available
  /\ data' = data

(* bufferDrain, as its callers and bufferRead use it *)
DrainBytes(amount) == LET available == Least(amount, used) IN
  /\ result' = available
  /\ \/ /\ available = used
        /\ readPos' = 0 /\ writePos' = 0 /\ used' = 0
        /\ data' = data
     \/ /\ available # used
        /\ data' = [c \in Cells |-> IF c < used - available
                                    THEN data[c + readPos + available]
                                    ELSE data[c]]
        /\ readPos' = 0
        /\ writePos' = writePos - available
        /\ used' = used - available

(* telnetWork: bufferDrain(ptr->work, ptr->workProcessed) *)
Drain(amount) == DrainBytes(amount) /\ out' = <<>>

Write(s) == LET written == Least(Len(s), Free) IN
  /\ data' = CopyIn(writePos, s, written)
  /\ used' = used + written
  /\ writePos' = writePos + written
  /\ result' = written
  /\ out' = <<>>
  /\ UNCHANGED readPos

Read(size, drain) == LET read == Least(size, used) IN
  /\ out' = CopyOut(readPos, read)
  /\ \/ read > 0 /\ drain /\ DrainBytes(read)
     \/ ~(read > 0 /\ drain) /\ result' = read
        /\ UNCHANGED <<data, readPos, writePos, used>>

(* socketRead: the socket fills the cells from bufferWritePtr on, with at
   most bufferFree bytes, and bufferConsume takes them in. *)
Receive(s) ==
  /\ Len(s) <= Free
  /\ data' = CopyIn(writePos, s, Len(s))
  /\ Consume(Len(s))
  /\ out' = <<>>
  /\ UNCHANGED readPos

(* socketWrite: the socket is shown all the bytes from bufferReadPtr on,
   takes the first n of them, and those are drained. *)
Send(n) ==
  /\ used > 0
  /\ n <= used
  /\ out' = CopyOut(readPos, n)
  /\ DrainBytes(n)

Next == \/ \E s \in Chunks : Write(s) \/ Receive(s)
        \/ \E n \in Amounts : \/ Drain(n)
                              \/ Send(n)
                              \/ \E drain \in BOOLEAN : Read(n, drain)

Spec == Init /\ [][Next]_vars
-----------------------------------------------------------------------------
(* The structure holds what its declaration and the allocation allow. *)
TypeOK == /\ data \in [Cells -> Byte]
          /\ readPos \in Nat /\ writePos \in Nat /\ used \in Nat
          /\ out \in Seq(Byte)
          /\ result \in Nat

(* Every operation leaves the held bytes at the bottom of the memory and
   within it: bufferDrain moves them down (lines 173-176), so a write of
   bufferFree bytes at bufferWritePtr stays inside the allocation, which is
   all that bufferWrite and Socket_Read rely on. *)
Linear == /\ readPos = 0
          /\ writePos = used
          /\ used <= Size

(* The bytes a reader will be given. *)
Contents == CopyOut(readPos, used)

Fifo == INSTANCE BoundedFifo WITH queue <- Contents

(* buffer.c is a bounded first-in first-out queue of bytes. *)
IsFifo == Fifo!FifoSpec
=============================================================================
