------------------------------ MODULE JPEGSource ------------------------------
(***************************************************************************)
(* The data source of !JPEGView (Source/JPEGsrcman.c): a buffer that is    *)
(* filled from the file before each slice of decoding and that suspends    *)
(* the decoder when it is used up.  The decoder is any program that takes  *)
(* bytes from the front of the buffer and skips some.                      *)
(*                                                                         *)
(* A file is a sequence of bytes; of these only the two of an end marker   *)
(* matter here, which the source adds when the file has ended.             *)
(***************************************************************************)
EXTENDS Integers, Sequences

CONSTANTS Files,     \* the files that may be loaded
          Byte,
          MaxSize,   \* BUFFER_SIZE
          Skips      \* bound: the amounts the decoder skips

EOI == <<"M", "E">>     \* 0xFF, JPEG_EOI

ASSUME FilesAssumption == Files \subseteq Seq(Byte) /\ EOI \in Seq(Byte)
ASSUME MaxSizeAssumption == MaxSize \in Nat /\ MaxSize >= 4
ASSUME SkipsAssumption == Skips \subseteq Nat

VARIABLES
  file, pos,     \* the file, and how much of it has been read
  memory,        \* the first numBytes bytes of the buffer
  next, bytesInBuffer,   \* next_input_byte, as an offset, and bytes_in_buffer
  skipBytes,     \* still to be skipped in what will be read
  completed,     \* JV_FLAGS_COMPLETED
  cursor         \* history: how many bytes the decoder has taken or skipped

source == <<file, pos, memory, next, bytesInBuffer, skipBytes, completed, cursor>>

Least(a, b) == IF a < b THEN a ELSE b

(* Byte i of what the decoder may take. *)
Ahead(i) == memory[next + i]

(* JPEGsrcmanGetManager, for a file that can be opened. *)
OpenSource(f) ==
  /\ file' = f /\ pos' = 0
  /\ memory' = <<>> /\ next' = 0 /\ bytesInBuffer' = 0
  /\ skipBytes' = 0 /\ completed' = FALSE /\ cursor' = 0

(* What the decoder has not taken, moved to the front. *)
Kept == SubSeq(memory, next + 1, next + bytesInBuffer)

Free == MaxSize - Len(Kept) - 1

Refilled(bytes) ==
  /\ memory' = bytes
  /\ next' = 0
  /\ bytesInBuffer' = Len(bytes)
  /\ UNCHANGED <<file, cursor>>

(* Slip: the bytes to skip counted off but not taken out (line 111). *)
ReadMoreUnmoved ==
  LET read    == Least(Free, Len(file) - pos)
      skipped == Least(skipBytes, read)
  IN /\ Free > 0 /\ ~completed /\ read > 0
     /\ Refilled(Kept \o SubSeq(file, pos + 1, pos + read - skipped))
     /\ pos' = pos + read
     /\ skipBytes' = skipBytes - skipped
     /\ UNCHANGED completed

(* JPEGsrcmanGetInput: the file gives something, the first of which may be to
   skip; ... *)
ReadMore ==
  LET read    == Least(Free, Len(file) - pos)
      skipped == Least(skipBytes, read)
  IN /\ Free > 0 /\ ~completed /\ read > 0
     /\ Refilled(Kept \o SubSeq(file, pos + skipped + 1, pos + read))
     /\ pos' = pos + read
     /\ skipBytes' = skipBytes - skipped
     /\ UNCHANGED completed

(* ... the file has nothing more; ... *)
ReadEnd ==
  /\ Free > 0 /\ ~completed /\ pos = Len(file)
  /\ completed' = TRUE
  /\ Refilled(IF bytesInBuffer = 0 THEN EOI ELSE Kept)
  /\ UNCHANGED <<pos, skipBytes>>

(* Slip: nothing added once the end is known. *)
PadNot ==
  /\ ~(Free > 0 /\ ~completed)
  /\ Refilled(Kept)
  /\ UNCHANGED <<pos, skipBytes, completed>>

(* ... or it was at its end before, or there is no room. *)
Pad ==
  /\ ~(Free > 0 /\ ~completed)
  /\ Refilled(IF Free > 2 /\ completed THEN Kept \o EOI ELSE Kept)
  /\ UNCHANGED <<pos, skipBytes, completed>>

GetInput == ReadMore \/ ReadEnd \/ Pad

(* JPEGsrcmanSkipInput. *)
SkipInput(n) ==
  /\ \/ /\ bytesInBuffer >= n
        /\ memory' = SubSeq(memory, next + n + 1, next + bytesInBuffer)
        /\ UNCHANGED skipBytes
     \/ /\ bytesInBuffer < n
        /\ memory' = <<>>
        /\ skipBytes' = n - bytesInBuffer
  /\ bytesInBuffer' = Len(memory')
  /\ next' = 0
  /\ cursor' = cursor + n
  /\ UNCHANGED <<file, pos, completed>>

(* The decoder takes n bytes; FillBuffer gives it no more. *)
Take(n) ==
  /\ n <= bytesInBuffer
  /\ next' = next + n
  /\ bytesInBuffer' = bytesInBuffer - n
  /\ cursor' = cursor + n
  /\ UNCHANGED <<file, pos, memory, skipBytes, completed>>

SourceInit == \E f \in Files :
  /\ file = f /\ pos = 0
  /\ memory = <<>> /\ next = 0 /\ bytesInBuffer = 0
  /\ skipBytes = 0 /\ completed = FALSE /\ cursor = 0

(* "The JPEG decompressor should not be called again until all the bytes are
   skipped": it skips nothing more before that, unless the file has ended. *)
SourceNext == \/ \E f \in Files : OpenSource(f)
              \/ GetInput
              \/ \E n \in 1..MaxSize : Take(n)
              \/ \E n \in Skips : (skipBytes = 0 \/ completed) /\ SkipInput(n)

SourceSpec == SourceInit /\ [][SourceNext]_source
-----------------------------------------------------------------------------
(* Every variable has its type, and the bytes are within the buffer. *)
SourceTypeOK ==
  /\ file \in Files /\ pos \in 0..Len(file)
  /\ memory \in Seq(Byte) /\ Len(memory) < MaxSize
  /\ next \in Nat /\ bytesInBuffer \in Nat
  /\ next + bytesInBuffer = Len(memory)
  /\ skipBytes \in Nat /\ completed \in BOOLEAN /\ cursor \in Nat

(* However the file is cut by the buffer and wherever the decoder stops, takes
   and skips, what it finds in the buffer are the next bytes of the file: none
   is lost or comes twice. *)
InOrder ==
  /\ \A i \in 1..bytesInBuffer : cursor + i <= pos => Ahead(i) = file[cursor + i]
  /\ ~completed => cursor + bytesInBuffer = pos + skipBytes
  /\ ~completed /\ skipBytes > 0 => bytesInBuffer = 0

(* Behind the whole of the file, and not before, there are end markers
   (JPEGsrcman.c:151). *)
EndMarked ==
  \A i \in 1..bytesInBuffer :
    cursor + i > pos => /\ pos = Len(file) /\ completed
                        /\ Ahead(i) = EOI[IF (bytesInBuffer - i) % 2 = 0 THEN 2 ELSE 1]

(* What the source promises the decoder: the file, in order, and end markers
   behind it (JPEGsrcmanGetInput, JPEGsrcmanSkipInput). *)
GivesFile == InOrder /\ EndMarked
=============================================================================
