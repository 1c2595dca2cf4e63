------------------------------ MODULE JPEGProofs ------------------------------
(***************************************************************************)
(* Modules JPEGSource and JPEGDecode for every file, every size of the     *)
(* buffer and every number of rows.  First the source with any decoder: it *)
(* is given the bytes of the file in order, none lost and none twice, and  *)
(* end markers behind them.  Then the decoder of module JPEGDecode, which  *)
(* uses the source as module JPEGSource asks: what is proved of the source *)
(* therefore holds while pictures are shown.  Last, what it makes of a     *)
(* whole file: GInv says at which byte of the file the library is at each  *)
(* stage of the decoding, and what it was given before.                    *)
(***************************************************************************)
EXTENDS JPEGDecode, SequenceTheorems, FiniteSetTheorems, TLAPS

(* What has been read but for what is still to be skipped is behind the cursor
   or in the buffer; the end marker comes only when it all is. *)
Balance ==
  /\ ~completed => cursor + bytesInBuffer = pos + skipBytes
  /\ ~completed /\ skipBytes > 0 => bytesInBuffer = 0
  /\ completed => pos = Len(file) /\ cursor + bytesInBuffer >= pos

(* Each byte of the buffer is the file's or of an end marker. *)
FromFile == \A i \in 1..bytesInBuffer : cursor + i <= pos => Ahead(i) = file[cursor + i]

Marker(i) == EOI[IF (bytesInBuffer - i) % 2 = 0 THEN 2 ELSE 1]

FromMarker == \A i \in 1..bytesInBuffer : cursor + i > pos => Ahead(i) = Marker(i)

IInv == SourceTypeOK /\ Balance /\ FromFile /\ FromMarker

LEMMA ByteOfFile ==
  ASSUME SourceTypeOK
  PROVE  /\ file \in Seq(Byte) /\ Len(file) \in Nat /\ pos \in Nat /\ pos <= Len(file)
         /\ next \in Nat /\ bytesInBuffer \in Nat /\ Len(memory) \in Nat
BY FilesAssumption, LenProperties DEF SourceTypeOK

(* The n bytes of a sequence from byte m + 1 on. *)
LEMMA Part ==
  ASSUME NEW s \in Seq(Byte), NEW m \in Nat, NEW n \in Nat, n <= Len(s), m <= n
  PROVE  /\ SubSeq(s, m + 1, n) \in Seq(Byte) /\ Len(SubSeq(s, m + 1, n)) = n - m
         /\ \A i \in 1 .. n - m : SubSeq(s, m + 1, n)[i] = s[m + i]
<1>1. Len(s) \in Nat
  BY LenProperties
<1>2. \A i \in m + 1 .. n : s[i] \in Byte
  <2> SUFFICES ASSUME NEW i \in m + 1 .. n PROVE s[i] \in Byte
    OBVIOUS
  <2>1. i \in 1..Len(s)
    BY <1>1
  <2>2. QED
    BY <2>1, ElementOfSeq
<1>3. m + 1 \in Int /\ n \in Int
  OBVIOUS
<1>4. /\ SubSeq(s, m + 1, n) \in Seq(Byte)
      /\ Len(SubSeq(s, m + 1, n)) = IF m + 1 <= n THEN n - (m + 1) + 1 ELSE 0
      /\ \A i \in 1 .. n - (m + 1) + 1 : SubSeq(s, m + 1, n)[i] = s[(m + 1) + i - 1]
  BY <1>2, <1>3, SubSeqProperties
<1>5. n - (m + 1) + 1 = n - m /\ \A i \in 1 .. n - m : (m + 1) + i - 1 = m + i
  OBVIOUS
<1>6. QED
  BY <1>4, <1>5

(* What is kept when the buffer is filled are the bytes that were ahead. *)
LEMMA KeptIsAhead ==
  ASSUME SourceTypeOK
  PROVE  /\ Kept \in Seq(Byte) /\ Len(Kept) = bytesInBuffer
         /\ \A i \in 1..bytesInBuffer : Kept[i] = Ahead(i)
<1>1. next + bytesInBuffer \in Nat /\ next + bytesInBuffer <= Len(memory)
  BY ByteOfFile DEF SourceTypeOK
<1>2. /\ Kept \in Seq(Byte) /\ Len(Kept) = next + bytesInBuffer - next
      /\ \A i \in 1 .. next + bytesInBuffer - next : Kept[i] = memory[next + i]
  BY <1>1, ByteOfFile, Part DEF SourceTypeOK, Kept
<1>3. next + bytesInBuffer - next = bytesInBuffer
  BY ByteOfFile
<1>4. QED
  BY <1>2, <1>3 DEF Ahead

(* Filling leaves next_input_byte at the first of the bytes. *)
LEMMA RefilledAhead ==
  ASSUME NEW bytes \in Seq(Byte), Refilled(bytes)
  PROVE  /\ bytesInBuffer' = Len(bytes) /\ file' = file /\ cursor' = cursor
         /\ next' = 0 /\ memory' = bytes
         /\ \A i \in 1..Len(bytes) : Ahead(i)' = bytes[i]
BY LenProperties DEF Refilled, Ahead

(* A sequence behind another. *)
LEMMA Joined ==
  ASSUME NEW s \in Seq(Byte), NEW t \in Seq(Byte)
  PROVE  /\ s \o t \in Seq(Byte) /\ Len(s \o t) = Len(s) + Len(t)
         /\ \A i \in 1..Len(s) : (s \o t)[i] = s[i]
         /\ \A i \in 1..Len(t) : (s \o t)[Len(s) + i] = t[i]
<1>1. Len(s) \in Nat /\ Len(t) \in Nat
  BY LenProperties
<1>2. /\ s \o t \in Seq(Byte) /\ Len(s \o t) = Len(s) + Len(t)
      /\ \A i \in 1 .. Len(s) + Len(t) :
           (s \o t)[i] = IF i <= Len(s) THEN s[i] ELSE t[i - Len(s)]
  BY ConcatProperties
<1>3. \A i \in 1..Len(s) : i \in 1 .. Len(s) + Len(t) /\ i <= Len(s)
  BY <1>1
<1>4. \A i \in 1..Len(t) : /\ Len(s) + i \in 1 .. Len(s) + Len(t)
                           /\ ~(Len(s) + i <= Len(s)) /\ Len(s) + i - Len(s) = i
  BY <1>1
<1>5. QED
  BY <1>2, <1>3, <1>4

(* Filling the buffer puts bytes behind those that were ahead. *)
LEMMA Refill ==
  ASSUME SourceTypeOK, NEW more \in Seq(Byte), Len(more) <= Free, Refilled(Kept \o more)
  PROVE  /\ memory' \in Seq(Byte) /\ Len(memory') < MaxSize
         /\ next' = 0 /\ bytesInBuffer' \in Nat /\ next' + bytesInBuffer' = Len(memory')
         /\ bytesInBuffer' = bytesInBuffer + Len(more)
         /\ file' = file /\ cursor' = cursor
         /\ \A i \in 1..bytesInBuffer : Ahead(i)' = Ahead(i)
         /\ \A i \in 1..Len(more) : memory'[bytesInBuffer + i] = more[i]
<1>1. /\ Kept \in Seq(Byte) /\ Len(Kept) = bytesInBuffer /\ bytesInBuffer \in Nat
      /\ \A i \in 1..bytesInBuffer : Kept[i] = Ahead(i)
  BY KeptIsAhead, ByteOfFile
<1>2. /\ Kept \o more \in Seq(Byte) /\ Len(Kept \o more) = bytesInBuffer + Len(more)
      /\ \A i \in 1..bytesInBuffer : (Kept \o more)[i] = Ahead(i)
      /\ \A i \in 1..Len(more) : (Kept \o more)[bytesInBuffer + i] = more[i]
  BY <1>1, Joined
<1>3. /\ bytesInBuffer' = Len(Kept \o more) /\ file' = file /\ cursor' = cursor
      /\ next' = 0 /\ memory' = Kept \o more
      /\ \A i \in 1..Len(Kept \o more) : Ahead(i)' = (Kept \o more)[i]
  BY <1>2, RefilledAhead
<1>4. Len(more) \in Nat /\ Free = MaxSize - bytesInBuffer - 1
  BY <1>1, LenProperties DEF Free
<1>5. /\ \A i \in 1..bytesInBuffer : i \in 1..Len(Kept \o more)
      /\ \A i \in 1..Len(more) : bytesInBuffer + i \in 1..Len(Kept \o more)
  BY <1>1, <1>2, <1>4
<1>6. bytesInBuffer + Len(more) < MaxSize /\ bytesInBuffer + Len(more) \in Nat
  BY <1>1, <1>4, MaxSizeAssumption
<1>7. 0 + bytesInBuffer' = Len(memory')
  BY <1>2, <1>3, <1>6
<1>8. /\ \A i \in 1..bytesInBuffer : Ahead(i)' = Ahead(i)
      /\ \A i \in 1..Len(more) : memory'[bytesInBuffer + i] = more[i]
  BY <1>2, <1>3, <1>5, Zenon
<1>9. QED
  BY <1>2, <1>3, <1>6, <1>7, <1>8

(* The parity of a byte counted from the end stays when two bytes come behind
   it, so that a marker stays a marker. *)
LEMMA Parity ==
  /\ \A n \in Int : (n + 2) % 2 = n % 2
  /\ 0 % 2 = 0 /\ 1 % 2 # 0
  OBVIOUS

-----------------------------------------------------------------------------
LEMMA Empty ==
  ASSUME NEW f \in Files, file' = f, pos' = 0, memory' = <<>>, next' = 0, bytesInBuffer' = 0,
         skipBytes' = 0, completed' = FALSE, cursor' = 0
  PROVE  IInv'
<1>1. Len(f) \in Nat /\ <<>> \in Seq(Byte) /\ Len(<<>>) = 0
  BY FilesAssumption, LenProperties
<1>2. 0 \in 0..Len(f) /\ 0 < MaxSize /\ 0 + 0 = 0 /\ FALSE \in BOOLEAN
  BY <1>1, MaxSizeAssumption
<1>2a. SourceTypeOK'
  BY <1>1, <1>2 DEF SourceTypeOK
<1>3. Balance' /\ FromFile' /\ FromMarker'
  BY DEF Balance, FromFile, FromMarker
<1>4. QED
  BY <1>2a, <1>3 DEF IInv

LEMMA InitIInv == SourceInit => IInv
<1> SUFFICES ASSUME SourceInit PROVE IInv
  OBVIOUS
<1>1. file \in Files /\ pos = 0 /\ memory = <<>> /\ next = 0 /\ bytesInBuffer = 0
      /\ skipBytes = 0 /\ completed = FALSE /\ cursor = 0
  BY DEF SourceInit
<1>2. Len(file) \in Nat /\ <<>> \in Seq(Byte) /\ Len(<<>>) = 0
  BY <1>1, FilesAssumption, LenProperties
<1>2a. 0 \in 0..Len(file) /\ 0 < MaxSize /\ 0 + 0 = 0 /\ FALSE \in BOOLEAN
  BY <1>2, MaxSizeAssumption
<1>3. SourceTypeOK
  BY <1>1, <1>2, <1>2a DEF SourceTypeOK
<1>4. Balance /\ FromFile /\ FromMarker
  BY <1>1 DEF Balance, FromFile, FromMarker
<1>5. QED
  BY <1>3, <1>4 DEF IInv

(* The bytes that come in are the next of the file, behind what is to skip. *)
LEMMA ReadMoreKeepsIInv == ASSUME IInv, ReadMore PROVE IInv'
<1> DEFINE read == Least(Free, Len(file) - pos)
           skipped == Least(skipBytes, read)
           more == SubSeq(file, pos + skipped + 1, pos + read)
<1>0. /\ SourceTypeOK /\ Balance /\ FromFile /\ ~completed
      /\ skipBytes \in Nat /\ cursor \in Nat /\ pos \in Nat /\ Len(file) \in Nat
      /\ pos <= Len(file) /\ bytesInBuffer \in Nat /\ file \in Files /\ file \in Seq(Byte)
  BY ByteOfFile DEF IInv, SourceTypeOK, ReadMore
<1>1. /\ Refilled(Kept \o more) /\ pos' = pos + read /\ skipBytes' = skipBytes - skipped
      /\ completed' = completed /\ Free > 0 /\ read > 0
  BY DEF ReadMore
<1>2. Free \in Int
  BY <1>0, KeptIsAhead, MaxSizeAssumption DEF Free
<1>3. read \in Nat /\ read <= Free /\ pos + read <= Len(file)
  BY <1>0, <1>1, <1>2 DEF Least
<1>4. /\ skipped \in Nat /\ skipped <= read /\ skipped <= skipBytes
      /\ skipped < skipBytes => skipped = read
  BY <1>0, <1>3 DEF Least
<1> HIDE DEF read, skipped
<1>5. /\ more \in Seq(Byte) /\ Len(more) = read - skipped
      /\ \A i \in 1 .. read - skipped : more[i] = file[pos + skipped + i]
  <2>1. /\ pos + skipped \in Nat /\ pos + read \in Nat /\ pos + skipped <= pos + read
        /\ (pos + read) - (pos + skipped) = read - skipped
    BY <1>0, <1>3, <1>4
  <2>2. /\ more \in Seq(Byte) /\ Len(more) = (pos + read) - (pos + skipped)
        /\ \A i \in 1 .. (pos + read) - (pos + skipped) : more[i] = file[(pos + skipped) + i]
    BY <1>0, <1>3, <2>1, Part
  <2>3. QED
    BY <2>1, <2>2
<1> HIDE DEF more
<1>6. /\ memory' \in Seq(Byte) /\ Len(memory') < MaxSize
      /\ next' = 0 /\ bytesInBuffer' \in Nat /\ next' + bytesInBuffer' = Len(memory')
      /\ bytesInBuffer' = bytesInBuffer + (read - skipped)
      /\ file' = file /\ cursor' = cursor
      /\ \A i \in 1..bytesInBuffer : Ahead(i)' = Ahead(i)
      /\ \A i \in 1..read - skipped : memory'[bytesInBuffer + i] = file[pos + skipped + i]
  <2>1. Len(more) <= Free
    BY <1>2, <1>3, <1>4, <1>5
  <2>2. QED
    BY <1>0, <1>1, <1>5, <2>1, Refill
<1>7. SourceTypeOK'
  BY <1>0, <1>1, <1>3, <1>4, <1>6 DEF SourceTypeOK
<1>8. cursor + bytesInBuffer = pos + skipBytes /\ (skipBytes > 0 => bytesInBuffer = 0)
  BY <1>0 DEF Balance
<1>9. Balance'
  <2>1. cursor + (bytesInBuffer + (read - skipped)) = (pos + read) + (skipBytes - skipped)
    BY <1>0, <1>3, <1>4, <1>8
  <2>2. skipBytes - skipped > 0 => bytesInBuffer + (read - skipped) = 0
    BY <1>0, <1>3, <1>4, <1>8
  <2>3. QED
    BY <1>0, <1>1, <1>6, <2>1, <2>2 DEF Balance
<1>10. FromFile'
  <2> SUFFICES ASSUME NEW i \in 1..bytesInBuffer', cursor + i <= pos + read
               PROVE  Ahead(i)' = file[cursor + i]
    BY <1>1, <1>6 DEF FromFile
  <2>1. CASE i <= bytesInBuffer
    <3>1. skipBytes = 0 /\ i \in 1..bytesInBuffer /\ cursor + i <= pos
      BY <1>0, <1>6, <1>8, <2>1
    <3>2. QED
      BY <1>0, <1>6, <3>1 DEF FromFile
  <2>2. CASE i > bytesInBuffer
    <3> DEFINE j == i - bytesInBuffer
    <3>1. j \in 1 .. read - skipped /\ bytesInBuffer + j = i /\ skipped = skipBytes
      BY <1>0, <1>3, <1>4, <1>6, <2>2
    <3>2. pos + skipped + j = cursor + i
      BY <1>0, <1>3, <1>4, <1>6, <1>8, <3>1
    <3>3. memory'[bytesInBuffer + j] = file[pos + skipped + j]
      BY <1>6, <3>1
    <3>4. Ahead(i)' = memory'[i]
      BY <1>6 DEF Ahead
    <3>5. QED
      BY <3>1, <3>2, <3>3, <3>4
  <2>3. QED
    BY <1>0, <1>6, <2>1, <2>2
<1>11. FromMarker'
  <2> SUFFICES ASSUME NEW i \in 1..bytesInBuffer', cursor + i > pos + read PROVE FALSE
    BY <1>1, <1>6 DEF FromMarker
  <2>1. QED
    BY <1>0, <1>3, <1>4, <1>6, <1>8
<1>12. QED
  BY <1>7, <1>9, <1>10, <1>11 DEF IInv

(* Filling that adds nothing. *)
LEMMA Moved ==
  ASSUME SourceTypeOK, Refilled(Kept)
  PROVE  /\ memory' \in Seq(Byte) /\ Len(memory') < MaxSize
         /\ next' = 0 /\ bytesInBuffer' = bytesInBuffer /\ next' + bytesInBuffer' = Len(memory')
         /\ file' = file /\ cursor' = cursor
         /\ \A i \in 1..bytesInBuffer : Ahead(i)' = Ahead(i)
<1>1. /\ Kept \in Seq(Byte) /\ Len(Kept) = bytesInBuffer /\ bytesInBuffer \in Nat
      /\ \A i \in 1..bytesInBuffer : Kept[i] = Ahead(i)
  BY KeptIsAhead, ByteOfFile
<1>2. bytesInBuffer < MaxSize /\ 0 + bytesInBuffer = bytesInBuffer
  BY ByteOfFile, MaxSizeAssumption DEF SourceTypeOK
<1>3. /\ bytesInBuffer' = Len(Kept) /\ file' = file /\ cursor' = cursor
      /\ next' = 0 /\ memory' = Kept
      /\ \A i \in 1..Len(Kept) : Ahead(i)' = Kept[i]
  BY <1>1, RefilledAhead
<1>4. QED
  BY <1>1, <1>2, <1>3

(* Where nothing comes in, the invariant is about the same bytes. *)
LEMMA MovedKeepsIInv ==
  ASSUME IInv, Refilled(Kept), UNCHANGED <<pos, skipBytes>>,
         \/ completed' = completed
         \/ completed' = TRUE /\ ~completed /\ bytesInBuffer # 0 /\ pos = Len(file)
  PROVE  IInv'
<1>0. /\ SourceTypeOK /\ Balance /\ FromFile /\ FromMarker
      /\ skipBytes \in Nat /\ cursor \in Nat /\ bytesInBuffer \in Nat /\ pos \in Nat
      /\ completed \in BOOLEAN
  BY ByteOfFile DEF IInv, SourceTypeOK
<1>1. /\ memory' \in Seq(Byte) /\ Len(memory') < MaxSize
      /\ next' = 0 /\ bytesInBuffer' = bytesInBuffer /\ next' + bytesInBuffer' = Len(memory')
      /\ file' = file /\ cursor' = cursor
      /\ \A i \in 1..bytesInBuffer : Ahead(i)' = Ahead(i)
  BY <1>0, Moved
<1>2. SourceTypeOK'
  <2>1. completed' \in BOOLEAN
    BY <1>0
  <2>2. QED
    BY <1>0, <1>1, <2>1 DEF SourceTypeOK
<1>3. Balance'
  BY <1>0, <1>1 DEF Balance
<1>4. FromFile' /\ FromMarker'
  BY <1>0, <1>1 DEF FromFile, FromMarker, Marker
<1>5. QED
  BY <1>2, <1>3, <1>4 DEF IInv

(* The end of the file with nothing ahead: the end marker is all there is. *)
LEMMA ReadEndKeepsIInv == ASSUME IInv, ReadEnd PROVE IInv'
<1>1. CASE bytesInBuffer # 0
  BY <1>1, MovedKeepsIInv DEF ReadEnd
<1>2. CASE bytesInBuffer = 0
  <2>0. /\ SourceTypeOK /\ Balance /\ skipBytes \in Nat /\ cursor \in Nat /\ pos \in Nat
    BY ByteOfFile DEF IInv, SourceTypeOK
  <2>1. EOI \in Seq(Byte) /\ Len(EOI) = 2
    BY FilesAssumption DEF EOI
  <2>2. /\ bytesInBuffer' = 2 /\ file' = file /\ cursor' = cursor
        /\ next' = 0 /\ memory' = EOI /\ Ahead(1)' = EOI[1] /\ Ahead(2)' = EOI[2]
        /\ completed' = TRUE /\ pos' = pos /\ skipBytes' = skipBytes
        /\ ~completed /\ pos = Len(file)
    <3>1. Refilled(EOI)
      BY <1>2 DEF ReadEnd
    <3>2. 1 \in 1..2 /\ 2 \in 1..2
      OBVIOUS
    <3>3. QED
      BY <2>1, <3>1, <3>2, RefilledAhead DEF ReadEnd
  <2>3. SourceTypeOK'
    <3>1. 2 < MaxSize /\ 0 + 2 = 2 /\ 2 \in Nat /\ 0 \in Nat /\ TRUE \in BOOLEAN
      BY MaxSizeAssumption
    <3>2. QED
      BY <2>0, <2>1, <2>2, <3>1 DEF SourceTypeOK
  <2>4. cursor + 2 >= pos /\ cursor >= pos
    BY <1>2, <2>0, <2>2 DEF Balance
  <2>5. Balance' /\ FromFile'
    BY <2>0, <2>2, <2>4 DEF Balance, FromFile
  <2>6. FromMarker'
    <3>1. Marker(1)' = EOI[1] /\ Marker(2)' = EOI[2]
      <4>1. (2 - 1) % 2 # 0 /\ (2 - 2) % 2 = 0
        BY Parity
      <4>2. QED
        BY <2>2, <4>1 DEF Marker
    <3>2. \A i \in 1..2 : i = 1 \/ i = 2
      OBVIOUS
    <3>3. QED
      BY <2>2, <3>1, <3>2 DEF FromMarker
  <2>7. QED
    BY <2>3, <2>5, <2>6 DEF IInv
<1>3. QED
  BY <1>1, <1>2

(* A further end marker comes behind what the decoder has not taken. *)
LEMMA PadKeepsIInv == ASSUME IInv, Pad PROVE IInv'
<1>1. CASE ~(Free > 2 /\ completed)
  BY <1>1, MovedKeepsIInv DEF Pad
<1>2. CASE Free > 2 /\ completed
  <2>0. /\ SourceTypeOK /\ Balance /\ FromFile /\ FromMarker /\ completed
        /\ skipBytes \in Nat /\ cursor \in Nat /\ pos \in Nat /\ bytesInBuffer \in Nat
    BY <1>2, ByteOfFile DEF IInv, SourceTypeOK
  <2>1. EOI \in Seq(Byte) /\ Len(EOI) = 2 /\ 1 \in 1..2 /\ 2 \in 1..2
    BY FilesAssumption DEF EOI
  <2>2. Free \in Int
    BY <2>0, KeptIsAhead, MaxSizeAssumption DEF Free
  <2>3. /\ memory' \in Seq(Byte) /\ Len(memory') < MaxSize
        /\ next' = 0 /\ bytesInBuffer' \in Nat /\ next' + bytesInBuffer' = Len(memory')
        /\ bytesInBuffer' = bytesInBuffer + 2
        /\ file' = file /\ cursor' = cursor
        /\ \A i \in 1..bytesInBuffer : Ahead(i)' = Ahead(i)
        /\ memory'[bytesInBuffer + 1] = EOI[1] /\ memory'[bytesInBuffer + 2] = EOI[2]
    <3>1. Refilled(Kept \o EOI) /\ Len(EOI) <= Free
      BY <1>2, <2>1, <2>2 DEF Pad
    <3>2. QED
      BY <2>0, <2>1, <3>1, Refill
  <2>4. pos' = pos /\ skipBytes' = skipBytes /\ completed' = completed
    BY DEF Pad
  <2>5. SourceTypeOK'
    BY <2>0, <2>3, <2>4 DEF SourceTypeOK
  <2>6. Balance'
    BY <2>0, <2>3, <2>4 DEF Balance
  <2>7. cursor + bytesInBuffer >= pos
    BY <2>0 DEF Balance
  <2>8. FromFile'
    <3> SUFFICES ASSUME NEW i \in 1 .. bytesInBuffer + 2, cursor + i <= pos
                 PROVE  Ahead(i)' = file[cursor + i]
      BY <2>3, <2>4 DEF FromFile
    <3>1. i \in 1..bytesInBuffer
      BY <2>0, <2>7
    <3>2. QED
      BY <2>0, <2>3, <3>1 DEF FromFile
  <2>9. FromMarker'
    <3> SUFFICES ASSUME NEW i \in 1..bytesInBuffer', cursor' + i > pos'
                 PROVE  Ahead(i)' = EOI[IF (bytesInBuffer' - i) % 2 = 0 THEN 2 ELSE 1]
      BY DEF FromMarker, Marker
    <3>0. i \in 1 .. bytesInBuffer + 2 /\ cursor + i > pos /\ bytesInBuffer' = bytesInBuffer + 2
      BY <2>3, <2>4
    <3>1. CASE i \in 1..bytesInBuffer
      <4>1. bytesInBuffer + 2 - i = (bytesInBuffer - i) + 2 /\ bytesInBuffer - i \in Int
        BY <2>0
      <4>2. (bytesInBuffer' - i) % 2 = (bytesInBuffer - i) % 2
        <5>1. bytesInBuffer' - i = (bytesInBuffer - i) + 2
          BY <2>0, <3>0, <4>1
        <5>2. ((bytesInBuffer - i) + 2) % 2 = (bytesInBuffer - i) % 2
          BY <4>1, Parity
        <5>3. QED
          BY <5>1, <5>2
      <4>3. Ahead(i)' = Ahead(i) /\ Ahead(i) = Marker(i)
        BY <2>0, <2>3, <3>0, <3>1 DEF FromMarker
      <4>4. QED
        BY <4>2, <4>3 DEF Marker
    <3>2. CASE i \notin 1..bytesInBuffer
      <4>1. i = bytesInBuffer + 1 \/ i = bytesInBuffer + 2
        BY <2>0, <3>0, <3>2
      <4>2. Ahead(i)' = memory'[i]
        BY <2>3 DEF Ahead
      <4>3. /\ bytesInBuffer + 2 - (bytesInBuffer + 1) = 1
            /\ bytesInBuffer + 2 - (bytesInBuffer + 2) = 0
        BY <2>0
      <4>4. CASE i = bytesInBuffer + 1
        <5>1. bytesInBuffer' - i = 1
          BY <2>0, <3>0, <4>3, <4>4
        <5>2. (bytesInBuffer' - i) % 2 # 0
          BY <5>1, Parity
        <5>3. QED
          BY <2>3, <4>2, <4>4, <5>2
      <4>5. CASE i = bytesInBuffer + 2
        <5>1. bytesInBuffer' - i = 0
          BY <2>0, <3>0, <4>3, <4>5
        <5>2. (bytesInBuffer' - i) % 2 = 0
          BY <5>1, Parity
        <5>3. QED
          BY <2>3, <4>2, <4>5, <5>2
      <4>6. QED
        BY <4>1, <4>4, <4>5
    <3>3. QED
      BY <3>1, <3>2
  <2>10. QED
    BY <2>5, <2>6, <2>8, <2>9 DEF IInv
<1>3. QED
  BY <1>1, <1>2

(* Taking bytes moves the cursor and the front of the buffer alike. *)
LEMMA TakeKeepsIInv == ASSUME IInv, NEW n \in Nat, Take(n) PROVE IInv'
<1>0. /\ SourceTypeOK /\ Balance /\ FromFile /\ FromMarker /\ n <= bytesInBuffer
      /\ skipBytes \in Nat /\ cursor \in Nat /\ pos \in Nat /\ next \in Nat
      /\ bytesInBuffer \in Nat
  BY ByteOfFile DEF IInv, SourceTypeOK, Take
<1>1. /\ next' = next + n /\ bytesInBuffer' = bytesInBuffer - n /\ cursor' = cursor + n
      /\ UNCHANGED <<file, pos, memory, skipBytes, completed>>
  BY DEF Take
<1>2. SourceTypeOK' /\ Balance'
  BY <1>0, <1>1, ByteOfFile DEF SourceTypeOK, Balance
<1>3. ASSUME NEW i \in 1..bytesInBuffer'
      PROVE  /\ i + n \in 1..bytesInBuffer /\ Ahead(i)' = Ahead(i + n)
             /\ cursor' + i = cursor + (i + n)
             /\ bytesInBuffer' - i = bytesInBuffer - (i + n)
  <2>1. /\ i + n \in 1..bytesInBuffer /\ (next + n) + i = next + (i + n)
        /\ (cursor + n) + i = cursor + (i + n)
        /\ (bytesInBuffer - n) - i = bytesInBuffer - (i + n)
    BY <1>0, <1>1
  <2>2. QED
    BY <1>1, <2>1 DEF Ahead
<1>4. FromFile' /\ FromMarker'
  BY <1>0, <1>1, <1>3 DEF FromFile, FromMarker, Marker
<1>5. QED
  BY <1>2, <1>4 DEF IInv

(* Skipping within the buffer is taking; beyond it, what is left is kept for
   the bytes to come. *)
LEMMA SkipKeepsIInv ==
  ASSUME IInv, NEW n \in Nat, skipBytes = 0 \/ completed, SkipInput(n)
  PROVE  IInv'
<1>0. /\ SourceTypeOK /\ Balance /\ FromFile /\ FromMarker
      /\ skipBytes \in Nat /\ cursor \in Nat /\ pos \in Nat /\ next \in Nat
      /\ bytesInBuffer \in Nat /\ memory \in Seq(Byte) /\ Len(memory) \in Nat
      /\ next + bytesInBuffer = Len(memory) /\ Len(memory) < MaxSize
  BY ByteOfFile DEF IInv, SourceTypeOK
<1>1. /\ next' = 0 /\ bytesInBuffer' = Len(memory') /\ cursor' = cursor + n
      /\ UNCHANGED <<file, pos, completed>>
  BY DEF SkipInput
<1>2. CASE bytesInBuffer >= n
  <2>1. memory' = SubSeq(memory, (next + n) + 1, next + bytesInBuffer) /\ skipBytes' = skipBytes
    BY <1>0, <1>2 DEF SkipInput
  <2>2. /\ next + n \in Nat /\ next + bytesInBuffer \in Nat
        /\ next + bytesInBuffer <= Len(memory) /\ next + n <= next + bytesInBuffer
        /\ (next + bytesInBuffer) - (next + n) = bytesInBuffer - n
    BY <1>0, <1>2
  <2>3. /\ memory' \in Seq(Byte) /\ Len(memory') = bytesInBuffer - n
        /\ \A i \in 1 .. bytesInBuffer - n : memory'[i] = memory[(next + n) + i]
    <3> DEFINE a == next + n
               b == next + bytesInBuffer
               part == SubSeq(memory, a + 1, b)
    <3>1. /\ part \in Seq(Byte) /\ Len(part) = b - a
          /\ \A i \in 1 .. b - a : part[i] = memory[a + i]
      BY <1>0, <2>2, Part
    <3>2. memory' = part /\ b - a = bytesInBuffer - n
      BY <2>1, <2>2
    <3> HIDE DEF part
    <3>3. QED
      BY <3>1, <3>2
  <2>4. SourceTypeOK'
    <3>1. bytesInBuffer - n \in Nat /\ bytesInBuffer - n < MaxSize /\ cursor + n \in Nat
          /\ 0 + (bytesInBuffer - n) = bytesInBuffer - n
      BY <1>0, <1>2, MaxSizeAssumption
    <3>2. QED
      BY <1>0, <1>1, <2>1, <2>3, <3>1 DEF SourceTypeOK
  <2>5. Balance'
    BY <1>0, <1>1, <1>2, <2>1, <2>3 DEF Balance
  <2>6. ASSUME NEW i \in 1 .. bytesInBuffer - n
        PROVE  /\ i + n \in 1..bytesInBuffer /\ Ahead(i)' = Ahead(i + n)
               /\ (cursor + n) + i = cursor + (i + n)
               /\ (bytesInBuffer - n) - i = bytesInBuffer - (i + n)
    <3>1. /\ i + n \in 1..bytesInBuffer /\ (next + n) + i = next + (i + n) /\ 0 + i = i
          /\ (cursor + n) + i = cursor + (i + n)
          /\ (bytesInBuffer - n) - i = bytesInBuffer - (i + n)
      BY <1>0, <1>2
    <3>2. QED
      BY <1>1, <2>3, <3>1 DEF Ahead
  <2>7. FromFile' /\ FromMarker'
    BY <1>0, <1>1, <2>3, <2>6 DEF FromFile, FromMarker, Marker
  <2>8. QED
    BY <2>4, <2>5, <2>7 DEF IInv
<1>3. CASE bytesInBuffer < n
  <2>1. memory' = <<>> /\ skipBytes' = n - bytesInBuffer
    BY <1>0, <1>3 DEF SkipInput
  <2>2. Len(<<>>) = 0 /\ <<>> \in Seq(Byte)
    OBVIOUS
  <2>3. SourceTypeOK'
    <3>1. n - bytesInBuffer \in Nat /\ 0 < MaxSize /\ cursor + n \in Nat /\ 0 + 0 = 0
      BY <1>0, <1>3, MaxSizeAssumption
    <3>2. QED
      BY <1>0, <1>1, <2>1, <2>2, <3>1 DEF SourceTypeOK
  <2>4. Balance'
    BY <1>0, <1>1, <1>3, <2>1, <2>2 DEF Balance
  <2>5. FromFile' /\ FromMarker'
    BY <1>1, <2>1, <2>2 DEF FromFile, FromMarker
  <2>6. QED
    BY <2>3, <2>4, <2>5 DEF IInv
<1>4. QED
  BY <1>0, <1>2, <1>3

LEMMA StepKeepsIInv == IInv /\ [SourceNext]_source => IInv'
<1> SUFFICES ASSUME IInv, [SourceNext]_source PROVE IInv'
  OBVIOUS
<1>1. ASSUME NEW f \in Files, OpenSource(f) PROVE IInv'
  BY <1>1, Empty DEF OpenSource
<1>2. CASE GetInput
  BY <1>2, ReadMoreKeepsIInv, ReadEndKeepsIInv, PadKeepsIInv DEF GetInput
<1>3. ASSUME NEW n \in 1..MaxSize, Take(n) PROVE IInv'
  BY <1>3, TakeKeepsIInv
<1>4. ASSUME NEW n \in Skips, skipBytes = 0 \/ completed, SkipInput(n) PROVE IInv'
  BY <1>4, SkipsAssumption, SkipKeepsIInv
<1>5. CASE UNCHANGED source
  BY <1>5 DEF source, IInv, SourceTypeOK, Balance, FromFile, FromMarker, Marker, Ahead
<1>6. QED
  BY <1>1, <1>2, <1>3, <1>4, <1>5 DEF SourceNext

LEMMA IInvHolds == SourceSpec => []IInv
  BY InitIInv, StepKeepsIInv, PTL DEF SourceSpec

(* For every file and buffer size the source keeps its type: it never writes
   past the buffer nor hands out more than it holds. *)
THEOREM SourceTypeCorrect == SourceSpec => []SourceTypeOK
<1>1. IInv => SourceTypeOK
  BY DEF IInv
<1>2. QED
  BY <1>1, IInvHolds, PTL

(* A decoder, whatever it takes and skips, is given the file's bytes in order,
   none lost, none twice (JPEGsrcmanGetInput, JPEGsrcmanSkipInput). *)
THEOREM SourceInOrder == SourceSpec => []InOrder
<1>1. IInv => InOrder
  BY DEF IInv, Balance, FromFile, InOrder
<1>2. QED
  BY <1>1, IInvHolds, PTL

(* End markers come behind the last byte of the file and not before. *)
THEOREM SourceEndMarked == SourceSpec => []EndMarked
<1>1. IInv => EndMarked
  <2> SUFFICES ASSUME IInv, NEW i \in 1..bytesInBuffer, cursor + i > pos
               PROVE  /\ pos = Len(file) /\ completed
                      /\ Ahead(i) = EOI[IF (bytesInBuffer - i) % 2 = 0 THEN 2 ELSE 1]
    BY DEF EndMarked
  <2>0. /\ skipBytes \in Nat /\ cursor \in Nat /\ pos \in Nat /\ bytesInBuffer \in Nat
        /\ Balance /\ FromMarker
    BY ByteOfFile DEF IInv, SourceTypeOK
  <2>1. completed
    BY <2>0 DEF Balance
  <2>2. QED
    BY <2>0, <2>1 DEF Balance, FromMarker, Marker
<1>2. QED
  BY <1>1, IInvHolds, PTL

(* Whatever the decoder does, the source keeps both its promises. *)
THEOREM SourceGivesFile == SourceSpec => []GivesFile
<1>1. InOrder /\ EndMarked => GivesFile
  BY DEF GivesFile
<1>2. QED
  BY <1>1, SourceInOrder, SourceEndMarked, PTL
-----------------------------------------------------------------------------
(* The decoder as a user of the source. *)

(* A segment is skipped only when the one before it has been. *)
LengthFresh ==
  /\ "length" \in DOMAIN cinfo
  /\ cinfo.length # 0 => (skipBytes = 0 \/ completed) /\ cinfo.length \in Skips

(* An update of other fields leaves the length of the segment. *)
LEMMA SetKeepsLength ==
  ASSUME NEW fields, "length" \in DOMAIN cinfo, "length" \notin DOMAIN fields, Set(fields)
  PROVE  "length" \in DOMAIN cinfo' /\ cinfo'.length = cinfo.length
BY DEF Set, Updated

LEMMA SetLength ==
  ASSUME NEW fields, "length" \in DOMAIN cinfo, "length" \in DOMAIN fields, Set(fields)
  PROVE  "length" \in DOMAIN cinfo' /\ cinfo'.length = fields.length
BY DEF Set, Updated

(* Filling the buffer makes no more to skip. *)
LEMMA GetInputSkips ==
  ASSUME IInv, GetInput
  PROVE  skipBytes = 0 \/ completed => skipBytes' = 0 \/ completed'
<1>1. skipBytes \in Nat /\ completed \in BOOLEAN
  BY DEF IInv, SourceTypeOK
<1>2. CASE ReadMore
  <2>1. Least(skipBytes, Least(Free, Len(file) - pos)) = 0 \/ skipBytes # 0
    BY <1>1, <1>2, ByteOfFile, KeptIsAhead, MaxSizeAssumption DEF ReadMore, Least, Free, IInv
  <2>2. QED
    BY <1>1, <1>2, <2>1 DEF ReadMore
<1>3. CASE ReadEnd
  BY <1>3 DEF ReadEnd
<1>4. CASE Pad
  BY <1>1, <1>4 DEF Pad
<1>5. QED
  BY <1>2, <1>3, <1>4 DEF GetInput

(* Each step of the library takes bytes that are there, or skips a segment. *)
LEMMA LibrarySteps ==
  ASSUME IInv, LengthFresh, Library
  PROVE  [SourceNext]_source /\ LengthFresh'
<1>0. /\ bytesInBuffer \in Nat /\ bytesInBuffer < MaxSize /\ 0 \in Nat
      /\ skipBytes \in Nat /\ completed \in BOOLEAN
      /\ bytesInBuffer > 0 => skipBytes = 0 \/ completed
  BY ByteOfFile, MaxSizeAssumption DEF IInv, SourceTypeOK, Balance
<1>1. ASSUME NEW n \in 1..MaxSize, Take(n)
      PROVE  SourceNext /\ UNCHANGED <<skipBytes, completed>>
  BY <1>1 DEF SourceNext, Take
<1>2. \A i \in Nat : \A e \in MarkerEnd(i) : e \in 1..MaxSize
  BY <1>0, MaxSizeAssumption DEF MarkerEnd
<1>3. 1 \in 1..MaxSize /\ 2 \in 1..MaxSize /\ 1 \in Nat
  BY MaxSizeAssumption
<1>4. ASSUME UNCHANGED cinfo, UNCHANGED <<skipBytes, completed>> PROVE LengthFresh'
  BY <1>4 DEF LengthFresh
<1>5. ASSUME NEW fields, "length" \notin DOMAIN fields, Set(fields),
             UNCHANGED <<skipBytes, completed>>
      PROVE  LengthFresh'
  BY <1>5, SetKeepsLength DEF LengthFresh
<1>6. CASE FirstMarker
  <2>1. SourceNext /\ UNCHANGED <<skipBytes, completed>>
    BY <1>1, <1>3, <1>6 DEF FirstMarker
  <2>2. UNCHANGED cinfo \/ Set([begun |-> TRUE, several |-> Ahead(1) = "P"])
    BY <1>6 DEF FirstMarker
  <2>3. "length" \notin DOMAIN [begun |-> TRUE, several |-> Ahead(1) = "P"]
    OBVIOUS
  <2>4. QED
    BY <1>4, <1>5, <2>1, <2>2, <2>3
<1>7. CASE Discard
  BY <1>1, <1>3, <1>4, <1>7 DEF Discard
<1>8. CASE NextMarker
  <2>1. PICK e \in MarkerEnd(1) : Take(e) /\ Set([unread |-> Ahead(e)])
    BY <1>8 DEF NextMarker
  <2>2. "length" \notin DOMAIN [unread |-> Ahead(e)]
    OBVIOUS
  <2>3. QED
    BY <1>1, <1>2, <1>3, <1>5, <2>1, <2>2
<1>9. CASE Segment
  <2>1. SourceNext /\ UNCHANGED <<skipBytes, completed>>
    BY <1>1, <1>3, <1>9 DEF Segment
  <2>2. skipBytes = 0 \/ completed
    BY <1>0, <1>9 DEF Segment
  <2>3. PICK l \in Skips : Set([length |-> l])
    BY <1>9, SegmentsAssumption DEF Segment
  <2>4. "length" \in DOMAIN [length |-> l] /\ [length |-> l].length = l
    OBVIOUS
  <2>5. QED
    BY <2>1, <2>2, <2>3, <2>4, SetLength DEF LengthFresh
<1>10. CASE SkipVariable
  <2>1. cinfo.length \in Skips /\ (skipBytes = 0 \/ completed)
    BY <1>10 DEF SkipVariable, LengthFresh
  <2>2. SourceNext
    BY <1>10, <2>1 DEF SkipVariable, SourceNext
  <2>3. /\ Set([length |-> 0, unread |-> "none"])
        /\ "length" \in DOMAIN [length |-> 0, unread |-> "none"]
        /\ [length |-> 0, unread |-> "none"].length = 0
    BY <1>10 DEF SkipVariable
  <2>4. QED
    BY <2>2, <2>3, SetLength DEF LengthFresh
<1>11. CASE StartOfScan
  <2> DEFINE scan == [unread |-> "none", inScan |-> cinfo.inScan + 1, inRow |-> 0,
                      dc |-> Ahead(1) = "d",
                      reading |-> IF cinfo.inScan = 0 THEN "markers" ELSE "rows"]
  <2>1. SourceNext /\ UNCHANGED <<skipBytes, completed>>
    BY <1>1, <1>3, <1>11 DEF StartOfScan
  <2>2. UNCHANGED cinfo \/ Set(scan)
    BY <1>11 DEF StartOfScan
  <2>3. "length" \notin DOMAIN scan
    OBVIOUS
  <2>4. QED
    BY <1>4, <1>5, <2>1, <2>2, <2>3
<1>12. CASE EndOfImage
  <2> DEFINE end == [unread |-> "none", eoi |-> TRUE,
                     outScan |-> Least(cinfo.outScan, cinfo.inScan)]
  <2>1. UNCHANGED source /\ (UNCHANGED cinfo \/ Set(end))
    BY <1>12 DEF EndOfImage
  <2>2. "length" \notin DOMAIN end
    OBVIOUS
  <2>3. QED
    BY <1>4, <1>5, <2>1, <2>2 DEF source
<1>13. CASE AfterEnd \/ Suspend
  BY <1>4, <1>13 DEF AfterEnd, Suspend, source
<1>14. ASSUME NEW marker, RowRead(marker), UNCHANGED <<skipBytes, completed>>
       PROVE  LengthFresh'
  <2> DEFINE row == [unread |-> marker, inRow |-> cinfo.inRow + 1,
                     reading |-> IF cinfo.inRow + 1 = Rows THEN "markers" ELSE "rows"]
  <2>1. Set(row) /\ "length" \notin DOMAIN row
    BY <1>14 DEF RowRead
  <2>2. QED
    BY <1>5, <1>14, <2>1
<1>15. CASE Row
  BY <1>1, <1>3, <1>14, <1>15 DEF Row
<1>16. CASE RowCutShort
  <2>1. PICK i \in 1..Least(2, bytesInBuffer) : \E e \in MarkerEnd(i) :
               Take(e) /\ RowRead(Ahead(e))
    BY <1>16 DEF RowCutShort
  <2>2. i \in Nat
    BY <1>0 DEF Least
  <2>3. QED
    BY <1>1, <1>2, <1>14, <2>1, <2>2
<1>17. CASE RowOfZeros
  BY <1>14, <1>17 DEF RowOfZeros, source
<1>18. QED
  BY <1>6, <1>7, <1>8, <1>9, <1>10, <1>11, <1>12, <1>13, <1>15, <1>16, <1>17 DEF Library

(* JV_DecodeWork fills the buffer or leaves the source alone. *)
LEMMA WorkSteps ==
  ASSUME IInv, LengthFresh, Work
  PROVE  [SourceNext]_source /\ LengthFresh'
<1>1. \/ UNCHANGED source
      \/ GetInput
      \/ OpenSource(file) /\ UNCHANGED cinfo
  BY DEF Work, Create, Header, HeaderSuspended, HeaderRead, Start, NoSprite, DecodeLines,
         ScanLine, LinesEnd, LineSuspended, LineInput, Line, StartScan, Eaten, EatMore, EatEnd,
         AllEaten, Output, SkipScan, SkipMore, SkipEnd, FinishScan, FinishMore, ScanFinished,
         Close, CloseMore, CloseSuspended, Release
<1>2. [SourceNext]_source
  BY <1>1 DEF SourceNext, IInv, SourceTypeOK
<1>3. skipBytes = 0 \/ completed => skipBytes' = 0 \/ completed'
  BY <1>1, GetInputSkips DEF OpenSource, source
<1>4. UNCHANGED cinfo \/ \E fields : "length" \notin DOMAIN fields /\ Set(fields)
  <2>1. CASE Start
    <3> DEFINE start == [reading |-> "rows", inRow |-> 0,
                         state |-> IF cinfo.several THEN "BUFIMAGE" ELSE "SCANNING"]
    <3>1. Set(start) /\ "length" \notin DOMAIN start
      BY <2>1 DEF Start
    <3>2. QED
      BY <3>1
  <2>2. CASE Line
    <3>1. /\ Set([outLine |-> cinfo.outLine + 1])
          /\ "length" \notin DOMAIN [outLine |-> cinfo.outLine + 1]
      BY <2>2 DEF Line
    <3>2. QED
      BY <3>1
  <2>3. CASE Output
    <3>1. CASE cinfo.state = "BUFIMAGE"
      <4>1. PICK smooth \in BOOLEAN :
              Set([outScan |-> cinfo.inScan, outLine |-> 0, smooth |-> smooth,
                   state |-> "SCANNING"])
        BY <2>3, <3>1 DEF Output
      <4>2. "length" \notin DOMAIN [outScan |-> cinfo.inScan, outLine |-> 0,
                                    smooth |-> smooth, state |-> "SCANNING"]
        OBVIOUS
      <4>3. QED
        BY <4>1, <4>2
    <3>2. QED
      BY <2>3, <3>1 DEF Output
  <2>4. CASE FinishScan \/ ScanFinished \/ Close
    <3>1. UNCHANGED cinfo \/ \E s \in {"BUFPOST", "BUFIMAGE", "STOPPING"} : Set([state |-> s])
      BY <2>4 DEF FinishScan, ScanFinished, Close
    <3>2. \A s : "length" \notin DOMAIN [state |-> s]
      OBVIOUS
    <3>3. QED
      BY <3>1, <3>2
  <2>5. CASE ~(Start \/ Line \/ Output \/ FinishScan \/ ScanFinished \/ Close)
    BY <2>5 DEF Work, Create, Header, HeaderSuspended, HeaderRead, NoSprite, DecodeLines,
         ScanLine, LinesEnd, LineSuspended, LineInput, StartScan, Eaten, EatMore, EatEnd,
         AllEaten, SkipScan, SkipMore, SkipEnd, FinishMore, CloseMore, CloseSuspended, Release
  <2>6. QED
    BY <2>1, <2>2, <2>3, <2>4, <2>5
<1>5. "length" \in DOMAIN cinfo' /\ cinfo'.length = cinfo.length
  BY <1>4, SetKeepsLength DEF LengthFresh
<1>6. QED
  BY <1>2, <1>3, <1>5 DEF LengthFresh

LEMMA StepUsesSource ==
  ASSUME IInv, LengthFresh, [Next]_vars
  PROVE  [SourceNext]_source /\ LengthFresh'
<1>1. CASE Library
  BY <1>1, LibrarySteps
<1>2. CASE Work
  BY <1>2, WorkSteps
<1>3. CASE UNCHANGED vars
  BY <1>3 DEF vars, source, LengthFresh
<1>4. QED
  BY <1>1, <1>2, <1>3 DEF Next

LEMMA InitUsesSource == Init => SourceInit /\ IInv /\ LengthFresh
<1>1. Init => LengthFresh
  BY DEF Init, LengthFresh
<1>2. QED
  BY <1>1, InitIInv DEF Init

LEMMA InvHolds == Spec => [](IInv /\ LengthFresh)
<1>1. IInv /\ LengthFresh /\ [Next]_vars => (IInv /\ LengthFresh)'
  BY StepUsesSource, StepKeepsIInv
<1>2. QED
  BY <1>1, InitUsesSource, PTL DEF Spec

(* Showing any file implements the source's specification: the decoder takes
   only what is there and skips only when what was to be skipped is. *)
THEOREM DecoderUsesSource == Spec => UsesSource
<1>1. IInv /\ LengthFresh /\ [Next]_vars => [SourceNext]_source
  BY StepUsesSource
<1>2. QED
  BY <1>1, InitUsesSource, InvHolds, PTL DEF Spec, SourceSpec, UsesSource

(* The decoder is given the bytes of every file in order, and end markers only
   behind the last of them. *)
THEOREM DecoderReadsInOrder == Spec => []GivesFile
BY DecoderUsesSource, SourceGivesFile, PTL DEF UsesSource
-----------------------------------------------------------------------------
(* The state of the decoder. *)

CinfoFields == {"state", "begun", "several", "unread", "length", "reading", "eoi",
                "inScan", "inRow", "dc", "outScan", "outLine", "smooth"}

CinfoFieldOK(f, v) ==
  /\ f = "state" => v \in {"INHEADER", "BUFIMAGE", "SCANNING", "BUFPOST", "STOPPING"}
  /\ f \in {"begun", "several", "eoi", "dc", "smooth"} => v \in BOOLEAN
  /\ f = "unread" => v \in (Byte \ {"M"}) \cup {"none"}
  /\ f = "length" => v \in {0, Long, Short, 2 * MaxSize}
  /\ f = "reading" => v \in {"markers", "rows"}
  /\ f \in {"inScan", "outScan"} => v \in Nat
  /\ f \in {"inRow", "outLine"} => v \in 0..Rows

CinfoTyped ==
  cinfo = [f \in CinfoFields |-> cinfo[f]] /\ \A f \in CinfoFields : CinfoFieldOK(f, cinfo[f])

InfoFields == {"status", "progressive", "final"}

InfoFieldOK(f, v) ==
  /\ f = "status" =>
       v \in {"CREATE", "HEADER", "STANDARD", "PROGRESSIVE", "FINISHED", "none"}
  /\ f = "progressive" => v \in {"none", "START", "SKIP", "PROCESS", "FINISH"}
  /\ f = "final" => v \in BOOLEAN

InfoTyped ==
  info = [f \in InfoFields |-> info[f]] /\ \A f \in InfoFields : InfoFieldOK(f, info[f])

PlacesOK ==
  /\ pc \in Calls \cup {"idle", "start", "lines", "output", "exit"}
  /\ ret \in {"none", "SUSPENDED", "SOS", "EOI", "ROW", "SCAN"}
  /\ failed \in {"none", "no SOI", "no image", "corrupt", "end of image expected",
                 "no memory", "bad state"}

(* A row is read only while one is missing, and a line given out likewise. *)
Within ==
  /\ cinfo.reading = "rows" => cinfo.inRow < Rows
  /\ pc = "line" => cinfo.outLine < Rows

Progressive(stage) == info.status = "PROGRESSIVE" /\ info.progressive = stage

(* The status of the picture at each place of JV_DecodeWork. *)
Staged ==
  /\ pc \in {"header", "start"} => info.status = "HEADER"
  /\ pc \in {"lines", "line"} => info.status = "STANDARD" \/ Progressive("PROCESS")
  /\ pc \in {"eat1", "eat", "eat3", "output"} => Progressive("START")
  /\ pc = "skip" => Progressive("SKIP")
  /\ pc = "finish" => Progressive("FINISH")
  /\ pc = "close" => info.status = "FINISHED"

(* Before the frame header nothing else is known. *)
NotBegun ==
  ~cinfo.begun => /\ info.status \in {"CREATE", "HEADER"} /\ pc # "start" /\ ret # "SOS"
                  /\ cinfo.unread = "none" /\ cinfo.reading = "markers"

(* The final scan is begun at the end of the image, behind which no scan
   comes; and the picture is finished only with all lines of it out. *)
AllShown ==
  /\ info.final => cinfo.eoi /\ cinfo.outScan = cinfo.inScan
  /\ info.status = "STANDARD" => ~cinfo.several
  /\ Progressive("FINISH") => cinfo.outLine = Rows
  /\ info.status \in {"FINISHED", "none"} =>
       cinfo.outLine = Rows /\ (cinfo.several => info.final)

DInv == CinfoTyped /\ InfoTyped /\ PlacesOK /\ Within /\ Staged /\ NotBegun /\ AllShown

(* The records as functions of their fields. *)
LEMMA TypesSame == TypeOK <=> SourceTypeOK /\ CinfoTyped /\ InfoTyped /\ PlacesOK
<1> DEFINE C == [state : {"INHEADER", "BUFIMAGE", "SCANNING", "BUFPOST", "STOPPING"},
                begun : BOOLEAN, several : BOOLEAN,
                unread : (Byte \ {"M"}) \cup {"none"}, length : {0, Long, Short, 2 * MaxSize},
                reading : {"markers", "rows"}, eoi : BOOLEAN,
                inScan : Nat, inRow : 0..Rows, dc : BOOLEAN,
                outScan : Nat, outLine : 0..Rows, smooth : BOOLEAN]
           I == [status : {"CREATE", "HEADER", "STANDARD", "PROGRESSIVE", "FINISHED", "none"},
                 progressive : {"none", "START", "SKIP", "PROCESS", "FINISH"},
                 final : BOOLEAN]
<1>1. cinfo \in C => cinfo = [f \in CinfoFields |-> cinfo[f]]
  BY DEF CinfoFields
<1>2. cinfo \in C => \A f \in CinfoFields : CinfoFieldOK(f, cinfo[f])
  BY DEF CinfoFields, CinfoFieldOK
<1>3. CinfoTyped => cinfo \in C
  BY DEF CinfoTyped, CinfoFields, CinfoFieldOK
<1>4. info \in I => InfoTyped
  BY DEF InfoTyped, InfoFields, InfoFieldOK
<1>5. InfoTyped => info \in I
  BY DEF InfoTyped, InfoFields, InfoFieldOK
<1>6. TypeOK <=> SourceTypeOK /\ info \in I /\ cinfo \in C /\ PlacesOK
  BY DEF TypeOK, PlacesOK
<1> HIDE DEF C, I
<1>7. QED
  BY <1>1, <1>2, <1>3, <1>4, <1>5, <1>6 DEF CinfoTyped

(* An update keeps the type if its fields have theirs. *)
LEMMA SetTyped ==
  ASSUME CinfoTyped, NEW fields, \A f \in DOMAIN fields : CinfoFieldOK(f, fields[f]),
         Set(fields)
  PROVE  /\ CinfoTyped'
         /\ \A f \in CinfoFields : cinfo'[f] = IF f \in DOMAIN fields THEN fields[f] ELSE cinfo[f]
<1>1. /\ DOMAIN cinfo = CinfoFields
      /\ cinfo' = [f \in CinfoFields |-> IF f \in DOMAIN fields THEN fields[f] ELSE cinfo[f]]
  BY DEF CinfoTyped, Set, Updated
<1>2. QED
  BY <1>1 DEF CinfoTyped

LEMMA StatusTyped ==
  ASSUME InfoTyped, NEW fields, \A f \in DOMAIN fields : InfoFieldOK(f, fields[f]),
         Status(fields)
  PROVE  /\ InfoTyped'
         /\ \A f \in InfoFields : info'[f] = IF f \in DOMAIN fields THEN fields[f] ELSE info[f]
<1>1. /\ DOMAIN info = InfoFields
      /\ info' = [f \in InfoFields |-> IF f \in DOMAIN fields THEN fields[f] ELSE info[f]]
  BY DEF InfoTyped, Status, Updated
<1>2. QED
  BY <1>1 DEF InfoTyped

(* What can be taken is a byte; a marker's letter is not another 0xFF. *)
LEMMA AheadByte ==
  ASSUME SourceTypeOK
  PROVE  /\ \A i \in 1..bytesInBuffer : Ahead(i) \in Byte
         /\ \A i \in Nat : \A e \in MarkerEnd(i) : Ahead(e) \in Byte \ {"M"}
<1>0. /\ next \in Nat /\ bytesInBuffer \in Nat /\ memory \in Seq(Byte)
      /\ Len(memory) \in Nat /\ next + bytesInBuffer = Len(memory)
  BY ByteOfFile DEF SourceTypeOK
<1>1. ASSUME NEW i \in 1..bytesInBuffer PROVE Ahead(i) \in Byte
  <2>1. next + i \in 1..Len(memory)
    BY <1>0
  <2>2. QED
    BY <1>0, <2>1, ElementOfSeq DEF Ahead
<1>2. \A i \in Nat : \A e \in MarkerEnd(i) : e \in 1..bytesInBuffer /\ Ahead(e) # "M"
  BY <1>0 DEF MarkerEnd
<1>3. QED
  BY <1>1, <1>2

LEMMA InitDInv == Init => DInv
<1> SUFFICES ASSUME Init PROVE DInv
  OBVIOUS
<1>1. CinfoTyped
  BY RowsAssumption DEF Init, CinfoTyped, CinfoFields, CinfoFieldOK
<1>2. InfoTyped
  BY DEF Init, InfoTyped, InfoFields, InfoFieldOK
<1>3. PlacesOK /\ Within /\ Staged /\ NotBegun /\ AllShown
  BY DEF Init, PlacesOK, Within, Staged, NotBegun, AllShown, Progressive
<1>4. QED
  BY <1>1, <1>2, <1>3 DEF DInv

(* The fields one by one. *)
LEMMA CinfoIs ==
  ASSUME CinfoTyped
  PROVE  /\ cinfo.begun \in BOOLEAN /\ cinfo.several \in BOOLEAN /\ cinfo.eoi \in BOOLEAN
         /\ cinfo.unread \in (Byte \ {"M"}) \cup {"none"} /\ cinfo.reading \in {"markers", "rows"}
         /\ cinfo.inScan \in Nat /\ cinfo.outScan \in Nat
         /\ cinfo.inRow \in 0..Rows /\ cinfo.outLine \in 0..Rows
BY DEF CinfoTyped, CinfoFields, CinfoFieldOK

LEMMA InfoIs ==
  ASSUME InfoTyped
  PROVE  /\ info.status \in {"CREATE", "HEADER", "STANDARD", "PROGRESSIVE", "FINISHED", "none"}
         /\ info.progressive \in {"none", "START", "SKIP", "PROCESS", "FINISH"}
         /\ info.final \in BOOLEAN
BY DEF InfoTyped, InfoFields, InfoFieldOK

(* The library changes nothing of JV_DecodeWork but where it gives up. *)
LibraryReturns ==
  /\ UNCHANGED info
  /\ \/ ret' \in {"none", "SUSPENDED", "SOS", "EOI", "ROW", "SCAN"} /\ UNCHANGED <<pc, failed>>
     \/ /\ pc' = "exit" /\ ret' = "none"
        /\ failed' \in {"no SOI", "no image", "corrupt", "end of image expected"}

LEMMA LibraryFrame ==
  ASSUME DInv, LibraryReturns
  PROVE  InfoTyped' /\ PlacesOK' /\ Staged'
<1>1. InfoTyped'
  BY DEF DInv, LibraryReturns, InfoTyped
<1>2. PlacesOK'
  BY DEF DInv, LibraryReturns, PlacesOK
<1>3. Staged'
  BY DEF DInv, LibraryReturns, Staged, Progressive
<1>4. QED
  BY <1>1, <1>2, <1>3

(* What the library may do to the rest, wherever it is called from. *)
LEMMA LibraryUnchanged ==
  ASSUME DInv, LibraryReturns, UNCHANGED cinfo, cinfo.begun \/ ret' # "SOS"
  PROVE  DInv'
<1>1. CinfoTyped'
  BY DEF DInv, CinfoTyped
<1>2. InfoTyped' /\ PlacesOK' /\ Staged'
  BY LibraryFrame
<1>3. Within' /\ NotBegun' /\ AllShown'
  BY DEF DInv, LibraryReturns, Within, NotBegun, AllShown, Progressive
<1>4. QED
  BY <1>1, <1>2, <1>3 DEF DInv

LEMMA LibraryUpdated ==
  ASSUME DInv, LibraryReturns, CinfoTyped',
         cinfo.begun => cinfo'.begun,
         ~cinfo.begun =>
           /\ ret' # "SOS" /\ cinfo'.unread = cinfo.unread /\ cinfo'.reading = cinfo.reading
           /\ cinfo.several # cinfo'.several => info.status \in {"CREATE", "HEADER"},
         cinfo.begun => cinfo'.several = cinfo.several,
         cinfo'.reading = "rows" => cinfo'.inRow < Rows,
         cinfo'.outLine = cinfo.outLine,
         cinfo.eoi => cinfo'.eoi /\ cinfo'.inScan = cinfo.inScan /\ cinfo'.outScan = cinfo.outScan
  PROVE  DInv'
<1>1. InfoTyped' /\ PlacesOK' /\ Staged'
  BY LibraryFrame
<1>2. Within'
  BY DEF DInv, LibraryReturns, Within
<1>3. cinfo.begun \in BOOLEAN /\ cinfo'.begun \in BOOLEAN
  BY CinfoIs DEF DInv, CinfoTyped, CinfoFields, CinfoFieldOK
<1>4. NotBegun'
  BY <1>3 DEF DInv, LibraryReturns, NotBegun
<1>5. AllShown'
  <2>1. info' = info
    BY DEF LibraryReturns
  <2>2. cinfo'.several = cinfo.several \/ info.status \in {"CREATE", "HEADER"}
    BY <1>3 DEF DInv, NotBegun
  <2>3. QED
    BY <2>1, <2>2 DEF DInv, AllShown, Progressive
<1>6. QED
  BY <1>1, <1>2, <1>4, <1>5 DEF DInv

LEMMA RowReadKeepsDInv ==
  ASSUME DInv, NEW marker \in (Byte \ {"M"}) \cup {"none"}, InRows, RowRead(marker)
  PROVE  DInv'
<1> DEFINE row == [unread |-> marker, inRow |-> cinfo.inRow + 1,
                   reading |-> IF cinfo.inRow + 1 = Rows THEN "markers" ELSE "rows"]
<1>0. /\ cinfo.inRow \in 0..Rows /\ cinfo.inRow < Rows /\ Rows \in Nat
      /\ cinfo.begun \in BOOLEAN /\ cinfo.begun
  BY RowsAssumption, CinfoIs DEF DInv, Within, NotBegun, InRows
<1>1. /\ CinfoTyped'
      /\ \A f \in CinfoFields : cinfo'[f] = IF f \in DOMAIN row THEN row[f] ELSE cinfo[f]
  <2>1. /\ CinfoFieldOK("unread", marker) /\ CinfoFieldOK("inRow", cinfo.inRow + 1)
        /\ CinfoFieldOK("reading", IF cinfo.inRow + 1 = Rows THEN "markers" ELSE "rows")
    BY <1>0 DEF CinfoFieldOK
  <2>2. \A f \in DOMAIN row : CinfoFieldOK(f, row[f])
    BY <2>1
  <2>3. Set(row)
    BY DEF RowRead
  <2> HIDE DEF row
  <2>4. QED
    BY <2>2, <2>3, SetTyped DEF DInv
<1>2. /\ cinfo'.begun = cinfo.begun /\ cinfo'.several = cinfo.several /\ cinfo'.eoi = cinfo.eoi
      /\ cinfo'.inScan = cinfo.inScan /\ cinfo'.outScan = cinfo.outScan
      /\ cinfo'.outLine = cinfo.outLine
      /\ cinfo'.inRow = cinfo.inRow + 1
      /\ cinfo'.reading = IF cinfo.inRow + 1 = Rows THEN "markers" ELSE "rows"
  BY <1>1 DEF CinfoFields
<1>3. LibraryReturns
  BY DEF RowRead, Returned, LibraryReturns
<1>4. cinfo'.reading = "rows" => cinfo'.inRow < Rows
  BY <1>0, <1>2
<1>5. QED
  BY <1>0, <1>1, <1>2, <1>3, <1>4, LibraryUpdated

LEMMA LibraryKeepsDInv == ASSUME IInv, LengthFresh, DInv, Library PROVE DInv'
<1>0. /\ \A i \in 1..bytesInBuffer : Ahead(i) \in Byte
      /\ \A i \in Nat : \A e \in MarkerEnd(i) : Ahead(e) \in Byte \ {"M"}
      /\ bytesInBuffer \in Nat
  BY AheadByte, ByteOfFile DEF IInv
<1>1. CinfoTyped /\ NotBegun /\ Within /\ AllShown
  BY DEF DInv
<1>2. /\ cinfo.begun \in BOOLEAN /\ cinfo.several \in BOOLEAN /\ cinfo.eoi \in BOOLEAN
      /\ cinfo.unread \in (Byte \ {"M"}) \cup {"none"} /\ cinfo.reading \in {"markers", "rows"}
      /\ cinfo.inScan \in Nat /\ cinfo.outScan \in Nat
      /\ cinfo.inRow \in 0..Rows /\ cinfo.outLine \in 0..Rows /\ Rows \in Nat \ {0}
  BY <1>1, CinfoIs, RowsAssumption
<1>3. CASE FirstMarker
  <2>1. LibraryReturns /\ ret' # "SOS" /\ ~cinfo.begun
    BY <1>3 DEF FirstMarker, Returned, Fail, LibraryReturns
  <2>2. CASE UNCHANGED cinfo
    BY <2>1, <2>2, LibraryUnchanged
  <2>3. CASE Set([begun |-> TRUE, several |-> Ahead(1) = "P"])
    <3>1. PICK yes \in BOOLEAN, p \in BOOLEAN : yes /\ Set([begun |-> yes, several |-> p])
      BY <2>3
    <3> DEFINE fields == [begun |-> yes, several |-> p]
    <3>2. /\ CinfoTyped'
          /\ \A f \in CinfoFields :
               cinfo'[f] = IF f \in DOMAIN fields THEN fields[f] ELSE cinfo[f]
      <4>1. \A f \in DOMAIN fields : CinfoFieldOK(f, fields[f])
        BY DEF CinfoFieldOK
      <4>2. Set(fields)
        BY <3>1
      <4> HIDE DEF fields
      <4>3. QED
        BY <1>1, <4>1, <4>2, SetTyped
    <3>3. /\ cinfo'.begun /\ cinfo'.unread = cinfo.unread /\ cinfo'.reading = cinfo.reading
          /\ cinfo'.eoi = cinfo.eoi /\ cinfo'.inRow = cinfo.inRow
          /\ cinfo'.inScan = cinfo.inScan /\ cinfo'.outScan = cinfo.outScan
          /\ cinfo'.outLine = cinfo.outLine
      BY <3>1, <3>2 DEF CinfoFields
    <3>4. info.status \in {"CREATE", "HEADER"}
      BY <1>1, <2>1 DEF NotBegun
    <3>5. QED
      BY <1>1, <2>1, <3>2, <3>3, <3>4, LibraryUpdated DEF Within
  <2>4. QED
    BY <1>3, <2>2, <2>3 DEF FirstMarker
<1>4. CASE Discard
  BY <1>4, LibraryUnchanged DEF Discard, Returned, LibraryReturns
<1>5. CASE NextMarker
  <2>1. PICK e \in MarkerEnd(1) : Set([unread |-> Ahead(e)])
    BY <1>5 DEF NextMarker
  <2>2. LibraryReturns /\ cinfo.begun
    BY <1>5 DEF NextMarker, Returned, LibraryReturns
  <2>3. CinfoFieldOK("unread", Ahead(e))
    BY <1>0 DEF CinfoFieldOK
  <2>4. /\ CinfoTyped'
        /\ \A f \in CinfoFields : cinfo'[f] = IF f = "unread" THEN Ahead(e) ELSE cinfo[f]
    BY <1>1, <2>1, <2>3, SetTyped
  <2>5. /\ cinfo'.begun = cinfo.begun /\ cinfo'.several = cinfo.several
        /\ cinfo'.eoi = cinfo.eoi /\ cinfo'.inRow = cinfo.inRow /\ cinfo'.reading = cinfo.reading
        /\ cinfo'.inScan = cinfo.inScan /\ cinfo'.outScan = cinfo.outScan
        /\ cinfo'.outLine = cinfo.outLine
    BY <2>4 DEF CinfoFields
  <2>6. QED
    BY <1>1, <2>2, <2>4, <2>5, LibraryUpdated DEF Within
<1>6. CASE Segment \/ SkipVariable
  <2>1. LibraryReturns /\ ret' # "SOS"
    BY <1>6 DEF Segment, SkipVariable, Returned, LibraryReturns
  <2>2. PICK fields : /\ Set(fields)
                      /\ DOMAIN fields \subseteq {"length", "unread"}
                      /\ \A f \in DOMAIN fields : CinfoFieldOK(f, fields[f])
                      /\ "unread" \in DOMAIN fields => fields["unread"] = "none"
    <3>1. CASE Segment
      <4>1. PICK l \in {0, Long, Short, 2 * MaxSize} : Set([length |-> l])
        BY <3>1 DEF Segment
      <4>2. CinfoFieldOK("length", l)
        BY DEF CinfoFieldOK
      <4>3. /\ DOMAIN [length |-> l] = {"length"}
            /\ \A f \in DOMAIN [length |-> l] : CinfoFieldOK(f, [length |-> l][f])
        BY <4>2
      <4>4. QED
        BY <4>1, <4>3
    <3>2. CASE SkipVariable
      <4> DEFINE done == [length |-> 0, unread |-> "none"]
      <4>1. CinfoFieldOK("length", 0) /\ CinfoFieldOK("unread", "none")
        BY DEF CinfoFieldOK
      <4>2. /\ DOMAIN done = {"length", "unread"} /\ done["unread"] = "none"
            /\ \A f \in DOMAIN done : CinfoFieldOK(f, done[f])
        BY <4>1
      <4>3. Set(done)
        BY <3>2 DEF SkipVariable
      <4> HIDE DEF done
      <4>4. QED
        BY <4>2, <4>3
    <3>3. QED
      BY <1>6, <3>1, <3>2
  <2>3. /\ CinfoTyped'
        /\ \A f \in CinfoFields : cinfo'[f] = IF f \in DOMAIN fields THEN fields[f] ELSE cinfo[f]
    BY <1>1, <2>2, SetTyped
  <2>4. /\ cinfo'.begun = cinfo.begun /\ cinfo'.several = cinfo.several
        /\ cinfo'.eoi = cinfo.eoi /\ cinfo'.inRow = cinfo.inRow /\ cinfo'.reading = cinfo.reading
        /\ cinfo'.inScan = cinfo.inScan /\ cinfo'.outScan = cinfo.outScan
        /\ cinfo'.outLine = cinfo.outLine
        /\ cinfo'.unread \in {cinfo.unread, "none"}
    BY <2>2, <2>3 DEF CinfoFields
  <2>5. ~cinfo.begun => cinfo.unread = "none"
    BY <1>1 DEF NotBegun
  <2>6. QED
    BY <1>1, <2>1, <2>3, <2>4, <2>5, LibraryUpdated DEF Within
<1>7. CASE StartOfScan
  <2>1. cinfo.begun /\ ~cinfo.eoi
    BY <1>1, <1>2, <1>7 DEF StartOfScan, InMarkers, NotBegun
  <2>2. LibraryReturns
    BY <1>7 DEF StartOfScan, Returned, Fail, LibraryReturns
  <2> DEFINE scan == [unread |-> "none", inScan |-> cinfo.inScan + 1, inRow |-> 0,
                      dc |-> Ahead(1) = "d",
                      reading |-> IF cinfo.inScan = 0 THEN "markers" ELSE "rows"]
  <2>3. CASE UNCHANGED cinfo
    BY <2>1, <2>2, <2>3, LibraryUnchanged
  <2>4. CASE Set(scan)
    <3>1. /\ CinfoFieldOK("unread", "none") /\ CinfoFieldOK("inScan", cinfo.inScan + 1)
          /\ CinfoFieldOK("inRow", 0) /\ CinfoFieldOK("dc", Ahead(1) = "d")
          /\ CinfoFieldOK("reading", IF cinfo.inScan = 0 THEN "markers" ELSE "rows")
      BY <1>2 DEF CinfoFieldOK
    <3>2. \A f \in DOMAIN scan : CinfoFieldOK(f, scan[f])
      BY <3>1
    <3>3. /\ CinfoTyped'
          /\ \A f \in CinfoFields : cinfo'[f] = IF f \in DOMAIN scan THEN scan[f] ELSE cinfo[f]
      <4> HIDE DEF scan
      <4>1. QED
        BY <1>1, <2>4, <3>2, SetTyped
    <3>4. /\ cinfo'.begun = cinfo.begun /\ cinfo'.several = cinfo.several
          /\ cinfo'.inRow = 0 /\ cinfo'.outLine = cinfo.outLine
      BY <3>3 DEF CinfoFields
    <3>5. QED
      BY <1>2, <2>1, <2>2, <3>3, <3>4, LibraryUpdated
  <2>5. QED
    BY <1>7, <2>3, <2>4 DEF StartOfScan
<1>8. CASE EndOfImage
  <2>1. cinfo.begun /\ ~cinfo.eoi
    BY <1>1, <1>2, <1>8 DEF EndOfImage, InMarkers, NotBegun
  <2>2. LibraryReturns
    BY <1>8 DEF EndOfImage, Returned, Fail, LibraryReturns
  <2>3. CASE UNCHANGED cinfo
    BY <2>1, <2>2, <2>3, LibraryUnchanged
  <2>4. CASE Set([unread |-> "none", eoi |-> TRUE,
                  outScan |-> Least(cinfo.outScan, cinfo.inScan)])
    <3>1. PICK yes \in BOOLEAN, n \in Nat : Set([unread |-> "none", eoi |-> yes, outScan |-> n])
      <4>1. Least(cinfo.outScan, cinfo.inScan) \in Nat
        BY <1>2 DEF Least
      <4>2. QED
        BY <2>4, <4>1
    <3> DEFINE end == [unread |-> "none", eoi |-> yes, outScan |-> n]
    <3>2. \A f \in DOMAIN end : CinfoFieldOK(f, end[f])
      BY DEF CinfoFieldOK
    <3>3. /\ CinfoTyped'
          /\ \A f \in CinfoFields : cinfo'[f] = IF f \in DOMAIN end THEN end[f] ELSE cinfo[f]
      <4>1. Set(end)
        BY <3>1
      <4> HIDE DEF end
      <4>2. QED
        BY <1>1, <3>2, <4>1, SetTyped
    <3>4. /\ cinfo'.begun = cinfo.begun /\ cinfo'.several = cinfo.several
          /\ cinfo'.inRow = cinfo.inRow /\ cinfo'.outLine = cinfo.outLine
          /\ cinfo'.reading = cinfo.reading
      BY <3>3 DEF CinfoFields
    <3>5. QED
      BY <1>1, <2>1, <2>2, <3>3, <3>4, LibraryUpdated DEF Within
  <2>5. QED
    BY <1>8, <2>3, <2>4 DEF EndOfImage
<1>9. CASE AfterEnd \/ Suspend
  BY <1>9, LibraryUnchanged DEF AfterEnd, Suspend, Returned, LibraryReturns
<1>10. CASE Row
  BY <1>10, RowReadKeepsDInv DEF Row
<1>11. CASE RowCutShort
  <2>1. PICK i \in 1..Least(2, bytesInBuffer) : \E e \in MarkerEnd(i) : RowRead(Ahead(e))
    BY <1>11 DEF RowCutShort
  <2>2. i \in Nat
    BY <1>0 DEF Least
  <2>3. QED
    BY <1>0, <1>11, <2>1, <2>2, RowReadKeepsDInv DEF RowCutShort
<1>12. CASE RowOfZeros
  BY <1>2, <1>12, RowReadKeepsDInv DEF RowOfZeros
<1>13. QED
  BY <1>3, <1>4, <1>5, <1>6, <1>7, <1>8, <1>9, <1>10, <1>11, <1>12 DEF Library

(* JV_DecodeWork moves on without a change of status; ... *)
LEMMA WorkMoves ==
  ASSUME DInv, UNCHANGED <<info, cinfo>>, PlacesOK', Staged', ret' = "none",
         pc' = "line" => cinfo.outLine < Rows, pc' = "start" => cinfo.begun
  PROVE  DInv'
<1>1. CinfoTyped' /\ InfoTyped'
  BY DEF DInv, CinfoTyped, InfoTyped
<1>2. Within' /\ NotBegun' /\ AllShown'
  BY DEF DInv, Within, NotBegun, AllShown, Progressive
<1>3. QED
  BY <1>1, <1>2 DEF DInv

(* ... or sets it, at the end of what it does at a null event. *)
LEMMA StatusUpdated ==
  ASSUME DInv, UNCHANGED cinfo, cinfo.begun \/ info'.status = "HEADER", InfoTyped',
         pc' = "idle", ret' \in {ret, "none"}, UNCHANGED failed,
         info'.final = info.final,
         info'.status = "STANDARD" => ~cinfo.several,
         Progressive("FINISH")' => cinfo.outLine = Rows,
         info'.status \in {"FINISHED", "none"} =>
           cinfo.outLine = Rows /\ (cinfo.several => info.final)
  PROVE  DInv'
<1>1. CinfoTyped' /\ PlacesOK'
  BY DEF DInv, CinfoTyped, PlacesOK
<1>2. Within' /\ Staged' /\ NotBegun'
  BY DEF DInv, Within, Staged, NotBegun
<1>3. AllShown'
  BY DEF DInv, AllShown
<1>4. QED
  BY <1>1, <1>2, <1>3 DEF DInv

LEMMA MovesKeepDInv ==
  ASSUME DInv,
         \/ Header \/ HeaderSuspended \/ HeaderRead \/ NoSprite \/ ScanLine \/ LinesEnd
         \/ LineSuspended \/ LineInput \/ Eaten \/ EatMore \/ EatEnd \/ AllEaten
         \/ SkipScan \/ SkipMore \/ FinishMore \/ CloseMore \/ CloseSuspended
  PROVE  DInv'
<1>0. PlacesOK /\ Staged /\ NotBegun /\ Within /\ cinfo.begun \in BOOLEAN
  BY CinfoIs DEF DInv
<1>1. CASE Header \/ HeaderSuspended \/ HeaderRead
  <2>1. UNCHANGED <<info, cinfo, failed>> /\ ret' = "none" /\ pc' \in {"header", "idle", "start"}
    BY <1>1 DEF Header, HeaderSuspended, HeaderRead, At
  <2>2. info.status = "HEADER" /\ (pc' = "start" => cinfo.begun)
    BY <1>0, <1>1 DEF Header, HeaderSuspended, HeaderRead, Is, Staged, NotBegun, At
  <2>3. PlacesOK' /\ Staged'
    BY <1>0, <2>1, <2>2 DEF PlacesOK, Staged, Calls
  <2>4. QED
    BY <2>1, <2>2, <2>3, WorkMoves
<1>2. CASE NoSprite
  <2>1. UNCHANGED <<info, cinfo>> /\ failed' = "no memory" /\ ret' = "none" /\ pc' = "exit"
    BY <1>2 DEF NoSprite, Fail
  <2>2. PlacesOK' /\ Staged'
    BY <1>0, <2>1 DEF PlacesOK, Staged
  <2>3. QED
    BY <2>1, <2>2, WorkMoves
<1>3. CASE ScanLine \/ LinesEnd \/ LineSuspended \/ LineInput
  <2>1. UNCHANGED <<info, cinfo, failed>> /\ ret' = "none" /\ pc' \in {"line", "idle"}
    BY <1>3 DEF ScanLine, LinesEnd, LineSuspended, LineInput, At
  <2>2. /\ info.status = "STANDARD" \/ Progressive("PROCESS")
        /\ pc' = "line" => cinfo.outLine < Rows
    BY <1>0, <1>3 DEF ScanLine, LinesEnd, LineSuspended, LineInput, At, Staged, Within
  <2>3. PlacesOK' /\ Staged'
    BY <1>0, <2>1, <2>2 DEF PlacesOK, Staged, Calls, Progressive
  <2>4. QED
    BY <2>1, <2>2, <2>3, WorkMoves
<1>4. CASE Eaten \/ EatMore \/ EatEnd \/ AllEaten
  <2>1. /\ UNCHANGED <<info, cinfo, failed>> /\ ret' = "none"
        /\ pc' \in {"output", "eat", "eat3", "idle"}
    BY <1>4 DEF Eaten, EatMore, EatEnd, AllEaten, At
  <2>2. Progressive("START")
    BY <1>0, <1>4 DEF Eaten, EatMore, EatEnd, AllEaten, Staged
  <2>3. PlacesOK' /\ Staged'
    BY <1>0, <2>1, <2>2 DEF PlacesOK, Staged, Calls, Progressive
  <2>4. QED
    BY <2>1, <2>3, WorkMoves
<1>5. CASE SkipScan \/ SkipMore
  <2>1. UNCHANGED <<info, cinfo, failed>> /\ ret' = "none" /\ pc' = "skip"
    BY <1>5 DEF SkipScan, SkipMore, At
  <2>2. Progressive("SKIP")
    BY <1>0, <1>5 DEF SkipScan, SkipMore, Staged, Is2, Is, Progressive
  <2>3. PlacesOK' /\ Staged'
    BY <1>0, <2>1, <2>2 DEF PlacesOK, Staged, Calls, Progressive
  <2>4. QED
    BY <2>1, <2>3, WorkMoves
<1>6. CASE FinishMore \/ CloseMore \/ CloseSuspended
  <2>1. UNCHANGED <<info, cinfo, failed>> /\ ret' = "none" /\ pc' \in {pc, "idle"}
    BY <1>6 DEF FinishMore, CloseMore, CloseSuspended, At
  <2>2. pc \in {"finish", "close"}
    BY <1>6 DEF FinishMore, CloseMore, CloseSuspended
  <2>3. PlacesOK' /\ Staged'
    BY <1>0, <2>1, <2>2 DEF PlacesOK, Staged, Progressive
  <2>4. QED
    BY <2>1, <2>2, <2>3, WorkMoves
<1>7. QED
  BY <1>1, <1>2, <1>3, <1>4, <1>5, <1>6

(* One field of the state of JV_DecodeWork. *)
LEMMA StatusSet ==
  ASSUME DInv, NEW s, InfoFieldOK("status", s), Status([status |-> s])
  PROVE  InfoTyped' /\ info'.status = s /\ UNCHANGED <<info.progressive, info.final>>
<1>1. \A f \in DOMAIN [status |-> s] : InfoFieldOK(f, [status |-> s][f])
  OBVIOUS
<1>2. InfoTyped' /\ \A f \in InfoFields : info'[f] = IF f = "status" THEN s ELSE info[f]
  BY <1>1, StatusTyped DEF DInv
<1>3. QED
  BY <1>2 DEF InfoFields

LEMMA ProgressiveSet ==
  ASSUME DInv, NEW p, InfoFieldOK("progressive", p), Status([progressive |-> p])
  PROVE  InfoTyped' /\ info'.progressive = p /\ UNCHANGED <<info.status, info.final>>
<1>1. \A f \in DOMAIN [progressive |-> p] : InfoFieldOK(f, [progressive |-> p][f])
  OBVIOUS
<1>2. InfoTyped' /\ \A f \in InfoFields : info'[f] = IF f = "progressive" THEN p ELSE info[f]
  BY <1>1, StatusTyped DEF DInv
<1>3. QED
  BY <1>2 DEF InfoFields

LEMMA BegunIs ==
  ASSUME DInv, info.status \notin {"CREATE", "HEADER"} \/ pc = "start"
  PROVE  cinfo.begun
BY CinfoIs DEF DInv, NotBegun

LEMMA CreateKeepsDInv == ASSUME DInv, Create PROVE DInv'
<1>1. InfoFieldOK("status", "HEADER")
  BY DEF InfoFieldOK
<1>2. InfoTyped' /\ info'.status = "HEADER" /\ info'.final = info.final
  BY <1>1, StatusSet DEF Create
<1>3. UNCHANGED <<cinfo, pc, ret, failed>> /\ pc = "idle"
  BY DEF Create, Is
<1>4. QED
  BY <1>2, <1>3, StatusUpdated DEF Progressive

LEMMA DecodeLinesKeepsDInv == ASSUME DInv, DecodeLines PROVE DInv'
<1>0. /\ info.status = "STANDARD" \/ Progressive("PROCESS")
      /\ UNCHANGED <<cinfo, failed>> /\ ret' = "none"
      /\ cinfo.outLine \in 0..Rows /\ Rows \in Nat
  BY CinfoIs, RowsAssumption DEF DecodeLines, Is, Is2, Progressive, At, DInv
<1>1. CASE cinfo.outLine < Rows
  <2>1. UNCHANGED info /\ pc' = "lines"
    BY <1>1 DEF DecodeLines, At
  <2>2. PlacesOK' /\ Staged'
    BY <1>0, <2>1 DEF DInv, PlacesOK, Staged, Progressive
  <2>3. QED
    BY <1>0, <2>1, <2>2, WorkMoves
<1>2. CASE ~(cinfo.outLine < Rows)
  <2>1. cinfo.outLine = Rows /\ pc' = "idle" /\ cinfo.begun
    BY <1>0, <1>2, BegunIs DEF DecodeLines, At, Progressive
  <2>2. CASE info.status = "PROGRESSIVE"
    <3>1. Status([progressive |-> "FINISH"]) /\ InfoFieldOK("progressive", "FINISH")
      BY <1>2, <2>2 DEF DecodeLines, InfoFieldOK
    <3>2. InfoTyped' /\ info'.status = "PROGRESSIVE" /\ info'.final = info.final
      BY <2>2, <3>1, ProgressiveSet
    <3>3. QED
      BY <1>0, <2>1, <3>2, StatusUpdated
  <2>3. CASE info.status # "PROGRESSIVE"
    <3>1. Status([status |-> "FINISHED"]) /\ InfoFieldOK("status", "FINISHED")
      BY <1>2, <2>3 DEF DecodeLines, InfoFieldOK
    <3>2. InfoTyped' /\ info'.status = "FINISHED" /\ info'.final = info.final
      BY <3>1, StatusSet
    <3>3. ~cinfo.several
      BY <1>0, <2>3 DEF DInv, AllShown, Progressive
    <3>4. QED
      BY <1>0, <2>1, <3>2, <3>3, StatusUpdated DEF Progressive
  <2>4. QED
    BY <2>2, <2>3
<1>3. QED
  BY <1>1, <1>2

LEMMA StartScanKeepsDInv == ASSUME DInv, StartScan PROVE DInv'
<1>0. Progressive("START") /\ UNCHANGED <<cinfo, failed>> /\ ret' = "none"
  BY DEF StartScan, Is, Is2, Progressive, At
<1>1. CASE UNCHANGED info /\ pc' \in {"eat1", "output"}
  <2>1. PlacesOK' /\ Staged'
    BY <1>0, <1>1 DEF DInv, PlacesOK, Staged, Progressive, Calls
  <2>2. QED
    BY <1>0, <1>1, <2>1, WorkMoves
<1>2. CASE Status([progressive |-> "SKIP"]) /\ pc' = "idle"
  <2>1. InfoFieldOK("progressive", "SKIP")
    BY DEF InfoFieldOK
  <2>2. /\ InfoTyped' /\ info'.status = info.status /\ info'.progressive = "SKIP"
        /\ info'.final = info.final
    BY <1>2, <2>1, ProgressiveSet
  <2>3. cinfo.begun
    BY <1>0, BegunIs DEF Progressive
  <2>4. QED
    BY <1>0, <1>2, <2>2, <2>3, StatusUpdated DEF Progressive
<1>3. QED
  BY <1>1, <1>2 DEF StartScan, At

LEMMA SkipEndKeepsDInv == ASSUME DInv, SkipEnd PROVE DInv'
<1>0. Progressive("SKIP") /\ UNCHANGED <<cinfo, failed>> /\ ret' = "none" /\ pc' = "idle"
  BY DEF SkipEnd, At, DInv, Staged
<1>1. CASE UNCHANGED info
  <2>1. PlacesOK' /\ Staged'
    BY <1>0, <1>1 DEF DInv, PlacesOK, Staged
  <2>2. QED
    BY <1>0, <1>1, <2>1, WorkMoves
<1>2. CASE Status([progressive |-> "START"])
  <2>1. InfoFieldOK("progressive", "START")
    BY DEF InfoFieldOK
  <2>2. /\ InfoTyped' /\ info'.status = info.status /\ info'.progressive = "START"
        /\ info'.final = info.final
    BY <1>2, <2>1, ProgressiveSet
  <2>3. cinfo.begun
    BY <1>0, BegunIs DEF Progressive
  <2>4. QED
    BY <1>0, <2>2, <2>3, StatusUpdated DEF Progressive
<1>3. QED
  BY <1>1, <1>2 DEF SkipEnd

LEMMA ReleaseKeepsDInv == ASSUME DInv, Release PROVE DInv'
<1>0. info.status = "FINISHED" /\ UNCHANGED <<cinfo, failed>> /\ ret' = "none" /\ pc' = "idle"
  BY DEF Release, At, DInv, Staged
<1>1. Status([status |-> "none"]) /\ InfoFieldOK("status", "none")
  BY DEF Release, InfoFieldOK
<1>2. InfoTyped' /\ info'.status = "none" /\ info'.final = info.final
  BY <1>1, StatusSet
<1>3. cinfo.begun
  BY <1>0, BegunIs
<1>4. cinfo.outLine = Rows /\ (cinfo.several => info.final)
  BY <1>0 DEF DInv, AllShown
<1>5. QED
  BY <1>0, <1>2, <1>3, <1>4, StatusUpdated DEF Progressive

LEMMA StateSet ==
  ASSUME DInv, NEW s, CinfoFieldOK("state", s), Set([state |-> s])
  PROVE  /\ CinfoTyped'
         /\ \A f \in CinfoFields \ {"state"} : cinfo'[f] = cinfo[f]
<1>1. \A f \in DOMAIN [state |-> s] : CinfoFieldOK(f, [state |-> s][f])
  OBVIOUS
<1>2. CinfoTyped' /\ \A f \in CinfoFields : cinfo'[f] = IF f = "state" THEN s ELSE cinfo[f]
  BY <1>1, SetTyped DEF DInv
<1>3. QED
  BY <1>2

(* The state of the library's object alone says nothing here. *)
LEMMA StateAlone ==
  ASSUME DInv, CinfoTyped', \A f \in CinfoFields \ {"state"} : cinfo'[f] = cinfo[f]
  PROVE  /\ cinfo'.reading = cinfo.reading /\ cinfo'.inRow = cinfo.inRow
         /\ cinfo'.outLine = cinfo.outLine /\ cinfo'.begun = cinfo.begun
         /\ cinfo'.unread = cinfo.unread /\ cinfo'.several = cinfo.several
         /\ cinfo'.eoi = cinfo.eoi /\ cinfo'.outScan = cinfo.outScan
         /\ cinfo'.inScan = cinfo.inScan
BY DEF CinfoFields

LEMMA StartKeepsDInv == ASSUME DInv, Start PROVE DInv'
<1> DEFINE state == IF cinfo.several THEN "BUFIMAGE" ELSE "SCANNING"
           start == [reading |-> "rows", inRow |-> 0, state |-> state]
<1>0. /\ UNCHANGED failed /\ ret' = "none" /\ pc' = "idle" /\ cinfo.begun
      /\ Rows \in Nat \ {0} /\ cinfo.several \in BOOLEAN
  BY BegunIs, CinfoIs, RowsAssumption DEF Start, At, DInv
<1>1. /\ CinfoTyped'
      /\ \A f \in CinfoFields : cinfo'[f] = IF f \in DOMAIN start THEN start[f] ELSE cinfo[f]
  <2>1. /\ CinfoFieldOK("reading", "rows") /\ CinfoFieldOK("inRow", 0)
        /\ CinfoFieldOK("state", state)
    BY <1>0 DEF CinfoFieldOK
  <2>2. \A f \in DOMAIN start : CinfoFieldOK(f, start[f])
    BY <2>1
  <2>3. Set(start)
    BY DEF Start
  <2> HIDE DEF start
  <2>4. QED
    BY <2>2, <2>3, SetTyped DEF DInv
<1>2. /\ cinfo'.inRow = 0 /\ cinfo'.outLine = cinfo.outLine /\ cinfo'.begun = cinfo.begun
      /\ cinfo'.several = cinfo.several /\ cinfo'.eoi = cinfo.eoi
      /\ cinfo'.outScan = cinfo.outScan /\ cinfo'.inScan = cinfo.inScan
  BY <1>1 DEF CinfoFields
<1>3. /\ InfoTyped' /\ info'.final = info.final
      /\ \/ info'.status = "PROGRESSIVE" /\ info'.progressive = "START"
         \/ info'.status = "STANDARD" /\ ~cinfo.several
  <2>1. CASE cinfo.several
    <3> DEFINE fields == [status |-> "PROGRESSIVE", progressive |-> "START"]
    <3>1. Status(fields)
      BY <2>1 DEF Start
    <3>2. \A f \in DOMAIN fields : InfoFieldOK(f, fields[f])
      BY DEF InfoFieldOK
    <3>3. InfoTyped'
          /\ \A f \in InfoFields : info'[f] = IF f \in DOMAIN fields THEN fields[f] ELSE info[f]
      <4> HIDE DEF fields
      <4>1. QED
        BY <3>1, <3>2, StatusTyped DEF DInv
    <3>4. QED
      BY <3>3 DEF InfoFields
  <2>2. CASE ~cinfo.several
    <3> DEFINE fields == [status |-> "STANDARD", progressive |-> "none"]
    <3>1. Status(fields)
      BY <2>2 DEF Start
    <3>2. \A f \in DOMAIN fields : InfoFieldOK(f, fields[f])
      BY DEF InfoFieldOK
    <3>3. InfoTyped'
          /\ \A f \in InfoFields : info'[f] = IF f \in DOMAIN fields THEN fields[f] ELSE info[f]
      <4> HIDE DEF fields
      <4>1. QED
        BY <3>1, <3>2, StatusTyped DEF DInv
    <3>4. QED
      BY <2>2, <3>3 DEF InfoFields
  <2>3. QED
    BY <2>1, <2>2
<1>4. PlacesOK' /\ Within' /\ Staged' /\ NotBegun'
  <2>1. PlacesOK' /\ Staged'
    BY <1>0 DEF DInv, PlacesOK, Staged
  <2>2. Within'
    BY <1>0, <1>2 DEF Within
  <2>3. NotBegun'
    BY <1>0, <1>2 DEF NotBegun
  <2>4. QED
    BY <2>1, <2>2, <2>3
<1>5. AllShown'
  BY <1>2, <1>3 DEF DInv, AllShown, Progressive
<1>6. QED
  BY <1>1, <1>3, <1>4, <1>5 DEF DInv

LEMMA LineKeepsDInv == ASSUME DInv, Line PROVE DInv'
<1>0. /\ UNCHANGED <<info, failed>> /\ ret' = "none" /\ pc' = "lines"
      /\ cinfo.outLine < Rows /\ cinfo.outLine \in 0..Rows /\ Rows \in Nat
      /\ info.status = "STANDARD" \/ Progressive("PROCESS")
  BY CinfoIs, RowsAssumption DEF Line, At, DInv, Within, Staged
<1>1. /\ CinfoTyped'
      /\ \A f \in CinfoFields :
           cinfo'[f] = IF f = "outLine" THEN cinfo.outLine + 1 ELSE cinfo[f]
  <2>1. CinfoFieldOK("outLine", cinfo.outLine + 1)
    BY <1>0 DEF CinfoFieldOK
  <2>2. Set([outLine |-> cinfo.outLine + 1])
    BY DEF Line
  <2>3. QED
    BY <2>1, <2>2, SetTyped DEF DInv
<1>2. /\ cinfo'.reading = cinfo.reading /\ cinfo'.inRow = cinfo.inRow
      /\ cinfo'.begun = cinfo.begun /\ cinfo'.unread = cinfo.unread
      /\ cinfo'.several = cinfo.several /\ cinfo'.eoi = cinfo.eoi
      /\ cinfo'.outScan = cinfo.outScan /\ cinfo'.inScan = cinfo.inScan
  BY <1>1 DEF CinfoFields
<1>3. InfoTyped'
  BY <1>0 DEF DInv, InfoTyped
<1>4. PlacesOK' /\ Within' /\ Staged' /\ NotBegun' /\ AllShown'
  BY <1>0, <1>2 DEF DInv, PlacesOK, Within, Staged, NotBegun, AllShown, Progressive
<1>5. QED
  BY <1>1, <1>3, <1>4 DEF DInv

LEMMA OutputKeepsDInv == ASSUME DInv, Output PROVE DInv'
<1>0. /\ Progressive("START") /\ cinfo.begun
      /\ info.final \in BOOLEAN /\ cinfo.eoi \in BOOLEAN /\ cinfo.inScan \in Nat
      /\ Rows \in Nat
  BY BegunIs, InfoIs, CinfoIs, RowsAssumption DEF Output, DInv, Staged, Progressive
<1>1. CASE cinfo.state # "BUFIMAGE"
  <2>1. UNCHANGED <<info, cinfo>> /\ failed' = "bad state" /\ ret' = "none" /\ pc' = "exit"
    BY <1>1 DEF Output, Fail
  <2>2. PlacesOK' /\ Staged'
    BY <2>1 DEF DInv, PlacesOK, Staged
  <2>3. QED
    BY <2>1, <2>2, WorkMoves
<1>2. CASE cinfo.state = "BUFIMAGE"
  <2>1. PICK smooth \in BOOLEAN :
          Set([outScan |-> cinfo.inScan, outLine |-> 0, smooth |-> smooth,
               state |-> "SCANNING"])
    BY <1>2 DEF Output
  <2>2. /\ Status([final |-> info.final \/ cinfo.eoi, progressive |-> "PROCESS"])
        /\ pc' = "idle" /\ ret' = "none" /\ failed' = failed
    BY <1>2 DEF Output, At
  <2>3. PICK last \in BOOLEAN : /\ last = (info.final \/ cinfo.eoi)
                                /\ Status([final |-> last, progressive |-> "PROCESS"])
    BY <2>2
  <2> DEFINE scan == [outScan |-> cinfo.inScan, outLine |-> 0, smooth |-> smooth,
                      state |-> "SCANNING"]
             fields == [final |-> last, progressive |-> "PROCESS"]
  <2>4. /\ CinfoTyped'
        /\ \A f \in CinfoFields : cinfo'[f] = IF f \in DOMAIN scan THEN scan[f] ELSE cinfo[f]
    <3>1. \A f \in DOMAIN scan : CinfoFieldOK(f, scan[f])
      BY <1>0 DEF CinfoFieldOK
    <3>2. Set(scan)
      BY <2>1
    <3> HIDE DEF scan
    <3>3. QED
      BY <3>1, <3>2, SetTyped DEF DInv
  <2>5. /\ InfoTyped'
        /\ \A f \in InfoFields : info'[f] = IF f \in DOMAIN fields THEN fields[f] ELSE info[f]
    <3>1. \A f \in DOMAIN fields : InfoFieldOK(f, fields[f])
      BY DEF InfoFieldOK
    <3>2. Status(fields)
      BY <2>3
    <3> HIDE DEF fields
    <3>3. QED
      BY <3>1, <3>2, StatusTyped DEF DInv
  <2>6. /\ cinfo'.reading = cinfo.reading /\ cinfo'.inRow = cinfo.inRow
        /\ cinfo'.begun = cinfo.begun /\ cinfo'.eoi = cinfo.eoi
        /\ cinfo'.outScan = cinfo.inScan /\ cinfo'.inScan = cinfo.inScan
    BY <2>4 DEF CinfoFields
  <2>7. info'.status = info.status /\ info'.progressive = "PROCESS" /\ info'.final = last
    BY <2>5 DEF InfoFields
  <2>8. PlacesOK' /\ Within' /\ Staged' /\ NotBegun'
    BY <1>0, <2>2, <2>6, <2>7 DEF DInv, PlacesOK, Within, Staged, NotBegun
  <2>9. AllShown'
    <3>1. info'.final => cinfo.eoi
      BY <1>0, <2>3, <2>7 DEF DInv, AllShown
    <3>2. QED
      BY <1>0, <2>6, <2>7, <3>1 DEF AllShown, Progressive
  <2>10. QED
    BY <2>4, <2>5, <2>8, <2>9 DEF DInv
<1>3. QED
  BY <1>1, <1>2

LEMMA FinishScanKeepsDInv == ASSUME DInv, FinishScan PROVE DInv'
<1>0. Progressive("FINISH") /\ UNCHANGED <<info, failed>> /\ ret' = "none" /\ pc' = "finish"
  BY DEF FinishScan, Is, Is2, Progressive, At
<1>1. Set([state |-> "BUFPOST"]) /\ CinfoFieldOK("state", "BUFPOST")
  BY DEF FinishScan, CinfoFieldOK
<1>2. CinfoTyped' /\ \A f \in CinfoFields \ {"state"} : cinfo'[f] = cinfo[f]
  BY <1>1, StateSet
<1>3. InfoTyped'
  BY <1>0 DEF DInv, InfoTyped
<1>4. PlacesOK' /\ Within' /\ Staged' /\ NotBegun' /\ AllShown'
  BY <1>0, <1>2, StateAlone
     DEF DInv, PlacesOK, Calls, Within, Staged, NotBegun, AllShown, Progressive
<1>5. QED
  BY <1>2, <1>3, <1>4 DEF DInv

LEMMA ScanFinishedKeepsDInv == ASSUME DInv, ScanFinished PROVE DInv'
<1>0. /\ Progressive("FINISH") /\ UNCHANGED failed /\ ret' = "none" /\ pc' = "idle"
      /\ cinfo.begun /\ info.final \in BOOLEAN /\ cinfo.outLine = Rows
  BY BegunIs, InfoIs DEF ScanFinished, At, DInv, Staged, AllShown, Progressive
<1>1. CinfoTyped' /\ \A f \in CinfoFields \ {"state"} : cinfo'[f] = cinfo[f]
  <2>1. CASE UNCHANGED cinfo
    BY <2>1 DEF DInv, CinfoTyped
  <2>2. CASE Set([state |-> "BUFIMAGE"])
    <3>1. CinfoFieldOK("state", "BUFIMAGE")
      BY DEF CinfoFieldOK
    <3>2. QED
      BY <2>2, <3>1, StateSet
  <2>3. QED
    BY <2>1, <2>2 DEF ScanFinished
<1>2. /\ InfoTyped' /\ info'.final = info.final
      /\ \/ info.final /\ info'.status = "FINISHED"
         \/ info'.status = "PROGRESSIVE" /\ info'.progressive = "START"
  <2>1. CASE info.final
    <3>1. Status([status |-> "FINISHED"]) /\ InfoFieldOK("status", "FINISHED")
      BY <2>1 DEF ScanFinished, InfoFieldOK
    <3>2. QED
      BY <2>1, <3>1, StatusSet
  <2>2. CASE ~info.final
    <3>1. Status([progressive |-> "START"]) /\ InfoFieldOK("progressive", "START")
      BY <2>2 DEF ScanFinished, InfoFieldOK
    <3>2. QED
      BY <1>0, <3>1, ProgressiveSet DEF Progressive
  <2>3. QED
    BY <2>1, <2>2
<1>3. /\ cinfo'.reading = cinfo.reading /\ cinfo'.inRow = cinfo.inRow
      /\ cinfo'.outLine = cinfo.outLine /\ cinfo'.begun = cinfo.begun
      /\ cinfo'.several = cinfo.several
      /\ cinfo'.eoi = cinfo.eoi /\ cinfo'.outScan = cinfo.outScan
      /\ cinfo'.inScan = cinfo.inScan
  BY <1>1, StateAlone
<1>4. PlacesOK' /\ Within' /\ Staged' /\ NotBegun'
  BY <1>0, <1>3 DEF DInv, PlacesOK, Within, Staged, NotBegun
<1>5. AllShown'
  BY <1>0, <1>2, <1>3 DEF DInv, AllShown, Progressive
<1>6. QED
  BY <1>1, <1>2, <1>4, <1>5 DEF DInv

LEMMA CloseKeepsDInv == ASSUME DInv, Close PROVE DInv'
<1>0. info.status = "FINISHED" /\ UNCHANGED info /\ ret' = "none"
  BY DEF Close, Is, At, Fail
<1>1. CASE UNCHANGED cinfo /\ pc' = "exit" /\ failed' = "bad state"
  <2>1. PlacesOK' /\ Staged'
    BY <1>0, <1>1 DEF DInv, PlacesOK, Staged
  <2>2. QED
    BY <1>0, <1>1, <2>1, WorkMoves
<1>2. CASE Set([state |-> "STOPPING"]) /\ pc' = "close" /\ UNCHANGED failed
  <2>1. CinfoFieldOK("state", "STOPPING")
    BY DEF CinfoFieldOK
  <2>2. CinfoTyped' /\ \A f \in CinfoFields \ {"state"} : cinfo'[f] = cinfo[f]
    BY <1>2, <2>1, StateSet
  <2>3. InfoTyped'
    BY <1>0 DEF DInv, InfoTyped
  <2>4. PlacesOK' /\ Within' /\ Staged' /\ NotBegun' /\ AllShown'
    BY <1>0, <1>2, <2>2, StateAlone
       DEF DInv, PlacesOK, Calls, Within, Staged, NotBegun, AllShown, Progressive
  <2>5. QED
    BY <2>2, <2>3, <2>4 DEF DInv
<1>3. QED
  BY <1>1, <1>2 DEF Close, At, Fail

LEMMA StepKeepsDInv ==
  ASSUME IInv, LengthFresh, DInv, [Next]_vars
  PROVE  DInv'
<1>1. CASE Library
  BY <1>1, LibraryKeepsDInv
<1>2. CASE Work
  BY <1>2, MovesKeepDInv, CreateKeepsDInv, StartKeepsDInv, DecodeLinesKeepsDInv,
     LineKeepsDInv, StartScanKeepsDInv, OutputKeepsDInv, SkipEndKeepsDInv,
     FinishScanKeepsDInv, ScanFinishedKeepsDInv, CloseKeepsDInv, ReleaseKeepsDInv DEF Work
<1>3. CASE UNCHANGED vars
  <2>1. UNCHANGED <<info, cinfo, pc, ret, failed>>
    BY <1>3 DEF vars
  <2>2. CinfoTyped' /\ InfoTyped' /\ PlacesOK'
    BY <2>1 DEF DInv, CinfoTyped, InfoTyped, PlacesOK
  <2>3. Within' /\ Staged' /\ NotBegun' /\ AllShown'
    BY <2>1 DEF DInv, Within, Staged, NotBegun, AllShown, Progressive
  <2>4. QED
    BY <2>2, <2>3 DEF DInv
<1>4. QED
  BY <1>1, <1>2, <1>3 DEF Next

LEMMA DInvHolds == Spec => []DInv
<1>1. IInv /\ LengthFresh /\ DInv /\ [Next]_vars => DInv'
  BY StepKeepsDInv
<1>2. QED
  BY <1>1, InitDInv, InvHolds, PTL DEF Spec

(* Whatever the file and however it is cut, the decoder keeps its types; above
   all no row is decoded and no line is written behind the last of the sprite
   (JPEGdecode.c, JV_DecodeLines). *)
THEOREM DecoderTypeCorrect == Spec => []TypeOK
<1>1. IInv /\ DInv => TypeOK
  BY TypesSame DEF IInv, DInv
<1>2. QED
  BY <1>1, InvHolds, DInvHolds, PTL

(* A picture is never closed before all its lines are out, to the end of the
   image, and of several scans before the final one has given them: the part of
   ShownWhole that does not ask what the file is (JPEGdecode.c:659). *)
THEOREM DecoderShowsToEnd == Spec => [][Release => ShownToEnd]_vars
<1>1. DInv /\ [Next]_vars => [Release => ShownToEnd]_vars
  <2> SUFFICES ASSUME DInv, Release PROVE ShownToEnd
    OBVIOUS
  <2>1. info.status = "FINISHED"
    BY DEF Release, DInv, Staged
  <2>2. cinfo.eoi
    BY DEF Release, Consuming, Calls
  <2>3. QED
    BY <2>1, <2>2 DEF DInv, AllShown, ShownToEnd
<1>2. QED
  BY <1>1, DInvHolds, PTL DEF Spec

-----------------------------------------------------------------------------
(* The decoder and a whole file. *)

(* A scan of the file begins at byte i. *)
ScanAt(i) == MarkerIn(file, i) /\ file[i + 1] = "B"

(* What is in the buffer goes up to where the file was read. *)
Fresh == skipBytes = 0 \/ completed

(* The first scan is found, and the sprite not yet made for it. *)
Found == cinfo.state = "INHEADER" /\ cinfo.inScan > 0

(* The rows are next, from row inRow of a scan on; ... *)
AtRow == /\ cinfo.unread = "none" /\ cinfo.length = 0 /\ cinfo.inRow < Rows
         /\ \E i \in 2..Len(file) : ScanAt(i) /\ cursor = i + 2 + 2 * cinfo.inRow

(* ... or a marker, ... *)
AtMarker == /\ cinfo.unread = "none" /\ cinfo.length = 0 /\ file[cursor] # "M"
            /\ \E j \in cursor + 1 .. Len(file) : file[j] = "M"

(* ... or what is behind its letter, ... *)
AtLetter == /\ cinfo.unread \in {"A", "C", "B", "E"} /\ cinfo.length = 0
            /\ MarkerIn(file, cursor - 1) /\ file[cursor] = cinfo.unread

(* ... or behind its length. *)
AtSegment == /\ cinfo.unread \in {"A", "C"}
             /\ cinfo.length = (IF cinfo.unread = "A" THEN Long ELSE Short)
             /\ MarkerIn(file, cursor - 2) /\ file[cursor - 1] = cinfo.unread

(* Where the library is in the file: before its first byte; within a scan, or
   behind the first marker of one until the sprite is made; between segments; or
   behind the end of the image. *)
Placed ==
  IF ~cinfo.begun
  THEN /\ cursor = 0 /\ cinfo.unread = "none" /\ cinfo.length = 0
       /\ cinfo.reading = "markers" /\ ~cinfo.eoi /\ cinfo.inScan = 0
  ELSE /\ cursor \in 1..Len(file) /\ (cinfo.several <=> file[1] = "P")
       /\ cinfo.state # "INHEADER" => cinfo.inScan > 0
       /\ IF cinfo.reading = "rows" THEN AtRow /\ ~cinfo.eoi /\ cinfo.state # "INHEADER"
          ELSE IF Found THEN AtRow /\ cinfo.inRow = 0 /\ ~cinfo.eoi
          ELSE /\ cinfo.state # "INHEADER" => cinfo.inRow = Rows
               /\ IF cinfo.eoi THEN cinfo.unread = "none" /\ cinfo.length = 0
                  ELSE AtMarker \/ AtLetter \/ AtSegment

(* The scans whose marker is in the first n bytes. *)
ScansTo(f, n) == Cardinality({i \in 2..n : f[i-1] = "M" /\ f[i] = "B"})

(* No scan is passed by without being counted. *)
Counted ==
  /\ cinfo.eoi => cinfo.inScan = ScansOf(file)
  /\ ~cinfo.eoi => ScansTo(file, cursor) = cinfo.inScan + (IF cinfo.unread = "B" THEN 1 ELSE 0)

(* The state of the library's object at each stage. *)
Stated ==
  /\ info.status = "CREATE" => ~cinfo.begun
  /\ info.status \in {"CREATE", "HEADER"} => cinfo.state = "INHEADER"
  /\ info.status = "PROGRESSIVE" => cinfo.several
  /\ info.status = "STANDARD" => cinfo.state = "SCANNING"
  /\ Progressive("START") \/ Progressive("SKIP") => cinfo.state = "BUFIMAGE"
  /\ Progressive("PROCESS") => cinfo.state = "SCANNING"
  /\ Progressive("FINISH") => cinfo.state = IF pc = "finish" THEN "BUFPOST" ELSE "SCANNING"
  /\ info.status = "FINISHED" => cinfo.state \in {"SCANNING", "BUFIMAGE", "STOPPING"}

(* The library is at the first row of a scan behind the first of them. *)
ScanBegins == cinfo.reading = "rows" /\ cinfo.inRow = 0

(* What an answer of the library, and a place that JV_DecodeWork only comes to
   with it, say of where the library is. *)
Answers ==
  /\ pc = "start" => Found
  /\ Found => (pc = "header" /\ ret = "SOS") \/ pc \in {"start", "exit"}
  /\ ret = "EOI" => cinfo.eoi
  /\ ret = "SOS" => Found \/ ScanBegins
  /\ pc = "finish" => ret # "SUSPENDED"
  /\ pc \in {"eat1", "eat", "eat3"} => completed
  /\ pc = "output" => cinfo.eoi \/ ScanBegins
  /\ Progressive("START") /\ ~completed => cinfo.eoi \/ ScanBegins
  /\ pc = "exit" => failed = "no memory"

(* The rows of a scan are read and nothing behind them. *)
BehindRows == /\ cinfo.reading = "markers" /\ AtMarker /\ Fresh
              /\ \E i \in 2..Len(file) : ScanAt(i) /\ cursor = i + 2 + 2 * Rows

(* While a scan is shown the library has read no further than the beginning of
   the next, and no less than the lines that are out. *)
Given ==
  Progressive("PROCESS") \/ Progressive("FINISH") =>
    \/ cinfo.eoi
    \/ cinfo.inScan = cinfo.outScan + 1 /\ ScanBegins
    \/ /\ cinfo.inScan = cinfo.outScan /\ cinfo.inRow >= cinfo.outLine
       /\ \/ cinfo.reading = "rows"
          \/ BehindRows
          \/ cinfo.smooth /\ cinfo.dc /\ cinfo.outLine < Rows
          \/ Progressive("FINISH")

(* In the buffer is all up to where the next scan, or the end, begins. *)
Stocked ==
  Progressive("FINISH") /\ ~cinfo.eoi /\ cinfo.inScan = cinfo.outScan =>
    \E j \in 2..Len(file) :
      /\ MarkerIn(file, j) /\ file[j + 1] \in {"B", "E"} /\ cursor <= j + 1
      /\ cinfo.unread \notin {"B", "E"} => cursor < j
      /\ cursor + bytesInBuffer >= Least(j + 2, Len(file))

(* All of this together; from it no step leads to a failure but for want of
   memory. *)
GInv == Whole(file) => Placed /\ Counted /\ Stated /\ Answers /\ Given /\ Stocked

-----------------------------------------------------------------------------
(* Whole files. *)

(* The marker at i of a whole file, and what follows it. *)
LEMMA MarkerOf ==
  ASSUME NEW f \in Seq(Byte), Whole(f), NEW i \in Int, i >= 2, i <= Len(f), f[i] = "M"
  PROVE  i \in 2 .. Len(f) - 1 /\ MarkerIn(f, i) /\ WellFormed(f, i)
<1>1. i \in 2..Len(f) /\ Len(f) \in Nat
  BY LenProperties
<1>2. MarkerIn(f, i) /\ WellFormed(f, i)
  BY <1>1 DEF Whole
<1>3. QED
  BY <1>2 DEF MarkerIn

LEMMA LetterOf ==
  ASSUME NEW f, NEW i, WellFormed(f, i)
  PROVE  f[i + 1] \in {"A", "C", "B", "E"} /\ f[i + 1] # "M"
BY DEF WellFormed

(* Behind the letter of a segment are its length and as many bytes, ... *)
LEMMA SegmentOf ==
  ASSUME NEW f, NEW i, WellFormed(f, i), f[i + 1] \in {"A", "C"}
  PROVE  /\ f[i + 2] = "n"
         /\ Follows(f, i, 3 + (IF f[i + 1] = "A" THEN Long ELSE Short))
BY DEF WellFormed

(* ... and behind that of a scan its rows. *)
LEMMA ScanOf ==
  ASSUME NEW f, NEW i, WellFormed(f, i), f[i + 1] = "B"
  PROVE  f[i + 2] \in {"d", "p"} /\ Follows(f, i, 3 + 2 * Rows)
BY DEF WellFormed

(* The markers of scans in the first n bytes are counted one by one. *)
ScanEnds(f, n) == {i \in 2..n : f[i-1] = "M" /\ f[i] = "B"}

LEMMA ScanEndsFinite ==
  ASSUME NEW f, NEW n \in Nat
  PROVE  /\ IsFiniteSet(ScanEnds(f, n)) /\ ScansTo(f, n) = Cardinality(ScanEnds(f, n))
         /\ ScansTo(f, n) \in Nat
<1>1. IsFiniteSet(2..n)
  BY FS_Interval
<1>2. IsFiniteSet(ScanEnds(f, n))
  BY <1>1, FS_Subset DEF ScanEnds
<1>3. Cardinality(ScanEnds(f, n)) \in Nat
  BY <1>2, FS_CardinalityType
<1>4. QED
  BY <1>2, <1>3 DEF ScanEnds, ScansTo

LEMMA NoScanTo ==
  ASSUME NEW f, NEW m \in Nat, NEW n \in Nat, m <= n,
         \A i \in m + 1 .. n : ~(f[i-1] = "M" /\ f[i] = "B")
  PROVE  ScansTo(f, n) = ScansTo(f, m)
<1>1. ScanEnds(f, n) = ScanEnds(f, m)
  <2>1. \A i \in 2..n : i \in 2..m \/ i \in m + 1 .. n
    OBVIOUS
  <2>2. \A i \in 2..m : i \in 2..n
    OBVIOUS
  <2>3. QED
    BY <2>1, <2>2 DEF ScanEnds
<1>2. QED
  BY <1>1, ScanEndsFinite

LEMMA OneScanTo ==
  ASSUME NEW f, NEW n \in Nat, n > 0, f[n] = "M", f[n + 1] = "B"
  PROVE  ScansTo(f, n + 1) = ScansTo(f, n) + 1
<1>1. ScanEnds(f, n + 1) = ScanEnds(f, n) \cup {n + 1}
  <2>1. \A i \in 2 .. n + 1 : i \in 2..n \/ i = n + 1
    OBVIOUS
  <2>2. \A i \in 2..n : i \in 2 .. n + 1
    OBVIOUS
  <2>3. n + 1 \in 2 .. n + 1 /\ (n + 1) - 1 = n
    OBVIOUS
  <2>4. n + 1 \in ScanEnds(f, n + 1)
    BY <2>3 DEF ScanEnds
  <2>5. QED
    BY <2>1, <2>2, <2>4 DEF ScanEnds
<1>2. n + 1 \notin ScanEnds(f, n)
  BY DEF ScanEnds
<1>3. n + 1 \in Nat
  OBVIOUS
<1>4. Cardinality(ScanEnds(f, n) \cup {n + 1}) = Cardinality(ScanEnds(f, n)) + 1
  BY <1>2, ScanEndsFinite, FS_AddElement
<1>5. QED
  BY <1>1, <1>3, <1>4, ScanEndsFinite

LEMMA MoreScansTo ==
  ASSUME NEW f, NEW m \in Nat, NEW n \in Nat, m <= n
  PROVE  ScansTo(f, m) <= ScansTo(f, n)
<1>1. ScanEnds(f, m) \subseteq ScanEnds(f, n)
  BY DEF ScanEnds
<1>2. Cardinality(ScanEnds(f, m)) <= Cardinality(ScanEnds(f, n))
  BY <1>1, ScanEndsFinite, FS_Subset
<1>3. QED
  BY <1>2, ScanEndsFinite

LEMMA ScansToAll == ASSUME NEW f PROVE ScansOf(f) = ScansTo(f, Len(f))
BY DEF ScansOf, ScansTo

(* The end of the image is behind all scans. *)
LEMMA EndBehindScans ==
  ASSUME NEW f \in Seq(Byte), Whole(f), NEW c \in Nat, MarkerIn(f, c - 1), f[c] = "E"
  PROVE  ScansTo(f, c) = ScansOf(f) /\ ScansOf(f) > 0
<1>1. Len(f) \in Nat /\ c - 1 \in 2 .. Len(f) - 1 /\ f[c - 1] = "M" /\ (c - 1) + 1 = c
  BY LenProperties DEF MarkerIn
<1>2. WellFormed(f, c - 1)
  BY <1>1, MarkerOf
<1>3. \A j \in c .. Len(f) : f[j] # "M"
  BY <1>1, <1>2 DEF WellFormed
<1>4. \A i \in c + 1 .. Len(f) : i - 1 \in c .. Len(f)
  BY <1>1
<1>5. ScansTo(f, Len(f)) = ScansTo(f, c)
  BY <1>1, <1>3, <1>4, NoScanTo
<1>6. QED
  BY <1>5, ScansToAll DEF Whole
-----------------------------------------------------------------------------
(* The place of the library in a whole file. *)

WInv == /\ IInv /\ LengthFresh /\ DInv /\ Whole(file)
        /\ Placed /\ Counted /\ Stated /\ Answers /\ Given /\ Stocked

LEMMA WholeTypes ==
  ASSUME IInv, DInv
  PROVE  /\ file \in Seq(Byte) /\ Len(file) \in Nat /\ pos \in Nat
         /\ cursor \in Nat /\ bytesInBuffer \in Nat /\ skipBytes \in Nat
         /\ completed \in BOOLEAN
         /\ Rows \in Nat /\ Rows > 0 /\ MaxSize \in Nat /\ MaxSize >= 4
         /\ Long \in Nat /\ Long > 0 /\ Short \in Nat /\ Short > 0
         /\ cinfo.inScan \in Nat /\ cinfo.outScan \in Nat
         /\ cinfo.inRow \in Nat /\ cinfo.inRow <= Rows
         /\ cinfo.outLine \in Nat /\ cinfo.outLine <= Rows
<1>1. /\ Rows \in Nat /\ Rows > 0 /\ Long \in Nat /\ Long > 0 /\ Short \in Nat /\ Short > 0
      /\ MaxSize \in Nat /\ MaxSize >= 4
  <2>1. Long \in Skips /\ Short \in Skips
    BY SegmentsAssumption, Zenon
  <2>2. Long \in Nat /\ Short \in Nat
    BY <2>1, SkipsAssumption, Zenon
  <2>3. Long > 0 /\ Short > 0
    BY SegmentsAssumption
  <2>4. QED
    BY <2>2, <2>3, RowsAssumption, MaxSizeAssumption
<1>2. cursor \in Nat /\ skipBytes \in Nat /\ completed \in BOOLEAN
  BY DEF IInv, SourceTypeOK
<1>3. /\ cinfo.inScan \in Nat /\ cinfo.outScan \in Nat
      /\ cinfo.inRow \in 0..Rows /\ cinfo.outLine \in 0..Rows
  BY CinfoIs DEF DInv
<1>4. QED
  BY <1>1, <1>2, <1>3, ByteOfFile DEF IInv

(* Of a whole file the end marker behind it is not needed: as long as the place
   is within the file, so is what is ahead. *)
LEMMA InFile ==
  ASSUME IInv, NEW i \in 1..bytesInBuffer, cursor + i <= Len(file)
  PROVE  Ahead(i) = file[cursor + i]
<1>1. /\ bytesInBuffer \in Nat /\ cursor \in Nat /\ skipBytes \in Nat /\ pos \in Nat
      /\ completed \in BOOLEAN
  BY ByteOfFile DEF IInv, SourceTypeOK
<1>2. cursor + i <= pos
  <2>1. CASE completed
    BY <2>1 DEF IInv, Balance
  <2>2. CASE ~completed
    BY <1>1, <2>2 DEF IInv, Balance
  <2>3. QED
    BY <1>1, <2>1, <2>2
<1>3. QED
  BY <1>2 DEF IInv, FromFile

(* The fields that are Boolean. *)
LEMMA Flags ==
  ASSUME DInv
  PROVE  /\ cinfo.begun \in BOOLEAN /\ cinfo.several \in BOOLEAN /\ cinfo.eoi \in BOOLEAN
         /\ cinfo.smooth \in BOOLEAN /\ cinfo.dc \in BOOLEAN
         /\ cinfo.reading \in {"markers", "rows"}
BY DEF DInv, CinfoTyped, CinfoFields, CinfoFieldOK

(* Where the library looks for a marker. *)
LEMMA AtMarkers ==
  ASSUME WInv, InMarkers, cinfo.begun
  PROVE  /\ pc \in Calls /\ ret = "none" /\ cinfo.reading = "markers" /\ ~cinfo.eoi
         /\ cursor \in 1..Len(file) /\ ~Found /\ (AtMarker \/ AtLetter)
         /\ cinfo.state # "INHEADER" => cinfo.inRow = Rows /\ cinfo.inScan > 0
<1>1. pc \in Calls /\ ret = "none" /\ cinfo.reading = "markers" /\ ~cinfo.eoi /\ cinfo.length = 0
  BY DEF InMarkers, Consuming
<1>2. ~Found
  BY <1>1 DEF WInv, Answers, Calls
<1>3. ~AtSegment
  BY <1>1, WholeTypes DEF AtSegment, WInv
<1>4. /\ cursor \in 1..Len(file)
      /\ cinfo.state # "INHEADER" => cinfo.inRow = Rows /\ cinfo.inScan > 0
      /\ AtMarker \/ AtLetter \/ AtSegment
  BY <1>1, <1>2 DEF WInv, Placed
<1>5. QED
  BY <1>1, <1>2, <1>3, <1>4

(* Where it reads a row. *)
LEMMA InScanAtRow ==
  ASSUME WInv, InRows
  PROVE  /\ pc \in Calls /\ ret = "none" /\ cinfo.begun /\ ~cinfo.eoi
         /\ cinfo.state # "INHEADER" /\ cinfo.inScan > 0
         /\ cursor \in 1..Len(file) /\ AtRow
<1>1. pc \in Calls /\ ret = "none" /\ cinfo.reading = "rows"
  BY DEF InRows, Consuming
<1>2. cinfo.begun
  BY <1>1, Flags DEF WInv, Placed
<1>3. QED
  BY <1>1, <1>2 DEF WInv, Placed

(* The bytes of a row of a whole file. *)
LEMMA RowBytes ==
  ASSUME WInv, AtRow, NEW i \in 2..Len(file), ScanAt(i), cursor = i + 2 + 2 * cinfo.inRow
  PROVE  /\ file[cursor + 1] # "M" /\ file[cursor + 2] # "M"
         /\ cursor + 2 < Len(file)
         /\ \A j \in i + 1 .. i + 2 + 2 * Rows : file[j] # "M"
         /\ \E j \in i + 3 + 2 * Rows .. Len(file) : file[j] = "M"
         /\ i + 2 + 2 * (cinfo.inRow + 1) = cursor + 2
         /\ 2 * (cinfo.inRow + 1) <= 2 * Rows
<1>1. /\ file \in Seq(Byte) /\ Len(file) \in Nat /\ Rows \in Nat /\ cinfo.inRow \in Nat
      /\ cinfo.inRow < Rows /\ cursor \in Nat
  BY WholeTypes DEF WInv, AtRow
<1>2. /\ Whole(file) /\ i \in Int /\ i >= 2 /\ i <= Len(file)
      /\ file[i] = "M" /\ file[i + 1] = "B"
  BY <1>1 DEF WInv, ScanAt, MarkerIn
<1>3. Follows(file, i, 3 + 2 * Rows)
  BY <1>1, <1>2, MarkerOf, ScanOf
<1>4. /\ \A j \in i + 1 .. i + 2 + 2 * Rows : file[j] # "M"
      /\ \E j \in i + 3 + 2 * Rows .. Len(file) : file[j] = "M"
  <2>1. i + (3 + 2 * Rows) - 1 = i + 2 + 2 * Rows /\ i + (3 + 2 * Rows) = i + 3 + 2 * Rows
    BY <1>1
  <2>2. QED
    BY <1>3, <2>1 DEF Follows
<1>5. 2 * (cinfo.inRow + 1) <= 2 * Rows /\ i + 2 + 2 * (cinfo.inRow + 1) = cursor + 2
  BY <1>1
<1>6. i + 3 + 2 * Rows <= Len(file)
  BY <1>1, <1>4
<1>7. cursor + 1 \in i + 1 .. i + 2 + 2 * Rows /\ cursor + 2 \in i + 1 .. i + 2 + 2 * Rows
  <2>1. i \in Int /\ cursor \in Int /\ cursor + 2 <= i + 2 + 2 * Rows /\ cursor >= i + 2
    <3> DEFINE r == 2 * cinfo.inRow
    <3>1. r \in Nat /\ r + 2 <= 2 * Rows /\ 2 * (cinfo.inRow + 1) = r + 2
      BY <1>1
    <3>2. cursor = i + 2 + r
      OBVIOUS
    <3> HIDE DEF r
    <3>3. QED
      BY <1>1, <1>2, <3>1, <3>2
  <2>2. i + 2 + 2 * Rows \in Int
    BY <1>1, <1>2
  <2>3. QED
    BY <2>1, <2>2
<1>8. file[cursor + 1] # "M" /\ file[cursor + 2] # "M"
  BY <1>4, <1>7
<1>9. cursor + 2 < Len(file)
  BY <1>1, <1>2, <1>5, <1>6
<1>10. QED
  BY <1>4, <1>5, <1>8, <1>9

(* The first byte of a whole file is not of a marker, but another one is. *)
LEMMA HasMarker ==
  ASSUME NEW f \in Seq(Byte), Whole(f)
  PROVE  f[1] # "M" /\ \E j \in 2..Len(f) : f[j] = "M"
<1>1. Len(f) \in Nat /\ f[1] \in {"H", "P"} /\ ScansOf(f) > 0
  BY LenProperties DEF Whole
<1>2. Cardinality(ScanEnds(f, Len(f))) > 0
  BY <1>1, ScanEndsFinite, ScansToAll
<1>3. ScanEnds(f, Len(f)) # {}
  BY <1>2, FS_EmptySet
<1>4. PICK i \in 2..Len(f) : f[i-1] = "M"
  BY <1>3 DEF ScanEnds
<1>5. i - 1 # 1
  BY <1>1, <1>4
<1>6. i - 1 \in 2..Len(f)
  BY <1>1, <1>5
<1>7. QED
  BY <1>1, <1>4, <1>6

LEMMA NoScanAtFirst == ASSUME NEW f PROVE ScansTo(f, 1) = 0
<1>1. ScanEnds(f, 1) = {}
  BY DEF ScanEnds
<1>2. QED
  BY <1>1, ScanEndsFinite, FS_EmptySet

LEMMA SetFields ==
  ASSUME DInv, NEW fields, Set(fields)
  PROVE  \A f \in CinfoFields : cinfo'[f] = IF f \in DOMAIN fields THEN fields[f] ELSE cinfo[f]
BY DEF DInv, CinfoTyped, Set, Updated

(* A call of the library leaves the stage of the decoding. *)
LEMMA LibraryStage ==
  ASSUME WInv, pc \in Calls, ret = "none", ~Found,
         UNCHANGED <<info, pc, failed, file, completed>>,
         cinfo'.state = cinfo.state,
         cinfo'.several = cinfo.several \/ ~cinfo.begun,
         cinfo.eoi => cinfo'.eoi,
         ret' = "EOI" => cinfo'.eoi, ret' = "SOS" => Found' \/ ScanBegins',
         Found' => ret' = "SOS", pc = "finish" => ret' # "SUSPENDED"
  PROVE  Whole(file)' /\ Stated' /\ Answers'
<1>1. Staged /\ Stated /\ Answers /\ NotBegun
  BY DEF WInv, DInv
<1>2. info.status # "CREATE" /\ (cinfo.state = "INHEADER" => pc = "header")
  BY <1>1 DEF Staged, Stated, Calls, Progressive
<1>3. cinfo.begun \/ info.status \in {"CREATE", "HEADER"}
  BY <1>1 DEF NotBegun
<1>4. info.status = "PROGRESSIVE" => cinfo'.several
  BY <1>1, <1>3 DEF Stated
<1>5. Stated'
  BY <1>1, <1>2, <1>4 DEF Stated, Progressive
<1>6. pc \notin {"start", "exit", "output"}
  BY DEF Calls
<1>7. Progressive("START") => completed
  BY <1>1 DEF Staged, Answers, Calls, Progressive
<1>8. Found' => cinfo.state = "INHEADER"
  BY DEF Found
<1>9. Answers'
  BY <1>1, <1>2, <1>6, <1>7, <1>8 DEF Answers, Progressive
<1>10. QED
  BY <1>5, <1>9 DEF WInv

(* While a picture of several scans is shown, the library reads only what the
   scan that is shown lacks. *)
LEMMA ConsumingFor ==
  ASSUME WInv, Consuming, ~cinfo.eoi, Progressive("PROCESS") \/ Progressive("FINISH")
  PROVE  /\ cinfo.inScan = cinfo.outScan /\ cinfo.inRow >= cinfo.outLine /\ cinfo.inScan > 0
         /\ Progressive("FINISH") => cinfo.reading = "markers" /\ pc = "finish"
         /\ Progressive("PROCESS") => pc = "line" /\ cinfo.outLine < Rows
         /\ Progressive("PROCESS") /\ cinfo.reading = "markers" => cinfo.smooth /\ cinfo.dc
<1>0. /\ Staged /\ Stated /\ Given /\ Placed /\ AllShown /\ Within
      /\ cinfo.begun \in BOOLEAN /\ cinfo.smooth \in BOOLEAN /\ cinfo.dc \in BOOLEAN
      /\ cinfo.reading \in {"markers", "rows"}
  BY Flags DEF WInv, DInv
<1>1. /\ Rows \in Nat /\ cinfo.inScan \in Nat /\ cinfo.outScan \in Nat
      /\ cinfo.inRow \in Nat /\ cinfo.outLine \in Nat
  BY WholeTypes DEF WInv
<1>2. pc = (IF Progressive("FINISH") THEN "finish" ELSE "line") /\ cinfo.several
  BY <1>0 DEF Consuming, Staged, Stated, Calls, Progressive
<1>3. cinfo.inScan <= cinfo.outScan
  BY <1>1, <1>2 DEF Consuming, Behind
<1>4. /\ cinfo.inScan = cinfo.outScan /\ cinfo.inRow >= cinfo.outLine
      /\ cinfo.state # "INHEADER" /\ cinfo.begun
  BY <1>0, <1>1, <1>3 DEF Given, Stated, NotBegun, WInv, DInv, Progressive
<1>5. cinfo.inScan > 0
  BY <1>0, <1>4 DEF Placed
<1>6. Progressive("FINISH") => cinfo.reading = "markers"
  BY <1>0, <1>1, <1>4 DEF AllShown, Within
<1>7. Progressive("PROCESS") => pc = "line" /\ cinfo.outLine < Rows
  BY <1>0, <1>2 DEF Within, Progressive
<1>8. ASSUME Progressive("PROCESS"), cinfo.reading = "markers" PROVE cinfo.smooth /\ cinfo.dc
  <2>1. cinfo.inRow = Rows
    BY <1>0, <1>4, <1>8 DEF Placed, Found
  <2>2. Behind
    BY <1>2, <1>7, <1>8 DEF Consuming
  <2>3. QED
    BY <1>0, <1>1, <1>4, <1>7, <1>8, <2>1, <2>2 DEF Behind
<1>9. QED
  BY <1>2, <1>4, <1>5, <1>6, <1>7, <1>8

LEMMA MarkersGiven ==
  ASSUME WInv, Consuming, ~cinfo.eoi, cinfo.reading = "markers", UNCHANGED info,
         cinfo'.inScan = cinfo.inScan, cinfo'.outScan = cinfo.outScan,
         cinfo'.inRow = cinfo.inRow, cinfo'.outLine = cinfo.outLine,
         cinfo'.smooth = cinfo.smooth, cinfo'.dc = cinfo.dc
  PROVE  Given'
<1>1. CASE Progressive("PROCESS") \/ Progressive("FINISH")
  BY <1>1, ConsumingFor DEF Given, Progressive
<1>2. CASE ~(Progressive("PROCESS") \/ Progressive("FINISH"))
  BY <1>2 DEF Given, Progressive
<1>3. QED
  BY <1>1, <1>2

LEMMA FirstMarkerPlaced == ASSUME WInv, FirstMarker PROVE GInv'
<1>0. /\ pc \in Calls /\ ret = "none" /\ ~cinfo.begun /\ cinfo.reading = "markers"
      /\ bytesInBuffer > 0 /\ Take(1) /\ ~cinfo.eoi
  BY DEF FirstMarker, InMarkers, Consuming
<1>1. /\ cursor = 0 /\ cinfo.unread = "none" /\ cinfo.length = 0 /\ cinfo.inScan = 0
      /\ file \in Seq(Byte) /\ Len(file) \in Nat /\ bytesInBuffer \in Nat /\ Whole(file)
  BY <1>0, WholeTypes DEF WInv, Placed
<1>2. /\ Len(file) > 0 /\ file[1] \in {"H", "P"} /\ Ahead(1) = file[1]
  BY <1>0, <1>1, InFile DEF WInv, Whole
<1>3. /\ cursor' = 1 /\ file' = file /\ completed' = completed /\ ret' = "none"
      /\ UNCHANGED <<info, pc, failed>>
      /\ Set([begun |-> TRUE, several |-> Ahead(1) = "P"])
  <2>1. Set([begun |-> TRUE, several |-> Ahead(1) = "P"]) /\ Returned("none")
    BY <1>2 DEF FirstMarker
  <2>2. cursor' = 1
    BY <1>0, <1>1 DEF Take
  <2>3. QED
    BY <1>0, <2>1, <2>2 DEF Take, Returned
<1>4. PICK yes \in BOOLEAN, p \in BOOLEAN :
        yes /\ (p <=> file[1] = "P") /\ Set([begun |-> yes, several |-> p])
  BY <1>2, <1>3
<1>5. \A f \in CinfoFields :
        cinfo'[f] = IF f \in {"begun", "several"} THEN [begun |-> yes, several |-> p][f]
                    ELSE cinfo[f]
  BY <1>4, SetFields DEF WInv
<1>6. /\ cinfo'.begun = yes /\ cinfo'.several = p
      /\ cinfo'.state = cinfo.state /\ cinfo'.unread = cinfo.unread
      /\ cinfo'.length = cinfo.length /\ cinfo'.reading = cinfo.reading
      /\ cinfo'.eoi = cinfo.eoi /\ cinfo'.inScan = cinfo.inScan
  BY <1>5 DEF CinfoFields
<1>7. info.status = "HEADER" /\ cinfo.state = "INHEADER"
  <2>1. info.status \in {"CREATE", "HEADER"} /\ Staged /\ Stated
    BY <1>0 DEF WInv, DInv, NotBegun
  <2>2. QED
    BY <1>0, <2>1 DEF Staged, Stated, Calls, Progressive
<1>8. ~Found /\ ~Found'
  BY <1>1, <1>6 DEF Found
<1>9. Stated' /\ Answers'
  BY <1>0, <1>3, <1>6, <1>8, LibraryStage
<1>10. Placed'
  <2>1. AtMarker'
    BY <1>1, <1>3, <1>6, HasMarker DEF AtMarker
  <2>2. QED
    BY <1>0, <1>1, <1>2, <1>3, <1>4, <1>6, <1>7, <1>8, <2>1 DEF Placed
<1>11. Counted'
  BY <1>0, <1>1, <1>3, <1>6, NoScanAtFirst DEF Counted
<1>12. Given' /\ Stocked'
  BY <1>3, <1>7 DEF Given, Stocked, Progressive
<1>13. QED
  BY <1>9, <1>10, <1>11, <1>12 DEF GInv

(* In the buffer is enough to find the next scan, or the end. *)
LEMMA StockedNow ==
  ASSUME WInv, Consuming, ~cinfo.eoi, Progressive("FINISH")
  PROVE  \E j \in 2..Len(file) :
           /\ MarkerIn(file, j) /\ file[j + 1] \in {"B", "E"} /\ cursor <= j + 1
           /\ cinfo.unread \notin {"B", "E"} => cursor < j
           /\ cursor + bytesInBuffer >= Least(j + 2, Len(file))
BY ConsumingFor DEF WInv, Stocked

(* As the library takes and skips what it was given, the end of that stays. *)
LEMMA StockedThen ==
  ASSUME WInv, Consuming, ~cinfo.eoi, UNCHANGED <<info, file>>,
         cursor' + bytesInBuffer' = cursor + bytesInBuffer,
         \A j \in 2..Len(file) :
           /\ MarkerIn(file, j) /\ file[j + 1] \in {"B", "E"} /\ cursor <= j + 1
           /\ cinfo.unread \notin {"B", "E"} => cursor < j
           /\ cursor + bytesInBuffer >= Least(j + 2, Len(file))
           => cursor' <= j + 1 /\ (cinfo'.unread \notin {"B", "E"} => cursor' < j)
  PROVE  Stocked'
<1>1. CASE Progressive("FINISH")
  <2>1. PICK j \in 2..Len(file) :
           /\ MarkerIn(file, j) /\ file[j + 1] \in {"B", "E"} /\ cursor <= j + 1
           /\ cinfo.unread \notin {"B", "E"} => cursor < j
           /\ cursor + bytesInBuffer >= Least(j + 2, Len(file))
    BY <1>1, StockedNow
  <2>2. cursor' <= j + 1 /\ (cinfo'.unread \notin {"B", "E"} => cursor' < j)
    BY <2>1
  <2>3. QED
    BY <2>1, <2>2 DEF Stocked
<1>2. CASE ~Progressive("FINISH")
  BY <1>2 DEF Stocked, Progressive
<1>3. QED
  BY <1>1, <1>2

LEMMA DiscardPlaced == ASSUME WInv, Discard PROVE GInv'
<1>0. InMarkers /\ Consuming /\ cinfo.begun /\ cinfo.unread = "none" /\ bytesInBuffer > 0
  BY DEF Discard, InMarkers
<1>1. /\ pc \in Calls /\ ret = "none" /\ cinfo.reading = "markers" /\ ~cinfo.eoi
      /\ cursor \in 1..Len(file) /\ ~Found /\ (AtMarker \/ AtLetter)
      /\ cinfo.state # "INHEADER" => cinfo.inRow = Rows /\ cinfo.inScan > 0
  BY <1>0, AtMarkers
<1>2. AtMarker
  BY <1>0, <1>1 DEF AtLetter
<1>3. /\ file \in Seq(Byte) /\ Len(file) \in Nat /\ cursor \in Nat /\ bytesInBuffer \in Nat
      /\ cursor + 1 <= Len(file)
  BY <1>2, WholeTypes DEF WInv, AtMarker
<1>4. Ahead(1) = file[cursor + 1] /\ Ahead(1) # "M"
  BY <1>0, <1>3, InFile DEF WInv, Discard
<1>5. /\ cursor' = cursor + 1 /\ bytesInBuffer' = bytesInBuffer - 1 /\ ret' = "none"
      /\ UNCHANGED <<file, completed, cinfo, info, pc, failed>>
  BY DEF Discard, Take, Returned
<1>6. ~Found'
  BY <1>1, <1>5 DEF Found
<1>7. Stated' /\ Answers'
  BY <1>1, <1>5, <1>6, LibraryStage
<1>8. Placed'
  <2>1. AtMarker'
    <3>1. PICK j \in cursor + 1 .. Len(file) : file[j] = "M"
      BY <1>2 DEF AtMarker
    <3>2. j # cursor + 1
      BY <1>4, <3>1
    <3>3. j \in (cursor + 1) + 1 .. Len(file)
      BY <1>3, <3>2
    <3>4. QED
      BY <1>2, <1>4, <1>5, <3>1, <3>3 DEF AtMarker
  <2>2. cursor' \in 1..Len(file)
    BY <1>3, <1>5
  <2>3. QED
    BY <1>0, <1>1, <1>5, <1>6, <2>1, <2>2 DEF Placed, WInv
<1>9. Counted'
  <2>1. \A i \in cursor + 1 .. cursor + 1 : i - 1 = cursor
    BY <1>3
  <2>2. file[cursor] # "M"
    BY <1>2 DEF AtMarker
  <2>3. ScansTo(file, cursor + 1) = ScansTo(file, cursor)
    BY <1>3, <2>1, <2>2, NoScanTo
  <2>4. QED
    BY <1>1, <1>5, <2>3 DEF Counted, WInv
<1>10. Given'
  BY <1>0, <1>1, <1>5, MarkersGiven
<1>11. Stocked'
  <2>1. cursor' + bytesInBuffer' = cursor + bytesInBuffer
    BY <1>3, <1>5
  <2>2. ASSUME NEW j \in 2..Len(file), MarkerIn(file, j), cursor < j
        PROVE  cursor' <= j + 1 /\ cursor' < j
    <3>1. j # cursor + 1
      BY <1>4, <2>2 DEF MarkerIn
    <3>2. QED
      BY <1>3, <1>5, <2>2, <3>1
  <2>3. QED
    BY <1>0, <1>1, <1>5, <2>1, <2>2, StockedThen
<1>12. QED
  BY <1>7, <1>8, <1>9, <1>10, <1>11 DEF GInv

LEMMA NextMarkerPlaced == ASSUME WInv, NextMarker PROVE GInv'
<1>0. InMarkers /\ Consuming /\ cinfo.begun /\ cinfo.unread = "none"
  BY DEF NextMarker, InMarkers
<1>1. /\ pc \in Calls /\ ret = "none" /\ cinfo.reading = "markers" /\ ~cinfo.eoi
      /\ cursor \in 1..Len(file) /\ ~Found /\ (AtMarker \/ AtLetter)
      /\ cinfo.state # "INHEADER" => cinfo.inRow = Rows /\ cinfo.inScan > 0
  BY <1>0, AtMarkers
<1>2. AtMarker
  BY <1>0, <1>1 DEF AtLetter
<1>3. /\ file \in Seq(Byte) /\ Len(file) \in Nat /\ cursor \in Nat /\ bytesInBuffer \in Nat
      /\ cursor + 1 <= Len(file) /\ Whole(file)
  BY <1>2, WholeTypes DEF WInv, AtMarker
<1>4. PICK e \in MarkerEnd(1) : Take(e) /\ Set([unread |-> Ahead(e)])
  BY DEF NextMarker
<1>5. /\ e \in 2..bytesInBuffer /\ Ahead(e) # "M" /\ Ahead(1) = "M" /\ 1 \in 1..bytesInBuffer
  <2>1. e \in 1 + 1 .. bytesInBuffer /\ Ahead(e) # "M" /\ \A j \in 1 .. e - 1 : Ahead(j) = "M"
    BY DEF MarkerEnd
  <2>2. 1 \in 1 .. e - 1
    BY <1>3, <2>1
  <2>3. QED
    BY <1>3, <2>1, <2>2
<1>6. file[cursor + 1] = "M"
  BY <1>3, <1>5, InFile DEF WInv
<1>7. /\ cursor + 1 \in 2 .. Len(file) - 1 /\ MarkerIn(file, cursor + 1)
      /\ WellFormed(file, cursor + 1)
  BY <1>1, <1>3, <1>6, MarkerOf
<1>8. /\ (cursor + 1) + 1 = cursor + 2 /\ cursor + 2 <= Len(file)
      /\ file[cursor + 2] \in {"A", "C", "B", "E"} /\ file[cursor + 2] # "M"
  <2>1. (cursor + 1) + 1 = cursor + 2 /\ cursor + 2 <= Len(file)
    BY <1>3, <1>7
  <2>2. file[(cursor + 1) + 1] \in {"A", "C", "B", "E"}
    BY <1>7, LetterOf
  <2>3. QED
    BY <2>1, <2>2
<1>9. e = 2
  <2>1. 2 \in 1..bytesInBuffer
    BY <1>3, <1>5
  <2>2. Ahead(2) = file[cursor + 2]
    BY <1>8, <2>1, InFile DEF WInv
  <2>3. e # 2 => 2 \in 1 .. e - 1
    BY <1>3, <1>5
  <2>4. QED
    BY <1>8, <2>2, <2>3 DEF MarkerEnd
<1>10. Ahead(e) = file[cursor + 2]
  BY <1>3, <1>5, <1>8, <1>9, InFile DEF WInv
<1>11. /\ cursor' = cursor + 2 /\ bytesInBuffer' = bytesInBuffer - 2 /\ ret' = "none"
       /\ UNCHANGED <<file, completed, info, pc, failed>>
  BY <1>4, <1>9 DEF NextMarker, Take, Returned
<1>12. /\ cinfo'.unread = file[cursor + 2] /\ cinfo'.length = 0
       /\ cinfo'.begun = cinfo.begun /\ cinfo'.state = cinfo.state
       /\ cinfo'.several = cinfo.several /\ cinfo'.reading = cinfo.reading
       /\ cinfo'.eoi = cinfo.eoi /\ cinfo'.inScan = cinfo.inScan
       /\ cinfo'.outScan = cinfo.outScan /\ cinfo'.inRow = cinfo.inRow
       /\ cinfo'.outLine = cinfo.outLine /\ cinfo'.smooth = cinfo.smooth /\ cinfo'.dc = cinfo.dc
  <2>1. \A f \in CinfoFields : cinfo'[f] = IF f = "unread" THEN Ahead(e) ELSE cinfo[f]
    BY <1>4, SetFields DEF WInv
  <2>2. cinfo.length = 0
    BY <1>2 DEF AtMarker
  <2>3. QED
    BY <1>10, <2>1, <2>2 DEF CinfoFields
<1>13. ~Found'
  BY <1>1, <1>12 DEF Found
<1>14. Stated' /\ Answers'
  BY <1>1, <1>11, <1>12, <1>13, LibraryStage
<1>15. Placed'
  <2>1. cursor' \in 1..Len(file) /\ cursor' - 1 = cursor + 1
    BY <1>3, <1>8, <1>11
  <2>2. AtLetter'
    BY <1>7, <1>8, <1>11, <1>12, <2>1 DEF AtLetter
  <2>3. QED
    BY <1>0, <1>1, <1>11, <1>12, <1>13, <2>1, <2>2 DEF Placed, WInv
<1>16. Counted'
  <2>1. ScansTo(file, cursor) = cinfo.inScan /\ cinfo.inScan \in Nat
    BY <1>0, <1>1, WholeTypes DEF Counted, WInv
  <2>2. \A i \in cursor + 1 .. cursor + 1 : i - 1 = cursor
    BY <1>3
  <2>3. file[cursor] # "M"
    BY <1>2 DEF AtMarker
  <2>4. ScansTo(file, cursor + 1) = ScansTo(file, cursor)
    BY <1>3, <2>2, <2>3, NoScanTo
  <2>5. ScansTo(file, cursor + 2)
          = ScansTo(file, cursor + 1) + IF file[cursor + 2] = "B" THEN 1 ELSE 0
    <3>1. CASE file[cursor + 2] = "B"
      <4>1. cursor + 1 \in Nat /\ cursor + 1 > 0
        BY <1>3
      <4>2. ScansTo(file, (cursor + 1) + 1) = ScansTo(file, cursor + 1) + 1
        BY <1>6, <1>8, <3>1, <4>1, OneScanTo
      <4>3. QED
        BY <1>8, <3>1, <4>2
    <3>2. CASE file[cursor + 2] # "B"
      <4>1. cursor + 1 \in Nat /\ cursor + 2 \in Nat /\ cursor + 1 <= cursor + 2
        BY <1>3
      <4>2. \A i \in (cursor + 1) + 1 .. cursor + 2 : i = cursor + 2
        BY <1>3
      <4>3. ScansTo(file, cursor + 2) = ScansTo(file, cursor + 1)
        BY <3>2, <4>1, <4>2, NoScanTo
      <4>4. ScansTo(file, cursor + 1) \in Nat
        BY <4>1, ScanEndsFinite
      <4>5. QED
        BY <3>2, <4>3, <4>4
    <3>3. QED
      BY <3>1, <3>2
  <2>6. QED
    BY <1>1, <1>11, <1>12, <2>1, <2>4, <2>5 DEF Counted
<1>17. Given'
  BY <1>0, <1>1, <1>11, <1>12, MarkersGiven
<1>18. Stocked'
  <2>1. cursor' + bytesInBuffer' = cursor + bytesInBuffer
    BY <1>3, <1>11
  <2>2. ASSUME NEW j \in 2..Len(file), MarkerIn(file, j), file[j + 1] \in {"B", "E"},
               cursor < j
        PROVE  cursor' <= j + 1 /\ (cinfo'.unread \notin {"B", "E"} => cursor' < j)
    <3>1. file[j] = "M"
      BY <2>2 DEF MarkerIn
    <3>2. j # cursor + 2
      BY <1>8, <3>1
    <3>3. cinfo'.unread \notin {"B", "E"} => j # cursor + 1
      BY <1>8, <1>12, <2>2
    <3>4. QED
      BY <1>3, <1>11, <2>2, <3>2, <3>3
  <2>3. QED
    BY <1>0, <1>1, <1>11, <2>1, <2>2, StockedThen
<1>19. QED
  BY <1>14, <1>15, <1>16, <1>17, <1>18 DEF GInv

(* Behind the letter of a segment of a whole file. *)
LEMMA SegmentBytes ==
  ASSUME WInv, cinfo.unread \in {"A", "C"}, NEW i \in Int, MarkerIn(file, i),
         file[i + 1] = cinfo.unread, NEW n, n = IF cinfo.unread = "A" THEN Long ELSE Short
  PROVE  /\ n \in Nat /\ n > 0 /\ file[i + 2] = "n" /\ i + 2 + n < Len(file)
         /\ \A j \in i + 1 .. i + 2 + n : file[j] # "M"
         /\ \E j \in i + 3 + n .. Len(file) : file[j] = "M"
<1>1. /\ file \in Seq(Byte) /\ Len(file) \in Nat /\ n \in Nat /\ n > 0 /\ Whole(file)
      /\ i \in Nat
  BY WholeTypes DEF WInv, MarkerIn
<1>2. i >= 2 /\ i <= Len(file) /\ file[i] = "M"
  BY <1>1 DEF MarkerIn
<1>3. file[i + 2] = "n" /\ Follows(file, i, 3 + n)
  BY <1>1, <1>2, MarkerOf, SegmentOf
<1>4. i + (3 + n) - 1 = i + 2 + n /\ i + (3 + n) = i + 3 + n
  BY <1>1
<1>5. /\ \A j \in i + 1 .. i + 2 + n : file[j] # "M"
      /\ \E j \in i + 3 + n .. Len(file) : file[j] = "M"
  BY <1>3, <1>4 DEF Follows
<1>6. i + 2 + n < Len(file)
  <2>1. i + 3 + n \in Int
    BY <1>1
  <2>2. PICK m \in Int : m = i + 3 + n
    BY <2>1
  <2>3. PICK j : j \in m .. Len(file)
    BY <1>5, <2>2
  <2>4. m <= Len(file)
    BY <1>1, <2>3
  <2>5. QED
    BY <1>1, <2>2, <2>4
<1>7. QED
  BY <1>1, <1>3, <1>5, <1>6

LEMMA SegmentPlaced == ASSUME WInv, Segment PROVE GInv'
<1>0. /\ InMarkers /\ Consuming /\ cinfo.unread \in {"A", "C"} /\ bytesInBuffer > 0
      /\ cinfo.begun
  BY Flags DEF Segment, InMarkers, WInv, DInv, NotBegun
<1>1. /\ pc \in Calls /\ ret = "none" /\ cinfo.reading = "markers" /\ ~cinfo.eoi
      /\ cursor \in 1..Len(file) /\ ~Found /\ (AtMarker \/ AtLetter)
      /\ cinfo.state # "INHEADER" => cinfo.inRow = Rows /\ cinfo.inScan > 0
  BY <1>0, AtMarkers
<1>2. AtLetter
  BY <1>0, <1>1 DEF AtMarker
<1>3. PICK n : n = IF cinfo.unread = "A" THEN Long ELSE Short
  OBVIOUS
<1>4. /\ file \in Seq(Byte) /\ Len(file) \in Nat /\ cursor \in Nat /\ bytesInBuffer \in Nat
      /\ cursor - 1 \in Int /\ MarkerIn(file, cursor - 1) /\ (cursor - 1) + 1 = cursor
      /\ (cursor - 1) + 2 = cursor + 1 /\ cursor <= Len(file)
  BY <1>1, <1>2, WholeTypes DEF WInv, AtLetter
<1>5. file[cursor] = cinfo.unread
  BY <1>2 DEF AtLetter
<1>6. /\ n \in Nat /\ n > 0 /\ file[cursor + 1] = "n" /\ (cursor - 1) + 2 + n < Len(file)
      /\ \A j \in (cursor - 1) + 1 .. (cursor - 1) + 2 + n : file[j] # "M"
  <2>1. file[(cursor - 1) + 1] = cinfo.unread
    BY <1>4, <1>5
  <2>2. /\ n \in Nat /\ n > 0 /\ file[(cursor - 1) + 2] = "n"
        /\ (cursor - 1) + 2 + n < Len(file)
        /\ \A j \in (cursor - 1) + 1 .. (cursor - 1) + 2 + n : file[j] # "M"
    BY <1>0, <1>3, <1>4, <2>1, SegmentBytes
  <2>3. QED
    BY <1>4, <2>2
<1>7. cursor + 1 + n < Len(file) /\ \A j \in cursor .. cursor + 1 + n : file[j] # "M"
  <2>1. (cursor - 1) + 2 + n = cursor + 1 + n
    BY <1>4, <1>6
  <2>2. QED
    BY <1>4, <1>6, <2>1
<1>8. Ahead(1) = "n"
  <2>1. 1 \in 1..bytesInBuffer /\ cursor + 1 <= Len(file)
    BY <1>0, <1>4, <1>6, <1>7
  <2>2. QED
    BY <1>6, <2>1, InFile DEF WInv
<1>9. /\ cursor' = cursor + 1 /\ bytesInBuffer' = bytesInBuffer - 1 /\ ret' = "none"
      /\ UNCHANGED <<file, completed, info, pc, failed>>
  BY DEF Segment, Take, Returned
<1>10. Set([length |-> n])
  BY <1>3, <1>8 DEF Segment
<1>11. /\ cinfo'.unread = cinfo.unread /\ cinfo'.length = n
       /\ cinfo'.begun = cinfo.begun /\ cinfo'.state = cinfo.state
       /\ cinfo'.several = cinfo.several /\ cinfo'.reading = cinfo.reading
       /\ cinfo'.eoi = cinfo.eoi /\ cinfo'.inScan = cinfo.inScan
       /\ cinfo'.outScan = cinfo.outScan /\ cinfo'.inRow = cinfo.inRow
       /\ cinfo'.outLine = cinfo.outLine /\ cinfo'.smooth = cinfo.smooth /\ cinfo'.dc = cinfo.dc
  <2>1. \A f \in CinfoFields : cinfo'[f] = IF f = "length" THEN n ELSE cinfo[f]
    BY <1>10, SetFields DEF WInv
  <2>2. QED
    BY <2>1 DEF CinfoFields
<1>12. ~Found'
  BY <1>1, <1>11 DEF Found
<1>13. Stated' /\ Answers'
  BY <1>1, <1>9, <1>11, <1>12, LibraryStage
<1>14. Placed'
  <2>1. cursor' \in 1..Len(file) /\ cursor' - 2 = cursor - 1 /\ cursor' - 1 = cursor
    BY <1>4, <1>6, <1>7, <1>9
  <2>2. AtSegment'
    BY <1>0, <1>3, <1>4, <1>5, <1>9, <1>11, <2>1 DEF AtSegment
  <2>3. QED
    BY <1>0, <1>1, <1>9, <1>11, <1>12, <2>1, <2>2 DEF Placed, WInv
<1>15. Counted'
  <2>1. file[cursor] # "M"
    BY <1>0, <1>5
  <2>2. \A i \in cursor + 1 .. cursor + 1 : i - 1 = cursor
    BY <1>4
  <2>3. ScansTo(file, cursor + 1) = ScansTo(file, cursor)
    BY <1>4, <2>1, <2>2, NoScanTo
  <2>4. QED
    BY <1>1, <1>9, <1>11, <2>3 DEF Counted, WInv
<1>16. Given'
  BY <1>0, <1>1, <1>9, <1>11, MarkersGiven
<1>17. Stocked'
  <2>1. cursor' + bytesInBuffer' = cursor + bytesInBuffer
    BY <1>4, <1>9
  <2>2. ASSUME NEW j \in 2..Len(file), MarkerIn(file, j), cursor < j
        PROVE  cursor' <= j + 1 /\ cursor' < j
    <3>1. j # cursor + 1
      BY <1>6, <2>2 DEF MarkerIn
    <3>2. QED
      BY <1>4, <1>9, <2>2, <3>1
  <2>3. cinfo.unread \notin {"B", "E"}
    BY <1>0
  <2>4. QED
    BY <1>0, <1>1, <1>9, <2>1, <2>2, <2>3, StockedThen
<1>18. QED
  BY <1>13, <1>14, <1>15, <1>16, <1>17 DEF GInv

LEMMA SkipVariablePlaced == ASSUME WInv, SkipVariable PROVE GInv'
<1>0. /\ Consuming /\ cinfo.length > 0 /\ pc \in Calls /\ ret = "none"
      /\ SkipInput(cinfo.length)
  BY DEF SkipVariable, Consuming
<1>1. /\ AtSegment /\ cinfo.begun /\ ~cinfo.eoi /\ ~Found /\ cursor \in 1..Len(file)
      /\ cinfo.state # "INHEADER" => cinfo.inRow = Rows /\ cinfo.inScan > 0
      /\ cinfo.reading = "markers"
  <2>1. cinfo.length # 0
    BY <1>0
  <2>2. ~AtRow /\ ~AtMarker /\ ~AtLetter
    BY <2>1 DEF AtRow, AtMarker, AtLetter
  <2>3. QED
    BY <2>1, <2>2, Flags DEF WInv, Placed
<1>2. PICK n : n = IF cinfo.unread = "A" THEN Long ELSE Short
  OBVIOUS
<1>3. /\ file \in Seq(Byte) /\ Len(file) \in Nat /\ cursor \in Nat /\ bytesInBuffer \in Nat
      /\ cursor - 2 \in Int /\ MarkerIn(file, cursor - 2) /\ cinfo.unread \in {"A", "C"}
      /\ (cursor - 2) + 1 = cursor - 1 /\ file[cursor - 1] = cinfo.unread
      /\ cinfo.length = n
  BY <1>1, <1>2, WholeTypes DEF WInv, AtSegment
<1>4. /\ n \in Nat /\ n > 0 /\ (cursor - 2) + 2 + n < Len(file)
      /\ \A j \in (cursor - 2) + 1 .. (cursor - 2) + 2 + n : file[j] # "M"
      /\ \E j \in (cursor - 2) + 3 + n .. Len(file) : file[j] = "M"
  <2>1. file[(cursor - 2) + 1] = cinfo.unread
    BY <1>3
  <2>2. QED
    BY <1>2, <1>3, <2>1, SegmentBytes
<1>5. /\ cursor + n < Len(file) /\ \A j \in cursor - 1 .. cursor + n : file[j] # "M"
      /\ \E j \in cursor + n + 1 .. Len(file) : file[j] = "M"
  <2>1. (cursor - 2) + 2 + n = cursor + n /\ (cursor - 2) + 3 + n = cursor + n + 1
    BY <1>3, <1>4
  <2>2. QED
    BY <1>3, <1>4, <2>1
<1>6. /\ cursor' = cursor + n /\ ret' = "none"
      /\ UNCHANGED <<file, completed, info, pc, failed>>
  BY <1>0, <1>3 DEF SkipVariable, SkipInput, Returned
<1>7. /\ cinfo'.unread = "none" /\ cinfo'.length = 0
      /\ cinfo'.begun = cinfo.begun /\ cinfo'.state = cinfo.state
      /\ cinfo'.several = cinfo.several /\ cinfo'.reading = cinfo.reading
      /\ cinfo'.eoi = cinfo.eoi /\ cinfo'.inScan = cinfo.inScan
      /\ cinfo'.outScan = cinfo.outScan /\ cinfo'.inRow = cinfo.inRow
      /\ cinfo'.outLine = cinfo.outLine /\ cinfo'.smooth = cinfo.smooth /\ cinfo'.dc = cinfo.dc
  <2> DEFINE done == [length |-> 0, unread |-> "none"]
  <2>1. Set(done) /\ DOMAIN done = {"length", "unread"} /\ done["length"] = 0
        /\ done["unread"] = "none"
    BY DEF SkipVariable
  <2> HIDE DEF done
  <2>2. \A f \in CinfoFields : cinfo'[f] = IF f \in DOMAIN done THEN done[f] ELSE cinfo[f]
    BY <2>1, SetFields DEF WInv
  <2>3. QED
    BY <2>1, <2>2 DEF CinfoFields
<1>8. ~Found'
  BY <1>1, <1>7 DEF Found
<1>9. Stated' /\ Answers'
  BY <1>0, <1>1, <1>6, <1>7, <1>8, LibraryStage
<1>10. Placed'
  <2>1. cursor' \in 1..Len(file) /\ cursor' \in cursor - 1 .. cursor + n
    BY <1>1, <1>3, <1>4, <1>5, <1>6
  <2>2. AtMarker'
    BY <1>5, <1>6, <1>7, <2>1 DEF AtMarker
  <2>3. QED
    BY <1>0, <1>1, <1>6, <1>7, <1>8, <2>1, <2>2 DEF Placed, WInv
<1>11. Counted'
  <2>1. ASSUME NEW i \in cursor + 1 .. cursor + n PROVE file[i - 1] # "M"
    <3>1. i - 1 \in cursor - 1 .. cursor + n
      BY <1>3, <1>4
    <3>2. QED
      BY <1>5, <3>1
  <2>2. cursor + n \in Nat /\ cursor <= cursor + n
    BY <1>3, <1>4
  <2>3. ScansTo(file, cursor + n) = ScansTo(file, cursor)
    BY <1>3, <2>1, <2>2, NoScanTo
  <2>4. QED
    BY <1>1, <1>3, <1>6, <1>7, <2>3 DEF Counted, WInv
<1>12. Given'
  BY <1>0, <1>1, <1>6, <1>7, MarkersGiven
<1>13. Stocked'
  <2>1. CASE Progressive("FINISH")
    <3>1. PICK j \in 2..Len(file) :
             /\ MarkerIn(file, j) /\ file[j + 1] \in {"B", "E"} /\ cursor <= j + 1
             /\ cinfo.unread \notin {"B", "E"} => cursor < j
             /\ cursor + bytesInBuffer >= Least(j + 2, Len(file))
      BY <1>0, <1>1, <2>1, StockedNow
    <3>2. cursor < j /\ file[j] = "M" /\ j \in 2 .. Len(file) - 1
      BY <1>3, <3>1 DEF MarkerIn
    <3>3. cursor + n < j
      <4>1. j \notin cursor - 1 .. cursor + n
        BY <1>5, <3>2
      <4>2. QED
        BY <1>3, <1>4, <3>2, <4>1
    <3>4. bytesInBuffer >= n
      <4>1. Least(j + 2, Len(file)) > j
        BY <1>3, <3>2 DEF Least
      <4>2. Least(j + 2, Len(file)) \in Nat
        BY <1>3, <3>2 DEF Least
      <4>3. QED
        BY <1>3, <1>4, <3>1, <3>2, <3>3, <4>1, <4>2
    <3>5. bytesInBuffer' = bytesInBuffer - n
      <4>1. /\ memory' = SubSeq(memory, next + n + 1, next + bytesInBuffer)
            /\ bytesInBuffer' = Len(memory')
        BY <1>0, <1>3, <1>4, <3>4 DEF SkipInput
      <4>2. memory \in Seq(Byte) /\ next \in Nat /\ next + bytesInBuffer = Len(memory)
        BY DEF WInv, IInv, SourceTypeOK
      <4>3. /\ next + n \in Nat /\ next + bytesInBuffer \in Nat
            /\ next + n <= next + bytesInBuffer /\ next + bytesInBuffer <= Len(memory)
        BY <1>3, <1>4, <3>4, <4>2
      <4>4. PICK m \in Nat : m = next + n
        BY <4>3
      <4>5. PICK b \in Nat : b = next + bytesInBuffer
        BY <4>3
      <4>6. Len(SubSeq(memory, m + 1, b)) = b - m
        BY <4>2, <4>3, <4>4, <4>5, Part
      <4>7. QED
        BY <1>3, <1>4, <4>1, <4>2, <4>4, <4>5, <4>6
    <3>6. cursor' + bytesInBuffer' = cursor + bytesInBuffer
      BY <1>3, <1>4, <1>6, <3>5
    <3>7. cursor' < j /\ cursor' <= j + 1
      BY <1>3, <1>4, <1>6, <3>2, <3>3
    <3>8. QED
      BY <1>6, <3>1, <3>6, <3>7 DEF Stocked
  <2>2. CASE ~Progressive("FINISH")
    BY <1>6, <2>2 DEF Stocked, Progressive
  <2>3. QED
    BY <2>1, <2>2
<1>14. QED
  BY <1>9, <1>10, <1>11, <1>12, <1>13 DEF GInv

LEMMA StartOfScanPlaced == ASSUME WInv, StartOfScan PROVE GInv'
<1>0. /\ InMarkers /\ Consuming /\ cinfo.unread = "B" /\ bytesInBuffer > 0 /\ cinfo.begun
      /\ Take(1)
  BY Flags DEF StartOfScan, InMarkers, WInv, DInv, NotBegun
<1>1. /\ pc \in Calls /\ ret = "none" /\ cinfo.reading = "markers" /\ ~cinfo.eoi
      /\ cursor \in 1..Len(file) /\ ~Found /\ (AtMarker \/ AtLetter)
      /\ cinfo.state # "INHEADER" => cinfo.inRow = Rows /\ cinfo.inScan > 0
  BY <1>0, AtMarkers
<1>2. AtLetter
  BY <1>0, <1>1 DEF AtMarker
<1>3. /\ file \in Seq(Byte) /\ Len(file) \in Nat /\ cursor \in Nat /\ bytesInBuffer \in Nat
      /\ Rows \in Nat /\ Rows > 0 /\ cinfo.inScan \in Nat /\ Whole(file)
  BY WholeTypes DEF WInv
<1>4. PICK i \in 2 .. Len(file) - 1 :
        /\ i = cursor - 1 /\ cursor = i + 1 /\ cursor + 1 = i + 2
        /\ MarkerIn(file, i) /\ file[i] = "M" /\ file[i + 1] = "B"
  <2>1. MarkerIn(file, cursor - 1) /\ file[cursor] = "B"
    BY <1>0, <1>2 DEF AtLetter
  <2>2. /\ cursor - 1 \in 2 .. Len(file) - 1 /\ file[cursor - 1] = "M"
        /\ cursor = (cursor - 1) + 1 /\ cursor + 1 = (cursor - 1) + 2
    BY <1>3, <2>1 DEF MarkerIn
  <2>3. QED
    BY <2>1, <2>2
<1>5. /\ file[i + 2] \in {"d", "p"} /\ cursor + 1 < Len(file)
  <2>1. WellFormed(file, i)
    BY <1>3, <1>4, MarkerOf
  <2>2. file[i + 2] \in {"d", "p"} /\ Follows(file, i, 3 + 2 * Rows)
    BY <1>4, <2>1, ScanOf
  <2>3. PICK j : j \in i + (3 + 2 * Rows) .. Len(file)
    BY <2>2 DEF Follows
  <2> DEFINE r == 2 * Rows
  <2>4. r \in Nat /\ r > 0
    BY <1>3
  <2> HIDE DEF r
  <2>5. i + (3 + r) \in Int /\ j \in i + (3 + r) .. Len(file)
    BY <1>4, <2>3, <2>4 DEF r
  <2>6. QED
    BY <1>3, <1>4, <2>2, <2>4, <2>5
<1>6. Ahead(1) = file[i + 2]
  <2>1. 1 \in 1..bytesInBuffer /\ cursor + 1 <= Len(file)
    BY <1>0, <1>3, <1>5
  <2>2. QED
    BY <1>4, <2>1, InFile DEF WInv
<1>7. ScansTo(file, cursor) = cinfo.inScan + 1
  BY <1>0, <1>1, <1>3 DEF Counted, WInv
<1>8. ~(cinfo.inScan > 0 /\ ~cinfo.several)
  <2>1. ScansTo(file, cursor) <= ScansOf(file)
    BY <1>1, <1>3, MoreScansTo, ScansToAll
  <2>2. cinfo.several <=> file[1] = "P"
    BY <1>0 DEF WInv, Placed
  <2>3. file[1] # "P" => ScansOf(file) = 1
    BY <1>3 DEF Whole
  <2>4. QED
    BY <1>3, <1>7, <2>1, <2>2, <2>3
<1> DEFINE reading == IF cinfo.inScan = 0 THEN "markers" ELSE "rows"
<1>9. /\ Set([unread |-> "none", inScan |-> cinfo.inScan + 1, inRow |-> 0,
              dc |-> Ahead(1) = "d", reading |-> reading])
      /\ Returned("SOS")
  BY <1>5, <1>6, <1>8 DEF StartOfScan
<1>10. /\ cursor' = cursor + 1 /\ bytesInBuffer' = bytesInBuffer - 1 /\ ret' = "SOS"
       /\ UNCHANGED <<file, completed, info, pc, failed>>
  BY <1>0, <1>9 DEF Take, Returned
<1>11. /\ cinfo'.unread = "none" /\ cinfo'.length = 0 /\ cinfo'.inScan = cinfo.inScan + 1
       /\ cinfo'.inRow = 0 /\ cinfo'.reading = reading
       /\ cinfo'.begun = cinfo.begun /\ cinfo'.state = cinfo.state
       /\ cinfo'.several = cinfo.several /\ cinfo'.eoi = cinfo.eoi
       /\ cinfo'.outScan = cinfo.outScan
  <2>1. PICK d : Set([unread |-> "none", inScan |-> cinfo.inScan + 1, inRow |-> 0,
                      dc |-> d, reading |-> reading])
    BY <1>9
  <2> DEFINE scan == [unread |-> "none", inScan |-> cinfo.inScan + 1, inRow |-> 0,
                      dc |-> d, reading |-> reading]
  <2>2. /\ DOMAIN scan = {"unread", "inScan", "inRow", "dc", "reading"}
        /\ scan["unread"] = "none" /\ scan["inScan"] = cinfo.inScan + 1
        /\ scan["inRow"] = 0 /\ scan["reading"] = reading
    OBVIOUS
  <2>3. Set(scan)
    BY <2>1
  <2> HIDE DEF scan, reading
  <2>4. \A f \in CinfoFields : cinfo'[f] = IF f \in DOMAIN scan THEN scan[f] ELSE cinfo[f]
    BY <2>3, SetFields DEF WInv
  <2>5. cinfo.length = 0
    BY <1>2 DEF AtLetter
  <2>6. QED
    BY <2>2, <2>4, <2>5 DEF CinfoFields
<1>12. cinfo.state = "INHEADER" <=> cinfo.inScan = 0
  BY <1>1, <1>3 DEF Found
<1>13. IF cinfo.inScan = 0 THEN Found' /\ cinfo'.reading = "markers"
       ELSE ~Found' /\ ScanBegins' /\ cinfo.state # "INHEADER"
  BY <1>3, <1>11, <1>12 DEF Found, ScanBegins
<1>14. Stated' /\ Answers'
  BY <1>1, <1>10, <1>11, <1>13, LibraryStage
<1>15. AtRow'
  <2>1. i \in 2..Len(file) /\ ScanAt(i)' /\ cursor' = i + 2 + 2 * cinfo'.inRow
    BY <1>3, <1>4, <1>10, <1>11 DEF ScanAt
  <2>2. QED
    BY <1>3, <1>10, <1>11, <2>1 DEF AtRow
<1>16. Placed'
  <2>1. cursor' \in 1..Len(file)
    BY <1>3, <1>5, <1>10
  <2>2. cinfo'.inScan > 0
    BY <1>3, <1>11
  <2>3. QED
    BY <1>0, <1>1, <1>10, <1>11, <1>13, <1>15, <2>1, <2>2 DEF Placed, WInv
<1>17. Counted'
  <2>1. file[cursor] # "M"
    BY <1>4
  <2>2. /\ \A k \in cursor + 1 .. cursor + 1 : file[k - 1] # "M"
        /\ cursor + 1 \in Nat /\ cursor <= cursor + 1
    BY <1>3, <2>1
  <2>3. ScansTo(file, cursor + 1) = ScansTo(file, cursor)
    BY <1>3, <2>1, <2>2, NoScanTo
  <2>4. QED
    BY <1>1, <1>3, <1>7, <1>10, <1>11, <2>3 DEF Counted
<1>18. Given' /\ Stocked'
  <2>1. CASE Progressive("PROCESS") \/ Progressive("FINISH")
    <3>1. cinfo.inScan = cinfo.outScan /\ cinfo.inScan > 0
      BY <1>0, <1>1, <2>1, ConsumingFor
    <3>2. cinfo'.inScan = cinfo'.outScan + 1 /\ ScanBegins' /\ cinfo'.inScan # cinfo'.outScan
      BY <1>3, <1>11, <1>13, <3>1
    <3>3. QED
      BY <3>2 DEF Given, Stocked
  <2>2. CASE ~(Progressive("PROCESS") \/ Progressive("FINISH"))
    BY <1>10, <2>2 DEF Given, Stocked, Progressive
  <2>3. QED
    BY <2>1, <2>2
<1>19. QED
  BY <1>14, <1>16, <1>17, <1>18 DEF GInv

LEMMA EndOfImagePlaced == ASSUME WInv, EndOfImage PROVE GInv'
<1>0. /\ InMarkers /\ cinfo.unread = "E" /\ cinfo.begun /\ UNCHANGED source
  BY Flags DEF EndOfImage, InMarkers, WInv, DInv, NotBegun
<1>1. /\ pc \in Calls /\ ret = "none" /\ cinfo.reading = "markers" /\ ~cinfo.eoi
      /\ cursor \in 1..Len(file) /\ ~Found /\ (AtMarker \/ AtLetter)
      /\ cinfo.state # "INHEADER" => cinfo.inRow = Rows /\ cinfo.inScan > 0
  BY <1>0, AtMarkers
<1>2. AtLetter /\ cinfo.length = 0
  BY <1>0, <1>1 DEF AtMarker, AtLetter
<1>3. /\ file \in Seq(Byte) /\ cursor \in Nat /\ cinfo.inScan \in Nat /\ Whole(file)
      /\ cinfo.inScan = ScansOf(file) /\ ScansOf(file) > 0
  <2>1. file \in Seq(Byte) /\ cursor \in Nat /\ cinfo.inScan \in Nat /\ Whole(file)
    BY WholeTypes DEF WInv
  <2>2. ScansTo(file, cursor) = ScansOf(file) /\ ScansOf(file) > 0
    BY <1>0, <1>2, <2>1, EndBehindScans DEF AtLetter
  <2>3. ScansTo(file, cursor) = cinfo.inScan
    BY <1>0, <1>1, <2>1 DEF Counted, WInv
  <2>4. QED
    BY <2>1, <2>2, <2>3
<1> PICK n : n = Least(cinfo.outScan, cinfo.inScan)
  OBVIOUS
<1>4. PICK yes \in BOOLEAN :
        yes /\ Set([unread |-> "none", eoi |-> yes, outScan |-> n])
  <2>1. cinfo.inScan # 0
    BY <1>3
  <2>2. Set([unread |-> "none", eoi |-> TRUE, outScan |-> n])
    BY <2>1, Zenon DEF EndOfImage
  <2>3. QED
    BY <2>2, Zenon
<1>5. /\ ret' = "EOI" /\ UNCHANGED <<file, cursor, completed, info, pc, failed>>
  <2>1. cinfo.inScan # 0
    BY <1>3
  <2>2. Returned("EOI")
    BY <2>1, Zenon DEF EndOfImage
  <2>3. QED
    BY <1>0, <2>2 DEF Returned, source
<1>6. /\ cinfo'.unread = "none" /\ cinfo'.eoi = yes /\ cinfo'.length = 0
      /\ cinfo'.begun = cinfo.begun /\ cinfo'.state = cinfo.state
      /\ cinfo'.several = cinfo.several /\ cinfo'.reading = cinfo.reading
      /\ cinfo'.inScan = cinfo.inScan /\ cinfo'.inRow = cinfo.inRow
  <2> DEFINE end == [unread |-> "none", eoi |-> yes, outScan |-> n]
  <2>1. /\ DOMAIN end = {"unread", "eoi", "outScan"}
        /\ end["unread"] = "none" /\ end["eoi"] = yes
    OBVIOUS
  <2>2. Set(end)
    BY <1>4
  <2> HIDE DEF end
  <2>3. \A f \in CinfoFields : cinfo'[f] = IF f \in DOMAIN end THEN end[f] ELSE cinfo[f]
    BY <2>2, SetFields DEF WInv
  <2>4. QED
    BY <1>2, <2>1, <2>3 DEF CinfoFields
<1>7. ~Found'
  BY <1>1, <1>6 DEF Found
<1>8. Stated' /\ Answers'
  BY <1>1, <1>4, <1>5, <1>6, <1>7, LibraryStage
<1>9. Placed'
  BY <1>0, <1>1, <1>4, <1>5, <1>6, <1>7 DEF Placed, WInv
<1>10. Counted' /\ Given' /\ Stocked'
  BY <1>3, <1>4, <1>5, <1>6 DEF Counted, Given, Stocked
<1>11. QED
  BY <1>8, <1>9, <1>10 DEF GInv

(* Where nothing is known that was not, only the answer counts. *)
LEMMA AnsweredPlaced ==
  ASSUME WInv, pc \in Calls, ret = "none", UNCHANGED <<source, cinfo, info, pc, failed>>,
         \/ ret' = "EOI" /\ cinfo.eoi
         \/ ret' = "SUSPENDED" /\ pc # "finish"
  PROVE  GInv'
<1>1. ~Found /\ ~Found'
  BY DEF WInv, Answers, Calls, Found
<1>2. Stated' /\ Answers'
  BY <1>1, LibraryStage DEF source
<1>3. Placed' /\ Counted'
  BY DEF source, WInv, Placed, Counted, Found, AtRow, AtMarker, AtLetter, AtSegment, ScanAt
<1>4. Given' /\ Stocked'
  BY DEF source, WInv, Given, Stocked, BehindRows, ScanBegins, AtMarker, Fresh, ScanAt,
         Progressive
<1>5. QED
  BY <1>2, <1>3, <1>4 DEF GInv

(* jpeg_finish_output is never left without a byte. *)
LEMMA NotSuspended ==
  ASSUME WInv, Suspend
  PROVE  pc \in Calls /\ ret = "none" /\ pc # "finish"
<1>0. Consuming /\ pc \in Calls /\ ret = "none"
  BY DEF Suspend, InMarkers, InRows, Consuming
<1>1. SUFFICES ASSUME pc = "finish" PROVE FALSE
  BY <1>0
<1>2. Progressive("FINISH") /\ ~cinfo.eoi
  BY <1>0, <1>1 DEF WInv, DInv, Staged, Consuming
<1>3. cinfo.reading = "markers" /\ cinfo.begun
  BY <1>0, <1>2, ConsumingFor, BegunIs DEF WInv, Progressive
<1>4. /\ InMarkers /\ cinfo.unread # "E"
      /\ \/ bytesInBuffer = 0
         \/ cinfo.unread = "none" /\ Ahead(1) = "M" /\ MarkerEnd(1) = {} /\ bytesInBuffer > 0
  BY <1>3 DEF Suspend, InRows
<1>5. /\ file \in Seq(Byte) /\ Len(file) \in Nat /\ cursor \in Nat /\ bytesInBuffer \in Nat
      /\ Whole(file) /\ Rows \in Nat
  BY WholeTypes DEF WInv
<1>6. PICK j \in 2..Len(file) :
         /\ MarkerIn(file, j) /\ file[j + 1] \in {"B", "E"} /\ cursor <= j + 1
         /\ cinfo.unread \notin {"B", "E"} => cursor < j
         /\ cursor + bytesInBuffer >= Least(j + 2, Len(file))
  BY <1>0, <1>2, StockedNow
<1>7. j \in 2 .. Len(file) - 1 /\ file[j] = "M"
  BY <1>6 DEF MarkerIn
<1>8. file[j + 1] = "B" => j + 2 <= Len(file)
  <2>1. SUFFICES ASSUME file[j + 1] = "B" PROVE j + 2 <= Len(file)
    OBVIOUS
  <2>2. Follows(file, j, 3 + 2 * Rows)
    BY <1>5, <1>7, <2>1, MarkerOf, ScanOf
  <2>3. PICK k : k \in j + (3 + 2 * Rows) .. Len(file)
    BY <2>2 DEF Follows
  <2> DEFINE r == 2 * Rows
  <2>4. r \in Nat
    BY <1>5
  <2> HIDE DEF r
  <2>5. j + (3 + r) \in Int /\ k \in j + (3 + r) .. Len(file)
    BY <1>7, <2>3, <2>4 DEF r
  <2>6. QED
    BY <1>5, <1>7, <2>4, <2>5
<1>9. AtMarker \/ AtLetter
  BY <1>3, <1>4, AtMarkers
<1>10. CASE cinfo.unread = "none"
  <2>1. cursor < j /\ cursor + bytesInBuffer >= j + 1
    BY <1>5, <1>6, <1>7, <1>10 DEF Least
  <2>2. bytesInBuffer >= 2 /\ Ahead(1) = "M"
    BY <1>4, <1>5, <1>7, <2>1
  <2>3. 1 \in 1..bytesInBuffer /\ 2 \in 1..bytesInBuffer /\ cursor + 1 <= Len(file)
    BY <1>5, <1>7, <2>1, <2>2
  <2>4. file[cursor + 1] = "M"
    BY <2>2, <2>3, InFile DEF WInv
  <2>5. cursor # 0
    BY <1>3, <1>4, AtMarkers DEF WInv
  <2>6. /\ cursor + 1 \in 2 .. Len(file) - 1 /\ WellFormed(file, cursor + 1)
        /\ (cursor + 1) + 1 = cursor + 2
    BY <1>5, <2>3, <2>4, <2>5, MarkerOf
  <2>7. file[cursor + 2] # "M" /\ cursor + 2 <= Len(file)
    BY <1>5, <2>6, LetterOf
  <2>8. Ahead(2) # "M"
    BY <2>3, <2>7, InFile DEF WInv
  <2>9. 2 \in MarkerEnd(1)
    <3>1. 2 \in 1 + 1 .. bytesInBuffer /\ \A k \in 1 .. 2 - 1 : k = 1
      BY <1>5, <2>2
    <3>2. QED
      BY <2>2, <2>8, <3>1 DEF MarkerEnd
  <2>10. QED
    BY <1>4, <1>5, <2>2, <2>9
<1>11. CASE cinfo.unread # "none"
  <2>1. bytesInBuffer = 0 /\ AtLetter
    BY <1>4, <1>9, <1>11 DEF AtMarker
  <2>2. CASE cinfo.unread \notin {"B", "E"}
    BY <1>5, <1>6, <1>7, <2>1, <2>2 DEF Least
  <2>3. CASE cinfo.unread = "B"
    <3>1. file[cursor] = "B"
      BY <2>1, <2>3 DEF AtLetter
    <3>2. cursor >= j + 1
      BY <1>5, <1>6, <1>7, <2>1 DEF Least
    <3>3. cursor = j + 1
      BY <1>5, <1>6, <1>7, <3>2
    <3>4. j + 2 <= Len(file)
      BY <1>8, <3>1, <3>3
    <3>5. QED
      BY <1>5, <1>6, <1>7, <2>1, <3>3, <3>4 DEF Least
  <2>4. QED
    BY <1>4, <2>2, <2>3
<1>12. QED
  BY <1>10, <1>11

LEMMA RowPlaced == ASSUME WInv, Row PROVE GInv'
<1>0. InRows /\ Consuming /\ bytesInBuffer >= 2 /\ Take(2) /\ RowRead("none")
  BY DEF Row, InRows
<1>1. /\ pc \in Calls /\ ret = "none" /\ cinfo.begun /\ ~cinfo.eoi
      /\ cinfo.state # "INHEADER" /\ cinfo.inScan > 0
      /\ cursor \in 1..Len(file) /\ AtRow
  BY <1>0, InScanAtRow
<1>2. /\ file \in Seq(Byte) /\ Len(file) \in Nat /\ cursor \in Nat /\ bytesInBuffer \in Nat
      /\ Rows \in Nat /\ Rows > 0 /\ cinfo.inScan \in Nat /\ cinfo.inRow \in Nat
      /\ cinfo.inRow < Rows /\ cinfo.outLine \in Nat /\ cinfo.outScan \in Nat
  BY <1>1, WholeTypes DEF WInv, AtRow
<1>3. PICK i \in 2..Len(file) : ScanAt(i) /\ cursor = i + 2 + 2 * cinfo.inRow
  BY <1>1 DEF AtRow
<1>4. /\ file[cursor + 1] # "M" /\ file[cursor + 2] # "M" /\ cursor + 2 < Len(file)
      /\ \A j \in i + 1 .. i + 2 + 2 * Rows : file[j] # "M"
      /\ \E j \in i + 3 + 2 * Rows .. Len(file) : file[j] = "M"
      /\ i + 2 + 2 * (cinfo.inRow + 1) = cursor + 2
  BY <1>1, <1>3, RowBytes
<1>5. /\ cursor' = cursor + 2 /\ bytesInBuffer' = bytesInBuffer - 2
      /\ UNCHANGED <<file, skipBytes, completed, info, pc, failed>>
      /\ ret' = IF cinfo.inRow + 1 = Rows THEN "SCAN" ELSE "ROW"
  BY <1>0 DEF Take, RowRead, Returned
<1> DEFINE reading == IF cinfo.inRow + 1 = Rows THEN "markers" ELSE "rows"
<1>6. /\ cinfo'.unread = "none" /\ cinfo'.inRow = cinfo.inRow + 1 /\ cinfo'.reading = reading
      /\ cinfo'.length = 0
      /\ cinfo'.begun = cinfo.begun /\ cinfo'.state = cinfo.state
      /\ cinfo'.several = cinfo.several /\ cinfo'.eoi = cinfo.eoi
      /\ cinfo'.inScan = cinfo.inScan /\ cinfo'.outScan = cinfo.outScan
      /\ cinfo'.outLine = cinfo.outLine
  <2> DEFINE row == [unread |-> "none", inRow |-> cinfo.inRow + 1, reading |-> reading]
  <2>1. /\ DOMAIN row = {"unread", "inRow", "reading"}
        /\ row["unread"] = "none" /\ row["inRow"] = cinfo.inRow + 1
        /\ row["reading"] = reading
    OBVIOUS
  <2>2. Set(row)
    BY <1>0 DEF RowRead
  <2> HIDE DEF row, reading
  <2>3. \A f \in CinfoFields : cinfo'[f] = IF f \in DOMAIN row THEN row[f] ELSE cinfo[f]
    BY <2>2, SetFields DEF WInv
  <2>4. cinfo.length = 0
    BY <1>1 DEF AtRow
  <2>5. QED
    BY <2>1, <2>3, <2>4 DEF CinfoFields
<1>7. ~Found /\ ~Found'
  BY <1>1, <1>6 DEF Found
<1>8. Stated' /\ Answers'
  BY <1>1, <1>5, <1>6, <1>7, LibraryStage
<1>9. IF cinfo.inRow + 1 < Rows THEN cinfo'.reading = "rows" /\ AtRow'
      ELSE /\ cinfo'.reading = "markers" /\ AtMarker'
           /\ cinfo'.inRow = Rows /\ cursor' = i + 2 + 2 * Rows
  <2>1. CASE cinfo.inRow + 1 < Rows
    <3>1. i \in 2..Len(file) /\ ScanAt(i)' /\ cursor' = i + 2 + 2 * cinfo'.inRow
      BY <1>3, <1>4, <1>5, <1>6 DEF ScanAt
    <3>2. cinfo'.inRow < Rows /\ Len(file') = Len(file)
      BY <1>5, <1>6, <2>1
    <3>3. \E k \in 2..Len(file') : ScanAt(k)' /\ cursor' = k + 2 + 2 * cinfo'.inRow
      BY <3>1, <3>2
    <3>4. cinfo'.unread = "none" /\ cinfo'.length = 0
      BY <1>6
    <3>5. AtRow'
      BY <3>2, <3>3, <3>4 DEF AtRow
    <3>6. cinfo'.reading = "rows"
      BY <1>2, <1>6, <2>1
    <3>7. QED
      BY <2>1, <3>5, <3>6
  <2>2. CASE ~(cinfo.inRow + 1 < Rows)
    <3>1. cinfo.inRow + 1 = Rows
      BY <1>2, <2>2
    <3>2. cursor' = i + 2 + 2 * Rows
      BY <1>4, <1>5, <3>1
    <3>3. cursor' + 1 = i + 3 + 2 * Rows
      BY <1>2, <3>2
    <3>4. \E j \in cursor' + 1 .. Len(file) : file[j] = "M"
      BY <1>4, <3>3
    <3>5. AtMarker'
      BY <1>4, <1>5, <1>6, <3>4 DEF AtMarker
    <3>6. QED
      BY <1>6, <2>2, <3>1, <3>2, <3>5
  <2>3. QED
    BY <2>1, <2>2
<1>10. Placed'
  <2>1. cursor' \in 1..Len(file)
    BY <1>2, <1>4, <1>5
  <2>2. cinfo.several <=> file[1] = "P"
    BY <1>1 DEF WInv, Placed
  <2>3. QED
    BY <1>1, <1>5, <1>6, <1>7, <1>9, <2>1, <2>2 DEF Placed
<1>11. Counted'
  <2>1. file[cursor] # "M"
    <3>1. cursor \in i + 1 .. i + 2 + 2 * Rows
      <4> DEFINE r == 2 * cinfo.inRow
                 s == 2 * Rows
      <4>1. r \in Nat /\ s \in Nat /\ r <= s
        BY <1>2
      <4>2. cursor = i + 2 + r
        BY <1>3
      <4> HIDE DEF r, s
      <4>3. cursor \in i + 1 .. i + 2 + s
        BY <1>2, <4>1, <4>2
      <4>4. QED
        BY <4>3 DEF s
    <3>2. QED
      BY <1>4, <3>1
  <2>2. /\ \A k \in cursor + 1 .. cursor + 2 : file[k - 1] # "M"
        /\ cursor + 2 \in Nat /\ cursor <= cursor + 2
    <3>1. \A k \in cursor + 1 .. cursor + 2 : k - 1 = cursor \/ k - 1 = cursor + 1
      BY <1>2
    <3>2. QED
      BY <1>2, <1>4, <2>1, <3>1
  <2>3. ScansTo(file, cursor + 2) = ScansTo(file, cursor)
    BY <1>2, <2>2, NoScanTo
  <2>4. cinfo.unread = "none"
    BY <1>1 DEF AtRow
  <2>5. QED
    BY <1>1, <1>5, <1>6, <2>3, <2>4 DEF Counted, WInv
<1>12. Given' /\ Stocked'
  <2>1. CASE Progressive("PROCESS") \/ Progressive("FINISH")
    <3>1. /\ cinfo.inScan = cinfo.outScan /\ cinfo.inRow >= cinfo.outLine
          /\ cinfo.reading = "rows" /\ ~Progressive("FINISH")
      BY <1>0, <1>1, <2>1, ConsumingFor DEF InRows
    <3>2. Fresh'
      <4>1. skipBytes = 0 \/ completed
        <5>1. skipBytes \in Nat /\ completed \in BOOLEAN /\ Balance
          BY WholeTypes DEF WInv, IInv
        <5>2. QED
          BY <1>0, <1>2, <5>1 DEF Balance
      <4>2. QED
        BY <1>5, <4>1 DEF Fresh
    <3>3. cinfo'.reading = "rows" \/ BehindRows'
      <4>1. CASE cinfo.inRow + 1 < Rows
        BY <1>9, <4>1
      <4>2. CASE ~(cinfo.inRow + 1 < Rows)
        <5>1. ScanAt(i)' /\ i \in 2..Len(file')
          BY <1>3, <1>5 DEF ScanAt
        <5>2. QED
          BY <1>9, <3>2, <4>2, <5>1 DEF BehindRows
      <4>3. QED
        BY <4>1, <4>2
    <3>4. /\ cinfo'.inScan = cinfo'.outScan /\ cinfo'.inRow >= cinfo'.outLine
          /\ ~Progressive("FINISH")'
      BY <1>2, <1>5, <1>6, <3>1 DEF Progressive
    <3>5. QED
      BY <3>3, <3>4 DEF Given, Stocked
  <2>2. CASE ~(Progressive("PROCESS") \/ Progressive("FINISH"))
    BY <1>5, <2>2 DEF Given, Stocked, Progressive
  <2>3. QED
    BY <2>1, <2>2
<1>13. QED
  BY <1>8, <1>10, <1>11, <1>12 DEF GInv

(* A row of a whole file is never cut short. *)
LEMMA NotCutShort == ASSUME WInv PROVE ~RowCutShort /\ ~RowOfZeros
<1>1. ASSUME InRows PROVE cinfo.unread = "none" /\ ~RowCutShort
  <2>1. AtRow
    BY <1>1, InScanAtRow
  <2>2. PICK i \in 2..Len(file) : ScanAt(i) /\ cursor = i + 2 + 2 * cinfo.inRow
    BY <2>1 DEF AtRow
  <2>3. file[cursor + 1] # "M" /\ file[cursor + 2] # "M" /\ cursor + 2 < Len(file)
    BY <2>1, <2>2, RowBytes
  <2>4. Len(file) \in Nat /\ cursor \in Nat /\ bytesInBuffer \in Nat
    BY WholeTypes DEF WInv
  <2>5. ASSUME NEW k \in 1..Least(2, bytesInBuffer) PROVE Ahead(k) # "M"
    <3>1. k \in 1..bytesInBuffer /\ (k = 1 \/ k = 2)
      BY <2>4 DEF Least
    <3>2. cursor + k <= Len(file)
      BY <2>3, <2>4, <3>1
    <3>3. Ahead(k) = file[cursor + k]
      BY <3>1, <3>2, InFile DEF WInv
    <3>4. QED
      BY <2>3, <3>1, <3>3
  <2>6. QED
    BY <2>1, <2>5 DEF AtRow, RowCutShort
<1>2. QED
  BY <1>1 DEF RowCutShort, RowOfZeros

LEMMA LibraryPlaced == ASSUME WInv, Library PROVE GInv'
<1>1. CASE AfterEnd \/ Suspend
  <2>1. /\ pc \in Calls /\ ret = "none" /\ UNCHANGED <<source, cinfo, info, pc, failed>>
        /\ \/ ret' = "EOI" /\ cinfo.eoi
           \/ ret' = "SUSPENDED" /\ pc # "finish"
    BY <1>1, NotSuspended DEF AfterEnd, Suspend, Returned, Consuming
  <2>2. QED
    BY <2>1, AnsweredPlaced
<1>2. CASE ~(AfterEnd \/ Suspend)
  BY <1>2, FirstMarkerPlaced, DiscardPlaced, NextMarkerPlaced, SegmentPlaced,
     SkipVariablePlaced, StartOfScanPlaced, EndOfImagePlaced, RowPlaced, NotCutShort
     DEF Library
<1>3. QED
  BY <1>1, <1>2

-----------------------------------------------------------------------------
(* JV_DecodeWork over a whole file. *)

LEMMA GetInputFrame ==
  ASSUME WInv, GetInput
  PROVE  file' = file /\ cursor' = cursor /\ (completed => completed') /\ (Fresh => Fresh')
<1>1. file' = file /\ cursor' = cursor /\ (completed => completed')
  BY DEF GetInput, ReadMore, ReadEnd, Pad, Refilled
<1>2. QED
  BY <1>1, GetInputSkips DEF Fresh, WInv

(* The place of the library is where it was as long as these are. *)
LEMMA PlacedAlike ==
  ASSUME WInv, UNCHANGED <<file, cursor>>,
         cinfo'.state = "INHEADER" <=> cinfo.state = "INHEADER",
         cinfo'.begun = cinfo.begun, cinfo'.several = cinfo.several,
         cinfo'.unread = cinfo.unread, cinfo'.length = cinfo.length,
         cinfo'.reading = cinfo.reading, cinfo'.eoi = cinfo.eoi,
         cinfo'.inScan = cinfo.inScan, cinfo'.inRow = cinfo.inRow
  PROVE  Whole(file)' /\ Placed' /\ Counted' /\ (Found' <=> Found)
<1>1. Found' <=> Found
  BY DEF Found
<1>2. AtRow' <=> AtRow
  BY DEF AtRow, ScanAt
<1>3. AtMarker' <=> AtMarker
  BY DEF AtMarker
<1>4. AtLetter' <=> AtLetter
  BY DEF AtLetter
<1>5. AtSegment' <=> AtSegment
  BY DEF AtSegment
<1>6. Placed'
  BY <1>1, <1>2, <1>3, <1>4, <1>5 DEF WInv, Placed
<1>7. Counted'
  BY DEF WInv, Counted
<1>8. QED
  BY <1>1, <1>6, <1>7 DEF WInv

(* JV_DecodeWork moves on. *)
LEMMA WorkPlaced ==
  ASSUME WInv, UNCHANGED <<info, cinfo, file, cursor>>,
         completed => completed', Fresh => Fresh', ret' = "none",
         Progressive("FINISH") =>
           bytesInBuffer' = bytesInBuffer /\ (pc' = "finish" <=> pc = "finish"),
         pc' = "start" => Found, Found => pc' \in {"start", "exit"},
         pc' \in {"eat1", "eat", "eat3"} => completed',
         pc' = "output" => cinfo.eoi \/ ScanBegins,
         pc' = "exit" => failed' = "no memory"
  PROVE  GInv'
<1>1. Placed' /\ Counted' /\ (Found' <=> Found)
  BY PlacedAlike
<1>2. Stated'
  BY DEF WInv, Stated, Progressive
<1>3. Answers'
  BY <1>1 DEF WInv, Answers, Progressive, ScanBegins
<1>4. Given'
  BY DEF WInv, Given, BehindRows, ScanBegins, AtMarker, ScanAt, Progressive
<1>5. Stocked'
  BY DEF WInv, Stocked, Progressive
<1>6. QED
  BY <1>1, <1>2, <1>3, <1>4, <1>5 DEF GInv

LEMMA NotFound ==
  ASSUME WInv, pc # "start", pc # "exit", pc # "header" \/ ret # "SOS"
  PROVE  ~Found
BY DEF WInv, Answers

(* The scan that jpeg_read_header found is there. *)
LEMMA HeaderFound == ASSUME WInv, pc = "header", ret = "SOS" PROVE Found
<1>1. cinfo.state = "INHEADER" /\ cinfo.begun
  BY Flags DEF WInv, DInv, Staged, Stated, NotBegun
<1>2. ~ScanBegins
  BY <1>1 DEF WInv, Placed, ScanBegins
<1>3. QED
  BY <1>2 DEF WInv, Answers

LEMMA MovesPlaced ==
  ASSUME WInv,
         \/ Header \/ HeaderSuspended \/ HeaderRead \/ NoSprite \/ ScanLine \/ LinesEnd
         \/ LineSuspended \/ LineInput \/ Eaten \/ EatMore \/ EatEnd \/ AllEaten
         \/ SkipScan \/ SkipMore \/ FinishMore \/ CloseMore \/ CloseSuspended
  PROVE  GInv'
<1>0. Staged /\ Answers
  BY DEF WInv, DInv
<1>1. CASE Header
  <2>1. GetInput /\ UNCHANGED <<info, cinfo, failed>> /\ ret' = "none" /\ pc' = "header"
        /\ info.status = "HEADER" /\ pc = "idle"
    BY <1>1 DEF Header, Is, At
  <2>2. ~Found
    BY <2>1, NotFound
  <2>3. QED
    BY <2>1, <2>2, GetInputFrame, WorkPlaced DEF Progressive
<1>2. CASE HeaderSuspended \/ HeaderRead
  <2>1. /\ UNCHANGED <<source, info, cinfo, failed>> /\ ret' = "none" /\ pc = "header"
        /\ info.status = "HEADER"
        /\ \/ pc' = "idle" /\ ret = "SUSPENDED"
           \/ pc' = "start" /\ ret = "SOS"
    BY <1>0, <1>2 DEF HeaderSuspended, HeaderRead, At, Staged
  <2>2. pc' = "start" <=> Found
    BY <2>1, NotFound, HeaderFound
  <2>3. UNCHANGED <<file, cursor, completed, skipBytes, bytesInBuffer>>
    BY <2>1 DEF source
  <2>4. QED
    BY <2>1, <2>2, <2>3, WorkPlaced DEF Progressive, Fresh
<1>3. CASE NoSprite
  <2>1. GetInput /\ UNCHANGED <<info, cinfo>> /\ ret' = "none" /\ pc' = "exit"
        /\ failed' = "no memory" /\ info.status = "HEADER"
    BY <1>0, <1>3 DEF NoSprite, Fail, Staged
  <2>2. QED
    BY <2>1, GetInputFrame, WorkPlaced DEF Progressive
<1>4. CASE ScanLine \/ LinesEnd \/ LineSuspended \/ LineInput
  <2>1. /\ UNCHANGED <<source, info, cinfo, failed>> /\ ret' = "none" /\ pc \in {"lines", "line"}
        /\ pc' \in {"line", "idle"}
    BY <1>4 DEF ScanLine, LinesEnd, LineSuspended, LineInput, At
  <2>2. ~Found
    BY <2>1, NotFound
  <2>3. UNCHANGED <<file, cursor, completed, skipBytes, bytesInBuffer>>
    BY <2>1 DEF source
  <2>4. QED
    BY <2>1, <2>2, <2>3, WorkPlaced DEF Fresh
<1>5. CASE Eaten \/ EatEnd \/ AllEaten
  <2>1. /\ UNCHANGED <<source, info, cinfo, failed>> /\ ret' = "none"
        /\ pc \in {"eat1", "eat", "eat3"} /\ pc' \in {"eat", "eat3", "idle", "output"}
        /\ pc' = "output" => ret = "EOI"
    BY <1>5 DEF Eaten, EatEnd, AllEaten, At
  <2>2. ~Found /\ completed /\ (pc' = "output" => cinfo.eoi)
    BY <1>0, <2>1, NotFound DEF Answers
  <2>3. UNCHANGED <<file, cursor, completed, skipBytes, bytesInBuffer>>
    BY <2>1 DEF source
  <2>4. ~Progressive("FINISH")
    BY <1>0, <2>1 DEF Staged, Progressive
  <2>5. QED
    BY <2>1, <2>2, <2>3, <2>4, WorkPlaced DEF Fresh
<1>6. CASE EatMore \/ SkipMore
  <2>1. /\ GetInput /\ UNCHANGED <<info, cinfo, failed>> /\ ret' = "none"
        /\ pc \in {"eat", "skip"} /\ pc' = pc
    BY <1>6 DEF EatMore, SkipMore, At
  <2>2. ~Found /\ (pc = "eat" => completed)
    BY <1>0, <2>1, NotFound DEF Answers
  <2>3. ~Progressive("FINISH")
    BY <1>0, <2>1 DEF Staged, Progressive
  <2>4. QED
    BY <2>1, <2>2, <2>3, GetInputFrame, WorkPlaced
<1>7. CASE SkipScan
  <2>1. /\ UNCHANGED <<source, info, cinfo, failed>> /\ ret' = "none" /\ pc = "idle"
        /\ pc' = "skip" /\ Progressive("SKIP")
    BY <1>7 DEF SkipScan, Is2, Is, At, Progressive
  <2>2. ~Found
    BY <2>1, NotFound
  <2>3. UNCHANGED <<file, cursor, completed, skipBytes, bytesInBuffer>>
    BY <2>1 DEF source
  <2>4. QED
    BY <2>1, <2>2, <2>3, WorkPlaced DEF Fresh, Progressive
<1>8. CASE FinishMore \/ CloseMore \/ CloseSuspended
  <2>1. /\ UNCHANGED <<source, info, cinfo, failed>> /\ ret' = "none"
        /\ \/ pc = "finish" /\ pc' = "finish"
           \/ pc = "close" /\ pc' \in {"close", "idle"}
    BY <1>8 DEF FinishMore, CloseMore, CloseSuspended, At
  <2>2. ~Found
    BY <2>1, NotFound
  <2>3. UNCHANGED <<file, cursor, completed, skipBytes, bytesInBuffer>>
    BY <2>1 DEF source
  <2>4. pc = "close" => ~Progressive("FINISH")
    BY <1>0 DEF Staged, Progressive
  <2>5. QED
    BY <2>1, <2>2, <2>3, <2>4, WorkPlaced DEF Fresh
<1>9. QED
  BY <1>1, <1>2, <1>3, <1>4, <1>5, <1>6, <1>7, <1>8

(* Filling leaves room for no more bytes, or the file has none. *)
LEMMA GetInputFills ==
  ASSUME WInv, GetInput, Fresh
  PROVE  /\ bytesInBuffer' \in Nat
         /\ cursor + bytesInBuffer' >= Len(file) \/ bytesInBuffer' >= MaxSize - 1
<1>0. /\ pos \in Nat /\ Len(file) \in Nat /\ cursor \in Nat /\ bytesInBuffer \in Nat
      /\ skipBytes \in Nat /\ completed \in BOOLEAN /\ MaxSize \in Nat
      /\ Balance /\ SourceTypeOK /\ IInv
  BY WholeTypes DEF WInv, IInv
<1>1. IInv' /\ file' = file /\ cursor' = cursor /\ Fresh'
  BY <1>0, StepKeepsIInv, GetInputFrame DEF SourceNext
<1>2. Balance' /\ bytesInBuffer' \in Nat /\ skipBytes' \in Nat /\ completed' \in BOOLEAN
  BY <1>1 DEF IInv, SourceTypeOK
<1>3. CASE completed'
  BY <1>0, <1>1, <1>2, <1>3 DEF Balance
<1>4. CASE ~completed'
  <2>1. cursor + bytesInBuffer' = pos' /\ pos' \in Nat
    <3>1. skipBytes' = 0
      BY <1>1, <1>4 DEF Fresh
    <3>2. cursor' + bytesInBuffer' = pos' + skipBytes'
      BY <1>2, <1>4 DEF Balance
    <3>3. pos' \in 0..Len(file)
      BY <1>1 DEF IInv, SourceTypeOK
    <3>4. pos' \in Nat
      BY <1>0, <3>3
    <3>5. cursor + bytesInBuffer' = pos' + 0
      BY <1>1, <3>1, <3>2
    <3>6. QED
      BY <3>4, <3>5
  <2>2. ~completed
    BY <1>0, <1>4, GetInputFrame
  <2>3. cursor + bytesInBuffer = pos
    BY <1>0, <2>2 DEF Balance, Fresh
  <2>4. Free = MaxSize - bytesInBuffer - 1 /\ Free \in Int
    BY <1>0, KeptIsAhead DEF Free
  <2>5. CASE ReadMore
    <3>1. pos' = pos + Least(Free, Len(file) - pos)
      BY <2>5 DEF ReadMore
    <3>2. CASE Free < Len(file) - pos
      <4>1. pos' = pos + Free
        BY <3>1, <3>2 DEF Least
      <4>2. pos' = pos + (MaxSize - bytesInBuffer - 1)
        BY <2>4, <4>1
      <4>3. bytesInBuffer' = MaxSize - 1
        <5>1. PICK now \in Nat : now = bytesInBuffer'
          BY <1>2
        <5>2. cursor + now = (cursor + bytesInBuffer) + (MaxSize - bytesInBuffer - 1)
          BY <2>1, <2>3, <4>2, <5>1
        <5>3. now = MaxSize - 1
          BY <1>0, <5>2
        <5>4. QED
          BY <5>1, <5>3
      <4>4. QED
        BY <1>2, <4>3
    <3>3. CASE ~(Free < Len(file) - pos)
      BY <1>0, <1>2, <2>1, <2>3, <2>4, <3>1, <3>3 DEF Least
    <3>4. QED
      BY <3>2, <3>3
  <2>6. CASE Pad
    <3>1. ~(Free > 0) /\ pos' = pos
      BY <2>2, <2>6 DEF Pad
    <3>2. ~(MaxSize - bytesInBuffer - 1 > 0)
      BY <2>4, <3>1
    <3>3. bytesInBuffer' = bytesInBuffer
      <4>1. PICK now \in Nat : now = bytesInBuffer'
        BY <1>2
      <4>2. cursor + now = cursor + bytesInBuffer
        BY <2>1, <2>3, <3>1, <4>1
      <4>3. now = bytesInBuffer
        BY <1>0, <4>2
      <4>4. QED
        BY <4>1, <4>3
    <3>4. QED
      BY <1>0, <1>2, <3>2, <3>3
  <2>7. CASE ReadEnd
    BY <1>4, <2>7 DEF ReadEnd
  <2>8. QED
    BY <2>5, <2>6, <2>7 DEF GetInput
<1>5. QED
  BY <1>2, <1>3, <1>4

LEMMA CreatePlaced == ASSUME WInv, Create PROVE GInv'
<1>1. /\ info.status = "CREATE" /\ pc = "idle" /\ OpenSource(file)
      /\ UNCHANGED <<cinfo, pc, ret, failed>>
  BY DEF Create, Is
<1>2. InfoFieldOK("status", "HEADER")
  BY DEF InfoFieldOK
<1>3. info'.status = "HEADER"
  BY <1>2, StatusSet DEF Create, WInv
<1>4. ~cinfo.begun /\ cursor = 0
  BY <1>1, Flags DEF WInv, Stated, Placed
<1>5. file' = file /\ cursor' = cursor
  BY <1>1, <1>4 DEF OpenSource
<1>6. Placed' /\ Counted' /\ (Found' <=> Found)
  BY <1>1, <1>5, PlacedAlike
<1>7. Stated'
  BY <1>1, <1>3 DEF WInv, Stated, Progressive
<1>8. Answers'
  BY <1>1, <1>3, <1>6 DEF WInv, Answers, Progressive, ScanBegins
<1>9. Given' /\ Stocked'
  BY <1>3 DEF Given, Stocked, Progressive
<1>10. QED
  BY <1>6, <1>7, <1>8, <1>9 DEF GInv

LEMMA StartPlaced == ASSUME WInv, Start PROVE GInv'
<1> DEFINE state == IF cinfo.several THEN "BUFIMAGE" ELSE "SCANNING"
           start == [reading |-> "rows", inRow |-> 0, state |-> state]
<1>0. /\ pc = "start" /\ GetInput /\ pc' = "idle" /\ ret' = "none" /\ UNCHANGED failed
      /\ cinfo.several \in BOOLEAN /\ cinfo.begun /\ Found
  BY Flags DEF Start, At, WInv, DInv, NotBegun, Answers
<1>1. file' = file /\ cursor' = cursor
  BY <1>0, GetInputFrame
<1>2. \A f \in CinfoFields : cinfo'[f] = IF f \in DOMAIN start THEN start[f] ELSE cinfo[f]
  <2>1. Set(start)
    BY DEF Start
  <2> HIDE DEF start
  <2>2. QED
    BY <2>1, SetFields DEF WInv
<1>3. /\ cinfo'.reading = "rows" /\ cinfo'.inRow = 0 /\ cinfo'.state = state
      /\ cinfo'.begun = cinfo.begun /\ cinfo'.several = cinfo.several
      /\ cinfo'.unread = cinfo.unread /\ cinfo'.length = cinfo.length
      /\ cinfo'.eoi = cinfo.eoi /\ cinfo'.inScan = cinfo.inScan
  BY <1>2 DEF CinfoFields
<1>4. IF cinfo.several THEN info'.status = "PROGRESSIVE" /\ info'.progressive = "START"
      ELSE info'.status = "STANDARD"
  <2>1. DOMAIN info = InfoFields
    BY DEF WInv, DInv, InfoTyped
  <2>2. QED
    BY <1>0, <2>1 DEF Start, Status, Updated, InfoFields
<1>5. AtRow /\ cinfo.inRow = 0 /\ ~cinfo.eoi /\ cinfo.inScan > 0
  BY <1>0 DEF WInv, Placed, Found
<1>6. AtRow'
  BY <1>1, <1>3, <1>5 DEF AtRow, ScanAt
<1>7. cinfo'.state \in {"BUFIMAGE", "SCANNING"} /\ cinfo'.state # "INHEADER" /\ ~Found'
  BY <1>3 DEF Found
<1>8. Placed'
  BY <1>0, <1>1, <1>3, <1>5, <1>6, <1>7 DEF WInv, Placed
<1>9. Counted'
  BY <1>1, <1>3 DEF WInv, Counted
<1>10. Stated'
  BY <1>0, <1>3, <1>4 DEF Stated, Progressive
<1>11. ScanBegins'
  BY <1>3 DEF ScanBegins
<1>12. Answers'
  BY <1>0, <1>7, <1>11 DEF Answers, Calls
<1>13. Given' /\ Stocked'
  BY <1>0, <1>4 DEF Given, Stocked, Progressive
<1>14. QED
  BY <1>1, <1>8, <1>9, <1>10, <1>12, <1>13 DEF GInv

LEMMA DecodeLinesPlaced == ASSUME WInv, DecodeLines PROVE GInv'
<1>0. /\ GetInput /\ UNCHANGED <<cinfo, failed>> /\ pc = "idle" /\ ret' = "none"
      /\ info.status = "STANDARD" \/ Progressive("PROCESS")
      /\ pc' \in {"idle", "lines"}
  BY DEF DecodeLines, Is, Is2, At, Progressive
<1>1. /\ ~Found /\ file' = file /\ cursor' = cursor
      /\ (completed => completed') /\ (Fresh => Fresh')
  BY <1>0, GetInputFrame, NotFound
<1>2. CASE UNCHANGED info
  BY <1>0, <1>1, <1>2, WorkPlaced DEF Progressive
<1>3. CASE ~UNCHANGED info
  <2>1. /\ ~(cinfo.outLine < Rows) /\ pc' = "idle"
        /\ Status(IF info.status = "PROGRESSIVE" THEN [progressive |-> "FINISH"]
                  ELSE [status |-> "FINISHED"])
    BY <1>3 DEF DecodeLines, At
  <2>2. Placed' /\ Counted' /\ (Found' <=> Found)
    BY <1>0, <1>1, PlacedAlike
  <2>3. ASSUME info.status = "PROGRESSIVE"
        PROVE  info'.status = info.status /\ info'.progressive = "FINISH"
    BY <2>1, <2>3, ProgressiveSet DEF InfoFieldOK, WInv
  <2>4. ASSUME info.status # "PROGRESSIVE"
        PROVE  info'.status = "FINISHED"
    BY <2>1, <2>4, StatusSet DEF InfoFieldOK, WInv
  <2>5. Stated'
    BY <1>0, <2>1, <2>3, <2>4 DEF WInv, Stated, Progressive
  <2>6. Answers'
    BY <1>0, <1>1, <2>1, <2>2, <2>3, <2>4 DEF Answers, Progressive
  <2>7. CASE info.status # "PROGRESSIVE"
    BY <2>2, <2>4, <2>5, <2>6, <2>7 DEF GInv, Given, Stocked, Progressive
  <2>8. CASE info.status = "PROGRESSIVE"
    <3>1. /\ Progressive("PROCESS") /\ Progressive("FINISH")' /\ ~Progressive("PROCESS")'
          /\ cinfo.several
      BY <1>0, <2>3, <2>8 DEF Progressive, WInv, Stated
    <3>2. /\ Rows \in Nat /\ cinfo.outLine \in Nat /\ cinfo.inRow \in Nat
          /\ cinfo.outLine <= Rows /\ cinfo.inScan \in Nat /\ cinfo.outScan \in Nat
          /\ cursor \in Nat /\ Len(file) \in Nat /\ MaxSize \in Nat /\ MaxSize >= 4
          /\ cinfo.eoi \in BOOLEAN
      BY WholeTypes, Flags DEF WInv
    <3>3. \/ cinfo.eoi
          \/ cinfo.inScan = cinfo.outScan + 1 /\ ScanBegins
          \/ cinfo.inScan = cinfo.outScan /\ cinfo.inRow >= cinfo.outLine /\ BehindRows
      <4>1. ~(cinfo.outLine < Rows) /\ ~(cinfo.reading = "rows" /\ cinfo.inRow >= cinfo.outLine)
        BY <2>1, <3>2 DEF WInv, DInv, Within
      <4>2. ~Progressive("FINISH")
        BY <3>1 DEF Progressive
      <4>3. QED
        BY <3>1, <4>1, <4>2 DEF WInv, Given
    <3>4. Given'
      BY <1>0, <3>1, <3>3 DEF Given, ScanBegins
    <3>5. Stocked'
      <4>1. SUFFICES ASSUME ~cinfo.eoi, cinfo.inScan = cinfo.outScan
                     PROVE  \E j \in 2..Len(file) :
                              /\ MarkerIn(file, j) /\ file[j + 1] \in {"B", "E"}
                              /\ cursor < j /\ cursor <= j + 1
                              /\ cursor + bytesInBuffer' >= Least(j + 2, Len(file))
        BY <1>0, <1>1 DEF Stocked
      <4>2. BehindRows
        BY <3>2, <3>3, <4>1
      <4>3. PICK i \in 2..Len(file) : ScanAt(i) /\ cursor = i + 2 + 2 * Rows
        BY <4>2 DEF BehindRows
      <4>4. Fits(file)
        <5>1. cinfo.begun
          BY <3>1, BegunIs DEF WInv, Progressive
        <5>2. file[1] = "P"
          BY <3>1, <5>1 DEF WInv, Placed
        <5>3. QED
          BY <5>2 DEF WInv, Whole
      <4>5. PICK end : end = i + 3 + 2 * Rows
        OBVIOUS
      <4>6. end \in Nat /\ cursor = end - 1
        BY <3>2, <4>3, <4>5
      <4>7. PICK j \in end .. end + MaxSize - 4 : MarkerIn(file, j) /\ file[j + 1] \in {"B", "E"}
        BY <4>3, <4>4, <4>5 DEF Fits, ScanAt
      <4>8. j \in Nat /\ cursor < j /\ cursor <= j + 1 /\ j <= end + MaxSize - 4
        BY <3>2, <4>6, <4>7
      <4>9. j \in 2..Len(file)
        BY <3>2, <4>7, <4>8 DEF MarkerIn
      <4>10. Fresh
        BY <4>2 DEF BehindRows
      <4>11. /\ bytesInBuffer' \in Nat
             /\ cursor + bytesInBuffer' >= Len(file) \/ bytesInBuffer' >= MaxSize - 1
        BY <1>0, <4>10, GetInputFills
      <4>12. cursor + bytesInBuffer' >= Least(j + 2, Len(file))
        BY <3>2, <4>6, <4>8, <4>11 DEF Least
      <4>13. QED
        BY <4>7, <4>8, <4>9, <4>12
    <3>6. QED
      BY <2>2, <2>5, <2>6, <3>4, <3>5 DEF GInv
  <2>9. QED
    BY <2>7, <2>8
<1>4. QED
  BY <1>2, <1>3

(* A line is given out. *)
LEMMA LinePlaced == ASSUME WInv, Line PROVE GInv'
<1>0. /\ UNCHANGED <<source, info, failed>> /\ ret' = "none" /\ pc = "line" /\ pc' = "lines"
      /\ info.status = "STANDARD" \/ Progressive("PROCESS")
      /\ Set([outLine |-> cinfo.outLine + 1])
  BY DEF Line, At, WInv, DInv, Staged
<1>1. UNCHANGED <<file, cursor, completed, skipBytes, bytesInBuffer>>
  BY <1>0 DEF source
<1>2. \A f \in CinfoFields : cinfo'[f] = IF f = "outLine" THEN cinfo.outLine + 1 ELSE cinfo[f]
  <2> DEFINE line == [outLine |-> cinfo.outLine + 1]
  <2>1. DOMAIN line = {"outLine"} /\ line["outLine"] = cinfo.outLine + 1
    OBVIOUS
  <2>2. Set(line)
    BY <1>0
  <2> HIDE DEF line
  <2>3. \A f \in CinfoFields : cinfo'[f] = IF f \in DOMAIN line THEN line[f] ELSE cinfo[f]
    BY <2>2, SetFields DEF WInv
  <2>4. QED
    BY <2>1, <2>3
<1>3. /\ cinfo'.outLine = cinfo.outLine + 1 /\ cinfo'.state = cinfo.state
      /\ cinfo'.begun = cinfo.begun /\ cinfo'.several = cinfo.several
      /\ cinfo'.unread = cinfo.unread /\ cinfo'.length = cinfo.length
      /\ cinfo'.reading = cinfo.reading /\ cinfo'.eoi = cinfo.eoi
      /\ cinfo'.inScan = cinfo.inScan /\ cinfo'.inRow = cinfo.inRow
      /\ cinfo'.outScan = cinfo.outScan
      /\ cinfo'.smooth = cinfo.smooth /\ cinfo'.dc = cinfo.dc
  BY <1>2 DEF CinfoFields
<1>4. Placed' /\ Counted' /\ (Found' <=> Found)
  BY <1>1, <1>3, PlacedAlike
<1>5. ~Found'
  BY <1>0, <1>4, NotFound
<1>6. Stated'
  BY <1>0, <1>3 DEF WInv, Stated, Progressive
<1>7. Answers'
  BY <1>0, <1>5 DEF Answers, Progressive
<1>8. Given'
  <2>1. SUFFICES ASSUME Progressive("PROCESS") PROVE Given'
    BY <1>0 DEF Given, Progressive
  <2>2. cinfo.several /\ ~Behind /\ ~Progressive("FINISH")
    BY <2>1 DEF WInv, Stated, Line, Progressive
  <2>3. /\ cinfo.inScan \in Nat /\ cinfo.outScan \in Nat /\ cinfo.inRow \in Nat
        /\ cinfo.outLine \in Nat /\ cinfo.outLine < Rows /\ Rows \in Nat
        /\ cinfo.smooth \in BOOLEAN /\ cinfo.dc \in BOOLEAN
    BY <1>0, WholeTypes, Flags DEF WInv, DInv, Within
  <2>4. CASE cinfo.eoi
    BY <1>3, <2>4 DEF Given
  <2>5. CASE ~cinfo.eoi /\ cinfo.inScan = cinfo.outScan + 1 /\ ScanBegins
    BY <1>3, <2>5 DEF Given, ScanBegins
  <2>6. CASE ~cinfo.eoi /\ ~(cinfo.inScan = cinfo.outScan + 1 /\ ScanBegins)
    <3>1. /\ cinfo.inScan = cinfo.outScan /\ cinfo.inRow >= cinfo.outLine
          /\ \/ cinfo.reading = "rows"
             \/ BehindRows
             \/ cinfo.smooth /\ cinfo.dc /\ cinfo.outLine < Rows
      BY <2>1, <2>2, <2>6 DEF WInv, Given
    <3>2. cinfo.inRow > cinfo.outLine
      BY <2>2, <2>3, <2>6, <3>1 DEF Behind
    <3>3. cinfo'.inRow >= cinfo'.outLine
      BY <1>3, <2>3, <3>2
    <3>4. \/ cinfo.reading = "rows"
          \/ BehindRows
          \/ cinfo.smooth /\ cinfo.dc /\ cinfo.outLine + 1 < Rows
      <4>1. cinfo.smooth /\ cinfo.dc => cinfo.inRow > cinfo.outLine + 1
        BY <2>2, <2>3, <2>6, <3>1 DEF Behind
      <4>2. cinfo.inRow <= Rows
        BY WholeTypes DEF WInv
      <4>3. cinfo.smooth /\ cinfo.dc => cinfo.outLine + 1 < Rows
        BY <2>3, <4>1, <4>2
      <4>4. QED
        BY <3>1, <4>3
    <3>5. BehindRows => BehindRows'
      BY <1>1, <1>3 DEF BehindRows, AtMarker, Fresh, ScanAt
    <3>6. QED
      BY <1>3, <3>1, <3>3, <3>4, <3>5 DEF Given
  <2>7. QED
    BY <2>4, <2>5, <2>6
<1>9. Stocked'
  BY <1>0 DEF Stocked, Progressive
<1>10. QED
  BY <1>4, <1>6, <1>7, <1>8, <1>9 DEF GInv

(* Moves that may change the state of the library's object but leave its
   place, with no row or line of a scan given out or asked for. *)
LEMMA StartScanPlaced == ASSUME WInv, StartScan PROVE GInv'
<1>0. /\ Progressive("START") /\ pc = "idle" /\ ret' = "none"
      /\ GetInput /\ UNCHANGED <<cinfo, failed>>
  BY DEF StartScan, Is2, Is, At, Progressive
<1>1. /\ ~Found /\ file' = file /\ cursor' = cursor
      /\ (completed => completed') /\ (Fresh => Fresh')
  BY <1>0, GetInputFrame, NotFound
<1>2. CASE /\ UNCHANGED info
           /\ \/ At("eat1") /\ completed'
              \/ At("output") /\ ~completed'
  <2>1. /\ ~Progressive("FINISH")
        /\ \/ pc' = "eat1" /\ completed'
           \/ pc' = "output" /\ ~completed'
    BY <1>0, <1>2 DEF At, Progressive
  <2>2. pc' = "output" => cinfo.eoi \/ ScanBegins
    BY <1>0, <1>1, <2>1 DEF WInv, Answers
  <2>3. QED
    BY <1>0, <1>1, <1>2, <2>1, <2>2, WorkPlaced
<1>3. CASE Status([progressive |-> "SKIP"]) /\ At("idle")
  <2>1. Status([progressive |-> "SKIP"]) /\ pc' = "idle"
    BY <1>3 DEF At
  <2>2. info'.progressive = "SKIP" /\ info'.status = "PROGRESSIVE"
    BY <1>0, <2>1, ProgressiveSet DEF InfoFieldOK, WInv, Progressive
  <2>3. Placed' /\ Counted' /\ (Found' <=> Found)
    BY <1>0, <1>1, PlacedAlike
  <2>4. Stated'
    BY <1>0, <2>2 DEF WInv, Stated, Progressive
  <2>5. Answers'
    BY <1>0, <1>1, <2>1, <2>2, <2>3 DEF Answers, Progressive
  <2>6. QED
    BY <2>2, <2>3, <2>4, <2>5 DEF GInv, Given, Stocked, Progressive
<1>4. QED
  BY <1>2, <1>3 DEF StartScan

LEMMA SkipEndPlaced == ASSUME WInv, SkipEnd PROVE GInv'
<1>0. Progressive("SKIP") /\ pc = "skip" /\ UNCHANGED <<source, cinfo, failed>> /\ ret' = "none"
      /\ pc' = "idle"
  BY DEF SkipEnd, At, WInv, DInv, Staged
<1>1. UNCHANGED <<file, cursor, completed, skipBytes, bytesInBuffer>>
  BY <1>0 DEF source
<1>2. ~Found
  BY <1>0, NotFound
<1>3. Placed' /\ Counted' /\ (Found' <=> Found)
  BY <1>0, <1>1, PlacedAlike
<1>4. CASE UNCHANGED info
  BY <1>0, <1>1, <1>2, <1>4, WorkPlaced DEF Progressive, Fresh
<1>5. CASE ~UNCHANGED info
  <2>1. Status([progressive |-> "START"]) /\ ret \in {"SOS", "EOI"}
    BY <1>5 DEF SkipEnd
  <2>2. info'.progressive = "START" /\ info'.status = "PROGRESSIVE"
    BY <1>0, <2>1, ProgressiveSet DEF InfoFieldOK, WInv, Progressive
  <2>3. cinfo.eoi \/ ScanBegins
    BY <1>2, <2>1 DEF WInv, Answers
  <2>4. Stated'
    BY <1>0, <2>2 DEF WInv, Stated, Progressive
  <2>5. Answers'
    BY <1>0, <1>2, <1>3, <2>2, <2>3 DEF Answers, ScanBegins
  <2>6. QED
    BY <1>3, <2>2, <2>4, <2>5 DEF GInv, Given, Stocked, Progressive
<1>6. QED
  BY <1>4, <1>5

(* A scan begins to be shown where it begins to be read. *)
LEMMA OutputPlaced == ASSUME WInv, Output PROVE GInv'
<1>0. /\ Progressive("START") /\ pc = "output" /\ cinfo.state = "BUFIMAGE" /\ cinfo.several
      /\ UNCHANGED source
  BY DEF Output, WInv, DInv, Staged, Stated, Progressive
<1>1. /\ Status([final |-> info.final \/ cinfo.eoi, progressive |-> "PROCESS"])
      /\ pc' = "idle" /\ ret' = "none" /\ failed' = failed
  BY <1>0 DEF Output, At
<1>2. UNCHANGED <<file, cursor, completed, skipBytes, bytesInBuffer>>
  BY <1>0 DEF source
<1>3. PICK smooth \in BOOLEAN :
        Set([outScan |-> cinfo.inScan, outLine |-> 0, smooth |-> smooth, state |-> "SCANNING"])
  BY <1>0 DEF Output
<1>4. /\ cinfo'.outScan = cinfo.inScan /\ cinfo'.outLine = 0 /\ cinfo'.state = "SCANNING"
      /\ cinfo'.begun = cinfo.begun /\ cinfo'.several = cinfo.several
      /\ cinfo'.unread = cinfo.unread /\ cinfo'.length = cinfo.length
      /\ cinfo'.reading = cinfo.reading /\ cinfo'.eoi = cinfo.eoi
      /\ cinfo'.inScan = cinfo.inScan /\ cinfo'.inRow = cinfo.inRow
  <2> DEFINE scan == [outScan |-> cinfo.inScan, outLine |-> 0, smooth |-> smooth,
                      state |-> "SCANNING"]
  <2>1. /\ DOMAIN scan = {"outScan", "outLine", "smooth", "state"}
        /\ scan["outScan"] = cinfo.inScan /\ scan["outLine"] = 0 /\ scan["state"] = "SCANNING"
    OBVIOUS
  <2>2. Set(scan)
    BY <1>3
  <2> HIDE DEF scan
  <2>3. \A f \in CinfoFields : cinfo'[f] = IF f \in DOMAIN scan THEN scan[f] ELSE cinfo[f]
    BY <2>2, SetFields DEF WInv
  <2>4. QED
    BY <2>1, <2>3 DEF CinfoFields
<1>5. info'.status = "PROGRESSIVE" /\ info'.progressive = "PROCESS"
  <2>1. DOMAIN info = InfoFields
    BY DEF WInv, DInv, InfoTyped
  <2>2. info'.status = info.status /\ info'.progressive = "PROCESS"
    BY <1>1, <2>1 DEF Status, Updated, InfoFields
  <2>3. QED
    BY <1>0, <2>2 DEF Progressive
<1>6. ~Found
  BY <1>0, NotFound
<1>7. Placed' /\ Counted' /\ (Found' <=> Found)
  BY <1>0, <1>2, <1>4, PlacedAlike
<1>8. Stated'
  BY <1>0, <1>4, <1>5 DEF Stated, Progressive
<1>9. Answers'
  BY <1>1, <1>5, <1>6, <1>7 DEF Answers, Progressive
<1>10. Given'
  <2>1. cinfo.eoi \/ ScanBegins
    BY <1>0 DEF WInv, Answers
  <2>2. cinfo.inRow \in Nat
    BY WholeTypes DEF WInv
  <2>3. QED
    BY <1>4, <1>5, <2>1, <2>2 DEF Given, ScanBegins, Progressive
<1>11. Stocked'
  BY <1>5 DEF Stocked, Progressive
<1>12. QED
  BY <1>7, <1>8, <1>9, <1>10, <1>11 DEF GInv

(* From here on JV_DecodeWork only closes scans and the picture. *)
LEMMA FinishScanPlaced == ASSUME WInv, FinishScan PROVE GInv'
<1>0. /\ Progressive("FINISH") /\ UNCHANGED <<source, info, failed>> /\ ret' = "none"
      /\ pc = "idle" /\ pc' = "finish"
  BY DEF FinishScan, Is, Is2, Progressive, At
<1>1. Set([state |-> "BUFPOST"]) /\ CinfoFieldOK("state", "BUFPOST")
  BY DEF FinishScan, CinfoFieldOK
<1>2. UNCHANGED <<file, cursor, completed, skipBytes, bytesInBuffer>>
  BY <1>0 DEF source
<1>3. CinfoTyped' /\ \A f \in CinfoFields \ {"state"} : cinfo'[f] = cinfo[f]
  BY <1>1, StateSet DEF WInv
<1>4. /\ cinfo'.state = "BUFPOST"
      /\ cinfo'.begun = cinfo.begun /\ cinfo'.several = cinfo.several
      /\ cinfo'.unread = cinfo.unread /\ cinfo'.length = cinfo.length
      /\ cinfo'.reading = cinfo.reading /\ cinfo'.eoi = cinfo.eoi
      /\ cinfo'.inScan = cinfo.inScan /\ cinfo'.inRow = cinfo.inRow
      /\ cinfo'.outScan = cinfo.outScan /\ cinfo'.outLine = cinfo.outLine
      /\ cinfo'.smooth = cinfo.smooth /\ cinfo'.dc = cinfo.dc
  <2>1. "state" \in DOMAIN cinfo
    BY DEF WInv, DInv, CinfoTyped, CinfoFields
  <2>2. cinfo'.state = "BUFPOST"
    BY <1>1, <2>1 DEF Set, Updated
  <2>3. QED
    BY <1>3, <2>2 DEF CinfoFields
<1>5. cinfo.state # "INHEADER"
  BY <1>0 DEF WInv, Stated, Progressive
<1>6. Placed' /\ Counted' /\ (Found' <=> Found)
  BY <1>2, <1>4, <1>5, PlacedAlike
<1>7. ~Found'
  BY <1>5, <1>6 DEF Found
<1>8. Stated'
  BY <1>0, <1>4 DEF WInv, Stated, Progressive
<1>9. Answers'
  BY <1>0, <1>7 DEF Answers, Progressive
<1>10. Given' /\ Stocked'
  <2>1. BehindRows => BehindRows'
    BY <1>2, <1>4 DEF BehindRows, AtMarker, Fresh, ScanAt
  <2>2. Given'
    BY <1>0, <1>4, <2>1 DEF WInv, Given, ScanBegins, Progressive
  <2>3. Stocked'
    BY <1>0, <1>2, <1>4 DEF WInv, Stocked, Progressive
  <2>4. QED
    BY <2>2, <2>3
<1>11. QED
  BY <1>6, <1>8, <1>9, <1>10 DEF GInv

(* jpeg_finish_output never suspends, and leaves the library at the next scan or
   the end of the image. *)
LEMMA ScanFinishedPlaced == ASSUME WInv, ScanFinished PROVE GInv'
<1>0. /\ Progressive("FINISH") /\ pc = "finish" /\ UNCHANGED <<source, failed>>
      /\ ret = "none" /\ ret' = "none" /\ pc' = "idle" /\ ~Consuming
      /\ Set([state |-> "BUFIMAGE"])
  BY DEF ScanFinished, At, WInv, DInv, Staged, Answers
<1>1. UNCHANGED <<file, cursor, completed, skipBytes, bytesInBuffer>>
  BY <1>0 DEF source
<1>2. CinfoTyped' /\ \A f \in CinfoFields \ {"state"} : cinfo'[f] = cinfo[f]
  <2>1. CinfoFieldOK("state", "BUFIMAGE")
    BY DEF CinfoFieldOK
  <2>2. QED
    BY <1>0, <2>1, StateSet DEF WInv
<1>3. /\ cinfo'.state = "BUFIMAGE"
      /\ cinfo'.begun = cinfo.begun /\ cinfo'.several = cinfo.several
      /\ cinfo'.unread = cinfo.unread /\ cinfo'.length = cinfo.length
      /\ cinfo'.reading = cinfo.reading /\ cinfo'.eoi = cinfo.eoi
      /\ cinfo'.inScan = cinfo.inScan /\ cinfo'.inRow = cinfo.inRow
  <2>1. "state" \in DOMAIN cinfo
    BY DEF WInv, DInv, CinfoTyped, CinfoFields
  <2>2. cinfo'.state = "BUFIMAGE"
    BY <1>0, <2>1 DEF Set, Updated
  <2>3. QED
    BY <1>2, <2>2 DEF CinfoFields
<1>4. cinfo.state # "INHEADER" /\ cinfo.several
  <2>1. cinfo.state # "INHEADER"
    BY <1>0 DEF WInv, Stated, Progressive
  <2>2. QED
    BY <1>0, <2>1 DEF WInv, Stated, Progressive
<1>5. Placed' /\ Counted' /\ (Found' <=> Found)
  BY <1>1, <1>3, <1>4, PlacedAlike
<1>6. ~Found'
  BY <1>4, <1>5 DEF Found
<1>7. \/ info'.status = "FINISHED"
      \/ info'.status = "PROGRESSIVE" /\ info'.progressive = "START"
  <2>1. CASE info.final
    BY <2>1, StatusSet DEF ScanFinished, InfoFieldOK, WInv
  <2>2. CASE ~info.final
    BY <1>0, <2>2, ProgressiveSet DEF ScanFinished, InfoFieldOK, WInv, Progressive
  <2>3. QED
    BY <2>1, <2>2
<1>8. Stated'
  BY <1>3, <1>4, <1>7 DEF Stated, Progressive
<1>9. cinfo.eoi \/ ScanBegins
  <2>1. cinfo.eoi \/ ~(cinfo.inScan <= cinfo.outScan)
    BY <1>0 DEF Consuming, Calls
  <2>2. cinfo.inScan \in Nat /\ cinfo.outScan \in Nat
    BY WholeTypes DEF WInv
  <2>3. QED
    BY <1>0, <2>1, <2>2 DEF WInv, Given
<1>10. Answers'
  BY <1>0, <1>3, <1>6, <1>9 DEF Answers, ScanBegins, Calls
<1>11. Given' /\ Stocked'
  BY <1>7 DEF Given, Stocked, Progressive
<1>12. QED
  BY <1>5, <1>8, <1>10, <1>11 DEF GInv

LEMMA ClosePlaced == ASSUME WInv, Close PROVE GInv'
<1>0. /\ info.status = "FINISHED" /\ pc = "idle" /\ GetInput
      /\ cinfo.state \in {"SCANNING", "BUFIMAGE", "STOPPING"}
  BY DEF Close, Is, WInv, Stated
<1>1. /\ Set([state |-> "STOPPING"]) /\ pc' = "close" /\ ret' = "none"
      /\ UNCHANGED <<info, failed>>
  BY <1>0 DEF Close, At
<1>2. file' = file /\ cursor' = cursor
  BY <1>0, GetInputFrame
<1>3. CinfoTyped' /\ \A f \in CinfoFields \ {"state"} : cinfo'[f] = cinfo[f]
  <2>1. CinfoFieldOK("state", "STOPPING")
    BY DEF CinfoFieldOK
  <2>2. QED
    BY <1>1, <2>1, StateSet DEF WInv
<1>4. /\ cinfo'.state = "STOPPING"
      /\ cinfo'.begun = cinfo.begun /\ cinfo'.several = cinfo.several
      /\ cinfo'.unread = cinfo.unread /\ cinfo'.length = cinfo.length
      /\ cinfo'.reading = cinfo.reading /\ cinfo'.eoi = cinfo.eoi
      /\ cinfo'.inScan = cinfo.inScan /\ cinfo'.inRow = cinfo.inRow
  <2>1. "state" \in DOMAIN cinfo
    BY DEF WInv, DInv, CinfoTyped, CinfoFields
  <2>2. cinfo'.state = "STOPPING"
    BY <1>1, <2>1 DEF Set, Updated
  <2>3. QED
    BY <1>3, <2>2 DEF CinfoFields
<1>5. Placed' /\ Counted' /\ (Found' <=> Found)
  BY <1>0, <1>2, <1>4, PlacedAlike
<1>6. ~Found'
  BY <1>4 DEF Found
<1>7. Stated'
  BY <1>0, <1>1, <1>4 DEF Stated, Progressive
<1>8. Answers'
  BY <1>0, <1>1, <1>6 DEF Answers, Progressive
<1>9. Given' /\ Stocked'
  BY <1>0, <1>1 DEF Given, Stocked, Progressive
<1>10. QED
  BY <1>5, <1>7, <1>8, <1>9 DEF GInv

LEMMA ReleasePlaced == ASSUME WInv, Release PROVE GInv'
<1>0. /\ info.status = "FINISHED" /\ pc = "close" /\ UNCHANGED <<source, cinfo, failed>>
      /\ pc' = "idle" /\ ret' = "none" /\ Status([status |-> "none"])
  BY DEF Release, At, WInv, DInv, Staged
<1>1. UNCHANGED <<file, cursor>>
  BY <1>0 DEF source
<1>2. info'.status = "none"
  BY <1>0, StatusSet DEF InfoFieldOK, WInv
<1>3. ~Found
  BY <1>0, NotFound
<1>4. Placed' /\ Counted' /\ (Found' <=> Found)
  BY <1>0, <1>1, PlacedAlike
<1>5. Stated'
  BY <1>2 DEF Stated, Progressive
<1>6. Answers'
  BY <1>0, <1>2, <1>3, <1>4 DEF Answers, Progressive
<1>7. Given' /\ Stocked'
  BY <1>2 DEF Given, Stocked, Progressive
<1>8. QED
  BY <1>4, <1>5, <1>6, <1>7 DEF GInv

(* No step changes the file. *)
LEMMA FileStays == ASSUME [Next]_vars PROVE file' = file
<1>1. CASE Library
  BY <1>1 DEF Library, FirstMarker, Discard, NextMarker, Segment, SkipVariable, StartOfScan,
     EndOfImage, AfterEnd, Row, RowCutShort, RowOfZeros, Suspend, Take, SkipInput, source
<1>2. CASE Work
  <2>1. OpenSource(file) \/ GetInput \/ UNCHANGED source
    BY <1>2 DEF Work, Create, Header, HeaderSuspended, HeaderRead, Start, NoSprite, DecodeLines,
       ScanLine, LinesEnd, LineSuspended, LineInput, Line, StartScan, Eaten, EatMore, EatEnd,
       AllEaten, Output, SkipScan, SkipMore, SkipEnd, FinishScan, FinishMore, ScanFinished,
       Close, CloseMore, CloseSuspended, Release
  <2>2. QED
    BY <2>1 DEF OpenSource, GetInput, ReadMore, ReadEnd, Pad, Refilled, source
<1>3. CASE UNCHANGED vars
  BY <1>3 DEF vars, source
<1>4. QED
  BY <1>1, <1>2, <1>3 DEF Next

LEMMA InitGInv == Init => GInv
<1> SUFFICES ASSUME Init, Whole(file)
             PROVE  Placed /\ Counted /\ Stated /\ Answers /\ Given /\ Stocked
  BY DEF GInv
<1>1. /\ info.status = "CREATE" /\ cinfo.state = "INHEADER" /\ ~cinfo.begun
      /\ cinfo.unread = "none" /\ cinfo.length = 0 /\ cinfo.reading = "markers"
      /\ ~cinfo.eoi /\ cinfo.inScan = 0 /\ pc = "idle" /\ ret = "none" /\ cursor = 0
  BY DEF Init, SourceInit
<1>2. Placed /\ Stated /\ Given /\ Stocked
  BY <1>1 DEF Placed, Stated, Given, Stocked, Progressive
<1>3. Answers
  BY <1>1 DEF Answers, Found, Progressive, Calls
<1>4. Counted
  <2>1. ScanEnds(file, 0) = {}
    BY DEF ScanEnds
  <2>2. ScansTo(file, 0) = 0
    BY <2>1, ScanEndsFinite, FS_EmptySet
  <2>3. QED
    BY <1>1, <2>2 DEF Counted
<1>5. QED
  BY <1>2, <1>3, <1>4

LEMMA StepKeepsGInv ==
  ASSUME IInv, LengthFresh, DInv, GInv, [Next]_vars
  PROVE  GInv'
<1>1. file' = file
  BY FileStays
<1>2. CASE ~Whole(file)
  BY <1>1, <1>2 DEF GInv
<1>3. CASE Whole(file)
  <2>1. WInv
    BY <1>3 DEF GInv, WInv
  <2>2. CASE Library
    BY <2>1, <2>2, LibraryPlaced
  <2>3. CASE Work
    BY <2>1, <2>3, MovesPlaced, CreatePlaced, StartPlaced, DecodeLinesPlaced, LinePlaced,
       StartScanPlaced, OutputPlaced, SkipEndPlaced, FinishScanPlaced, ScanFinishedPlaced,
       ClosePlaced, ReleasePlaced DEF Work
  <2>4. CASE UNCHANGED vars
    <3>1. UNCHANGED <<file, cursor, completed, skipBytes, bytesInBuffer,
                      info, cinfo, pc, ret, failed>>
      BY <2>4 DEF vars, source
    <3>2. Placed' /\ Counted' /\ (Found' <=> Found)
      BY <2>1, <3>1, PlacedAlike
    <3>3. Stated' /\ Answers'
      BY <2>1, <3>1, <3>2 DEF WInv, Stated, Answers, Progressive, ScanBegins
    <3>4. Given' /\ Stocked'
      BY <2>1, <3>1 DEF WInv, Given, Stocked, BehindRows, ScanBegins, AtMarker, ScanAt, Fresh,
         Progressive
    <3>5. QED
      BY <3>2, <3>3, <3>4 DEF GInv
  <2>5. QED
    BY <2>2, <2>3, <2>4 DEF Next
<1>4. QED
  BY <1>2, <1>3

LEMMA GInvHolds == Spec => []GInv
<1>1. IInv /\ LengthFresh /\ DInv /\ GInv /\ [Next]_vars => GInv'
  BY StepKeepsGInv
<1>2. QED
  BY <1>1, InitGInv, InvHolds, DInvHolds, PTL DEF Spec

(* However a whole file is cut by buffer and time, and whatever scans are
   skipped, JV_DecodeWork ends over it only for want of memory: the library
   never takes one byte for another, and never is jpeg_start_output or
   jpeg_finish_decompress called in a state it refuses (JPEGdecode.c:771). *)
THEOREM DecoderShowsFiles == Spec => []WholeFilesShown
<1>1. GInv => WholeFilesShown
  BY DEF GInv, Answers, WholeFilesShown
<1>2. QED
  BY <1>1, GInvHolds, PTL

(* A picture is closed only with all its lines out to the end of the image, and
   for a whole file only when every scan it has was read (JPEGdecode.c:659). *)
THEOREM DecoderShowsWhole == Spec => ShownWhole
<1>1. DInv /\ GInv /\ [Next]_vars =>
        [Release => /\ ShownToEnd
                    /\ Whole(file) => cinfo.inScan = ScansOf(file)]_vars
  <2> SUFFICES ASSUME DInv, GInv, Release
               PROVE  ShownToEnd /\ (Whole(file) => cinfo.inScan = ScansOf(file))
    OBVIOUS
  <2>1. info.status = "FINISHED"
    BY DEF Release, DInv, Staged
  <2>2. cinfo.eoi
    BY DEF Release, Consuming, Calls
  <2>3. ShownToEnd
    BY <2>1, <2>2 DEF DInv, AllShown, ShownToEnd
  <2>4. Whole(file) => cinfo.inScan = ScansOf(file)
    BY <2>2 DEF GInv, Counted
  <2>5. QED
    BY <2>3, <2>4
<1>2. QED
  BY <1>1, DInvHolds, GInvHolds, PTL DEF Spec, ShownWhole
=============================================================================
