---------------------------- MODULE BufferProofs ----------------------------
(***************************************************************************)
(* Module Buffer for every size, alphabet, chunk and amount: the structure *)
(* keeps its type, the bytes stay inside the allocation, and the linear    *)
(* buffer implements the bounded queue of module BoundedFifo.              *)
(***************************************************************************)
EXTENDS Buffer, SequenceTheorems, TLAPS

(* The inductive invariant: where the bytes lie is what makes every memory
   access of the next operation fall into an allocated, written cell. *)
Inv == TypeOK /\ Linear

(* Copying out reads the allocated cells as a sequence of bytes. *)
LEMMA CopyOutIsSeq ==
  ASSUME TypeOK, NEW p \in Nat, NEW n \in Nat, p + n <= Size + 1
  PROVE  /\ CopyOut(p, n) \in Seq(Byte)
         /\ Len(CopyOut(p, n)) = n
         /\ \A i \in 1..n : CopyOut(p, n)[i] = data[p + i - 1]
<1>1. \A i \in 1..n : data[p + i - 1] \in Byte
  BY SizeAssumption DEF TypeOK, Cells
<1>2. CopyOut(p, n) \in [1..n -> Byte]
  BY <1>1 DEF CopyOut
<1>3. QED
  BY <1>2 DEF CopyOut

(* Copying in keeps the cells bytes, and changes none but the n it writes. *)
LEMMA CopyInWrites ==
  ASSUME TypeOK, NEW p \in Nat, NEW s \in Seq(Byte), NEW n \in 0..Len(s)
  PROVE  /\ CopyIn(p, s, n) \in [Cells -> Byte]
         /\ \A c \in Cells : c < p => CopyIn(p, s, n)[c] = data[c]
         /\ \A c \in Cells : c >= p /\ c < p + n
                               => CopyIn(p, s, n)[c] = s[c - p + 1]
<1>1. \A c \in Cells : c \in p..(p + n - 1) => s[c - p + 1] \in Byte
  <2> SUFFICES ASSUME NEW c \in Cells, c \in p..(p + n - 1)
               PROVE  s[c - p + 1] \in Byte
    OBVIOUS
  <2>1. c - p + 1 \in 1..Len(s)
    BY SizeAssumption DEF Cells
  <2>2. QED
    BY <2>1, ElementOfSeq
<1>2. QED
  BY <1>1, SizeAssumption DEF CopyIn, TypeOK, Cells

(* bufferDrain keeps the invariant and removes a prefix of the contents. *)
LEMMA DrainKeepsInv ==
  ASSUME Inv, NEW n \in Nat, DrainBytes(n)
  PROVE  /\ data' \in [Cells -> Byte]
         /\ readPos' = 0 /\ writePos' = used'
         /\ result' = Least(n, used) /\ result' \in 0..used
         /\ used' = used - result'
         /\ \A c \in Cells : c < used' => data'[c] = data[c + result']
<1> DEFINE available == Least(n, used)
<1>1. available \in 0..used
  BY DEF Inv, TypeOK, Least
<1>2. CASE available = used
  BY <1>1, <1>2, SizeAssumption DEF DrainBytes, Inv, TypeOK, Linear, Cells
<1>3. CASE available # used
  <2>1. \A c \in Cells : c < used - available
                           => c + readPos + available \in Cells
    BY <1>1, SizeAssumption DEF Inv, TypeOK, Linear, Cells
  <2>2. data' \in [Cells -> Byte]
    BY <1>3, <2>1 DEF DrainBytes, Inv, TypeOK
  <2>3. \A c \in Cells : c < used - available => data'[c] = data[c + available]
    BY <1>1, <1>3, SizeAssumption DEF DrainBytes, Inv, TypeOK, Linear, Cells
  <2>4. QED
    BY <1>1, <1>3, <2>2, <2>3 DEF DrainBytes, Inv, TypeOK, Linear
<1>4. QED
  BY <1>2, <1>3

-----------------------------------------------------------------------------
LEMMA InitInv == Init => Inv
<1> SUFFICES ASSUME Init PROVE Inv
  OBVIOUS
<1>1. data \in [Cells -> Byte]
  BY ByteAssumption DEF Init
<1>2. out \in Seq(Byte)
  BY DEF Init
<1>3. QED
  BY <1>1, <1>2, SizeAssumption DEF Init, Inv, TypeOK, Linear

(* Every operation keeps the bytes at the bottom of the allocation. *)
LEMMA NextInv == Inv /\ [Next]_vars => Inv'
<1> SUFFICES ASSUME Inv, [Next]_vars PROVE Inv'
  OBVIOUS
<1> USE SizeAssumption
<1>0. used \in 0..Size /\ readPos = 0 /\ writePos = used
  BY DEF Inv, TypeOK, Linear
<1>1. ASSUME NEW s \in Chunks, Write(s) PROVE Inv'
  <2> DEFINE written == Least(Len(s), Free)
  <2>1. s \in Seq(Byte) /\ Len(s) \in Nat
    BY ChunksAssumption, LenProperties
  <2>2. written \in 0..Len(s) /\ written <= Size - used
    BY <1>0, <2>1 DEF Free, Least
  <2>3. data' \in [Cells -> Byte]
    BY <1>0, <1>1, <2>1, <2>2, CopyInWrites DEF Write, Inv, TypeOK
  <2>4. QED
    BY <1>0, <1>1, <2>2, <2>3 DEF Write, Inv, TypeOK, Linear
<1>2. ASSUME NEW s \in Chunks, Receive(s) PROVE Inv'
  <2> DEFINE available == Least(Len(s), Free)
  <2>1. s \in Seq(Byte) /\ Len(s) \in Nat
    BY ChunksAssumption, LenProperties
  <2>2. available \in 0..Len(s) /\ available <= Size - used
    BY <1>0, <2>1 DEF Free, Least
  <2>3. data' \in [Cells -> Byte]
    BY <1>0, <1>2, <2>1, CopyInWrites DEF Receive, Inv, TypeOK
  <2>4. QED
    BY <1>0, <1>2, <2>2, <2>3 DEF Receive, Consume, Inv, TypeOK, Linear
<1>3. ASSUME NEW n \in Amounts, Drain(n) PROVE Inv'
  BY <1>0, <1>3, AmountAssumption, DrainKeepsInv
     DEF Drain, Inv, TypeOK, Linear
<1>4. ASSUME NEW n \in Amounts, Send(n) PROVE Inv'
  <2>1. out' \in Seq(Byte)
    BY <1>0, <1>4, AmountAssumption, CopyOutIsSeq DEF Send, Inv
  <2>2. QED
    BY <1>0, <1>4, <2>1, AmountAssumption, DrainKeepsInv
       DEF Send, Inv, TypeOK, Linear
<1>5. ASSUME NEW n \in Amounts, NEW drain \in BOOLEAN, Read(n, drain)
      PROVE  Inv'
  <2> DEFINE read == Least(n, used)
  <2>1. read \in 0..used
    BY <1>0, AmountAssumption DEF Least
  <2>2. out' \in Seq(Byte)
    BY <1>0, <1>5, <2>1, CopyOutIsSeq DEF Read, Inv
  <2>3. CASE read > 0 /\ drain /\ DrainBytes(read)
    BY <1>0, <2>1, <2>2, <2>3, DrainKeepsInv DEF Inv, TypeOK, Linear
  <2>4. CASE /\ ~(read > 0 /\ drain) /\ result' = read
             /\ UNCHANGED <<data, readPos, writePos, used>>
    BY <1>0, <2>1, <2>2, <2>4 DEF Inv, TypeOK, Linear
  <2>5. QED
    BY <1>5, <2>3, <2>4 DEF Read
<1>6. CASE UNCHANGED vars
  BY <1>6 DEF vars, Inv, TypeOK, Linear, Cells
<1>7. QED
  BY <1>1, <1>2, <1>3, <1>4, <1>5, <1>6 DEF Next

(* The structure of buffer.c always has its declared type. *)
THEOREM BufferTypeCorrect == Spec => []TypeOK
<1>1. Inv => TypeOK
  BY DEF Inv
<1>2. QED
  BY <1>1, InitInv, NextInv, PTL DEF Spec

(* The held bytes always lie at the bottom of the allocated memory, so that
   the copies of bufferWrite and Socket_Read stay inside it. *)
THEOREM BufferStaysLinear == Spec => []Linear
<1>1. Inv => Linear
  BY DEF Inv
<1>2. QED
  BY <1>1, InitInv, NextInv, PTL DEF Spec
-----------------------------------------------------------------------------
(* The contents are the bytes of the used cells, in order. *)
LEMMA ContentsAreCells ==
  ASSUME Inv
  PROVE  /\ Contents \in Seq(Byte)
         /\ Len(Contents) = used
         /\ \A i \in 1..used : Contents[i] = data[i - 1]
BY CopyOutIsSeq, SizeAssumption DEF Inv, TypeOK, Linear, Contents

(* The same of the state after a step. *)
LEMMA NextContentsAreCells ==
  ASSUME Inv'
  PROVE  /\ Contents' \in Seq(Byte)
         /\ Len(Contents') = used'
         /\ \A i \in 1..used' : Contents'[i] = data'[i - 1]
<1>1. /\ data' \in [Cells -> Byte] /\ readPos' = 0
      /\ used' \in 0..Size
  BY SizeAssumption DEF Inv, TypeOK, Linear, Cells
<1>2. Contents' = [i \in 1..used' |-> data'[readPos' + i - 1]]
  BY DEF Contents, CopyOut
<1>3. \A i \in 1..used' : data'[i - 1] \in Byte
  BY <1>1, SizeAssumption DEF Cells
<1>4. Contents' \in [1..used' -> Byte]
  BY <1>1, <1>2, <1>3
<1>5. QED
  BY <1>1, <1>2, <1>4

(* Taking bytes in at the write position appends them to the contents. *)
LEMMA CopyInAppends ==
  ASSUME Inv, Inv', NEW s \in Seq(Byte), NEW n \in 0..Len(s),
         n <= Size - used,
         data' = CopyIn(writePos, s, n), used' = used + n
  PROVE  Contents' = Contents \o SubSeq(s, 1, n)
<1> DEFINE taken == SubSeq(s, 1, n)
<1> USE SizeAssumption
<1>1. /\ taken \in Seq(Byte) /\ Len(taken) = n
      /\ \A i \in 1..n : taken[i] = s[i]
  <2>1. \A i \in 1..n : s[i] \in Byte
    BY ElementOfSeq
  <2>2. QED
    BY <2>1, SubSeqProperties
<1>2. /\ Contents \o taken \in Seq(Byte)
      /\ Len(Contents \o taken) = used + n
      /\ \A i \in 1..(used + n) : (Contents \o taken)[i] =
             IF i <= used THEN Contents[i] ELSE taken[i - used]
  <2> HIDE DEF taken
  <2>1. Contents \in Seq(Byte) /\ taken \in Seq(Byte)
    BY <1>1, ContentsAreCells
  <2>2. Len(Contents) = used /\ Len(taken) = n
    BY <1>1, ContentsAreCells
  <2>3. /\ Contents \o taken \in Seq(Byte)
        /\ Len(Contents \o taken) = Len(Contents) + Len(taken)
        /\ \A i \in 1..(Len(Contents) + Len(taken)) : (Contents \o taken)[i] =
               IF i <= Len(Contents) THEN Contents[i]
                                     ELSE taken[i - Len(Contents)]
    BY <2>1, ConcatProperties
  <2>4. QED
    BY <2>2, <2>3
<1>3. used \in 0..Size /\ writePos = used /\ n \in Nat
  BY LenProperties DEF Inv, TypeOK, Linear
<1>4. ASSUME NEW i \in 1..(used + n)
      PROVE  Contents'[i] = (Contents \o taken)[i]
  <2>1. Contents'[i] = data'[i - 1] /\ i - 1 \in Cells
    BY <1>3, NextContentsAreCells DEF Cells
  <2>2. CASE i <= used
    <3>1. data'[i - 1] = data[i - 1]
      BY <1>3, <2>1, <2>2, CopyInWrites DEF Inv
    <3>2. QED
      BY <1>2, <1>3, <2>1, <2>2, <3>1, ContentsAreCells
  <2>3. CASE i > used
    <3>1. data'[i - 1] = s[(i - 1) - used + 1]
      BY <1>3, <2>1, <2>3, CopyInWrites DEF Inv
    <3>2. (i - 1) - used + 1 = i - used /\ i - used \in 1..n
      BY <1>3, <2>3
    <3>3. QED
      BY <1>1, <1>2, <1>3, <2>1, <2>3, <3>1, <3>2
  <2>4. i <= used \/ i > used
    BY <1>3
  <2>5. QED
    BY <2>2, <2>3, <2>4
<1> HIDE DEF taken
<1>5. Contents' = Contents \o taken
  BY <1>2, <1>4, NextContentsAreCells, SeqEqual
<1>6. QED
  BY <1>5 DEF taken

(* Draining removes a prefix of the contents. *)
LEMMA DrainDropsPrefix ==
  ASSUME Inv, Inv', NEW n \in Nat, DrainBytes(n)
  PROVE  /\ result' \in 0..Len(Contents)
         /\ Contents' = SubSeq(Contents, result' + 1, Len(Contents))
<1> DEFINE taken == result'
           rest == SubSeq(Contents, taken + 1, Len(Contents))
<1> HIDE DEF taken, rest
<1> USE SizeAssumption
<1>1. /\ used \in Nat /\ taken \in Nat /\ taken <= used
      /\ used' = used - taken /\ used' \in Nat /\ used' <= Size
  <2>1. taken \in 0..used /\ used' = used - taken
    BY DrainKeepsInv DEF taken
  <2>2. used \in Nat /\ used' \in Nat /\ used' <= Size
    BY DEF Inv, TypeOK, Linear
  <2>3. QED
    BY <2>1, <2>2
<1>2. Len(Contents) = used /\ \A i \in 1..used : Contents[i] \in Byte
  BY ContentsAreCells, ElementOfSeq
<1>3. /\ rest \in Seq(Byte) /\ Len(rest) = used'
      /\ \A i \in 1..used' : rest[i] = Contents[taken + i]
  <2>1. (taken + 1)..used \subseteq 1..used
    BY <1>1
  <2>2. QED
    BY <1>1, <1>2, <2>1, SubSeqProperties DEF rest
<1>4. ASSUME NEW i \in 1..used' PROVE Contents'[i] = rest[i]
  <2>0. Contents'[i] = data'[i - 1]
    BY NextContentsAreCells
  <2>1. i - 1 \in Cells /\ i - 1 < used'
    BY <1>1 DEF Cells
  <2>2. data'[i - 1] = data[(i - 1) + taken]
    BY <2>1, DrainKeepsInv DEF taken
  <2>3. taken + i \in 1..used /\ Contents[taken + i] = data[taken + i - 1]
    BY <1>1, ContentsAreCells
  <2>4. (i - 1) + taken = taken + i - 1
    BY <1>1
  <2>5. QED
    BY <1>3, <2>0, <2>2, <2>3, <2>4
<1>5. Contents' = rest
  BY <1>3, <1>4, NextContentsAreCells, SeqEqual
<1>6. QED
  BY <1>1, <1>2, <1>5 DEF rest, taken

(* What is copied out from the read position is a prefix of the contents. *)
LEMMA CopyOutIsPrefix ==
  ASSUME Inv, NEW n \in 0..used
  PROVE  CopyOut(readPos, n) = SubSeq(Contents, 1, n)
<1> DEFINE prefix == SubSeq(Contents, 1, n)
<1> USE SizeAssumption
<1>1. used \in 0..Size /\ readPos = 0
  BY DEF Inv, TypeOK, Linear
<1>2. /\ CopyOut(readPos, n) \in Seq(Byte) /\ Len(CopyOut(readPos, n)) = n
      /\ \A i \in 1..n : CopyOut(readPos, n)[i] = data[i - 1]
  BY <1>1, CopyOutIsSeq DEF Inv
<1>3. prefix \in Seq(Byte) /\ Len(prefix) = n
      /\ \A i \in 1..n : prefix[i] = Contents[i]
  <2>1. \A i \in 1..n : Contents[i] \in Byte
    BY <1>1, ContentsAreCells, ElementOfSeq
  <2>2. QED
    BY <2>1, SubSeqProperties
<1>4. \A i \in 1..n : CopyOut(readPos, n)[i] = prefix[i]
  BY <1>1, <1>2, <1>3, ContentsAreCells
<1> HIDE DEF prefix
<1>5. CopyOut(readPos, n) = prefix
  BY <1>2, <1>3, <1>4, SeqEqual
<1>6. QED
  BY <1>5 DEF prefix

LEMMA InitIsFifoInit == Init => Fifo!FifoInit
<1> SUFFICES ASSUME Init PROVE Fifo!FifoInit
  OBVIOUS
<1>1. Contents \in Seq(Byte) /\ Len(Contents) = 0
  BY InitInv, ContentsAreCells DEF Init
<1>2. Contents = <<>>
  BY <1>1, EmptySeq
<1>3. QED
  BY <1>2 DEF Init, Fifo!FifoInit

(* Every operation of buffer.c is an operation of the queue. *)
LEMMA StepIsFifoStep ==
  ASSUME Inv, Inv', [Next]_vars
  PROVE  [Fifo!FifoNext]_(Fifo!fvars)
<1> USE SizeAssumption
<1>0. /\ used \in 0..Size /\ Len(Contents) = used
      /\ Contents \in Seq(Byte) /\ Len(Contents') = used'
  BY ContentsAreCells, NextContentsAreCells DEF Inv, TypeOK, Linear
<1>1. ASSUME NEW s \in Chunks, Write(s) PROVE Fifo!Put(s)
  <2> DEFINE written == Least(Len(s), Free)
  <2>1. s \in Seq(Byte) /\ Len(s) \in Nat
    BY ChunksAssumption, LenProperties
  <2>2. /\ written \in 0..Len(s) /\ written <= Size - used
        /\ written = Len(s) \/ written = Size - used
    BY <1>0, <2>1 DEF Free, Least
  <2>3. /\ data' = CopyIn(writePos, s, written) /\ used' = used + written
        /\ result' = written /\ out' = <<>>
    BY <1>1 DEF Write
  <2>4. Contents' = Contents \o SubSeq(s, 1, written)
    BY <2>1, <2>2, <2>3, CopyInAppends
  <2>5. \/ result' = Len(s) /\ Len(Contents') <= Size
        \/ result' < Len(s) /\ Len(Contents') = Size
    BY <1>0, <2>1, <2>2, <2>3
  <2>6. QED
    BY <2>2, <2>3, <2>4, <2>5 DEF Fifo!Put
<1>2. ASSUME NEW s \in Chunks, Receive(s) PROVE Fifo!Put(s)
  <2>1. s \in Seq(Byte) /\ Len(s) \in Nat
    BY ChunksAssumption, LenProperties
  <2>2. Len(s) <= Size - used /\ Least(Len(s), Free) = Len(s)
    BY <1>0, <1>2, <2>1 DEF Receive, Free, Least
  <2>3. /\ data' = CopyIn(writePos, s, Len(s)) /\ used' = used + Len(s)
        /\ result' = Len(s) /\ out' = <<>>
    BY <1>2, <2>2 DEF Receive, Consume
  <2>4. Contents' = Contents \o SubSeq(s, 1, Len(s))
    <3>1. Len(s) \in 0..Len(s) /\ Len(s) <= Size - used
      BY <2>1, <2>2
    <3>2. QED
      BY <2>1, <2>3, <3>1, CopyInAppends
  <2>5. Len(Contents') <= Size
    BY <1>0, <2>1, <2>2, <2>3
  <2>6. QED
    BY <2>1, <2>3, <2>4, <2>5 DEF Fifo!Put
<1>g. ASSUME NEW n \in Nat PROVE Fifo!Granted(n) = Least(n, used)
  BY <1>0 DEF Fifo!Granted, Least
<1>3. ASSUME NEW n \in Amounts, Drain(n) PROVE Fifo!Take(n)
  <2>1. DrainBytes(n) /\ out' = <<>> /\ n \in Nat
    BY <1>3, AmountAssumption DEF Drain
  <2>2. result' = Fifo!Granted(n)
    BY <1>g, <2>1 DEF DrainBytes
  <2> QED
    BY <2>1, <2>2, DrainDropsPrefix DEF Fifo!Take
<1>4. ASSUME NEW n \in Amounts, Send(n) PROVE Fifo!Take(n)
  <2>1. DrainBytes(n) /\ n \in 0..used /\ out' = CopyOut(readPos, n)
    BY <1>0, <1>4, AmountAssumption DEF Send
  <2>2. result' = n
    BY <1>0, <2>1 DEF DrainBytes, Least
  <2>3. out' = SubSeq(Contents, 1, result')
    BY <2>1, <2>2, CopyOutIsPrefix
  <2>4. result' = Fifo!Granted(n)
    BY <1>0, <1>g, <2>1, <2>2 DEF Least
  <2>5. QED
    BY <2>1, <2>3, <2>4, DrainDropsPrefix DEF Fifo!Take
<1>5. ASSUME NEW n \in Amounts, NEW drain \in BOOLEAN, Read(n, drain)
      PROVE  Fifo!Take(n) \/ Fifo!Peek(n)
  <2> DEFINE read == Least(n, used)
  <2>1. read \in 0..used /\ read = Fifo!Granted(n)
    BY <1>0, <1>g, AmountAssumption DEF Least
  <2>2. out' = SubSeq(Contents, 1, read)
    BY <1>5, <2>1, CopyOutIsPrefix DEF Read
  <2>3. CASE read > 0 /\ drain /\ DrainBytes(read)
    <3>1. result' = read
      BY <1>0, <2>1, <2>3 DEF DrainBytes, Least
    <3>2. QED
      BY <2>1, <2>2, <2>3, <3>1, DrainDropsPrefix DEF Fifo!Take
  <2>4. CASE /\ ~(read > 0 /\ drain) /\ result' = read
             /\ UNCHANGED <<data, readPos, writePos, used>>
    <3>1. Contents' = Contents
      BY <2>4 DEF Contents, CopyOut
    <3>2. QED
      BY <1>0, <2>1, <2>2, <2>4, <3>1 DEF Fifo!Peek
  <2>5. QED
    BY <1>5, <2>3, <2>4 DEF Read
<1>6. CASE UNCHANGED vars
  BY <1>6 DEF vars, Fifo!fvars, Contents, CopyOut
<1>7. QED
  BY <1>1, <1>2, <1>3, <1>4, <1>5, <1>6 DEF Next, Fifo!FifoNext

(* buffer.c implements the bounded queue: bytes are neither lost, repeated,
   reordered nor changed between bufferWrite and bufferRead, for any size. *)
THEOREM BufferIsFifo == Spec => IsFifo
<1>1. Spec => []Inv
  BY InitInv, NextInv, PTL DEF Spec
<1>2. Inv /\ Inv' /\ [Next]_vars => [Fifo!FifoNext]_(Fifo!fvars)
  BY StepIsFifoStep
<1>3. QED
  BY <1>1, <1>2, InitIsFifoInit, PTL DEF Spec, IsFifo, Fifo!FifoSpec
=============================================================================
