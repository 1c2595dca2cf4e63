---------------------------- MODULE TelnetProofs ----------------------------
(***************************************************************************)
(* Theorems about Telnet, for any messages, sizes and widths: the types,   *)
(* the unsigned counter that stays a position in the work buffer, and what *)
(* becomes of the server's stream: what the application is told, what the  *)
(* server is answered, and that a callback is coming for the rest.         *)
(***************************************************************************)
EXTENDS Telnet, TLAPS

(* A RAW session meets none of the messages that go wrong: copying keeps the
   counter in the buffer, which is what makes the subtraction in telnet.c:64
   safe. *)
RawClean == raw => slips = {} /\ connected

Position == slips = {} => wp <= Len(work)

IInv == TypeOK /\ Position /\ RawClean
-----------------------------------------------------------------------------
(* Lemmas about the operators. *)

LEMMA LeastIs ==
  ASSUME NEW a \in Int, NEW b \in Int
  PROVE  /\ Least(a, b) \in Int /\ Least(a, b) <= a /\ Least(a, b) <= b
         /\ Least(a, b) \in {a, b}
  BY DEF Least

LEMMA LeastFirst ==
  ASSUME NEW a \in Int, NEW b \in Int, a <= b PROVE Least(a, b) = a
  BY DEF Least

LEMMA DropIs ==
  ASSUME NEW S, NEW q \in Seq(S), NEW n \in 0..Len(q)
  PROVE  Drop(q, n) \in Seq(S) /\ Len(Drop(q, n)) = Len(q) - n
  BY DEF Drop

LEMMA TakeIs ==
  ASSUME NEW S, NEW q \in Seq(S), NEW m \in 0..Len(q), NEW n \in m..Len(q)
  PROVE  SubSeq(q, m + 1, n) \in Seq(S) /\ Len(SubSeq(q, m + 1, n)) = n - m
  OBVIOUS

LEMMA GreetedIs ==
  ASSUME NEW n \in 0..WriteSize
  PROVE  Greeted(n) \in 0..WriteSize
  BY RoomAssumption DEF Greeted, Least

LEMMA SubtractIs ==
  ASSUME NEW n \in 0 .. Word - 1
  PROVE  Subtract1(n) \in 0 .. Word - 1
  BY RoomAssumption DEF Subtract1

(* The messages of the server are made of bytes. *)
LEMMA EncodingBytes == \A k \in AllKinds : Encoding[k] \in Seq(Byte8)
  <1> USE DEF Byte8, NUL, BS, LF, CR, DEL, SE, SB, WILL, WONT, DO, DONT, IAC, ECHO,
          TTYPE, AUTH, SEND, REPLY, SSL, ACCEPT, x, SGA
  <1>1. AllKinds =
     {"letter", "nul", "rubout", "newline", "return", "byte255", "nop",
      "willEcho", "wontEcho", "willOther", "wontOther", "doEcho", "doAuth",
      "doTtype", "doOther", "dont", "ttype", "authSsl", "authNone", "accept",
      "reject", "oddReply", "authOther", "otherSub"}
    BY DEF AllKinds, Encoding
  <1>2. /\ Encoding["letter"] \in Seq(Byte8)
        /\ Encoding["nul"] \in Seq(Byte8)
        /\ Encoding["rubout"] \in Seq(Byte8)
        /\ Encoding["newline"] \in Seq(Byte8)
        /\ Encoding["return"] \in Seq(Byte8)
        /\ Encoding["byte255"] \in Seq(Byte8)
        /\ Encoding["nop"] \in Seq(Byte8)
        /\ Encoding["willEcho"] \in Seq(Byte8)
    BY DEF Encoding
  <1>3. /\ Encoding["wontEcho"] \in Seq(Byte8)
        /\ Encoding["willOther"] \in Seq(Byte8)
        /\ Encoding["wontOther"] \in Seq(Byte8)
        /\ Encoding["doEcho"] \in Seq(Byte8)
        /\ Encoding["doAuth"] \in Seq(Byte8)
        /\ Encoding["doTtype"] \in Seq(Byte8)
        /\ Encoding["doOther"] \in Seq(Byte8)
        /\ Encoding["dont"] \in Seq(Byte8)
    BY DEF Encoding
  <1>4. /\ Encoding["ttype"] \in Seq(Byte8)
        /\ Encoding["authSsl"] \in Seq(Byte8)
        /\ Encoding["authNone"] \in Seq(Byte8)
        /\ Encoding["accept"] \in Seq(Byte8)
        /\ Encoding["reject"] \in Seq(Byte8)
        /\ Encoding["oddReply"] \in Seq(Byte8)
        /\ Encoding["authOther"] \in Seq(Byte8)
        /\ Encoding["otherSub"] \in Seq(Byte8)
    BY DEF Encoding
  <1> QED
    BY <1>1, <1>2, <1>3, <1>4
-----------------------------------------------------------------------------
LEMMA InitIInv == Init => IInv
  <1> SUFFICES ASSUME Init PROVE IInv
    OBVIOUS
  <1>1. BuffersOK
    BY RoomAssumption DEF Init, BuffersOK
  <1>2. CountsOK
    <2>1. Greeted(0) \in 0..WriteSize
      BY GreetedIs, RoomAssumption
    <2> QED
      BY <2>1, RoomAssumption DEF Init, CountsOK
  <1>3. BitsOK
    BY ChoiceAssumption DEF Init, BitsOK
  <1>4. Position /\ RawClean
    BY DEF Init, Position, RawClean
  <1> QED
    BY <1>1, <1>2, <1>3, <1>4 DEF IInv, TypeOK
-----------------------------------------------------------------------------
(* The server, the network, the application and the dispatch. *)

Around == \/ \E k \in Kinds : Send(k)
          \/ \E n \in 1..WorkSize : Arrive(n)
          \/ \E n \in SendSizes : Take(n)
          \/ \E n \in 1..ReadSize : AppRead(n)
          \/ \E b \in {x, BS}, n \in SendSizes : AppWrite(b, n)
          \/ Secured \/ Begin \/ PassOver

LEMMA AroundIInv == ASSUME IInv, Around PROVE IInv'
  <1> USE RoomAssumption
  <1>0. BuffersOK /\ CountsOK /\ BitsOK /\ Position /\ RawClean
    BY DEF IInv, TypeOK
  <1>a. Len(work) \in Nat /\ Len(net) \in Nat /\ Len(read) \in Nat
    BY <1>0 DEF BuffersOK
  <1>1. ASSUME NEW k \in Kinds, Send(k) PROVE IInv'
    <2>1. Encoding[k] \in Seq(Byte8)
      BY EncodingBytes, KindsAssumption
    <2>2. BuffersOK'
      BY <1>0, <1>1, <2>1 DEF Send, BuffersOK
    <2>3. CountsOK'
      BY <1>0, <1>1 DEF Send, CountsOK
    <2>4. BitsOK'
      BY <1>0, <1>1 DEF Send, BitsOK, flags
    <2>5. Position' /\ RawClean'
      BY <1>0, <1>1 DEF Send, Position, RawClean, flags
    <2> QED
      BY <2>2, <2>3, <2>4, <2>5 DEF IInv, TypeOK
  <1>2. ASSUME NEW n \in 1..WorkSize, Arrive(n) PROVE IInv'
    <2>1. n \in 0..Len(net) /\ n + Len(work) <= WorkSize
      <3>1. n <= Least(Len(net), WorkSize - Len(work))
        BY <1>2 DEF Arrive
      <3> QED
        BY <1>a, <3>1 DEF Least
    <2>2. SubSeq(net, 1, n) \in Seq(Byte8) /\ Len(SubSeq(net, 1, n)) = n
      BY <1>0, <2>1 DEF BuffersOK
    <2>3. Drop(net, n) \in Seq(Byte8)
      BY <1>0, <2>1, DropIs DEF BuffersOK
    <2>4. /\ work' \in Seq(Byte8) /\ Len(work') = Len(work) + n
      BY <1>0, <1>2, <2>2 DEF Arrive, BuffersOK
    <2>5. BuffersOK'
      BY <1>0, <1>2, <2>1, <2>3, <2>4 DEF Arrive, BuffersOK, history
    <2>6. CountsOK'
      BY <1>0, <1>2 DEF Arrive, CountsOK
    <2>7. BitsOK'
      BY <1>0, <1>2 DEF Arrive, BitsOK, flags, history
    <2>8. Position' /\ RawClean'
      BY <1>0, <1>a, <1>2, <2>4 DEF Arrive, Position, RawClean, flags, history, CountsOK
    <2> QED
      BY <2>5, <2>6, <2>7, <2>8 DEF IInv, TypeOK
  <1>3. ASSUME NEW n \in SendSizes, Take(n) PROVE IInv'
    <2>1. write' \in 0..WriteSize
      BY <1>0, <1>3 DEF Take, CountsOK, Least
    <2>2. BuffersOK' /\ Position' /\ RawClean'
      BY <1>0, <1>3 DEF Take, BuffersOK, Position, RawClean, flags, history
    <2>3. BitsOK'
      BY <1>0, <1>3 DEF Take, BitsOK, flags, history
    <2> QED
      BY <1>0, <1>3, <2>1, <2>2, <2>3 DEF IInv, TypeOK, CountsOK, Take
  <1>4. ASSUME NEW n \in 1..ReadSize, AppRead(n) PROVE IInv'
    <2>1. read' \in Seq(Byte8) /\ Len(read') <= ReadSize
      <3>1. CASE n <= Len(read)
        BY <1>0, <1>a, <1>4, <3>1, DropIs DEF AppRead, BuffersOK
      <3>2. CASE n > Len(read)
        BY <1>0, <1>a, <1>4, <3>2 DEF AppRead, BuffersOK, Drop
      <3> QED
        BY <1>a, <3>1, <3>2
    <2>2. BuffersOK'
      BY <1>0, <1>4, <2>1 DEF AppRead, BuffersOK, history
    <2>3. CountsOK' /\ Position' /\ RawClean'
      BY <1>0, <1>4 DEF AppRead, CountsOK, Position, RawClean, flags, history
    <2>4. BitsOK'
      BY <1>0, <1>4 DEF AppRead, BitsOK, flags, history
    <2> QED
      BY <2>2, <2>3, <2>4 DEF IInv, TypeOK
  <1>5. ASSUME NEW b \in {x, BS}, NEW n \in SendSizes, AppWrite(b, n) PROVE IInv'
    <2> DEFINE written == Least(n, WriteSize - write)
               echoed == IF ~raw /\ localEcho /\ support
                         THEN Least(written, ReadSize - Len(read)) ELSE 0
               echo == [i \in 1..echoed |-> IF b = BS THEN DEL ELSE b]
    <2>1. written \in 0 .. WriteSize - write
      BY <1>0, <1>5 DEF CountsOK, Least, AppWrite
    <2>2. echoed \in 0 .. ReadSize - Len(read)
      <3> HIDE DEF written
      <3> QED
        BY <1>0, <1>a, <2>1 DEF BuffersOK, Least
    <2>3. /\ write' = write + written
          /\ read' = read \o echo
      BY <1>5 DEF AppWrite
    <2>4. echo \in Seq(Byte8) /\ Len(echo) = echoed
      <3>1. (IF b = BS THEN DEL ELSE b) \in Byte8
        BY DEF Byte8, BS, DEL, x
      <3> HIDE DEF echoed
      <3> QED
        BY <2>2, <3>1, <1>a
    <2> HIDE DEF written, echoed, echo
    <2>5. read' \in Seq(Byte8) /\ Len(read') <= ReadSize
      BY <1>0, <1>a, <2>2, <2>3, <2>4 DEF BuffersOK
    <2>6. BuffersOK'
      BY <1>0, <1>5, <2>5 DEF AppWrite, BuffersOK, history
    <2>7. CountsOK'
      BY <1>0, <1>5, <2>1, <2>3 DEF AppWrite, CountsOK
    <2>8. BitsOK' /\ Position' /\ RawClean'
      BY <1>0, <1>5 DEF AppWrite, BitsOK, Position, RawClean, flags, history
    <2> QED
      BY <2>6, <2>7, <2>8 DEF IInv, TypeOK
  <1>6. ASSUME Secured PROVE IInv'
    <2>1. write' \in 0..WriteSize
      BY <1>0, <1>6, GreetedIs DEF Secured, CountsOK
    <2>2. PICK n \in 0..Len(net) : /\ net' = Drop(net, n)
                                  /\ slips' = IF n = 0 THEN slips ELSE slips \cup {"early"}
      BY <1>6 DEF Secured
    <2>3. net' \in Seq(Byte8)
      BY <1>0, <2>2, DropIs DEF BuffersOK
    <2>4. UNCHANGED <<work, wp, read, raw, support, due, pc, shown>> /\ ~connected /\ connected'
      BY <1>6 DEF Secured, flags
    <2>5. BuffersOK' /\ RawClean'
      BY <1>0, <2>3, <2>4 DEF BuffersOK, RawClean
    <2>6. Position'
      BY <1>0, <2>2, <2>4 DEF Position
    <2>7. localEcho' \in BOOLEAN
      BY <1>0, <1>6, Zenon DEF Secured, BitsOK
    <2>8. connected' = TRUE /\ nego' = TRUE
      BY <1>6 DEF Secured
    <2>9. BitsOK'
      BY <1>0, <2>2, <2>4, <2>7, <2>8 DEF BitsOK
    <2> QED
      BY <1>0, <2>1, <2>4, <2>5, <2>6, <2>9 DEF IInv, TypeOK, CountsOK
  <1>7. ASSUME Begin \/ PassOver PROVE IInv'
    <2>1. BuffersOK' /\ CountsOK' /\ Position' /\ RawClean'
      BY <1>0, <1>7 DEF Begin, PassOver, BuffersOK, CountsOK, Position, RawClean, flags, history
    <2>2. BitsOK'
      BY <1>0, <1>7 DEF Begin, PassOver, BitsOK, flags, history
    <2> QED
      BY <2>1, <2>2 DEF IInv, TypeOK
  <1> QED
    BY <1>1, <1>2, <1>3, <1>4, <1>5, <1>6, <1>7 DEF Around
-----------------------------------------------------------------------------
(* The rounds of telnetWork: where each may leave the counter. *)

(* Behind the bytes it has looked at; behind the end of a subnegotiation; or,
   with a slip, one back or anywhere the loop over pairs has run to. *)
Moves == \/ wp' \in 0 .. Len(work)
         \/ wp' \in 0 .. WorkSize + 2 /\ slips' # {}
         \/ wp' = Subtract1(wp) /\ slips' # {}

LEMMA PairsMove ==
  ASSUME IInv, Looping, NEW j \in Nat, SkipPairs(j)
  PROVE  Moves
  <1> USE RoomAssumption
  <1>0. work \in Seq(Byte8) /\ Len(work) \in Nat /\ Len(work) <= WorkSize /\ wp \in Nat
    BY DEF IInv, TypeOK, BuffersOK, CountsOK
  <1>1. wp' \in 0 .. WorkSize + 2
    <2>1. CASE PairStops(j) = {}
      BY <1>0, <2>1 DEF SkipPairs
    <2>2. CASE PairStops(j) # {}
      <3>1. PICK i \in PairStops(j) : wp' = i + 1
        BY <2>2 DEF SkipPairs
      <3>2. i \in wp + 1 + j .. Len(work)
        BY <3>1 DEF PairStops
      <3> QED
        BY <1>0, <3>1, <3>2
    <2> QED
      BY <2>1, <2>2
  <1>2. CASE \E i \in SEs : IsFirst(i, SEs) /\ wp' = i + 1
    <2>1. PICK i \in SEs : wp' = i + 1
      BY <1>2
    <2>2. i \in wp + 1 .. Len(work) - 1
      BY <2>1 DEF SEs
    <2>3. slips' = slips
      BY <1>2 DEF SkipPairs
    <2> QED
      BY <1>0, <2>1, <2>2, <2>3 DEF Moves
  <1>3. CASE ~\E i \in SEs : IsFirst(i, SEs) /\ wp' = i + 1
    <2>1. slips' # {}
      BY <1>3 DEF SkipPairs
    <2> QED
      BY <1>1, <2>1 DEF Moves
  <1> QED
    BY <1>2, <1>3

LEMMA RoundMoves == ASSUME IInv, Round PROVE Moves /\ Looping
  <1> USE RoomAssumption
  <1>0. /\ work \in Seq(Byte8) /\ Len(work) \in Nat /\ Len(work) <= WorkSize
        /\ wp \in Nat
    BY DEF IInv, TypeOK, BuffersOK, CountsOK
  <1>1. ASSUME Null PROVE Moves /\ Looping
    BY <1>0, <1>1 DEF Null, Skip, Looping, Have, Moves
  <1>2. ASSUME Rubout PROVE Moves /\ Looping
    BY <1>0, <1>2 DEF Rubout, Deliver, Skip, Wait, Looping, Have, Moves
  <1>3. ASSUME NewLine PROVE Moves /\ Looping
    <2>1. CASE Len(read) < ReadSize
      BY <1>0, <1>3, <2>1 DEF NewLine, Deliver, Skip, Wait, Looping, Have, Moves
    <2>2. CASE ~(Len(read) < ReadSize)
      BY <1>0, <1>3, <2>2 DEF NewLine, Looping, Moves
    <2> QED
      BY <2>1, <2>2
  <1>4. ASSUME BareReturn PROVE Moves /\ Looping
    BY <1>0, <1>4 DEF BareReturn, Skip, Looping, Have, Moves
  <1>5. ASSUME Letter PROVE Moves /\ Looping
    BY <1>0, <1>5 DEF Letter, Deliver, Skip, Wait, Looping, Have, Moves
  <1>6. ASSUME TooShort PROVE Moves /\ Looping
    BY <1>0, <1>6 DEF TooShort, Wait, Looping, Have, Moves
  <1>7. ASSUME Quoted PROVE Moves /\ Looping
    BY <1>0, <1>7 DEF Quoted, Command, Deliver, Skip, Wait, Looping, Have, Moves
  <1>8. ASSUME Unknown PROVE Moves /\ Looping
    BY <1>0, <1>8 DEF Unknown, Skip, Looping, Have, Moves
  <1>9. ASSUME OptionMissing PROVE Moves /\ Looping
    BY <1>0, <1>9 DEF OptionMissing, Command, Wait, Looping, Have, Moves
  <1>10. ASSUME WillOption PROVE Moves /\ Looping
    BY <1>0, <1>10 DEF WillOption, Option, Command, Message, Reply, Skip, Wait, Looping, Have, Moves
  <1>11. ASSUME WontOption PROVE Moves /\ Looping
    BY <1>0, <1>11 DEF WontOption, Option, Command, Message, Reply, Skip, Wait, Looping, Have, Moves
  <1>12. ASSUME DoOption PROVE Moves /\ Looping
    BY <1>0, <1>12 DEF DoOption, Option, Command, Message, Reply, Skip, Wait, Looping, Have, Moves
  <1>13. ASSUME DontOption PROVE Moves /\ Looping
    BY <1>0, <1>13 DEF DontOption, Option, Command, Skip, Looping, Have, Moves
  <1>14. ASSUME SubMissing PROVE Moves /\ Looping
    BY <1>0, <1>14 DEF SubMissing, Command, Wait, Looping, Have, Moves
  <1>15. ASSUME AuthSend PROVE Moves /\ Looping
    <2>1. Looping /\ Have(2)
      BY <1>15 DEF AuthSend, Sub, Command
    <2>2. CASE SkipPairs(4)
      BY <2>1, <2>2, PairsMove
    <2>3. CASE Wait /\ UNCHANGED slips
      BY <1>0, <2>1, <2>3 DEF Wait, Have, Moves
    <2> QED
      BY <1>15, <2>1, <2>2, <2>3 DEF AuthSend
  <1>16. ASSUME AuthReply PROVE Moves /\ Looping
    <2>1. Looping
      BY <1>16 DEF AuthReply, Sub, Command
    <2>2. SkipPairs(7) \/ SkipPairs(4)
      BY <1>16 DEF AuthReply
    <2> QED
      BY <2>1, <2>2, PairsMove
  <1>17. ASSUME TTypeSend PROVE Moves /\ Looping
    <2>1. Looping /\ Have(2)
      BY <1>17 DEF TTypeSend, Sub, Command
    <2>2. CASE SkipPairs(4)
      BY <2>1, <2>2, PairsMove
    <2>3. CASE Wait /\ UNCHANGED slips
      BY <1>0, <2>1, <2>3 DEF Wait, Have, Moves
    <2> QED
      BY <1>17, <2>1, <2>2, <2>3 DEF TTypeSend
  <1>18. ASSUME SubCommandUnknown PROVE Moves /\ Looping
    BY <1>0, <1>18 DEF SubCommandUnknown, Sub, Command, Looping, Have, Moves
  <1>19. ASSUME SubUnknown PROVE Moves /\ Looping
    <2>1. Looping /\ Have(2)
      BY <1>19 DEF SubUnknown, Sub, Command
    <2> QED
      BY <1>0, <1>19, <2>1 DEF SubUnknown, Skip, Have, Moves
  <1> QED
    BY <1>1, <1>2, <1>3, <1>4, <1>5, <1>6, <1>7, <1>8, <1>9, <1>10,
       <1>11, <1>12, <1>13, <1>14, <1>15, <1>16, <1>17, <1>18, <1>19 DEF Round, Subnegotiation
-----------------------------------------------------------------------------
LEMMA DeliverBuffers ==
  ASSUME IInv, NEW b \in Byte8, NEW n \in Nat, Deliver(b, n)
  PROVE  /\ read' \in Seq(Byte8) /\ Len(read') <= ReadSize
         /\ shown' \in Seq(Byte8)
  <1> USE RoomAssumption
  <1>1. /\ read \in Seq(Byte8) /\ Len(read) <= ReadSize /\ shown \in Seq(Byte8)
        /\ Len(read) \in Nat
    BY DEF IInv, TypeOK, BuffersOK
  <1>2. CASE Len(read) < ReadSize /\ read' = Append(read, b)
             /\ shown' \in {shown, Append(shown, b)}
    <2>1. Append(read, b) \in Seq(Byte8) /\ Len(Append(read, b)) = Len(read) + 1
      BY <1>1
    <2>2. Append(shown, b) \in Seq(Byte8)
      BY <1>1
    <2>3. read' \in Seq(Byte8) /\ Len(read') <= ReadSize
      BY <1>1, <1>2, <2>1
    <2>4. shown' \in Seq(Byte8)
      BY <1>1, <1>2, <2>2
    <2> QED
      BY <2>3, <2>4
  <1>3. CASE Unread
    BY <1>1, <1>3 DEF Unread
  <1> QED
    BY <1>2, <1>3 DEF Deliver

LEMMA RoundBuffers == ASSUME IInv, Round PROVE BuffersOK'
  <1>0. BuffersOK
    BY DEF IInv, TypeOK
  <1>1. work' = work /\ net' = net
    BY DEF Round, Subnegotiation, Fixed, Null, Rubout, NewLine, BareReturn, Letter, TooShort,
           Quoted, Unknown, OptionMissing,
           WillOption, WontOption, DoOption, DontOption, SubMissing, AuthSend, AuthReply, TTypeSend,
           SubCommandUnknown, SubUnknown
  <1>2. \/ Unread
        \/ \E b \in Byte8, n \in Nat : Deliver(b, n)
    <2>1. CASE Rubout \/ NewLine \/ Quoted
      BY <2>1 DEF Rubout, NewLine, Quoted, Byte8, DEL, LF, IAC
    <2>2. CASE Letter
      <3>1. Byte(0) \in Byte8
        <4>1. wp + 1 \in 1 .. Len(work)
          BY <1>0, <2>2 DEF Letter, Looping, Have, IInv, TypeOK, BuffersOK, CountsOK
        <4> QED
          BY <1>0, <4>1 DEF Byte, BuffersOK
      <3> QED
        BY <2>2, <3>1 DEF Letter
    <2>3. CASE ~(Rubout \/ NewLine \/ Quoted \/ Letter)
      BY <2>3 DEF Round, Subnegotiation, Null, BareReturn, TooShort, Unknown,
                  OptionMissing, WillOption, WontOption, DoOption, DontOption,
                  SubMissing, AuthSend, AuthReply, TTypeSend, SubCommandUnknown,
                  SubUnknown
    <2> QED
      BY <2>1, <2>2, <2>3
  <1>3. /\ read' \in Seq(Byte8) /\ Len(read') <= ReadSize
        /\ shown' \in Seq(Byte8)
    BY <1>0, <1>2, DeliverBuffers DEF Unread, BuffersOK
  <1> QED
    BY <1>0, <1>1, <1>3 DEF BuffersOK

LEMMA ReplyRoom ==
  ASSUME IInv, NEW what, NEW n \in Nat, NEW room \in Nat, n <= room, Reply(what, n, room)
  PROVE  write' \in 0..WriteSize
  BY RoomAssumption DEF Reply, IInv, TypeOK, CountsOK

LEMMA RoundWrite == ASSUME IInv, Round PROVE write' \in 0..WriteSize
  <1> USE RoomAssumption
  <1>0. write \in 0..WriteSize
    BY DEF IInv, TypeOK, CountsOK
  <1>1. CASE WillOption \/ WontOption \/ DoOption
    <2>1. Silent \/ \E what : Reply(what, 3, 3)
      BY <1>1 DEF WillOption, WontOption, DoOption, Message
    <2> QED
      BY <1>0, <2>1, ReplyRoom DEF Silent
  <1>2. CASE AuthSend
    <2>1. PICK ssl \in BOOLEAN :
            \/ Silent
            \/ Reply(<<SB, AUTH, IF ssl THEN SSL ELSE 0>>,
                     NameRoom + (IF ssl THEN 9 ELSE 8), NameRoom + 11)
      <3>1. PICK stale \in BOOLEAN :
              LET it == SslUsable /\ (OffersSsl \/ (PairStops(4) = {} /\ stale)) IN
              \/ Silent
              \/ Reply(<<SB, AUTH, IF it THEN SSL ELSE 0>>,
                       NameRoom + (IF it THEN 9 ELSE 8), NameRoom + 11)
        BY <1>2 DEF AuthSend
      <3> DEFINE it == SslUsable /\ (OffersSsl \/ (PairStops(4) = {} /\ stale))
      <3>2. it \in BOOLEAN
        OBVIOUS
      <3>3. \/ Silent
            \/ Reply(<<SB, AUTH, IF it THEN SSL ELSE 0>>,
                     NameRoom + (IF it THEN 9 ELSE 8), NameRoom + 11)
        BY <3>1
      <3> HIDE DEF it
      <3> QED
        BY <3>2, <3>3
    <2>2. CASE ssl
      BY <1>0, <2>1, <2>2, ReplyRoom DEF Silent
    <2>3. CASE ~ssl
      BY <1>0, <2>1, <2>3, ReplyRoom DEF Silent
    <2> QED
      BY <2>2, <2>3
  <1>3. CASE TTypeSend
    <2>1. Silent \/ \E what : Reply(what, 6 + TermLength, 6 + TermLength)
      BY <1>3 DEF TTypeSend
    <2> QED
      BY <1>0, <2>1, ReplyRoom DEF Silent
  <1>4. CASE ~(WillOption \/ WontOption \/ DoOption \/ AuthSend \/ TTypeSend)
    <2>1. Silent
      BY <1>4 DEF Round, Subnegotiation, Null, Rubout, NewLine, BareReturn, Letter,
                  TooShort, Quoted, Unknown, OptionMissing, DontOption, SubMissing,
                  AuthReply, SubCommandUnknown, SubUnknown
    <2> QED
      BY <1>0, <2>1 DEF Silent
  <1> QED
    BY <1>1, <1>2, <1>3, <1>4

LEMMA RoundBits == ASSUME IInv, Round PROVE BitsOK'
  <1>0. BitsOK
    BY DEF IInv, TypeOK
  <1>1. due' = due /\ raw' = raw /\ support' = support
    BY DEF flags, Round, Subnegotiation, Fixed, Null, Rubout, NewLine, BareReturn, Letter,
           TooShort, Quoted, Unknown,
           OptionMissing, WillOption, WontOption, DoOption, DontOption, SubMissing, AuthSend,
           AuthReply,
           TTypeSend, SubCommandUnknown, SubUnknown
  <1>2. pc' \in {pc, "tail"}
    BY DEF Round, Subnegotiation, Deliver, Message, Skip, Wait, SkipPairs, Null, Rubout,
           NewLine, BareReturn, Letter, TooShort,
           Quoted, Unknown, OptionMissing, WillOption, WontOption, DoOption, DontOption, SubMissing,
           AuthSend, AuthReply, TTypeSend, SubCommandUnknown, SubUnknown
  <1>3. connected' \in BOOLEAN
    <2>1. CASE AuthReply
      BY <2>1, Zenon DEF AuthReply
    <2>2. CASE ~AuthReply
      BY <1>0, <2>2 DEF BitsOK, Round, Subnegotiation, Status, Null, Rubout, NewLine,
                        BareReturn, Letter, TooShort, Quoted, Unknown, OptionMissing,
           WillOption, WontOption, DoOption, DontOption, SubMissing, AuthSend, TTypeSend,
           SubCommandUnknown, SubUnknown
    <2> QED
      BY <2>1, <2>2
  <1>4. nego' \in {nego, FALSE}
    BY DEF Round, Subnegotiation, Status, Null, Rubout, NewLine, BareReturn, Letter, TooShort,
           Quoted, Unknown, OptionMissing,
           WillOption, WontOption, DoOption, DontOption, SubMissing, AuthSend, AuthReply, TTypeSend,
           SubCommandUnknown, SubUnknown
  <1>5. localEcho' \in BOOLEAN
    <2>1. ASSUME WillOption \/ WontOption PROVE localEcho' \in BOOLEAN
      <3>1. \/ localEcho' = localEcho
            \/ localEcho' = (WriteSize - write < 3)
            \/ localEcho' = (WriteSize - write >= 3)
        BY <2>1, Zenon DEF WillOption, WontOption
      <3>2. localEcho \in BOOLEAN
        BY <1>0 DEF BitsOK
      <3>3. (WriteSize - write < 3) \in BOOLEAN /\ (WriteSize - write >= 3) \in BOOLEAN
        OBVIOUS
      <3> QED
        BY <3>1, <3>2, <3>3, Zenon
    <2>2. CASE ~(WillOption \/ WontOption)
      BY <1>0, <2>2 DEF BitsOK, Round, Subnegotiation, Status, Null, Rubout, NewLine,
                        BareReturn, Letter, TooShort, Quoted, Unknown, OptionMissing,
           DoOption, DontOption, SubMissing, AuthSend, AuthReply, TTypeSend, SubCommandUnknown,
           SubUnknown
    <2> QED
      BY <2>1, <2>2
  <1>6. slips' \subseteq slips \cup {"newline", "return", "overrun", "subcommand",
                                     "subnegotiation"}
    BY DEF Round, Subnegotiation, SkipPairs, Null, Rubout, NewLine, BareReturn, Letter,
           TooShort, Quoted, Unknown,
           OptionMissing, WillOption, WontOption, DoOption, DontOption, SubMissing, AuthSend,
           AuthReply,
           TTypeSend, SubCommandUnknown, SubUnknown
  <1> QED
    BY <1>0, <1>1, <1>2, <1>3, <1>4, <1>5, <1>6 DEF BitsOK

LEMMA RoundIInv == ASSUME IInv, Round PROVE IInv'
  <1> USE RoomAssumption
  <1>1. Moves /\ Looping /\ BuffersOK' /\ write' \in 0..WriteSize /\ BitsOK'
    BY RoundMoves, RoundBuffers, RoundWrite, RoundBits
  <1>2. work' = work /\ raw' = raw /\ ~raw
    BY <1>1 DEF flags, Looping, Round, Subnegotiation, Fixed, Null, Rubout, NewLine, BareReturn,
                Letter, TooShort, Quoted,
           Unknown, OptionMissing, WillOption, WontOption, DoOption, DontOption, SubMissing,
           AuthSend,
           AuthReply, TTypeSend, SubCommandUnknown, SubUnknown
  <1>3. wp \in 0 .. Word - 1 /\ Len(work) \in Nat /\ Len(work) <= WorkSize
    BY DEF IInv, TypeOK, CountsOK, BuffersOK
  <1>4. wp' \in 0 .. Word - 1
    <2>1. WorkSize \in Nat /\ Word \in Nat /\ WorkSize + 2 < Word
      OBVIOUS
    <2>2. CASE wp' \in 0..Len(work)
      BY <1>3, <2>1, <2>2
    <2>3. CASE wp' \in 0 .. WorkSize + 2
      BY <2>1, <2>3
    <2>4. CASE wp' = Subtract1(wp)
      BY <1>3, <2>4, SubtractIs
    <2> QED
      BY <1>1, <2>2, <2>3, <2>4 DEF Moves
  <1>5. Position'
    BY <1>1, <1>2, <1>3 DEF Moves, Position
  <1> QED
    BY <1>1, <1>2, <1>4, <1>5 DEF IInv, TypeOK, CountsOK, RawClean

LEMMA TailIInv == ASSUME IInv, WorkTail PROVE IInv'
  <1> USE RoomAssumption
  <1>0. BuffersOK /\ CountsOK /\ BitsOK /\ Position /\ RawClean /\ Len(work) \in Nat
    BY DEF IInv, TypeOK, BuffersOK
  <1> DEFINE n == Least(wp, Len(work))
  <1>1. n \in 0..Len(work)
    BY <1>0 DEF CountsOK, Least
  <1>2. Drop(work, n) \in Seq(Byte8) /\ Len(Drop(work, n)) <= WorkSize
    <2> HIDE DEF n
    <2> QED
      BY <1>0, <1>1, DropIs DEF BuffersOK
  <1>3. \/ work' = Drop(work, n) /\ wp' = 0
        \/ work' = work /\ wp' = wp
    BY DEF WorkTail
  <1> HIDE DEF n
  <1>4. BuffersOK'
    BY <1>0, <1>2, <1>3 DEF WorkTail, BuffersOK, history
  <1>5. CountsOK'
    BY <1>0, <1>3 DEF WorkTail, CountsOK
  <1>6. Position' /\ RawClean'
    <2>1. slips' = slips /\ raw' = raw /\ connected' = connected /\ Len(work') \in Nat
      BY <1>0, <1>2, <1>3 DEF WorkTail, history, flags, BuffersOK
    <2> QED
      BY <1>0, <1>3, <2>1 DEF Position, RawClean
  <1>7. due' \in {"no", "yes", "passed"}
    BY <1>0, Zenon DEF WorkTail, BitsOK
  <1>8. BitsOK'
    BY <1>0, <1>7 DEF WorkTail, BitsOK, flags, history
  <1> QED
    BY <1>4, <1>5, <1>6, <1>8 DEF IInv, TypeOK

LEMMA CopyIInv == ASSUME IInv, CopyRaw PROVE IInv'
  <1> USE RoomAssumption
  <1>0. BuffersOK /\ CountsOK /\ BitsOK /\ Position /\ RawClean
    BY DEF IInv, TypeOK
  <1>1. Len(work) \in Nat /\ Len(read) \in Nat /\ slips = {} /\ wp <= Len(work) /\ wp \in Nat
    <2>1. slips = {}
      BY <1>0 DEF RawClean, CopyRaw
    <2>2. wp <= Len(work)
      BY <1>0, <2>1 DEF Position
    <2> QED
      BY <1>0, <2>1, <2>2 DEF BuffersOK, CountsOK
  <1> DEFINE n == Least(ReadSize - Len(read), Len(work) - wp)
             moved == SubSeq(work, wp + 1, wp + n)
  <1>2. n \in Nat /\ n <= ReadSize - Len(read) /\ wp + n <= Len(work)
    BY <1>0, <1>1 DEF Least, BuffersOK
  <1>3. read' = read \o moved /\ shown' = shown \o moved /\ wp' = wp + n
    BY DEF CopyRaw
  <1> HIDE DEF n
  <1>4. moved \in Seq(Byte8) /\ Len(moved) = n
    BY <1>0, <1>1, <1>2, TakeIs DEF BuffersOK
  <1> HIDE DEF moved
  <1>5. /\ read' \in Seq(Byte8) /\ Len(read') <= ReadSize
        /\ shown' \in Seq(Byte8)
    BY <1>0, <1>1, <1>2, <1>3, <1>4 DEF BuffersOK
  <1>6. BuffersOK'
    BY <1>0, <1>5 DEF CopyRaw, BuffersOK
  <1>7. CountsOK' /\ Position' /\ RawClean'
    <2>1. UNCHANGED <<work, write, slips, connected, raw>>
      BY DEF CopyRaw, flags
    <2>2. wp + n \in 0 .. Word - 1
      BY <1>0, <1>1, <1>2 DEF BuffersOK
    <2>3. CountsOK'
      BY <1>0, <1>3, <2>1, <2>2 DEF CountsOK
    <2>4. Position'
      BY <1>2, <1>3, <2>1 DEF Position
    <2>5. RawClean'
      BY <1>0, <2>1 DEF RawClean
    <2> QED
      BY <2>3, <2>4, <2>5
  <1>8. BitsOK'
    BY <1>0 DEF CopyRaw, BitsOK, flags
  <1> QED
    BY <1>6, <1>7, <1>8 DEF IInv, TypeOK
-----------------------------------------------------------------------------
LEMMA NextIInv == IInv /\ [Next]_vars => IInv'
  <1> SUFFICES ASSUME IInv, [Next]_vars PROVE IInv'
    OBVIOUS
  <1>1. CASE Around
    BY <1>1, AroundIInv
  <1>2. CASE Round
    BY <1>2, RoundIInv
  <1>3. CASE CopyRaw
    BY <1>3, CopyIInv
  <1>4. CASE LoopEnd
    BY <1>4 DEF LoopEnd, IInv, TypeOK, BuffersOK, CountsOK, BitsOK, Position, RawClean,
                flags, history
  <1>5. CASE WorkTail
    BY <1>5, TailIInv
  <1>6. CASE UNCHANGED vars
    BY <1>6 DEF vars, flags, history, IInv, TypeOK, BuffersOK, CountsOK, BitsOK, Position,
                RawClean
  <1> QED
    BY <1>1, <1>2, <1>3, <1>4, <1>5, <1>6 DEF Next, Around, telnetWork

LEMMA Always == Spec => []IInv
  <1> QED
    BY InitIInv, NextIInv, PTL DEF Spec

(* Whatever bytes the server sends: every variable has its type, no buffer outgrows
   its size and the unsigned counter keeps to its word (telnet.c:54-241). *)
THEOREM TelnetTypeCorrect == Spec => []TypeOK
  <1>1. IInv => TypeOK
    BY DEF IInv
  <1> QED
    BY Always, <1>1, PTL

(* Whatever bytes the server sends, for any sizes: only the messages named in slips
   take workProcessed out of the work buffer (telnet.c:120, 502, and the loops over
   pairs at 619, 719 and 752). *)
THEOREM TelnetCounterInBuffer == Spec => []CounterInBuffer
  <1>1. IInv => CounterInBuffer
    BY DEF IInv, Position, CounterInBuffer
  <1> QED
    BY Always, <1>1, PTL
-----------------------------------------------------------------------------
(* Sequences of the same bytes, in the same places, are the same. *)
LEMMA SameSeq ==
  ASSUME NEW S, NEW s \in Seq(S), NEW t \in Seq(S), Len(s) = Len(t),
         \A i \in 1..Len(s) : s[i] = t[i]
  PROVE  s = t
  OBVIOUS

LEMMA AppendIs ==
  ASSUME NEW S, NEW s \in Seq(S), NEW e \in S
  PROVE  Append(s, e) = s \o <<e>> /\ s \o <<>> = s
  <1>1. Append(s, e) \in Seq(S) /\ s \o <<e>> \in Seq(S) /\ s \o <<>> \in Seq(S)
    OBVIOUS
  <1> QED
    BY <1>1, SameSeq

(* Messages without a command, and those with a subnegotiation. *)
Shorts == {"letter", "nul", "rubout", "newline", "return"}
Subs == {"ttype", "authSsl", "authNone", "accept", "reject", "oddReply",
         "authOther", "otherSub"}

LEMMA KindsAre ==
  AllKinds =
     {"letter", "nul", "rubout", "newline", "return", "byte255", "nop",
      "willEcho", "wontEcho", "willOther", "wontOther", "doEcho", "doAuth",
      "doTtype", "doOther", "dont", "ttype", "authSsl", "authNone", "accept",
      "reject", "oddReply", "authOther", "otherSub"}
  BY DEF AllKinds, Encoding

(* The first bytes of a message tell which it is. *)
LEMMA FirstBytes ==
  ASSUME NEW k \in AllKinds
  PROVE  /\ Encoding[k][1] = NUL => k = "nul"
         /\ Encoding[k][1] \in {BS, DEL} => k = "rubout"
         /\ Encoding[k][1] = CR => k \in {"newline", "return"}
         /\ Encoding[k][1] = IAC => k \notin Shorts
         /\ Encoding[k][1] \notin {NUL, BS, DEL, CR, IAC} => k = "letter"
  BY DEF Shorts, AllKinds, Encoding, x, SGA, ECHO, AUTH, TTYPE, IAC, WILL, WONT, DO,
         DONT, SB, SE, SEND, REPLY, SSL, ACCEPT, NUL, BS, CR, LF, DEL

Commands == {"byte255", "nop", "willEcho", "wontEcho", "willOther", "wontOther",
             "doEcho", "doAuth", "doTtype", "doOther", "dont"}

LEMMA Lengths ==
  ASSUME NEW k \in AllKinds
  PROVE  /\ Len(Encoding[k]) \in 1..10
         /\ k \in {"letter", "nul", "rubout"} => Len(Encoding[k]) = 1
         /\ k \in {"newline", "return", "byte255", "nop"} => Len(Encoding[k]) = 2
         /\ k \in {"willEcho", "wontEcho", "willOther", "wontOther", "doEcho", "doAuth",
                   "doTtype", "doOther", "dont"} => Len(Encoding[k]) = 3
         /\ k \in {"ttype", "authOther", "otherSub"} => Len(Encoding[k]) = 6
         /\ k \in {"authNone"} => Len(Encoding[k]) = 8
         /\ k \in {"accept", "reject", "oddReply"} => Len(Encoding[k]) = 9
         /\ k \in {"authSsl"} => Len(Encoding[k]) = 10
         /\ Len(Encoding[k]) = 1 => k \in {"letter", "nul", "rubout"}
  <1>1. ASSUME k \in {"letter", "nul", "rubout"} PROVE Len(Encoding[k]) = 1
    BY <1>1 DEF Encoding
  <1>2. ASSUME k \in {"newline", "return", "byte255", "nop"} PROVE Len(Encoding[k]) = 2
    BY <1>2 DEF Encoding
  <1>3. ASSUME k \in {"willEcho", "wontEcho", "willOther", "wontOther", "doEcho", "doAuth",
                      "doTtype", "doOther", "dont"}
        PROVE  Len(Encoding[k]) = 3
    BY <1>3 DEF Encoding
  <1>4. ASSUME k \in {"ttype", "authOther", "otherSub"} PROVE Len(Encoding[k]) = 6
    BY <1>4 DEF Encoding
  <1>5. ASSUME k \in {"authNone"} PROVE Len(Encoding[k]) = 8
    BY <1>5 DEF Encoding
  <1>6. ASSUME k \in {"accept", "reject", "oddReply"} PROVE Len(Encoding[k]) = 9
    BY <1>6 DEF Encoding
  <1>7. ASSUME k \in {"authSsl"} PROVE Len(Encoding[k]) = 10
    BY <1>7 DEF Encoding
  <1> QED
    BY <1>1, <1>2, <1>3, <1>4, <1>5, <1>6, <1>7, KindsAre

LEMMA SecondBytes ==
  ASSUME NEW k \in AllKinds, k \notin Shorts
  PROVE  /\ Len(Encoding[k]) >= 2
         /\ Encoding[k][2] = IAC => k = "byte255"
         /\ Encoding[k][2] \notin {IAC, WILL, WONT, DO, DONT, SB} => k = "nop"
         /\ Encoding[k][2] = WILL => k \in {"willEcho", "willOther"}
         /\ Encoding[k][2] = WONT => k \in {"wontEcho", "wontOther"}
         /\ Encoding[k][2] = DO => k \in {"doEcho", "doAuth", "doTtype", "doOther"}
         /\ Encoding[k][2] = DONT => k = "dont"
         /\ Encoding[k][2] = SB => k \in Subs
  <1>0. Len(Encoding[k]) >= 2
    <2>1. /\ Len(Encoding[k]) \in 1..10
          /\ k \in {"newline", "return", "byte255", "nop"} => Len(Encoding[k]) = 2
          /\ Len(Encoding[k]) = 1 => k \in {"letter", "nul", "rubout"}
      BY Lengths
    <2>2. k \notin {"letter", "nul", "rubout"}
      BY DEF Shorts
    <2>3. PICK m \in 1..10 : m = Len(Encoding[k]) /\ m # 1
      BY <2>1, <2>2, Zenon
    <2>4. \A n \in 1..10 : n # 1 => n >= 2
      OBVIOUS
    <2> QED
      BY <2>3, <2>4, Zenon
  <1> USE DEF Encoding, x, SGA, ECHO, AUTH, TTYPE, IAC, WILL, WONT, DO, DONT, SB, SE,
              SEND, REPLY, SSL, ACCEPT, NUL, BS, CR, LF, DEL
  <1>1. CASE k \in Subs
    <2>2. Encoding[k][2] = SB
      BY <1>1 DEF Subs
    <2>3. SB \notin {IAC, WILL, WONT, DO, DONT}
      OBVIOUS
    <2> HIDE DEF Encoding, SB, IAC, WILL, WONT, DO, DONT
    <2>4. SB \in {IAC, WILL, WONT, DO, DONT, SB}
      OBVIOUS
    <2> QED
      BY <1>0, <1>1, <2>2, <2>3, <2>4
  <1>2. CASE k \in Commands
    <2>8. Encoding[k][2] # SB
      BY <1>2 DEF Commands
    <2>2. Encoding[k][2] = IAC => k = "byte255"
      BY <1>2 DEF Commands
    <2>3. Encoding[k][2] \notin {IAC, WILL, WONT, DO, DONT, SB} => k = "nop"
      BY <1>2 DEF Commands
    <2>4. Encoding[k][2] = WILL => k \in {"willEcho", "willOther"}
      BY <1>2 DEF Commands
    <2>5. Encoding[k][2] = WONT => k \in {"wontEcho", "wontOther"}
      BY <1>2 DEF Commands
    <2>6. Encoding[k][2] = DO => k \in {"doEcho", "doAuth", "doTtype", "doOther"}
      BY <1>2 DEF Commands
    <2>7. Encoding[k][2] = DONT => k = "dont"
      BY <1>2 DEF Commands
    <2> QED
      BY <1>0, <2>2, <2>3, <2>4, <2>5, <2>6, <2>7, <2>8
  <1> QED
    BY <1>1, <1>2 DEF Shorts, Subs, Commands, AllKinds

(* The first IAC SE of a subnegotiation is its end. *)
LEMMA SubBytes ==
  ASSUME NEW k \in Subs
  PROVE  LET E == Encoding[k] IN
         /\ Len(E) \in 6..10
         /\ E[Len(E) - 1] = IAC /\ E[Len(E)] = SE
         /\ \A p \in 1..Len(E) - 1 : E[p] = IAC /\ E[p+1] = SE => p = Len(E) - 1
         /\ E[3] = TTYPE => k = "ttype"
         /\ E[3] = AUTH /\ E[4] = SEND => k \in {"authSsl", "authNone"}
         /\ E[3] = AUTH /\ E[4] = REPLY => k \in {"accept", "reject", "oddReply"}
  <1> USE DEF Encoding, x, SGA, ECHO, AUTH, TTYPE, IAC, WILL, WONT, DO, DONT, SB, SE,
              SEND, REPLY, SSL, ACCEPT, NUL, BS, CR, LF, DEL
  <1> DEFINE E == Encoding[k]
  <1>1. Len(E) \in 6..10
    BY DEF Subs
  <1>2. /\ E[Len(E) - 1] = IAC /\ E[Len(E)] = SE
        /\ \A p \in 1..Len(E) - 1 : E[p] = IAC /\ E[p+1] = SE => p = Len(E) - 1
    <2>1. CASE k = "ttype"
      <3>1. E = <<IAC, SB, TTYPE, SEND, IAC, SE>>
        BY <2>1
      <3> HIDE DEF E
      <3> QED
        BY <3>1
    <2>2. CASE k = "authSsl"
      <3>1. E = <<IAC, SB, AUTH, SEND, 1, 0, SSL, 0, IAC, SE>>
        BY <2>2
      <3> HIDE DEF E
      <3> QED
        BY <3>1
    <2>3. CASE k = "authNone"
      <3>1. E = <<IAC, SB, AUTH, SEND, 1, 0, IAC, SE>>
        BY <2>3
      <3> HIDE DEF E
      <3> QED
        BY <3>1
    <2>4. CASE k = "accept"
      <3>1. E = <<IAC, SB, AUTH, REPLY, SSL, 0, ACCEPT, IAC, SE>>
        BY <2>4
      <3> HIDE DEF E
      <3> QED
        BY <3>1
    <2>5. CASE k = "reject"
      <3>1. E = <<IAC, SB, AUTH, REPLY, SSL, 0, 3, IAC, SE>>
        BY <2>5
      <3> HIDE DEF E
      <3> QED
        BY <3>1
    <2>6. CASE k = "oddReply"
      <3>1. E = <<IAC, SB, AUTH, REPLY, 1, 0, ACCEPT, IAC, SE>>
        BY <2>6
      <3> HIDE DEF E
      <3> QED
        BY <3>1
    <2>7. CASE k = "authOther"
      <3>1. E = <<IAC, SB, AUTH, 4, IAC, SE>>
        BY <2>7
      <3> HIDE DEF E
      <3> QED
        BY <3>1
    <2>8. CASE k = "otherSub"
      <3>1. E = <<IAC, SB, 31, x, IAC, SE>>
        BY <2>8
      <3> HIDE DEF E
      <3> QED
        BY <3>1
    <2> QED
      BY <2>1, <2>2, <2>3, <2>4, <2>5, <2>6, <2>7, <2>8 DEF Subs
  <1>4. E[3] = TTYPE => k = "ttype"
    BY DEF Subs
  <1>5. E[3] = AUTH /\ E[4] = SEND => k \in {"authSsl", "authNone"}
    BY DEF Subs
  <1>6. E[3] = AUTH /\ E[4] = REPLY => k \in {"accept", "reject", "oddReply"}
    BY DEF Subs
  <1> QED
    BY <1>1, <1>2, <1>4, <1>5, <1>6
-----------------------------------------------------------------------------
AnswersOK == answers \in Seq(Seq(Byte8))

(* The bytes to be worked on are those of a message k, as far as they have come. *)
Facing(k) ==
  /\ k \in Kinds
  /\ \A p \in 1..Len(Encoding[k]) : Have(p) => Byte(p - 1) = Encoding[k][p]

(* A round has worked on all of k, or on nothing: then a rubout that waits for room
   has ended the greeting all the same (telnet.c:101). *)
Worked(k) ==
  /\ wp' = wp + Len(Encoding[k]) /\ wp' <= Len(work)
  /\ shown' = shown \o Meaning(k)
  /\ answers' = answers \o Answer(k, localEcho)
  /\ k = "accept" => ~connected'
  /\ k # "accept" => connected'
  /\ k = "willEcho" => ~localEcho'
  /\ k = "wontEcho" => localEcho'
  /\ k \notin {"willEcho", "wontEcho"} => UNCHANGED localEcho
  /\ k \in Shorts => ~nego'
  /\ k \notin Shorts => UNCHANGED nego

Waits(k) ==
  /\ UNCHANGED <<wp, shown, answers, connected, localEcho>>
  /\ UNCHANGED nego \/ (k = "rubout" /\ ~nego')

LEMMA FacingFirst ==
  ASSUME IInv, Looping, NEW k, Facing(k)
  PROVE  /\ k \in AllKinds /\ wp \in Nat /\ Len(work) \in Nat /\ wp < Len(work)
         /\ Byte(0) = Encoding[k][1]
         /\ Have(2) /\ k \notin Shorts => Byte(1) = Encoding[k][2]
  <1>1. k \in AllKinds /\ wp \in Nat /\ Len(work) \in Nat /\ wp < Len(work)
    BY KindsAssumption DEF Facing, IInv, TypeOK, BuffersOK, CountsOK, Looping, Have
  <1>2. Byte(0) = Encoding[k][1]
    BY <1>1, Lengths DEF Facing, Looping, Have
  <1>3. ASSUME Have(2), k \notin Shorts PROVE Byte(1) = Encoding[k][2]
    BY <1>1, <1>3, SecondBytes, Lengths DEF Facing
  <1> QED
    BY <1>1, <1>2, <1>3

LEMMA Told ==
  ASSUME IInv, AnswersOK
  PROVE  /\ \A b \in Byte8 : Append(shown, b) = shown \o <<b>>
         /\ shown \o <<>> = shown
         /\ \A a \in Seq(Byte8) : Append(answers, a) = answers \o <<a>>
         /\ answers \o <<>> = answers
  BY AppendIs DEF IInv, TypeOK, BuffersOK, AnswersOK

LEMMA WorkedShort ==
  ASSUME NEW k \in Shorts, wp' = wp + Len(Encoding[k]), wp' <= Len(work),
         shown' = shown \o Meaning(k), answers \o <<>> = answers, Silent,
         connected, UNCHANGED <<connected, localEcho>>, ~nego'
  PROVE  Worked(k)
  <1>1. k \notin {"accept", "willEcho", "wontEcho"} /\ k # "accept"
    BY DEF Shorts
  <1>2. Answer(k, localEcho) = <<>>
    BY DEF Shorts, Answer
  <1>3. answers' = answers \o Answer(k, localEcho)
    BY <1>2 DEF Silent
  <1>4. connected' /\ localEcho' = localEcho
    BY Zenon
  <1> QED
    BY <1>1, <1>3, <1>4, Zenon DEF Worked

(* Data, and the line ends that fit. *)
LEMMA ShortSteps ==
  ASSUME IInv, AnswersOK, slips = {}, slips' = {}, NEW k, Facing(k),
         Null \/ Rubout \/ NewLine \/ BareReturn \/ Letter
  PROVE  Worked(k) \/ Waits(k)
  <1>0. Looping
    BY DEF Null, Rubout, NewLine, BareReturn, Letter
  <1>1. /\ k \in AllKinds /\ wp \in Nat /\ Len(work) \in Nat /\ wp < Len(work)
        /\ Byte(0) = Encoding[k][1]
    BY <1>0, FacingFirst
  <1>2. connected /\ Len(read) \in Nat /\ ReadSize \in Nat
    BY <1>0, RoomAssumption DEF Looping, IInv, TypeOK, BuffersOK
  <1>3. /\ shown \o <<>> = shown /\ answers \o <<>> = answers
        /\ Append(shown, DEL) = shown \o <<DEL>> /\ Append(shown, LF) = shown \o <<LF>>
    <2>1. DEL \in Byte8 /\ LF \in Byte8
      BY DEF DEL, LF, Byte8
    <2> QED
      BY <2>1, Told
  <1>4. CASE Null
    <2>1. k = "nul"
      BY <1>1, <1>4, FirstBytes DEF Null
    <2>2. k \in Shorts /\ Len(Encoding[k]) = 1 /\ Meaning(k) = <<>>
      BY <1>1, <2>1, Lengths DEF Meaning, Shorts
    <2>3. /\ wp' = wp + 1 /\ shown' = shown /\ Silent
          /\ UNCHANGED <<connected, localEcho>> /\ ~nego'
      BY <1>4 DEF Null, Skip, Unread
    <2>4. /\ wp' = wp + Len(Encoding[k]) /\ wp' <= Len(work)
          /\ shown' = shown \o Meaning(k)
      BY <1>1, <1>3, <2>2, <2>3
    <2> QED
      BY <1>2, <1>3, <2>2, <2>3, <2>4, WorkedShort, Zenon
  <1>5. CASE Rubout
    <2>1. k = "rubout"
      BY <1>1, <1>5, FirstBytes DEF Rubout
    <2>2. k \in Shorts /\ Len(Encoding[k]) = 1 /\ Meaning(k) = <<DEL>>
      BY <1>1, <2>1, Lengths DEF Meaning, Shorts
    <2>3. Silent /\ UNCHANGED <<connected, localEcho>> /\ ~nego' /\ Deliver(DEL, 1)
      BY <1>5 DEF Rubout
    <2>4. CASE Wait /\ Unread
      BY <2>1, <2>3, <2>4, Zenon DEF Wait, Unread, Silent, Waits
    <2>5. CASE Skip(1) /\ shown' = Append(shown, DEL)
      <3>1. wp' = wp + 1
        BY <2>5 DEF Skip
      <3>2. /\ wp' = wp + Len(Encoding[k]) /\ wp' <= Len(work)
            /\ shown' = shown \o Meaning(k)
        BY <1>1, <1>3, <2>2, <2>5, <3>1
      <3> QED
        BY <1>2, <1>3, <2>2, <2>3, <3>2, WorkedShort, Zenon
    <2> QED
      BY <2>3, <2>4, <2>5 DEF Deliver
  <1>6. CASE NewLine
    <2>1. k \in {"newline", "return"}
      BY <1>1, <1>6, FirstBytes DEF NewLine
    <2>2. k = "newline"
      <3>1. Len(Encoding[k]) = 2
        BY <1>1, <2>1, Lengths
      <3>2. Encoding[k][2] = LF
        BY <3>1, <1>6 DEF NewLine, Facing
      <3> QED
        BY <2>1, <3>2 DEF Encoding, LF, NUL
    <2>3. k \in Shorts /\ Len(Encoding[k]) = 2 /\ Meaning(k) = <<LF>>
      BY <1>1, <2>2, Lengths DEF Meaning, Shorts
    <2>4. Len(read) < ReadSize /\ Deliver(LF, 2)
      BY <1>6 DEF NewLine
    <2>5. shown' = Append(shown, LF) /\ wp' = wp + 2
      BY <1>2, <2>4 DEF Deliver, Skip
    <2>6. Silent /\ UNCHANGED <<connected, localEcho>> /\ ~nego' /\ Have(2)
      BY <1>6 DEF NewLine
    <2> QED
      BY <1>1, <1>2, <1>3, <2>3, <2>5, <2>6, WorkedShort DEF Have
  <1>7. CASE BareReturn
    BY <1>7 DEF BareReturn
  <1>8. CASE Letter
    <2>1. k = "letter"
      BY <1>1, <1>8, FirstBytes DEF Letter
    <2>2. Encoding[k][1] = x
      BY <2>1 DEF Encoding
    <2>3. k \in Shorts /\ Len(Encoding[k]) = 1 /\ Meaning(k) = <<x>>
      BY <1>1, <2>1, Lengths DEF Meaning, Shorts
    <2>4. Append(shown, x) = shown \o <<x>>
      <3>1. x \in Byte8
        BY DEF x, Byte8
      <3> QED
        BY <3>1, Told
    <2>5. Silent /\ UNCHANGED <<connected, localEcho>> /\ Deliver(x, 1)
      BY <1>1, <1>8, <2>2 DEF Letter
    <2>6. CASE Len(read) >= ReadSize /\ Wait /\ Unread
      <3>1. nego' = nego
        <4>1. ~(Len(read) < ReadSize)
          BY <1>2, <2>6
        <4> QED
          BY <1>8, <4>1, Zenon DEF Letter
      <3> QED
        BY <2>5, <2>6, <3>1, Zenon DEF Wait, Unread, Silent, Waits
    <2>7. CASE Len(read) < ReadSize /\ Skip(1) /\ shown' = Append(shown, x)
      <3>1. wp' = wp + 1 /\ ~nego'
        BY <1>8, <2>7 DEF Letter, Skip
      <3>2. /\ wp' = wp + Len(Encoding[k]) /\ wp' <= Len(work)
            /\ shown' = shown \o Meaning(k)
        BY <1>1, <2>3, <2>4, <2>7, <3>1
      <3> QED
        BY <1>2, <1>3, <2>3, <2>5, <3>1, <3>2, WorkedShort, Zenon
    <2> QED
      BY <2>5, <2>6, <2>7 DEF Deliver
  <1> QED
    BY <1>4, <1>5, <1>6, <1>7, <1>8

LEMMA WorkedLong ==
  ASSUME NEW k \in AllKinds, k \notin Shorts, k # "accept",
         wp' = wp + Len(Encoding[k]), wp' <= Len(work),
         Meaning(k) = <<>>, shown \o <<>> = shown, Unread,
         answers' = answers \o Answer(k, localEcho),
         connected, UNCHANGED <<connected, nego>>,
         k = "willEcho" => ~localEcho', k = "wontEcho" => localEcho',
         k \notin {"willEcho", "wontEcho"} => UNCHANGED localEcho
  PROVE  Worked(k)
  <1>1. shown' = shown \o Meaning(k)
    BY DEF Unread
  <1>2. connected' /\ nego' = nego
    BY Zenon
  <1> QED
    BY <1>1, <1>2, Zenon DEF Worked

LEMMA WaitsLong ==
  ASSUME NEW k, Wait, Status, Silent, Unread
  PROVE  Waits(k)
  BY Zenon DEF Wait, Status, Silent, Unread, Waits

LEMMA Replied ==
  ASSUME IInv, AnswersOK, slips = {}, NEW what \in Seq(Byte8), NEW n, NEW room,
         Reply(what, n, room)
  PROVE  answers' = answers \o <<what>>
  BY Told DEF Reply

(* A message with an option: no other has the command, and the option is its third
   byte. *)
LEMMA OptionBytes ==
  ASSUME IInv, NEW k, Facing(k), NEW c \in {WILL, WONT, DO, DONT}, Option(c)
  PROVE  /\ k \in AllKinds /\ k \notin Shorts /\ Encoding[k][2] = c
         /\ Len(Encoding[k]) = 3 /\ Byte(2) = Encoding[k][3]
         /\ wp \in Nat /\ wp + 3 <= Len(work)
  <1>1. Looping /\ Byte(0) = IAC /\ Have(2) /\ Byte(1) = c /\ Have(3)
    BY DEF Option, Command
  <1>2. k \in AllKinds /\ wp \in Nat /\ Len(work) \in Nat /\ Encoding[k][1] = IAC
    BY <1>1, FacingFirst
  <1>3. k \notin Shorts
    BY <1>2, FirstBytes
  <1>4. Encoding[k][2] = c
    BY <1>1, <1>3, FacingFirst
  <1>5. k \in {"willEcho", "willOther", "wontEcho", "wontOther", "doEcho", "doAuth",
               "doTtype", "doOther", "dont"}
    BY <1>2, <1>3, <1>4, SecondBytes
  <1>6. Len(Encoding[k]) = 3
    BY <1>2, <1>5, Lengths
  <1>7. Byte(2) = Encoding[k][3]
    BY <1>1, <1>6 DEF Facing
  <1> QED
    BY <1>1, <1>2, <1>3, <1>4, <1>6, <1>7 DEF Have

LEMMA OptionSteps ==
  ASSUME IInv, AnswersOK, slips = {}, slips' = {}, NEW k, Facing(k),
         WillOption \/ WontOption \/ DoOption \/ DontOption
  PROVE  Worked(k) \/ Waits(k)
  <1>0. /\ localEcho \in BOOLEAN /\ WriteSize \in Nat /\ write \in Nat
    BY RoomAssumption DEF IInv, TypeOK, BitsOK, CountsOK
  <1>1. shown \o <<>> = shown /\ answers \o <<>> = answers
    BY Told
  <1>2. connected /\ Unread
    BY DEF WillOption, WontOption, DoOption, DontOption, Option, Command, Looping
  <1>3. \A c \in Byte8, o \in Byte8 : <<c, o>> \in Seq(Byte8)
    OBVIOUS
  <1>4. CASE WillOption
    <2>1. /\ k \in AllKinds /\ k \notin Shorts /\ Encoding[k][2] = WILL
          /\ Len(Encoding[k]) = 3 /\ Byte(2) = Encoding[k][3]
          /\ wp \in Nat /\ wp + 3 <= Len(work)
      BY <1>4, OptionBytes DEF WillOption
    <2>2. k \in {"willEcho", "willOther"}
      BY <2>1, SecondBytes
    <2>3. Meaning(k) = <<>> /\ k # "accept" /\ k # "wontEcho"
      BY <2>2 DEF Meaning
    <2>4. UNCHANGED <<connected, nego>>
      BY <1>4 DEF WillOption
    <2>5. CASE Byte(2) = ECHO /\ ~localEcho /\ Skip(3) /\ Silent /\ UNCHANGED localEcho
      <3>1. k = "willEcho"
        BY <2>1, <2>2, <2>5 DEF Encoding, ECHO, SGA
      <3>2. Answer(k, localEcho) = <<>>
        BY <2>5, <3>1 DEF Answer
      <3>3. wp' = wp + Len(Encoding[k]) /\ wp' <= Len(work)
        BY <2>1, <2>5 DEF Skip
      <3>4. answers' = answers \o Answer(k, localEcho)
        BY <1>1, <2>5, <3>2 DEF Silent
      <3>5. ~localEcho'
        BY <2>5, Zenon
      <3> QED
        BY <1>1, <1>2, <2>1, <2>3, <2>4, <3>1, <3>3, <3>4, <3>5, WorkedLong, Zenon
    <2>6. CASE Byte(2) = ECHO /\ localEcho /\ Message(DO, ECHO)
               /\ localEcho' = (WriteSize - write < 3)
      <3>1. k = "willEcho"
        BY <2>1, <2>2, <2>6 DEF Encoding, ECHO, SGA
      <3>2. CASE Reply(<<DO, ECHO>>, 3, 3) /\ Skip(3)
        <4>1. answers' = answers \o <<<<DO, ECHO>>>>
          <5>1. <<DO, ECHO>> \in Seq(Byte8)
            BY DEF DO, ECHO, Byte8
          <5> QED
            BY <3>2, <5>1, Replied
        <4>2. Answer(k, localEcho) = <<<<DO, ECHO>>>>
          BY <2>6, <3>1 DEF Answer
        <4>3. wp' = wp + Len(Encoding[k]) /\ wp' <= Len(work)
          BY <2>1, <3>2 DEF Skip
        <4>4. ~(WriteSize - write < 3)
          BY <1>0, <3>2 DEF Reply
        <4>5. ~localEcho'
          BY <2>6, <4>4, Zenon
        <4> QED
          BY <1>1, <1>2, <2>1, <2>3, <2>4, <3>1, <4>1, <4>2, <4>3, <4>5, WorkedLong,
             Zenon
      <3>3. CASE WriteSize - write < 3 /\ Wait /\ Silent
        <4>1. UNCHANGED localEcho
          BY <1>0, <2>6, <3>3, Zenon
        <4>2. Status
          BY <2>4, <4>1, Zenon DEF Status
        <4> QED
          BY <1>2, <3>3, <4>2, WaitsLong
      <3> QED
        BY <2>6, <3>2, <3>3 DEF Message
    <2>7. CASE Byte(2) # ECHO /\ Message(DONT, Byte(2)) /\ UNCHANGED localEcho
      <3>1. k = "willOther" /\ Byte(2) = SGA
        BY <2>1, <2>2, <2>7 DEF Encoding, ECHO, SGA
      <3>2. CASE Reply(<<DONT, Byte(2)>>, 3, 3) /\ Skip(3)
        <4>1. answers' = answers \o <<<<DONT, SGA>>>>
          <5>1. <<DONT, SGA>> \in Seq(Byte8)
            BY DEF DONT, SGA, Byte8
          <5> QED
            BY <3>1, <3>2, <5>1, Replied
        <4>2. Answer(k, localEcho) = <<<<DONT, SGA>>>>
          BY <3>1 DEF Answer
        <4>3. wp' = wp + Len(Encoding[k]) /\ wp' <= Len(work)
          BY <2>1, <3>2 DEF Skip
        <4> QED
          BY <1>1, <1>2, <2>1, <2>3, <2>4, <2>7, <3>1, <4>1, <4>2, <4>3, WorkedLong,
             Zenon
      <3>3. CASE WriteSize - write < 3 /\ Wait /\ Silent
        <4>1. Status
          BY <2>4, <2>7, Zenon DEF Status
        <4> QED
          BY <1>2, <3>3, <4>1, WaitsLong
      <3> QED
        BY <2>7, <3>2, <3>3 DEF Message
    <2> QED
      BY <1>4, <2>5, <2>6, <2>7 DEF WillOption
  <1>5. CASE WontOption
    <2>1. /\ k \in AllKinds /\ k \notin Shorts /\ Encoding[k][2] = WONT
          /\ Len(Encoding[k]) = 3 /\ Byte(2) = Encoding[k][3]
          /\ wp \in Nat /\ wp + 3 <= Len(work)
      BY <1>5, OptionBytes DEF WontOption
    <2>2. k \in {"wontEcho", "wontOther"}
      BY <2>1, SecondBytes
    <2>3. Meaning(k) = <<>> /\ k # "accept" /\ k # "willEcho"
      BY <2>2 DEF Meaning
    <2>4. UNCHANGED <<connected, nego>>
      BY <1>5 DEF WontOption
    <2>5. CASE Byte(2) = ECHO /\ ~localEcho /\ Message(DONT, ECHO)
               /\ localEcho' = (WriteSize - write >= 3)
      <3>1. k = "wontEcho"
        BY <2>1, <2>2, <2>5 DEF Encoding, ECHO, SGA
      <3>2. CASE Reply(<<DONT, ECHO>>, 3, 3) /\ Skip(3)
        <4>1. answers' = answers \o <<<<DONT, ECHO>>>>
          <5>1. <<DONT, ECHO>> \in Seq(Byte8)
            BY DEF DONT, ECHO, Byte8
          <5> QED
            BY <3>2, <5>1, Replied
        <4>2. Answer(k, localEcho) = <<<<DONT, ECHO>>>>
          BY <2>5, <3>1 DEF Answer
        <4>3. wp' = wp + Len(Encoding[k]) /\ wp' <= Len(work)
          BY <2>1, <3>2 DEF Skip
        <4>4. WriteSize - write >= 3
          BY <3>2 DEF Reply
        <4>5. localEcho'
          BY <2>5, <4>4, Zenon
        <4> QED
          BY <1>1, <1>2, <2>1, <2>3, <2>4, <3>1, <4>1, <4>2, <4>3, <4>5, WorkedLong,
             Zenon
      <3>3. CASE WriteSize - write < 3 /\ Wait /\ Silent
        <4>1. (WriteSize - write >= 3) = FALSE /\ localEcho = FALSE
          BY <1>0, <2>5, <3>3
        <4>2. UNCHANGED localEcho
          BY <1>0, <2>5, <4>1, Zenon
        <4>3. Status
          BY <2>4, <4>2, Zenon DEF Status
        <4> QED
          BY <1>2, <3>3, <4>3, WaitsLong
      <3> QED
        BY <2>5, <3>2, <3>3 DEF Message
    <2>6. CASE (Byte(2) # ECHO \/ localEcho) /\ Skip(3) /\ Silent /\ UNCHANGED localEcho
      <3>1. k = "wontEcho" => Byte(2) = ECHO
        BY <2>1 DEF Encoding
      <3>2. Answer(k, localEcho) = <<>>
        BY <2>2, <2>6, <3>1 DEF Answer
      <3>3. wp' = wp + Len(Encoding[k]) /\ wp' <= Len(work)
        BY <2>1, <2>6 DEF Skip
      <3>4. answers' = answers \o Answer(k, localEcho)
        BY <1>1, <2>6, <3>2 DEF Silent
      <3>5. k = "wontEcho" => localEcho'
        BY <2>6, <3>1, Zenon
      <3> QED
        BY <1>1, <1>2, <2>1, <2>3, <2>4, <2>6, <3>3, <3>4, <3>5, WorkedLong, Zenon
    <2> QED
      BY <1>5, <2>5, <2>6 DEF WontOption
  <1>6. CASE DoOption
    <2>1. /\ k \in AllKinds /\ k \notin Shorts /\ Encoding[k][2] = DO
          /\ Len(Encoding[k]) = 3 /\ Byte(2) = Encoding[k][3]
          /\ wp \in Nat /\ wp + 3 <= Len(work)
      BY <1>6, OptionBytes DEF DoOption
    <2>2. k \in {"doEcho", "doAuth", "doTtype", "doOther"}
      BY <2>1, SecondBytes
    <2>3. Meaning(k) = <<>> /\ k \notin {"accept", "willEcho", "wontEcho"}
      BY <2>2 DEF Meaning
    <2>4. Status
      BY <1>6 DEF DoOption
    <2> DEFINE c == IF Byte(2) \in {AUTH, TTYPE} THEN WILL ELSE WONT
    <2>5. Answer(k, localEcho) = <<<<c, Byte(2)>>>> /\ <<c, Byte(2)>> \in Seq(Byte8)
      <3>1. CASE k = "doEcho"
        <4>1. Byte(2) = ECHO
          BY <2>1, <3>1 DEF Encoding
        <4> QED
          BY <3>1, <4>1 DEF Answer, ECHO, AUTH, TTYPE, WONT, Byte8
      <3>2. CASE k = "doAuth"
        <4>1. Byte(2) = AUTH
          BY <2>1, <3>2 DEF Encoding
        <4> QED
          BY <3>2, <4>1 DEF Answer, AUTH, WILL, Byte8
      <3>3. CASE k = "doTtype"
        <4>1. Byte(2) = TTYPE
          BY <2>1, <3>3 DEF Encoding
        <4> QED
          BY <3>3, <4>1 DEF Answer, TTYPE, WILL, Byte8
      <3>4. CASE k = "doOther"
        <4>1. Byte(2) = SGA
          BY <2>1, <3>4 DEF Encoding
        <4> QED
          BY <3>4, <4>1 DEF Answer, SGA, AUTH, TTYPE, WONT, Byte8
      <3> QED
        BY <2>2, <3>1, <3>2, <3>3, <3>4
    <2>6. Message(c, Byte(2))
      BY <1>6 DEF DoOption
    <2> HIDE DEF c
    <2>7. CASE Reply(<<c, Byte(2)>>, 3, 3) /\ Skip(3)
      <3>1. answers' = answers \o Answer(k, localEcho)
        BY <2>5, <2>7, Replied
      <3>2. wp' = wp + Len(Encoding[k]) /\ wp' <= Len(work)
        BY <2>1, <2>7 DEF Skip
      <3> QED
        BY <1>1, <1>2, <2>1, <2>3, <2>4, <3>1, <3>2, WorkedLong, Zenon DEF Status
    <2>8. CASE WriteSize - write < 3 /\ Wait /\ Silent
      BY <1>2, <2>4, <2>8, WaitsLong
    <2> QED
      BY <2>6, <2>7, <2>8 DEF Message
  <1>7. CASE DontOption
    <2>1. /\ k \in AllKinds /\ k \notin Shorts /\ Encoding[k][2] = DONT
          /\ Len(Encoding[k]) = 3 /\ wp \in Nat /\ wp + 3 <= Len(work)
      BY <1>7, OptionBytes DEF DontOption
    <2>2. k = "dont"
      BY <2>1, SecondBytes
    <2>3. /\ Meaning(k) = <<>> /\ k \notin {"accept", "willEcho", "wontEcho"}
          /\ Answer(k, localEcho) = <<>>
      BY <2>2 DEF Meaning, Answer
    <2>4. Status /\ Silent /\ Skip(3)
      BY <1>7 DEF DontOption
    <2>5. answers' = answers \o Answer(k, localEcho)
      BY <1>1, <2>3, <2>4 DEF Silent
    <2>6. wp' = wp + Len(Encoding[k]) /\ wp' <= Len(work)
      BY <2>1, <2>4 DEF Skip
    <2> QED
      BY <1>1, <1>2, <2>1, <2>3, <2>4, <2>5, <2>6, WorkedLong, Zenon DEF Status
  <1> QED
    BY <1>4, <1>5, <1>6, <1>7

(* Commands of two bytes, and messages that have not come in full. *)
LEMMA CommandSteps ==
  ASSUME IInv, AnswersOK, slips = {}, slips' = {}, NEW k, Facing(k),
         TooShort \/ Quoted \/ Unknown \/ OptionMissing \/ SubMissing
  PROVE  Worked(k) \/ Waits(k)
  <1>1. CASE TooShort \/ OptionMissing \/ SubMissing
    <2>1. Wait /\ Status /\ Silent /\ Unread
      BY <1>1 DEF TooShort, OptionMissing, SubMissing
    <2> QED
      BY <2>1, WaitsLong
  <1>2. ASSUME Looping, Byte(0) = IAC, Have(2)
        PROVE  /\ k \in AllKinds /\ k \notin Shorts /\ Byte(1) = Encoding[k][2]
               /\ wp \in Nat /\ Len(work) \in Nat /\ wp + 2 <= Len(work) /\ connected
    <2>1. k \in AllKinds /\ wp \in Nat /\ Len(work) \in Nat /\ Encoding[k][1] = IAC
      BY <1>2, FacingFirst
    <2>2. k \notin Shorts
      BY <2>1, FirstBytes
    <2>3. Byte(1) = Encoding[k][2]
      BY <1>2, <2>2, FacingFirst
    <2> QED
      BY <1>2, <2>1, <2>2, <2>3 DEF Have, Looping
  <1>3. shown \o <<>> = shown /\ answers \o <<>> = answers
    BY Told
  <1>4. CASE Quoted
    <2>1. Command(IAC)
      BY <1>4 DEF Quoted
    <2>2. /\ k \in AllKinds /\ k \notin Shorts /\ Byte(1) = Encoding[k][2]
          /\ wp \in Nat /\ Len(work) \in Nat /\ wp + 2 <= Len(work) /\ connected
          /\ Encoding[k][2] = IAC
      BY <1>2, <2>1 DEF Command
    <2>3. k = "byte255"
      BY <2>2, SecondBytes
    <2>4. Len(Encoding[k]) = 2 /\ Meaning(k) = <<IAC>> /\ Answer(k, localEcho) = <<>>
      BY <2>2, <2>3, Lengths DEF Meaning, Answer
    <2>5. Status /\ Silent /\ Deliver(IAC, 2)
      BY <1>4 DEF Quoted
    <2>6. Append(shown, IAC) = shown \o <<IAC>>
      <3>1. IAC \in Byte8
        BY DEF IAC, Byte8
      <3> QED
        BY <3>1, Told
    <2>7. CASE Wait /\ Unread
      BY <2>5, <2>7, WaitsLong
    <2>8. CASE Skip(2) /\ shown' = Append(shown, IAC)
      <3>1. wp' = wp + Len(Encoding[k]) /\ wp' <= Len(work)
        BY <2>2, <2>4, <2>8 DEF Skip
      <3>2. shown' = shown \o Meaning(k)
        BY <2>4, <2>6, <2>8
      <3>3. answers' = answers \o Answer(k, localEcho)
        BY <1>3, <2>4, <2>5 DEF Silent
      <3>4. connected' /\ UNCHANGED <<localEcho, nego>>
        BY <2>2, <2>5, Zenon DEF Status
      <3> QED
        BY <2>2, <2>3, <3>1, <3>2, <3>3, <3>4, Zenon DEF Worked
    <2> QED
      BY <2>5, <2>7, <2>8 DEF Deliver
  <1>5. CASE Unknown
    <2>1. /\ Looping /\ Byte(0) = IAC /\ Have(2)
          /\ Byte(1) \notin {IAC, WILL, WONT, DO, DONT, SB}
      BY <1>5 DEF Unknown
    <2>2. /\ k \in AllKinds /\ k \notin Shorts /\ Byte(1) = Encoding[k][2]
          /\ wp \in Nat /\ Len(work) \in Nat /\ wp + 2 <= Len(work) /\ connected
      BY <1>2, <2>1
    <2>3. k = "nop"
      BY <2>1, <2>2, SecondBytes
    <2>4. Len(Encoding[k]) = 2 /\ Meaning(k) = <<>> /\ Answer(k, localEcho) = <<>>
      BY <2>2, <2>3, Lengths DEF Meaning, Answer
    <2>5. Status /\ Silent /\ Unread /\ Skip(2)
      BY <1>5 DEF Unknown
    <2>6. wp' = wp + Len(Encoding[k]) /\ wp' <= Len(work)
      BY <2>2, <2>4, <2>5 DEF Skip
    <2>7. answers' = answers \o Answer(k, localEcho)
      BY <1>3, <2>4, <2>5 DEF Silent
    <2> QED
      BY <1>3, <2>2, <2>3, <2>4, <2>5, <2>6, <2>7, WorkedLong, Zenon DEF Status
  <1> QED
    BY <1>1, <1>4, <1>5

(* A subnegotiation of which the end has come is all there, and the first end of one
   in the work buffer is its own. *)
LEMMA SubWhole ==
  ASSUME IInv, NEW k, Facing(k), Sub
  PROVE  /\ k \in Subs /\ k \in AllKinds /\ k \notin Shorts
         /\ wp \in Nat /\ Len(work) \in Nat /\ wp + Len(Encoding[k]) <= Len(work)
         /\ \A p \in 1..Len(Encoding[k]) : work[wp + p] = Encoding[k][p]
         /\ \A i \in SEs : IsFirst(i, SEs) => i + 1 = wp + Len(Encoding[k])
  <1> DEFINE L == Len(Encoding[k])
  <1>1. Looping /\ Byte(0) = IAC /\ Have(2) /\ Byte(1) = SB /\ SEs # {}
    BY DEF Sub, Command, SEPresent
  <1>2. k \in AllKinds /\ wp \in Nat /\ Len(work) \in Nat /\ Encoding[k][1] = IAC
    BY <1>1, FacingFirst
  <1>3. k \notin Shorts
    BY <1>2, FirstBytes
  <1>4. Encoding[k][2] = SB
    BY <1>1, <1>3, FacingFirst
  <1>5. k \in Subs
    BY <1>2, <1>3, <1>4, SecondBytes
  <1>6. /\ L \in 6..10 /\ Encoding[k][L - 1] = IAC /\ Encoding[k][L] = SE
        /\ \A p \in 1..L - 1 : Encoding[k][p] = IAC /\ Encoding[k][p + 1] = SE => p = L - 1
    BY <1>5, SubBytes
  <1> HIDE DEF L
  <1>7. \A p \in 1..L : wp + p <= Len(work) => work[wp + p] = Encoding[k][p]
    <2>1. \A p \in 1..L : Have(p) => Byte(p - 1) = Encoding[k][p]
      BY DEF Facing, L
    <2> SUFFICES ASSUME NEW p \in 1..L, wp + p <= Len(work)
                 PROVE  work[wp + p] = Encoding[k][p]
      OBVIOUS
    <2>2. wp + 1 + (p - 1) = wp + p
      BY <1>2, <1>6
    <2> QED
      BY <2>1, <2>2 DEF Byte, Have
  <1>8. \A i \in SEs : i \in wp + 1 .. Len(work) - 1 /\ work[i] = IAC /\ work[i + 1] = SE
    BY DEF SEs
  <1>9. ASSUME NEW i \in SEs, i + 1 <= wp + L PROVE i + 1 = wp + L
    <2> DEFINE p == i - wp
    <2>1. p \in 1..L - 1 /\ wp + p = i /\ wp + (p + 1) = i + 1 /\ i + 1 <= Len(work)
      <3>1. i \in wp + 1 .. Len(work) - 1 /\ L \in 6..10
        BY <1>6, <1>8
      <3> QED
        BY <1>2, <1>9, <3>1
    <2> HIDE DEF p
    <2>2. Encoding[k][p] = work[wp + p] /\ Encoding[k][p + 1] = work[wp + (p + 1)]
      BY <1>2, <1>6, <1>7, <2>1
    <2>3. p = L - 1
      BY <1>6, <1>8, <2>1, <2>2
    <2> QED
      BY <1>2, <1>6, <2>1, <2>3
  <1>10. wp + L <= Len(work)
    <2>1. PICK i \in SEs : TRUE
      BY <1>1
    <2>2. i + 1 <= Len(work) /\ i \in Nat
      BY <1>2, <1>8
    <2> QED
      BY <1>2, <1>6, <1>9, <2>1, <2>2
  <1>11. wp + L - 1 \in SEs
    <2>1. work[wp + (L - 1)] = IAC /\ work[wp + L] = SE
      BY <1>2, <1>6, <1>7, <1>10
    <2> QED
      BY <1>2, <1>6, <1>10, <2>1 DEF SEs
  <1>12. ASSUME NEW i \in SEs, IsFirst(i, SEs) PROVE i + 1 = wp + L
    <2>1. i <= wp + L - 1 /\ i \in Nat
      BY <1>2, <1>8, <1>11, <1>12 DEF IsFirst
    <2> QED
      BY <1>2, <1>6, <1>9, <2>1
  <1>13. \A p \in 1..L : work[wp + p] = Encoding[k][p]
    BY <1>2, <1>6, <1>7, <1>10
  <1> QED
    BY <1>2, <1>3, <1>5, <1>10, <1>12, <1>13 DEF L

(* With nothing wrong, the loop over pairs stops at the end of the message. *)
LEMMA PairsStop ==
  ASSUME IInv, NEW k, Facing(k), Sub, NEW j \in Nat, SkipPairs(j), slips = {}, slips' = {}
  PROVE  /\ wp' = wp + Len(Encoding[k]) /\ wp' <= Len(work)
         /\ PairStops(j) # {} /\ \A i \in PairStops(j) : wp + Len(Encoding[k]) - 1 <= i
         /\ wp + Len(Encoding[k]) - 1 \in PairStops(j)
  <1>0. /\ wp \in Nat /\ Len(work) \in Nat /\ wp + Len(Encoding[k]) <= Len(work)
        /\ \A i \in SEs : IsFirst(i, SEs) => i + 1 = wp + Len(Encoding[k])
        /\ Len(Encoding[k]) \in 6..10
    BY SubWhole, SubBytes
  <1>1. PICK i \in SEs : IsFirst(i, SEs) /\ wp' = i + 1
    BY DEF SkipPairs
  <1>2. wp' = wp + Len(Encoding[k])
    BY <1>0, <1>1
  <1>3. PICK m \in PairStops(j) : IsFirst(m, PairStops(j)) /\ wp' = m + 1
    BY <1>0, <1>2 DEF SkipPairs
  <1>4. m = wp + Len(Encoding[k]) - 1
    <2>1. m \in Int
      BY <1>0, <1>3 DEF PairStops
    <2> QED
      BY <1>0, <1>2, <1>3, <2>1
  <1> QED
    BY <1>0, <1>2, <1>3, <1>4 DEF IsFirst

(* Subnegotiations: without a slip the loops over pairs end at IAC SE. *)
LEMMA SubSteps ==
  ASSUME IInv, AnswersOK, slips = {}, slips' = {}, NEW k, Facing(k),
         AuthSend \/ AuthReply \/ TTypeSend \/ SubCommandUnknown \/ SubUnknown
  PROVE  Worked(k) \/ Waits(k)
  <1>0. Sub
    BY DEF AuthSend, AuthReply, TTypeSend, SubCommandUnknown, SubUnknown
  <1> DEFINE L == Len(Encoding[k])
  <1>1. /\ k \in Subs /\ k \in AllKinds /\ k \notin Shorts
        /\ wp \in Nat /\ Len(work) \in Nat /\ wp + L <= Len(work)
        /\ \A p \in 1..L : work[wp + p] = Encoding[k][p]
        /\ \A i \in SEs : IsFirst(i, SEs) => i + 1 = wp + L
    BY <1>0, SubWhole
  <1>2. L \in 6..10
    BY <1>1, SubBytes
  <1>a. wp \in Nat /\ Len(work) \in Nat /\ wp + L <= Len(work)
    BY <1>1
  <1>b. \A p \in 1..L : work[wp + p] = Encoding[k][p]
    BY <1>1
  <1> HIDE DEF L
  <1>3. \A j \in 0..5 : Byte(j) = Encoding[k][j + 1]
    <2> SUFFICES ASSUME NEW j \in 0..5 PROVE Byte(j) = Encoding[k][j + 1]
      OBVIOUS
    <2>1. j + 1 \in 1..L /\ wp + 1 + j = wp + (j + 1)
      BY <1>a, <1>2
    <2>2. work[wp + (j + 1)] = Encoding[k][j + 1]
      BY <1>b, <2>1
    <2> QED
      BY <2>1, <2>2 DEF Byte
  <1>4. Byte(2) = Encoding[k][3] /\ Byte(3) = Encoding[k][4]
    BY <1>3
  <1>5. shown \o <<>> = shown /\ answers \o <<>> = answers
    BY Told
  <1>6. connected /\ Unread /\ Fixed
    BY <1>0 DEF Sub, Command, Looping, AuthSend, AuthReply, TTypeSend, SubCommandUnknown,
                SubUnknown
  <1>7. Meaning(k) = <<>> /\ k \notin {"willEcho", "wontEcho"}
    BY <1>1 DEF Meaning, Subs
  <1>8. \A j \in {4, 7} : SkipPairs(j) =>
          /\ wp' = wp + L /\ wp' <= Len(work)
          /\ PairStops(j) # {} /\ \A i \in PairStops(j) : wp + L - 1 <= i
          /\ wp + L - 1 \in PairStops(j)
    BY <1>0, PairsStop DEF L
  <1>9. CASE AuthSend
    <2>1. k \in {"authSsl", "authNone"}
      BY <1>1, <1>4, <1>9, SubBytes DEF AuthSend
    <2>2. PICK stale \in BOOLEAN :
            LET ssl == SslUsable /\ (OffersSsl \/ (PairStops(4) = {} /\ stale)) IN
            \/ /\ Reply(<<SB, AUTH, IF ssl THEN SSL ELSE 0>>,
                        NameRoom + (IF ssl THEN 9 ELSE 8), NameRoom + 11)
               /\ SkipPairs(4)
            \/ /\ WriteSize - write < NameRoom + 11
               /\ Wait /\ Silent /\ UNCHANGED slips
      BY <1>9 DEF AuthSend
    <2> DEFINE ssl == SslUsable /\ (OffersSsl \/ (PairStops(4) = {} /\ stale))
    <2>3. Status
      BY <1>9 DEF AuthSend
    <2>4. CASE Wait /\ Silent
      BY <1>6, <2>3, <2>4, WaitsLong
    <2>5. CASE Reply(<<SB, AUTH, IF ssl THEN SSL ELSE 0>>,
                     NameRoom + (IF ssl THEN 9 ELSE 8), NameRoom + 11) /\ SkipPairs(4)
      <3>1. /\ wp' = wp + L /\ wp' <= Len(work)
            /\ PairStops(4) # {} /\ \A i \in PairStops(4) : wp + L - 1 <= i
            /\ wp + L - 1 \in PairStops(4)
        BY <1>8, <2>5
      <3>2. ssl <=> SslUsable /\ OffersSsl
        BY <3>1, Zenon
      <3>3. CASE k = "authSsl"
        <4>1. L = 10 /\ Encoding[k][7] = SSL /\ Encoding[k][8] = 0
          BY <3>3, <1>1, Lengths DEF Encoding, L
        <4>2. work[wp + 7] = SSL /\ work[wp + 8] = 0
          BY <1>b, <4>1
        <4>3. OffersSsl
          <5>2. wp + 7 + 1 = wp + 8
            BY <1>a
          <5>3. \A m \in PairStops(4) : wp + 7 < m
            <6>1. \A m \in PairStops(4) : m \in Int
              BY <1>a DEF PairStops
            <6> QED
              BY <1>a, <3>1, <4>1, <6>1
          <5>4. PICK i \in Int : i = wp + 7
            BY <1>a
          <5>5. i \in wp + 5 .. Len(work) - 1 /\ (i - (wp + 5)) % 2 = 0
            <6>1. i - (wp + 5) = 2 /\ i \in wp + 5 .. Len(work) - 1
              BY <1>a, <4>1, <5>4
            <6> QED
              BY <6>1
          <5>6. work[i] = SSL /\ work[i + 1] = 0
            BY <4>2, <5>2, <5>4
          <5>7. \A m \in PairStops(4) : i < m
            BY <5>3, <5>4
          <5> QED
            BY <5>5, <5>6, <5>7 DEF OffersSsl
        <4>4. (IF ssl THEN SSL ELSE 0) = (IF SslUsable THEN SSL ELSE 0)
          BY <3>2, <4>3, Zenon
        <4>5. <<SB, AUTH, IF SslUsable THEN SSL ELSE 0>> \in Seq(Byte8)
          BY DEF SB, AUTH, SSL, Byte8
        <4> HIDE DEF ssl
        <4>6. answers' = answers \o <<<<SB, AUTH, IF SslUsable THEN SSL ELSE 0>>>>
          BY <2>5, <4>4, <4>5, Replied
        <4>7. Answer(k, localEcho) = <<<<SB, AUTH, IF SslUsable THEN SSL ELSE 0>>>>
          BY <3>3 DEF Answer
        <4> QED
          BY <1>1, <1>5, <1>6, <1>7, <2>3, <3>1, <3>3, <4>6, <4>7, WorkedLong, Zenon
             DEF Status, L
      <3>4. CASE k = "authNone"
        <4>1. L = 8 /\ Encoding[k][5] = 1
          BY <3>4, <1>1, Lengths DEF Encoding, L
        <4>2. work[wp + 5] = 1
          BY <1>b, <4>1
        <4>3. ~OffersSsl
          <5> SUFFICES ASSUME OffersSsl PROVE FALSE
            OBVIOUS
          <5>1. PICK i \in wp + 5 .. Len(work) - 1 :
                   /\ (i - (wp + 5)) % 2 = 0
                   /\ \A m \in PairStops(4) : i < m
                   /\ work[i] = SSL
            BY DEF OffersSsl
          <5>2. i < wp + 7
            BY <1>a, <3>1, <4>1, <5>1
          <5>3. i \in {wp + 5, wp + 6}
            BY <1>a, <5>1, <5>2
          <5>4. ASSUME i = wp + 6 PROVE FALSE
            <6>1. i - (wp + 5) = 1
              BY <1>a, <5>4
            <6> QED
              BY <5>1, <6>1
          <5> QED
            BY <4>2, <5>1, <5>3, <5>4 DEF SSL
        <4>4. (IF ssl THEN SSL ELSE 0) = 0
          BY <3>2, <4>3, Zenon
        <4>5. <<SB, AUTH, 0>> \in Seq(Byte8)
          BY DEF SB, AUTH, Byte8
        <4> HIDE DEF ssl
        <4>6. answers' = answers \o <<<<SB, AUTH, 0>>>>
          BY <2>5, <4>4, <4>5, Replied
        <4>7. Answer(k, localEcho) = <<<<SB, AUTH, 0>>>>
          BY <3>4 DEF Answer
        <4> QED
          BY <1>1, <1>5, <1>6, <1>7, <2>3, <3>1, <3>4, <4>6, <4>7, WorkedLong, Zenon
             DEF Status, L
      <3> QED
        BY <2>1, <3>3, <3>4
    <2> QED
      BY <2>2, <2>4, <2>5
  <1>10. CASE AuthReply
    <2>1. k \in {"accept", "reject", "oddReply"}
      BY <1>1, <1>4, <1>10, SubBytes DEF AuthReply
    <2> DEFINE ssl == Byte(4) = SSL /\ Byte(5) = 0
    <2>2. /\ SkipPairs(IF ssl THEN 7 ELSE 4)
          /\ connected' = ~(ssl /\ Byte(6) = ACCEPT)
          /\ Silent /\ UNCHANGED <<nego, localEcho>>
      BY <1>10 DEF AuthReply
    <2>3. L = 9
      BY <1>1, <2>1, Lengths DEF L
    <2>4. wp' = wp + L /\ wp' <= Len(work)
      BY <1>8, <2>2
    <2>5. Answer(k, localEcho) = <<>>
      BY <2>1 DEF Answer
    <2>6. Byte(4) = Encoding[k][5] /\ Byte(5) = Encoding[k][6] /\ Byte(6) = Encoding[k][7]
      <3>1. Byte(4) = Encoding[k][5] /\ Byte(5) = Encoding[k][6]
        BY <1>3
      <3>2. work[wp + 7] = Encoding[k][7] /\ wp + 1 + 6 = wp + 7
        BY <1>a, <1>b, <2>3
      <3> QED
        BY <3>1, <3>2 DEF Byte
    <2>7. (ssl /\ Byte(6) = ACCEPT) <=> k = "accept"
      <3>1. CASE k = "accept"
        BY <2>6, <3>1 DEF Encoding
      <3>2. CASE k = "reject"
        BY <2>6, <3>2 DEF Encoding, ACCEPT
      <3>3. CASE k = "oddReply"
        BY <2>6, <3>3 DEF Encoding, SSL
      <3> QED
        BY <2>1, <3>1, <3>2, <3>3
    <2>8. (k = "accept" => ~connected') /\ (k # "accept" => connected')
      BY <2>2, <2>7, Zenon
    <2>9. shown' = shown \o Meaning(k) /\ answers' = answers \o Answer(k, localEcho)
      BY <1>5, <1>6, <1>7, <2>2, <2>5 DEF Silent, Unread
    <2> QED
      BY <1>1, <1>7, <2>2, <2>4, <2>8, <2>9, Zenon DEF Worked, L
  <1>11. CASE TTypeSend
    <2>1. k = "ttype"
      BY <1>1, <1>4, <1>11, SubBytes DEF TTypeSend
    <2>2. Status
      BY <1>11 DEF TTypeSend
    <2>3. CASE Reply(<<SB, TTYPE>>, 6 + TermLength, 6 + TermLength) /\ SkipPairs(4)
      <3>1. wp' = wp + L /\ wp' <= Len(work)
        BY <1>8, <2>3
      <3>2. <<SB, TTYPE>> \in Seq(Byte8)
        BY DEF SB, TTYPE, Byte8
      <3>3. answers' = answers \o <<<<SB, TTYPE>>>>
        BY <2>3, <3>2, Replied
      <3>4. Answer(k, localEcho) = <<<<SB, TTYPE>>>>
        BY <2>1 DEF Answer
      <3> QED
        BY <1>1, <1>5, <1>6, <1>7, <2>1, <2>2, <3>1, <3>3, <3>4, WorkedLong, Zenon
           DEF Status, L
    <2>4. CASE Wait /\ Silent
      BY <1>6, <2>2, <2>4, WaitsLong
    <2> QED
      BY <1>11, <2>3, <2>4 DEF TTypeSend
  <1>12. CASE SubCommandUnknown \/ SubUnknown
    BY <1>12 DEF SubCommandUnknown, SubUnknown
  <1> QED
    BY <1>9, <1>10, <1>11, <1>12
-----------------------------------------------------------------------------
LEMMA DropConcat ==
  ASSUME NEW S, NEW q \in Seq(S), NEW r \in Seq(S), NEW n \in 0..Len(q)
  PROVE  Drop(q \o r, n) = Drop(q, n) \o r
  <1>1. q \o r \in Seq(S) /\ Len(q \o r) = Len(q) + Len(r)
    OBVIOUS
  <1>2. /\ Drop(q \o r, n) \in Seq(S) /\ Len(Drop(q \o r, n)) = Len(q) + Len(r) - n
        /\ Drop(q, n) \o r \in Seq(S) /\ Len(Drop(q, n) \o r) = Len(q) + Len(r) - n
    BY <1>1 DEF Drop
  <1>3. ASSUME NEW i \in 1 .. Len(q) + Len(r) - n
        PROVE  Drop(q \o r, n)[i] = (Drop(q, n) \o r)[i]
    BY <1>1 DEF Drop
  <1> QED
    BY <1>2, <1>3, SameSeq

LEMMA DropDrop ==
  ASSUME NEW S, NEW q \in Seq(S), NEW m \in 0..Len(q), NEW n \in 0..Len(q) - m
  PROVE  Drop(Drop(q, m), n) = Drop(q, m + n)
  <1>1. Drop(q, m) \in Seq(S) /\ Len(Drop(q, m)) = Len(q) - m
    BY DEF Drop
  <1>2. /\ Drop(Drop(q, m), n) \in Seq(S) /\ Len(Drop(Drop(q, m), n)) = Len(q) - m - n
        /\ Drop(q, m + n) \in Seq(S) /\ Len(Drop(q, m + n)) = Len(q) - m - n
    BY <1>1 DEF Drop
  <1>3. ASSUME NEW i \in 1 .. Len(q) - m - n
        PROVE  Drop(Drop(q, m), n)[i] = Drop(q, m + n)[i]
    BY <1>1 DEF Drop
  <1> QED
    BY <1>2, <1>3, SameSeq

LEMMA DropEdges ==
  ASSUME NEW S, NEW q \in Seq(S)
  PROVE  Drop(q, 0) = q /\ Drop(q, Len(q)) = <<>>
  <1>1. /\ Drop(q, 0) \in Seq(S) /\ Len(Drop(q, 0)) = Len(q)
        /\ \A i \in 1..Len(q) : Drop(q, 0)[i] = q[i]
    BY DEF Drop
  <1>2. Drop(q, Len(q)) = <<>>
    BY DEF Drop
  <1> QED
    BY <1>1, <1>2, SameSeq

LEMMA SplitAt ==
  ASSUME NEW S, NEW q \in Seq(S), NEW n \in 0..Len(q)
  PROVE  SubSeq(q, 1, n) \o Drop(q, n) = q
  <1>1. /\ SubSeq(q, 1, n) \in Seq(S) /\ Len(SubSeq(q, 1, n)) = n
        /\ Drop(q, n) \in Seq(S) /\ Len(Drop(q, n)) = Len(q) - n
    BY DEF Drop
  <1>2. /\ SubSeq(q, 1, n) \o Drop(q, n) \in Seq(S)
        /\ Len(SubSeq(q, 1, n) \o Drop(q, n)) = Len(q)
    BY <1>1
  <1>3. ASSUME NEW i \in 1..Len(q) PROVE (SubSeq(q, 1, n) \o Drop(q, n))[i] = q[i]
    <2>1. CASE i <= n
      BY <1>1, <2>1
    <2>2. CASE i > n
      <3>1. Drop(q, n)[i - n] = q[i]
        BY <2>2 DEF Drop
      <3> QED
        BY <1>1, <2>2, <3>1
    <2>3. i <= n \/ i > n
      OBVIOUS
    <2> QED
      BY <2>1, <2>2, <2>3, Zenon
  <1> QED
    BY <1>2, <1>3, SameSeq

LEMMA Regroup ==
  ASSUME NEW S, NEW a \in Seq(S), NEW b \in Seq(S), NEW c \in Seq(S)
  PROVE  (a \o b) \o c = a \o (b \o c)
  <1>1. /\ (a \o b) \o c \in Seq(S) /\ a \o (b \o c) \in Seq(S)
        /\ Len((a \o b) \o c) = Len(a \o (b \o c))
    OBVIOUS
  <1>2. ASSUME NEW i \in 1 .. Len((a \o b) \o c)
        PROVE  ((a \o b) \o c)[i] = (a \o (b \o c))[i]
    OBVIOUS
  <1> QED
    BY <1>1, <1>2, SameSeq
-----------------------------------------------------------------------------
DialogueState == [end : Nat, bytes : Seq(Byte8), answers : Seq(Seq(Byte8)),
                  echo : BOOLEAN, greeting : BOOLEAN]

ServerOK ==
  /\ sent \in Seq(Kinds) /\ stream \in Seq(Byte8)
  /\ dialogue \in Seq(DialogueState) /\ Len(dialogue) = Len(sent) + 1

(* Each message follows the one before it in the stream, and the stream ends with
   the last. *)
Ledger ==
  /\ \A i \in 1..Len(sent) : dialogue[i + 1] = After(dialogue[i], sent[i])
  /\ \A i \in 1..Len(sent) : \A p \in 1..Len(Encoding[sent[i]]) :
        stream[dialogue[i].end + p] = Encoding[sent[i]][p]
  /\ \A i \in 1..Len(sent) : dialogue[i].end < Len(stream)
  /\ dialogue[Len(sent) + 1].end = Len(stream)

LEMMA MeaningIs ==
  ASSUME NEW k \in AllKinds
  PROVE  Meaning(k) \in Seq(Byte8)
  <1>1. Meaning(k) \in {<<x>>, <<DEL>>, <<LF>>, <<CR>>, <<IAC>>, <<>>}
    BY DEF Meaning
  <1>2. \A b \in Byte8 : <<b>> \in Seq(Byte8)
    OBVIOUS
  <1>3. {x, DEL, LF, CR, IAC} \subseteq Byte8
    BY DEF Byte8, x, DEL, LF, CR, IAC
  <1>4. <<>> \in Seq(Byte8)
    OBVIOUS
  <1> QED
    BY <1>1, <1>2, <1>3, <1>4, Zenon

LEMMA AnswerIs ==
  ASSUME NEW k \in AllKinds, NEW e \in BOOLEAN
  PROVE  Answer(k, e) \in Seq(Seq(Byte8))
  <1>1. {WILL, WONT, DO, DONT, SB, ECHO, SGA, AUTH, TTYPE, SSL, 0} \subseteq Byte8
    BY DEF Byte8, DO, DONT, WILL, WONT, ECHO, SGA, AUTH, TTYPE, SB, SSL
  <1>2. \A a \in Byte8, b \in Byte8 : <<a, b>> \in Seq(Byte8)
    OBVIOUS
  <1>3. \A a \in Byte8, b \in Byte8, c \in Byte8 : <<a, b, c>> \in Seq(Byte8)
    OBVIOUS
  <1>4. \/ Answer(k, e) = <<>>
        \/ \E a, b \in {WILL, WONT, DO, DONT, SB, ECHO, SGA, AUTH, TTYPE} :
              Answer(k, e) = <<<<a, b>>>>
        \/ \E c \in {SSL, 0} : Answer(k, e) = <<<<SB, AUTH, c>>>>
    BY DEF Answer
  <1>5. \A a \in Seq(Byte8) : <<a>> \in Seq(Seq(Byte8))
    OBVIOUS
  <1>6. CASE Answer(k, e) = <<>>
    BY <1>6
  <1>7. ASSUME NEW a \in {WILL, WONT, DO, DONT, SB, ECHO, SGA, AUTH, TTYPE},
               NEW b \in {WILL, WONT, DO, DONT, SB, ECHO, SGA, AUTH, TTYPE},
               Answer(k, e) = <<<<a, b>>>>
        PROVE  Answer(k, e) \in Seq(Seq(Byte8))
    <2>1. a \in Byte8 /\ b \in Byte8
      BY <1>1
    <2> QED
      BY <1>2, <1>5, <1>7, <2>1, Zenon
  <1>8. ASSUME NEW c \in {SSL, 0}, Answer(k, e) = <<<<SB, AUTH, c>>>>
        PROVE  Answer(k, e) \in Seq(Seq(Byte8))
    <2>1. SB \in Byte8 /\ AUTH \in Byte8 /\ c \in Byte8
      BY <1>1
    <2> QED
      BY <1>3, <1>5, <1>8, <2>1, Zenon
  <1> QED
    BY <1>4, <1>6, <1>7, <1>8, Zenon

LEMMA AfterIs ==
  ASSUME NEW st \in DialogueState, NEW k \in AllKinds
  PROVE  /\ After(st, k) \in DialogueState
         /\ After(st, k).end = st.end + Len(Encoding[k])
         /\ After(st, k).bytes = st.bytes \o Meaning(k)
         /\ After(st, k).answers = st.answers \o Answer(k, st.echo)
         /\ After(st, k).echo = EchoAfter(k, st.echo, st.greeting)
         /\ After(st, k).greeting = IF k \in Shorts THEN FALSE
                                    ELSE st.greeting \/ k = "accept"
  <1>1. /\ st.end \in Nat /\ st.bytes \in Seq(Byte8) /\ st.answers \in Seq(Seq(Byte8))
        /\ st.echo \in BOOLEAN /\ st.greeting \in BOOLEAN
    BY DEF DialogueState
  <1>2. st.end + Len(Encoding[k]) \in Nat
    BY <1>1, Lengths
  <1>3. st.bytes \o Meaning(k) \in Seq(Byte8)
    BY <1>1, MeaningIs
  <1>4. st.answers \o Answer(k, st.echo) \in Seq(Seq(Byte8))
    BY <1>1, AnswerIs
  <1>5. EchoAfter(k, st.echo, st.greeting) \in BOOLEAN
    <2>1. EchoAfter(k, st.echo, st.greeting) \in {TRUE, FALSE, st.echo, st.echo \/ ~st.greeting}
      BY DEF EchoAfter
    <2> QED
      BY <1>1, <2>1
  <1>6. (IF k \in Shorts THEN FALSE ELSE st.greeting \/ k = "accept") \in BOOLEAN
    BY <1>1
  <1> QED
    BY <1>2, <1>3, <1>4, <1>5, <1>6 DEF After, DialogueState, Shorts

LEMMA AfterEnd ==
  ASSUME NEW st \in DialogueState, NEW k \in AllKinds
  PROVE  After(st, k) \in DialogueState /\ After(st, k).end = st.end + Len(Encoding[k])
  BY AfterIs, Zenon

LEMMA InitLedger == Init => ServerOK /\ Ledger /\ AnswersOK
  <1> SUFFICES ASSUME Init PROVE ServerOK /\ Ledger /\ AnswersOK
    OBVIOUS
  <1>1. sent = <<>> /\ stream = <<>> /\ dialogue = <<Opening>> /\ answers = <<>>
    BY DEF Init
  <1>2. Opening \in DialogueState /\ Opening.end = 0
    BY DEF Opening, DialogueState
  <1> QED
    BY <1>1, <1>2 DEF ServerOK, Ledger, AnswersOK

LEMMA LedgerFacts ==
  ASSUME ServerOK, Ledger, NEW i \in 1 .. Len(sent) + 1
  PROVE  /\ dialogue[i] \in DialogueState /\ dialogue[i].end \in Nat
         /\ dialogue[i].end <= Len(stream) /\ Len(stream) \in Nat
         /\ i # Len(sent) + 1 =>
              /\ i \in 1..Len(sent) /\ sent[i] \in Kinds /\ sent[i] \in AllKinds
              /\ dialogue[i + 1].end = dialogue[i].end + Len(Encoding[sent[i]])
              /\ dialogue[i].end < Len(stream)
              /\ dialogue[i].end + Len(Encoding[sent[i]]) <= Len(stream)
  <1>1. Len(sent) \in Nat /\ Len(stream) \in Nat /\ Len(dialogue) = Len(sent) + 1
    BY DEF ServerOK
  <1>2. \A m \in 1 .. Len(sent) + 1 :
           /\ dialogue[m] \in DialogueState /\ dialogue[m].end \in Nat
           /\ dialogue[m].end <= Len(stream)
    <2> SUFFICES ASSUME NEW m \in 1 .. Len(sent) + 1
                 PROVE  /\ dialogue[m] \in DialogueState /\ dialogue[m].end \in Nat
                        /\ dialogue[m].end <= Len(stream)
      OBVIOUS
    <2>1. dialogue[m] \in DialogueState
      BY <1>1 DEF ServerOK
    <2>2. dialogue[m].end \in Nat
      BY <2>1 DEF DialogueState
    <2>3. CASE m = Len(sent) + 1
      BY <1>1, <2>1, <2>2, <2>3 DEF Ledger
    <2>4. CASE m # Len(sent) + 1
      <3>1. m \in 1..Len(sent)
        BY <1>1, <2>4
      <3>2. dialogue[m].end < Len(stream)
        BY <3>1 DEF Ledger
      <3> QED
        BY <1>1, <2>1, <2>2, <3>2
    <2> QED
      BY <2>3, <2>4
  <1>3. ASSUME i # Len(sent) + 1
        PROVE  /\ i \in 1..Len(sent) /\ sent[i] \in Kinds /\ sent[i] \in AllKinds
               /\ dialogue[i + 1].end = dialogue[i].end + Len(Encoding[sent[i]])
               /\ dialogue[i].end < Len(stream)
               /\ dialogue[i].end + Len(Encoding[sent[i]]) <= Len(stream)
    <2>1. i \in 1..Len(sent) /\ i + 1 \in 1 .. Len(sent) + 1
      BY <1>1, <1>3
    <2>2. sent[i] \in Kinds /\ sent[i] \in AllKinds
      BY <2>1, KindsAssumption DEF ServerOK
    <2>3. dialogue[i + 1] = After(dialogue[i], sent[i]) /\ dialogue[i].end < Len(stream)
      BY <2>1 DEF Ledger
    <2>4. After(dialogue[i], sent[i]).end = dialogue[i].end + Len(Encoding[sent[i]])
      <3>1. dialogue[i] \in DialogueState
        BY <1>2
      <3> QED
        BY <2>2, <3>1, AfterEnd
    <2>5. dialogue[i + 1].end <= Len(stream)
      BY <1>2, <2>1
    <2> QED
      BY <2>1, <2>2, <2>3, <2>4, <2>5
  <1> QED
    BY <1>1, <1>2, <1>3

LEMMA SendLedger ==
  ASSUME ServerOK, Ledger, NEW k \in Kinds, Send(k)
  PROVE  /\ ServerOK' /\ Ledger'
         /\ \A i \in 1 .. Len(sent) + 1 : dialogue'[i] = dialogue[i]
  <1> DEFINE n == Len(sent)
             st == After(Last(dialogue), k)
  <1>1. /\ k \in AllKinds /\ Encoding[k] \in Seq(Byte8) /\ Len(Encoding[k]) \in 1..10
    BY KindsAssumption, EncodingBytes, Lengths
  <1>2. n \in Nat /\ Len(dialogue) = n + 1 /\ n + 1 \in 1 .. n + 1
    BY DEF ServerOK
  <1>3. /\ sent' = Append(sent, k) /\ stream' = stream \o Encoding[k]
        /\ dialogue' = Append(dialogue, st)
    BY DEF Send
  <1>4. /\ dialogue[n + 1] \in DialogueState /\ dialogue[n + 1].end = Len(stream)
        /\ Len(stream) \in Nat
    BY <1>2, LedgerFacts DEF Ledger
  <1>5. st = After(dialogue[n + 1], k)
    BY <1>2 DEF Last
  <1> HIDE DEF st
  <1>6. st \in DialogueState /\ st.end = Len(stream) + Len(Encoding[k])
    <2>1. k \in AllKinds
      BY <1>1
    <2> QED
      BY <1>4, <1>5, <2>1, AfterEnd
  <1>7. /\ Len(sent') = n + 1 /\ Len(dialogue') = n + 2
        /\ \A i \in 1..n : sent'[i] = sent[i]
        /\ sent'[n + 1] = k
        /\ \A i \in 1 .. n + 1 : dialogue'[i] = dialogue[i]
        /\ dialogue'[n + 2] = st
    BY <1>2, <1>3 DEF ServerOK
  <1>8. ServerOK'
    BY <1>1, <1>2, <1>3, <1>6, <1>7 DEF ServerOK
  <1>9. /\ Len(stream') = Len(stream) + Len(Encoding[k])
        /\ \A i \in 1..Len(stream) : stream'[i] = stream[i]
        /\ \A p \in 1..Len(Encoding[k]) : stream'[Len(stream) + p] = Encoding[k][p]
    BY <1>1, <1>3 DEF ServerOK
  <1> HIDE DEF n
  <1>10. ASSUME NEW i \in 1 .. n + 1
         PROVE  /\ dialogue'[i + 1] = After(dialogue'[i], sent'[i])
                /\ \A p \in 1..Len(Encoding[sent'[i]]) :
                      stream'[dialogue'[i].end + p] = Encoding[sent'[i]][p]
                /\ dialogue'[i].end < Len(stream')
    <2>1. CASE i = n + 1
      <3>1. sent'[i] = k /\ dialogue'[i] = dialogue[n + 1] /\ dialogue'[i + 1] = st
        <4>1. i + 1 = n + 2
          BY <1>2, <2>1
        <4> QED
          BY <1>2, <1>7, <2>1, <4>1
      <3>2. Len(stream) < Len(stream')
        <4>1. PICK m \in 1..10 : m = Len(Encoding[k])
          BY <1>1
        <4>2. Len(stream') = Len(stream) + m /\ Len(stream) \in Nat
          BY <1>4, <1>9, <4>1
        <4> HIDE DEF n
        <4> QED
          BY <4>2
      <3> QED
        BY <1>4, <1>5, <1>9, <3>1, <3>2
    <2>2. CASE i # n + 1
      <3>1. i \in 1..n /\ i + 1 \in 1 .. n + 1
        BY <1>2, <2>2
      <3>2. sent'[i] = sent[i] /\ dialogue'[i] = dialogue[i] /\ dialogue'[i + 1] = dialogue[i + 1]
        BY <1>7, <3>1
      <3>3. dialogue[i + 1] = After(dialogue[i], sent[i])
        BY <3>1 DEF Ledger, n
      <3>4. /\ dialogue[i].end \in Nat /\ dialogue[i].end < Len(stream)
            /\ dialogue[i].end + Len(Encoding[sent[i]]) <= Len(stream)
            /\ Len(Encoding[sent[i]]) \in 1..10
        BY <2>2, LedgerFacts, Lengths DEF n
      <3>5. ASSUME NEW p \in 1..Len(Encoding[sent[i]])
            PROVE  stream'[dialogue[i].end + p] = Encoding[sent[i]][p]
        <4>1. dialogue[i].end + p \in 1..Len(stream)
          BY <1>4, <3>4
        <4>2. stream[dialogue[i].end + p] = Encoding[sent[i]][p]
          BY <3>1 DEF Ledger, n
        <4> QED
          BY <1>9, <4>1, <4>2
      <3>6. dialogue[i].end < Len(stream')
        <4>1. Len(Encoding[k]) \in 1..10 /\ Len(stream') = Len(stream) + Len(Encoding[k])
          BY <1>1, <1>9
        <4> QED
          BY <1>4, <3>4, <4>1
      <3> QED
        BY <3>2, <3>3, <3>5, <3>6
    <2> QED
      BY <2>1, <2>2
  <1>11. dialogue'[n + 2].end = Len(stream')
    BY <1>6, <1>7, <1>9
  <1>12. Ledger'
    <2>1. Len(sent') = n + 1 /\ (n + 1) + 1 = n + 2
      BY <1>2, <1>7
    <2> QED
      BY <1>10, <1>11, <2>1 DEF Ledger
  <1> QED
    BY <1>7, <1>8, <1>12 DEF n

(* Without a slip the counter is a position, and what is pending is easily told. *)
LEMMA PendingIs ==
  ASSUME IInv, slips = {}
  PROVE  /\ wp \in 0..Len(work) /\ Len(work) \in Nat
         /\ Pending = Drop(work, wp) \o net /\ Pending \in Seq(Byte8)
         /\ Len(Pending) = Len(work) - wp + Len(net)
         /\ \A p \in 1 .. Len(work) - wp : Pending[p] = work[wp + p]
  <1>1. /\ wp \in 0..Len(work) /\ Len(work) \in Nat /\ work \in Seq(Byte8) /\ net \in Seq(Byte8)
    BY DEF IInv, Position, TypeOK, BuffersOK, CountsOK
  <1>2. Pending = Drop(work, wp) \o net
    BY <1>1 DEF Pending, Unworked, Least
  <1>3. Drop(work, wp) \in Seq(Byte8) /\ Len(Drop(work, wp)) = Len(work) - wp
    BY <1>1, DropIs
  <1>4. \A p \in 1 .. Len(work) - wp : Drop(work, wp)[p] = work[wp + p]
    BY <1>1 DEF Drop
  <1>5. Pending \in Seq(Byte8) /\ Len(Pending) = Len(work) - wp + Len(net)
    <2>1. PICK d \in Seq(Byte8) : d = Drop(work, wp)
      BY <1>3
    <2>2. d \o net \in Seq(Byte8) /\ Len(d \o net) = Len(d) + Len(net)
      BY <1>1
    <2> QED
      BY <1>2, <1>3, <2>1, <2>2
  <1>6. ASSUME NEW p \in 1 .. Len(work) - wp PROVE Pending[p] = work[wp + p]
    BY <1>1, <1>2, <1>3, <1>4
  <1> QED
    BY <1>1, <1>2, <1>5, <1>6

(* If the messages up to j are worked on, what follows in the work buffer is the next
   one, as far as it has come. *)
LEMMA Faced ==
  ASSUME IInv, slips = {}, ServerOK, Ledger, NEW j \in 0..Len(sent), At(j), wp < Len(work)
  PROVE  j < Len(sent) /\ Facing(sent[j + 1])
  <1> DEFINE e == dialogue[j + 1].end
             k == sent[j + 1]
  <1>1. /\ wp \in 0..Len(work) /\ Len(work) \in Nat /\ Len(sent) \in Nat
        /\ Len(Pending) = Len(work) - wp + Len(net) /\ Len(net) \in Nat
        /\ \A p \in 1 .. Len(work) - wp : Pending[p] = work[wp + p]
    BY PendingIs DEF IInv, TypeOK, BuffersOK, ServerOK
  <1>2. Pending = Drop(stream, e) /\ stream \in Seq(Byte8) /\ Len(stream) \in Nat
    BY DEF At, Dialogue, ServerOK
  <1>3. e \in Nat /\ e <= Len(stream) /\ j + 1 \in 1 .. Len(sent) + 1
    BY <1>1, LedgerFacts
  <1> HIDE DEF e
  <1>4. /\ Len(Pending) = Len(stream) - e
        /\ \A p \in 1 .. Len(stream) - e : Pending[p] = stream[e + p]
    BY <1>2, <1>3 DEF Drop
  <1>5. j < Len(sent)
    <2>1. CASE j = Len(sent)
      <3>1. e = Len(stream)
        BY <2>1 DEF e, Ledger
      <3> QED
        BY <1>1, <1>2, <1>4, <3>1
    <2> QED
      BY <1>1, <2>1
  <1>6. /\ j + 1 \in 1..Len(sent) /\ k \in Kinds /\ k \in AllKinds
        /\ e + Len(Encoding[k]) <= Len(stream)
    <2>1. j + 1 # Len(sent) + 1
      BY <1>1, <1>5
    <2> QED
      BY <1>3, <2>1, LedgerFacts DEF e
  <1>7. \A p \in 1..Len(Encoding[k]) : stream[e + p] = Encoding[k][p]
    BY <1>6 DEF Ledger, e
  <1>8. PICK m \in 1..10 : m = Len(Encoding[k])
    BY <1>6, Lengths
  <1> HIDE DEF k
  <1>9. ASSUME NEW p \in 1..m, wp + p <= Len(work)
        PROVE  work[wp + 1 + (p - 1)] = Encoding[k][p]
    <2>1. p \in 1 .. Len(work) - wp /\ p \in 1 .. Len(stream) - e /\ wp + 1 + (p - 1) = wp + p
      BY <1>1, <1>2, <1>3, <1>6, <1>8, <1>9
    <2>2. Pending[p] = work[wp + p] /\ Pending[p] = stream[e + p]
      BY <1>1, <1>4, <2>1
    <2>3. stream[e + p] = Encoding[k][p]
      BY <1>7, <1>8
    <2> QED
      BY <2>1, <2>2, <2>3
  <1>10. Facing(k)
    BY <1>6, <1>8, <1>9 DEF Facing, Have, Byte
  <1> QED
    BY <1>5, <1>10 DEF k

LEMMA Onward ==
  ASSUME IInv, slips = {}, ServerOK, Ledger, NEW j \in 0 .. Len(sent) - 1, At(j),
         UNCHANGED <<work, net, server>>, wp' = wp + Len(Encoding[sent[j + 1]]),
         wp' <= Len(work)
  PROVE  At(j + 1)'
  <1> DEFINE e == dialogue[j + 1].end
             k == sent[j + 1]
  <1>1. /\ wp \in 0..Len(work) /\ Len(work) \in Nat /\ Len(sent) \in Nat
        /\ work \in Seq(Byte8) /\ net \in Seq(Byte8)
    BY PendingIs DEF IInv, TypeOK, BuffersOK, ServerOK
  <1>a. Pending = Drop(work, wp) \o net
    BY PendingIs
  <1>2. Pending = Drop(stream, e) /\ stream \in Seq(Byte8) /\ Len(stream) \in Nat
    BY DEF At, Dialogue, ServerOK
  <1>3. /\ j + 1 \in 1 .. Len(sent) + 1 /\ j + 1 # Len(sent) + 1
    BY <1>1
  <1>4. /\ e \in Nat /\ e <= Len(stream) /\ k \in AllKinds
        /\ dialogue[j + 2].end = e + Len(Encoding[k])
        /\ e + Len(Encoding[k]) <= Len(stream)
    <2>1. j + 1 + 1 = j + 2
      BY <1>1
    <2> QED
      BY <1>3, <2>1, LedgerFacts
  <1>5. PICK m \in 1..10 : m = Len(Encoding[k])
    BY <1>4, Lengths
  <1>6. /\ wp' = wp + m /\ wp + m <= Len(work) /\ dialogue[j + 2].end = e + m
        /\ e + m <= Len(stream)
    BY <1>4, <1>5
  <1>b. wp + m <= Len(work)
    BY <1>6
  <1>c. /\ wp + m \in Int /\ Len(work) \in Int /\ m \in 0 .. Len(work) - wp
    BY <1>1, <1>b
  <1>7. Pending' = Drop(work, wp + m) \o net
    <2>1. Least(wp + m, Len(work)) = wp + m
      BY <1>b, <1>c, LeastFirst
    <2> QED
      BY <1>6, <2>1 DEF Pending, Unworked
  <1>8. Drop(work, wp + m) = Drop(Drop(work, wp), m)
    <2> QED
      BY <1>1, <1>c, DropDrop
  <1>9. Drop(stream, e + m) = Drop(Drop(stream, e), m)
    <2>1. m \in 0 .. Len(stream) - e /\ e \in 0..Len(stream)
      <3> HIDE DEF e
      <3>1. e \in Nat /\ e <= Len(stream) /\ Len(stream) \in Nat
        BY <1>2, <1>4
      <3> QED
        BY <1>6, <3>1
    <2> QED
      BY <1>2, <2>1, DropDrop
  <1>10. Drop(Drop(work, wp) \o net, m) = Drop(Drop(work, wp), m) \o net
    <2>1. Drop(work, wp) \in Seq(Byte8) /\ Len(Drop(work, wp)) = Len(work) - wp
      BY <1>1, DropIs
    <2>2. m \in 0 .. Len(Drop(work, wp))
      BY <1>c, <2>1
    <2> QED
      BY <1>1, <2>1, <2>2, DropConcat
  <1>11. Pending' = Drop(stream, dialogue[j + 2].end)
    BY <1>2, <1>a, <1>6, <1>7, <1>8, <1>9, <1>10
  <1>12. stream' = stream /\ dialogue' = dialogue /\ j + 1 + 1 = j + 2
    BY DEF server
  <1> QED
    BY <1>11, <1>12 DEF At, Dialogue
-----------------------------------------------------------------------------
(* NEGOTIATING says that the greeting still stands. *)
Greets(j) == \/ nego <=> Dialogue(j).greeting
             \/ ~nego /\ j < Len(sent) /\ sent[j + 1] = "rubout"

(* The messages up to j are worked on and no other, and nothing is told, answered or
   echoed but what they ask for.  A session that is not connected has come to an
   acceptance of SSL, whatever has come behind it. *)
Stands(j) ==
  /\ At(j)
  /\ shown = Dialogue(j).bytes
  /\ answers = Dialogue(j).answers
  /\ connected => (localEcho <=> Dialogue(j).echo) /\ Greets(j)
  /\ ~connected => Dialogue(j).greeting /\ (Dialogue(j).echo <=> localEcho \/ ~nego)

LEMMA RoundFixed == ASSUME Round PROVE Fixed
  BY DEF Round, Subnegotiation, Null, Rubout, NewLine, BareReturn, Letter, TooShort, Quoted,
         Unknown, OptionMissing, WillOption, WontOption, DoOption, DontOption, SubMissing,
         AuthSend, AuthReply, TTypeSend, SubCommandUnknown, SubUnknown

(* A round without a slip works on the message it faces, or on nothing. *)
LEMMA RoundSteps ==
  ASSUME IInv, AnswersOK, slips = {}, slips' = {}, NEW k, Facing(k), Round
  PROVE  Worked(k) \/ Waits(k)
  BY ShortSteps, CommandSteps, OptionSteps, SubSteps DEF Round, Subnegotiation

LEMMA WaitStands ==
  ASSUME NEW j \in 0..Len(sent), Stands(j), Fixed, connected, Waits(sent[j + 1]),
         j < Len(sent)
  PROVE  Stands(j)'
  <1>1. /\ UNCHANGED <<sent, stream, dialogue, work, net, wp, shown, answers, connected,
                       localEcho>>
        /\ UNCHANGED nego \/ (sent[j + 1] = "rubout" /\ ~nego')
    BY DEF Fixed, Waits, server
  <1>2. At(j)'
    BY <1>1 DEF Stands, At, Dialogue, Pending, Unworked
  <1>3. Greets(j)'
    BY <1>1 DEF Stands, Greets, Dialogue
  <1> QED
    BY <1>1, <1>2, <1>3 DEF Stands, Dialogue

LEMMA WorkedStands ==
  ASSUME IInv, slips = {}, ServerOK, Ledger, AnswersOK, NEW j \in 0..Len(sent), Stands(j),
         Fixed, connected, Worked(sent[j + 1]), j < Len(sent)
  PROVE  j + 1 \in 0..Len(sent) /\ Stands(j + 1)'
  <1> DEFINE k == sent[j + 1]
             d == dialogue[j + 1]
             f == dialogue[j + 2]
  <1>1. UNCHANGED <<sent, stream, dialogue, work, net>>
    BY DEF Fixed, server
  <1>2. /\ Len(sent) \in Nat /\ j + 1 \in 0..Len(sent) /\ j + 1 \in 1 .. Len(sent) + 1
        /\ j + 1 # Len(sent) + 1 /\ j + 1 + 1 = j + 2 /\ j \in 0 .. Len(sent) - 1
    BY DEF ServerOK
  <1>3. d \in DialogueState /\ k \in AllKinds
    BY <1>2, LedgerFacts
  <1>4. f = After(d, k)
    BY <1>2 DEF Ledger
  <1>5. /\ d.echo \in BOOLEAN /\ d.greeting \in BOOLEAN
        /\ localEcho \in BOOLEAN /\ nego \in BOOLEAN
    BY <1>3 DEF DialogueState, IInv, TypeOK, BitsOK
  <1>6. /\ shown = d.bytes /\ answers = d.answers /\ localEcho = d.echo
        /\ k # "rubout" => nego = d.greeting
    BY <1>5 DEF Stands, Greets, Dialogue
  <1>7. At(j + 1)'
    <2>1. At(j)
      BY DEF Stands
    <2>2. UNCHANGED <<work, net, server>>
      BY DEF Fixed
    <2> QED
      BY <1>2, <2>1, <2>2, Onward DEF Worked
  <1>8. Dialogue(j + 1)' = f
    BY <1>1, <1>2 DEF Dialogue
  <1>9. /\ f.bytes = d.bytes \o Meaning(k) /\ f.answers = d.answers \o Answer(k, d.echo)
        /\ f.echo = EchoAfter(k, d.echo, d.greeting)
        /\ f.greeting = IF k \in Shorts THEN FALSE ELSE d.greeting \/ k = "accept"
    <2> HIDE DEF d, k, f
    <2>1. /\ After(d, k).bytes = d.bytes \o Meaning(k)
          /\ After(d, k).answers = d.answers \o Answer(k, d.echo)
          /\ After(d, k).echo = EchoAfter(k, d.echo, d.greeting)
          /\ After(d, k).greeting = IF k \in Shorts THEN FALSE
                                    ELSE d.greeting \/ k = "accept"
      BY <1>3, AfterIs, Zenon
    <2> QED
      BY <1>4, <2>1, Zenon
  <1> HIDE DEF k, d, f
  <1>10. shown' = f.bytes /\ answers' = f.answers
    BY <1>6, <1>9 DEF Worked, k
  <1>11. ASSUME k # "accept"
         PROVE  connected' /\ (localEcho' <=> f.echo) /\ (nego' <=> f.greeting)
    <2>1. connected'
      BY <1>11 DEF Worked, k
    <2>2. localEcho' <=> f.echo
      <3>1. CASE k = "willEcho"
        <4>1. f.echo = FALSE
          BY <1>9, <3>1 DEF EchoAfter
        <4> QED
          BY <3>1, <4>1 DEF Worked, k
      <3>2. CASE k = "wontEcho"
        <4>1. f.echo = TRUE
          BY <1>9, <3>2 DEF EchoAfter
        <4> QED
          BY <3>2, <4>1 DEF Worked, k
      <3>3. CASE k \notin {"willEcho", "wontEcho"}
        <4>1. f.echo = d.echo
          BY <1>9, <1>11, <3>3 DEF EchoAfter
        <4>2. localEcho' = localEcho
          BY <3>3 DEF Worked, k
        <4> QED
          BY <1>6, <4>1, <4>2
      <3> QED
        BY <3>1, <3>2, <3>3
    <2>3. nego' <=> f.greeting
      <3>1. CASE k \in Shorts
        <4>1. f.greeting = FALSE
          BY <1>9, <3>1
        <4> QED
          BY <3>1, <4>1 DEF Worked, k
      <3>2. CASE k \notin Shorts
        <4>1. f.greeting = (d.greeting \/ k = "accept")
          BY <1>9, <3>2, Zenon
        <4>2. nego' = nego
          BY <3>2 DEF Worked, k
        <4>3. nego = d.greeting
          BY <1>6, <3>2 DEF Shorts
        <4> QED
          BY <1>11, <4>1, <4>2, <4>3, Zenon
      <3> QED
        BY <3>1, <3>2
    <2> QED
      BY <2>1, <2>2, <2>3
  <1>12. ASSUME k = "accept"
         PROVE  ~connected' /\ f.greeting /\ (f.echo <=> localEcho' \/ ~nego')
    <2>1. ~connected' /\ localEcho' = localEcho /\ nego' = nego
      BY <1>12 DEF Worked, k, Shorts
    <2>2. k \notin Shorts /\ k # "rubout"
      BY <1>12 DEF Shorts
    <2>3. f.greeting
      BY <1>9, <1>12, <2>2, Zenon
    <2>4. f.echo = (d.echo \/ ~d.greeting)
      BY <1>9, <1>12 DEF EchoAfter
    <2> QED
      BY <1>6, <2>1, <2>2, <2>3, <2>4, Zenon
  <1>13. /\ connected' => (localEcho' <=> Dialogue(j + 1)'.echo) /\ Greets(j + 1)'
         /\ ~connected' => /\ Dialogue(j + 1)'.greeting
                           /\ Dialogue(j + 1)'.echo <=> localEcho' \/ ~nego'
    <2>1. CASE k = "accept"
      BY <1>8, <1>12, <2>1, Zenon
    <2>2. CASE k # "accept"
      BY <1>8, <1>11, <2>2, Zenon DEF Greets
    <2> QED
      BY <2>1, <2>2
  <1> QED
    BY <1>1, <1>2, <1>7, <1>8, <1>10, <1>13 DEF Stands

(* The inductive invariant of the stream. *)
SomewhereStands == slips = {} /\ ~raw => \E j \in 0..Len(sent) : Stands(j)
RawCopied == raw => connected /\ shown \o Pending = stream
StreamInv == ServerOK /\ Ledger /\ AnswersOK /\ SomewhereStands /\ RawCopied

LEMMA InitStream == Init => StreamInv
  <1> SUFFICES ASSUME Init PROVE StreamInv
    OBVIOUS
  <1>1. ServerOK /\ Ledger /\ AnswersOK
    BY InitLedger
  <1>2. Pending = <<>> \o <<>>
    <2>1. Drop(<<>>, 0) = <<>>
      <3>1. <<>> \in Seq(Byte8)
        OBVIOUS
      <3> QED
        BY <3>1, DropEdges
    <2>2. Least(0, Len(<<>>)) = 0
      BY DEF Least
    <2>3. work = <<>> /\ wp = 0 /\ net = <<>>
      BY DEF Init
    <2> QED
      BY <2>1, <2>2, <2>3 DEF Pending, Unworked
  <1>3. Pending = <<>> /\ <<>> \o <<>> = <<>>
    BY <1>2
  <1>4. RawCopied
    BY <1>3 DEF Init, RawCopied
  <1>5. SomewhereStands
    <2> SUFFICES ASSUME ~raw PROVE Stands(0) /\ 0 \in 0..Len(sent)
      BY DEF SomewhereStands
    <2>1. /\ sent = <<>> /\ stream = <<>> /\ dialogue = <<Opening>> /\ shown = <<>>
          /\ answers = <<>> /\ connected = TRUE /\ localEcho = TRUE /\ Len(sent) = 0
      BY DEF Init
    <2>2. Dialogue(0) = Opening
      BY <2>1 DEF Dialogue
    <2>3. /\ Opening.end = 0 /\ Opening.bytes = <<>> /\ Opening.answers = <<>>
          /\ Opening.echo = TRUE /\ Opening.greeting = TRUE
      BY DEF Opening
    <2>4. At(0)
      <3>1. Drop(<<>>, 0) = <<>>
        <4>1. <<>> \in Seq(Byte8)
          OBVIOUS
        <4> QED
          BY <4>1, DropEdges
      <3> QED
        BY <1>3, <2>1, <2>2, <2>3, <3>1 DEF At
    <2>5. Greets(0)
      <3>1. nego = ~raw
        BY DEF Init
      <3> QED
        BY <2>2, <2>3, <3>1, Zenon DEF Greets
    <2>6. \A i \in 1..Len(sent) - 1 : sent[i] = "accept" => i <= 0
      BY <2>1
    <2>7. Stands(0)
      BY <2>1, <2>2, <2>3, <2>4, <2>5, <2>6, Zenon DEF Stands
    <2> QED
      BY <2>1, <2>7
  <1> QED
    BY <1>1, <1>4, <1>5 DEF StreamInv

LEMMA SendStream ==
  ASSUME IInv, StreamInv, NEW k \in Kinds, Send(k)
  PROVE  StreamInv'
  <1>0. /\ ServerOK /\ Ledger /\ AnswersOK /\ SomewhereStands /\ RawCopied
    BY DEF StreamInv
  <1>1. /\ ServerOK' /\ Ledger'
        /\ \A i \in 1 .. Len(sent) + 1 : dialogue'[i] = dialogue[i]
    BY <1>0, SendLedger
  <1>2. AnswersOK'
    BY <1>0 DEF Send, AnswersOK
  <1>3. /\ Encoding[k] \in Seq(Byte8) /\ work \in Seq(Byte8) /\ net \in Seq(Byte8)
        /\ stream \in Seq(Byte8) /\ shown \in Seq(Byte8)
    BY <1>0, EncodingBytes, KindsAssumption DEF IInv, TypeOK, BuffersOK, ServerOK
  <1>a. \A a, b, c \in Seq(Byte8) : (a \o b) \o c = a \o (b \o c)
    BY Regroup
  <1>4. /\ sent' = Append(sent, k) /\ stream' = stream \o Encoding[k]
        /\ net' = net \o Encoding[k]
        /\ UNCHANGED <<work, wp, raw, connected, nego, localEcho, shown, answers, slips>>
    BY DEF Send, flags
  <1>6. /\ Len(sent) \in Nat /\ Len(sent') = Len(sent) + 1
        /\ \A i \in 1..Len(sent) : sent'[i] = sent[i]
    BY <1>0, <1>4 DEF ServerOK
  <1>7. slips = {} => Pending' = Pending \o Encoding[k] /\ Pending \in Seq(Byte8)
    <2> SUFFICES ASSUME slips = {} PROVE Pending' = Pending \o Encoding[k]
      BY PendingIs
    <2>1. Least(wp, Len(work)) \in 0..Len(work)
      BY PendingIs DEF Least
    <2>2. PICK d \in Seq(Byte8) : d = Drop(work, Least(wp, Len(work)))
      BY <1>3, <2>1, DropIs
    <2>3. Pending = d \o net /\ Pending' = d \o (net \o Encoding[k])
      BY <1>4, <2>2 DEF Pending, Unworked
    <2> QED
      <3>1. (d \o net) \o Encoding[k] = d \o (net \o Encoding[k])
        BY <1>3, <1>a, Zenon
      <3> QED
        BY <2>3, <3>1
  <1>8. RawCopied'
    <2> SUFFICES ASSUME raw PROVE connected' /\ shown' \o Pending' = stream'
      BY <1>4 DEF RawCopied
    <2>1. slips = {} /\ connected
      BY DEF IInv, RawClean
    <2>2. shown \o (Pending \o Encoding[k]) = (shown \o Pending) \o Encoding[k]
      <3>1. Pending \in Seq(Byte8)
        BY <1>7, <2>1
      <3> QED
        BY <1>3, <1>a, <3>1, Zenon
    <2>3. shown \o Pending = stream
      BY <1>0 DEF RawCopied
    <2> QED
      BY <1>4, <1>7, <2>1, <2>2, <2>3
  <1>9. SomewhereStands'
    <2> SUFFICES ASSUME slips = {}, ~raw PROVE \E j \in 0..Len(sent') : Stands(j)'
      BY <1>4 DEF SomewhereStands
    <2>1. PICK j \in 0..Len(sent) : Stands(j)
      BY <1>0 DEF SomewhereStands
    <2>2. j \in 0..Len(sent') /\ j + 1 \in 1 .. Len(sent) + 1
      BY <1>6
    <2>3. Dialogue(j)' = Dialogue(j)
      BY <1>1, <2>2 DEF Dialogue
    <2>4. Dialogue(j).end \in 0..Len(stream)
      BY <1>0, <2>2, LedgerFacts DEF Dialogue
    <2>5. Pending = Drop(stream, Dialogue(j).end)
      BY <2>1 DEF Stands, At
    <2>6. At(j)'
      <3>1. Drop(stream', Dialogue(j).end) = Drop(stream, Dialogue(j).end) \o Encoding[k]
        BY <1>3, <1>4, <2>4, DropConcat
      <3> QED
        BY <1>7, <2>3, <2>5, <3>1 DEF At
    <2>7. connected => Greets(j)'
      <3> SUFFICES ASSUME connected PROVE Greets(j)'
        OBVIOUS
      <3>1. Greets(j)
        BY <2>1 DEF Stands
      <3>2. CASE nego <=> Dialogue(j).greeting
        BY <1>4, <2>3, <3>2, Zenon DEF Greets
      <3>3. CASE ~nego /\ j < Len(sent) /\ sent[j + 1] = "rubout"
        <4>1. j < Len(sent') /\ sent'[j + 1] = "rubout"
          BY <1>6, <3>3
        <4> QED
          BY <1>4, <3>3, <4>1, Zenon DEF Greets
      <3> QED
        BY <3>1, <3>2, <3>3 DEF Greets
    <2>8. Stands(j)'
      <3>1. /\ shown = Dialogue(j).bytes /\ answers = Dialogue(j).answers
            /\ connected => (localEcho <=> Dialogue(j).echo)
            /\ ~connected => /\ Dialogue(j).greeting
                             /\ Dialogue(j).echo <=> localEcho \/ ~nego
        BY <2>1 DEF Stands
      <3>2. /\ shown' = Dialogue(j)'.bytes /\ answers' = Dialogue(j)'.answers
            /\ connected' => (localEcho' <=> Dialogue(j)'.echo)
            /\ ~connected' => /\ Dialogue(j)'.greeting
                              /\ Dialogue(j)'.echo <=> localEcho' \/ ~nego'
            /\ connected' = connected
        BY <1>4, <2>3, <3>1, Zenon
      <3> QED
        BY <2>6, <2>7, <3>2, Zenon DEF Stands
    <2> QED
      BY <2>2, <2>8
  <1> QED
    BY <1>1, <1>2, <1>8, <1>9 DEF StreamInv

(* Steps that leave the stream, what was said on it and the rest of it alone. *)
LEMMA AsideStream ==
  ASSUME StreamInv, Pending' = Pending,
         UNCHANGED <<server, shown, answers, slips, raw, connected, nego, localEcho>>
  PROVE  StreamInv'
  <1>0. ServerOK /\ Ledger /\ AnswersOK /\ SomewhereStands /\ RawCopied
    BY DEF StreamInv
  <1>1. UNCHANGED <<sent, stream, dialogue>>
    BY DEF server
  <1>2. ServerOK' /\ Ledger' /\ AnswersOK'
    BY <1>0, <1>1 DEF ServerOK, Ledger, AnswersOK
  <1>3. RawCopied'
    BY <1>0, <1>1 DEF RawCopied
  <1>4. SomewhereStands'
    <2> SUFFICES ASSUME slips = {}, ~raw PROVE \E j \in 0..Len(sent') : Stands(j)'
      BY DEF SomewhereStands
    <2>1. PICK j \in 0..Len(sent) : Stands(j)
      BY <1>0 DEF SomewhereStands
    <2>2. Stands(j)'
      BY <1>1, <2>1 DEF Stands, At, Dialogue, Greets
    <2> QED
      BY <1>1, <2>2
  <1> QED
    BY <1>2, <1>3, <1>4 DEF StreamInv

(* A slip ends what is claimed of a telnet session. *)
LEMMA SlipStream ==
  ASSUME StreamInv, UNCHANGED <<server, raw>>, AnswersOK', ~raw, slips' # {}
  PROVE  StreamInv'
  <1>1. UNCHANGED <<sent, stream, dialogue>>
    BY DEF server
  <1> QED
    BY <1>1 DEF StreamInv, ServerOK, Ledger, SomewhereStands, RawCopied

LEMMA RoundAnswers == ASSUME IInv, AnswersOK, Round PROVE AnswersOK'
  <1>1. \A a \in Byte8, b \in Byte8 : <<a, b>> \in Seq(Byte8)
    OBVIOUS
  <1>2. \A c \in {SSL, 0} : <<SB, AUTH, c>> \in Seq(Byte8)
    BY DEF SB, AUTH, SSL, Byte8
  <1>3. {WILL, WONT, DO, DONT, ECHO, SB, TTYPE} \subseteq Byte8
    BY DEF WILL, WONT, DO, DONT, ECHO, SB, TTYPE, Byte8
  <1>4. ASSUME NEW c \in {WILL, WONT, DO, DONT}, Option(c) PROVE Byte(2) \in Byte8
    <2>1. wp + 3 \in 1..Len(work) /\ wp + 1 + 2 = wp + 3 /\ work \in Seq(Byte8)
      BY <1>4 DEF Option, Have, IInv, TypeOK, BuffersOK, CountsOK
    <2> QED
      BY <2>1 DEF Byte
  <1>5. Silent \/ \E what \in Seq(Byte8) : \E n, room : Reply(what, n, room)
    <2>1. CASE WillOption
      <3>1. \/ Silent \/ Message(DO, ECHO) \/ Message(DONT, Byte(2))
        BY <2>1 DEF WillOption
      <3>2. Byte(2) \in Byte8
        BY <1>4, <2>1 DEF WillOption
      <3>3. <<DO, ECHO>> \in Seq(Byte8) /\ <<DONT, Byte(2)>> \in Seq(Byte8)
        BY <1>1, <1>3, <3>2, Zenon
      <3> QED
        BY <3>1, <3>3, Zenon DEF Message
    <2>2. CASE WontOption
      <3>1. \/ Silent \/ Message(DONT, ECHO)
        BY <2>2 DEF WontOption
      <3>2. <<DONT, ECHO>> \in Seq(Byte8)
        BY <1>1, <1>3, Zenon
      <3> QED
        BY <3>1, <3>2, Zenon DEF Message
    <2>3. CASE DoOption
      <3>1. \/ Message(WILL, Byte(2)) \/ Message(WONT, Byte(2))
        BY <2>3 DEF DoOption
      <3>2. Byte(2) \in Byte8
        BY <1>4, <2>3 DEF DoOption
      <3>3. <<WILL, Byte(2)>> \in Seq(Byte8) /\ <<WONT, Byte(2)>> \in Seq(Byte8)
        BY <1>1, <1>3, <3>2, Zenon
      <3> QED
        BY <3>1, <3>3, Zenon DEF Message
    <2>4. CASE AuthSend
      <3>1. Silent \/ \E c \in {SSL, 0} : \E n, room : Reply(<<SB, AUTH, c>>, n, room)
        BY <2>4 DEF AuthSend
      <3> QED
        BY <1>2, <3>1, Zenon
    <2>5. CASE TTypeSend
      <3>1. Silent \/ Reply(<<SB, TTYPE>>, 6 + TermLength, 6 + TermLength)
        BY <2>5 DEF TTypeSend
      <3>2. <<SB, TTYPE>> \in Seq(Byte8)
        BY <1>1, <1>3, Zenon
      <3> QED
        BY <3>1, <3>2, Zenon
    <2>6. CASE ~(WillOption \/ WontOption \/ DoOption \/ AuthSend \/ TTypeSend)
      BY <2>6 DEF Round, Subnegotiation, Null, Rubout, NewLine, BareReturn, Letter,
                  TooShort, Quoted, Unknown, OptionMissing, DontOption, SubMissing,
                  AuthReply, SubCommandUnknown, SubUnknown
    <2> QED
      BY <2>1, <2>2, <2>3, <2>4, <2>5, <2>6
  <1>6. answers' = answers \/ \E what \in Seq(Byte8) : answers' = Append(answers, what)
    BY <1>5 DEF Silent, Reply
  <1> QED
    BY <1>6 DEF AnswersOK

LEMMA RoundStream == ASSUME IInv, StreamInv, Round PROVE StreamInv'
  <1>0. /\ ServerOK /\ Ledger /\ AnswersOK /\ SomewhereStands
    BY DEF StreamInv
  <1>1. Looping /\ Fixed /\ AnswersOK'
    BY <1>0, RoundMoves, RoundFixed, RoundAnswers
  <1>2. /\ ~raw /\ connected /\ wp < Len(work) /\ UNCHANGED <<server, raw>>
    <2>1. wp \in Nat /\ Len(work) \in Nat
      BY DEF IInv, TypeOK, BuffersOK, CountsOK
    <2> QED
      BY <1>1, <2>1 DEF Looping, Have, Fixed, flags
  <1>3. CASE slips' # {}
    BY <1>1, <1>2, <1>3, SlipStream
  <1>4. CASE slips' = {}
    <2>1. slips = {}
      BY <1>4 DEF Round, Subnegotiation, SkipPairs, Null, Rubout, NewLine, BareReturn,
                  Letter, TooShort, Quoted, Unknown, OptionMissing, WillOption, WontOption,
                  DoOption, DontOption, SubMissing, AuthSend, AuthReply, TTypeSend,
                  SubCommandUnknown, SubUnknown
    <2>2. PICK j \in 0..Len(sent) : Stands(j)
      BY <1>0, <1>2, <2>1 DEF SomewhereStands
    <2>3. j < Len(sent) /\ Facing(sent[j + 1])
      BY <1>0, <1>2, <2>1, <2>2, Faced DEF Stands
    <2>4. Worked(sent[j + 1]) \/ Waits(sent[j + 1])
      BY <1>0, <1>4, <2>1, <2>3, RoundSteps
    <2>5. \E i \in 0..Len(sent) : Stands(i)'
      <3>1. CASE Waits(sent[j + 1])
        BY <1>1, <1>2, <2>2, <2>3, <3>1, WaitStands
      <3>2. CASE Worked(sent[j + 1])
        <4>1. j + 1 \in 0..Len(sent) /\ Stands(j + 1)'
          BY <1>0, <1>1, <1>2, <2>1, <2>2, <2>3, <3>2, WorkedStands
        <4> QED
          BY <4>1
      <3> QED
        BY <2>4, <3>1, <3>2
    <2>6. UNCHANGED <<sent, stream, dialogue>>
      BY <1>2 DEF server
    <2>7. SomewhereStands'
      BY <2>5, <2>6 DEF SomewhereStands
    <2>8. ServerOK' /\ Ledger' /\ RawCopied'
      BY <1>0, <1>2, <2>6 DEF ServerOK, Ledger, RawCopied
    <2> QED
      BY <1>1, <2>7, <2>8 DEF StreamInv
  <1> QED
    BY <1>3, <1>4

LEMMA RegroupBytes == \A p, q, r \in Seq(Byte8) : (p \o q) \o r = p \o (q \o r)
  BY Regroup

LEMMA JoinBytes == \A p, q \in Seq(Byte8) : p \o q \in Seq(Byte8)
  OBVIOUS

(* With no slip, taking bytes in and giving worked-on bytes back leave the rest of
   the stream what it is. *)
LEMMA ArrivePending ==
  ASSUME IInv, slips = {}, NEW n \in 1..WorkSize, Arrive(n)
  PROVE  Pending' = Pending
  <1>1. /\ wp \in 0..Len(work) /\ Len(work) \in Nat /\ work \in Seq(Byte8)
        /\ net \in Seq(Byte8)
    BY PendingIs DEF IInv, TypeOK, BuffersOK
  <1>2. Pending = Drop(work, wp) \o net
    BY PendingIs
  <1>3. n \in 0..Len(net)
    <2>1. n <= Least(Len(net), WorkSize - Len(work)) /\ Len(net) \in Nat
      BY <1>1 DEF Arrive
    <2>2. WorkSize - Len(work) \in Int
      BY <1>1, RoomAssumption
    <2>3. Least(Len(net), WorkSize - Len(work)) <= Len(net)
      BY <2>1, <2>2, LeastIs
    <2>4. Least(Len(net), WorkSize - Len(work)) \in Int
      BY <2>1, <2>2, LeastIs
    <2>5. n \in Nat
      BY RoomAssumption
    <2> QED
      BY <2>1, <2>3, <2>4, <2>5
  <1>4. PICK a \in Seq(Byte8), b \in Seq(Byte8) :
          a = SubSeq(net, 1, n) /\ b = Drop(net, n) /\ a \o b = net
    <2>1. SubSeq(net, 1, n) \in Seq(Byte8) /\ Drop(net, n) \in Seq(Byte8)
      BY <1>1, <1>3, DropIs
    <2> QED
      BY <1>1, <1>3, <2>1, SplitAt
  <1>5. work' = work \o a /\ net' = b /\ wp' = wp
    BY <1>4 DEF Arrive
  <1>6. Len(work') \in Nat /\ wp <= Len(work')
    BY <1>1, <1>5
  <1>7. Pending' = Drop(work \o a, wp) \o b
    <2>1. wp \in Int /\ Len(work') \in Int /\ wp <= Len(work')
      BY <1>1, <1>6
    <2>2. Least(wp, Len(work')) = wp
      BY <2>1, LeastFirst
    <2> QED
      BY <1>5, <2>2 DEF Pending, Unworked
  <1>8. Drop(work \o a, wp) = Drop(work, wp) \o a
    BY <1>1, DropConcat
  <1>9. (Drop(work, wp) \o a) \o b = Drop(work, wp) \o (a \o b)
    <2>1. Drop(work, wp) \in Seq(Byte8)
      BY <1>1, DropIs
    <2> QED
      BY <2>1, RegroupBytes, Zenon
  <1> QED
    BY <1>2, <1>4, <1>7, <1>8, <1>9

LEMMA TailPending ==
  ASSUME IInv, slips = {}, WorkTail
  PROVE  Pending' = Pending
  <1>1. /\ wp \in 0..Len(work) /\ Len(work) \in Nat /\ work \in Seq(Byte8)
    BY PendingIs DEF IInv, TypeOK, BuffersOK
  <1>2. Least(wp, Len(work)) = wp
    BY <1>1 DEF Least
  <1>3. net' = net
    BY DEF WorkTail
  <1>4. \/ work' = Drop(work, wp) /\ wp' = 0
        \/ work' = work /\ wp' = wp
    BY <1>2 DEF WorkTail
  <1>5. CASE work' = Drop(work, wp) /\ wp' = 0
    <2>1. PICK d \in Seq(Byte8) : d = Drop(work, wp)
      BY <1>1, DropIs
    <2>2. Least(0, Len(d)) = 0 /\ Drop(d, 0) = d
      BY DropEdges DEF Least
    <2> QED
      BY <1>2, <1>3, <1>5, <2>1, <2>2 DEF Pending, Unworked
  <1>6. CASE work' = work /\ wp' = wp
    BY <1>3, <1>6 DEF Pending, Unworked
  <1> QED
    BY <1>4, <1>5, <1>6

LEMMA SecuredStream == ASSUME IInv, StreamInv, Secured PROVE StreamInv'
  <1>0. ServerOK /\ Ledger /\ AnswersOK /\ SomewhereStands /\ RawCopied
    BY DEF StreamInv
  <1>1. ~raw /\ ~connected
    BY <1>0 DEF Secured, RawCopied
  <1>2. /\ UNCHANGED <<work, wp, sent, stream, dialogue, shown, answers, raw>>
        /\ connected' /\ nego'
    BY DEF Secured, server, flags
  <1>3. AnswersOK'
    BY <1>0, <1>2 DEF AnswersOK
  <1>4. PICK n \in 0..Len(net) : /\ net' = Drop(net, n)
                                /\ slips' = IF n = 0 THEN slips ELSE slips \cup {"early"}
    BY DEF Secured
  <1>5. CASE slips' # {}
    BY <1>1, <1>2, <1>3, <1>5, SlipStream DEF server
  <1>6. CASE slips' = {}
    <2>1. n = 0 /\ slips = {}
      BY <1>4, <1>6
    <2>2. net' = net
      <3>1. net \in Seq(Byte8)
        BY DEF IInv, TypeOK, BuffersOK
      <3> QED
        BY <1>4, <2>1, <3>1, DropEdges
    <2>3. PICK j \in 0..Len(sent) : Stands(j)
      BY <1>0, <1>1, <2>1 DEF SomewhereStands
    <2>4. Dialogue(j).greeting /\ (Dialogue(j).echo <=> localEcho \/ ~nego)
      BY <1>1, <2>3 DEF Stands
    <2>5. Dialogue(j)' = Dialogue(j) /\ At(j)'
      BY <1>2, <2>2, <2>3 DEF Stands, At, Pending, Unworked, Dialogue
    <2>6. localEcho' <=> Dialogue(j)'.echo
      BY <2>4, <2>5, Zenon DEF Secured
    <2>7. Greets(j)'
      BY <1>2, <2>4, <2>5, Zenon DEF Greets
    <2>8. shown' = Dialogue(j)'.bytes /\ answers' = Dialogue(j)'.answers
      BY <1>2, <2>3, <2>5 DEF Stands
    <2>9. Stands(j)'
      BY <1>2, <2>5, <2>6, <2>7, <2>8, Zenon DEF Stands
    <2> QED
      BY <1>0, <1>1, <1>2, <1>3, <2>3, <2>9
         DEF StreamInv, ServerOK, Ledger, SomewhereStands, RawCopied
  <1> QED
    BY <1>5, <1>6

LEMMA CopyStream == ASSUME IInv, StreamInv, CopyRaw PROVE StreamInv'
  <1>0. ServerOK /\ Ledger /\ AnswersOK /\ RawCopied
    BY DEF StreamInv
  <1>1. raw /\ slips = {} /\ connected
    BY <1>0 DEF CopyRaw, IInv, RawClean, RawCopied
  <1>2. UNCHANGED <<net, work, sent, stream, dialogue, answers, slips, raw, connected>>
    BY DEF CopyRaw, server, flags
  <1>3. ServerOK' /\ Ledger' /\ AnswersOK'
    BY <1>0, <1>2 DEF ServerOK, Ledger, AnswersOK
  <1>4. /\ wp \in 0..Len(work) /\ Len(work) \in Nat /\ work \in Seq(Byte8)
        /\ net \in Seq(Byte8) /\ shown \in Seq(Byte8) /\ read \in Seq(Byte8)
        /\ ReadSize - Len(read) \in Nat
    BY <1>1, PendingIs, RoomAssumption DEF IInv, TypeOK, BuffersOK
  <1>5. PICK n \in 0 .. Len(work) - wp : n = Least(ReadSize - Len(read), Len(work) - wp)
    BY <1>4 DEF Least
  <1>6. shown' = shown \o SubSeq(work, wp + 1, wp + n) /\ wp' = wp + n
    BY <1>5 DEF CopyRaw
  <1>7. PICK d \in Seq(Byte8) : d = Drop(work, wp) /\ Len(d) = Len(work) - wp
    BY <1>4, DropIs
  <1>8. SubSeq(work, wp + 1, wp + n) = SubSeq(d, 1, n)
    <2>1. /\ SubSeq(work, wp + 1, wp + n) \in Seq(Byte8)
          /\ Len(SubSeq(work, wp + 1, wp + n)) = n
          /\ SubSeq(d, 1, n) \in Seq(Byte8) /\ Len(SubSeq(d, 1, n)) = n
      BY <1>4, <1>7
    <2>2. ASSUME NEW i \in 1..n PROVE SubSeq(work, wp + 1, wp + n)[i] = SubSeq(d, 1, n)[i]
      BY <1>4, <1>7 DEF Drop
    <2> QED
      BY <2>1, <2>2, SameSeq
  <1>9. Drop(work, wp + n) = Drop(d, n)
    BY <1>4, <1>7, DropDrop
  <1>10. PICK a \in Seq(Byte8), b \in Seq(Byte8) :
           a = SubSeq(d, 1, n) /\ b = Drop(d, n) /\ a \o b = d
    <2>1. n \in 0..Len(d)
      BY <1>4, <1>7
    <2>2. SubSeq(d, 1, n) \in Seq(Byte8) /\ Drop(d, n) \in Seq(Byte8)
      BY <2>1, DropIs
    <2> QED
      BY <2>1, <2>2, SplitAt
  <1>11. Pending = d \o net /\ Pending' = b \o net
    <2>1. /\ wp \in Int /\ wp + n \in Int /\ Len(work) \in Int
          /\ wp <= Len(work) /\ wp + n <= Len(work)
      BY <1>4
    <2>2. Least(wp, Len(work)) = wp /\ Least(wp + n, Len(work)) = wp + n
      BY <2>1, LeastFirst
    <2> QED
      BY <1>2, <1>6, <1>7, <1>9, <1>10, <2>2 DEF Pending, Unworked
  <1>12. (shown \o a) \o (b \o net) = shown \o ((a \o b) \o net)
    <2>1. /\ a \in Seq(Byte8) /\ b \in Seq(Byte8)
          /\ net \in Seq(Byte8) /\ shown \in Seq(Byte8)
      BY <1>4, <1>10
    <2>2. PICK e \in Seq(Byte8) : e = b \o net
      <3>1. b \o net \in Seq(Byte8)
        BY <2>1, JoinBytes, Zenon
      <3> QED
        BY <3>1, Zenon
    <2>3. (shown \o a) \o e = shown \o (a \o e)
      <3>1. e \in Seq(Byte8) /\ a \in Seq(Byte8) /\ shown \in Seq(Byte8)
        BY <2>1, <2>2, Zenon
      <3> QED
        BY <3>1, RegroupBytes, Zenon
    <2>4. (a \o b) \o net = a \o (b \o net)
      BY <2>1, RegroupBytes, Zenon
    <2> QED
      BY <2>2, <2>3, <2>4
  <1>13. RawCopied'
    <2>1. shown \o Pending = stream
      BY <1>0, <1>1 DEF RawCopied
    <2>2. shown' \o Pending' = stream
      BY <1>6, <1>8, <1>10, <1>11, <1>12, <2>1
    <2> QED
      BY <1>1, <1>2, <2>2 DEF RawCopied
  <1> QED
    BY <1>1, <1>2, <1>3, <1>13 DEF StreamInv, SomewhereStands

LEMMA NextStream == ASSUME IInv, StreamInv, [Next]_vars PROVE StreamInv'
  <1> DEFINE Same == UNCHANGED <<server, shown, answers, slips, raw, connected, nego,
                                 localEcho>>
  <1>1. ASSUME Same, slips # {} PROVE StreamInv'
    <2>1. ~raw
      BY <1>1 DEF IInv, RawClean
    <2>2. AnswersOK'
      BY <1>1 DEF StreamInv, AnswersOK
    <2> QED
      BY <1>1, <2>1, <2>2, SlipStream
  <1>2. ASSUME Same, Pending' = Pending PROVE StreamInv'
    BY <1>2, AsideStream
  <1>3. ASSUME NEW k \in Kinds, Send(k) PROVE StreamInv'
    BY <1>3, SendStream
  <1>4. ASSUME NEW n \in 1..WorkSize, Arrive(n) PROVE StreamInv'
    <2>1. Same
      BY <1>4 DEF Arrive, history, flags
    <2> QED
      BY <1>1, <1>2, <1>4, <2>1, ArrivePending
  <1>5. ASSUME NEW n \in SendSizes, Take(n) PROVE StreamInv'
    BY <1>2, <1>5 DEF Take, history, flags, Pending, Unworked
  <1>6. ASSUME NEW n \in 1..ReadSize, AppRead(n) PROVE StreamInv'
    BY <1>2, <1>6 DEF AppRead, history, flags, Pending, Unworked
  <1>7. ASSUME NEW b \in {x, BS}, NEW n \in SendSizes, AppWrite(b, n) PROVE StreamInv'
    BY <1>2, <1>7 DEF AppWrite, history, flags, Pending, Unworked
  <1>8. CASE Secured
    BY <1>8, SecuredStream
  <1>9. CASE Begin \/ PassOver \/ LoopEnd \/ UNCHANGED vars
    <2>1. Same /\ UNCHANGED <<work, wp, net>>
      BY <1>9 DEF Begin, PassOver, LoopEnd, vars, history, flags
    <2> QED
      BY <1>2, <2>1 DEF Pending, Unworked
  <1>10. CASE Round
    BY <1>10, RoundStream
  <1>11. CASE CopyRaw
    BY <1>11, CopyStream
  <1>12. CASE WorkTail
    <2>1. Same
      BY <1>12 DEF WorkTail, history, flags
    <2> QED
      BY <1>1, <1>2, <1>12, <2>1, TailPending
  <1> QED
    BY <1>3, <1>4, <1>5, <1>6, <1>7, <1>8, <1>9, <1>10, <1>11, <1>12 DEF Next, telnetWork
-----------------------------------------------------------------------------
LEMMA AlwaysStream == Spec => [](IInv /\ StreamInv)
  <1>1. Init => IInv /\ StreamInv
    BY InitIInv, InitStream
  <1>2. IInv /\ StreamInv /\ [Next]_vars => (IInv /\ StreamInv)'
    BY NextIInv, NextStream
  <1> QED
    BY <1>1, <1>2, PTL DEF Spec

(* For any messages, cut anywhere, any sizes, whatever waits for room: as long as the
   server sends nothing that telnetWork gets wrong, telnetWork takes off whole messages
   only and gives the application exactly what they mean; a RAW session passes on every
   byte (telnet.c:54-241). *)
THEOREM TelnetDecoded == Spec => []Decoded
  <1>1. ASSUME StreamInv PROVE Decoded
    <2> SUFFICES ASSUME slips = {}
                 PROVE  /\ raw => shown \o Pending = stream
                        /\ ~raw => \E j \in 0..Len(sent) : At(j) /\ shown = Dialogue(j).bytes
      BY DEF Decoded
    <2> QED
      BY <1>1 DEF StreamInv, RawCopied, SomewhereStands, Stands
  <1> QED
    BY <1>1, AlwaysStream, PTL

(* Each request is answered once, in order and not before it is worked on, and LOCALECHO
   is what the answers say of echoing (telnet.c:261-448, 612-740, 746-780). *)
THEOREM TelnetAnswered == Spec => []Answered
  <1>1. ASSUME IInv, StreamInv PROVE Answered
    <2> SUFFICES ASSUME slips = {}, ~raw
                 PROVE  \E j \in 0..Len(sent) :
                          /\ At(j) /\ answers = Dialogue(j).answers
                          /\ connected => localEcho = Dialogue(j).echo
      BY DEF Answered
    <2>1. ServerOK /\ Ledger /\ SomewhereStands
      BY <1>1 DEF StreamInv
    <2>2. PICK j \in 0..Len(sent) : Stands(j)
      BY <2>1 DEF SomewhereStands
    <2>3. j + 1 \in 1 .. Len(sent) + 1
      BY <2>1 DEF ServerOK
    <2>4. dialogue[j + 1] \in DialogueState
      BY <2>1, <2>3, LedgerFacts
    <2>5. Dialogue(j).echo \in BOOLEAN /\ localEcho \in BOOLEAN
      BY <1>1, <2>4 DEF Dialogue, DialogueState, IInv, TypeOK, BitsOK
    <2>6. connected => localEcho = Dialogue(j).echo
      BY <2>2, <2>5, Zenon DEF Stands
    <2> QED
      BY <2>2, <2>6 DEF Stands
  <1> QED
    BY <1>1, AlwaysStream, PTL

LEMMA TailUnworked == ASSUME IInv, WorkTail PROVE Unworked' = Unworked
  <1>1. /\ wp \in Nat /\ Len(work) \in Nat /\ work \in Seq(Byte8)
    BY DEF IInv, TypeOK, BuffersOK, CountsOK
  <1> DEFINE n == Least(wp, Len(work))
  <1>2. n \in 0..Len(work)
    BY <1>1 DEF Least
  <1>3. \/ work' = Drop(work, n) /\ wp' = 0
        \/ work' = work /\ wp' = wp
    BY DEF WorkTail
  <1> HIDE DEF n
  <1>4. CASE work' = Drop(work, n) /\ wp' = 0
    <2>1. PICK d \in Seq(Byte8) : d = Drop(work, n)
      BY <1>1, <1>2, DropIs
    <2>2. Least(0, Len(d)) = 0 /\ Drop(d, 0) = d
      BY DropEdges DEF Least
    <2> QED
      BY <1>4, <2>1, <2>2 DEF Unworked, n
  <1>5. CASE work' = work /\ wp' = wp
    BY <1>5 DEF Unworked
  <1> QED
    BY <1>3, <1>4, <1>5

(* Whatever the server sends behind its acceptance of SSL, and whenever: while the
   session is not connected, nothing of it is worked on, shown or answered, and nothing
   in the work buffer is lost (telnet.c:76, 702; vectors.c:209). *)
THEOREM TelnetBehindAccept == Spec => BehindAccept
  <1> DEFINE Untouched == Unworked' = Unworked /\ UNCHANGED <<read, shown, answers>>
  <1>1. ASSUME IInv, [Next]_vars, ~connected PROVE Untouched
    <2>1. ASSUME NEW k \in Kinds, Send(k) PROVE Untouched
      BY <2>1 DEF Send, Unworked
    <2>2. ASSUME NEW n \in 1..WorkSize, Arrive(n) PROVE Untouched
      BY <1>1, <2>2 DEF Arrive
    <2>3. ASSUME NEW n \in SendSizes, Take(n) PROVE Untouched
      BY <1>1, <2>3 DEF Take
    <2>4. ASSUME NEW n \in 1..ReadSize, AppRead(n) PROVE Untouched
      BY <1>1, <2>4 DEF AppRead
    <2>5. ASSUME NEW b \in {x, BS}, NEW n \in SendSizes, AppWrite(b, n) PROVE Untouched
      BY <1>1, <2>5 DEF AppWrite
    <2>6. CASE Secured
      BY <2>6 DEF Secured, Unworked
    <2>7. CASE Begin \/ PassOver \/ LoopEnd \/ UNCHANGED vars
      BY <2>7 DEF Begin, PassOver, LoopEnd, vars, history, Unworked
    <2>8. CASE Round
      BY <1>1, <2>8, RoundMoves DEF Looping
    <2>9. CASE CopyRaw
      BY <1>1, <2>9 DEF CopyRaw, IInv, RawClean
    <2>10. CASE WorkTail
      <3>1. UNCHANGED <<read, shown, answers>>
        BY <2>10 DEF WorkTail, history
      <3> QED
        BY <1>1, <2>10, <3>1, TailUnworked
    <2> QED
      BY <1>1, <2>1, <2>2, <2>3, <2>4, <2>5, <2>6, <2>7, <2>8, <2>9, <2>10
         DEF Next, telnetWork
  <1>2. IInv /\ [Next]_vars => (~connected => Untouched)
    BY <1>1
  <1> QED
    BY <1>2, Always, PTL DEF Spec, BehindAccept
=============================================================================
