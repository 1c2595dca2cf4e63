---------------------------- MODULE VNCInputProofs ----------------------------
(***************************************************************************)
(* For servers, messages and connections of any size and number: mouse and *)
(* keys are watched while the main window is open, what is read keeps to   *)
(* the buffers it is read from and to, and the client and the server stay  *)
(* in step.                                                                *)
(***************************************************************************)
EXTENDS VNCInput, WellFoundedInduction, TLAPS

(* Closing a connection gives back what the main window had taken. *)
LEMMA CloseKeeps ==
  ASSUME WatchesWindow, NEW open, open \in {windows, windows \ {"password"}},
         CloseConnection(open)
  PROVE  WatchesWindow'
BY DEF WatchesWindow, CloseConnection, ClosedFlags, ClosedConfig

LEMMA AnswerKeeps ==
  ASSUME WatchesWindow, NEW message, NEW status, NEW open,
         open \in {windows, windows \ {"password"}}, Answer(message, status, open)
  PROVE  WatchesWindow'
<1>1. CASE CloseConnection(open)
  BY <1>1, CloseKeeps
<1>2. CASE windows' = open /\ UNCHANGED <<flags, config>>
  BY <1>2 DEF WatchesWindow
<1>3. QED
  BY <1>1, <1>2 DEF Answer

LEMMA ReadingKeeps == ASSUME WatchesWindow, Reading PROVE WatchesWindow'
<1>1. CASE ReadLost
  BY <1>1, CloseKeeps DEF ReadLost
<1>2. CASE ReadMore \/ Copy \/ NothingRead \/ Initialise \/ NoMemory
  BY <1>2 DEF ReadMore, Copy, LoopFrame, NothingRead, Initialise, NoMemory, connection, input,
              WatchesWindow
<1>3. CASE ProcessVersion \/ Encrypt
  BY <1>3, AnswerKeeps DEF ProcessVersion, Encrypt
<1>4. CASE GetPassword
  <2>1. CASE windows' = windows \cup {"password"} /\ UNCHANGED <<flags, config>>
    BY <2>1 DEF WatchesWindow
  <2>2. CASE CloseConnection(windows) \/ Answer("shared", "SERVER_INIT", windows)
    BY <2>2, CloseKeeps, AnswerKeeps
  <2>3. QED
    BY <1>4, <2>1, <2>2 DEF GetPassword
<1>5. CASE PasswordResponse
  BY <1>5, CloseKeeps, AnswerKeeps DEF PasswordResponse
<1>6. CASE Initialised
  <2>1. \/ UNCHANGED windows /\ flags' = flags \cup {"INITIALISED"} /\ config' = config \cup {"edge"}
        \/ /\ flags' = ClosedFlags \cup {"INITIALISED"}
           /\ config' = ClosedConfig \cup {"edge"}
           /\ windows' = windows \ {"main"}
    BY <1>6 DEF Initialised
  <2>2. QED
    BY <2>1 DEF WatchesWindow, ClosedFlags, ClosedConfig
<1>7. QED
  BY <1>1, <1>2, <1>3, <1>4, <1>5, <1>6 DEF Reading

LEMMA SendKeeps == ASSUME WatchesWindow, SendInput PROVE WatchesWindow'
<1>1. CASE CloseConnection(windows)
  BY <1>1, CloseKeeps
<1>2. CASE UNCHANGED <<connection, windows, config>>
  BY <1>2 DEF WatchesWindow, connection
<1>3. QED
  BY <1>1, <1>2 DEF SendInput

LEMMA UserKeeps == ASSUME WatchesWindow, User PROVE WatchesWindow'
<1>1. CASE OpenConnectWindow \/ CancelConnect \/ EnterPassword \/ EscapePassword
  BY <1>1 DEF OpenConnectWindow, CancelConnect, EnterPassword, EscapePassword, connection, input,
              WatchesWindow
<1>2. CASE OpenConnection
  <2>1. /\ windows' = windows \ {"connect"} /\ UNCHANGED config
        /\ flags' \in {flags, flags \cup {"CONNECTED"}}
    BY <1>2 DEF OpenConnection, input
  <2>2. QED
    BY <2>1 DEF WatchesWindow
<1>3. CASE Disconnect
  BY <1>3, CloseKeeps DEF Disconnect
<1>4. CASE MainKey
  BY <1>4, SendKeeps DEF MainKey
<1>5. QED
  BY <1>1, <1>2, <1>3, <1>4 DEF User

LEMMA EventKeeps == ASSUME WatchesWindow, Event PROVE WatchesWindow'
<1>1. CASE HandleEdge
  <2>1. CASE EdgeDetect
    BY <2>1 DEF EdgeDetect, WatchesWindow
  <2>2. CASE UNCHANGED <<windows, config, flags>>
    BY <2>2 DEF WatchesWindow
  <2>3. QED
    BY <1>1, <2>1, <2>2 DEF HandleEdge
<1>2. ASSUME NEW place, NEW bit, NEW next, HandleBit(place, bit, next) PROVE WatchesWindow'
  <2>1. CASE SendInput
    BY <2>1, SendKeeps
  <2>2. CASE UNCHANGED <<connection, windows, config>>
    BY <2>2 DEF WatchesWindow, connection
  <2>3. QED
    BY <1>2, <2>1, <2>2 DEF HandleBit
<1>3. CASE KeyUp
  BY <1>3, SendKeeps DEF KeyUp
<1>4. QED
  BY <1>1, <1>2, <1>3 DEF Event

LEMMA StepKeeps == ASSUME WatchesWindow, [Next]_vars PROVE WatchesWindow'
<1>1. CASE Null \/ Watched \/ PollwordEvent \/ Arrive \/ ServerStops \/ UNCHANGED vars
  BY <1>1 DEF Null, Watched, PollwordEvent, Arrive, ServerStops, vars, connection, input,
              WatchesWindow
<1>2. CASE NullLost
  BY <1>2, CloseKeeps DEF NullLost
<1>3. QED
  BY <1>1, <1>2, ReadingKeeps, UserKeeps, EventKeeps DEF Next

(* On every way a connection is closed, and however often the pointer has met
   the edge, mouse and keys are watched just while the main window is open. *)
THEOREM VNCWatchesWindow == Spec => []WatchesWindow
<1>1. Init => WatchesWindow
  BY DEF Init, WatchesWindow
<1>2. WatchesWindow /\ [Next]_vars => WatchesWindow'
  BY StepKeeps
<1>3. QED
  BY <1>1, <1>2, PTL DEF Spec
-----------------------------------------------------------------------------
(* The types. *)

Message == {"version", "auth", "challenge", "response", "size", "format", "length", "name"}
           \X ({"none", "password", "failed", "ok", "wrong"} \cup Nat)
Octet == Message \X Nat

Stages == {"none", "version", "response", "shared", "encodings", "serving", "refused", "gone"}

MemBuffer == {b \in [data : Seq(Octet), offset : Nat] : b.offset <= Len(b.data)}

FlagsOK ==
  /\ flags \subseteq {"CONNECTED", "INITIALISED", "WINDOW_OPEN"}
  /\ networkStatus \in DOMAIN First \cup {"none", "WAITING_FOR_ENCRYPT"}
  /\ socket \in {"own", "none", "unresolved", "zero"}

DesktopOK ==
  /\ windows \subseteq {"connect", "password", "main"}
  /\ config \subseteq {"mouse", "key", "edge"} /\ pollword \subseteq {"mouse", "key", "edge"}
  /\ pc \in {"idle", "mouse", "press", "release", "edge", "up"}
  /\ connections \in 0..MaxConnections /\ strayed \in BOOLEAN

DataOK ==
  /\ memBuffer \in Seq(MemBuffer) /\ wire \in Seq(Octet)
  /\ server \in [stage : Stages, says : Seq(Octet)]

RoomFor(what) == IF what = "none" THEN 0 ELSE Room[what]

CallOK ==
  /\ reading \in DOMAIN Room \cup {"none"} /\ left \in Nat /\ got \in Seq(Octet)
  /\ Len(got) + left <= RoomFor(reading)

IInv == FlagsOK /\ DesktopOK /\ DataOK /\ CallOK

LEMMA TypesFollow == IInv => TypeOK
<1> SUFFICES ASSUME IInv PROVE TypeOK
  OBVIOUS
<1>1. ASSUME NEW i \in DOMAIN memBuffer
      PROVE  memBuffer[i].offset \in 0..Len(memBuffer[i].data)
  <2>1. memBuffer[i] \in MemBuffer
    BY DEF IInv, DataOK
  <2>2. Len(memBuffer[i].data) \in Nat
    BY <2>1 DEF MemBuffer
  <2>3. QED
    BY <2>1, <2>2 DEF MemBuffer
<1>2. Len(got) + left <= IF reading = "none" THEN 0 ELSE Room[reading]
  BY DEF IInv, CallOK, RoomFor
<1>3. server.stage \in Stages
  BY DEF IInv, DataOK
<1>4. QED
  BY <1>1, <1>2, <1>3 DEF IInv, FlagsOK, DesktopOK, CallOK, TypeOK, Stages

LEMMA RoomIs ==
  /\ DOMAIN Room = {"version", "auth", "challenge", "response", "size", "format", "length",
                    "name"}
  /\ \A what \in DOMAIN Room : Room[what] \in Nat
  /\ Room["version"] = Version /\ Room["auth"] = Card /\ Room["challenge"] = Challenge
  /\ Room["response"] = Card /\ Room["size"] = Card /\ Room["format"] = Format
  /\ Room["length"] = Card /\ Room["name"] = MaxName
  /\ Version \in Nat /\ Card \in Nat /\ Challenge \in Nat /\ Format \in Nat /\ MaxName \in Nat
BY SizesAssumption DEF Room

LEMMA WholeIs ==
  ASSUME NEW m \in Message, m[1] = "name" => m[2] \in Nat
  PROVE  Whole(m) \in Seq(Octet)
<1>1. SizeOf(m) \in Nat
  BY RoomIs DEF SizeOf
<1>2. \A i \in 1..SizeOf(m) : <<m, i>> \in Octet
  BY <1>1 DEF Octet
<1>3. QED
  BY <1>1, <1>2 DEF Whole

(* What the server has to say after a message is bytes again. *)
LEMMA AnswersAre ==
  ASSUME DataOK, NEW message, server' \in Answers(message)
  PROVE  server' \in [stage : Stages, says : Seq(Octet)]
<1>0. server.stage \in Stages /\ server.says \in Seq(Octet)
  BY DEF DataOK
<1>1. ASSUME NEW says \in Seq(Octet), NEW stage \in Stages
      PROVE  Server(stage, says) \in [stage : Stages, says : Seq(Octet)]
  BY DEF Server
<1>2. ASSUME NEW says \in Seq(Octet), NEW stage \in Stages
      PROVE  Serving(stage, says) \in [stage : Stages, says : Seq(Octet)]
  <2>1. server.says \o says \in Seq(Octet)
    BY <1>0
  <2>2. QED
    BY <1>1, <2>1 DEF Serving
<1>3. /\ <<"auth", "none">> \in Message /\ <<"auth", "password">> \in Message
      /\ <<"auth", "failed">> \in Message /\ <<"challenge", 0>> \in Message
      /\ <<"response", "ok">> \in Message /\ <<"response", "wrong">> \in Message
      /\ <<"size", 0>> \in Message /\ <<"format", 0>> \in Message
      /\ \A n \in Nat : <<"length", n>> \in Message /\ <<"name", n>> \in Message
  BY DEF Message
<1>4. /\ Whole(<<"auth", "none">>) \in Seq(Octet) /\ Whole(<<"auth", "password">>) \in Seq(Octet)
      /\ Whole(<<"auth", "failed">>) \in Seq(Octet) /\ Whole(<<"challenge", 0>>) \in Seq(Octet)
      /\ Whole(<<"response", "ok">>) \in Seq(Octet)
      /\ Whole(<<"response", "wrong">>) \in Seq(Octet)
      /\ Whole(<<"size", 0>>) \in Seq(Octet) /\ Whole(<<"format", 0>>) \in Seq(Octet)
      /\ \A n \in Nat : Whole(<<"length", n>>) \in Seq(Octet) /\ Whole(<<"name", n>>) \in Seq(Octet)
  BY <1>3, WholeIs
<1>5. \A n \in 0..MaxName : ServerInit(n) \in Seq(Octet)
  <2> SUFFICES ASSUME NEW n \in 0..MaxName PROVE ServerInit(n) \in Seq(Octet)
    OBVIOUS
  <2>1. n \in Nat
    BY RoomIs
  <2>2. /\ Whole(<<"size", 0>>) \in Seq(Octet) /\ Whole(<<"format", 0>>) \in Seq(Octet)
        /\ Whole(<<"length", n>>) \in Seq(Octet) /\ Whole(<<"name", n>>) \in Seq(Octet)
    BY <1>4, <2>1
  <2>3. \A s \in Seq(Octet), t \in Seq(Octet) : s \o t \in Seq(Octet)
    OBVIOUS
  <2>4. QED
    BY <2>2, <2>3 DEF ServerInit
<1>6. Whole(<<"auth", "password">>) \o Whole(<<"challenge", 0>>) \in Seq(Octet)
  BY <1>4
<1>7. CASE server.stage = "version" /\ message = "version"
  <2>1. server' \in {Serving("shared", Whole(<<"auth", "none">>)),
          Serving("response", Whole(<<"auth", "password">>) \o Whole(<<"challenge", 0>>)),
          Serving("refused", Whole(<<"auth", "failed">>))}
    BY <1>7 DEF Answers
  <2>2. /\ Serving("shared", Whole(<<"auth", "none">>)) \in [stage : Stages, says : Seq(Octet)]
        /\ Serving("response", Whole(<<"auth", "password">>) \o Whole(<<"challenge", 0>>))
             \in [stage : Stages, says : Seq(Octet)]
        /\ Serving("refused", Whole(<<"auth", "failed">>)) \in [stage : Stages, says : Seq(Octet)]
    <3>1. "shared" \in Stages /\ "response" \in Stages /\ "refused" \in Stages
      BY DEF Stages
    <3>2. QED
      BY <1>2, <1>4, <1>6, <3>1, Zenon
  <2>3. QED
    BY <2>1, <2>2, Zenon
<1>8. CASE server.stage = "response" /\ message = "response"
  <2>1. server' \in {Serving("shared", Whole(<<"response", "ok">>)),
                     Serving("refused", Whole(<<"response", "wrong">>))}
    BY <1>8 DEF Answers
  <2>2. QED
    BY <1>2, <1>4, <2>1 DEF Stages
<1>9. CASE server.stage = "shared" /\ message = "shared"
  <2>1. PICK n \in 0..MaxName : server' = Serving("encodings", ServerInit(n))
    BY <1>9 DEF Answers
  <2>2. QED
    BY <1>2, <1>5, <2>1 DEF Stages
<1>10. CASE server.stage = "encodings" /\ message = "encodings"
  <2>1. server' = Serving("serving", <<>>)
    BY <1>10 DEF Answers
  <2>2. <<>> \in Seq(Octet) /\ "serving" \in Stages
    BY DEF Stages
  <2>3. QED
    BY <1>2, <2>1, <2>2, Zenon
<1>11. CASE server.stage = "serving" /\ message = "input"
  <2>1. server' = server
    BY <1>11 DEF Answers
  <2>2. QED
    BY <2>1 DEF DataOK
<1>12. CASE /\ ~(server.stage = "version" /\ message = "version")
            /\ ~(server.stage = "response" /\ message = "response")
            /\ ~(server.stage = "shared" /\ message = "shared")
            /\ ~(server.stage = "encodings" /\ message = "encodings")
            /\ ~(server.stage = "serving" /\ message = "input")
  <2>1. Answers(message) = {Server("gone", <<>>)}
    BY <1>12, Zenon DEF Answers
  <2>2. <<>> \in Seq(Octet) /\ "gone" \in Stages
    BY DEF Stages
  <2>3. server' = Server("gone", <<>>)
    BY <2>1
  <2>4. QED
    BY <1>1, <2>2, <2>3, Zenon
<1>13. QED
  BY <1>7, <1>8, <1>9, <1>10, <1>11, <1>12, Zenon

LEMMA DisconnectedIs ==
  ASSUME Disconnected
  PROVE  /\ DataOK' /\ socket' = "none" /\ networkStatus' = "none"
<1>1. Server("none", <<>>) \in [stage : Stages, says : Seq(Octet)]
  BY DEF Server, Stages
<1>2. QED
  BY <1>1 DEF Disconnected, DataOK

LEMMA CloseTyped ==
  ASSUME IInv, NEW open \in SUBSET {"connect", "password", "main"}, CloseConnection(open)
  PROVE  FlagsOK' /\ DataOK' /\ windows' \subseteq {"connect", "password", "main"}
         /\ config' \subseteq {"mouse", "key", "edge"}
<1>1. DataOK' /\ socket' = "none" /\ networkStatus' = "none"
  BY DisconnectedIs DEF CloseConnection
<1>2. flags' \subseteq flags /\ config' \subseteq config /\ windows' \subseteq open
  BY DEF CloseConnection, ClosedFlags, ClosedConfig
<1>3. QED
  BY <1>1, <1>2 DEF IInv, FlagsOK, DesktopOK

LEMMA AnswerTyped ==
  ASSUME IInv, NEW message, NEW status \in DOMAIN First,
         NEW open \in SUBSET {"connect", "password", "main"}, Answer(message, status, open)
  PROVE  FlagsOK' /\ DataOK' /\ windows' \subseteq {"connect", "password", "main"}
         /\ config' \subseteq {"mouse", "key", "edge"}
<1>1. CASE CloseConnection(open)
  BY <1>1, CloseTyped
<1>2. CASE /\ Write(message) /\ networkStatus' = status /\ windows' = open
           /\ UNCHANGED <<flags, socket, memBuffer, config, wire>>
  <2>1. server' \in [stage : Stages, says : Seq(Octet)]
    BY <1>2, AnswersAre DEF Write, IInv
  <2>2. QED
    BY <1>2, <2>1 DEF IInv, FlagsOK, DataOK, DesktopOK
<1>3. QED
  BY <1>1, <1>2 DEF Answer

LEMMA ReturnTyped == ASSUME Return PROVE CallOK'
  BY DEF Return, CallOK, RoomFor

LEMMA ReadDataTyped ==
  ASSUME NEW what \in DOMAIN Room, NEW amount \in Nat, amount <= Room[what],
         ReadData(what, amount)
  PROVE  CallOK'
BY RoomIs DEF ReadData, CallOK, RoomFor

LEMMA FilledIs == ASSUME DataOK PROVE Filled \in Seq(MemBuffer)
<1>1. wire \in Seq(Octet) /\ Len(wire) \in Nat /\ memBuffer \in Seq(MemBuffer)
  BY DEF DataOK
<1>2. [data |-> wire, offset |-> 0] \in MemBuffer
  BY <1>1 DEF MemBuffer
<1>3. Append(memBuffer, [data |-> wire, offset |-> 0]) \in Seq(MemBuffer)
  BY <1>1, <1>2
<1>4. QED
  BY <1>1, <1>3 DEF Filled

(* Copying takes no more than the first buffer has, and no more than is wanted. *)
LEMMA CopyTyped == ASSUME IInv, Copy PROVE DataOK' /\ CallOK'
<1> DEFINE first == Head(memBuffer)
           some == SubSeq(first.data, first.offset + 1, Len(first.data))
<1>1. /\ memBuffer \in Seq(MemBuffer) /\ memBuffer # <<>>
      /\ left \in Nat /\ got \in Seq(Octet) /\ Len(got) + left <= RoomFor(reading)
      /\ Len(got) \in Nat
  BY DEF IInv, DataOK, CallOK, Copy
<1>2. /\ first \in MemBuffer /\ Tail(memBuffer) \in Seq(MemBuffer)
      /\ first = memBuffer[1] /\ 1 \in DOMAIN memBuffer
  BY <1>1
<1>3. /\ first.data \in Seq(Octet) /\ first.offset \in Nat /\ Len(first.data) \in Nat
      /\ first.offset <= Len(first.data)
      /\ first = [data |-> first.data, offset |-> first.offset]
  BY <1>2 DEF MemBuffer
<1> HIDE DEF first
<1>4. some \in Seq(Octet) /\ Len(some) = Len(first.data) - first.offset
  BY <1>3
<1>5. UNCHANGED <<reading, wire, server>>
  BY DEF Copy, LoopFrame
<1> HIDE DEF some
<1>6. CASE left > Len(some)
  <2>1. got' = got \o some /\ left' = left - Len(some) /\ memBuffer' = Tail(memBuffer)
    BY <1>6 DEF Copy, first, some
  <2>2. /\ got' \in Seq(Octet) /\ left' \in Nat
        /\ Len(got') + left' = Len(got) + left
    <3>1. Len(some) \in Nat
      BY <1>4
    <3>2. got \o some \in Seq(Octet) /\ Len(got \o some) = Len(got) + Len(some)
      BY <1>1, <1>4
    <3>3. QED
      BY <1>1, <1>6, <2>1, <3>1, <3>2
  <2>3. QED
    BY <1>1, <1>2, <1>5, <2>1, <2>2 DEF DataOK, CallOK, IInv
<1>7. CASE ~(left > Len(some))
  <2>1. /\ got' = got \o SubSeq(some, 1, left) /\ left' = 0
        /\ memBuffer' = [memBuffer EXCEPT ![1].offset = @ + left]
    BY <1>7 DEF Copy, first, some
  <2>2. Len(some) \in Nat /\ left <= Len(some)
    BY <1>1, <1>4, <1>7
  <2>3. SubSeq(some, 1, left) \in Seq(Octet) /\ Len(SubSeq(some, 1, left)) = left
    BY <1>1, <1>4, <2>2
  <2>4. got' \in Seq(Octet) /\ Len(got') = Len(got) + left
    BY <1>1, <2>1, <2>3
  <2>5. memBuffer' \in Seq(MemBuffer)
    <3> DEFINE used == [data |-> first.data, offset |-> first.offset + left]
    <3>1. used \in MemBuffer
      BY <1>1, <1>3, <1>4, <2>2 DEF MemBuffer
    <3>2. memBuffer' = [memBuffer EXCEPT ![1] = used]
      <4>1. [first EXCEPT !.offset = @ + left] = used
        BY <1>3
      <4>2. memBuffer' = [memBuffer EXCEPT ![1] = [memBuffer[1] EXCEPT !.offset = @ + left]]
        BY <2>1
      <4>3. QED
        BY <1>2, <4>1, <4>2
    <3> HIDE DEF used
    <3>3. QED
      BY <1>1, <3>1, <3>2
  <2>6. QED
    BY <1>1, <1>5, <2>1, <2>4, <2>5 DEF DataOK, CallOK, IInv
<1>8. QED
  BY <1>6, <1>7

LEMMA ReadingTyped == ASSUME IInv, Reading PROVE IInv'
<1>0. /\ windows \in SUBSET {"connect", "password", "main"}
      /\ windows \ {"password"} \in SUBSET {"connect", "password", "main"}
      /\ "PASSWORD" \in DOMAIN First /\ "PASSWORD_RESPONSE" \in DOMAIN First
      /\ "SERVER_INIT" \in DOMAIN First
  BY DEF IInv, DesktopOK, First
<1>1. ASSUME FlagsOK', DataOK', CallOK', windows' \subseteq {"connect", "password", "main"},
             config' \subseteq {"mouse", "key", "edge"}, UNCHANGED <<pollword, pc, connections>>,
             strayed' \in BOOLEAN
      PROVE  IInv'
  BY <1>1 DEF IInv, DesktopOK
<1>2. CASE ReadMore
  <2>1. /\ memBuffer' = Filled /\ wire' = <<>>
        /\ UNCHANGED <<reading, left, got, flags, networkStatus, socket, windows, config,
                       pollword, pc, server, connections, strayed>>
    BY <1>2 DEF ReadMore, LoopFrame, call, input
  <2>2. Filled \in Seq(MemBuffer)
    BY FilledIs DEF IInv
  <2>3. DataOK'
    BY <2>1, <2>2 DEF IInv, DataOK
  <2>4. QED
    BY <2>1, <2>3 DEF IInv, FlagsOK, DesktopOK, CallOK
<1>3. CASE ReadLost
  <2>1. CloseConnection(windows) /\ left' = 0
        /\ UNCHANGED <<reading, got, pollword, pc, connections, strayed>>
    BY <1>3 DEF ReadLost
  <2>2. CallOK'
    <3>1. Len(got) \in Nat /\ left \in Nat /\ RoomFor(reading) \in Nat
      BY RoomIs DEF IInv, CallOK, RoomFor
    <3>2. Len(got) + 0 <= RoomFor(reading)
      BY <3>1 DEF IInv, CallOK
    <3>3. QED
      BY <2>1, <3>2 DEF IInv, CallOK
  <2>3. QED
    BY <1>0, <1>1, <2>1, <2>2, CloseTyped DEF IInv, DesktopOK
<1>4. CASE Copy
  <2>1. DataOK' /\ CallOK'
    BY <1>4, CopyTyped
  <2>2. UNCHANGED <<flags, networkStatus, socket, windows, config, pollword, pc, connections,
                    strayed>>
    BY <1>4 DEF Copy, LoopFrame, input
  <2>3. QED
    BY <2>1, <2>2 DEF IInv, FlagsOK, DesktopOK
<1>5. CASE NothingRead \/ NoMemory
  <2>1. /\ Return /\ UNCHANGED <<flags, networkStatus, socket, memBuffer, windows, config,
                                 pollword, pc, wire, server, connections>>
    BY <1>5 DEF NothingRead, NoMemory, connection, input
  <2>2. strayed' \in BOOLEAN
    BY <1>5, Zenon DEF NothingRead, NoMemory
  <2>3. CallOK'
    BY <2>1, ReturnTyped
  <2>4. FlagsOK' /\ DataOK'
    BY <2>1 DEF IInv, FlagsOK, DataOK
  <2>5. QED
    BY <1>0, <1>1, <2>1, <2>2, <2>3, <2>4 DEF IInv, DesktopOK
<1>6. CASE ProcessVersion \/ Encrypt \/ PasswordResponse
  <2>1. Return /\ UNCHANGED <<pollword, pc, connections, strayed>>
    BY <1>6 DEF ProcessVersion, Encrypt, PasswordResponse, HandlerFrame
  <2>2. \/ Answer("version", "PASSWORD", windows)
        \/ Answer("response", "PASSWORD_RESPONSE", windows \ {"password"})
        \/ Answer("shared", "SERVER_INIT", windows)
        \/ CloseConnection(windows)
    BY <1>6 DEF ProcessVersion, Encrypt, PasswordResponse
  <2>3. /\ FlagsOK' /\ DataOK' /\ windows' \subseteq {"connect", "password", "main"}
        /\ config' \subseteq {"mouse", "key", "edge"}
    BY <1>0, <2>2, AnswerTyped, CloseTyped
  <2>4. QED
    BY <1>1, <2>1, <2>3, ReturnTyped DEF IInv, DesktopOK
<1>7. CASE GetPassword
  <2>1. Return /\ UNCHANGED <<pollword, pc, connections, strayed>>
    BY <1>7 DEF GetPassword, HandlerFrame
  <2>2. /\ FlagsOK' /\ DataOK' /\ windows' \subseteq {"connect", "password", "main"}
        /\ config' \subseteq {"mouse", "key", "edge"}
    <3>1. CASE Answer("shared", "SERVER_INIT", windows) \/ CloseConnection(windows)
      BY <1>0, <3>1, AnswerTyped, CloseTyped
    <3>2. CASE /\ windows' = windows \cup {"password"}
               /\ networkStatus' = "WAITING_FOR_ENCRYPT"
               /\ UNCHANGED <<flags, socket, memBuffer, config, wire, server>>
      BY <3>2 DEF IInv, FlagsOK, DataOK, DesktopOK
    <3>3. QED
      BY <1>7, <3>1, <3>2 DEF GetPassword
  <2>3. QED
    BY <1>1, <2>1, <2>2, ReturnTyped DEF IInv, DesktopOK
<1>8. CASE Initialise
  <2>1. UNCHANGED <<flags, networkStatus, socket, memBuffer, windows, config, pollword, pc, wire,
                    server, connections, strayed>>
    BY <1>8 DEF Initialise, connection, input
  <2>2. CallOK'
    <3>1. \/ ReadData("format", Format) \/ ReadData("length", Card)
          \/ \E n \in 0..MaxName : ReadData("name", n)
      BY <1>8 DEF Initialise, ReadFormat, ReadLength, ReadName
    <3>2. \A n \in 0..MaxName : n \in Nat /\ n <= MaxName
      BY RoomIs
    <3>3. /\ "format" \in DOMAIN Room /\ "length" \in DOMAIN Room /\ "name" \in DOMAIN Room
          /\ Format <= Room["format"] /\ Card <= Room["length"]
      BY RoomIs
    <3>4. QED
      BY <3>1, <3>2, <3>3, RoomIs, ReadDataTyped
  <2>3. QED
    BY <2>1, <2>2 DEF IInv, FlagsOK, DataOK, DesktopOK
<1>9. CASE Initialised
  <2>1. Return /\ UNCHANGED <<pollword, pc, connections>>
    BY <1>9 DEF Initialised, HandlerFrame
  <2>2. CASE /\ Write("encodings") /\ networkStatus' = "none"
             /\ flags' = flags \cup {"INITIALISED"} /\ config' = config \cup {"edge"}
             /\ UNCHANGED <<socket, memBuffer, windows, wire, strayed>>
    <3>1. server' \in [stage : Stages, says : Seq(Octet)]
      BY <2>2, AnswersAre DEF Write, IInv
    <3>2. FlagsOK' /\ DataOK'
      BY <2>2, <3>1 DEF IInv, FlagsOK, DataOK
    <3>3. config' \subseteq {"mouse", "key", "edge"} /\ strayed' \in BOOLEAN
      BY <2>2 DEF IInv, DesktopOK
    <3>4. QED
      BY <1>0, <1>1, <2>1, <2>2, <3>2, <3>3, ReturnTyped
  <2>3. CASE /\ Disconnected
             /\ flags' = ClosedFlags \cup {"INITIALISED"}
             /\ config' = ClosedConfig \cup {"edge"}
             /\ windows' = windows \ {"main"} /\ strayed' = TRUE
    <3>1. DataOK' /\ socket' = "none" /\ networkStatus' = "none"
      BY <2>3, DisconnectedIs
    <3>2. FlagsOK'
      BY <2>3, <3>1 DEF IInv, FlagsOK, ClosedFlags
    <3>3. config' \subseteq {"mouse", "key", "edge"}
      BY <2>3 DEF IInv, DesktopOK, ClosedConfig
    <3>4. QED
      BY <1>0, <1>1, <2>1, <2>3, <3>1, <3>2, <3>3, ReturnTyped
  <2>4. QED
    BY <1>9, <2>2, <2>3 DEF Initialised
<1>10. QED
  BY <1>2, <1>3, <1>4, <1>5, <1>6, <1>7, <1>8, <1>9 DEF Reading

LEMMA SendTyped ==
  ASSUME IInv, SendInput
  PROVE  /\ FlagsOK' /\ DataOK' /\ windows' \subseteq {"connect", "password", "main"}
         /\ config' \subseteq {"mouse", "key", "edge"} /\ strayed' \in BOOLEAN
<1>1. strayed' \in BOOLEAN
  BY Zenon DEF SendInput
<1>2. CASE CloseConnection(windows)
  BY <1>1, <1>2, CloseTyped DEF IInv, DesktopOK
<1>3. CASE Write("input") /\ UNCHANGED <<connection, windows, config, wire>>
  <2>1. server' \in [stage : Stages, says : Seq(Octet)]
    BY <1>3, AnswersAre DEF Write, IInv
  <2>2. QED
    BY <1>1, <1>3, <2>1 DEF connection, IInv, FlagsOK, DataOK, DesktopOK
<1>4. QED
  BY <1>2, <1>3 DEF SendInput

LEMMA CallSame == ASSUME IInv, UNCHANGED call PROVE CallOK'
  BY DEF IInv, CallOK, RoomFor, call

LEMMA NullTyped == ASSUME IInv, Null \/ NullLost PROVE IInv'
<1>1. CASE Null
  <2>1. /\ memBuffer' = Filled /\ wire' = <<>>
        /\ UNCHANGED <<flags, networkStatus, socket, windows, config, pollword, pc, server,
                       connections, strayed>>
    BY <1>1 DEF Null, input
  <2>2. DataOK'
    BY <2>1, FilledIs DEF IInv, DataOK
  <2>3. CallOK'
    <3>1. CASE UNCHANGED call
      BY <3>1, CallSame
    <3>2. CASE /\ networkStatus \in DOMAIN First
               /\ ReadData(First[networkStatus], Amount(First[networkStatus]))
      <4>1. First[networkStatus] \in {"version", "auth", "response", "size"}
        BY <3>2 DEF First
      <4>2. \A what \in {"version", "auth", "response", "size"} :
              what \in DOMAIN Room /\ Amount(what) \in Nat /\ Amount(what) <= Room[what]
        BY RoomIs DEF Amount
      <4>3. QED
        BY <3>2, <4>1, <4>2, ReadDataTyped
    <3>3. QED
      BY <1>1, <3>1, <3>2 DEF Null, ProcessInitInput
  <2>4. QED
    BY <2>1, <2>2, <2>3 DEF IInv, FlagsOK, DesktopOK
<1>2. CASE NullLost
  <2>1. CloseConnection(windows) /\ UNCHANGED <<call, pollword, pc, connections, strayed>>
    BY <1>2 DEF NullLost
  <2>2. windows \in SUBSET {"connect", "password", "main"}
    BY DEF IInv, DesktopOK
  <2>3. QED
    BY <2>1, <2>2, CloseTyped, CallSame DEF IInv, DesktopOK
<1>3. QED
  BY <1>1, <1>2

LEMMA UserTyped == ASSUME IInv, User PROVE IInv'
<1>0. windows \in SUBSET {"connect", "password", "main"}
  BY DEF IInv, DesktopOK
<1>1. CASE OpenConnectWindow \/ CancelConnect \/ EscapePassword
  <2>1. /\ UNCHANGED <<flags, networkStatus, socket, memBuffer, call, config, pollword, pc, wire,
                       server, connections, strayed>>
        /\ windows' \subseteq windows \cup {"connect"}
    BY <1>1 DEF OpenConnectWindow, CancelConnect, EscapePassword, connection, input
  <2>2. FlagsOK' /\ DataOK' /\ DesktopOK'
    BY <1>0, <2>1 DEF IInv, FlagsOK, DataOK, DesktopOK
  <2>3. QED
    BY <2>1, <2>2, CallSame DEF IInv
<1>2. CASE OpenConnection
  <2>1. /\ windows' \subseteq windows /\ connections < MaxConnections
        /\ connections' = connections + 1
        /\ UNCHANGED <<memBuffer, call, config, pollword, pc, strayed>>
    BY <1>2 DEF OpenConnection, input
  <2>2. DesktopOK'
    BY <1>0, <2>1, SizesAssumption DEF IInv, DesktopOK
  <2>3. FlagsOK' /\ DataOK'
    <3>1. CASE /\ socket' \in {"unresolved", "none"}
               /\ UNCHANGED <<flags, networkStatus, wire, server>>
      BY <2>1, <3>1 DEF IInv, FlagsOK, DataOK
    <3>2. CASE /\ socket' = "own" /\ flags' = flags \cup {"CONNECTED"}
               /\ networkStatus' = "VERSION" /\ wire' = <<>>
               /\ server' = Server("version", Whole(<<"version", 0>>))
      <4>1. <<"version", 0>> \in Message
        BY DEF Message
      <4>2. Whole(<<"version", 0>>) \in Seq(Octet)
        BY <4>1, WholeIs
      <4>3. server' \in [stage : Stages, says : Seq(Octet)]
        BY <3>2, <4>2 DEF Server, Stages
      <4>4. QED
        BY <2>1, <3>2, <4>3 DEF IInv, FlagsOK, DataOK, First
    <3>3. QED
      BY <1>2, <3>1, <3>2 DEF OpenConnection
  <2>4. QED
    BY <2>1, <2>2, <2>3, CallSame DEF IInv
<1>3. CASE Disconnect
  <2>1. CloseConnection(windows) /\ UNCHANGED <<call, pollword, pc, connections, strayed>>
    BY <1>3 DEF Disconnect
  <2>2. QED
    BY <1>0, <2>1, CloseTyped, CallSame DEF IInv, DesktopOK
<1>4. CASE EnterPassword
  <2>1. /\ ReadData("challenge", Challenge)
        /\ UNCHANGED <<flags, networkStatus, socket, memBuffer, windows, config, pollword, pc,
                       wire, server, connections>>
    BY <1>4 DEF EnterPassword, connection, input
  <2>2. strayed' \in BOOLEAN
    BY <1>4, Zenon DEF EnterPassword
  <2>3. CallOK'
    <3>1. "challenge" \in DOMAIN Room /\ Challenge <= Room["challenge"] /\ Challenge \in Nat
      BY RoomIs
    <3>2. QED
      BY <2>1, <3>1, ReadDataTyped
  <2>4. QED
    BY <2>1, <2>2, <2>3 DEF IInv, FlagsOK, DataOK, DesktopOK
<1>5. CASE MainKey
  <2>1. SendInput /\ UNCHANGED <<call, pollword, connections>> /\ pc' \in {"up", "idle"}
    BY <1>5 DEF MainKey
  <2>2. QED
    BY <2>1, SendTyped, CallSame DEF IInv, DesktopOK
<1>6. QED
  BY <1>1, <1>2, <1>3, <1>4, <1>5 DEF User

LEMMA EventTyped == ASSUME IInv, Event PROVE IInv'
<1>1. CASE HandleEdge
  <2>1. /\ pc' = "idle" /\ pollword' = {}
        /\ UNCHANGED <<networkStatus, socket, memBuffer, call, wire, server, connections,
                       strayed>>
    BY <1>1 DEF HandleEdge
  <2>2. /\ windows' \subseteq windows \cup {"main"} /\ config' \subseteq config \cup {"mouse", "key"}
        /\ flags' \subseteq flags \cup {"WINDOW_OPEN"}
    BY <1>1 DEF HandleEdge, EdgeDetect
  <2>3. FlagsOK' /\ DataOK' /\ DesktopOK'
    BY <2>1, <2>2 DEF IInv, FlagsOK, DataOK, DesktopOK
  <2>4. QED
    BY <2>1, <2>3, CallSame DEF IInv
<1>2. ASSUME SendInput \/ UNCHANGED <<connection, windows, config, wire, server, strayed>>,
             UNCHANGED <<call, pollword, connections>>,
             pc' \in {"press", "release", "edge", "idle"}
      PROVE  IInv'
  <2>1. CASE SendInput
    BY <1>2, <2>1, SendTyped, CallSame DEF IInv, DesktopOK
  <2>2. CASE UNCHANGED <<connection, windows, config, wire, server, strayed>>
    BY <1>2, <2>2, CallSame DEF IInv, FlagsOK, DataOK, DesktopOK, connection
  <2>3. QED
    BY <1>2, <2>1, <2>2
<1>3. CASE KeyUp
  BY <1>2, <1>3 DEF KeyUp
<1>4. CASE \/ HandleBit("mouse", "mouse", "press") \/ HandleBit("press", "key", "release")
           \/ HandleBit("release", "key", "edge")
  BY <1>2, <1>4 DEF HandleBit
<1>5. QED
  BY <1>1, <1>3, <1>4 DEF Event

LEMMA WorldTyped ==
  ASSUME IInv, Watched \/ PollwordEvent \/ Arrive \/ ServerStops \/ UNCHANGED vars
  PROVE  IInv'
<1>1. CASE Watched
  <2>1. PICK bit \in config : pollword' = pollword \cup {bit}
    BY <1>1 DEF Watched
  <2>2. UNCHANGED <<flags, networkStatus, socket, memBuffer, call, windows, config, pc, wire,
                    server, connections, strayed>>
    BY <1>1 DEF Watched, connection
  <2>3. QED
    BY <2>1, <2>2, CallSame DEF IInv, FlagsOK, DataOK, DesktopOK
<1>2. CASE PollwordEvent
  BY <1>2, CallSame DEF PollwordEvent, connection, IInv, FlagsOK, DataOK, DesktopOK
<1>3. CASE Arrive
  <2>1. PICK n \in 1..Len(server.says) :
          /\ wire' = wire \o SubSeq(server.says, 1, n)
          /\ server' = [server EXCEPT !.says = SubSeq(@, n + 1, Len(@))]
    BY <1>3 DEF Arrive
  <2>2. UNCHANGED <<flags, networkStatus, socket, memBuffer, call, windows, config, pollword, pc,
                    connections, strayed>>
    BY <1>3 DEF Arrive, connection, input
  <2>3. /\ server.says \in Seq(Octet) /\ Len(server.says) \in Nat /\ wire \in Seq(Octet)
        /\ server \in [stage : Stages, says : Seq(Octet)]
    BY DEF IInv, DataOK
  <2>4. /\ SubSeq(server.says, 1, n) \in Seq(Octet)
        /\ SubSeq(server.says, n + 1, Len(server.says)) \in Seq(Octet)
    BY <2>3
  <2>5. wire' \in Seq(Octet)
    BY <2>1, <2>3, <2>4
  <2>6. server' \in [stage : Stages, says : Seq(Octet)]
    BY <2>1, <2>3, <2>4
  <2>7. QED
    BY <2>2, <2>5, <2>6, CallSame DEF IInv, FlagsOK, DataOK, DesktopOK
<1>4. CASE ServerStops
  <2>1. server' = Server("gone", <<>>)
    BY <1>4 DEF ServerStops
  <2>2. server' \in [stage : Stages, says : Seq(Octet)]
    BY <2>1 DEF Server, Stages
  <2>3. QED
    BY <1>4, <2>2, CallSame DEF ServerStops, connection, input, IInv, FlagsOK, DataOK, DesktopOK
<1>5. CASE UNCHANGED vars
  BY <1>5, CallSame DEF vars, connection, input, IInv, FlagsOK, DataOK, DesktopOK
<1>6. QED
  BY <1>1, <1>2, <1>3, <1>4, <1>5

LEMMA InitTyped == Init => IInv
<1>1. Init => FlagsOK /\ DesktopOK
  <2>1. 0 \in 0..MaxConnections
    BY SizesAssumption
  <2>2. Init => FlagsOK
    BY DEF Init, FlagsOK
  <2>3. Init => DesktopOK
    BY <2>1 DEF Init, DesktopOK
  <2>4. QED
    BY <2>2, <2>3
<1>2. Init => DataOK
  BY DEF Init, DataOK, Server, Stages
<1>3. Init => CallOK
  BY DEF Init, CallOK, RoomFor
<1>4. QED
  BY <1>1, <1>2, <1>3 DEF IInv

(* Whatever the server says and the user does, for messages of any size: socketReadData
   reads no more from a buffer than it holds and no more into its caller's memory
   than was asked for (Sockets.c). *)
THEOREM VNCTypeCorrect == Spec => []TypeOK
<1>1. IInv /\ [Next]_vars => IInv'
  BY ReadingTyped, NullTyped, UserTyped, EventTyped, WorldTyped DEF Next
<1>2. QED
  BY <1>1, InitTyped, TypesFollow, PTL DEF Spec
-----------------------------------------------------------------------------
(* The bytes of the handshake. *)

(* Induction: a set of numbers that is not empty has a least one. *)
LEMMA NatMin ==
  ASSUME NEW T \in SUBSET Nat, T # {}
  PROVE  \E n \in T : \A m \in T : n <= m
<1> DEFINE R == {ss \in Nat \X Nat : ss[1] < ss[2]}
<1>1. IsWellFoundedOn(OpToRel(<, Nat), Nat)
  BY NatLessThanWellFounded
<1>2. IsWellFoundedOn(R, Nat)
  BY <1>1 DEF OpToRel
<1>3. T \subseteq Nat
  OBVIOUS
<1> HIDE DEF R
<1>4. \E n \in T : \A m \in T : ~(<<m, n>> \in R)
  BY <1>2, <1>3, WFMin, Zenon
<1>5. PICK n \in T : \A m \in T : ~(<<m, n>> \in R)
  BY <1>4
<1>6. ASSUME NEW m \in T PROVE n <= m
  <2>1. m \in Nat /\ n \in Nat
    OBVIOUS
  <2>2. ~(m < n)
    BY <1>5, <2>1 DEF R
  <2> QED
    BY <2>1, <2>2
<1> QED
  BY <1>6

(* Sequences. *)
LEMMA SameSeq ==
  ASSUME NEW S, NEW s \in Seq(S), NEW t \in Seq(S), Len(s) = Len(t),
         \A i \in 1..Len(s) : s[i] = t[i]
  PROVE  s = t
OBVIOUS

LEMMA Regroup ==
  ASSUME NEW S, NEW a \in Seq(S), NEW b \in Seq(S), NEW c \in Seq(S)
  PROVE  (a \o b) \o c = a \o (b \o c)
<1>1. (a \o b) \o c \in Seq(S) /\ a \o (b \o c) \in Seq(S) /\ Len((a \o b) \o c) = Len(a \o (b \o c))
  OBVIOUS
<1>2. ASSUME NEW i \in 1 .. Len((a \o b) \o c) PROVE ((a \o b) \o c)[i] = (a \o (b \o c))[i]
  OBVIOUS
<1> QED
  BY <1>1, <1>2, SameSeq

Regroups(S) == \A a, b, c \in Seq(S) : (a \o b) \o c = a \o (b \o c)

LEMMA Regrouped == \A S : Regroups(S)
BY Regroup DEF Regroups

(* The step by step flattening of the first n sequences of ss. *)
Flattens(f, ss, n) ==
  f = [i \in 1..n |-> IF i = 1 THEN ss[i] ELSE f[i - 1] \o ss[i]]

LEMMA FlattenIs ==
  ASSUME NEW ss, Len(ss) \in Nat
  PROVE  FlattenSeq(ss) = IF Len(ss) = 0 THEN ss
                          ELSE (CHOOSE f : Flattens(f, ss, Len(ss)))[Len(ss)]
BY DEF FlattenSeq, Flattens

LEMMA FlattensExists ==
  ASSUME NEW ss, NEW n \in Nat
  PROVE  \E f : Flattens(f, ss, n)
<1> DEFINE T == {m \in Nat : ~\E f : Flattens(f, ss, m)}
<1> SUFFICES ASSUME T # {} PROVE FALSE
  OBVIOUS
<1>1. PICK m \in T : \A k \in T : m <= k
  BY NatMin
<1>2. m # 0
  <2>1. Flattens([i \in 1..0 |-> 0], ss, 0)
    BY DEF Flattens
  <2> QED
    BY <2>1
<1>3. m - 1 \in Nat /\ m - 1 \notin T
  BY <1>1, <1>2
<1>4. PICK f : Flattens(f, ss, m - 1)
  BY <1>3
<1> DEFINE g == [i \in 1..m |-> IF i \in 1 .. m - 1 THEN f[i]
                               ELSE IF i = 1 THEN ss[i] ELSE f[i - 1] \o ss[i]]
<1>5. Flattens(g, ss, m)
  <2>1. m \in Nat /\ m > 0
    BY <1>1, <1>2
  <2>2. f = [i \in 1 .. m - 1 |-> IF i = 1 THEN ss[i] ELSE f[i - 1] \o ss[i]]
    BY <1>4 DEF Flattens
  <2> SUFFICES ASSUME NEW i \in 1..m
               PROVE  g[i] = IF i = 1 THEN ss[i] ELSE g[i - 1] \o ss[i]
    BY DEF Flattens
  <2>3. CASE i = 1
    <3>1. 1 \in 1 .. m - 1 => f[1] = ss[1]
      BY <2>2
    <3> QED
      BY <2>1, <2>3, <3>1
  <2>4. CASE i # 1
    <3>1. i - 1 \in 1 .. m - 1 /\ i - 1 \in 1..m
      BY <2>1, <2>4
    <3>2. g[i - 1] = f[i - 1]
      BY <3>1
    <3>3. i \in 1 .. m - 1 => f[i] = f[i - 1] \o ss[i]
      BY <2>2, <2>4
    <3> QED
      BY <2>4, <3>2, <3>3
  <2> QED
    BY <2>3, <2>4
<1> QED
  BY <1>1, <1>5

LEMMA FlattensSame ==
  ASSUME NEW ss, NEW tt, NEW m \in Nat, NEW n \in Nat, m <= n,
         \A i \in 1..m : ss[i] = tt[i],
         NEW f, NEW g, Flattens(f, ss, m), Flattens(g, tt, n)
  PROVE  \A i \in 1..m : f[i] = g[i]
<1> DEFINE T == {i \in Nat : i \in 1..m /\ f[i] # g[i]}
<1> SUFFICES ASSUME T # {} PROVE FALSE
  OBVIOUS
<1>1. PICK i \in T : \A k \in T : i <= k
  BY NatMin
<1>2. /\ f[i] = IF i = 1 THEN ss[i] ELSE f[i - 1] \o ss[i]
      /\ g[i] = IF i = 1 THEN tt[i] ELSE g[i - 1] \o tt[i]
  <2>1. i \in 1..m /\ i \in 1..n
    BY <1>1
  <2> QED
    BY <2>1 DEF Flattens
<1>3. i # 1 => f[i - 1] = g[i - 1]
  <2> SUFFICES ASSUME i # 1 PROVE f[i - 1] = g[i - 1]
    OBVIOUS
  <2>1. i - 1 \in 1..m /\ i - 1 \in Nat /\ ~(i <= i - 1)
    BY <1>1
  <2>2. i - 1 \notin T
    BY <1>1, <2>1
  <2> QED
    BY <2>1, <2>2
<1> QED
  BY <1>1, <1>2, <1>3

Agree(f, g, m) == \A i \in 1..m : f[i] = g[i]

LEMMA SameFlattens ==
  ASSUME NEW ss, NEW tt, NEW m \in Nat, NEW n \in Nat, m <= n, Agree(ss, tt, m),
         NEW f, NEW g, Flattens(f, ss, m), Flattens(g, tt, n)
  PROVE  Agree(f, g, m)
BY FlattensSame DEF Agree

LEMMA FlattenBy ==
  ASSUME NEW ss, Len(ss) \in Nat \ {0}, NEW f, Flattens(f, ss, Len(ss))
  PROVE  FlattenSeq(ss) = f[Len(ss)]
<1> DEFINE g == CHOOSE h : Flattens(h, ss, Len(ss))
<1>1. Flattens(g, ss, Len(ss))
  OBVIOUS
<1> HIDE DEF g
<1>2. \A i \in 1..Len(ss) : f[i] = g[i]
  BY <1>1, FlattensSame
<1>3. Len(ss) \in 1..Len(ss)
  OBVIOUS
<1>4. f[Len(ss)] = g[Len(ss)]
  BY <1>2, <1>3
<1> QED
  BY <1>4, FlattenIs DEF g

LEMMA FlattensTyped ==
  ASSUME NEW S, NEW ss \in Seq(Seq(S)), NEW n \in 0..Len(ss), NEW f, Flattens(f, ss, n)
  PROVE  \A i \in 1..n : f[i] \in Seq(S)
<1> DEFINE T == {i \in Nat : i \in 1..n /\ f[i] \notin Seq(S)}
<1> SUFFICES ASSUME T # {} PROVE FALSE
  OBVIOUS
<1>1. PICK i \in T : \A k \in T : i <= k
  BY NatMin
<1>2. f[i] = IF i = 1 THEN ss[i] ELSE f[i - 1] \o ss[i]
  BY <1>1 DEF Flattens
<1>3. ss[i] \in Seq(S)
  BY <1>1
<1>4. i # 1 => f[i - 1] \in Seq(S)
  <2> SUFFICES ASSUME i # 1 PROVE f[i - 1] \in Seq(S)
    OBVIOUS
  <2>1. i - 1 \in 1..n /\ i - 1 \in Nat /\ ~(i <= i - 1)
    BY <1>1
  <2>2. i - 1 \notin T
    BY <1>1, <2>1
  <2> QED
    BY <2>1, <2>2
<1>5. f[i] \in Seq(S)
  <2>1. CASE i = 1
    BY <1>2, <1>3, <2>1
  <2>2. CASE i # 1
    <3>1. f[i - 1] \o ss[i] \in Seq(S)
      BY <1>3, <1>4, <2>2
    <3> QED
      BY <1>2, <2>2, <3>1
  <2> QED
    BY <2>1, <2>2
<1> QED
  BY <1>1, <1>5

LEMMA FlattenEmpty == FlattenSeq(<<>>) = <<>>
<1>1. Len(<<>>) = 0
  OBVIOUS
<1> QED
  BY <1>1, FlattenIs

LEMMA FlattenTyped ==
  ASSUME NEW S, NEW ss \in Seq(Seq(S))
  PROVE  FlattenSeq(ss) \in Seq(S)
<1>1. CASE ss = <<>>
  <2>1. FlattenSeq(ss) = <<>>
    BY <1>1, FlattenIs
  <2> QED
    BY <2>1
<1>2. CASE ss # <<>>
  <2>1. Len(ss) \in Nat \ {0} /\ Len(ss) \in 0..Len(ss) /\ Len(ss) \in 1..Len(ss)
    BY <1>2
  <2>2. PICK f : Flattens(f, ss, Len(ss))
    BY <2>1, FlattensExists
  <2>3. f[Len(ss)] \in Seq(S)
    BY <2>1, <2>2, FlattensTyped
  <2> QED
    BY <2>1, <2>2, <2>3, FlattenBy
<1> QED
  BY <1>1, <1>2

(* Flattening, from either end. *)
LEMMA FlattenLast ==
  ASSUME NEW S, NEW ss \in Seq(Seq(S)), NEW e \in Seq(S)
  PROVE  FlattenSeq(Append(ss, e)) = FlattenSeq(ss) \o e
<1> DEFINE tt == Append(ss, e)
           n == Len(ss)
<1>1. /\ n \in Nat /\ Len(tt) = n + 1 /\ n + 1 \in Nat \ {0} /\ tt \in Seq(Seq(S))
      /\ \A i \in 1..n : ss[i] = tt[i]
      /\ tt[n + 1] = e
  OBVIOUS
<1> HIDE DEF tt, n
<1>2. PICK g : Flattens(g, tt, n + 1)
  BY <1>1, FlattensExists
<1>3. FlattenSeq(tt) = g[n + 1]
  BY <1>1, <1>2, FlattenBy
<1>4. \A i \in 1 .. n + 1 : g[i] = IF i = 1 THEN tt[i] ELSE g[i - 1] \o tt[i]
  BY <1>2 DEF Flattens
<1>5. CASE n = 0
  <2>1. ss = <<>>
    BY <1>5 DEF n
  <2>2. FlattenSeq(ss) = <<>>
    BY <2>1, FlattenEmpty
  <2>3. <<>> \o e = e
    OBVIOUS
  <2>4. g[1] = e
    BY <1>1, <1>4, <1>5
  <2> QED
    BY <1>3, <1>5, <2>2, <2>3, <2>4 DEF tt
<1>6. CASE n # 0
  <2>1. PICK f : Flattens(f, ss, n)
    BY <1>1, FlattensExists
  <2>2. FlattenSeq(ss) = f[n]
    BY <1>1, <1>6, <2>1, FlattenBy DEF n
  <2>3. \A i \in 1..n : f[i] = g[i]
    <3>1. n \in Nat /\ n + 1 \in Nat /\ n <= n + 1 /\ \A i \in 1..n : ss[i] = tt[i]
      BY <1>1
    <3> QED
      <4>1. PICK p \in Nat : p = n + 1
        BY <3>1
      <4>2. n \in Nat /\ p \in Nat /\ n <= p /\ Flattens(g, tt, p)
        BY <1>2, <3>1, <4>1, Zenon
      <4> QED
        <5>1. \A i \in 1..n : ss[i] = tt[i]
          BY <3>1
        <5>2. PICK u : u = tt
          OBVIOUS
        <5>3. Flattens(g, u, p) /\ Agree(ss, u, n)
          BY <4>2, <5>1, <5>2 DEF Agree
        <5>4. Agree(f, g, n)
          BY <2>1, <4>2, <5>3, SameFlattens
        <5> QED
          BY <5>4 DEF Agree
  <2>4. g[n + 1] = f[n] \o e
    <3>1. n \in 1..n /\ n + 1 \in 1 .. n + 1 /\ n + 1 # 1 /\ n + 1 - 1 = n
      BY <1>1, <1>6
    <3>2. g[n + 1] = g[n] \o tt[n + 1]
      <4>1. PICK p \in 1 .. n + 1 : p = n + 1 /\ p # 1 /\ p - 1 = n
        BY <3>1
      <4>2. g[p] = g[p - 1] \o tt[p]
        BY <1>4, <4>1, Zenon
      <4> QED
        BY <4>1, <4>2, Zenon
    <3> QED
      BY <1>1, <2>3, <3>1, <3>2
  <2> QED
    BY <1>3, <2>2, <2>4 DEF tt
<1> QED
  BY <1>5, <1>6

LEMMA FlattenFirst ==
  ASSUME NEW S, NEW ss \in Seq(Seq(S)), ss # <<>>
  PROVE  FlattenSeq(ss) = Head(ss) \o FlattenSeq(Tail(ss))
<1>0. \A a, b, c \in Seq(S) : (a \o b) \o c = a \o (b \o c)
  <2>1. Regroups(S)
    BY Regrouped
  <2> QED
    BY <2>1, Zenon DEF Regroups
<1> DEFINE tt == Tail(ss)
           n == Len(tt)
           e == Head(ss)
<1>1. /\ n \in Nat /\ Len(ss) = n + 1 /\ n + 1 \in Nat \ {0} /\ tt \in Seq(Seq(S))
      /\ \A i \in 1..n : tt[i] = ss[i + 1]
      /\ ss[1] = e /\ e \in Seq(S)
  OBVIOUS
<1> HIDE DEF tt, n, e
<1>2. PICK g : Flattens(g, ss, n + 1)
  BY <1>1, FlattensExists
<1>3. FlattenSeq(ss) = g[n + 1]
  BY <1>1, <1>2, FlattenBy
<1>4. \A i \in 1 .. n + 1 : g[i] = IF i = 1 THEN ss[i] ELSE g[i - 1] \o ss[i]
  BY <1>2 DEF Flattens
<1>5. CASE n = 0
  <2>1. tt = <<>>
    BY <1>1, <1>5 DEF n
  <2>2. FlattenSeq(tt) = <<>>
    BY <2>1, FlattenEmpty
  <2>3. e \o <<>> = e
    <3>1. e \o <<>> \in Seq(S) /\ Len(e \o <<>>) = Len(e)
          /\ \A i \in 1..Len(e) : (e \o <<>>)[i] = e[i]
      BY <1>1
    <3> QED
      BY <1>1, <3>1, SameSeq
  <2>4. g[1] = e
    BY <1>1, <1>4, <1>5
  <2> QED
    BY <1>3, <1>5, <2>2, <2>3, <2>4 DEF tt, e
<1>6. CASE n # 0
  <2>1. PICK f : Flattens(f, tt, n)
    BY <1>1, FlattensExists
  <2>2. FlattenSeq(tt) = f[n]
    BY <1>1, <1>6, <2>1, FlattenBy DEF n
  <2>3. \A i \in 1..n : f[i] = IF i = 1 THEN tt[i] ELSE f[i - 1] \o tt[i]
    BY <2>1 DEF Flattens
  <2>4. \A i \in 1..n : f[i] \in Seq(S)
    <3>1. n \in 0..Len(tt) /\ tt \in Seq(Seq(S))
      BY <1>1 DEF n
    <3> QED
      BY <2>1, <3>1, FlattensTyped, Zenon
  <2>5. \A i \in 1..n : g[i + 1] = e \o f[i]
    <3> DEFINE T == {i \in Nat : i \in 1..n /\ g[i + 1] # e \o f[i]}
    <3>0. n \in Nat
      BY <1>1
    <3> SUFFICES ASSUME NEW k \in 1..n, g[k + 1] # e \o f[k] PROVE FALSE
      OBVIOUS
    <3>a. k \in T
      BY <3>0
    <3>1. PICK i \in T : \A m \in T : i <= m
      BY <3>a, NatMin
    <3>2. i \in 1..n /\ i \in Nat /\ i + 1 \in 1 .. n + 1 /\ i + 1 # 1 /\ i + 1 - 1 = i
      BY <1>1, <3>1
    <3>3. g[i + 1] = g[i] \o tt[i]
      <4>1. ss[i + 1] = tt[i]
        BY <1>1, <3>2
      <4>2. PICK p \in 1 .. n + 1 : p = i + 1 /\ p # 1 /\ p - 1 = i
        BY <3>2
      <4>3. g[p] = g[p - 1] \o ss[p]
        BY <1>4, <4>2, Zenon
      <4> QED
        BY <4>1, <4>2, <4>3, Zenon
    <3>4. CASE i = 1
      <4>1. g[1] = e /\ f[1] = tt[1]
        <5>1. 1 \in 1..n /\ 1 \in 1 .. n + 1
          BY <1>1, <3>2, <3>4
        <5> QED
          BY <1>1, <1>4, <2>3, <5>1
      <4> QED
        BY <3>1, <3>3, <3>4, <4>1
    <3>5. CASE i # 1
      <4>1. i - 1 \in 1..n /\ i - 1 \in Nat /\ ~(i <= i - 1) /\ i - 1 + 1 = i
        BY <3>0, <3>2, <3>5
      <4>2. i - 1 \notin T
        BY <3>1, <4>1
      <4>3. g[i] = e \o f[i - 1]
        BY <4>1, <4>2
      <4>4. f[i] = f[i - 1] \o tt[i]
        BY <2>3, <3>2, <3>5
      <4>5. f[i - 1] \in Seq(S) /\ tt[i] \in Seq(S)
        <5>1. i \in 1..Len(tt)
          BY <3>2 DEF n
        <5>2. tt[i] \in Seq(S)
          BY <1>1, <5>1
        <5> QED
          BY <2>4, <4>1, <5>2
      <4>6. (e \o f[i - 1]) \o tt[i] = e \o (f[i - 1] \o tt[i])
        <5>1. e \in Seq(S)
          BY <1>1
        <5>2. PICK a \in Seq(S), b \in Seq(S), h \in Seq(S) :
                 a = f[i - 1] /\ b = tt[i] /\ h = e
          BY <4>5, <5>1, Zenon
        <5>3. (h \o a) \o b = h \o (a \o b)
          BY <1>0, Zenon
        <5> QED
          BY <5>2, <5>3, Zenon
      <4> QED
        BY <3>1, <3>3, <4>3, <4>4, <4>6
    <3> QED
      BY <3>4, <3>5
  <2>6. g[n + 1] = e \o f[n]
    BY <1>1, <1>6, <2>5
  <2> QED
    BY <1>3, <2>2, <2>6 DEF tt, e
<1> QED
  BY <1>5, <1>6

(* Bytes. *)
Octets == Seq(Octet)

LEMMA EmptyOctets ==
  /\ <<>> \in Octets
  /\ \A a \in Octets : a \o <<>> = a /\ <<>> \o a = a
<1>1. <<>> \in Seq(Octet)
  OBVIOUS
<1>2. ASSUME NEW a \in Seq(Octet) PROVE a \o <<>> = a /\ <<>> \o a = a
  <2>1. a \o <<>> \in Seq(Octet) /\ <<>> \o a \in Seq(Octet)
        /\ Len(a \o <<>>) = Len(a) /\ Len(<<>> \o a) = Len(a)
    OBVIOUS
  <2>2. \A i \in 1..Len(a) : (a \o <<>>)[i] = a[i] /\ (<<>> \o a)[i] = a[i]
    OBVIOUS
  <2> QED
    BY <2>1, <2>2, SameSeq
<1> QED
  BY <1>1, <1>2 DEF Octets

LEMMA JoinOctets ==
  \A a, b \in Octets : a \o b \in Octets /\ Len(a) \in Nat /\ Len(a \o b) = Len(a) + Len(b)
BY DEF Octets

LEMMA RegroupOctets == \A a, b, c \in Octets : (a \o b) \o c = a \o (b \o c)
<1>1. Regroups(Octet)
  BY Regrouped
<1> QED
  BY <1>1, Zenon DEF Regroups, Octets

LEMMA CancelOctets ==
  \A a, b, r, t \in Octets : a \o r = b \o t /\ Len(a) = Len(b) => a = b /\ r = t
<1> SUFFICES ASSUME NEW a \in Seq(Octet), NEW b \in Seq(Octet), NEW r \in Seq(Octet),
                    NEW t \in Seq(Octet), a \o r = b \o t, Len(a) = Len(b)
             PROVE  a = b /\ r = t
  BY DEF Octets
<1>1. ASSUME NEW i \in 1..Len(a) PROVE a[i] = b[i]
  <2>1. (a \o r)[i] = a[i] /\ (b \o t)[i] = b[i]
    OBVIOUS
  <2> QED
    BY <2>1
<1>2. Len(r) = Len(t)
  <2>1. Len(a \o r) = Len(a) + Len(r) /\ Len(b \o t) = Len(b) + Len(t)
    BY JoinOctets DEF Octets
  <2> QED
    BY <2>1
<1>3. ASSUME NEW i \in 1..Len(r) PROVE r[i] = t[i]
  <2>1. (a \o r)[Len(a) + i] = r[i] /\ (b \o t)[Len(b) + i] = t[i]
    BY <1>2
  <2> QED
    BY <2>1
<1> QED
  BY <1>1, <1>2, <1>3, SameSeq

LEMMA NoneLeft == \A a, b \in Octets : a \o b = <<>> => a = <<>> /\ b = <<>>
<1> SUFFICES ASSUME NEW a \in Seq(Octet), NEW b \in Seq(Octet), a \o b = <<>>
             PROVE  a = <<>> /\ b = <<>>
  BY DEF Octets
<1>1. Len(a) + Len(b) = 0
  <2>1. Len(a \o b) = Len(a) + Len(b) /\ Len(<<>>) = 0
    BY JoinOctets DEF Octets
  <2> QED
    BY <2>1
<1> QED
  BY <1>1
-----------------------------------------------------------------------------
(* What there is to read, from the first buffer to the server. *)
Parts == [i \in 1..Len(memBuffer) |->
            SubSeq(memBuffer[i].data, memBuffer[i].offset + 1, Len(memBuffer[i].data))]
Rest == Unread \o wire \o server.says

LEMMA PartsTyped == ASSUME DataOK PROVE Parts \in Seq(Octets) /\ Len(Parts) = Len(memBuffer)
<1>1. memBuffer \in Seq(MemBuffer) /\ Len(memBuffer) \in Nat
  BY DEF DataOK
<1>2. ASSUME NEW b \in MemBuffer PROVE SubSeq(b.data, b.offset + 1, Len(b.data)) \in Seq(Octet)
  BY DEF MemBuffer
<1>3. \A i \in 1..Len(memBuffer) : memBuffer[i] \in MemBuffer
  BY <1>1
<1>4. QED
  BY <1>1, <1>2, <1>3 DEF Parts, Octets

LEMMA UnreadTyped ==
  ASSUME DataOK
  PROVE  /\ Unread = FlattenSeq(Parts) /\ Unread \in Octets
         /\ wire \in Octets /\ server.says \in Octets
<1>1. Parts \in Seq(Seq(Octet))
  BY PartsTyped DEF Octets
<1>2. FlattenSeq(Parts) \in Octets
  BY <1>1, FlattenTyped DEF Octets
<1>3. Unread = FlattenSeq(Parts)
  BY Zenon DEF Unread, Parts
<1>4. wire \in Octets /\ server.says \in Octets
  BY DEF DataOK, Octets
<1>5. QED
  BY <1>2, <1>3, <1>4

LEMMA UnusedIs ==
  ASSUME DataOK, got \in Octets
  PROVE  Rest \in Octets /\ Unused = got \o Rest
<1>1. Unread \in Octets /\ wire \in Octets /\ server.says \in Octets
  BY UnreadTyped
<1>2. Unread \o wire \in Octets
  BY <1>1, JoinOctets
<1>3. Rest \in Octets
  BY <1>1, <1>2, JoinOctets DEF Rest
<1>4. (got \o Unread) \o wire = got \o (Unread \o wire)
  BY <1>1, RegroupOctets, Zenon
<1>5. (got \o (Unread \o wire)) \o server.says = got \o ((Unread \o wire) \o server.says)
  BY <1>1, <1>2, RegroupOctets, Zenon
<1>6. QED
  BY <1>3, <1>4, <1>5, Zenon DEF Unused, Rest

LEMMA RestSame ==
  ASSUME UNCHANGED <<memBuffer, wire, server>>
  PROVE  Rest' = Rest
BY DEF Rest, Unread

(* Nothing is left anywhere. *)
LEMMA RestEmpty ==
  ASSUME DataOK, Rest = <<>>
  PROVE  Unread = <<>> /\ wire = <<>> /\ server.says = <<>>
<1>1. Unread \in Octets /\ wire \in Octets /\ server.says \in Octets /\ Unread \o wire \in Octets
  BY UnreadTyped, JoinOctets
<1>2. Unread \o wire = <<>> /\ server.says = <<>>
  BY <1>1, NoneLeft DEF Rest
<1>3. QED
  BY <1>1, <1>2, NoneLeft

(* What the server answers comes behind what is left. *)
LEMMA RestAnswered ==
  ASSUME DataOK, Rest = <<>>, UNCHANGED <<memBuffer, wire>>, NEW says \in Octets,
         server'.says = server.says \o says
  PROVE  Rest' = says
<1>1. Unread = <<>> /\ wire = <<>> /\ server.says = <<>>
  BY RestEmpty
<1>2. Unread' = Unread /\ wire' = wire
  BY DEF Unread
<1>3. server'.says = says
  BY <1>1, EmptyOctets
<1>4. Rest' = (Unread' \o wire') \o server'.says
  BY DEF Rest
<1>5. <<>> \o <<>> = <<>>
  BY EmptyOctets
<1>6. QED
  BY <1>1, <1>2, <1>3, <1>4, <1>5, EmptyOctets

(* What has arrived becomes the last buffer. *)
LEMMA RestFilled ==
  ASSUME DataOK, memBuffer' = Filled, wire' = <<>>, server' = server
  PROVE  Rest' = Rest
<1>0. Unread \in Octets /\ wire \in Octets /\ server.says \in Octets
  BY UnreadTyped
<1>1. Unread' \o wire' = Unread \o wire
  <2>1. CASE wire = <<>>
    <3>1. memBuffer' = memBuffer
      BY <2>1 DEF Filled
    <3>2. Unread' = Unread
      BY <3>1 DEF Unread
    <3>3. QED
      BY <2>1, <3>2
  <2>2. CASE wire # <<>>
    <3>1. memBuffer' = Append(memBuffer, [data |-> wire, offset |-> 0])
      BY <2>2 DEF Filled
    <3>2. Parts' = Append(Parts, wire)
      <4>1. memBuffer \in Seq(MemBuffer) /\ wire \in Seq(Octet) /\ Len(memBuffer) \in Nat
        BY DEF DataOK
      <4>2. SubSeq(wire, 1, Len(wire)) = wire
        BY <4>1
      <4> DEFINE b == [data |-> wire, offset |-> 0]
                 n == Len(memBuffer)
                 Part(c) == SubSeq(c.data, c.offset + 1, Len(c.data))
      <4>3. Part(b) = wire
        BY <4>2
      <4>4. Parts' = [i \in 1..Len(memBuffer') |-> Part(memBuffer'[i])]
        BY DEF Parts
      <4>5. Parts = [i \in 1..n |-> Part(memBuffer[i])]
        BY DEF Parts
      <4> HIDE DEF Part
      <4>6. b \in MemBuffer
        BY <4>1 DEF MemBuffer
      <4> HIDE DEF b
      <4>7. /\ Len(memBuffer') = n + 1 /\ memBuffer'[n + 1] = b
            /\ \A i \in 1..n : memBuffer'[i] = memBuffer[i]
        BY <3>1, <4>1, <4>6 DEF b
      <4>8. Parts \in Seq(Octets) /\ Len(Parts) = n
        BY PartsTyped
      <4> HIDE DEF n
      <4>9. n \in Nat
        BY <4>1 DEF n
      <4>10. /\ Append(Parts, wire) \in Seq(Octets) /\ Len(Append(Parts, wire)) = n + 1
             /\ Append(Parts, wire)[n + 1] = wire
             /\ \A i \in 1..n : Append(Parts, wire)[i] = Parts[i]
        BY <1>0, <4>8, <4>9
      <4>11. ASSUME NEW i \in 1 .. n + 1
             PROVE  Parts'[i] = Append(Parts, wire)[i]
        <5>0. Parts'[i] = Part(memBuffer'[i])
          BY <4>4, <4>7
        <5>1. CASE i = n + 1
          BY <4>3, <4>7, <4>10, <5>0, <5>1
        <5>2. CASE i # n + 1
          <6>1. i \in 1..n
            BY <4>9, <5>2
          <6>2. QED
            BY <4>5, <4>7, <4>10, <5>0, <6>1
        <5>3. QED
          BY <5>1, <5>2
      <4>12. Parts' \in Seq(Octets) /\ Len(Parts') = n + 1
        <5>1. Parts' = [i \in 1 .. n + 1 |-> Part(memBuffer'[i])]
          BY <4>4, <4>7
        <5>2. \A i \in 1 .. n + 1 : Append(Parts, wire)[i] \in Octets
          BY <4>10
        <5>3. \A i \in 1 .. n + 1 : Part(memBuffer'[i]) \in Octets
          BY <4>11, <5>1, <5>2
        <5>4. QED
          BY <4>9, <5>1, <5>3
      <4>13. \A i \in 1..Len(Parts') : Parts'[i] = Append(Parts, wire)[i]
        BY <4>11, <4>12
      <4>14. QED
        BY <4>10, <4>12, <4>13, SameSeq, Zenon
    <3>3. Unread' = Unread \o wire
      <4>1. Unread' = FlattenSeq(Parts')
        BY Zenon DEF Unread, Parts
      <4>2. FlattenSeq(Append(Parts, wire)) = FlattenSeq(Parts) \o wire
        BY <1>0, PartsTyped, FlattenLast DEF Octets
      <4>3. QED
        BY <3>2, <4>1, <4>2, UnreadTyped
    <3>4. Unread \o wire \in Octets
      BY <1>0, JoinOctets
    <3>5. QED
      BY <3>3, <3>4, EmptyOctets
  <2>3. QED
    BY <2>1, <2>2
<1>2. QED
  BY <1>1 DEF Rest

(* What arrives goes from the server's lips to the socket. *)
LEMMA RestArrives ==
  ASSUME DataOK, Arrive
  PROVE  Rest' = Rest
<1>0. Unread \in Octets /\ wire \in Octets /\ server.says \in Octets
  BY UnreadTyped
<1>1. PICK n \in 1..Len(server.says) :
        /\ wire' = wire \o SubSeq(server.says, 1, n)
        /\ server' = [server EXCEPT !.says = SubSeq(@, n + 1, Len(@))]
  BY DEF Arrive
<1> DEFINE a == SubSeq(server.says, 1, n)
           b == SubSeq(server.says, n + 1, Len(server.says))
<1>2. server'.says = b
  BY <1>1 DEF DataOK
<1>3. a \in Octets /\ b \in Octets /\ a \o b = server.says
  <2>1. server.says \in Seq(Octet) /\ Len(server.says) \in Nat /\ n \in Nat /\ n <= Len(server.says)
    BY DEF DataOK
  <2>2. a \in Seq(Octet) /\ b \in Seq(Octet) /\ Len(a) = n /\ Len(b) = Len(server.says) - n
    BY <2>1
  <2>3. a \o b \in Seq(Octet) /\ Len(a \o b) = Len(server.says)
    BY <2>1, <2>2
  <2>4. ASSUME NEW i \in 1..Len(server.says) PROVE (a \o b)[i] = server.says[i]
    <3>1. CASE i <= n
      BY <2>1, <2>2, <3>1
    <3>2. CASE i > n
      BY <2>1, <2>2, <3>2
    <3>3. QED
      BY <2>1, <3>1, <3>2
  <2>5. QED
    BY <2>1, <2>2, <2>3, <2>4, SameSeq DEF Octets
<1> HIDE DEF a, b
<1>4. wire' = wire \o a
  BY <1>1 DEF a
<1>5. Unread' = Unread
  BY DEF Arrive, connection, Unread
<1>6. Rest' = (Unread \o (wire \o a)) \o b
  BY <1>2, <1>4, <1>5 DEF Rest
<1>7. (Unread \o (wire \o a)) \o b = (Unread \o wire) \o (a \o b)
  <2>1. Unread \o (wire \o a) = (Unread \o wire) \o a
    BY <1>0, <1>3, RegroupOctets
  <2>2. Unread \o wire \in Octets
    BY <1>0, JoinOctets
  <2>3. ((Unread \o wire) \o a) \o b = (Unread \o wire) \o (a \o b)
    BY <1>3, <2>2, RegroupOctets
  <2>4. QED
    BY <2>1, <2>3
<1>8. QED
  BY <1>3, <1>6, <1>7 DEF Rest
-----------------------------------------------------------------------------
(* The rest of a buffer is what is copied from it and the rest after that. *)
LEMMA SplitPart ==
  ASSUME NEW d \in Seq(Octet), NEW o \in 0..Len(d), NEW k \in 0 .. Len(d) - o
  PROVE  /\ SubSeq(d, o + 1, Len(d)) \in Octets
         /\ Len(SubSeq(d, o + 1, Len(d))) = Len(d) - o
         /\ SubSeq(SubSeq(d, o + 1, Len(d)), 1, k) \in Octets
         /\ Len(SubSeq(SubSeq(d, o + 1, Len(d)), 1, k)) = k
         /\ SubSeq(d, o + k + 1, Len(d)) \in Octets
         /\ SubSeq(SubSeq(d, o + 1, Len(d)), 1, k) \o SubSeq(d, o + k + 1, Len(d))
            = SubSeq(d, o + 1, Len(d))
<1> DEFINE s == SubSeq(d, o + 1, Len(d))
           a == SubSeq(s, 1, k)
           b == SubSeq(d, o + k + 1, Len(d))
<1>1. Len(d) \in Nat /\ o \in Nat /\ k \in Nat /\ o + k <= Len(d)
  OBVIOUS
<1>2. s \in Seq(Octet) /\ Len(s) = Len(d) - o /\ \A i \in 1..Len(s) : s[i] = d[o + i]
  BY <1>1
<1> HIDE DEF s
<1>3. a \in Seq(Octet) /\ Len(a) = k /\ \A i \in 1..k : a[i] = s[i]
  BY <1>1, <1>2
<1>4. b \in Seq(Octet) /\ Len(b) = Len(d) - (o + k) /\ \A i \in 1..Len(b) : b[i] = d[o + k + i]
  BY <1>1
<1> HIDE DEF a, b
<1>5. a \o b \in Seq(Octet) /\ Len(a \o b) = Len(s)
  <2>1. Len(a \o b) = Len(a) + Len(b)
    BY <1>3, <1>4, JoinOctets DEF Octets
  <2>2. QED
    BY <1>1, <1>2, <1>3, <1>4, <2>1
<1>6. ASSUME NEW i \in 1..Len(s) PROVE (a \o b)[i] = s[i]
  <2>1. CASE i <= k
    BY <1>1, <1>2, <1>3, <1>4, <2>1
  <2>2. CASE i > k
    <3>1. (a \o b)[i] = b[i - Len(a)]
      BY <1>1, <1>2, <1>3, <1>4, <2>2
    <3>2. PICK j \in 1..Len(b) : j = i - k /\ o + k + j = o + i
      BY <1>1, <1>2, <1>4, <2>2
    <3>3. b[j] = d[o + i]
      BY <1>4, <3>2
    <3>4. QED
      BY <1>2, <1>3, <3>1, <3>2, <3>3
  <2>3. i <= k \/ i > k
    BY <1>1, <1>2
  <2>4. QED
    BY <2>1, <2>2, <2>3, Zenon
<1>7. a \o b = s
  BY <1>2, <1>5, <1>6, SameSeq
<1>8. QED
  BY <1>2, <1>3, <1>4, <1>7 DEF Octets, s, a, b

LEMMA HeadTail ==
  ASSUME NEW S, NEW s \in Seq(S), s # <<>>
  PROVE  /\ Head(s) = s[1] /\ Tail(s) \in Seq(S) /\ Len(Tail(s)) = Len(s) - 1
         /\ Len(s) \in Nat /\ 1 <= Len(s)
         /\ \A i \in 1 .. Len(s) - 1 : Tail(s)[i] = s[i + 1]
OBVIOUS

(* What is copied goes from the first buffer to what has been read. *)
LEMMA CopyMoves ==
  ASSUME DataOK, got \in Octets, left \in Nat, Copy
  PROVE  /\ got' \in Octets /\ got' \o Rest' = got \o Rest
         /\ left' \in Nat /\ Len(got') + left' = Len(got) + left
<1> DEFINE Part(c) == SubSeq(c.data, c.offset + 1, Len(c.data))
           first == Head(memBuffer)
           some == Part(first)
           n == Len(memBuffer)
<1>1. /\ memBuffer \in Seq(MemBuffer) /\ memBuffer # <<>> /\ left > 0
      /\ n \in Nat /\ 1 <= n /\ first = memBuffer[1] /\ first \in MemBuffer
      /\ Tail(memBuffer) \in Seq(MemBuffer)
  BY DEF DataOK, Copy, Loop
<1>2. /\ first.data \in Seq(Octet) /\ first.offset \in Nat /\ Len(first.data) \in Nat
      /\ first.offset <= Len(first.data)
  BY <1>1 DEF MemBuffer
<1>3. some \in Seq(Octet) /\ Len(some) = Len(first.data) - first.offset /\ Len(some) \in Nat
  BY <1>2
<1>4. /\ Parts = [i \in 1..n |-> Part(memBuffer[i])]
      /\ Parts' = [i \in 1..Len(memBuffer') |-> Part(memBuffer'[i])]
      /\ Parts \in Seq(Octets) /\ Len(Parts) = n
  BY PartsTyped DEF Parts
<1>5. /\ Parts # <<>> /\ Head(Parts) = some /\ Tail(Parts) \in Seq(Octets)
      /\ Len(Tail(Parts)) = n - 1 /\ \A i \in 1 .. n - 1 : Tail(Parts)[i] = Parts[i + 1]
  <2>1. Parts # <<>> /\ 1 \in 1..n
    BY <1>1, <1>4
  <2>2. Parts[1] = some
    BY <1>1, <1>4, <2>1, Zenon
  <2>3. QED
    BY <1>4, <2>1, <2>2, HeadTail
<1>6. Unread = some \o FlattenSeq(Tail(Parts)) /\ FlattenSeq(Tail(Parts)) \in Octets
  <2>1. Parts \in Seq(Seq(Octet)) /\ Tail(Parts) \in Seq(Seq(Octet))
    BY <1>4, <1>5 DEF Octets
  <2>2. FlattenSeq(Parts) = Head(Parts) \o FlattenSeq(Tail(Parts))
    BY <1>5, <2>1, FlattenFirst
  <2>3. FlattenSeq(Tail(Parts)) \in Octets
    BY <2>1, FlattenTyped DEF Octets
  <2>4. QED
    BY <1>5, <2>2, <2>3, UnreadTyped
<1>7. Unread' = FlattenSeq(Parts')
  BY Zenon DEF Unread, Parts
<1>8. some \in Octets /\ wire \in Octets /\ server.says \in Octets /\ wire' = wire /\ server' = server
  BY <1>3, UnreadTyped DEF Copy, LoopFrame, Octets
(* It is enough that what has been read grows by what the buffers lose. *)
<1>9. ASSUME NEW a \in Octets, got' = got \o a, Unread' \in Octets, a \o Unread' = Unread
      PROVE  got' \in Octets /\ got' \o Rest' = got \o Rest
  <2> DEFINE u == Unread'
  <2>1. u \in Octets /\ a \o u = Unread
    BY <1>9
  <2>2. Rest' = (u \o wire) \o server.says
    BY <1>8 DEF Rest
  <2> HIDE DEF u
  <2>3. /\ u \o wire \in Octets /\ (u \o wire) \o server.says \in Octets
        /\ a \o (u \o wire) \in Octets
    BY <1>8, <1>9, <2>1, JoinOctets
  <2>4. (got \o a) \o ((u \o wire) \o server.says) = got \o (a \o ((u \o wire) \o server.says))
    BY <1>9, <2>3, RegroupOctets
  <2>5. a \o ((u \o wire) \o server.says) = (a \o (u \o wire)) \o server.says
    <3>1. PICK x \in Octets : x = u \o wire
      BY <2>3
    <3>2. a \o (x \o server.says) = (a \o x) \o server.says
      <4>1. a \in Octets /\ server.says \in Octets
        BY <1>8, <1>9
      <4>2. QED
        BY <4>1, RegroupOctets, Zenon
    <3>3. QED
      BY <3>1, <3>2
  <2>6. a \o (u \o wire) = (a \o u) \o wire
    BY <1>8, <1>9, <2>1, RegroupOctets
  <2>7. got' \in Octets
    BY <1>9, JoinOctets
  <2>8. Rest = (Unread \o wire) \o server.says
    BY DEF Rest
  <2>9. QED
    BY <1>9, <2>1, <2>2, <2>4, <2>5, <2>6, <2>7, <2>8
<1>10. CASE left > Len(some)
  <2>1. got' = got \o some /\ left' = left - Len(some) /\ memBuffer' = Tail(memBuffer)
    BY <1>10 DEF Copy
  <2>2. Parts' = Tail(Parts)
    <3>1. Len(memBuffer') = n - 1 /\ \A i \in 1 .. n - 1 : memBuffer'[i] = memBuffer[i + 1]
      BY <1>1, <2>1
    <3> HIDE DEF n, Part
    <3>2. Parts' = [i \in 1 .. n - 1 |-> Part(memBuffer[i + 1])]
      BY <1>4, <3>1
    <3>3. \A i \in 1 .. n - 1 : Tail(Parts)[i] = Part(memBuffer[i + 1])
      BY <1>1, <1>4, <1>5
    <3>4. PICK t \in Seq(Octets) : t = Tail(Parts)
      BY <1>5
    <3>5. t = [i \in 1 .. n - 1 |-> t[i]]
      <4>1. t = [i \in 1..Len(t) |-> t[i]]
        OBVIOUS
      <4>2. Len(t) = n - 1
        BY <1>5, <3>4
      <4>3. QED
        BY <4>1, <4>2
    <3>6. QED
      BY <3>2, <3>3, <3>4, <3>5
  <2>3. Unread' \in Octets /\ some \o Unread' = Unread
    BY <1>6, <1>7, <2>2
  <2>4. Len(got') = Len(got) + Len(some) /\ Len(got) \in Nat
    BY <1>8, <2>1, JoinOctets
  <2>5. left' \in Nat /\ Len(got') + left' = Len(got) + left
    BY <1>3, <1>10, <2>1, <2>4
  <2>6. QED
    BY <1>8, <1>9, <2>1, <2>3, <2>5
<1>11. CASE ~(left > Len(some))
  <2> DEFINE a == SubSeq(some, 1, left)
             b == SubSeq(first.data, first.offset + left + 1, Len(first.data))
  <2>1. /\ got' = got \o a /\ left' = 0
        /\ memBuffer' = [memBuffer EXCEPT ![1].offset = @ + left]
    BY <1>11 DEF Copy
  <2>2. a \in Octets /\ b \in Octets /\ Len(a) = left /\ a \o b = some
    <3>1. left \in 0 .. Len(first.data) - first.offset /\ first.offset \in 0..Len(first.data)
      BY <1>2, <1>3, <1>11
    <3>2. PICK d \in Seq(Octet), o \in Nat :
             /\ d = first.data /\ o = first.offset
             /\ o \in 0..Len(d) /\ left \in 0 .. Len(d) - o
      BY <1>2, <3>1
    <3>3. /\ SubSeq(SubSeq(d, o + 1, Len(d)), 1, left) \in Octets
          /\ Len(SubSeq(SubSeq(d, o + 1, Len(d)), 1, left)) = left
          /\ SubSeq(d, o + left + 1, Len(d)) \in Octets
          /\ SubSeq(SubSeq(d, o + 1, Len(d)), 1, left) \o SubSeq(d, o + left + 1, Len(d))
             = SubSeq(d, o + 1, Len(d))
      BY <3>2, SplitPart
    <3>4. QED
      BY <3>2, <3>3, Zenon
  <2>3. Parts' \in Seq(Octets) /\ Parts' # <<>> /\ Head(Parts') = b /\ Tail(Parts') = Tail(Parts)
    <3>1. /\ Len(memBuffer') = n /\ \A i \in 2..n : memBuffer'[i] = memBuffer[i]
          /\ memBuffer'[1] = [first EXCEPT !.offset = @ + left]
      <4>1. memBuffer = [i \in 1..n |-> memBuffer[i]]
        BY <1>1
      <4>2. QED
        BY <1>1, <2>1, <4>1
    <3>2. Part(memBuffer'[1]) = b
      <4>1. /\ memBuffer'[1].data = first.data
            /\ memBuffer'[1].offset = first.offset + left
        BY <1>1, <3>1 DEF MemBuffer
      <4>2. first.offset + left + 1 = (first.offset + left) + 1
        BY <1>2
      <4>3. QED
        BY <4>1, <4>2
    <3> HIDE DEF n, Part, a, b
    <3>3. ASSUME NEW i \in 1..n PROVE Part(memBuffer'[i]) = IF i = 1 THEN b ELSE Parts[i]
      <4>1. CASE i = 1
        BY <3>2, <4>1
      <4>2. CASE i # 1
        <5>1. i \in 2..n
          BY <1>1, <4>2
        <5>2. QED
          BY <1>4, <3>1, <4>2, <5>1
      <4>3. QED
        BY <4>1, <4>2
    <3>4. Parts' = [i \in 1..n |-> IF i = 1 THEN b ELSE Parts[i]]
      BY <1>4, <3>1, <3>3
    <3>5. Parts' \in Seq(Octets) /\ Len(Parts') = n
      BY <1>1, <1>4, <2>2, <3>4
    <3>6. Parts' # <<>> /\ Head(Parts') = b
      BY <1>1, <3>4, <3>5
    <3>7. /\ Tail(Parts') \in Seq(Octets) /\ Len(Tail(Parts')) = n - 1
          /\ \A i \in 1 .. n - 1 : Tail(Parts')[i] = Parts'[i + 1]
      BY <1>1, <3>5, <3>6
    <3>8. \A i \in 1 .. n - 1 : Parts'[i + 1] = Parts[i + 1]
      BY <1>1, <3>4
    <3>9. \A i \in 1..Len(Tail(Parts')) : Tail(Parts')[i] = Tail(Parts)[i]
      BY <1>5, <3>7, <3>8
    <3>10. Tail(Parts') = Tail(Parts)
      BY <1>5, <3>7, <3>9, SameSeq, Zenon
    <3>11. QED
      BY <3>5, <3>6, <3>10
  <2>4. Unread' = b \o FlattenSeq(Tail(Parts))
    <3>1. Parts' \in Seq(Seq(Octet))
      BY <2>3 DEF Octets
    <3>2. PICK p : p = Parts'
      OBVIOUS
    <3>3. FlattenSeq(p) = Head(p) \o FlattenSeq(Tail(p))
      BY <2>3, <3>1, <3>2, FlattenFirst
    <3>4. QED
      BY <1>7, <2>3, <3>2, <3>3
  <2>5. Unread' \in Octets /\ a \o Unread' = Unread
    <3>1. a \o (b \o FlattenSeq(Tail(Parts))) = (a \o b) \o FlattenSeq(Tail(Parts))
      BY <1>6, <2>2, RegroupOctets
    <3>2. QED
      BY <1>6, <2>2, <2>4, <3>1, JoinOctets
  <2>6. Len(got') = Len(got) + left /\ Len(got) \in Nat
    BY <2>1, <2>2, JoinOctets
  <2>7. left' \in Nat /\ Len(got') + left' = Len(got) + left
    BY <2>1, <2>6
  <2>8. QED
    BY <1>9, <2>1, <2>2, <2>5, <2>7
<1>12. QED
  BY <1>10, <1>11

-----------------------------------------------------------------------------
(* The messages. *)

LEMMA WholeOctets ==
  /\ \A m \in {<<"version", 0>>, <<"auth", "none">>, <<"auth", "password">>,
               <<"auth", "failed">>, <<"challenge", 0>>, <<"response", "ok">>,
               <<"response", "wrong">>, <<"size", 0>>, <<"format", 0>>} : Whole(m) \in Octets
  /\ \A n \in 0..MaxName : Whole(<<"length", n>>) \in Octets /\ Whole(<<"name", n>>) \in Octets
<1>1. \A m \in {<<"version", 0>>, <<"auth", "none">>, <<"auth", "password">>,
               <<"auth", "failed">>, <<"challenge", 0>>, <<"response", "ok">>,
               <<"response", "wrong">>, <<"size", 0>>, <<"format", 0>>} :
        m \in Message /\ m[1] # "name"
  BY DEF Message
<1>2. \A n \in 0..MaxName : /\ <<"length", n>> \in Message /\ <<"name", n>> \in Message
                            /\ n \in Nat
  BY RoomIs DEF Message
<1>3. QED
  BY <1>1, <1>2, WholeIs DEF Octets

LEMMA WholeLength ==
  /\ Len(Whole(<<"version", 0>>)) = Version /\ Len(Whole(<<"challenge", 0>>)) = Challenge
  /\ Len(Whole(<<"format", 0>>)) = Format /\ Len(Whole(<<"size", 0>>)) = Card
  /\ \A v : Len(Whole(<<"auth", v>>)) = Card /\ Len(Whole(<<"response", v>>)) = Card
            /\ Len(Whole(<<"length", v>>)) = Card
  /\ \A n \in 0..MaxName : Len(Whole(<<"name", n>>)) = n
<1>1. ASSUME NEW m, SizeOf(m) \in Nat PROVE Len(Whole(m)) = SizeOf(m)
  BY <1>1 DEF Whole
<1>2. /\ SizeOf(<<"version", 0>>) = Version /\ SizeOf(<<"challenge", 0>>) = Challenge
      /\ SizeOf(<<"format", 0>>) = Format /\ SizeOf(<<"size", 0>>) = Card
      /\ \A v : SizeOf(<<"auth", v>>) = Card /\ SizeOf(<<"response", v>>) = Card
                /\ SizeOf(<<"length", v>>) = Card /\ SizeOf(<<"name", v>>) = v
  BY DEF SizeOf
<1>3. \A n \in 0..MaxName : n \in Nat
  BY RoomIs
<1>4. QED
  BY <1>1, <1>2, <1>3, RoomIs

(* A message says one thing. *)
LEMMA WholeDiffers ==
  ASSUME NEW kind \in {"auth", "response", "length"}, NEW v, NEW w,
         Whole(<<kind, v>>) = Whole(<<kind, w>>)
  PROVE  v = w
<1>1. Card \in Nat \ {0}
  BY SizesAssumption
<1>2. SizeOf(<<kind, v>>) = Card /\ SizeOf(<<kind, w>>) = Card
  BY DEF SizeOf
<1>3. Whole(<<kind, v>>)[1] = <<<<kind, v>>, 1>> /\ Whole(<<kind, w>>)[1] = <<<<kind, w>>, 1>>
  <2>1. 1 \in 1..Card
    BY <1>1
  <2>2. QED
    BY <1>2, <2>1, Zenon DEF Whole
<1>4. <<<<kind, v>>, 1>> = <<<<kind, w>>, 1>>
  BY <1>3
<1>5. QED
  BY <1>4
-----------------------------------------------------------------------------
(* A connection nothing has come up on that the program does not heed. *)
Going == socket = "own" /\ ~strayed /\ server.stage # "gone"

StageOf(what) == CASE what = "version"   -> "VERSION"
                   [] what = "auth"      -> "PASSWORD"
                   [] what = "challenge" -> "WAITING_FOR_ENCRYPT"
                   [] what = "response"  -> "PASSWORD_RESPONSE"
                   [] OTHER              -> "SERVER_INIT"

Wanted(what, u) == IF what = "name" THEN Len(u) ELSE Room[what]

(* A stage is read in its own time, and whole. *)
Reads ==
  reading # "none" => /\ networkStatus = StageOf(reading)
                      /\ Len(got) + left = Wanted(reading, got \o Rest)

Facing == Going => Expected(got \o Rest) /\ Reads

(* Without a connection there is nothing of one. *)
Owned ==
  /\ socket = "own" <=> "CONNECTED" \in flags
  /\ "connect" \in windows => socket # "own"
  /\ socket # "own" => memBuffer = <<>> /\ wire = <<>> /\ server = Server("none", <<>>)

LEMMA OwnedSame ==
  ASSUME Owned, UNCHANGED <<socket, memBuffer, wire, server>>,
         "CONNECTED" \in flags' <=> "CONNECTED" \in flags,
         "connect" \in windows' => "connect" \in windows \/ socket # "own"
  PROVE  Owned'
BY DEF Owned

LEMMA FrontSame ==
  ASSUME Facing, got' \o Rest' = got \o Rest, Len(got') + left' = Len(got) + left,
         UNCHANGED <<networkStatus, reading, socket, strayed>>, server'.stage = server.stage,
         "INITIALISED" \in flags => "INITIALISED" \in flags'
  PROVE  Facing'
<1> SUFFICES ASSUME Going' PROVE Expected(got \o Rest)' /\ Reads'
  BY DEF Facing
<1>1. Going
  BY DEF Going
<1>2. Expected(got \o Rest) /\ Reads
  BY <1>1 DEF Facing
<1> DEFINE u == got \o Rest
           v == got' \o Rest'
<1>3. u = v
  OBVIOUS
<1>4. Expected(u) /\ (reading # "none" => /\ networkStatus = StageOf(reading)
                                          /\ Len(got) + left = Wanted(reading, u))
  BY <1>2 DEF Reads
<1> HIDE DEF u, v
<1>5. \/ networkStatus' = "VERSION" /\ server'.stage = "version" /\ v = Whole(<<"version", 0>>)
      \/ /\ networkStatus' = "PASSWORD"
         /\ \/ server'.stage = "shared" /\ v = Whole(<<"auth", "none">>)
            \/ /\ server'.stage = "response"
               /\ v = Whole(<<"auth", "password">>) \o Whole(<<"challenge", 0>>)
            \/ server'.stage = "refused" /\ v = Whole(<<"auth", "failed">>)
      \/ /\ networkStatus' = "WAITING_FOR_ENCRYPT"
         /\ server'.stage = "response" /\ v = Whole(<<"challenge", 0>>)
      \/ /\ networkStatus' = "PASSWORD_RESPONSE"
         /\ \/ server'.stage = "shared" /\ v = Whole(<<"response", "ok">>)
            \/ server'.stage = "refused" /\ v = Whole(<<"response", "wrong">>)
      \/ /\ networkStatus' = "SERVER_INIT" /\ server'.stage = "encodings"
         /\ \E n \in 0..MaxName : v = InitFrom(reading', n)
      \/ /\ networkStatus' = "none" /\ server'.stage = "serving"
         /\ v = <<>> /\ "INITIALISED" \in flags'
  BY <1>3, <1>4 DEF Expected
<1>6. Expected(got \o Rest)'
  BY <1>5 DEF Expected, v
<1>7. reading' # "none" => networkStatus' = StageOf(reading')
  BY <1>4
<1>8. reading' # "none" => Len(got') + left' = Wanted(reading', v)
  BY <1>3, <1>4
<1>9. Reads'
  BY <1>7, <1>8 DEF Reads, v, Wanted, Room, StageOf
<1>10. QED
  BY <1>6, <1>9

LEMMA NothingSame ==
  ASSUME Facing, UNCHANGED <<networkStatus, socket, memBuffer, wire, server, reading, left, got,
                            strayed>>,
         "INITIALISED" \in flags => "INITIALISED" \in flags'
  PROVE  Facing'
<1>1. Rest' = Rest
  BY RestSame
<1>2. QED
  BY <1>1, FrontSame

LEMMA ClosedInStep ==
  ASSUME NEW open, CloseConnection(open)
  PROVE  Owned' /\ Facing'
BY DEF CloseConnection, Disconnected, ClosedFlags, Owned, Facing, Going

(* What was asked for has been read. *)
LEMMA ReadIs ==
  ASSUME IInv, Facing, Going, NEW what \in DOMAIN Room, Read(what)
  PROVE  /\ got \in Octets /\ Rest \in Octets /\ DataOK /\ Expected(got \o Rest)
         /\ networkStatus = StageOf(what) /\ Len(got) = Wanted(what, got \o Rest)
<1>1. DataOK /\ got \in Octets /\ left = 0 /\ reading = what /\ what # "none"
  BY RoomIs DEF IInv, CallOK, Octets, Read
<1>2. Rest \in Octets /\ Len(got) \in Nat
  BY <1>1, UnusedIs, JoinOctets
<1>3. Expected(got \o Rest) /\ networkStatus = StageOf(what)
      /\ Len(got) + left = Wanted(what, got \o Rest)
  BY <1>1 DEF Facing, Reads
<1>4. Len(got) + left = Len(got)
  BY <1>1, <1>2
<1>5. QED
  BY <1>1, <1>2, <1>3, <1>4

(* What has been read is the first message, what is left is the rest. *)
LEMMA Cut ==
  ASSUME got \in Octets, Rest \in Octets, NEW a \in Octets, NEW t \in Octets,
         got \o Rest = a \o t, Len(got) = Len(a)
  PROVE  got = a /\ Rest = t
BY CancelOctets

LEMMA CutLast ==
  ASSUME got \in Octets, Rest \in Octets, NEW a \in Octets, got \o Rest = a, Len(got) = Len(a)
  PROVE  got = a /\ Rest = <<>>
<1>1. a \o <<>> = a /\ <<>> \in Octets
  BY EmptyOctets
<1>2. QED
  BY <1>1, Cut

(* All is read, and the server answers. *)
LEMMA Answered ==
  ASSUME DataOK, Rest = <<>>, UNCHANGED <<memBuffer, wire>>, Return,
         NEW stage, NEW says \in Octets, server' = Serving(stage, says)
  PROVE  server'.stage = stage /\ got' \o Rest' = says /\ reading' = "none"
<1>1. server'.stage = stage /\ server'.says = server.says \o says
  BY DEF Serving, Server
<1>2. Rest' = says
  BY <1>1, RestAnswered
<1>3. got' = <<>> /\ reading' = "none"
  BY DEF Return
<1>4. <<>> \o says = says
  BY EmptyOctets
<1>5. QED
  BY <1>1, <1>2, <1>3, <1>4
-----------------------------------------------------------------------------
LEMMA AnswersOf ==
  ASSUME NEW message, server' \in Answers(message), server'.stage # "gone",
         message \in {"version", "response", "shared", "encodings", "input"}
  PROVE  \/ /\ message = "version" /\ server.stage = "version"
            /\ \/ server' = Serving("shared", Whole(<<"auth", "none">>))
               \/ server' = Serving("response", Whole(<<"auth", "password">>)
                                                \o Whole(<<"challenge", 0>>))
               \/ server' = Serving("refused", Whole(<<"auth", "failed">>))
         \/ /\ message = "response" /\ server.stage = "response"
            /\ \/ server' = Serving("shared", Whole(<<"response", "ok">>))
               \/ server' = Serving("refused", Whole(<<"response", "wrong">>))
         \/ /\ message = "shared" /\ server.stage = "shared"
            /\ \E n \in 0..MaxName : server' = Serving("encodings", ServerInit(n))
         \/ /\ message = "encodings" /\ server.stage = "encodings"
            /\ server' = Serving("serving", <<>>)
         \/ message = "input" /\ server.stage = "serving" /\ server' = server
<1>1. CASE server.stage = "version" /\ message = "version"
  BY <1>1 DEF Answers
<1>2. CASE server.stage = "response" /\ message = "response"
  BY <1>2 DEF Answers
<1>3. CASE server.stage = "shared" /\ message = "shared"
  BY <1>3 DEF Answers
<1>4. CASE server.stage = "encodings" /\ message = "encodings"
  BY <1>4 DEF Answers
<1>5. CASE server.stage = "serving" /\ message = "input"
  BY <1>5 DEF Answers
<1>6. CASE /\ ~(server.stage = "version" /\ message = "version")
           /\ ~(server.stage = "response" /\ message = "response")
           /\ ~(server.stage = "shared" /\ message = "shared")
           /\ ~(server.stage = "encodings" /\ message = "encodings")
           /\ ~(server.stage = "serving" /\ message = "input")
  <2>1. Answers(message) = {Server("gone", <<>>)}
    BY <1>6, Zenon DEF Answers
  <2>2. server'.stage = "gone"
    BY <2>1 DEF Server
  <2>3. QED
    BY <2>2
<1>7. QED
  BY <1>1, <1>2, <1>3, <1>4, <1>5, <1>6, Zenon

LEMMA ServerInitIs ==
  ASSUME NEW n \in 0..MaxName
  PROVE  /\ InitFrom("length", n) \in Octets /\ InitFrom("format", n) \in Octets
         /\ ServerInit(n) \in Octets /\ Whole(<<"name", n>>) \in Octets
         /\ ServerInit(n) = Whole(<<"size", 0>>) \o InitFrom("format", n)
         /\ InitFrom("format", n) = Whole(<<"format", 0>>) \o InitFrom("length", n)
         /\ InitFrom("length", n) = Whole(<<"length", n>>) \o Whole(<<"name", n>>)
         /\ InitFrom("name", n) = Whole(<<"name", n>>)
         /\ InitFrom("none", n) = ServerInit(n) /\ InitFrom("size", n) = ServerInit(n)
<1> DEFINE s == Whole(<<"size", 0>>)
           f == Whole(<<"format", 0>>)
           l == Whole(<<"length", n>>)
           m == Whole(<<"name", n>>)
<1>1. s \in Octets /\ f \in Octets /\ l \in Octets /\ m \in Octets
  BY WholeOctets
<1>2. /\ InitFrom("format", n) = (f \o l) \o m /\ InitFrom("length", n) = l \o m
      /\ InitFrom("name", n) = m /\ InitFrom("none", n) = ServerInit(n)
      /\ InitFrom("size", n) = ServerInit(n) /\ ServerInit(n) = ((s \o f) \o l) \o m
  BY DEF InitFrom, ServerInit
<1> HIDE DEF s, f, l, m
<1>3. f \o l \in Octets /\ s \o f \in Octets /\ l \o m \in Octets
  BY <1>1, JoinOctets
<1>4. (f \o l) \o m = f \o (l \o m) /\ (f \o l) \o m \in Octets
  <2>1. (f \o l) \o m = f \o (l \o m)
    BY <1>1, RegroupOctets
  <2>2. QED
    BY <1>1, <1>3, <2>1, JoinOctets
<1>5. ((s \o f) \o l) \o m = s \o ((f \o l) \o m)
  <2>1. (s \o f) \o l = s \o (f \o l)
    BY <1>1, RegroupOctets
  <2>2. (s \o (f \o l)) \o m = s \o ((f \o l) \o m)
    <3>1. PICK x \in Octets : x = f \o l
      BY <1>3
    <3>2. (s \o x) \o m = s \o (x \o m)
      BY <1>1, RegroupOctets
    <3>3. QED
      BY <3>1, <3>2
  <2>3. QED
    BY <2>1, <2>2
<1>6. s \o ((f \o l) \o m) \in Octets
  BY <1>1, <1>4, JoinOctets
<1>7. QED
  BY <1>1, <1>2, <1>3, <1>4, <1>5, <1>6 DEF s, f, l, m

(* The server has answered that the client may share the desktop. *)
LEMMA InitialisationAwaited ==
  ASSUME DataOK, Rest = <<>>, UNCHANGED <<memBuffer, wire>>, Return,
         server' \in Answers("shared"), server'.stage # "gone", networkStatus' = "SERVER_INIT"
  PROVE  Facing'
<1>1. PICK n \in 0..MaxName : server' = Serving("encodings", ServerInit(n))
  BY AnswersOf
<1>2. ServerInit(n) \in Octets /\ InitFrom("none", n) = ServerInit(n)
  BY ServerInitIs
<1>3. server'.stage = "encodings" /\ got' \o Rest' = ServerInit(n) /\ reading' = "none"
  BY <1>1, <1>2, Answered
<1>4. Expected(got \o Rest)'
  <2>1. networkStatus' = "SERVER_INIT" /\ server'.stage = "encodings"
        /\ \E k \in 0..MaxName : got' \o Rest' = InitFrom(reading', k)
    BY <1>2, <1>3
  <2>2. QED
    BY <2>1 DEF Expected
<1>5. Reads'
  BY <1>3 DEF Reads
<1>6. QED
  BY <1>4, <1>5 DEF Facing

LEMMA VersionInStep ==
  ASSUME IInv, Facing, ProcessVersion, Going, Going',
         Write("version"), networkStatus' = "PASSWORD", UNCHANGED <<memBuffer, wire>>
  PROVE  Facing'
<1>1. /\ got \in Octets /\ Rest \in Octets /\ DataOK /\ Expected(got \o Rest)
      /\ networkStatus = "VERSION" /\ Len(got) = Version
  BY ReadIs, RoomIs DEF ProcessVersion, StageOf, Wanted
<1>2. got \o Rest = Whole(<<"version", 0>>)
  BY <1>1 DEF Expected
<1>3. Rest = <<>>
  BY <1>1, <1>2, CutLast, WholeOctets, WholeLength
<1>4. Return /\ server' \in Answers("version") /\ server'.stage # "gone"
  BY DEF ProcessVersion, Write, Going
<1>5. PICK stage, says :
        /\ server' = Serving(stage, says)
        /\ \/ stage = "shared" /\ says = Whole(<<"auth", "none">>)
           \/ /\ stage = "response"
              /\ says = Whole(<<"auth", "password">>) \o Whole(<<"challenge", 0>>)
           \/ stage = "refused" /\ says = Whole(<<"auth", "failed">>)
  <2>1. \/ server' = Serving("shared", Whole(<<"auth", "none">>))
        \/ server' = Serving("response", Whole(<<"auth", "password">>) \o Whole(<<"challenge", 0>>))
        \/ server' = Serving("refused", Whole(<<"auth", "failed">>))
    BY <1>4, AnswersOf
  <2>2. QED
    BY <2>1, Zenon
<1>6. says \in Octets
  BY <1>5, WholeOctets, JoinOctets
<1>7. server'.stage = stage /\ got' \o Rest' = says /\ reading' = "none"
  BY <1>1, <1>3, <1>4, <1>5, <1>6, Answered
<1>8. Expected(got \o Rest)'
  BY <1>5, <1>7 DEF Expected
<1>9. Reads'
  BY <1>7 DEF Reads
<1>10. QED
  BY <1>8, <1>9 DEF Facing

(* The kind of authentication, read, is what the server has said. *)
LEMMA AuthIs ==
  ASSUME IInv, Facing, Going, Read("auth")
  PROVE  \/ server.stage = "shared" /\ got = Whole(<<"auth", "none">>) /\ Rest = <<>>
         \/ /\ server.stage = "response" /\ got = Whole(<<"auth", "password">>)
            /\ Rest = Whole(<<"challenge", 0>>)
         \/ server.stage = "refused" /\ got = Whole(<<"auth", "failed">>) /\ Rest = <<>>
<1>1. /\ got \in Octets /\ Rest \in Octets /\ DataOK /\ Expected(got \o Rest)
      /\ networkStatus = "PASSWORD" /\ Len(got) = Card
  BY ReadIs, RoomIs DEF StageOf, Wanted
<1>2. \/ server.stage = "shared" /\ got \o Rest = Whole(<<"auth", "none">>)
      \/ /\ server.stage = "response"
         /\ got \o Rest = Whole(<<"auth", "password">>) \o Whole(<<"challenge", 0>>)
      \/ server.stage = "refused" /\ got \o Rest = Whole(<<"auth", "failed">>)
  BY <1>1 DEF Expected
<1>3. /\ Whole(<<"auth", "none">>) \in Octets /\ Whole(<<"auth", "password">>) \in Octets
      /\ Whole(<<"auth", "failed">>) \in Octets /\ Whole(<<"challenge", 0>>) \in Octets
      /\ Len(Whole(<<"auth", "none">>)) = Card /\ Len(Whole(<<"auth", "password">>)) = Card
      /\ Len(Whole(<<"auth", "failed">>)) = Card
  BY WholeOctets, WholeLength
<1>4. CASE server.stage = "shared" /\ got \o Rest = Whole(<<"auth", "none">>)
  BY <1>1, <1>3, <1>4, CutLast
<1>5. CASE /\ server.stage = "response"
           /\ got \o Rest = Whole(<<"auth", "password">>) \o Whole(<<"challenge", 0>>)
  BY <1>1, <1>3, <1>5, Cut
<1>6. CASE server.stage = "refused" /\ got \o Rest = Whole(<<"auth", "failed">>)
  BY <1>1, <1>3, <1>6, CutLast
<1>7. QED
  BY <1>2, <1>4, <1>5, <1>6

LEMMA GetPasswordInStep ==
  ASSUME IInv, Facing, GetPassword, Going, Going'
  PROVE  Facing'
<1>1. DataOK /\ Return /\ Read("auth") /\ reading = "auth"
  BY DEF IInv, GetPassword, Read
<1>2. \/ server.stage = "shared" /\ got = Whole(<<"auth", "none">>) /\ Rest = <<>>
      \/ /\ server.stage = "response" /\ got = Whole(<<"auth", "password">>)
         /\ Rest = Whole(<<"challenge", 0>>)
      \/ server.stage = "refused" /\ got = Whole(<<"auth", "failed">>) /\ Rest = <<>>
  BY <1>1, AuthIs
<1>3. ASSUME NEW v, MaySay(v), NEW w \in {"none", "password", "failed"},
             got = Whole(<<"auth", w>>)
      PROVE  v = w
  <2>1. Says(w) /\ w \in Verdicts
    BY <1>1, <1>3 DEF Says, Verdicts
  <2>2. Says(v)
    BY <1>3, <2>1 DEF MaySay
  <2>3. QED
    BY <1>1, <1>3, <2>2, WholeDiffers DEF Says
<1>4. CASE CloseConnection(windows)
  BY <1>4, ClosedInStep
<1>5. CASE MaySay("none") /\ Answer("shared", "SERVER_INIT", windows) /\ ~CloseConnection(windows)
  <2>1. /\ server' \in Answers("shared") /\ networkStatus' = "SERVER_INIT"
        /\ UNCHANGED <<memBuffer, wire>> /\ server'.stage # "gone"
    BY <1>5 DEF Answer, Write, Going
  <2>2. got # Whole(<<"auth", "password">>)
    <3>1. "none" # "password"
      OBVIOUS
    <3>2. QED
      BY <1>3, <1>5, <3>1
  <2>3. Rest = <<>>
    BY <1>2, <2>2
  <2>4. QED
    BY <1>1, <2>1, <2>3, InitialisationAwaited
<1>6. CASE /\ MaySay("password") /\ networkStatus' = "WAITING_FOR_ENCRYPT"
           /\ UNCHANGED <<flags, socket, memBuffer, config, wire, server>>
  <2>1. got # Whole(<<"auth", "none">>) /\ got # Whole(<<"auth", "failed">>)
    <3>1. "password" # "none" /\ "password" # "failed"
      OBVIOUS
    <3>2. QED
      BY <1>3, <1>6, <3>1
  <2>2. server.stage = "response" /\ Rest = Whole(<<"challenge", 0>>)
    BY <1>2, <2>1
  <2>3. Rest' = Rest
    BY <1>6, RestSame
  <2>4. got' = <<>> /\ reading' = "none"
    BY <1>1 DEF Return
  <2>5. got' \o Rest' = Whole(<<"challenge", 0>>)
    BY <2>2, <2>3, <2>4, WholeOctets, EmptyOctets
  <2>6. Expected(got \o Rest)'
    BY <1>6, <2>2, <2>5 DEF Expected
  <2>7. QED
    BY <2>4, <2>6 DEF Facing, Reads
<1>7. QED
  BY <1>4, <1>5, <1>6 DEF GetPassword

LEMMA EncryptInStep ==
  ASSUME IInv, Facing, Read("challenge"), Return, Going, Going',
         Write("response"), networkStatus' = "PASSWORD_RESPONSE", UNCHANGED <<memBuffer, wire>>
  PROVE  Facing'
<1>1. /\ got \in Octets /\ Rest \in Octets /\ DataOK /\ Expected(got \o Rest)
      /\ networkStatus = "WAITING_FOR_ENCRYPT" /\ Len(got) = Challenge
  BY ReadIs, RoomIs DEF StageOf, Wanted
<1>2. got \o Rest = Whole(<<"challenge", 0>>)
  BY <1>1 DEF Expected
<1>3. Rest = <<>>
  BY <1>1, <1>2, CutLast, WholeOctets, WholeLength
<1>4. server' \in Answers("response") /\ server'.stage # "gone"
  BY DEF Write, Going
<1>5. PICK stage, says :
        /\ server' = Serving(stage, says)
        /\ \/ stage = "shared" /\ says = Whole(<<"response", "ok">>)
           \/ stage = "refused" /\ says = Whole(<<"response", "wrong">>)
  BY <1>4, AnswersOf
<1>6. says \in Octets
  BY <1>5, WholeOctets
<1>7. server'.stage = stage /\ got' \o Rest' = says /\ reading' = "none"
  BY <1>1, <1>3, <1>5, <1>6, Answered
<1>8. Expected(got \o Rest)'
  BY <1>5, <1>7 DEF Expected
<1>9. Reads'
  BY <1>7 DEF Reads
<1>10. QED
  BY <1>8, <1>9 DEF Facing

LEMMA ResponseInStep ==
  ASSUME IInv, Facing, PasswordResponse, Going, Going'
  PROVE  Facing'
<1>1. /\ got \in Octets /\ Rest \in Octets /\ DataOK /\ Expected(got \o Rest)
      /\ networkStatus = "PASSWORD_RESPONSE" /\ Len(got) = Card /\ Return
  BY ReadIs, RoomIs DEF PasswordResponse, StageOf, Wanted
<1>2. CASE CloseConnection(windows)
  BY <1>2, ClosedInStep
<1>3. CASE Answer("shared", "SERVER_INIT", windows) /\ ~CloseConnection(windows)
  <2>1. /\ server' \in Answers("shared") /\ networkStatus' = "SERVER_INIT"
        /\ UNCHANGED <<memBuffer, wire>> /\ server'.stage # "gone"
    BY <1>3 DEF Answer, Write, Going
  <2>2. PICK v \in {"ok", "wrong"} : got \o Rest = Whole(<<"response", v>>)
    BY <1>1 DEF Expected
  <2>3. Whole(<<"response", v>>) \in Octets /\ Len(Whole(<<"response", v>>)) = Card
    BY WholeOctets, WholeLength
  <2>4. Rest = <<>>
    BY <1>1, <2>2, <2>3, CutLast
  <2>5. QED
    BY <1>1, <2>1, <2>4, InitialisationAwaited
<1>4. QED
  BY <1>2, <1>3 DEF PasswordResponse
-----------------------------------------------------------------------------
(* Where the reading of the server's initialisation stands. *)
LEMMA InitialisationIs ==
  ASSUME IInv, Facing, Going, NEW what \in {"size", "format", "length", "name"}, Read(what)
  PROVE  /\ server.stage = "encodings" /\ networkStatus = "SERVER_INIT"
         /\ \E n \in 0..MaxName :
              /\ what = "size" => Rest = InitFrom("format", n)
              /\ what = "format" => Rest = InitFrom("length", n)
              /\ what = "length" => got = Whole(<<"length", n>>) /\ Rest = InitFrom("name", n)
              /\ what = "name" => Rest = <<>>
<1>1. what \in DOMAIN Room /\ reading = what
  BY RoomIs DEF Read
<1>2. /\ got \in Octets /\ Rest \in Octets /\ DataOK /\ Expected(got \o Rest)
      /\ networkStatus = "SERVER_INIT" /\ Len(got) = Wanted(what, got \o Rest)
  <2>1. StageOf(what) = "SERVER_INIT"
    BY DEF StageOf
  <2>2. QED
    BY <1>1, <2>1, ReadIs
<1>3. server.stage = "encodings" /\ \E n \in 0..MaxName : got \o Rest = InitFrom(what, n)
  BY <1>1, <1>2 DEF Expected
<1>4. PICK n \in 0..MaxName : got \o Rest = InitFrom(what, n)
  BY <1>3
<1>5. /\ InitFrom("length", n) \in Octets /\ InitFrom("format", n) \in Octets
      /\ ServerInit(n) \in Octets /\ Whole(<<"name", n>>) \in Octets
      /\ ServerInit(n) = Whole(<<"size", 0>>) \o InitFrom("format", n)
      /\ InitFrom("format", n) = Whole(<<"format", 0>>) \o InitFrom("length", n)
      /\ InitFrom("length", n) = Whole(<<"length", n>>) \o Whole(<<"name", n>>)
      /\ InitFrom("name", n) = Whole(<<"name", n>>)
      /\ InitFrom("size", n) = ServerInit(n)
  BY ServerInitIs
<1>6. /\ Whole(<<"size", 0>>) \in Octets /\ Whole(<<"format", 0>>) \in Octets
      /\ Whole(<<"length", n>>) \in Octets
      /\ Len(Whole(<<"size", 0>>)) = Card /\ Len(Whole(<<"format", 0>>)) = Format
      /\ Len(Whole(<<"length", n>>)) = Card
  BY WholeOctets, WholeLength
<1>7. CASE what = "size"
  <2>1. Len(got) = Card
    BY <1>2, <1>7, RoomIs DEF Wanted
  <2>2. Rest = InitFrom("format", n)
    BY <1>2, <1>4, <1>5, <1>6, <1>7, <2>1, Cut
  <2>3. QED
    BY <1>2, <1>3, <1>7, <2>2
<1>8. CASE what = "format"
  <2>1. Len(got) = Format
    BY <1>2, <1>8, RoomIs DEF Wanted
  <2>2. Rest = InitFrom("length", n)
    BY <1>2, <1>4, <1>5, <1>6, <1>8, <2>1, Cut
  <2>3. QED
    BY <1>2, <1>3, <1>8, <2>2
<1>9. CASE what = "length"
  <2>1. Len(got) = Card
    BY <1>2, <1>9, RoomIs DEF Wanted
  <2>2. got = Whole(<<"length", n>>) /\ Rest = InitFrom("name", n)
    BY <1>2, <1>4, <1>5, <1>6, <1>9, <2>1, Cut
  <2>3. QED
    BY <1>2, <1>3, <1>9, <2>2
<1>10. CASE what = "name"
  <2>1. Len(got) = Len(got \o Rest)
    BY <1>2, <1>10 DEF Wanted
  <2>2. Len(got \o Rest) = Len(got) + Len(Rest) /\ Len(got) \in Nat /\ Len(Rest) \in Nat
    BY <1>2, JoinOctets
  <2>3. Rest = <<>>
    BY <1>2, <2>1, <2>2 DEF Octets
  <2>4. QED
    BY <1>2, <1>3, <1>10, <2>3
<1>11. QED
  BY <1>7, <1>8, <1>9, <1>10

LEMMA InitialiseInStep ==
  ASSUME IInv, Facing, Initialise, Going, Going'
  PROVE  Facing'
<1>1. /\ UNCHANGED <<networkStatus, socket, memBuffer, flags, wire, server, strayed>>
      /\ Rest' = Rest
  BY RestSame DEF Initialise, connection
(* The next message comes first. *)
<1>2. ASSUME NEW what \in {"format", "length", "name"}, NEW n \in 0..MaxName, NEW amount,
             ReadData(what, amount), server.stage = "encodings", networkStatus = "SERVER_INIT",
             Rest = InitFrom(what, n), amount = Wanted(what, Rest), Rest \in Octets
      PROVE  Facing'
  <2>1. got' = <<>> /\ left' = amount /\ reading' = what
    BY <1>2 DEF ReadData
  <2>2. got' \o Rest' = Rest
    BY <1>1, <1>2, <2>1, EmptyOctets
  <2>3. Expected(got \o Rest)'
    BY <1>1, <1>2, <2>1, <2>2 DEF Expected
  <2>4. Len(got') + left' = amount
    <3>1. amount \in Nat
      BY <1>2, RoomIs, JoinOctets DEF Wanted
    <3>2. Len(got') = 0
      BY <2>1
    <3>3. QED
      BY <2>1, <3>1, <3>2
  <2>5. StageOf(what) = "SERVER_INIT"
    BY DEF StageOf
  <2>6. Reads'
    <3>1. networkStatus' = StageOf(reading')
      BY <1>1, <1>2, <2>1, <2>5
    <3>2. Len(got') + left' = Wanted(reading', got' \o Rest')
      BY <1>2, <2>1, <2>2, <2>4
    <3>3. QED
      BY <3>1, <3>2 DEF Reads, StageOf, Wanted, Room
  <2>7. QED
    BY <2>3, <2>6 DEF Facing
<1>3. Rest \in Octets
  BY UnusedIs DEF IInv, CallOK, Octets
<1>4. CASE ReadFormat
  <2>1. Read("size") /\ ReadData("format", Format)
    BY <1>4 DEF ReadFormat
  <2>2. PICK n \in 0..MaxName : Rest = InitFrom("format", n)
    BY <2>1, InitialisationIs
  <2>3. server.stage = "encodings" /\ networkStatus = "SERVER_INIT"
    BY <2>1, InitialisationIs
  <2>4. Format = Wanted("format", Rest)
    BY RoomIs DEF Wanted
  <2>5. QED
    BY <1>2, <1>3, <2>1, <2>2, <2>3, <2>4
<1>5. CASE ReadLength
  <2>1. Read("format") /\ ReadData("length", Card)
    BY <1>5 DEF ReadLength
  <2>2. PICK n \in 0..MaxName : Rest = InitFrom("length", n)
    BY <2>1, InitialisationIs
  <2>3. server.stage = "encodings" /\ networkStatus = "SERVER_INIT"
    BY <2>1, InitialisationIs
  <2>4. Card = Wanted("length", Rest)
    BY RoomIs DEF Wanted
  <2>5. QED
    BY <1>2, <1>3, <2>1, <2>2, <2>3, <2>4
<1>6. CASE ReadName
  <2>1. Read("length") /\ reading = "length"
    BY <1>6 DEF ReadName, Read
  <2>2. PICK n \in 0..MaxName : got = Whole(<<"length", n>>) /\ Rest = InitFrom("name", n)
    BY <2>1, InitialisationIs
  <2>3. server.stage = "encodings" /\ networkStatus = "SERVER_INIT"
    BY <2>1, InitialisationIs
  <2>4. PICK m \in 0..MaxName : /\ \A k \in 0..MaxName : Says(k) => m = k
                                /\ ReadData("name", m)
    BY <1>6 DEF ReadName
  <2>5. m = n
    BY <2>1, <2>2, <2>4 DEF Says
  <2>6. n = Wanted("name", Rest)
    <3>1. Rest = Whole(<<"name", n>>)
      BY <2>2, ServerInitIs
    <3>2. QED
      BY <3>1, WholeLength DEF Wanted
  <2>7. QED
    BY <1>2, <1>3, <2>2, <2>3, <2>4, <2>5, <2>6
<1>7. QED
  BY <1>4, <1>5, <1>6 DEF Initialise

LEMMA InitialisedInStep ==
  ASSUME IInv, Facing, Initialised, Going, Going'
  PROVE  Facing'
<1>1. Read("name") /\ Return /\ DataOK
  BY DEF Initialised, IInv
<1>2. /\ server' \in Answers("encodings") /\ networkStatus' = "none" /\ server'.stage # "gone"
      /\ flags' = flags \cup {"INITIALISED"} /\ UNCHANGED <<memBuffer, wire>>
  BY DEF Initialised, Going, Write
<1>3. Rest = <<>>
  BY <1>1, InitialisationIs
<1>4. server' = Serving("serving", <<>>)
  BY <1>2, AnswersOf
<1>5. server'.stage = "serving" /\ got' \o Rest' = <<>> /\ reading' = "none"
  <2>1. <<>> \in Octets
    BY EmptyOctets
  <2>2. QED
    BY <1>1, <1>2, <1>3, <1>4, <2>1, Answered
<1>6. Expected(got \o Rest)'
  BY <1>2, <1>5 DEF Expected
<1>7. QED
  BY <1>5, <1>6 DEF Facing, Reads

-----------------------------------------------------------------------------
(* Nobody forgets that a connection has gone astray or the server has gone. *)
LEMMA GoingBefore ==
  ASSUME NEW message, UNCHANGED socket,
         UNCHANGED server \/ server' \in Answers(message),
         strayed => strayed', Going'
  PROVE  Going
<1>1. server.stage = "gone" => server'.stage = "gone"
  <2>1. CASE UNCHANGED server
    BY <2>1
  <2>2. CASE server' \in Answers(message) /\ server.stage = "gone"
    <3>1. Answers(message) = {Server("gone", <<>>)}
      BY <2>2 DEF Answers
    <3>2. QED
      BY <2>2, <3>1 DEF Server
  <2>3. QED
    BY <2>1, <2>2
<1>2. QED
  BY <1>1 DEF Going

LEMMA WrittenOwned ==
  ASSUME Owned, NEW message, Write(message), UNCHANGED socket,
         "CONNECTED" \in flags' <=> "CONNECTED" \in flags,
         "connect" \in windows' => "connect" \in windows
  PROVE  Owned'
BY DEF Owned, Write

LEMMA HandlerInStep ==
  ASSUME IInv, Owned, Facing,
         ProcessVersion \/ GetPassword \/ Encrypt \/ PasswordResponse \/ Initialised
  PROVE  Owned' /\ Facing'
<1>1. ASSUME NEW message, NEW status, NEW open \in SUBSET windows,
             Answer(message, status, open), UNCHANGED strayed
      PROVE  \/ Owned' /\ Facing'
             \/ /\ Write(message) /\ networkStatus' = status
                /\ UNCHANGED <<flags, socket, memBuffer, config, wire>>
                /\ Owned' /\ (Going' => Going)
  <2>1. CASE CloseConnection(open)
    BY <2>1, ClosedInStep
  <2>2. CASE ~CloseConnection(open)
    <3>1. /\ Write(message) /\ networkStatus' = status /\ windows' = open
          /\ UNCHANGED <<flags, socket, memBuffer, config, wire>>
      BY <1>1, <2>2 DEF Answer
    <3>2. Owned'
      BY <3>1, WrittenOwned
    <3>3. Going' => Going
      BY <1>1, <3>1, GoingBefore DEF Write
    <3>4. QED
      BY <3>1, <3>2, <3>3
  <2>3. QED
    BY <2>1, <2>2
<1>2. ~Going' => Facing'
  BY DEF Facing
<1>3. CASE ProcessVersion
  <2>1. Answer("version", "PASSWORD", windows) /\ UNCHANGED strayed
    BY <1>3 DEF ProcessVersion
  <2>2. \/ Owned' /\ Facing'
        \/ /\ Write("version") /\ networkStatus' = "PASSWORD"
           /\ UNCHANGED <<flags, socket, memBuffer, config, wire>>
           /\ Owned' /\ (Going' => Going)
    BY <1>1, <2>1
  <2>3. QED
    BY <1>2, <1>3, <2>2, VersionInStep
<1>4. CASE GetPassword
  <2>1. CASE CloseConnection(windows)
    BY <2>1, ClosedInStep
  <2>2. CASE Answer("shared", "SERVER_INIT", windows)
    <3>1. UNCHANGED strayed
      BY <1>4 DEF GetPassword
    <3>2. \/ Owned' /\ Facing'
          \/ Owned' /\ (Going' => Going)
      BY <1>1, <2>2, <3>1
    <3>3. QED
      BY <1>2, <1>4, <3>2, GetPasswordInStep
  <2>3. CASE /\ windows' = windows \cup {"password"}
             /\ UNCHANGED <<flags, socket, memBuffer, config, wire, server>>
    <3>1. Owned'
      BY <2>3, OwnedSame
    <3>2. Going' => Going
      BY <1>4, <2>3 DEF Going, GetPassword
    <3>3. QED
      BY <1>2, <1>4, <3>1, <3>2, GetPasswordInStep
  <2>4. QED
    BY <1>4, <2>1, <2>2, <2>3 DEF GetPassword
<1>5. CASE Encrypt
  <2>1. /\ Answer("response", "PASSWORD_RESPONSE", windows \ {"password"}) /\ UNCHANGED strayed
        /\ Read("challenge") /\ Return
    BY <1>5 DEF Encrypt
  <2>2. \/ Owned' /\ Facing'
        \/ /\ Write("response") /\ networkStatus' = "PASSWORD_RESPONSE"
           /\ UNCHANGED <<flags, socket, memBuffer, config, wire>>
           /\ Owned' /\ (Going' => Going)
    BY <1>1, <2>1
  <2>3. QED
    BY <1>2, <2>1, <2>2, EncryptInStep
<1>6. CASE PasswordResponse
  <2>1. CASE CloseConnection(windows)
    BY <2>1, ClosedInStep
  <2>2. CASE Answer("shared", "SERVER_INIT", windows)
    <3>1. UNCHANGED strayed
      BY <1>6 DEF PasswordResponse
    <3>2. \/ Owned' /\ Facing'
          \/ Owned' /\ (Going' => Going)
      BY <1>1, <2>2, <3>1
    <3>3. QED
      BY <1>2, <1>6, <3>2, ResponseInStep
  <2>3. QED
    BY <1>6, <2>1, <2>2 DEF PasswordResponse
<1>7. CASE Initialised
  <2>1. CASE Disconnected /\ flags' = ClosedFlags \cup {"INITIALISED"}
    BY <2>1 DEF Disconnected, ClosedFlags, Owned, Facing, Going
  <2>2. CASE /\ Write("encodings") /\ flags' = flags \cup {"INITIALISED"}
             /\ UNCHANGED <<socket, memBuffer, windows, wire, strayed>>
    <3>1. Owned'
      BY <2>2, WrittenOwned
    <3>2. Going' => Going
      BY <2>2, GoingBefore DEF Write
    <3>3. QED
      BY <1>2, <1>7, <3>1, <3>2, InitialisedInStep
  <2>3. QED
    BY <1>7, <2>1, <2>2 DEF Initialised
<1>8. QED
  BY <1>3, <1>4, <1>5, <1>6, <1>7
-----------------------------------------------------------------------------
LEMMA BytesTyped ==
  ASSUME IInv
  PROVE  DataOK /\ got \in Octets /\ Rest \in Octets /\ left \in Nat
BY UnusedIs DEF IInv, CallOK, Octets

LEMMA ReadingInStep == ASSUME IInv, Owned, Facing, Reading PROVE Owned' /\ Facing'
<1>0. DataOK /\ got \in Octets /\ Rest \in Octets /\ left \in Nat
  BY BytesTyped
<1>1. CASE ReadMore
  <2>1. /\ UNCHANGED <<flags, networkStatus, socket, windows, server, strayed>>
        /\ UNCHANGED <<reading, left, got>> /\ memBuffer' = Filled /\ wire' = <<>>
    BY <1>1 DEF ReadMore, LoopFrame, call
  <2>2. Rest' = Rest
    BY <1>0, <2>1, RestFilled
  <2>3. Owned'
    BY <2>1 DEF Owned, Filled
  <2>4. QED
    BY <2>1, <2>2, <2>3, FrontSame
<1>2. CASE ReadLost
  BY <1>2, ClosedInStep DEF ReadLost
<1>3. CASE Copy
  <2>1. /\ UNCHANGED <<flags, networkStatus, socket, windows, wire, server, strayed, reading>>
        /\ memBuffer # <<>>
    BY <1>3 DEF Copy, LoopFrame
  <2>2. got' \o Rest' = got \o Rest /\ Len(got') + left' = Len(got) + left
    BY <1>0, <1>3, CopyMoves
  <2>3. Owned'
    BY <2>1 DEF Owned
  <2>4. QED
    BY <2>1, <2>2, <2>3, FrontSame
<1>4. CASE NothingRead \/ NoMemory
  <2>1. /\ UNCHANGED <<flags, socket, memBuffer, windows, wire, server>>
        /\ socket = "own" => strayed' = TRUE
    BY <1>4 DEF NothingRead, NoMemory, connection
  <2>2. Owned'
    BY <2>1, OwnedSame
  <2>3. ~Going'
    BY <2>1 DEF Going
  <2>4. QED
    BY <2>2, <2>3 DEF Facing
<1>5. CASE Initialise
  <2>1. UNCHANGED <<flags, socket, memBuffer, windows, wire, server, strayed>>
    BY <1>5 DEF Initialise, connection
  <2>2. Owned'
    BY <2>1, OwnedSame
  <2>3. Going' => Going
    BY <2>1 DEF Going
  <2>4. QED
    BY <1>5, <2>2, <2>3, InitialiseInStep DEF Facing
<1>6. QED
  BY <1>1, <1>2, <1>3, <1>4, <1>5, HandlerInStep DEF Reading

(* A stage begins to read. *)
LEMMA Begins ==
  ASSUME IInv, Facing, Idle, NEW what \in DOMAIN Room, ReadData(what, Room[what]), what # "name",
         networkStatus = StageOf(what), Rest' = Rest, what \notin {"format", "length"},
         UNCHANGED <<networkStatus, socket, flags, server, strayed>>
  PROVE  Facing'
<1> SUFFICES ASSUME Going' PROVE Facing'
  BY DEF Facing
<1>1. Going /\ reading = "none"
  BY DEF Going, Idle
<1>2. Expected(got \o Rest)
  BY <1>1 DEF Facing
<1>3. got \in Octets /\ Len(got) \in Nat /\ Len(got) + left <= 0 /\ left \in Nat
  BY <1>1, BytesTyped, JoinOctets DEF IInv, CallOK, RoomFor
<1>4. got = <<>>
  BY <1>3 DEF Octets
<1>5. got' = <<>> /\ reading' = what /\ left' = Room[what]
  BY DEF ReadData
<1>6. got' \o Rest' = got \o Rest
  BY <1>4, <1>5
<1>7. \A n \in 0..MaxName : InitFrom(reading, n) = InitFrom(reading', n)
  <2>1. ASSUME NEW n PROVE InitFrom(reading, n) = InitFrom(reading', n)
    BY <1>1, <1>5 DEF InitFrom
  <2>2. QED
    BY <2>1
<1>8. Expected(got \o Rest)'
  <2> DEFINE u == got \o Rest
             v == got' \o Rest'
  <2>1. u = v /\ Expected(u)
    BY <1>2, <1>6
  <2> HIDE DEF u, v
  <2>2. \/ networkStatus' = "VERSION" /\ server'.stage = "version" /\ v = Whole(<<"version", 0>>)
        \/ /\ networkStatus' = "PASSWORD"
           /\ \/ server'.stage = "shared" /\ v = Whole(<<"auth", "none">>)
              \/ /\ server'.stage = "response"
                 /\ v = Whole(<<"auth", "password">>) \o Whole(<<"challenge", 0>>)
              \/ server'.stage = "refused" /\ v = Whole(<<"auth", "failed">>)
        \/ /\ networkStatus' = "WAITING_FOR_ENCRYPT"
           /\ server'.stage = "response" /\ v = Whole(<<"challenge", 0>>)
        \/ /\ networkStatus' = "PASSWORD_RESPONSE"
           /\ \/ server'.stage = "shared" /\ v = Whole(<<"response", "ok">>)
              \/ server'.stage = "refused" /\ v = Whole(<<"response", "wrong">>)
        \/ /\ networkStatus' = "SERVER_INIT" /\ server'.stage = "encodings"
           /\ \E n \in 0..MaxName : v = InitFrom(reading', n)
        \/ /\ networkStatus' = "none" /\ server'.stage = "serving"
           /\ v = <<>> /\ "INITIALISED" \in flags'
    BY <1>7, <2>1 DEF Expected
  <2>3. QED
    BY <2>2 DEF Expected, v
<1>9. Reads'
  <2>1. Len(got') + left' = Room[what]
    BY <1>5, RoomIs
  <2>2. Len(got') + left' = Wanted(reading', got' \o Rest')
    BY <1>5, <2>1 DEF Wanted
  <2>3. networkStatus' = StageOf(reading')
    BY <1>5
  <2>4. QED
    BY <2>2, <2>3 DEF Reads, StageOf, Wanted, Room
<1>10. QED
  BY <1>8, <1>9 DEF Facing

LEMMA NullInStep == ASSUME IInv, Owned, Facing, Null \/ NullLost PROVE Owned' /\ Facing'
<1>1. CASE Null
  <2>1. /\ UNCHANGED <<flags, networkStatus, socket, windows, server, strayed>>
        /\ memBuffer' = Filled /\ wire' = <<>> /\ "CONNECTED" \in flags /\ Idle
    BY <1>1 DEF Null
  <2>2. Rest' = Rest
    BY <2>1, BytesTyped, RestFilled
  <2>3. Owned'
    BY <2>1 DEF Owned
  <2>4. CASE UNCHANGED call
    BY <2>1, <2>2, <2>3, <2>4, FrontSame DEF call
  <2>5. CASE /\ networkStatus \in DOMAIN First
             /\ ReadData(First[networkStatus], Amount(First[networkStatus]))
    <3> DEFINE what == First[networkStatus]
    <3>1. what \in {"version", "auth", "response", "size"} /\ networkStatus = StageOf(what)
      BY <2>5 DEF First, StageOf
    <3> HIDE DEF what
    <3>2. Amount(what) = Room[what] /\ what \in DOMAIN Room
      BY <3>1, RoomIs DEF Amount
    <3>3. ReadData(what, Room[what])
      BY <2>5, <3>2 DEF what
    <3>4. QED
      BY <2>1, <2>2, <2>3, <3>1, <3>2, <3>3, Begins
  <2>6. QED
    BY <1>1, <2>4, <2>5 DEF Null, ProcessInitInput
<1>2. CASE NullLost
  BY <1>2, ClosedInStep DEF NullLost
<1>3. QED
  BY <1>1, <1>2

LEMMA SendInStep ==
  ASSUME IInv, Owned, Facing, SendInput, UNCHANGED call
  PROVE  Owned' /\ Facing'
<1>1. CASE CloseConnection(windows)
  BY <1>1, ClosedInStep
<1>2. CASE Write("input") /\ UNCHANGED <<connection, windows, config, wire>>
  <2>1. UNCHANGED <<flags, networkStatus, socket, memBuffer, windows, wire, reading, left, got>>
    BY <1>2 DEF connection, call
  <2>2. Owned'
    BY <1>2, <2>1, WrittenOwned
  <2>3. CASE Going'
    <3>1. server' \in Answers("input") /\ server'.stage # "gone"
      BY <1>2, <2>3 DEF Write, Going
    <3>2. server' = server
      BY <3>1, AnswersOf
    <3>3. strayed' = strayed
      <4>1. ~strayed' /\ strayed' = (strayed \/ (socket = "own" /\ server.stage \notin {"serving", "gone"}))
        BY <2>3 DEF Going, SendInput
      <4>2. strayed' = FALSE
        BY <4>1, Zenon
      <4>3. ~strayed
        BY <4>1, Zenon
      <4>4. strayed = FALSE
        BY <4>3 DEF IInv, DesktopOK
      <4>5. QED
        BY <4>2, <4>4
    <3>4. QED
      BY <2>1, <2>2, <3>2, <3>3, NothingSame
  <2>4. CASE ~Going'
    BY <2>2, <2>4 DEF Facing
  <2>5. QED
    BY <2>3, <2>4
<1>3. QED
  BY <1>1, <1>2 DEF SendInput

LEMMA UserInStep == ASSUME IInv, Owned, Facing, User PROVE Owned' /\ Facing'
<1>1. CASE OpenConnectWindow \/ CancelConnect \/ EscapePassword
  <2>1. /\ UNCHANGED <<flags, networkStatus, socket, memBuffer, reading, left, got, wire, server,
                       strayed>>
        /\ "connect" \in windows' => "connect" \in windows \/ "CONNECTED" \notin flags
    BY <1>1 DEF OpenConnectWindow, CancelConnect, EscapePassword, connection, call
  <2>2. "connect" \in windows' => "connect" \in windows \/ socket # "own"
    BY <2>1 DEF Owned
  <2>3. Owned'
    BY <2>1, <2>2, OwnedSame
  <2>4. QED
    BY <2>1, <2>3, NothingSame
<1>2. CASE OpenConnection
  <2>1. /\ Idle /\ windows' = windows \ {"connect"} /\ socket # "own"
        /\ UNCHANGED <<memBuffer, reading, left, got, strayed>>
        /\ memBuffer = <<>>
    BY <1>2 DEF OpenConnection, call, Owned
  <2>2. CASE /\ socket' \in {"unresolved", "none"} /\ UNCHANGED <<flags, networkStatus, wire, server>>
    BY <2>1, <2>2 DEF Owned, Facing, Going
  <2>3. CASE /\ socket' = "own" /\ flags' = flags \cup {"CONNECTED"} /\ networkStatus' = "VERSION"
             /\ wire' = <<>> /\ server' = Server("version", Whole(<<"version", 0>>))
    <3>1. Owned'
      BY <2>1, <2>3 DEF Owned
    <3>2. reading' = "none" /\ got' = <<>>
      <4>1. reading = "none" /\ got \in Octets /\ Len(got) \in Nat /\ Len(got) + left <= 0 /\ left \in Nat
        BY <2>1, BytesTyped, JoinOctets DEF Idle, IInv, CallOK, RoomFor
      <4>2. QED
        BY <2>1, <4>1 DEF Octets
    <3>3. Unread' = <<>>
      <4>1. Parts' = <<>>
        BY <2>1 DEF Parts
      <4>2. Unread' = FlattenSeq(Parts')
        BY Zenon DEF Unread, Parts
      <4>3. QED
        BY <4>1, <4>2, FlattenEmpty
    <3>4. server'.stage = "version" /\ server'.says = Whole(<<"version", 0>>)
      BY <2>3 DEF Server
    <3>5. got' \o Rest' = Whole(<<"version", 0>>)
      <4>1. <<>> \o <<>> = <<>> /\ Whole(<<"version", 0>>) \in Octets
        BY EmptyOctets, WholeOctets
      <4>2. Rest' = (Unread' \o wire') \o server'.says
        BY DEF Rest
      <4>3. Rest' = Whole(<<"version", 0>>)
        BY <2>3, <3>3, <3>4, <4>1, <4>2, EmptyOctets
      <4>4. QED
        BY <3>2, <4>1, <4>3, EmptyOctets
    <3>6. Expected(got \o Rest)'
      BY <2>3, <3>4, <3>5 DEF Expected
    <3>7. QED
      BY <3>1, <3>2, <3>6 DEF Facing, Reads
  <2>4. QED
    BY <1>2, <2>2, <2>3 DEF OpenConnection
<1>3. CASE Disconnect
  BY <1>3, ClosedInStep DEF Disconnect
<1>4. CASE EnterPassword
  <2>1. /\ Idle /\ ReadData("challenge", Challenge)
        /\ UNCHANGED <<flags, networkStatus, socket, memBuffer, windows, wire, server>>
    BY <1>4 DEF EnterPassword, connection
  <2>2. Owned'
    BY <2>1, OwnedSame
  <2>3. strayed' = (strayed \/ networkStatus # "WAITING_FOR_ENCRYPT")
    BY <1>4 DEF EnterPassword
  <2>4. CASE Going'
    <3>1. ~strayed'
      BY <2>4 DEF Going
    <3>2. ~strayed /\ networkStatus = "WAITING_FOR_ENCRYPT" /\ strayed' = FALSE
      BY <2>3, <3>1, Zenon
    <3>3. strayed \in BOOLEAN
      BY DEF IInv, DesktopOK
    <3>4. UNCHANGED strayed
      BY <3>2, <3>3
    <3>5. StageOf("challenge") = "WAITING_FOR_ENCRYPT" /\ "challenge" \in DOMAIN Room
          /\ Room["challenge"] = Challenge
      BY RoomIs DEF StageOf
    <3>6. Rest' = Rest
      BY <2>1, RestSame
    <3>7. QED
      BY <2>1, <2>2, <3>2, <3>4, <3>5, <3>6, Begins
  <2>5. CASE ~Going'
    BY <2>2, <2>5 DEF Facing
  <2>6. QED
    BY <2>4, <2>5
<1>5. CASE MainKey
  BY <1>5, SendInStep DEF MainKey
<1>6. QED
  BY <1>1, <1>2, <1>3, <1>4, <1>5 DEF User

LEMMA EventInStep == ASSUME IInv, Owned, Facing, Event PROVE Owned' /\ Facing'
<1>1. CASE HandleEdge
  <2>1. /\ UNCHANGED <<networkStatus, socket, memBuffer, reading, left, got, wire, server, strayed>>
        /\ "CONNECTED" \in flags' <=> "CONNECTED" \in flags
        /\ "INITIALISED" \in flags => "INITIALISED" \in flags'
        /\ "connect" \in windows' => "connect" \in windows
    BY <1>1 DEF HandleEdge, EdgeDetect, call
  <2>2. Owned'
    BY <2>1, OwnedSame
  <2>3. QED
    BY <2>1, <2>2, NothingSame
<1>2. ASSUME UNCHANGED <<connection, windows, config, wire, server, strayed>>, UNCHANGED call
      PROVE  Owned' /\ Facing'
  <2>1. UNCHANGED <<flags, networkStatus, socket, memBuffer, reading, left, got, windows, wire,
                    server, strayed>>
    BY <1>2 DEF connection, call
  <2>2. Owned'
    BY <2>1, OwnedSame
  <2>3. QED
    BY <2>1, <2>2, NothingSame
<1>3. ASSUME NEW place, NEW bit, NEW next, HandleBit(place, bit, next) PROVE Owned' /\ Facing'
  BY <1>2, <1>3, SendInStep DEF HandleBit
<1>4. CASE KeyUp
  BY <1>4, SendInStep DEF KeyUp
<1>5. QED
  BY <1>1, <1>3, <1>4 DEF Event

LEMMA WorldInStep ==
  ASSUME IInv, Owned, Facing, Watched \/ PollwordEvent \/ Arrive \/ ServerStops \/ UNCHANGED vars
  PROVE  Owned' /\ Facing'
<1>1. CASE Watched \/ PollwordEvent \/ UNCHANGED vars
  <2>1. UNCHANGED <<flags, networkStatus, socket, memBuffer, reading, left, got, windows, wire,
                    server, strayed>>
    BY <1>1 DEF Watched, PollwordEvent, vars, connection, call
  <2>2. Owned'
    BY <2>1, OwnedSame
  <2>3. QED
    BY <2>1, <2>2, NothingSame
<1>2. CASE Arrive
  <2>1. /\ UNCHANGED <<flags, networkStatus, socket, memBuffer, reading, left, got, windows, strayed>>
        /\ server.says # <<>> /\ server'.stage = server.stage
    <3>1. server \in [stage : Stages, says : Seq(Octet)]
      BY DEF IInv, DataOK
    <3>2. QED
      BY <1>2, <3>1 DEF Arrive, connection, call
  <2>2. socket = "own"
    BY <2>1 DEF Owned, Server
  <2>3. Owned'
    BY <2>1, <2>2 DEF Owned
  <2>4. Rest' = Rest
    BY <1>2, BytesTyped, RestArrives
  <2>5. QED
    BY <2>1, <2>3, <2>4, FrontSame
<1>3. CASE ServerStops
  <2>1. /\ UNCHANGED <<flags, socket, windows, memBuffer, wire>>
        /\ server.stage # "none" /\ server'.stage = "gone"
    BY <1>3 DEF ServerStops, connection, Server
  <2>2. socket = "own"
    BY <2>1 DEF Owned, Server
  <2>3. Owned'
    BY <2>1, <2>2 DEF Owned
  <2>4. ~Going'
    BY <2>1 DEF Going
  <2>5. QED
    BY <2>3, <2>4 DEF Facing
<1>4. QED
  BY <1>1, <1>2, <1>3

SInv == IInv /\ Owned /\ Facing

LEMMA InitInStep == Init => SInv
<1> SUFFICES ASSUME Init PROVE SInv
  OBVIOUS
<1>1. IInv
  BY InitTyped
<1>2. Owned
  BY DEF Init, Owned
<1>3. Facing
  BY DEF Init, Facing, Going
<1>4. QED
  BY <1>1, <1>2, <1>3 DEF SInv

LEMMA StepInStep == SInv /\ [Next]_vars => SInv'
<1> SUFFICES ASSUME SInv, [Next]_vars PROVE SInv'
  OBVIOUS
<1>1. IInv /\ Owned /\ Facing
  BY DEF SInv
<1>2. IInv'
  BY <1>1, ReadingTyped, NullTyped, UserTyped, EventTyped, WorldTyped DEF Next
<1>3. Owned' /\ Facing'
  BY <1>1, ReadingInStep, NullInStep, UserInStep, EventInStep, WorldInStep DEF Next
<1>4. QED
  BY <1>2, <1>3 DEF SInv

(* For messages and names of any length, and however the network and the buffers
   cut what the server says: a client that is connected, and has met nothing it
   does not heed, has before it, from the first byte it has not used, the messages
   that its stage waits for (VNC.c, Sockets.c). *)
THEOREM VNCInStep == Spec => []InStep
<1>1. SInv => InStep
  <2> SUFFICES ASSUME SInv, Going PROVE Expected(Unused)
    BY DEF InStep, Going
  <2>1. Expected(got \o Rest)
    BY DEF SInv, Facing
  <2>2. Unused = got \o Rest
    BY BytesTyped, UnusedIs DEF SInv
  <2>3. QED
    BY <2>1, <2>2
<1>2. QED
  BY <1>1, InitInStep, StepInStep, PTL DEF Spec
=============================================================================
