------------------------------- MODULE VNCInput -------------------------------
(***************************************************************************)
(* How !VNCInput connects to a VNC server (Source/Sockets.c, VNC.c), and   *)
(* the events of the desktop that come in between (Main.c, Buttons.c).     *)
(*                                                                         *)
(* The server's bytes are collected in a list of buffers at null events;   *)
(* a stage of the handshake begins when enough of them are there and then  *)
(* reads what it needs, in a loop that fills the list itself and gives     *)
(* nobody else the processor.  A byte is a pair of the message it belongs  *)
(* to and its place in it, a message a pair of its kind and what it says.  *)
(***************************************************************************)
EXTENDS Integers, SequencesExt

CONSTANTS Version, Card, Challenge, Format,   \* VNCVersionLength, sizeOfCARD32,
                                  \* VNCChallengeSize, VNCServerInitSize
          MaxName,                \* bound: the length of the desktop's name
          MaxConnections          \* bound: how often a connection is asked for

ASSUME SizesAssumption ==
  /\ {Version, Card, Challenge, Format} \subseteq Nat \ {0}
  /\ MaxName \in Nat /\ MaxConnections \in Nat

VARIABLES
  flags,          \* VNCFlags
  networkStatus,
  socket,         \* VNCSocket: "own", "none" (-1), "unresolved" (-2), "zero"
  memBuffer,      \* the list of buffers
  reading, left, got,   \* what socketReadData reads, how much it lacks, what it has
  windows,        \* which of the windows are open
  config, pollword,     \* the words shared with the module
  pc,             \* where mainTaskDispatch is in an event
  wire,           \* what has arrived at the socket
  server,         \* what the server waits for and what it still has to say
  connections,
  strayed         \* history: a case has come up that the program does not heed

connection == <<flags, networkStatus, socket, memBuffer>>
call == <<reading, left, got>>
input == <<config, pollword, pc>>
vars == <<connection, call, windows, input, wire, server, connections, strayed>>

Idle == reading = "none" /\ pc = "idle"

-----------------------------------------------------------------------------
(* The server. *)

SizeOf(m) == CASE m[1] = "version" -> Version
               [] m[1] = "challenge" -> Challenge
               [] m[1] = "format" -> Format
               [] m[1] = "name" -> m[2]
               [] OTHER -> Card

Whole(m) == [i \in 1..SizeOf(m) |-> <<m, i>>]

(* What an authentication scheme or the answer to a password may say. *)
Verdicts == {"none", "password", "failed", "ok", "wrong"}

ServerInit(n) == Whole(<<"size", 0>>) \o Whole(<<"format", 0>>)
                 \o Whole(<<"length", n>>) \o Whole(<<"name", n>>)

Server(stage, says) == [stage |-> stage, says |-> says]
Serving(stage, says) == Server(stage, server.says \o says)

(* What it does with a message of the client; one it does not expect ends the
   connection. *)
Answers(message) ==
  CASE server.stage = "version" /\ message = "version" ->
         {Serving("shared", Whole(<<"auth", "none">>)),
          Serving("response", Whole(<<"auth", "password">>) \o Whole(<<"challenge", 0>>)),
          Serving("refused", Whole(<<"auth", "failed">>))}
    [] server.stage = "response" /\ message = "response" ->
         {Serving("shared", Whole(<<"response", "ok">>)),
          Serving("refused", Whole(<<"response", "wrong">>))}
    [] server.stage = "shared" /\ message = "shared" ->
         {Serving("encodings", ServerInit(n)) : n \in 0..MaxName}
    [] server.stage = "encodings" /\ message = "encodings" -> {Serving("serving", <<>>)}
    [] server.stage = "serving" /\ message = "input" -> {server}
    [] OTHER -> {Server("gone", <<>>)}

Write(message) == socket = "own" /\ server' \in Answers(message)
WriteFails == socket # "own" \/ server.stage \in {"gone", "refused"}

(* Its bytes arrive in segments of any size. *)
Arrive ==
  \E n \in 1..Len(server.says) :
    /\ wire' = wire \o SubSeq(server.says, 1, n)
    /\ server' = [server EXCEPT !.says = SubSeq(@, n + 1, Len(@))]
    /\ UNCHANGED <<connection, call, windows, input, connections, strayed>>

(* It or the network fails, in the middle of what it says. *)
ServerStops ==
  /\ server.stage \notin {"none", "gone"}
  /\ server' = Server("gone", <<>>)
  /\ UNCHANGED <<connection, call, windows, input, wire, connections, strayed>>

-----------------------------------------------------------------------------
(* VNCCloseConnection closes the main window through VNCProcessEdgeDetect. *)
ClosedFlags == flags \ {"CONNECTED", "INITIALISED", "WINDOW_OPEN"}
ClosedConfig == IF "WINDOW_OPEN" \in flags THEN config \ {"mouse", "key"} ELSE config

Disconnected ==
  /\ socket' = "none" /\ networkStatus' = "none"
  /\ memBuffer' = <<>>
  /\ wire' = <<>> /\ server' = Server("none", <<>>)

(* Slip: the buffers of the old connection kept. *)
CloseKeepsBuffers(open) ==
  /\ socket' = "none" /\ networkStatus' = "none"
  /\ wire' = <<>> /\ server' = Server("none", <<>>)
  /\ UNCHANGED memBuffer
  /\ flags' = ClosedFlags /\ config' = ClosedConfig
  /\ windows' = open \ {"main"}

(* Slip: the watching of mouse and keys not turned off. *)
CloseWatching(open) ==
  /\ Disconnected
  /\ flags' = ClosedFlags /\ UNCHANGED config
  /\ windows' = open \ {"main"}

CloseConnection(open) ==
  /\ Disconnected
  /\ flags' = ClosedFlags /\ config' = ClosedConfig
  /\ windows' = open \ {"main"}

Unread == FlattenSeq([i \in 1..Len(memBuffer) |->
            SubSeq(memBuffer[i].data, memBuffer[i].offset + 1, Len(memBuffer[i].data))])

(* socketFillBuffers, where something has arrived. *)
Filled == IF wire = <<>> THEN memBuffer
          ELSE Append(memBuffer, [data |-> wire, offset |-> 0])
BufferSize == FoldSeq(LAMBDA b, n : n + Len(b.data) - b.offset, 0, Filled)

-----------------------------------------------------------------------------
(* socketReadData. *)

ReadData(what, amount) == reading' = what /\ left' = amount /\ got' = <<>>
Return == reading' = "none" /\ left' = 0 /\ got' = <<>>

Loop == reading # "none" /\ left > 0
LoopFrame == UNCHANGED <<flags, networkStatus, socket, windows, input, server, connections, strayed>>

(* No buffer: more is read, if there is any. *)
ReadMore ==
  /\ Loop /\ memBuffer = <<>>
  /\ memBuffer' = Filled /\ wire' = <<>>
  /\ UNCHANGED call /\ LoopFrame

(* The read fails. *)
ReadLost ==
  /\ Loop /\ memBuffer = <<>>
  /\ wire # <<>> /\ server.stage = "gone"
  /\ CloseConnection(windows)
  /\ left' = 0 /\ UNCHANGED <<reading, got, pollword, pc, connections, strayed>>

(* Slip: what was read before from a buffer that is used up is read again. *)
CopyFromStart ==
  /\ Loop /\ memBuffer # <<>>
  /\ LET first == Head(memBuffer)
         some  == SubSeq(first.data, first.offset + 1, Len(first.data))
     IN IF left > Len(some)
        THEN /\ got' = got \o first.data
             /\ left' = left - Len(some)
             /\ memBuffer' = Tail(memBuffer)
        ELSE /\ got' = got \o SubSeq(some, 1, left)
             /\ left' = 0
             /\ memBuffer' = [memBuffer EXCEPT ![1].offset = @ + left]
  /\ UNCHANGED <<reading, wire>> /\ LoopFrame

(* The first buffer is used up, or has all that is wanted. *)
Copy ==
  /\ Loop /\ memBuffer # <<>>
  /\ LET first == Head(memBuffer)
         some  == SubSeq(first.data, first.offset + 1, Len(first.data))
     IN IF left > Len(some)
        THEN /\ got' = got \o some
             /\ left' = left - Len(some)
             /\ memBuffer' = Tail(memBuffer)
        ELSE /\ got' = got \o SubSeq(some, 1, left)
             /\ left' = 0
             /\ memBuffer' = [memBuffer EXCEPT ![1].offset = @ + left]
  /\ UNCHANGED <<reading, wire>> /\ LoopFrame

(* What has been read says v, if it is a message at all; where only a part of one
   could be read, the rest of the word is whatever the memory held. *)
Says(v) == got = Whole(<<reading, v>>)
MaySay(v) == Says(v) \/ \A w \in Verdicts : ~Says(w)

(* Something of what was asked for has been read. *)
Read(what) == reading = what /\ left = 0 /\ got # <<>>

HandlerFrame == UNCHANGED <<pollword, pc, connections>>

(* A stage sends its answer and goes on, or gives up. *)
Answer(message, status, open) ==
  \/ /\ Write(message)
     /\ networkStatus' = status /\ windows' = open
     /\ UNCHANGED <<flags, socket, memBuffer, config, wire>>
  \/ WriteFails /\ CloseConnection(open)

(* Nothing of it: there was nothing to read (a name of no length, which leaves
   the stage as it is), or the connection is lost. *)
NothingRead ==
  /\ reading # "none" /\ left = 0 /\ got = <<>>
  /\ Return
  /\ strayed' = (strayed \/ socket = "own")
  /\ UNCHANGED <<connection, windows, input, wire, server, connections>>

(* VNCProcessVersion. *)
ProcessVersion ==
  /\ Read("version") /\ Return
  /\ Answer("version", "PASSWORD", windows)
  /\ HandlerFrame /\ UNCHANGED strayed

(* VNCGetPassword. *)
GetPassword ==
  /\ Read("auth") /\ Return
  /\ \/ MaySay("none") /\ Answer("shared", "SERVER_INIT", windows)
     \/ /\ MaySay("password")
        /\ windows' = windows \cup {"password"}
        /\ networkStatus' = "WAITING_FOR_ENCRYPT"
        /\ UNCHANGED <<flags, socket, memBuffer, config, wire, server>>
     \/ ~Says("none") /\ ~Says("password") /\ CloseConnection(windows)
  /\ HandlerFrame /\ UNCHANGED strayed

(* VNCAuthentication, once it has the challenge. *)
Encrypt ==
  /\ Read("challenge") /\ Return
  /\ Answer("response", "PASSWORD_RESPONSE", windows \ {"password"})
  /\ HandlerFrame /\ UNCHANGED strayed

(* VNCPasswordResponse. *)
PasswordResponse ==
  /\ Read("response") /\ Return
  /\ \/ MaySay("ok") /\ Answer("shared", "SERVER_INIT", windows)
     \/ ~Says("ok") /\ CloseConnection(windows)
  /\ HandlerFrame /\ UNCHANGED strayed

(* VNCInitialiseDisplay reads four times; ... *)
ReadFormat == Read("size") /\ ReadData("format", Format)
ReadLength == Read("format") /\ ReadData("length", Card)
ReadName ==
  /\ Read("length")
  /\ \E n \in 0..MaxName :
       /\ \A m \in 0..MaxName : Says(m) => n = m
       /\ ReadData("name", n)

Initialise ==
  /\ ReadFormat \/ ReadLength \/ ReadName
  /\ UNCHANGED <<connection, windows, input, wire, server, connections, strayed>>

(* ... there may be no memory for the name; ... *)
NoMemory ==
  /\ Read("length") /\ Return
  /\ strayed' = TRUE
  /\ UNCHANGED <<connection, windows, input, wire, server, connections>>

(* ... in the end VNCSetEncoding may have closed the connection. *)
Initialised ==
  /\ Read("name") /\ Return
  /\ \/ /\ Write("encodings")
        /\ networkStatus' = "none"
        /\ flags' = flags \cup {"INITIALISED"}
        /\ config' = config \cup {"edge"}
        /\ UNCHANGED <<socket, memBuffer, windows, wire, strayed>>
     \/ /\ WriteFails /\ Disconnected
        /\ flags' = ClosedFlags \cup {"INITIALISED"}
        /\ config' = ClosedConfig \cup {"edge"}
        /\ windows' = windows \ {"main"}
        /\ strayed' = TRUE
  /\ HandlerFrame

Reading == \/ ReadMore \/ ReadLost \/ Copy \/ NothingRead
           \/ ProcessVersion \/ GetPassword \/ Encrypt \/ PasswordResponse
           \/ Initialise \/ NoMemory \/ Initialised

-----------------------------------------------------------------------------
(* Null events: socketFillBuffers and socketProcessInitInput. *)

(* What a stage begins with, and what must be there before it does. *)
First == [VERSION |-> "version", PASSWORD |-> "auth",
          PASSWORD_RESPONSE |-> "response", SERVER_INIT |-> "size"]
Waiting == [VERSION |-> Version, PASSWORD |-> Card,
            PASSWORD_RESPONSE |-> Card, SERVER_INIT |-> Format]

Amount(what) == IF what = "version" THEN Version ELSE Card

(* Slip: one byte more waited for than there may be. *)
ProcessInitInputLate ==
  IF /\ "INITIALISED" \notin flags
     /\ networkStatus \in DOMAIN First /\ BufferSize > Waiting[networkStatus]
  THEN ReadData(First[networkStatus], Amount(First[networkStatus]))
  ELSE UNCHANGED call

ProcessInitInput ==
  IF /\ "INITIALISED" \notin flags
     /\ networkStatus \in DOMAIN First /\ BufferSize >= Waiting[networkStatus]
  THEN ReadData(First[networkStatus], Amount(First[networkStatus]))
  ELSE UNCHANGED call

Null ==
  /\ Idle /\ "CONNECTED" \in flags
  /\ memBuffer' = Filled /\ wire' = <<>>
  /\ ProcessInitInput
  /\ UNCHANGED <<flags, networkStatus, socket, windows, input, server, connections, strayed>>

NullLost ==
  /\ Idle /\ "CONNECTED" \in flags
  /\ wire # <<>> /\ server.stage = "gone"
  /\ CloseConnection(windows)
  /\ UNCHANGED <<call, pollword, pc, connections, strayed>>

-----------------------------------------------------------------------------
(* The user.  The menu offers Connect or Disconnect, as CONNECTED says. *)

OpenConnectWindow ==
  /\ Idle /\ "CONNECTED" \notin flags
  /\ windows' = windows \cup {"connect"}
  /\ UNCHANGED <<connection, call, input, wire, server, connections, strayed>>

CancelConnect ==
  /\ Idle /\ "connect" \in windows
  /\ windows' = windows \ {"connect"}
  /\ UNCHANGED <<connection, call, input, wire, server, connections, strayed>>

(* VNCOpenConnection; in a connect window that is still open it is only asked
   for where there is no connection. *)
OpenConnection ==
  /\ Idle /\ "connect" \in windows /\ connections < MaxConnections
  /\ windows' = windows \ {"connect"}
  /\ connections' = connections + 1
  /\ \/ /\ socket' \in {"unresolved", "none"}
        /\ UNCHANGED <<flags, networkStatus, wire, server>>
     \/ /\ socket' = "own"
        /\ flags' = flags \cup {"CONNECTED"}
        /\ networkStatus' = "VERSION"
        /\ wire' = <<>> /\ server' = Server("version", Whole(<<"version", 0>>))
  /\ UNCHANGED <<memBuffer, call, input, strayed>>

Disconnect ==
  /\ Idle /\ "CONNECTED" \in flags
  /\ CloseConnection(windows)
  /\ UNCHANGED <<call, pollword, pc, connections, strayed>>

(* Return in the password window: VNCAuthentication.  The window may be left
   over from a connection that has been closed. *)
EnterPassword ==
  /\ Idle /\ "password" \in windows
  /\ ReadData("challenge", Challenge)
  /\ strayed' = (strayed \/ networkStatus # "WAITING_FOR_ENCRYPT")
  /\ UNCHANGED <<connection, windows, input, wire, server, connections>>

(* Escape in it; the connection stays. *)
EscapePassword ==
  /\ Idle /\ "password" \in windows
  /\ windows' = windows \ {"password"}
  /\ UNCHANGED <<connection, call, input, wire, server, connections, strayed>>

(* Mouse and keys go to the server; it does not expect them before it serves. *)
SendInput ==
  /\ \/ Write("input") /\ UNCHANGED <<connection, windows, config, wire>>
     \/ WriteFails /\ CloseConnection(windows)
  /\ strayed' = (strayed \/ (socket = "own" /\ server.stage \notin {"serving", "gone"}))

(* VNCProcessWimpKey: the key goes down, and up if that could be sent. *)
MainKey ==
  /\ Idle /\ "main" \in windows
  /\ SendInput
  /\ pc' = IF socket' = "own" THEN "up" ELSE "idle"
  /\ UNCHANGED <<call, pollword, connections>>

KeyUp ==
  /\ pc = "up" /\ pc' = "idle"
  /\ SendInput
  /\ UNCHANGED <<call, pollword, connections>>

-----------------------------------------------------------------------------
(* The module sets bits of the pollword at interrupt time, and a pollword event
   handles them in this order. *)

Watched ==
  /\ \E bit \in config : pollword' = pollword \cup {bit}
  /\ UNCHANGED <<connection, call, windows, config, pc, wire, server, connections, strayed>>

PollwordEvent ==
  /\ Idle /\ pollword # {}
  /\ pc' = "mouse"
  /\ UNCHANGED <<connection, call, windows, config, pollword, wire, server, connections, strayed>>

(* VNCProcessMouse, and VNCProcessKey for a key pressed and for one released; the
   pointer may be elsewhere and the key be none that is sent. *)
HandleBit(place, bit, next) ==
  /\ pc = place /\ pc' = next
  /\ \/ /\ bit \in pollword
        /\ bit = "mouse" => "main" \in windows
        /\ SendInput
     \/ UNCHANGED <<connection, windows, config, wire, server, strayed>>
  /\ UNCHANGED <<call, pollword, connections>>

(* VNCProcessEdgeDetect. *)
EdgeDetect ==
  IF "WINDOW_OPEN" \in flags
  THEN /\ windows' = windows \ {"main"}
       /\ config' = config \ {"mouse", "key"}
       /\ flags' = flags \ {"WINDOW_OPEN"}
  ELSE /\ windows' = windows \cup {"main"}
       /\ config' = config \cup {"mouse", "key"}
       /\ flags' = flags \cup {"WINDOW_OPEN"}

HandleEdge ==
  /\ pc = "edge" /\ pc' = "idle" /\ pollword' = {}
  /\ IF "edge" \in pollword THEN EdgeDetect ELSE UNCHANGED <<windows, config, flags>>
  /\ UNCHANGED <<networkStatus, socket, memBuffer, call, wire, server, connections, strayed>>

Event == \/ HandleBit("mouse", "mouse", "press") \/ HandleBit("press", "key", "release")
         \/ HandleBit("release", "key", "edge") \/ HandleEdge \/ KeyUp

-----------------------------------------------------------------------------
Init ==
  /\ flags = {} /\ networkStatus = "none" /\ socket = "zero"
  /\ memBuffer = <<>>
  /\ reading = "none" /\ left = 0 /\ got = <<>>
  /\ windows = {} /\ config = {} /\ pollword = {} /\ pc = "idle"
  /\ wire = <<>> /\ server = Server("none", <<>>)
  /\ connections = 0 /\ strayed = FALSE

User == \/ OpenConnectWindow \/ CancelConnect \/ OpenConnection \/ Disconnect
        \/ EnterPassword \/ EscapePassword \/ MainKey

Next == \/ Reading \/ Null \/ NullLost \/ User
        \/ Watched \/ PollwordEvent \/ Event \/ Arrive \/ ServerStops

(* A program that is given the processor goes on, null events come between the
   others, and what the server says arrives. *)
Fairness == WF_vars(Reading) /\ WF_vars(Event) /\ SF_vars(Null) /\ WF_vars(Arrive)

Spec == Init /\ [][Next]_vars /\ Fairness

-----------------------------------------------------------------------------
Room == [version |-> Version, auth |-> Card, challenge |-> Challenge, response |-> Card,
         size |-> Card, format |-> Format, length |-> Card, name |-> MaxName]
(* Every variable has its type; no more is read from a buffer than it holds,
   nor into the caller's memory than was asked for. *)
TypeOK ==
  /\ flags \subseteq {"CONNECTED", "INITIALISED", "WINDOW_OPEN"}
  /\ networkStatus \in DOMAIN First \cup {"none", "WAITING_FOR_ENCRYPT"}
  /\ socket \in {"own", "none", "unresolved", "zero"}
  /\ \A i \in DOMAIN memBuffer : memBuffer[i].offset \in 0..Len(memBuffer[i].data)
  /\ reading \in DOMAIN Room \cup {"none"} /\ left \in Nat
  /\ Len(got) + left <= IF reading = "none" THEN 0 ELSE Room[reading]
  /\ windows \subseteq {"connect", "password", "main"}
  /\ config \subseteq {"mouse", "key", "edge"} /\ pollword \subseteq {"mouse", "key", "edge"}
  /\ pc \in {"idle", "mouse", "press", "release", "edge", "up"}
  /\ server.stage \in {"none", "version", "response", "shared", "encodings", "serving",
                       "refused", "gone"}
  /\ connections \in 0..MaxConnections /\ strayed \in BOOLEAN

(* All of what the server says that the client has not used. *)
Unused == got \o Unread \o wire \o server.says

(* What is to be read from a place in the reading of the server's initialisation
   on. *)
InitFrom(what, n) ==
  CASE what = "format" -> Whole(<<"format", 0>>) \o Whole(<<"length", n>>)
                          \o Whole(<<"name", n>>)
    [] what = "length" -> Whole(<<"length", n>>) \o Whole(<<"name", n>>)
    [] what = "name"   -> Whole(<<"name", n>>)
    [] OTHER           -> ServerInit(n)

(* The bytes u are the messages that the client's stage and its place in it wait
   for, and the server waits for the answer to them. *)
Expected(u) ==
  \/ networkStatus = "VERSION" /\ server.stage = "version" /\ u = Whole(<<"version", 0>>)
  \/ /\ networkStatus = "PASSWORD"
     /\ \/ server.stage = "shared" /\ u = Whole(<<"auth", "none">>)
        \/ /\ server.stage = "response"
           /\ u = Whole(<<"auth", "password">>) \o Whole(<<"challenge", 0>>)
        \/ server.stage = "refused" /\ u = Whole(<<"auth", "failed">>)
  \/ /\ networkStatus = "WAITING_FOR_ENCRYPT"
     /\ server.stage = "response" /\ u = Whole(<<"challenge", 0>>)
  \/ /\ networkStatus = "PASSWORD_RESPONSE"
     /\ \/ server.stage = "shared" /\ u = Whole(<<"response", "ok">>)
        \/ server.stage = "refused" /\ u = Whole(<<"response", "wrong">>)
  \/ /\ networkStatus = "SERVER_INIT" /\ server.stage = "encodings"
     /\ \E n \in 0..MaxName : u = InitFrom(reading, n)
  \/ /\ networkStatus = "none" /\ server.stage = "serving"
     /\ u = <<>> /\ "INITIALISED" \in flags

(* However the server's bytes are cut, by the network and into buffers, and
   whatever connections have been given up before: what the client has not used
   is, from its first byte, what it expects. *)
InStep ==
  socket = "own" /\ ~strayed /\ server.stage # "gone" => Expected(Unused)

(* Mouse and keys are watched, and taken from the desktop, exactly while the
   main window is open: whatever closes the window gives them back. *)
WatchesWindow ==
  /\ "WINDOW_OPEN" \in flags <=> "main" \in windows
  /\ "WINDOW_OPEN" \in flags <=> "mouse" \in config
  /\ "WINDOW_OPEN" \in flags <=> "key" \in config

(* A connection that is made gets through its stages or is closed, if the
   server does not fail and unless it waits for the user's password. *)
HandshakeEnds ==
  "CONNECTED" \in flags ~> \/ networkStatus \in {"none", "WAITING_FOR_ENCRYPT"}
                           \/ server.stage = "gone" \/ strayed
=============================================================================
