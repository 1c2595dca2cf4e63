----------------------------- MODULE Connection -----------------------------
(***************************************************************************)
(* How the connection of one session comes to stand: the stages that       *)
(* socketUpdate takes a session through, one at each BTTelnet_Status       *)
(* (BTTelnet/Module/socket.c), from the host name to a telnet or raw       *)
(* connection with or without SSL.                                         *)
(*                                                                         *)
(* The calls to the other modules (resolver, Internet, SecureSockets) are  *)
(* the points between which the Internet event 3, connection lost, makes a *)
(* difference: the event handler closes the socket under socketUpdate.  A  *)
(* stage is therefore a step up to its call and a step from there on.      *)
(***************************************************************************)
EXTENDS Naturals

CONSTANTS
  Losses,      \* may connections break?
  MaxHandles   \* bound: SSL contexts SecureSockets gives out

ASSUME LossesAssumption == Losses \in BOOLEAN
ASSUME MaxHandlesAssumption == MaxHandles \in Nat

VARIABLES
  open,        \* the session is in use (ID # -1)
  flags,       \* BTSession_s.flags
  status,      \* BTSession_s.status
  socket,      \* socket # -1
  watched,     \* FD_ISSET(socket, &connected): its events are looked at
  alive,       \* the TCP connection stands
  ssl,         \* ssl # NULL
  handles,     \* SSL contexts created and not given back
  unanswered,  \* greetings since the server last sent something, up to 2
  pc,          \* the place in socketUpdate
  answer,      \* what SecureSockets answered
  opening,     \* socketUpdate is called by BTTelnet_Open, not BTTelnet_Status
  told         \* the last result of socketUpdate: "error" if negative

link == <<socket, watched, alive, ssl, handles>>
control == <<pc, answer, opening, told>>
vars == <<open, flags, status, link, unanswered, control>>

Flags == {"SSL", "FORCE_SSL", "RAW"}
Setup == {"RESOLVING", "CREATING", "CONNECTING", "CREATING_SSL", "CONNECTING_SSL"}
Ends  == {"CONN_LOST", "FINISHED", "ABORTED"}
Bits  == Setup \cup Ends \cup {"NEGOTIATING", "CONNECTED", "SSL"}

(* In socketUpdate: before the call of the stage named, or behind it. *)
Behind == {"joined", "createdSSL", "connectedSSL", "greet"}
Places == Setup \cup Behind \cup {"idle", "aborted"}
Answers == {"none", "done", "blocked", "failed"}

Idle == pc = "idle"

Init ==
  /\ open = FALSE /\ flags = {} /\ status = {}
  /\ socket = FALSE /\ watched = FALSE /\ alive = FALSE
  /\ ssl = FALSE /\ handles = 0
  /\ unanswered = 0
  /\ pc = "idle" /\ answer = "none" /\ opening = FALSE /\ told = "status"
-----------------------------------------------------------------------------
(* Leaving socketUpdate with a result. *)
Return(result) ==
  /\ pc' = "idle" /\ answer' = "none" /\ opening' = FALSE
  /\ told' = result

Goto(place, what) ==
  /\ pc' = place /\ answer' = what
  /\ UNCHANGED <<opening, told>>

(* socketClose gives the SSL context back only if the session runs SSL. *)
Disconnects == socket /\ ssl /\ "SSL" \in status

(* socketClose, which does nothing for a socket of -1. *)
Close ==
  /\ socket' = FALSE /\ watched' = FALSE /\ alive' = FALSE
  /\ ssl' = (ssl /\ ~Disconnects)
  /\ handles' = IF Disconnects THEN handles - 1 ELSE handles

ClosedStatus ==
  (status \ ({"CONNECTED"} \cup (IF Disconnects THEN {"SSL"} ELSE {})))
    \cup {"FINISHED"}

(* Slip: the pointer to the SSL context outlives the session. *)
DestroyKeepsSsl ==
  /\ open' = FALSE /\ flags' = {} /\ status' = {}
  /\ socket' = FALSE /\ watched' = FALSE /\ alive' = FALSE
  /\ ssl' = ssl
  /\ handles' = IF Disconnects THEN handles - 1 ELSE handles
  /\ unanswered' = 0

(* sessionDestroy closes the socket and wipes the session. *)
Destroy ==
  /\ open' = FALSE /\ flags' = {} /\ status' = {}
  /\ socket' = FALSE /\ watched' = FALSE /\ alive' = FALSE
  /\ ssl' = FALSE
  /\ handles' = IF Disconnects THEN handles - 1 ELSE handles
  /\ unanswered' = 0

(* Slip: the fallback does not ask whether the session negotiates already. *)
EnterGreeting(raw, extra) ==
  /\ status' = status \cup {"CONNECTED"} \cup extra
                 \cup (IF raw THEN {} ELSE {"NEGOTIATING"})
  /\ watched' = socket
  /\ IF raw THEN Return("status") ELSE Goto("greet", "none")

(* Entering the connected state, as socketConnect, socketConnectSSL and the
   fallbacks of socketUpdate do it: a telnet session that is not negotiating
   is greeted next.  The socket goes into the set of connected sockets. *)
Enter(raw, extra) ==
  /\ status' = status \cup {"CONNECTED"} \cup extra
                 \cup (IF raw THEN {} ELSE {"NEGOTIATING"})
  /\ watched' = socket
  /\ IF raw \/ "NEGOTIATING" \in status THEN Return("status")
                                        ELSE Goto("greet", "none")

-----------------------------------------------------------------------------
(* The application's SWIs. *)

(* BTTelnet_Open: sessionCreate, then socketUpdate. *)
Open(f) ==
  /\ Idle /\ ~open
  /\ open' = TRUE /\ flags' = f /\ status' = {"RESOLVING"}
  /\ pc' = "RESOLVING" /\ opening' = TRUE
  /\ UNCHANGED <<link, unanswered, answer, told>>

(* BTTelnet_Status: socketUpdate refuses a finished session, ... *)
StatusFinished ==
  /\ Idle /\ open
  /\ "FINISHED" \in status
  /\ told' = "error"
  /\ UNCHANGED <<open, flags, status, link, unanswered, pc, answer, opening>>

(* ... has nothing to do for one that is in no stage, ... *)
StatusOnly ==
  /\ Idle /\ open
  /\ status \cap (Setup \cup {"FINISHED"}) = {}
  /\ told' = "status"
  /\ UNCHANGED <<open, flags, status, link, unanswered, pc, answer, opening>>

Rank == [RESOLVING |-> 1, CREATING |-> 2, CONNECTING |-> 3,
         CREATING_SSL |-> 4, CONNECTING_SSL |-> 5]

(* ... and otherwise goes to the first stage whose bit is set. *)
StatusUpdate(stage) ==
  /\ Idle /\ open
  /\ "FINISHED" \notin status
  /\ stage \in status
  /\ \A other \in status \cap Setup : Rank[stage] <= Rank[other]
  /\ pc' = stage
  /\ UNCHANGED <<open, flags, status, link, unanswered, answer, opening, told>>

(* BTTelnet_Close. *)
AppClose ==
  /\ Idle /\ open
  /\ Destroy
  /\ UNCHANGED control
-----------------------------------------------------------------------------
(* The stages before the connection stands. *)

(* socketResolve: the address is known, ... *)
ResolveDone ==
  /\ pc = "RESOLVING"
  /\ status' = (status \ {"RESOLVING"}) \cup {"CREATING"}
  /\ Return("status")
  /\ UNCHANGED <<open, flags, link, unanswered>>

(* ... is still being looked up, ... *)
ResolveBlocks ==
  /\ pc = "RESOLVING"
  /\ Return("status")
  /\ UNCHANGED <<open, flags, status, link, unanswered>>

(* Slip: RESOLVING cleared only when the name is found. *)
ResolveFailsKeeps ==
  /\ pc = "RESOLVING"
  /\ Return("error")
  /\ \/ opening /\ Destroy
     \/ ~opening /\ UNCHANGED <<open, flags, status, link, unanswered>>

(* ... or cannot be found: no bit is left, and BTTelnet_Open destroys the
   session. *)
ResolveFails ==
  /\ pc = "RESOLVING"
  /\ Return("error")
  /\ \/ opening /\ Destroy
     \/ /\ ~opening
        /\ status' = status \ {"RESOLVING"}
        /\ UNCHANGED <<open, flags, link, unanswered>>

(* socketCreate.  It can fail before or after the socket exists. *)
CreateDone ==
  /\ pc = "CREATING"
  /\ status' = (status \ {"CREATING"}) \cup {"CONNECTING"}
  /\ socket' = TRUE
  /\ Return("status")
  /\ UNCHANGED <<open, flags, watched, alive, ssl, handles, unanswered>>

CreateFails ==
  /\ pc = "CREATING"
  /\ status' = (status \ {"CREATING"}) \cup {"ABORTED"}
  /\ socket' \in BOOLEAN
  /\ Return("error")
  /\ UNCHANGED <<open, flags, watched, alive, ssl, handles, unanswered>>

(* socketConnect, its Socket_Connect: connected (or found to be), ... *)
ConnectDone ==
  /\ pc = "CONNECTING"
  /\ status' = status \ {"CONNECTING"}
  /\ alive' = TRUE
  /\ Goto("joined", "none")
  /\ UNCHANGED <<open, flags, socket, watched, ssl, handles, unanswered>>

ConnectBlocks ==
  /\ pc = "CONNECTING"
  /\ Return("status")
  /\ UNCHANGED <<open, flags, status, link, unanswered>>

ConnectFails ==
  /\ pc = "CONNECTING"
  /\ status' = (status \ {"CONNECTING"}) \cup {"ABORTED"}
  /\ Return("error")
  /\ UNCHANGED <<open, flags, link, unanswered>>

(* The rest of socketConnect: FIOASYNC may fail; FORCE_SSL goes to the SSL
   stages, everything else is connected.  Whether the session is raw is
   looked up in status instead of flags, where the bit of that number is
   CONNECTING, just cleared. *)
JoinFails ==
  /\ pc = "joined"
  /\ status' = status \cup {"ABORTED"}
  /\ Return("error")
  /\ UNCHANGED <<open, flags, link, unanswered>>

(* Slip: the socket is not put among the connected ones on this path. *)
JoinForcedUnwatched ==
  /\ pc = "joined"
  /\ "FORCE_SSL" \in flags
  /\ status' = status \cup {"CREATING_SSL"}
  /\ Return("status")
  /\ UNCHANGED <<open, flags, link, unanswered>>

JoinForced ==
  /\ pc = "joined"
  /\ "FORCE_SSL" \in flags
  /\ status' = status \cup {"CREATING_SSL"}
  /\ watched' = socket
  /\ Return("status")
  /\ UNCHANGED <<open, flags, socket, alive, ssl, handles, unanswered>>

Join ==
  /\ pc = "joined"
  /\ "FORCE_SSL" \notin flags
  /\ Enter("CONNECTING" \in status, {})
  /\ UNCHANGED <<open, flags, socket, alive, ssl, handles, unanswered>>

(* telnetSendNegotiation. *)
Greet ==
  /\ pc = "greet"
  /\ unanswered' = IF unanswered = 0 THEN 1 ELSE 2
  /\ Return("status")
  /\ UNCHANGED <<open, flags, status, link>>
-----------------------------------------------------------------------------
(* The SSL stages. *)

(* The assertions of socketCreateSSL and socketConnectSSL: the event may have
   closed the socket since socketUpdate looked at FINISHED. *)
SslAborts ==
  /\ \/ pc \in {"CREATING_SSL", "CONNECTING_SSL"} /\ ~socket
     \/ pc = "CONNECTING_SSL" /\ ~ssl
  /\ Goto("aborted", "none")
  /\ UNCHANGED <<open, flags, status, link, unanswered>>

(* socketCreateSSL up to Secure_Connect and its answer. *)
CreateSSL ==
  /\ pc = "CREATING_SSL"
  /\ socket
  /\ status' = status \ {"CREATING_SSL"}
  /\ \/ /\ handles < MaxHandles
        /\ ssl' = TRUE /\ handles' = handles + 1
        /\ Goto("createdSSL", "done")
     \/ Goto("createdSSL", "failed") /\ UNCHANGED <<ssl, handles>>
  /\ UNCHANGED <<open, flags, socket, watched, alive, unanswered>>

CreatedSSL ==
  /\ pc = "createdSSL"
  /\ answer = "done"
  /\ status' = status \cup {"CONNECTING_SSL"}
  /\ Return("status")
  /\ UNCHANGED <<open, flags, link, unanswered>>

(* socketConnectSSL up to Secure_PollConnect and its answer. *)
ConnectSSL(what) ==
  /\ pc = "CONNECTING_SSL"
  /\ socket /\ ssl
  /\ what = "done" => alive
  /\ status' = status \ {"CONNECTING_SSL"}
  /\ Goto("connectedSSL", what)
  /\ UNCHANGED <<open, flags, link, unanswered>>

ConnectedSSLBlocked ==
  /\ pc = "connectedSSL"
  /\ answer = "blocked"
  /\ status' = status \cup {"CONNECTING_SSL"}
  /\ Return("status")
  /\ UNCHANGED <<open, flags, link, unanswered>>

ConnectedSSL ==
  /\ pc = "connectedSSL"
  /\ answer = "done"
  /\ Enter("RAW" \in flags, {"SSL"})
  /\ UNCHANGED <<open, flags, socket, alive, ssl, handles, unanswered>>

(* socketUpdate after a failed SSL stage: an error under FORCE_SSL, without
   a bit to tell of it, else a connection in clear. *)
SslRefused ==
  /\ pc \in {"createdSSL", "connectedSSL"}
  /\ answer = "failed"
  /\ "FORCE_SSL" \in flags
  /\ Return("error")
  /\ UNCHANGED <<open, flags, status, link, unanswered>>

(* Slip: FORCE_SSL not looked at when a stage fails. *)
FallBackAlways ==
  /\ pc \in {"createdSSL", "connectedSSL"}
  /\ answer = "failed"
  /\ Enter("RAW" \in flags, {})
  /\ UNCHANGED <<open, flags, socket, alive, ssl, handles, unanswered>>

FallBack ==
  /\ pc \in {"createdSSL", "connectedSSL"}
  /\ answer = "failed"
  /\ "FORCE_SSL" \notin flags
  /\ Enter("RAW" \in flags, {})
  /\ UNCHANGED <<open, flags, socket, alive, ssl, handles, unanswered>>

-----------------------------------------------------------------------------
(* What happens to a connected session in the callback handler. *)

Serving == Idle /\ socket /\ "CONNECTED" \in status

(* telnetWork: the first byte that is no telnet command ends the negotiation. *)
Data ==
  /\ Serving
  /\ status' = IF "RAW" \in flags THEN status ELSE status \ {"NEGOTIATING"}
  /\ unanswered' = 0
  /\ UNCHANGED <<open, flags, link, control>>

(* telnetAuthReply: the server accepts SSL.  Whether telnetAuthSend has offered it
   is not looked at. *)
Accept ==
  /\ Serving
  /\ "RAW" \notin flags
  /\ status' = (status \ {"CONNECTED"}) \cup {"CREATING_SSL"}
  /\ UNCHANGED <<open, flags, link, unanswered, control>>

(* callbackHandler: a read or a write fails. *)
HandlerCloses ==
  /\ Losses
  /\ Serving
  /\ Close
  /\ status' = ClosedStatus
  /\ UNCHANGED <<open, flags, unanswered, control>>

(* Slip: FINISHED left to be set by the next call (socket.c:391). *)
PeerBreaksUnfinished ==
  /\ Losses
  /\ alive
  /\ pc # "aborted"
  /\ \/ /\ watched
        /\ Close
        /\ status' = (ClosedStatus \ {"CONNECTED", "FINISHED"}) \cup {"CONN_LOST"}
     \/ /\ ~watched
        /\ alive' = FALSE
        /\ UNCHANGED <<status, socket, watched, ssl, handles>>
  /\ UNCHANGED <<open, flags, unanswered, control>>

(* The connection breaks.  Event 3 is looked at if the socket is among the
   connected ones, and lost if it is not. *)
PeerBreaks ==
  /\ Losses
  /\ alive
  /\ pc # "aborted"
  /\ \/ /\ watched
        /\ Close
        /\ status' = (ClosedStatus \ {"CONNECTED"}) \cup {"CONN_LOST"}
     \/ /\ ~watched
        /\ alive' = FALSE
        /\ UNCHANGED <<status, socket, watched, ssl, handles>>
  /\ UNCHANGED <<open, flags, unanswered, control>>

-----------------------------------------------------------------------------
Status == StatusFinished \/ StatusOnly \/ \E stage \in Setup : StatusUpdate(stage)

Application == AppClose \/ Status \/ \E f \in SUBSET Flags : Open(f)

Resolve == ResolveDone \/ ResolveBlocks \/ ResolveFails
Create  == CreateDone \/ CreateFails
Connect == ConnectDone \/ ConnectBlocks \/ ConnectFails
Joined  == JoinFails \/ JoinForced \/ Join
Secure  == \/ SslAborts \/ CreateSSL \/ CreatedSSL
           \/ \E what \in Answers \ {"none"} : ConnectSSL(what)
           \/ ConnectedSSLBlocked \/ ConnectedSSL \/ SslRefused \/ FallBack

Update == Resolve \/ Create \/ Connect \/ Joined \/ Secure \/ Greet
Served == Data \/ Accept \/ HandlerCloses

Next == Application \/ Update \/ Served \/ PeerBreaks

Spec == Init /\ [][Next]_vars

(* socketUpdate runs to its end, the application asks for the status again
   and again, and whoever is asked again and again stops answering "not yet". *)
ResolverAnswers  == ResolveDone \/ ResolveFails
ServerAnswers    == ConnectDone \/ ConnectFails
HandshakeAnswers == ConnectSSL("done") \/ ConnectSSL("failed")

FairSpec ==
  /\ Spec
  /\ WF_vars(Update)
  /\ SF_vars(\E stage \in Setup : StatusUpdate(stage))
  /\ SF_vars(ResolverAnswers) /\ SF_vars(ServerAnswers) /\ SF_vars(HandshakeAnswers)
-----------------------------------------------------------------------------
SwitchesOK ==
  /\ open \in BOOLEAN /\ socket \in BOOLEAN /\ watched \in BOOLEAN
  /\ alive \in BOOLEAN /\ ssl \in BOOLEAN /\ opening \in BOOLEAN
BitsOK ==
  /\ flags \subseteq Flags /\ status \subseteq Bits
  /\ pc \in Places /\ answer \in Answers /\ told \in {"status", "error"}
CountsOK == handles \in 0..MaxHandles /\ unanswered \in 0..2
UnusedOK == ~open => status = {} /\ ~socket /\ ~watched /\ ~ssl /\ unanswered = 0

(* The variables have their types; only a session in use has any state. *)
TypeOK == SwitchesOK /\ BitsOK /\ CountsOK /\ UnusedOK

(* BTT_FLAGS_FORCE_SSL, "only use SSL": such a session is never connected, so
   that nothing is read from it or written to it, unless SSL stands; whatever
   fails and whatever breaks in between. *)
ForceSsl ==
  "FORCE_SSL" \in flags /\ "CONNECTED" \in status => "SSL" \in status

(* A session is in one stage of its set-up, or connected, and never in two:
   the order in which socketUpdate tests the bits does not matter, and a
   session that returns to the SSL stages is not served meanwhile. *)
OneStage ==
  \A a, b \in status \cap (Setup \cup {"CONNECTED"}) : a = b

(* A telnet session says NEGOTIATING exactly as long as its greeting has gone
   out and the server has sent nothing since: however it came to be connected
   (at once, after SSL, by falling back) it is greeted once and not again
   before the server has answered. *)
NegotiationTrue ==
  open /\ "RAW" \notin flags /\ pc # "greet"
    => IF "NEGOTIATING" \in status THEN unanswered = 1 ELSE unanswered = 0

(* Where SSL is only wanted, its failure costs nothing but SSL: a session with
   a socket is in a stage, connected, or was aborted by a socket call. *)
SslOptional ==
  Idle /\ socket /\ "FORCE_SSL" \notin flags
    => status \cap (Setup \cup {"CONNECTED", "ABORTED"}) # {}

(* BTTelnet_Open's two SSL flags mean what BTT_api.h says of them, whatever fails
   and whatever breaks under socketUpdate. *)
SslAsAsked == ForceSsl /\ SslOptional

(* The events of every session that is connected, or in the SSL stages of a
   connected socket, are looked at. *)
EventsSeen ==
  socket /\ status \cap {"CREATING_SSL", "CONNECTING_SSL", "CONNECTED"} # {}
    => watched

(* A session that is being set up does not stay so while the application goes
   on asking: it is connected, failed or closed in the end. *)
SettingUp == open /\ status \cap Setup # {} /\ "FINISHED" \notin status
SetupEnds ==
  SettingUp ~> \/ "FINISHED" \in status
               \/ Idle /\ (~open \/ status \cap Setup = {})

-----------------------------------------------------------------------------
(* What the bits and the place in socketUpdate say of the connection.  CONNECTED
   comes first, as the SWIs that move bytes test nothing else (swis.c:224, 291).
   "losing": ended while SecureSockets is called for it. *)
phase ==
  IF ~open THEN "free"
  ELSE IF {"CONNECTED", "FINISHED"} \subseteq status THEN "revived"
  ELSE IF "CONNECTED" \in status THEN "connected"
  ELSE IF "FINISHED" \in status /\ pc \in {"createdSSL", "connectedSSL"} THEN "losing"
  ELSE IF "FINISHED" \in status THEN "finished"
  ELSE IF \/ status \cap {"CREATING_SSL", "CONNECTING_SSL"} # {}
          \/ pc \in {"createdSSL", "connectedSSL"} THEN "securing"
  ELSE IF status \cap Setup # {} \/ pc = "joined" THEN "connecting"
  ELSE "dead"

(* The connection has the life that module Vectors takes for granted.  Its end is
   final, wherever in socketUpdate the event handler brings it about, but for one
   place: a session lost during a call of SecureSockets may be given CONNECTED
   behind it (socket.c:331, 586, 616).  Until the connection stands no event can
   end it. *)
Life == INSTANCE Lifecycle
HasLife == Life!Spec
=============================================================================
