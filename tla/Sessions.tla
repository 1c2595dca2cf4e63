------------------------------ MODULE Sessions ------------------------------
(***************************************************************************)
(* The table of sessions of BTTelnet (BTTelnet/Module/sessions.c): slots,  *)
(* IDs, socket numbers and memory, from the start of the module to its     *)
(* end.  BTTelnet_Open and _Close create and destroy sessions, one step    *)
(* for each place at which an Internet event, or a callback that           *)
(* OS_CallAfter starts, can come in between and look for a session by its  *)
(* socket.  Of a connection only what its session holds is kept; its       *)
(* stages are in module Connection, its data in module Vectors.            *)
(***************************************************************************)
EXTENDS Integers

CONSTANTS
  Slots,    \* 0..MAX_CONNECTIONS - 1, the indices of sessions[]
  Sockets,  \* the numbers the Internet module gives to sockets
  LastID    \* bound: the last value of nextSession that is given out

ASSUME SlotsAssumption == Slots \subseteq Nat
ASSUME SocketsAssumption == Sockets \subseteq Nat
ASSUME LastIDAssumption == LastID \in Nat

VARIABLES
  loaded,       \* the module is initialised
  slot,         \* sessions[]
  nextSession,
  connected,    \* the fd_set: sockets whose events are looked at
  memory,       \* blocks that malloc gave and free did not get back
  open,         \* sockets that are open at the Internet module
  given,        \* IDs the application has been told of and has not closed
  place,        \* the place in sessionDestroy, or "idle"
  victim,       \* the slot that is being destroyed
  misled        \* has an event been taken for a session that is not its own?

held == <<memory, open>>
control == <<place, victim>>
vars == <<loaded, slot, nextSession, connected, held, given, control, misled>>

(* What a session points to, in the order sessionCreate allocates it. *)
Strings == {"hostname", "terminal", "userName"}
Parts == {"read", "write", "work"} \cup Strings

(* The block of a part, named for the session that got it. *)
BlocksOf(id, parts) == {id} \X parts

(* SETUP stands for the bits of the stages; a session that has failed in one
   of them has none of these bits. *)
Bits == {"SETUP", "CONNECTED", "FINISHED", "CONN_LOST"}

Places == {"idle", "unwatched", "closed", "freed", "wiped"}
Idle == loaded /\ place = "idle"

Blank == [ID |-> -1, socket |-> -1, status |-> {}, blocks |-> {}]

(* sessionGetFree, sessionFind and sessionFindBySocket return the first of: *)
Free == {i \in Slots : slot[i].ID = -1}
WithID(id) == {i \in Slots : slot[i].ID = id}
WithSocket(s) == {i \in Slots : slot[i].socket = s}
IsFirst(i, S) == i \in S /\ \A j \in S : i <= j

Init ==
  /\ loaded = FALSE /\ slot = [i \in Slots |-> Blank] /\ nextSession = 0
  /\ connected = {} /\ memory = {} /\ open = {} /\ given = {}
  /\ place = "idle" /\ victim \in Slots
  /\ misled = FALSE
-----------------------------------------------------------------------------
(* The start and the end of the module. *)

(* initialise: FD_ZERO, and sessionInitialise sets all slots free. *)
Initialise ==
  /\ ~loaded
  /\ loaded' = TRUE
  /\ slot' = [i \in Slots |-> Blank] /\ nextSession' = 0 /\ connected' = {}
  /\ UNCHANGED <<held, given, control, misled>>

InUse == {i \in Slots : slot[i].ID # -1}
SocketsOf(S) == {slot[i].socket : i \in S} \ {-1}
MemoryOf(S) == UNION {slot[i].blocks : i \in S}

(* finalise: events are released first, so that none comes while
   sessionFinalise destroys what is in use. *)
Finalise ==
  /\ Idle
  /\ open' = open \ SocketsOf(InUse)
  /\ memory' = memory \ MemoryOf(InUse)
  /\ loaded' = FALSE
  /\ slot' = [i \in Slots |-> Blank]
  /\ connected' = {} /\ given' = {}
  /\ UNCHANGED <<nextSession, control, misled>>
-----------------------------------------------------------------------------
(* socketClose, which does nothing for a socket of -1. *)

Closed(session) ==
  [session EXCEPT !.socket = -1,
                  !.status = (session.status \ {"CONNECTED"}) \cup {"FINISHED"}]

(* Slip: the number is left in the session. *)
CloseSocketKeepsNumber(i, more) ==
  IF slot[i].socket = -1
    THEN /\ slot' = [slot EXCEPT ![i].status = @ \cup more]
         /\ UNCHANGED <<connected, open>>
    ELSE /\ open' = open \ {slot[i].socket}
         /\ connected' = connected \ {slot[i].socket}
         /\ slot' = [slot EXCEPT ![i].status = Closed(slot[i]).status \cup more]

(* more: bits the caller sets besides. *)
CloseSocket(i, more) ==
  IF slot[i].socket = -1
    THEN /\ slot' = [slot EXCEPT ![i].status = @ \cup more]
         /\ UNCHANGED <<connected, open>>
    ELSE /\ open' = open \ {slot[i].socket}
         /\ connected' = connected \ {slot[i].socket}
         /\ slot' = [slot EXCEPT ![i] = [Closed(slot[i]) EXCEPT !.status = @ \cup more]]

-----------------------------------------------------------------------------
(* sessionDestroy. *)

(* "Is there a socket to close?" *)
Begin(i) ==
  /\ victim' = i
  /\ place' = IF slot[i].socket # -1 THEN "unwatched" ELSE "closed"

DestroyClose ==
  /\ place = "unwatched"
  /\ CloseSocket(victim, {})
  /\ place' = "closed"
  /\ UNCHANGED <<loaded, nextSession, memory, given, victim, misled>>

DestroyFree ==
  /\ place = "closed"
  /\ memory' = memory \ slot[victim].blocks
  /\ place' = "freed"
  /\ UNCHANGED <<loaded, slot, nextSession, connected, open, given, victim, misled>>

(* The memset makes the ID and the socket 0, ... *)
DestroyWipe ==
  /\ place = "freed"
  /\ slot' = [slot EXCEPT ![victim] =
                [ID |-> 0, socket |-> 0, status |-> {}, blocks |-> {}]]
  /\ place' = "wiped"
  /\ UNCHANGED <<loaded, nextSession, connected, held, given, victim, misled>>

(* Slip: the socket stays 0. *)
DestroyMarkID ==
  /\ place = "wiped"
  /\ slot' = [slot EXCEPT ![victim].ID = -1]
  /\ place' = "idle"
  /\ UNCHANGED <<loaded, nextSession, connected, held, given, victim, misled>>

(* ... and then both become -1. *)
DestroyMark ==
  /\ place = "wiped"
  /\ slot' = [slot EXCEPT ![victim] = [@ EXCEPT !.ID = -1, !.socket = -1]]
  /\ place' = "idle"
  /\ UNCHANGED <<loaded, nextSession, connected, held, given, victim, misled>>
-----------------------------------------------------------------------------
(* The SWIs. *)

(* sessionGetFree gives the first free slot the next ID; sessionCreate fills it. *)
Create(i, parts, status) ==
  /\ Idle /\ IsFirst(i, Free) /\ nextSession <= LastID
  /\ nextSession' = nextSession + 1
  /\ memory' = memory \cup BlocksOf(nextSession, parts)
  /\ slot' = [slot EXCEPT ![i] =
                [@ EXCEPT !.ID = nextSession, !.status = status,
                          !.blocks = BlocksOf(nextSession, parts)]]
  /\ UNCHANGED <<loaded, connected, open, misled>>

(* What there can be when sessionCreate fails: no more buffers than
   up to the one that failed, or all of them and not all strings. *)
Partial ==
  {{}, {"read"}, {"read", "write"}}
    \cup {Parts \ missing : missing \in SUBSET Strings \ {{}}}

(* BTTelnet_Open: sessionCreate and the first socketUpdate, with or without a
   user name, ... *)
Open(i) ==
  /\ \E parts \in {Parts, Parts \ {"userName"}} : Create(i, parts, {"SETUP"})
  /\ given' = given \cup {nextSession}
  /\ UNCHANGED control

(* Slip: a session that could not be allocated whole is not destroyed. *)
OpenFailsKeeping(i) ==
  /\ \/ \E parts \in Partial : Create(i, parts, {}) /\ UNCHANGED control
     \/ \E parts \in {Parts, Parts \ {"userName"}} : Create(i, parts, {}) /\ Begin(i)
  /\ UNCHANGED given

(* ... which fail for want of memory, or because the name cannot be resolved.
   No socket exists yet. *)
OpenFails(i) ==
  /\ \E parts \in Partial \cup {Parts} : Create(i, parts, {})
  /\ Begin(i)
  /\ UNCHANGED given

(* BTTelnet_Close: the socket leaves the connected ones before it is closed. *)
Close(i) ==
  /\ Idle
  /\ slot[i].ID \in given /\ IsFirst(i, WithID(slot[i].ID))
  /\ Begin(i)
  /\ connected' = connected \ {slot[i].socket}
  /\ given' = given \ {slot[i].ID}
  /\ UNCHANGED <<loaded, slot, nextSession, held, misled>>

(* socketUpdate goes on with a session that is in a stage and not finished. *)
InStage(i) == "SETUP" \in slot[i].status /\ "FINISHED" \notin slot[i].status

(* BTTelnet_Status: socketCreate, which may fail with the socket open, ... *)
CreateSocket(i, s) ==
  /\ Idle
  /\ InStage(i) /\ slot[i].socket = -1
  /\ s \notin open
  /\ open' = open \cup {s}
  /\ \E status \in {{"SETUP"}, {}} :
       slot' = [slot EXCEPT ![i] = [@ EXCEPT !.socket = s, !.status = status]]
  /\ UNCHANGED <<loaded, nextSession, connected, memory, given, control, misled>>

(* ... socketConnect, behind which the events of the socket are looked at, ... *)
Connect(i) ==
  /\ Idle
  /\ InStage(i) /\ slot[i].socket \in Sockets \ connected
  /\ connected' = connected \cup {slot[i].socket}
  /\ \E status \in {{"SETUP"}, {"CONNECTED"}} :
       slot' = [slot EXCEPT ![i].status = status]
  /\ UNCHANGED <<loaded, nextSession, held, given, control, misled>>

(* ... the SSL stages, which may follow a connected time too ... *)
Secure(i) ==
  /\ Idle
  /\ slot[i].socket \in connected
  /\ \/ InStage(i)
        /\ slot' = [slot EXCEPT ![i].status = {"CONNECTED"}]
     \/ "CONNECTED" \in slot[i].status
        /\ slot' = [slot EXCEPT ![i].status = {"SETUP"}]
  /\ UNCHANGED <<loaded, nextSession, connected, held, given, control, misled>>

(* ... and the failure of any stage, which closes nothing. *)
StageFails(i) ==
  /\ Idle
  /\ InStage(i)
  /\ slot' = [slot EXCEPT ![i].status = {}]
  /\ UNCHANGED <<loaded, nextSession, connected, held, given, control, misled>>
-----------------------------------------------------------------------------
(* Between any two steps. *)

(* Does looking for socket s find the slot that sessionDestroy has just wiped? *)
FindsWiped(s) == place = "wiped" /\ IsFirst(victim, WithSocket(s))

(* eventvHandler, data waiting: the session is looked up for its status, from
   which the rest follows in module Vectors. *)
DataEvent(s) ==
  /\ loaded
  /\ s \in connected \cap open
  /\ connected' = IF WithSocket(s) = {} THEN connected \ {s} ELSE connected
  /\ misled' = (misled \/ FindsWiped(s))
  /\ UNCHANGED <<loaded, slot, nextSession, held, given, control>>

(* eventvHandler, connection lost: the session it finds is closed. *)
LostEvent(s) ==
  /\ loaded
  /\ s \in connected \cap open
  /\ IF WithSocket(s) = {}
       THEN connected' = connected \ {s} /\ UNCHANGED <<slot, open, misled>>
       ELSE /\ \E i \in Slots : /\ IsFirst(i, WithSocket(s))
                               /\ CloseSocket(i, {"CONN_LOST"})
            /\ misled' = (misled \/ FindsWiped(s))
  /\ UNCHANGED <<loaded, nextSession, memory, given, control>>

(* callbackHandler: reading from a connected session, or writing, fails. *)
HandlerCloses(i) ==
  /\ loaded
  /\ slot[i].socket \in open /\ IsFirst(i, WithSocket(slot[i].socket))
  /\ "CONNECTED" \in slot[i].status
  /\ CloseSocket(i, {})
  /\ UNCHANGED <<loaded, nextSession, memory, given, control, misled>>
-----------------------------------------------------------------------------
Destroy == DestroyClose \/ DestroyFree \/ DestroyWipe \/ DestroyMark

Stage(i) ==
  \/ \E s \in Sockets : CreateSocket(i, s)
  \/ Connect(i) \/ Secure(i) \/ StageFails(i)

Next ==
  \/ Initialise \/ Finalise \/ Destroy
  \/ \E i \in Slots : \/ Open(i) \/ OpenFails(i) \/ Close(i)
                       \/ Stage(i) \/ HandlerCloses(i)
  \/ \E s \in Sockets : DataEvent(s) \/ LostEvent(s)

Spec == Init /\ [][Next]_vars
-----------------------------------------------------------------------------
Session ==
  [ID : -1..LastID, socket : Sockets \cup {-1, 0}, status : SUBSET Bits,
   blocks : SUBSET ((0..LastID) \X Parts)]

VariablesOK ==
  /\ loaded \in BOOLEAN /\ misled \in BOOLEAN
  /\ slot \in [Slots -> Session]
  /\ nextSession \in 0..LastID + 1
  /\ connected \subseteq Sockets /\ open \subseteq Sockets
  /\ memory \subseteq (0..LastID) \X Parts
  /\ given \subseteq 0..LastID
  /\ place \in Places /\ victim \in Slots
FreeOK ==
  place = "idle" /\ ~misled =>
    \A i \in Free : slot[i].socket = -1 /\ slot[i].blocks = {}

(* The variables have their types, and between two SWIs a free slot holds
   nothing. *)
TypeOK == VariablesOK /\ FreeOK

(* An event for a socket is taken for the session that owns the socket, and for
   no other: a session that was ended keeps no number that has been given to
   another one meanwhile, and one that is being destroyed is out of reach before
   its memory goes.  Number 0 is excepted at the one place where the wiped slot
   answers to it (sessions.c:165), and so is what follows from an event there. *)
OwnerFound ==
  ~misled =>
    \A s \in connected :
      \/ s = 0 /\ place = "wiped"
      \/ \E i \in InUse :
           /\ WithSocket(s) = {i}
           /\ slot[i].blocks \subseteq memory
           /\ s \in open

(* Between two SWIs a session is in use for every ID the application has, and
   for no other; the memory and the sockets that exist are those of the sessions
   in use, and nothing is left when the module has gone: however far an Open
   came before it failed, and whichever event closed a socket on the way. *)
AllAccounted ==
  place = "idle" /\ ~misled =>
    /\ given = {slot[i].ID : i \in InUse}
    /\ memory = MemoryOf(InUse)
    /\ open = SocketsOf(InUse)
    /\ ~loaded => memory = {} /\ open = {}
=============================================================================
