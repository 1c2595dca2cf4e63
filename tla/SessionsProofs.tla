--------------------------- MODULE SessionsProofs ---------------------------
(***************************************************************************)
(* Proofs about module Sessions, for any number of slots, sockets and IDs. *)
(***************************************************************************)
EXTENDS Sessions, TLAPS

(* The slot that is being destroyed, and the one that has just been wiped. *)
Dying(i) == place # "idle" /\ i = victim
Gone(i) == place = "wiped" /\ i = victim

(* A module that is not loaded has nothing, and a SWI runs in a loaded one. *)
LoadedOK ==
  /\ ~loaded => /\ \A i \in Slots : slot[i] = Blank
                /\ memory = {} /\ open = {} /\ connected = {} /\ given = {}
  /\ place # "idle" => loaded

(* What sessionDestroy has done at each place. *)
VictimOK ==
  /\ place \in {"unwatched", "closed", "freed"} => slot[victim].ID # -1
  /\ place \in {"closed", "freed"} => slot[victim].socket = -1
  /\ place = "unwatched" => slot[victim].socket \notin connected
  /\ place = "wiped" => slot[victim].ID = 0 /\ slot[victim].socket = 0
                        /\ slot[victim].blocks = {} /\ slot[victim].status = {}

(* The open sockets are those of the slots, each of one slot only. *)
SocketsOwned ==
  /\ \A i \in Slots : ~Gone(i) /\ slot[i].socket # -1 => slot[i].socket \in open
  /\ \A i, j \in Slots :
       ~Gone(i) /\ ~Gone(j) /\ slot[i].socket = slot[j].socket /\ slot[i].socket # -1
         => i = j
  /\ \A s \in open : \E i \in Slots : ~Gone(i) /\ slot[i].socket = s
  /\ \A s \in connected : \E i \in Slots : ~Dying(i) /\ slot[i].socket = s

(* IDs are given out once, and a free slot has nothing. *)
IDsOwned ==
  /\ \A i \in Slots : ~Gone(i) => slot[i].ID < nextSession
  /\ \A i, j \in Slots :
       ~Gone(i) /\ ~Gone(j) /\ slot[i].ID = slot[j].ID /\ slot[i].ID # -1 => i = j
  /\ \A i \in Slots : slot[i].ID = -1 =>
       slot[i].socket = -1 /\ slot[i].blocks = {} /\ slot[i].status = {}
  /\ given = {slot[i].ID : i \in {j \in InUse : ~Dying(j)}}

(* The memory is that of the slots, but for the one that has been freed. *)
MemoryOwned ==
  /\ \A i \in Slots : \A b \in slot[i].blocks : b[1] = slot[i].ID
  /\ \A i \in Slots :
       ~(place = "freed" /\ i = victim) => slot[i].blocks \subseteq memory
  /\ \A b \in memory :
       \E i \in Slots : b \in slot[i].blocks /\ ~(place = "freed" /\ i = victim)

Owned == LoadedOK /\ VictimOK /\ SocketsOwned /\ IDsOwned /\ MemoryOwned

IInv == VariablesOK /\ (~misled => Owned)
-----------------------------------------------------------------------------
(* A free slot has its type. *)
LEMMA BlankTyped == Blank \in Session
  BY LastIDAssumption DEF Blank, Session

(* The initial states have their types and nothing is in use in them. *)
LEMMA InitOK == Init => IInv
  <1>1. Init => VariablesOK
    <2>1. Init => slot \in [Slots -> Session]
      BY BlankTyped DEF Init
    <2>2. Init => nextSession \in 0..LastID + 1
      BY LastIDAssumption DEF Init
    <2> QED  BY <2>1, <2>2 DEF Init, VariablesOK, Places
  <1>2. Init => LoadedOK /\ VictimOK
    BY DEF Init, LoadedOK, VictimOK
  <1>3. Init => SocketsOwned
    BY DEF Init, SocketsOwned, Blank, Gone, Dying
  <1>4. Init => IDsOwned
    BY DEF Init, IDsOwned, Blank, Gone, Dying, InUse
  <1>5. Init => MemoryOwned
    BY DEF Init, MemoryOwned, Blank
  <1> QED  BY <1>1, <1>2, <1>3, <1>4, <1>5 DEF IInv, Owned

(* socketClose keeps the types, whichever bits its caller adds. *)
LEMMA CloseTypes ==
  ASSUME VariablesOK, NEW i \in Slots, NEW more \in SUBSET Bits, CloseSocket(i, more)
  PROVE  /\ slot' \in [Slots -> Session]
         /\ connected' \subseteq connected /\ open' \subseteq open
  <1>1. slot[i] \in Session
    BY DEF VariablesOK
  <1>2. Closed(slot[i]) \in Session
    BY <1>1 DEF Closed, Session, Bits
  <1>3. [Closed(slot[i]) EXCEPT !.status = @ \cup more] \in Session
    BY <1>2 DEF Session
  <1>4. [slot[i] EXCEPT !.status = @ \cup more] \in Session
    BY <1>1 DEF Session
  <1> QED
    BY <1>3, <1>4 DEF CloseSocket, VariablesOK

(* Blocks have types. *)
LEMMA BlocksTyped ==
  ASSUME NEW id \in 0..LastID, NEW parts \in SUBSET Parts
  PROVE  BlocksOf(id, parts) \subseteq (0..LastID) \X Parts
  BY DEF BlocksOf

(* sessionCreate keeps the types. *)
LEMMA CreateTypes ==
  ASSUME VariablesOK, NEW i \in Slots, NEW parts \in SUBSET Parts,
         NEW status \in SUBSET Bits, Create(i, parts, status)
  PROVE  /\ slot' \in [Slots -> Session]
         /\ nextSession \in 0..LastID /\ nextSession' \in 0..LastID + 1
         /\ memory' \subseteq (0..LastID) \X Parts
  <1>1. nextSession \in 0..LastID
    BY LastIDAssumption DEF VariablesOK, Create
  <1>2. BlocksOf(nextSession, parts) \subseteq (0..LastID) \X Parts
    BY <1>1, BlocksTyped
  <1>3. slot[i] \in Session
    BY DEF VariablesOK
  <1>12. nextSession \in -1..LastID
    BY <1>1, LastIDAssumption
  <1>4. [slot[i] EXCEPT !.ID = nextSession, !.status = status,
                        !.blocks = BlocksOf(nextSession, parts)] \in Session
    BY <1>12, <1>2, <1>3 DEF Session
  <1>5. slot' \in [Slots -> Session]
    BY <1>4 DEF VariablesOK, Create
  <1> QED
    BY <1>1, <1>2, <1>5, LastIDAssumption DEF VariablesOK, Create

(* Every step keeps the types. *)
LEMMA TypesKept == VariablesOK /\ [Next]_vars => VariablesOK'
  <1> SUFFICES ASSUME VariablesOK, [Next]_vars  PROVE VariablesOK'
    OBVIOUS
  <1>1. CASE Initialise
    BY <1>1, LastIDAssumption, BlankTyped DEF Initialise, VariablesOK, held, control
  <1>2. CASE Finalise
    BY <1>2, BlankTyped DEF Finalise, VariablesOK, control
  <1>3. CASE DestroyClose
    BY <1>3, CloseTypes DEF DestroyClose, VariablesOK, Places
  <1>4. CASE DestroyFree
    BY <1>4 DEF DestroyFree, VariablesOK, Places
  <1>5. CASE DestroyWipe
    BY <1>5, LastIDAssumption DEF DestroyWipe, VariablesOK, Session, Places, held
  <1>6. CASE DestroyMark
    <2>1. slot[victim] \in Session
      BY DEF VariablesOK
    <2>2. -1 \in -1..LastID /\ -1 \in Sockets \cup {-1, 0}
      BY LastIDAssumption
    <2>3. [slot[victim] EXCEPT !.ID = -1, !.socket = -1] \in Session
      BY <2>1, <2>2 DEF Session
    <2> QED  BY <1>6, <2>3 DEF DestroyMark, VariablesOK, Places, held
  <1>7. ASSUME NEW i \in Slots, Open(i)  PROVE VariablesOK'
    <2>1. PICK parts \in SUBSET Parts : Create(i, parts, {"SETUP"})
      BY <1>7 DEF Open
    <2>2. {"SETUP"} \in SUBSET Bits
      BY DEF Bits
    <2> QED
      BY <1>7, <2>1, <2>2, CreateTypes DEF Open, Create, VariablesOK, control
  <1>8. ASSUME NEW i \in Slots, OpenFails(i)  PROVE VariablesOK'
    <2>1. PICK parts \in SUBSET Parts : Create(i, parts, {})
      BY <1>8 DEF OpenFails, Partial, Parts
    <2>2. {} \in SUBSET Bits
      OBVIOUS
    <2>3. /\ slot' \in [Slots -> Session] /\ nextSession' \in 0..LastID + 1
          /\ memory' \subseteq (0..LastID) \X Parts
      BY <2>1, <2>2, CreateTypes
    <2> QED
      BY <1>8, <2>1, <2>3 DEF OpenFails, Begin, Create, VariablesOK, Places
  <1>9. ASSUME NEW i \in Slots, Close(i)  PROVE VariablesOK'
    BY <1>9 DEF Close, Begin, VariablesOK, Places, held
  <1>10. ASSUME NEW i \in Slots, Stage(i)  PROVE VariablesOK'
    <2>1. slot[i] \in Session
      BY DEF VariablesOK
    <2>2. \A status \in SUBSET Bits : [slot[i] EXCEPT !.status = status] \in Session
      BY <2>1 DEF Session
    <2>3. \A status \in SUBSET Bits, s \in Sockets :
            [slot[i] EXCEPT !.socket = s, !.status = status] \in Session
      BY <2>1 DEF Session
    <2>4. {} \in SUBSET Bits /\ {"SETUP"} \in SUBSET Bits /\ {"CONNECTED"} \in SUBSET Bits
      BY DEF Bits
    <2>5. ASSUME NEW s \in Sockets, CreateSocket(i, s)  PROVE VariablesOK'
      <3>1. PICK status \in SUBSET Bits :
              slot' = [slot EXCEPT ![i] = [@ EXCEPT !.socket = s, !.status = status]]
        BY <2>4, <2>5 DEF CreateSocket
      <3>2. slot' \in [Slots -> Session]
        BY <2>3, <3>1 DEF VariablesOK
      <3> QED  BY <2>5, <3>2 DEF CreateSocket, VariablesOK, control
    <2>6. CASE Connect(i)
      BY <2>2, <2>4, <2>6 DEF Connect, VariablesOK, held, control
    <2>7. CASE Secure(i)
      BY <2>2, <2>4, <2>7 DEF Secure, VariablesOK, held, control
    <2>8. CASE StageFails(i)
      BY <2>2, <2>4, <2>8 DEF StageFails, VariablesOK, held, control
    <2> QED  BY <1>10, <2>5, <2>6, <2>7, <2>8 DEF Stage
  <1>11. ASSUME NEW i \in Slots, HandlerCloses(i)  PROVE VariablesOK'
    BY <1>11, CloseTypes DEF HandlerCloses, VariablesOK, control
  <1>12. ASSUME NEW s \in Sockets, DataEvent(s)  PROVE VariablesOK'
    BY <1>12 DEF DataEvent, FindsWiped, VariablesOK, held, control
  <1>13. ASSUME NEW s \in Sockets, LostEvent(s)  PROVE VariablesOK'
    <2>1. misled' \in BOOLEAN
      BY <1>13 DEF LostEvent, FindsWiped, VariablesOK
    <2>2. {"CONN_LOST"} \in SUBSET Bits
      BY DEF Bits
    <2>3. slot' \in [Slots -> Session] /\ connected' \subseteq connected /\ open' \subseteq open
      BY <1>13, <2>2, CloseTypes DEF LostEvent, VariablesOK
    <2> QED  BY <1>13, <2>1, <2>3 DEF LostEvent, VariablesOK, control
  <1>14. CASE UNCHANGED vars
    BY <1>14 DEF vars, held, control, VariablesOK
  <1> QED
    BY <1>1, <1>2, <1>3, <1>4, <1>5, <1>6, <1>7, <1>8, <1>9, <1>10, <1>11, <1>12,
       <1>13, <1>14
    DEF Next, Destroy
-----------------------------------------------------------------------------
(* A step that changes none of this keeps it. *)
LEMMA NothingChanges ==
  ASSUME Owned,
         UNCHANGED <<loaded, slot, nextSession, connected, memory, open, given, place, victim>>
  PROVE  Owned'
  BY DEF Owned, LoadedOK, VictimOK, SocketsOwned, IDsOwned, MemoryOwned, Gone, Dying, InUse

(* What socketClose does to the session and to the others. *)
LEMMA CloseEffect ==
  ASSUME VariablesOK, NEW i \in Slots, NEW more \in SUBSET Bits, CloseSocket(i, more)
  PROVE  /\ \A j \in Slots : j # i => slot'[j] = slot[j]
         /\ slot'[i].ID = slot[i].ID /\ slot'[i].blocks = slot[i].blocks
         /\ slot'[i].socket = -1
         /\ open' = open \ {slot[i].socket} /\ connected' = connected \ {slot[i].socket}
  <1>1. slot \in [Slots -> Session] /\ -1 \notin open /\ -1 \notin connected
    BY SocketsAssumption DEF VariablesOK
  <1>2. slot[i] \in Session
    BY <1>1
  <1>3. CASE slot[i].socket = -1
    BY <1>1, <1>2, <1>3 DEF CloseSocket, Session
  <1>4. CASE slot[i].socket # -1
    <2>1. slot' = [slot EXCEPT ![i] = [Closed(slot[i]) EXCEPT !.status = @ \cup more]]
      BY <1>4 DEF CloseSocket
    <2>2. slot'[i] = [Closed(slot[i]) EXCEPT !.status = @ \cup more]
      BY <1>1, <2>1
    <2>3. slot'[i].ID = slot[i].ID /\ slot'[i].blocks = slot[i].blocks /\ slot'[i].socket = -1
      BY <1>2, <2>2 DEF Closed, Session
    <2> QED  BY <1>1, <1>4, <2>1, <2>3 DEF CloseSocket
  <1> QED  BY <1>3, <1>4

(* socketClose of a session that is not wiped keeps the ownership. *)
LEMMA CloseOwned ==
  ASSUME VariablesOK, Owned, loaded, NEW i \in Slots, NEW more \in SUBSET Bits, ~Gone(i),
         slot[i].socket # -1, CloseSocket(i, more),
         UNCHANGED <<loaded, nextSession, memory, given, place, victim>>
  PROVE  Owned'
  <1> DEFINE Effect ==
        /\ \A j \in Slots : j # i => slot'[j] = slot[j]
        /\ slot'[i].ID = slot[i].ID /\ slot'[i].blocks = slot[i].blocks
        /\ slot'[i].socket = -1
        /\ open' = open \ {slot[i].socket} /\ connected' = connected \ {slot[i].socket}
  <1>1. Effect
    BY CloseEffect
  <1>2. -1 \notin open /\ -1 \notin connected
    BY SocketsAssumption DEF VariablesOK
  <1>3. LoadedOK'
    BY <1>1 DEF Owned, LoadedOK
  <1>4. VictimOK'
    BY <1>1, <1>2 DEF Owned, VictimOK, Gone, VariablesOK
  <1>5. SocketsOwned'
    BY <1>1, <1>2 DEF Owned, SocketsOwned, Gone, Dying
  <1>6. IDsOwned'
    BY <1>1 DEF Owned, IDsOwned, Gone, Dying, InUse
  <1>7. MemoryOwned'
    BY <1>1 DEF Owned, MemoryOwned
  <1> QED  BY <1>3, <1>4, <1>5, <1>6, <1>7 DEF Owned

(* initialise starts from nothing. *)
LEMMA StartOwned == VariablesOK /\ Owned /\ Initialise => Owned'
  <1> SUFFICES ASSUME VariablesOK, Owned, Initialise  PROVE Owned'
    OBVIOUS
  <1>1. place = "idle" /\ memory' = {} /\ open' = {} /\ connected' = {} /\ given' = {}
        /\ place' = "idle" /\ nextSession' = 0
    BY DEF Owned, LoadedOK, Initialise, held, control
  <1>2. \A i \in Slots : slot'[i] = Blank
    BY DEF Initialise
  <1>3. LoadedOK' /\ VictimOK'
    BY <1>1, <1>2 DEF LoadedOK, VictimOK
  <1>4. SocketsOwned'
    BY <1>1, <1>2 DEF SocketsOwned, Blank
  <1>5. IDsOwned'
    BY <1>1, <1>2 DEF IDsOwned, InUse, Blank
  <1>6. MemoryOwned'
    BY <1>1, <1>2 DEF MemoryOwned, Blank
  <1> QED  BY <1>3, <1>4, <1>5, <1>6 DEF Owned

(* finalise leaves nothing: all that is open or allocated is of a session in use. *)
LEMMA EndOwned == VariablesOK /\ Owned /\ Finalise => Owned'
  <1> SUFFICES ASSUME VariablesOK, Owned, Finalise  PROVE Owned'
    OBVIOUS
  <1>1. place = "idle" /\ place' = "idle" /\ connected' = {} /\ given' = {}
        /\ nextSession' \in Nat
    BY DEF Finalise, Idle, control, VariablesOK
  <1>2. \A i \in Slots : slot'[i] = Blank
    BY DEF Finalise
  <1>3. open \subseteq SocketsOf(InUse)
    <2>1. \A s \in open : s # -1
      BY SocketsAssumption DEF VariablesOK
    <2> QED
      BY <1>1, <2>1 DEF Owned, SocketsOwned, IDsOwned, SocketsOf, InUse, Gone
  <1>4. memory \subseteq MemoryOf(InUse)
    BY <1>1 DEF Owned, MemoryOwned, IDsOwned, MemoryOf, InUse
  <1>5. open' = {} /\ memory' = {}
    BY <1>3, <1>4 DEF Finalise
  <1>6. LoadedOK' /\ VictimOK'
    BY <1>1, <1>2, <1>5 DEF LoadedOK, VictimOK
  <1>7. SocketsOwned'
    BY <1>1, <1>2, <1>5 DEF SocketsOwned, Blank
  <1>8. IDsOwned'
    BY <1>1, <1>2 DEF IDsOwned, InUse, Blank
  <1>9. MemoryOwned'
    BY <1>2, <1>5 DEF MemoryOwned, Blank
  <1> QED  BY <1>6, <1>7, <1>8, <1>9 DEF Owned

(* What sessionCreate does, and that the block names it uses are new. *)
LEMMA CreateEffect ==
  ASSUME VariablesOK, Owned, NEW i \in Slots, NEW parts \in SUBSET Parts,
         NEW status \in SUBSET Bits, Create(i, parts, status)
  PROVE  /\ loaded /\ place = "idle"
         /\ slot[i].ID = -1 /\ slot[i].socket = -1 /\ slot[i].blocks = {}
         /\ \A j \in Slots : j # i => slot'[j] = slot[j]
         /\ slot'[i].ID = nextSession /\ slot'[i].socket = -1
         /\ slot'[i].blocks = BlocksOf(nextSession, parts)
         /\ memory' = memory \cup BlocksOf(nextSession, parts)
         /\ nextSession \in 0..LastID /\ nextSession' = nextSession + 1
         /\ loaded' = loaded /\ connected' = connected /\ open' = open
  <1>1. slot[i].ID = -1 /\ loaded /\ place = "idle"
    BY DEF Create, IsFirst, Free, Idle
  <1>2. slot[i].socket = -1 /\ slot[i].blocks = {}
    BY <1>1 DEF Owned, IDsOwned
  <1>3. nextSession \in 0..LastID
    BY LastIDAssumption DEF VariablesOK, Create
  <1>4. slot \in [Slots -> Session] /\ slot[i] \in Session
    BY DEF VariablesOK
  <1>5. slot' = [slot EXCEPT ![i] =
                  [slot[i] EXCEPT !.ID = nextSession, !.status = status,
                                  !.blocks = BlocksOf(nextSession, parts)]]
    BY <1>4 DEF Create
  <1>6. slot'[i] = [slot[i] EXCEPT !.ID = nextSession, !.status = status,
                                   !.blocks = BlocksOf(nextSession, parts)]
    BY <1>4, <1>5
  <1>7. slot'[i].ID = nextSession /\ slot'[i].socket = slot[i].socket
        /\ slot'[i].blocks = BlocksOf(nextSession, parts)
    BY <1>4, <1>6 DEF Session
  <1>8. \A j \in Slots : j # i => slot'[j] = slot[j]
    BY <1>4, <1>5
  <1> QED  BY <1>1, <1>2, <1>3, <1>7, <1>8 DEF Create

(* A session that could be created gets the next ID and new memory. *)
LEMMA OpenOwned ==
  ASSUME VariablesOK, Owned, NEW i \in Slots, Open(i)  PROVE Owned'
  <1>1. PICK parts \in SUBSET Parts : Create(i, parts, {"SETUP"})
    BY DEF Open
  <1>2. {"SETUP"} \in SUBSET Bits
    BY DEF Bits
  <1> DEFINE New == BlocksOf(nextSession, parts)
  <1> DEFINE Effect ==
        /\ loaded /\ place = "idle"
        /\ slot[i].ID = -1 /\ slot[i].socket = -1 /\ slot[i].blocks = {}
        /\ \A j \in Slots : j # i => slot'[j] = slot[j]
        /\ slot'[i].ID = nextSession /\ slot'[i].socket = -1
        /\ slot'[i].blocks = New /\ memory' = memory \cup New
        /\ nextSession \in 0..LastID /\ nextSession' = nextSession + 1
        /\ loaded' = loaded /\ connected' = connected /\ open' = open
        /\ place' = "idle" /\ given' = given \cup {nextSession}
  <1>3. Effect
    BY <1>1, <1>2, CreateEffect DEF Open, control
  <1>4. \A b \in New : b[1] = nextSession
    BY DEF BlocksOf
  <1>5. \A j \in Slots : slot[j].ID \in Int
    BY DEF VariablesOK, Session
  <1> HIDE DEF New
  <1>6. LoadedOK' /\ VictimOK'
    BY <1>3 DEF LoadedOK, VictimOK
  <1>7. SocketsOwned'
    BY <1>3 DEF Owned, SocketsOwned, Gone, Dying
  <1>8. IDsOwned'
    BY <1>3, <1>5 DEF Owned, IDsOwned, Gone, Dying, InUse
  <1>9. MemoryOwned'
    BY <1>3, <1>4 DEF Owned, MemoryOwned
  <1> QED  BY <1>6, <1>7, <1>8, <1>9 DEF Owned

(* One that could not is destroyed with what it has got. *)
LEMMA OpenFailsOwned ==
  ASSUME VariablesOK, Owned, NEW i \in Slots, OpenFails(i)  PROVE Owned'
  <1>1. PICK parts \in SUBSET Parts : Create(i, parts, {})
    BY DEF OpenFails, Partial, Parts
  <1> DEFINE New == BlocksOf(nextSession, parts)
  <1> DEFINE Effect ==
        /\ loaded /\ place = "idle"
        /\ slot[i].ID = -1 /\ slot[i].socket = -1 /\ slot[i].blocks = {}
        /\ \A j \in Slots : j # i => slot'[j] = slot[j]
        /\ slot'[i].ID = nextSession /\ slot'[i].socket = -1
        /\ slot'[i].blocks = New /\ memory' = memory \cup New
        /\ nextSession \in 0..LastID /\ nextSession' = nextSession + 1
        /\ loaded' = loaded /\ connected' = connected /\ open' = open
        /\ place' = "closed" /\ victim' = i /\ given' = given
  <1>2. {} \in SUBSET Bits
    OBVIOUS
  <1>3. Effect
    BY <1>1, <1>2, CreateEffect DEF OpenFails, Begin
  <1>4. \A b \in New : b[1] = nextSession
    BY DEF BlocksOf
  <1>5. \A j \in Slots : slot[j].ID \in Int
    BY DEF VariablesOK, Session
  <1>12. -1 \notin connected
    BY SocketsAssumption DEF VariablesOK
  <1> HIDE DEF New
  <1>6. LoadedOK' /\ VictimOK'
    BY <1>3 DEF LoadedOK, VictimOK
  <1>7. SocketsOwned'
    BY <1>3, <1>12 DEF Owned, SocketsOwned, Gone, Dying
  <1>8. IDsOwned'
    BY <1>3, <1>5 DEF Owned, IDsOwned, Gone, Dying, InUse
  <1>9. MemoryOwned'
    BY <1>3, <1>4 DEF Owned, MemoryOwned
  <1> QED  BY <1>6, <1>7, <1>8, <1>9 DEF Owned

(* BTTelnet_Close takes the session's ID and its socket out of reach. *)
LEMMA CloseSwiOwned ==
  ASSUME VariablesOK, Owned, NEW i \in Slots, Close(i)  PROVE Owned'
  <1> DEFINE Effect ==
        /\ loaded /\ place = "idle" /\ slot[i].ID \in given
        /\ place' = IF slot[i].socket # -1 THEN "unwatched" ELSE "closed"
        /\ victim' = i
        /\ connected' = connected \ {slot[i].socket}
        /\ given' = given \ {slot[i].ID}
        /\ UNCHANGED <<loaded, slot, nextSession, memory, open>>
  <1>1. Effect
    BY DEF Close, Idle, Begin, held
  <1>2. slot[i].ID # -1
    BY <1>1, LastIDAssumption DEF VariablesOK
  <1>3. LoadedOK'
    BY <1>1 DEF Owned, LoadedOK
  <1>4. VictimOK'
    BY <1>1, <1>2 DEF VictimOK
  <1>5. SocketsOwned'
    BY <1>1 DEF Owned, SocketsOwned, Gone, Dying
  <1>6. IDsOwned'
    BY <1>1, <1>2 DEF Owned, IDsOwned, Gone, Dying, InUse
  <1>7. MemoryOwned'
    BY <1>1 DEF Owned, MemoryOwned
  <1> QED  BY <1>3, <1>4, <1>5, <1>6, <1>7 DEF Owned
-----------------------------------------------------------------------------
(* sessionDestroy closes the socket first. *)
LEMMA DestroyCloseOwned == VariablesOK /\ Owned /\ DestroyClose => Owned'
  <1> SUFFICES ASSUME VariablesOK, Owned, DestroyClose  PROVE Owned'
    OBVIOUS
  <1> DEFINE i == victim
  <1> DEFINE Effect ==
        /\ \A j \in Slots : j # i => slot'[j] = slot[j]
        /\ slot'[i].ID = slot[i].ID /\ slot'[i].blocks = slot[i].blocks
        /\ slot'[i].socket = -1
        /\ open' = open \ {slot[i].socket} /\ connected' = connected \ {slot[i].socket}
        /\ place = "unwatched" /\ place' = "closed"
        /\ UNCHANGED <<loaded, nextSession, memory, given, victim>>
  <1>1. victim \in Slots /\ {} \in SUBSET Bits
    BY DEF VariablesOK
  <1>2. Effect
    BY <1>1, CloseEffect DEF DestroyClose
  <1>3. -1 \notin open /\ -1 \notin connected
    BY SocketsAssumption DEF VariablesOK
  <1>4. LoadedOK'
    BY <1>2 DEF Owned, LoadedOK
  <1>5. VictimOK'
    BY <1>2 DEF Owned, VictimOK
  <1>6. SocketsOwned'
    BY <1>1, <1>2, <1>3 DEF Owned, SocketsOwned, Gone, Dying
  <1>12. slot[i].ID # -1
    BY <1>2 DEF Owned, VictimOK
  <1>7. IDsOwned'
    BY <1>1, <1>2, <1>12 DEF Owned, IDsOwned, Gone, Dying, InUse
  <1>8. MemoryOwned'
    BY <1>1, <1>2 DEF Owned, MemoryOwned
  <1> QED  BY <1>4, <1>5, <1>6, <1>7, <1>8 DEF Owned

(* Its memory goes when no event can find it any more. *)
LEMMA DestroyFreeOwned == VariablesOK /\ Owned /\ DestroyFree => Owned'
  <1> SUFFICES ASSUME VariablesOK, Owned, DestroyFree  PROVE Owned'
    OBVIOUS
  <1>1. /\ place = "closed" /\ place' = "freed" /\ victim \in Slots
        /\ memory' = memory \ slot[victim].blocks
        /\ UNCHANGED <<loaded, slot, nextSession, connected, open, given, victim>>
    BY DEF DestroyFree, VariablesOK
  <1>2. LoadedOK' /\ VictimOK'
    BY <1>1 DEF Owned, LoadedOK, VictimOK
  <1>3. SocketsOwned'
    BY <1>1 DEF Owned, SocketsOwned, Gone, Dying
  <1>4. IDsOwned'
    BY <1>1 DEF Owned, IDsOwned, Gone, Dying, InUse
  <1>5. \A j \in Slots : j # victim => slot[j].blocks \cap slot[victim].blocks = {}
    BY <1>1 DEF Owned, IDsOwned, MemoryOwned, Gone
  <1>6. MemoryOwned'
    BY <1>1, <1>5 DEF Owned, MemoryOwned
  <1> QED  BY <1>2, <1>3, <1>4, <1>6 DEF Owned

(* The wiped slot has nothing; only its numbers are wrong. *)
LEMMA DestroyWipeOwned == VariablesOK /\ Owned /\ DestroyWipe => Owned'
  <1> SUFFICES ASSUME VariablesOK, Owned, DestroyWipe  PROVE Owned'
    OBVIOUS
  <1>1. /\ place = "freed" /\ place' = "wiped" /\ victim \in Slots
        /\ UNCHANGED <<loaded, nextSession, connected, memory, open, given, victim>>
    BY DEF DestroyWipe, VariablesOK, held
  <1>2. /\ slot'[victim] = [ID |-> 0, socket |-> 0, status |-> {}, blocks |-> {}]
        /\ \A j \in Slots : j # victim => slot'[j] = slot[j]
    BY <1>1 DEF DestroyWipe, VariablesOK
  <1>3. -1 \notin open /\ slot[victim].socket = -1
    BY <1>1, SocketsAssumption DEF VariablesOK, Owned, VictimOK
  <1>4. LoadedOK' /\ VictimOK'
    BY <1>1, <1>2 DEF Owned, LoadedOK, VictimOK
  <1>5. SocketsOwned'
    BY <1>1, <1>2, <1>3 DEF Owned, SocketsOwned, Gone, Dying
  <1>6. IDsOwned'
    BY <1>1, <1>2 DEF Owned, IDsOwned, Gone, Dying, InUse
  <1>7. MemoryOwned'
    BY <1>1, <1>2 DEF Owned, MemoryOwned
  <1> QED  BY <1>4, <1>5, <1>6, <1>7 DEF Owned

(* The slot is free again. *)
LEMMA DestroyMarkOwned == VariablesOK /\ Owned /\ DestroyMark => Owned'
  <1> SUFFICES ASSUME VariablesOK, Owned, DestroyMark  PROVE Owned'
    OBVIOUS
  <1>1. /\ place = "wiped" /\ place' = "idle" /\ victim \in Slots
        /\ UNCHANGED <<loaded, nextSession, connected, memory, open, given, victim>>
    BY DEF DestroyMark, VariablesOK, held
  <1>2. \A j \in Slots : j # victim => slot'[j] = slot[j]
    BY <1>1 DEF DestroyMark, VariablesOK
  <1>3. slot[victim] \in Session /\ slot[victim].blocks = {} /\ slot[victim].status = {}
    BY <1>1 DEF VariablesOK, Owned, VictimOK
  <1>4. slot'[victim] = [slot[victim] EXCEPT !.ID = -1, !.socket = -1]
    BY <1>1 DEF DestroyMark, VariablesOK
  <1>5. slot'[victim].ID = -1 /\ slot'[victim].socket = -1 /\ slot'[victim].blocks = {}
        /\ slot'[victim].status = {}
    BY <1>3, <1>4 DEF Session
  <1>6. nextSession \in Nat
    BY LastIDAssumption DEF VariablesOK
  <1>7. LoadedOK' /\ VictimOK'
    BY <1>1 DEF Owned, LoadedOK, VictimOK
  <1>8. SocketsOwned'
    BY <1>1, <1>2, <1>5 DEF Owned, SocketsOwned, Gone, Dying
  <1>9. IDsOwned'
    BY <1>1, <1>2, <1>5, <1>6 DEF Owned, IDsOwned, Gone, Dying, InUse
  <1>10. MemoryOwned'
    BY <1>1, <1>2, <1>3, <1>5 DEF Owned, MemoryOwned
  <1> QED  BY <1>7, <1>8, <1>9, <1>10 DEF Owned

-----------------------------------------------------------------------------
(* A stage that changes the bits of a session only, and may watch its socket. *)
LEMMA StatusOwned ==
  ASSUME VariablesOK, Owned, Idle, NEW i \in Slots, NEW status \in SUBSET Bits,
         slot[i].status # {},
         slot' = [slot EXCEPT ![i].status = status],
         connected' = connected \/ (slot[i].socket \in Sockets
                                    /\ connected' = connected \cup {slot[i].socket}),
         UNCHANGED <<loaded, nextSession, memory, open, given, place, victim>>
  PROVE  Owned'
  <1>1. loaded /\ place = "idle" /\ place' = "idle"
    BY DEF Idle
  <1>2. slot[i] \in Session
    BY DEF VariablesOK
  <1>3. \A j \in Slots : slot'[j].ID = slot[j].ID /\ slot'[j].socket = slot[j].socket
                         /\ slot'[j].blocks = slot[j].blocks
                         /\ j # i => slot'[j] = slot[j]
    BY <1>2 DEF VariablesOK, Session
  <1>4. LoadedOK' /\ VictimOK'
    BY <1>1 DEF LoadedOK, VictimOK
  <1>5. SocketsOwned'
    BY <1>1, <1>3 DEF Owned, SocketsOwned, Gone, Dying
  <1>6. IDsOwned'
    BY <1>1, <1>3 DEF Owned, IDsOwned, Gone, Dying, InUse
  <1>7. MemoryOwned'
    BY <1>1, <1>3 DEF Owned, MemoryOwned
  <1> QED  BY <1>4, <1>5, <1>6, <1>7 DEF Owned

(* A new socket is of its session only. *)
LEMMA CreateSocketOwned ==
  ASSUME VariablesOK, Owned, NEW i \in Slots, NEW s \in Sockets, CreateSocket(i, s)
  PROVE  Owned'
  <1>1. /\ loaded /\ place = "idle" /\ place' = "idle" /\ slot[i].socket = -1 /\ s \notin open
        /\ open' = open \cup {s} /\ s # -1 /\ "SETUP" \in slot[i].status
        /\ UNCHANGED <<loaded, nextSession, connected, memory, given, victim>>
    BY SocketsAssumption DEF CreateSocket, InStage, Idle, control
  <1>2. slot \in [Slots -> Session] /\ slot[i] \in Session
    BY DEF VariablesOK
  <1>3. PICK status : slot' = [slot EXCEPT ![i] = [slot[i] EXCEPT !.socket = s, !.status = status]]
    BY <1>2 DEF CreateSocket
  <1>4. \A j \in Slots : j # i => slot'[j] = slot[j]
    BY <1>2, <1>3
  <1>5. slot'[i].ID = slot[i].ID /\ slot'[i].blocks = slot[i].blocks /\ slot'[i].socket = s
    BY <1>2, <1>3 DEF Session
  <1>6. LoadedOK' /\ VictimOK'
    BY <1>1 DEF LoadedOK, VictimOK
  <1>12. -1 \notin open /\ -1 \notin connected
    BY SocketsAssumption DEF VariablesOK
  <1>7. SocketsOwned'
    BY <1>1, <1>4, <1>5, <1>12 DEF Owned, SocketsOwned, Gone, Dying
  <1>8. slot[i].ID # -1
    BY <1>1 DEF Owned, IDsOwned
  <1>9. IDsOwned'
    BY <1>1, <1>4, <1>5, <1>8 DEF Owned, IDsOwned, Gone, Dying, InUse
  <1>10. MemoryOwned'
    BY <1>1, <1>4, <1>5 DEF Owned, MemoryOwned
  <1> QED  BY <1>6, <1>7, <1>9, <1>10 DEF Owned

(* The stages of the set-up. *)
LEMMA StageOwned ==
  ASSUME VariablesOK, Owned, NEW i \in Slots, Stage(i)  PROVE Owned'
  <1>1. {} \in SUBSET Bits /\ {"SETUP"} \in SUBSET Bits /\ {"CONNECTED"} \in SUBSET Bits
    BY DEF Bits
  <1>2. ASSUME NEW s \in Sockets, CreateSocket(i, s)  PROVE Owned'
    BY <1>2, CreateSocketOwned
  <1>3. CASE Connect(i)
    <2>1. PICK status \in SUBSET Bits : slot' = [slot EXCEPT ![i].status = status]
      BY <1>1, <1>3 DEF Connect
    <2> QED  BY <1>3, <2>1, StatusOwned DEF Connect, InStage, held, control
  <1>4. CASE Secure(i)
    <2>1. PICK status \in SUBSET Bits : slot' = [slot EXCEPT ![i].status = status]
      BY <1>1, <1>4 DEF Secure
    <2> QED  BY <1>4, <2>1, StatusOwned DEF Secure, InStage, held, control
  <1>5. CASE StageFails(i)
    BY <1>1, <1>5, StatusOwned DEF StageFails, InStage, held, control
  <1> QED  BY <1>2, <1>3, <1>4, <1>5 DEF Stage

(* The callback handler closes connected sessions only. *)
LEMMA HandlerOwned ==
  ASSUME VariablesOK, Owned, NEW i \in Slots, HandlerCloses(i)  PROVE Owned'
  <1>1. ~Gone(i)
    BY DEF HandlerCloses, Owned, VictimOK, Gone
  <1>2. slot[i].socket # -1
    BY SocketsAssumption DEF HandlerCloses, VariablesOK
  <1>3. {} \in SUBSET Bits
    OBVIOUS
  <1> QED  BY <1>1, <1>2, <1>3, CloseOwned DEF HandlerCloses, control

(* An event reaches the owner of its socket, which is not the wiped slot. *)
LEMMA EventOwned ==
  ASSUME VariablesOK, Owned, NEW s \in Sockets, DataEvent(s) \/ LostEvent(s), ~misled'
  PROVE  Owned'
  <1>1. WithSocket(s) # {}
    BY DEF DataEvent, LostEvent, Owned, SocketsOwned, WithSocket
  <1>2. ~FindsWiped(s)
    BY <1>1 DEF DataEvent, LostEvent
  <1>3. CASE DataEvent(s)
    BY <1>1, <1>3, NothingChanges DEF DataEvent, held, control
  <1>4. CASE LostEvent(s)
    <2>1. PICK i \in Slots : IsFirst(i, WithSocket(s)) /\ CloseSocket(i, {"CONN_LOST"})
      BY <1>1, <1>4 DEF LostEvent
    <2>2. ~Gone(i)
      BY <1>2, <2>1 DEF FindsWiped, Gone
    <2>3. slot[i].socket # -1
      BY <2>1, SocketsAssumption DEF IsFirst, WithSocket
    <2>4. {"CONN_LOST"} \in SUBSET Bits
      BY DEF Bits
    <2> QED  BY <1>4, <2>1, <2>2, <2>3, <2>4, CloseOwned DEF LostEvent, control
  <1> QED  BY <1>3, <1>4

(* The invariant is inductive. *)
LEMMA StepOK == IInv /\ [Next]_vars => IInv'
  <1> SUFFICES ASSUME IInv, [Next]_vars, ~misled'  PROVE Owned'
    BY TypesKept DEF IInv
  <1>1. VariablesOK
    BY DEF IInv
  <1>2. ~misled
    BY DEF Next, vars, Initialise, Finalise, Destroy, DestroyClose, DestroyFree,
           DestroyWipe, DestroyMark, Open, Create, OpenFails, Close, Stage, CreateSocket,
           Connect, Secure, StageFails, HandlerCloses, DataEvent, LostEvent
  <1>3. Owned
    BY <1>2 DEF IInv
  <1>4. CASE UNCHANGED vars
    BY <1>3, <1>4, NothingChanges DEF vars, held, control
  <1>5. CASE Initialise \/ Finalise \/ Destroy
    BY <1>1, <1>3, <1>5, StartOwned, EndOwned, DestroyCloseOwned, DestroyFreeOwned,
       DestroyWipeOwned, DestroyMarkOwned DEF Destroy
  <1>6. ASSUME NEW i \in Slots, Open(i) \/ OpenFails(i) \/ Close(i)  PROVE Owned'
    BY <1>1, <1>3, <1>6, OpenOwned, OpenFailsOwned, CloseSwiOwned
  <1>7. ASSUME NEW i \in Slots, Stage(i) \/ HandlerCloses(i)  PROVE Owned'
    BY <1>1, <1>3, <1>7, StageOwned, HandlerOwned
  <1>8. ASSUME NEW s \in Sockets, DataEvent(s) \/ LostEvent(s)  PROVE Owned'
    BY <1>1, <1>3, <1>8, EventOwned
  <1> QED  BY <1>4, <1>5, <1>6, <1>7, <1>8 DEF Next
-----------------------------------------------------------------------------
(* The types, and that free slots hold nothing, in every reachable state. *)
THEOREM SessionsTypeCorrect == Spec => []TypeOK
  <1>1. IInv => TypeOK
    BY DEF IInv, TypeOK, FreeOK, Free, Owned, IDsOwned
  <1> QED  BY <1>1, InitOK, StepOK, PTL DEF Spec

(* Events find the owner of their socket, with its memory, whichever sessions
   are opened, closed, lost or destroyed around it. *)
THEOREM SessionsOwnerFound == Spec => []OwnerFound
  <1>1. IInv => OwnerFound
    <2> SUFFICES ASSUME VariablesOK, Owned, NEW s \in connected,
                        ~(s = 0 /\ place = "wiped")
                 PROVE  \E i \in InUse : /\ WithSocket(s) = {i}
                                        /\ slot[i].blocks \subseteq memory
                                        /\ s \in open
      BY DEF IInv, OwnerFound
    <2>1. PICK i \in Slots : ~Dying(i) /\ slot[i].socket = s
      BY DEF Owned, SocketsOwned
    <2>2. s # -1
      BY SocketsAssumption DEF VariablesOK
    <2>3. i \in InUse
      BY <2>1, <2>2 DEF Owned, IDsOwned, InUse
    <2>4. s \in open /\ slot[i].blocks \subseteq memory
      BY <2>1, <2>2 DEF Owned, SocketsOwned, MemoryOwned, Dying, Gone
    <2>5. \A j \in Slots : slot[j].socket = s => j = i
      BY <2>1, <2>2 DEF Owned, SocketsOwned, VictimOK, Dying, Gone
    <2> QED  BY <2>1, <2>3, <2>4, <2>5 DEF WithSocket
  <1> QED  BY <1>1, InitOK, StepOK, PTL DEF Spec

(* IDs, memory and sockets are accounted for between two SWIs. *)
THEOREM SessionsAllAccounted == Spec => []AllAccounted
  <1>1. IInv => AllAccounted
    <2> SUFFICES ASSUME VariablesOK, Owned, place = "idle"
                 PROVE  /\ given = {slot[i].ID : i \in InUse}
                        /\ memory = MemoryOf(InUse)
                        /\ open = SocketsOf(InUse)
                        /\ ~loaded => memory = {} /\ open = {}
      BY DEF IInv, AllAccounted
    <2>1. given = {slot[i].ID : i \in InUse}
      BY DEF Owned, IDsOwned, Dying
    <2>2. memory = MemoryOf(InUse)
      BY DEF Owned, IDsOwned, MemoryOwned, MemoryOf, InUse
    <2>3. -1 \notin open
      BY SocketsAssumption DEF VariablesOK
    <2>4. open = SocketsOf(InUse)
      BY <2>3 DEF Owned, IDsOwned, SocketsOwned, SocketsOf, InUse, Gone
    <2> QED  BY <2>1, <2>2, <2>4 DEF Owned, LoadedOK
  <1> QED  BY <1>1, InitOK, StepOK, PTL DEF Spec
=============================================================================
