-------------------------- MODULE ConnectionProofs --------------------------
(***************************************************************************)
(* Theorems about module Connection, for any bound on SSL contexts and     *)
(* with or without connections that break.                                 *)
(***************************************************************************)
EXTENDS Connection, TLAPS

(* What the place in socketUpdate says of the bits; a session has ended when its
   socket is closed. *)
PlaceOK ==
  /\ "FINISHED" \in status => ~socket
  /\ pc # "idle" => open
  /\ pc \in Setup => pc \in status
  /\ pc \in {"joined", "createdSSL", "connectedSSL"}
       => status \cap (Setup \cup {"CONNECTED"}) = {}
  /\ pc \in {"createdSSL", "connectedSSL"} /\ socket => watched
  /\ pc = "greet" => status \cap Setup = {}
  /\ pc = "greet" /\ socket => "CONNECTED" \in status
  /\ pc = "greet" /\ "RAW" \notin flags
       => "NEGOTIATING" \in status /\ unanswered = 0

(* Until the connection stands there are no events and so no end. *)
Before == \/ status \cap {"RESOLVING", "CREATING", "CONNECTING"} # {}
          \/ pc = "joined"
BeforeOK ==
  /\ Before => ~watched /\ "FINISHED" \notin status
  /\ status \cap {"RESOLVING", "CREATING"} # {} => ~socket

(* The parts of the invariant: counters, types, stages, and what is promised. *)
LinkOK == (watched => socket) /\ (ssl => handles # 0)
Numbers == CountsOK /\ LinkOK
Typed    == SwitchesOK /\ BitsOK /\ UnusedOK
Staged   == PlaceOK /\ BeforeOK /\ OneStage
Promised == ForceSsl /\ NegotiationTrue /\ SslOptional /\ EventsSeen

IInv == Numbers /\ Typed /\ Staged /\ Promised

(* An SSL context given back was held. *)
LEMMA HandlesBound ==
  ASSUME Numbers, SwitchesOK, handles' = IF Disconnects THEN handles - 1 ELSE handles
  PROVE  /\ handles \in Nat
         /\ handles' \in 0..MaxHandles
         /\ ~Disconnects => handles' = handles
  BY MaxHandlesAssumption DEF Numbers, SwitchesOK, CountsOK, LinkOK, Disconnects

LEMMA IInvInit == Init => IInv
  <1> SUFFICES ASSUME Init PROVE IInv
    OBVIOUS
  <1>1. Numbers
    BY MaxHandlesAssumption DEF Init, Numbers, CountsOK, LinkOK
  <1>2. Typed /\ Staged /\ Promised
    BY DEF Init, Typed, Staged, Promised, SwitchesOK, BitsOK, UnusedOK, PlaceOK, Before,
           BeforeOK, ForceSsl, OneStage, NegotiationTrue, SslOptional, EventsSeen, Idle, Setup,
           Places, Answers
  <1> QED
    BY <1>1, <1>2 DEF IInv

LEMMA IInvNext == IInv /\ [Next]_vars => IInv'
  <1> SUFFICES ASSUME IInv, [Next]_vars PROVE IInv'
    OBVIOUS
  <1> USE MaxHandlesAssumption
      DEF IInv, Numbers, Typed, Staged, Promised, SwitchesOK, BitsOK, CountsOK, UnusedOK,
          PlaceOK, Before, BeforeOK, LinkOK, ForceSsl, OneStage,
          NegotiationTrue, SslOptional, EventsSeen, Idle, Flags, Bits, Setup, Ends,
          Places, Behind, Answers, link, control, Return, Goto
  <1>1. CASE AppClose
    <2>1. Numbers'
      BY <1>1, HandlesBound DEF AppClose, Destroy, Disconnects
    <2>2. Typed'
      BY <1>1 DEF AppClose, Destroy, Disconnects
    <2>3. Staged'
      BY <1>1 DEF AppClose, Destroy, Disconnects
    <2>4. Promised'
      BY <1>1 DEF AppClose, Destroy, Disconnects
    <2> QED
      BY <2>1, <2>2, <2>3, <2>4
  <1>2. CASE StatusFinished \/ StatusOnly
    <2>1. Numbers'
      BY <1>2 DEF StatusFinished, StatusOnly
    <2>2. Typed'
      BY <1>2 DEF StatusFinished, StatusOnly
    <2>3. Staged'
      BY <1>2 DEF StatusFinished, StatusOnly
    <2>4. Promised'
      BY <1>2 DEF StatusFinished, StatusOnly
    <2> QED
      BY <2>1, <2>2, <2>3, <2>4
  <1>3. ASSUME NEW stage \in Setup, StatusUpdate(stage) PROVE IInv'
    BY <1>3 DEF StatusUpdate
  <1>4. ASSUME NEW f \in SUBSET Flags, Open(f) PROVE IInv'
    BY <1>4 DEF Open
  <1>5. CASE ResolveDone
    BY <1>5 DEF ResolveDone
  <1>6. CASE ResolveBlocks
    BY <1>6 DEF ResolveBlocks
  <1>7. CASE ResolveFails
    <2>1. CASE opening
      <3>1. Numbers'
        BY <1>7, <2>1, HandlesBound DEF ResolveFails, Destroy
      <3>2. Typed'
        BY <1>7, <2>1 DEF ResolveFails, Destroy
      <3>3. Staged'
        BY <1>7, <2>1 DEF ResolveFails, Destroy
      <3>4. Promised'
        BY <1>7, <2>1 DEF ResolveFails, Destroy
      <3> QED
        BY <3>1, <3>2, <3>3, <3>4
    <2>2. CASE ~opening
      <3>1. /\ pc = "RESOLVING" /\ status' = status \ {"RESOLVING"}
            /\ Return("error")
            /\ UNCHANGED <<open, flags, link, unanswered>>
        BY <1>7, <2>2, Zenon DEF ResolveFails
      <3> QED
        BY <3>1
    <2> QED
      BY <2>1, <2>2
  <1>8. CASE CreateDone
    <2>1. Numbers'
      BY <1>8 DEF CreateDone
    <2>2. Typed'
      BY <1>8 DEF CreateDone
    <2>3. Staged'
      BY <1>8 DEF CreateDone
    <2>4. Promised'
      BY <1>8 DEF CreateDone
    <2> QED
      BY <2>1, <2>2, <2>3, <2>4
  <1>9. CASE CreateFails
    <2>1. Numbers'
      BY <1>9 DEF CreateFails
    <2>2. Typed'
      BY <1>9 DEF CreateFails
    <2>3. Staged'
      BY <1>9 DEF CreateFails
    <2>4. Promised'
      BY <1>9 DEF CreateFails
    <2> QED
      BY <2>1, <2>2, <2>3, <2>4
  <1>10. CASE ConnectDone
    BY <1>10 DEF ConnectDone
  <1>11. CASE ConnectBlocks
    BY <1>11 DEF ConnectBlocks
  <1>12. CASE ConnectFails
    BY <1>12 DEF ConnectFails
  <1>13. CASE JoinFails
    BY <1>13 DEF JoinFails
  <1>14. CASE JoinForced
    BY <1>14 DEF JoinForced
  <1>15. CASE Join
    BY <1>15 DEF Join, Enter
  <1>16. CASE Greet
    <2>1. Numbers'
      BY <1>16 DEF Greet
    <2>2. Typed'
      BY <1>16 DEF Greet
    <2>3. Staged'
      BY <1>16 DEF Greet
    <2>4. Promised'
      BY <1>16 DEF Greet
    <2> QED
      BY <2>1, <2>2, <2>3, <2>4
  <1>17. CASE SslAborts
    BY <1>17 DEF SslAborts
  <1>18. CASE CreateSSL
    <2>1. Numbers'
      BY <1>18 DEF CreateSSL
    <2>2. Typed'
      BY <1>18 DEF CreateSSL
    <2>3. Staged'
      BY <1>18 DEF CreateSSL
    <2>4. Promised'
      BY <1>18 DEF CreateSSL
    <2> QED
      BY <2>1, <2>2, <2>3, <2>4
  <1>19. CASE CreatedSSL
    BY <1>19 DEF CreatedSSL
  <1>20. ASSUME NEW what \in Answers, ConnectSSL(what) PROVE IInv'
    BY <1>20 DEF ConnectSSL
  <1>21. CASE ConnectedSSLBlocked
    BY <1>21 DEF ConnectedSSLBlocked
  <1>22. CASE ConnectedSSL
    BY <1>22 DEF ConnectedSSL, Enter
  <1>23. CASE SslRefused
    BY <1>23 DEF SslRefused
  <1>24. CASE FallBack
    BY <1>24 DEF FallBack, Enter
  <1>25. CASE Data
    BY <1>25 DEF Data, Serving
  <1>26. CASE Accept
    BY <1>26 DEF Accept, Serving
  <1>27. CASE HandlerCloses
    <2>1. Numbers'
      BY <1>27, HandlesBound DEF HandlerCloses, Serving, Close, ClosedStatus, Disconnects
    <2>2. Typed'
      BY <1>27 DEF HandlerCloses, Serving, Close, ClosedStatus, Disconnects
    <2>3. Staged'
      BY <1>27 DEF HandlerCloses, Serving, Close, ClosedStatus, Disconnects
    <2>4. Promised'
      BY <1>27 DEF HandlerCloses, Serving, Close, ClosedStatus, Disconnects
    <2> QED
      BY <2>1, <2>2, <2>3, <2>4
  <1>28. CASE PeerBreaks
    <2>1. CASE watched
      <3>1. Numbers'
        BY <1>28, <2>1, HandlesBound DEF PeerBreaks, Close, ClosedStatus, Disconnects
      <3>2. Typed'
        BY <1>28, <2>1 DEF PeerBreaks, Close, ClosedStatus, Disconnects
      <3>3. Staged'
        BY <1>28, <2>1 DEF PeerBreaks, Close, ClosedStatus, Disconnects
      <3>4. Promised'
        BY <1>28, <2>1 DEF PeerBreaks, Close, ClosedStatus, Disconnects
      <3> QED
        BY <3>1, <3>2, <3>3, <3>4
    <2>2. CASE ~watched
      <3>1. /\ alive' = FALSE
            /\ UNCHANGED <<open, flags, status, socket, watched, ssl, handles,
                           unanswered, control>>
        BY <1>28, <2>2, Zenon DEF PeerBreaks
      <3>2. Numbers' /\ Typed'
        BY <3>1
      <3>3. Staged' /\ Promised'
        BY <3>1
      <3> QED
        BY <3>2, <3>3
    <2> QED
      BY <2>1, <2>2
  <1>29. CASE UNCHANGED vars
    BY <1>29 DEF vars
  <1> QED
    BY <1>1, <1>2, <1>3, <1>4, <1>5, <1>6, <1>7, <1>8, <1>9, <1>10, <1>11, <1>12,
       <1>13, <1>14, <1>15, <1>16, <1>17, <1>18, <1>19, <1>20, <1>21, <1>22, <1>23,
       <1>24, <1>25, <1>26, <1>27, <1>28, <1>29
       DEF Next, Application, Status, Update, Resolve, Create, Connect, Joined,
           Secure, Served

LEMMA AlwaysIInv == Spec => []IInv
  BY IInvInit, IInvNext, PTL DEF Spec
-----------------------------------------------------------------------------
(* The variables keep their types: no SSL context is given back that was not
   taken, and a session that is not in use has no socket and no context. *)
THEOREM ConnectionTypeCorrect == Spec => []TypeOK
  <1>1. IInv => TypeOK
    BY DEF IInv, Numbers, Typed, TypeOK
  <1> QED
    BY <1>1, AlwaysIInv, PTL

(* "Only use SSL" is kept: whatever fails, falls back or breaks under
   socketUpdate, a FORCE_SSL session is never connected in clear; and failing
   SSL does not cost a session its connection unless it is forced. *)
THEOREM ConnectionSslAsAsked == Spec => []SslAsAsked
  <1>1. IInv => SslAsAsked
    BY DEF IInv, Promised, SslAsAsked
  <1> QED
    BY <1>1, AlwaysIInv, PTL

(* A session is in one stage at a time. *)
THEOREM ConnectionOneStage == Spec => []OneStage
  <1>1. IInv => OneStage
    BY DEF IInv, Staged
  <1> QED
    BY <1>1, AlwaysIInv, PTL

(* NEGOTIATING tells the truth, and no greeting is sent twice. *)
THEOREM ConnectionNegotiationTrue == Spec => []NegotiationTrue
  <1>1. IInv => NegotiationTrue
    BY DEF IInv, Promised
  <1> QED
    BY <1>1, AlwaysIInv, PTL

(* The events of connected sockets are looked at. *)
THEOREM ConnectionEventsSeen == Spec => []EventsSeen
  <1>1. IInv => EventsSeen
    BY DEF IInv, Promised
  <1> QED
    BY <1>1, AlwaysIInv, PTL
-----------------------------------------------------------------------------
(* The refinement: the phase of a session follows from its bits and the place
   in socketUpdate, and no step takes it out of the order of Lifecycle. *)
LEMMA PhaseInit == Init => Life!Init
  BY DEF Init, Life!Init, phase

LEMMA PhaseNext == IInv /\ [Next]_vars => [Life!Next]_phase
  <1> SUFFICES ASSUME IInv, [Next]_vars PROVE [Life!Next]_phase
    OBVIOUS
  <1> USE DEF Life!Next, Life!After, phase, IInv, Typed, Staged, UnusedOK, BitsOK,
              SwitchesOK, PlaceOK, Before, BeforeOK, OneStage, Idle, Setup, link,
              control, Return, Goto
  <1>1. CASE AppClose
    BY <1>1 DEF AppClose, Destroy
  <1>2. CASE StatusFinished \/ StatusOnly
    BY <1>2 DEF StatusFinished, StatusOnly
  <1>3. ASSUME NEW stage \in Setup, StatusUpdate(stage) PROVE [Life!Next]_phase
    BY <1>3 DEF StatusUpdate
  <1>4. ASSUME NEW f \in SUBSET Flags, Open(f) PROVE [Life!Next]_phase
    BY <1>4 DEF Open
  <1>5. CASE Resolve
    BY <1>5 DEF Resolve, ResolveDone, ResolveBlocks, ResolveFails, Destroy
  <1>6. CASE Create
    BY <1>6 DEF Create, CreateDone, CreateFails
  <1>7. CASE Connect
    BY <1>7 DEF Connect, ConnectDone, ConnectBlocks, ConnectFails
  <1>8. CASE Joined
    BY <1>8 DEF Joined, JoinFails, JoinForced, Join, Enter
  <1>9. CASE Greet
    BY <1>9 DEF Greet
  <1>10. CASE SslAborts
    BY <1>10 DEF SslAborts
  <1>11. CASE CreateSSL \/ CreatedSSL
    BY <1>11 DEF CreateSSL, CreatedSSL
  <1>12. ASSUME NEW what \in Answers, ConnectSSL(what) PROVE [Life!Next]_phase
    BY <1>12 DEF ConnectSSL
  <1>13. CASE ConnectedSSLBlocked \/ ConnectedSSL
    BY <1>13 DEF ConnectedSSLBlocked, ConnectedSSL, Enter
  <1>14. CASE SslRefused \/ FallBack
    BY <1>14 DEF SslRefused, FallBack, Enter
  <1>15. CASE Data \/ Accept
    BY <1>15 DEF Data, Accept, Serving
  <1>16. CASE HandlerCloses
    BY <1>16 DEF HandlerCloses, Serving, Close, ClosedStatus
  <1>17. CASE PeerBreaks
    <2>1. CASE watched
      <3>1. "FINISHED" \notin status
        BY <2>1 DEF Numbers, LinkOK
      <3>2. status' = (ClosedStatus \ {"CONNECTED"}) \cup {"CONN_LOST"}
        BY <1>17, <2>1, Zenon DEF PeerBreaks
      <3>3. /\ open' = open /\ pc' = pc
            /\ "FINISHED" \in status' /\ "CONNECTED" \notin status'
        BY <1>17, <3>2 DEF PeerBreaks, ClosedStatus
      <3>4. open /\ ~Before
        BY <2>1
      <3> QED
        BY <3>1, <3>3, <3>4
    <2>2. CASE ~watched
      BY <1>17, <2>2 DEF PeerBreaks
    <2> QED
      BY <2>1, <2>2
  <1>18. CASE UNCHANGED vars
    BY <1>18 DEF vars
  <1> QED
    BY <1>1, <1>2, <1>3, <1>4, <1>5, <1>6, <1>7, <1>8, <1>9, <1>10, <1>11, <1>12,
       <1>13, <1>14, <1>15, <1>16, <1>17, <1>18
       DEF Next, Application, Status, Update, Secure, Served

(* The connection has the life the rest of the module takes for granted. *)
THEOREM ConnectionHasLife == Spec => HasLife
  <1>1. Init => Life!Init
    BY PhaseInit
  <1>2. IInv /\ [Next]_vars => [Life!Next]_phase
    BY PhaseNext
  <1> QED
    BY <1>1, <1>2, AlwaysIInv, PTL DEF Spec, HasLife, Life!Spec
=============================================================================
