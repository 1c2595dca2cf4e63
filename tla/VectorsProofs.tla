--------------------------- MODULE VectorsProofs ---------------------------
(***************************************************************************)
(* What module Vectors promises for any number of sockets, any sizes of    *)
(* the buffers and any of its switches.                                    *)
(***************************************************************************)
EXTENDS Vectors, WellFoundedInduction, TLAPS

(* A non-empty set of socket numbers has a lowest one. *)
LEMMA LowestIsIn == ASSUME NEW S, S \subseteq Nat, S # {} PROVE Lowest(S) \in S
  <1> DEFINE R == OpToRel(<, Nat)
  <1>1. R = {p \in Nat \X Nat : p[1] < p[2]}
    BY DEF OpToRel
  <1>2. IsWellFoundedOn(R, Nat)
    BY NatLessThanWellFounded
  <1> HIDE DEF R
  <1>3. PICK i \in S : \A j \in S : <<j, i>> \notin R
    BY <1>2, WFMin
  <1>4. \A j \in S : i <= j
    <2> TAKE j \in S
    <2>1. i \in Nat /\ j \in Nat /\ <<j, i>> \in Nat \X Nat
      OBVIOUS
    <2>2. <<j, i>>[1] = j /\ <<j, i>>[2] = i
      OBVIOUS
    <2>3. ~(j < i)
      BY <1>1, <1>3, <2>1, <2>2
    <2> QED
      BY <2>1, <2>3
  <1> QED
    BY <1>4 DEF Lowest
-----------------------------------------------------------------------------
(* The inductive invariant of the control state.  Only connections that were
   established are ever worked on by the handler: the application cannot open
   one under it, and an event can only end one. *)
Calls == {"readCall", "readDone", "writeCall", "writeDone", "workLoop", "workTail"}

CurOK ==
  /\ pc \in Calls => cur \in Sockets
                     /\ phase[cur] \in {"connected", "securing", "finished"}
  /\ pc = "writeDone" => phase[cur] # "securing"
  /\ pc = "secure" => cur \in Sockets /\ phase[cur] \in {"securing", "finished"}
  /\ pc = "aborted" => cur \in Sockets
  /\ pc \notin Calls \cup {"secure", "aborted"} => cur = None

ControlType ==
  /\ phase \in [Sockets -> Phases]
  /\ connected \subseteq Sockets
  /\ scan \subseteq Sockets
  /\ pc \in Places

(* Where the flag is up, or about to be, a call is to come, or the handler, which
   will take the flag down, is active. *)
FlagOK ==
  /\ armed \in [Ways -> Nat] /\ waiting \in BOOLEAN /\ raising \in BOOLEAN
  /\ waiting /\ pc \in {"idle", "secure"} => Outstanding > 0
  /\ raising => pc \in {"idle", "readScan", "writeScan", "workScan"}
  /\ raising /\ pc = "idle" => Outstanding > 0
  /\ waiting /\ pc = "rearm" => armed["callback"] > 0

Control == ControlType /\ CurOK /\ FlagOK /\ FdSetsOpen

LEMMA ControlInit == Init => Control
  <1> SUFFICES ASSUME Init PROVE Control
    OBVIOUS
  <1>1. ControlType /\ CurOK /\ FdSetsOpen
    BY DEF Init, ControlType, CurOK, Calls, FdSetsOpen, Phases, Places
  <1>2. FlagOK
    BY DEF Init, FlagOK, Ways
  <1>3. QED
    BY <1>1, <1>2 DEF Control

(* What a registration does to the calls to come. *)
LEMMA Registers ==
  ASSUME FlagOK, ~raising, NEW R, NEW how \in Ways, Register(R, how)
  PROVE  \/ UNCHANGED calls /\ (waiting \/ RegisterMayFail)
         \/ /\ ~waiting /\ waiting' = waiting /\ raising' = TRUE
            /\ armed' \in [Ways -> Nat] /\ armed'[how] > 0
            /\ Outstanding' = Outstanding + 1
  BY DEF FlagOK, Register, Armed, Outstanding, Ways, calls

LEMMA EventRegisters ==
  ASSUME FlagOK, NEW R, EventCallback(R)
  PROVE  \/ UNCHANGED calls /\ (waiting \/ RegisterMayFail)
         \/ /\ ~waiting /\ waiting' = TRUE /\ raising' = raising
            /\ armed' \in [Ways -> Nat] /\ armed'["callback"] > 0
            /\ Outstanding' = Outstanding + 1
  BY DEF FlagOK, EventCallback, Armed, Outstanding, Ways, calls

LEMMA Counted == FlagOK => Outstanding \in Nat /\ Surplus \in Int
  BY DEF FlagOK, Outstanding, Surplus, Ways

(* A step keeps the flag's part of the invariant, and adds calls beyond it only
   where the flag is late. *)
FlagKept ==
  /\ FlagOK'
  /\ Surplus' > Surplus => raising /\ ~waiting /\ waiting' /\ pc' = pc

LEMMA FlagOutside ==
  ASSUME FlagOK, Application \/ SecureDone \/ Event \/ UNCHANGED vars PROVE FlagKept
  <1> USE Counted DEF FlagKept, FlagOK, InHandler, Surplus, timer, calls, Idle, At, Goto
  <1>1. CASE UNCHANGED <<calls, pc>>
    BY <1>1 DEF Outstanding
  <1>2. ASSUME NEW s \in Sockets, NEW d, AppWrite(s, d) PROVE FlagKept
    <2>1. pc = "idle" /\ pc' = "idle" /\ ~raising /\ Register({"WRITE"}, "callback")
      BY <1>2 DEF AppWrite, AddCallback
    <2>2. CASE UNCHANGED calls
      BY <1>1, <2>1, <2>2
    <2>3. CASE /\ ~waiting /\ waiting' = waiting /\ raising' = TRUE
               /\ armed' \in [Ways -> Nat]
               /\ Outstanding' = Outstanding + 1
      BY <2>1, <2>3
    <2>4. QED
      BY <2>1, <2>2, <2>3, Registers DEF Ways
  <1>3. ASSUME NEW s \in Sockets, NEW x, Arrive(s, x) PROVE FlagKept
    <2>1. CASE UNCHANGED timer
      BY <1>1, <1>3, <2>1 DEF Arrive
    <2>2. CASE EventCallback({"READ"})
      <3>1. pc' = pc
        BY <1>3 DEF Arrive
      <3>2. CASE UNCHANGED calls
        BY <1>1, <3>1, <3>2
      <3>3. CASE /\ ~waiting /\ waiting' = TRUE /\ raising' = raising
                 /\ armed' \in [Ways -> Nat] /\ armed'["callback"] > 0
                 /\ Outstanding' = Outstanding + 1
        BY <3>1, <3>3
      <3>4. QED
        BY <2>2, <3>2, <3>3, EventRegisters
    <2>3. QED
      BY <1>3, <2>1, <2>2 DEF Arrive
  <1>4. ASSUME NEW s \in Sockets, SecureCall(s) PROVE FlagKept
    <2>1. UNCHANGED calls /\ pc = "idle" /\ pc' = "secure" /\ ~raising
      BY <1>4 DEF SecureCall
    <2>2. Outstanding' = Outstanding /\ Outstanding \in Nat
      BY <2>1 DEF Outstanding, Ways
    <2>3. FlagOK'
      BY <2>1, <2>2
    <2>4. Surplus' <= Surplus
      BY <2>1, <2>2
    <2>5. Surplus' \in Int /\ Surplus \in Int
      BY <2>2
    <2>6. QED
      BY <2>3, <2>4, <2>5
  <1>5. CASE SecureDone
    <2>1. UNCHANGED calls /\ pc = "secure" /\ pc' = "idle"
      BY <1>5 DEF SecureDone
    <2>2. Outstanding' = Outstanding /\ Outstanding \in Nat
      BY <2>1 DEF Outstanding, Ways
    <2>3. FlagOK'
      BY <2>1, <2>2
    <2>4. Surplus' <= Surplus
      BY <2>1, <2>2
    <2>5. Surplus' \in Int /\ Surplus \in Int
      BY <2>2
    <2>6. QED
      BY <2>3, <2>4, <2>5
  <1>6. ASSUME NEW s \in Sockets,
               \/ OpenSession(s) \/ Connect(s) \/ AppClose(s) \/ PeerClose(s)
               \/ \E n \in 1..ReadSize : AppRead(s, n)
        PROVE  FlagKept
    BY <1>1, <1>6 DEF OpenSession, Connect, AppClose, AppRead, PeerClose
  <1>7. CASE UNCHANGED vars
    BY <1>1, <1>7 DEF vars
  <1>8. QED
    BY <1>2, <1>3, <1>4, <1>5, <1>6, <1>7 DEF Application, Event

LEMMA FlagInside ==
  ASSUME FlagOK, Dispatch \/ RaiseFlag \/ DropCall \/ Handler PROVE FlagKept
  <1> USE Counted DEF FlagKept, FlagOK, InHandler, Surplus, timer, calls, Idle, At, Goto
  <1>1. CASE Dispatch
    BY <1>1 DEF Dispatch, Outstanding, Ways
  <1>2. CASE RaiseFlag
    <2>1. /\ armed' = armed /\ pc' = pc /\ raising
          /\ waiting' = TRUE /\ raising' = FALSE
      BY <1>2 DEF RaiseFlag
    <2>2. Outstanding' = Outstanding /\ Outstanding \in Nat
      BY <2>1 DEF Outstanding, Ways
    <2>3. FlagOK'
      BY <2>1, <2>2
    <2>4. Surplus' <= Surplus
      BY <2>1, <2>2
    <2>5. Surplus' \in Int /\ Surplus \in Int
      BY <2>2
    <2>6. QED
      BY <2>3, <2>4, <2>5
  <1>3. CASE DropCall
    BY <1>3 DEF DropCall, Outstanding, Ways
  <1>4. CASE /\ UNCHANGED calls /\ ~raising
             /\ pc \notin {"idle", "secure", "rearm"} /\ pc' \notin {"idle", "secure", "rearm"}
    BY <1>4 DEF Outstanding
  <1>5. ASSUME NEW R, Register(R, "callback"), ~raising,
               pc \notin {"idle", "secure", "rearm"},
               pc' \in {"readScan", "writeScan", "workScan"}
        PROVE  FlagKept
    <2>1. CASE UNCHANGED calls
      BY <1>4, <1>5, <2>1
    <2>2. CASE /\ ~waiting /\ waiting' = waiting /\ raising' = TRUE
               /\ armed' \in [Ways -> Nat]
               /\ Outstanding' = Outstanding + 1
      BY <1>5, <2>2
    <2>3. QED
      BY <1>5, <2>1, <2>2, Registers DEF Ways
  <1>6. CASE Leave
    <2>1. /\ pc = "leave" /\ pc' = "rearm" /\ ~raising
          /\ armed' = armed /\ raising' = FALSE /\ waiting' = FALSE
      BY <1>6 DEF Leave
    <2>2. Outstanding' = Outstanding /\ Outstanding \in Nat
      BY <2>1 DEF Outstanding, Ways
    <2>3. FlagOK'
      BY <2>1, <2>2
    <2>4. Surplus' <= Surplus
      BY <2>1, <2>2
    <2>5. Surplus' \in Int /\ Surplus \in Int
      BY <2>2
    <2>6. QED
      BY <2>3, <2>4, <2>5
  <1>7. CASE Rearm
    <2>1. pc = "rearm" /\ pc' = "idle" /\ ~raising
      BY <1>7 DEF Rearm
    <2>2. CASE UNCHANGED calls
      BY <2>1, <2>2 DEF Outstanding, Ways
    <2>3. CASE /\ ~waiting /\ waiting' = waiting /\ raising' = TRUE
               /\ armed' \in [Ways -> Nat]
               /\ Outstanding' = Outstanding + 1
      BY <2>1, <2>3
    <2>4. QED
      BY <1>7, <2>1, <2>2, <2>3, Registers DEF Rearm, Ways
  <1>8. CASE ReadDone
    BY <1>5, <1>8 DEF ReadDone, AddCallback
  <1>9. CASE WriteDone
    BY <1>4, <1>5, <1>9 DEF WriteDone, AddCallback
  <1>10. CASE WorkTail
    BY <1>4, <1>5, <1>10 DEF WorkTail, AddCallback
  <1>11. CASE \/ ReadPhase \/ ReadSelect \/ ReadScan \/ ReadCall \/ WritePhase \/ WriteSelect
              \/ WriteScan \/ WriteCall \/ WorkPhase \/ WorkScan \/ WorkItem \/ WorkStop
    BY <1>4, <1>11
    DEF ReadPhase, ReadSelect, ReadScan, ReadCall, WritePhase, WriteSelect, WriteScan,
        WriteCall, WorkPhase, WorkScan, WorkItem, WorkStop, Scan, CloseFailed, Abort, local
  <1>12. QED
    BY <1>1, <1>2, <1>3, <1>6, <1>7, <1>8, <1>9, <1>10, <1>11 DEF Handler

LEMMA FlagNext == ASSUME FlagOK, [Next]_vars PROVE FlagKept
  BY FlagOutside, FlagInside DEF Next

(* The steps of the application and of the events. *)
LEMMA ControlOutside ==
  ASSUME Control, Application \/ SecureDone \/ Event
  PROVE  (ControlType /\ CurOK /\ FdSetsOpen)'
  <1> USE DEF Control, ControlType, CurOK, Calls, FdSetsOpen, Phases, Places,
              Idle, At, Goto, local, fdSets, session
  <1>1. ASSUME NEW s \in Sockets, OpenSession(s)
        PROVE  (ControlType /\ CurOK /\ FdSetsOpen)'
    BY <1>1 DEF OpenSession
  <1>2. ASSUME NEW s \in Sockets, Connect(s)
        PROVE  (ControlType /\ CurOK /\ FdSetsOpen)'
    BY <1>2 DEF Connect
  <1>3. ASSUME NEW s \in Sockets, SecureCall(s)
        PROVE  (ControlType /\ CurOK /\ FdSetsOpen)'
    BY <1>3 DEF SecureCall
  <1>4. CASE SecureDone
    <2>1. cur \in Sockets /\ phase[cur] \in {"securing", "finished"} /\ pc' = "idle"
          /\ cur' = None
      BY <1>4 DEF SecureDone
    <2>2. CASE UNCHANGED <<phase, connected>>
      BY <1>4, <2>1, <2>2 DEF SecureDone
    <2>3. CASE /\ phase[cur] = "securing"
               /\ phase' = [phase EXCEPT ![cur] = "connected"]
               /\ connected' = connected \cup {cur}
      BY <1>4, <2>1, <2>3 DEF SecureDone
    <2>4. CASE /\ phase[cur] = "finished"
               /\ phase' = [phase EXCEPT ![cur] = "revived"]
               /\ connected' = connected
      BY <1>4, <2>1, <2>4 DEF SecureDone
    <2>5. QED
      BY <1>4, <2>1, <2>2, <2>3, <2>4 DEF SecureDone, IsOpen, FdSet
  <1>5. ASSUME NEW s \in Sockets, AppClose(s)
        PROVE  (ControlType /\ CurOK /\ FdSetsOpen)'
    BY <1>5 DEF AppClose
  <1>6. ASSUME NEW s \in Sockets, NEW n, AppRead(s, n)
        PROVE  (ControlType /\ CurOK /\ FdSetsOpen)'
    BY <1>6 DEF AppRead
  <1>7. ASSUME NEW s \in Sockets, NEW d, AppWrite(s, d)
        PROVE  (ControlType /\ CurOK /\ FdSetsOpen)'
    BY <1>7 DEF AppWrite, Usable, FdSet, IsOpen
  <1>8. ASSUME NEW s \in Sockets, NEW x, Arrive(s, x)
        PROVE  (ControlType /\ CurOK /\ FdSetsOpen)'
    BY <1>8 DEF Arrive
  <1>9. ASSUME NEW s \in Sockets, PeerClose(s)
        PROVE  (ControlType /\ CurOK /\ FdSetsOpen)'
    BY <1>9 DEF PeerClose, Close
  <1> QED
    BY <1>1, <1>2, <1>3, <1>4, <1>5, <1>6, <1>7, <1>8, <1>9 DEF Application, Event

(* The steps of the handler. *)
LEMMA ControlInside ==
  ASSUME Control, Dispatch \/ RaiseFlag \/ DropCall \/ Handler
  PROVE  (ControlType /\ CurOK /\ FdSetsOpen)'
  <1> USE SocketsAssumption
      DEF Control, ControlType, CurOK, Calls, FdSetsOpen, Phases, Places,
          Idle, At, local, fdSets, session, Goto, IsOpen, FdSet
  <1>1. CASE \/ Dispatch \/ RaiseFlag \/ DropCall
             \/ ReadPhase \/ WritePhase \/ WorkPhase \/ Leave \/ Rearm
    BY <1>1 DEF Dispatch, RaiseFlag, DropCall, ReadPhase, WritePhase, WorkPhase, Leave, Rearm
  <1>2. CASE ReadSelect \/ WriteSelect
    BY <1>2 DEF ReadSelect, WriteSelect
  <1>3. CASE ReadScan \/ WriteScan \/ WorkScan
    <2>1. scan # {} => Lowest(scan) \in Sockets
      BY LowestIsIn
    <2> QED
      BY <1>3, <2>1 DEF ReadScan, WriteScan, WorkScan, Scan
  <1>4. CASE ReadCall \/ WriteCall
    BY <1>4 DEF ReadCall, WriteCall, CloseFailed, Close, Abort
  <1>5. CASE ReadDone \/ WriteDone
    BY <1>5 DEF ReadDone, WriteDone
  <1>6. CASE WorkItem \/ WorkStop
    BY <1>6 DEF WorkItem, WorkStop, Workable
  <1>7. CASE WorkTail
    BY <1>7 DEF WorkTail
  <1> QED
    BY <1>1, <1>2, <1>3, <1>4, <1>5, <1>6, <1>7 DEF Handler
-----------------------------------------------------------------------------
(* The types, one part per variable or group that changes together.  What is
   read from a socket but not yet in the work buffer fits into it. *)
InqOK  == /\ inq \in [Sockets -> Seq(Item)]
          /\ \A s \in Sockets : Len(inq[s]) <= InMax
ReadOK == /\ read \in [Sockets -> Seq(Data)]
          /\ \A s \in Sockets : Len(read[s]) <= ReadSize
WriteOK == write \in [Sockets -> 0..WriteSize]
WorkOK == /\ work \in [Sockets -> Seq(Item)]
          /\ processed \in [Sockets -> 0..WorkSize]
          /\ \A s \in Sockets : /\ Len(work[s]) <= WorkSize
                                /\ processed[s] <= Len(work[s])
GotOK == /\ got \in Seq(Item)
         /\ pc = "readDone" => Len(got) + Len(work[cur]) <= WorkSize
SentOK == /\ sent \in 0..WriteSize
          /\ pc = "writeDone" => sent \in 1..write[cur]
StoreOK == InqOK /\ ReadOK /\ WriteOK /\ WorkOK /\ GotOK /\ SentOK

SetsOK ==
  /\ ssl \subseteq Sockets /\ nego \subseteq Sockets /\ lost \subseteq Sockets
  /\ incoming \subseteq Sockets /\ outgoing \subseteq Sockets
  /\ reading \subseteq Sockets /\ writing \subseteq Sockets
  /\ working \subseteq Sockets
  /\ reason \subseteq Reasons
  /\ expired \in BOOLEAN

IInv == Control /\ SetsOK /\ StoreOK

LEMMA IInvTypes == IInv => TypeOK
  BY DEF IInv, Control, ControlType, CurOK, FlagOK, SetsOK, StoreOK, InqOK, ReadOK,
         WriteOK, WorkOK, GotOK, SentOK, TypeOK, Calls

LEMMA SetsInit == Init => SetsOK
  BY DEF Init, SetsOK, Reasons

LEMMA SetsNext == Control /\ SetsOK /\ [Next]_vars => SetsOK'
  <1> SUFFICES ASSUME Control, SetsOK, [Next]_vars PROVE SetsOK'
    OBVIOUS
  <1> USE SwitchAssumption
      DEF SetsOK, Control, ControlType, CurOK, Calls, Reasons, local, fdSets,
          session, timer, At, Goto
  <1>1. CASE Application \/ SecureDone
    BY <1>1 DEF Application, OpenSession, Connect, SecureCall, SecureDone, Greet, AppRead,
                AppWrite, AppClose, AddCallback, Register, FdSet
  <1>2. CASE Event
    BY <1>2 DEF Event, Arrive, PeerClose, Close, EventCallback
  <1>3. CASE \/ Dispatch \/ RaiseFlag \/ DropCall
             \/ ReadPhase \/ WritePhase \/ WorkPhase \/ Leave \/ Rearm
    BY <1>3 DEF Dispatch, RaiseFlag, DropCall, ReadPhase, WritePhase, WorkPhase, Leave,
                Rearm, Tick, Register
  <1>4. CASE ReadSelect \/ WriteSelect \/ ReadScan \/ WriteScan \/ WorkScan
    BY <1>4 DEF ReadSelect, WriteSelect, ReadScan, WriteScan, WorkScan, Scan, Tick
  <1>5. CASE ReadCall \/ WriteCall
    BY <1>5 DEF ReadCall, WriteCall, CloseFailed, Close, Abort
  <1>6. CASE ReadDone \/ WriteDone
    BY <1>6 DEF ReadDone, WriteDone, FdSet, AddCallback, Register
  <1>7. CASE WorkItem \/ WorkStop
    BY <1>7 DEF WorkItem, WorkStop
  <1>8. CASE WorkTail
    BY <1>8 DEF WorkTail, FdSet, AddCallback, Register
  <1>9. CASE UNCHANGED vars
    BY <1>9 DEF vars
  <1> QED
    BY <1>1, <1>2, <1>3, <1>4, <1>5, <1>6, <1>7, <1>8, <1>9 DEF Next, Handler
-----------------------------------------------------------------------------
LEMMA EmptyIsSeq == ASSUME NEW S PROVE <<>> \in Seq(S) /\ Len(<<>>) = 0
  OBVIOUS

LEMMA LeastBounds ==
  ASSUME NEW a \in Nat, NEW b \in Nat
  PROVE  Least(a, b) \in Nat /\ Least(a, b) <= a /\ Least(a, b) <= b
  BY DEF Least

LEMMA DropIsSeq ==
  ASSUME NEW S, NEW q \in Seq(S), NEW n \in 0..Len(q)
  PROVE  Drop(q, n) \in Seq(S) /\ Len(Drop(q, n)) = Len(q) - n
  BY DEF Drop

LEMMA TakeIsSeq ==
  ASSUME NEW S, NEW q \in Seq(S), NEW n \in 0..Len(q)
  PROVE  SubSeq(q, 1, n) \in Seq(S) /\ Len(SubSeq(q, 1, n)) = n
  OBVIOUS

LEMMA StoreInit == Init => StoreOK
  <1> SUFFICES ASSUME Init PROVE StoreOK
    OBVIOUS
  <1> USE SizesAssumption, EmptyIsSeq DEF Init
  <1>1. InqOK
    BY DEF InqOK
  <1>2. ReadOK
    BY DEF ReadOK
  <1>3. WriteOK
    BY DEF WriteOK
  <1>4. WorkOK
    BY DEF WorkOK
  <1>5. GotOK /\ SentOK
    BY DEF GotOK, SentOK
  <1> QED
    BY <1>1, <1>2, <1>3, <1>4, <1>5 DEF StoreOK

(* A step that moves no bytes. *)
LEMMA StoreFrame ==
  ASSUME StoreOK, UNCHANGED <<inq, buffers, got, sent>>,
         UNCHANGED <<pc, cur>> \/ pc' \notin {"readDone", "writeDone"}
  PROVE  StoreOK'
  BY DEF StoreOK, InqOK, ReadOK, WriteOK, WorkOK, GotOK, SentOK, buffers

(* A step that empties what the network held for a socket, at most. *)
LEMMA StoreClose ==
  ASSUME NEW s \in Sockets, StoreOK, Close(s), UNCHANGED <<buffers, got, sent>>,
         UNCHANGED <<pc, cur>> \/ pc' \notin {"readDone", "writeDone"}
  PROVE  StoreOK'
  <1> USE DEF StoreOK, buffers
  <1>1. InqOK'
    BY SizesAssumption, EmptyIsSeq DEF InqOK, Close
  <1>2. ReadOK' /\ WriteOK' /\ WorkOK' /\ GotOK' /\ SentOK'
    BY DEF ReadOK, WriteOK, WorkOK, GotOK, SentOK
  <1> QED
    BY <1>1, <1>2

LEMMA StoreApplication ==
  ASSUME Control, StoreOK, Application \/ SecureDone PROVE StoreOK'
  <1> USE DEF Idle, At, Goto
  <1>1. ASSUME NEW s \in Sockets, OpenSession(s) PROVE StoreOK'
    BY <1>1, StoreFrame DEF OpenSession, local
  <1>2. ASSUME NEW s \in Sockets, Connect(s) PROVE StoreOK'
    <2>1. UNCHANGED <<inq, read, work, processed, got, sent>> /\ pc' = "idle"
      BY <1>2 DEF Connect, local
    <2>2. WriteOK'
      BY <1>2, SizesAssumption DEF StoreOK, WriteOK, Connect, Greet, Least
    <2> QED
      BY <2>1, <2>2 DEF StoreOK, InqOK, ReadOK, WorkOK, GotOK, SentOK
  <1>3. ASSUME NEW s \in Sockets, SecureCall(s) PROVE StoreOK'
    BY <1>3, StoreFrame DEF SecureCall
  <1>4. CASE SecureDone
    <2>1. UNCHANGED <<inq, read, work, processed, got, sent>> /\ pc' = "idle"
          /\ cur \in Sockets
      BY <1>4 DEF SecureDone, Control, CurOK
    <2>2. WriteOK'
      BY <1>4, <2>1, SizesAssumption DEF StoreOK, WriteOK, SecureDone, Greet, Least
    <2> QED
      BY <2>1, <2>2 DEF StoreOK, InqOK, ReadOK, WorkOK, GotOK, SentOK
  <1>5. ASSUME NEW s \in Sockets, AppClose(s) PROVE StoreOK'
    <2> USE <1>5, SizesAssumption, EmptyIsSeq DEF AppClose, StoreOK
    <2>1. InqOK'
      BY DEF InqOK
    <2>2. ReadOK'
      BY DEF ReadOK
    <2>3. WriteOK'
      BY DEF WriteOK
    <2>4. WorkOK'
      BY DEF WorkOK
    <2>5. GotOK' /\ SentOK'
      BY DEF GotOK, SentOK, local
    <2> QED
      BY <2>1, <2>2, <2>3, <2>4, <2>5
  <1>6. ASSUME NEW s \in Sockets, NEW n \in 1..ReadSize, AppRead(s, n)
        PROVE  StoreOK'
    <2>1. UNCHANGED <<inq, write, work, processed, got, sent>> /\ pc' = "idle"
      BY <1>6 DEF AppRead, local
    <2>2. /\ read[s] \in Seq(Data) /\ Len(read[s]) <= ReadSize
          /\ Least(n, Len(read[s])) \in 0..Len(read[s])
      BY SizesAssumption DEF StoreOK, ReadOK, Least
    <2>3. /\ Drop(read[s], Least(n, Len(read[s]))) \in Seq(Data)
          /\ Len(Drop(read[s], Least(n, Len(read[s])))) <= ReadSize
      BY <2>2, DropIsSeq, SizesAssumption
    <2>4. ReadOK'
      BY <1>6, <2>3 DEF AppRead, StoreOK, ReadOK
    <2> QED
      BY <2>1, <2>4 DEF StoreOK, InqOK, WriteOK, WorkOK, GotOK, SentOK
  <1>7. ASSUME NEW s \in Sockets, NEW d \in Data, AppWrite(s, d) PROVE StoreOK'
    <2>1. UNCHANGED <<inq, work, processed, got, sent>> /\ pc' = "idle"
      BY <1>7 DEF AppWrite, local
    <2>2. read[s] \in Seq(Data) /\ Len(read[s]) <= ReadSize
      BY DEF StoreOK, ReadOK
    <2>3. Append(read[s], d) \in Seq(Data) /\ Len(Append(read[s], d)) = Len(read[s]) + 1
      BY <2>2
    <2>4. ReadOK'
      BY <1>7, <2>2, <2>3, SizesAssumption DEF AppWrite, StoreOK, ReadOK
    <2>5. WriteOK'
      BY <1>7, SizesAssumption DEF AppWrite, StoreOK, WriteOK
    <2> QED
      BY <2>1, <2>4, <2>5 DEF StoreOK, InqOK, WorkOK, GotOK, SentOK
  <1> QED
    BY <1>1, <1>2, <1>3, <1>4, <1>5, <1>6, <1>7 DEF Application

LEMMA StoreEvent ==
  ASSUME StoreOK, Event PROVE StoreOK'
  <1>1. ASSUME NEW s \in Sockets, NEW x \in Item, Arrive(s, x) PROVE StoreOK'
    <2>1. UNCHANGED <<read, write, work, processed, got, sent, pc, cur>>
      BY <1>1 DEF Arrive, buffers, local
    <2>2. inq[s] \in Seq(Item) /\ Len(inq[s]) < InMax
      BY <1>1 DEF Arrive, StoreOK, InqOK
    <2>3. Append(inq[s], x) \in Seq(Item) /\ Len(Append(inq[s], x)) = Len(inq[s]) + 1
      BY <2>2
    <2>4. InqOK'
      BY <1>1, <2>2, <2>3, SizesAssumption DEF Arrive, StoreOK, InqOK
    <2> QED
      BY <2>1, <2>4 DEF StoreOK, ReadOK, WriteOK, WorkOK, GotOK, SentOK
  <1>2. ASSUME NEW s \in Sockets, PeerClose(s) PROVE StoreOK'
    BY <1>2, StoreClose DEF PeerClose, local
  <1> QED
    BY <1>1, <1>2 DEF Event

LEMMA StoreReadCall ==
  ASSUME Control, StoreOK, ReadCall PROVE StoreOK'
  <1>1. cur \in Sockets
    BY DEF Control, CurOK, Calls, ReadCall, At
  <1>2. CASE Abort
    BY <1>2, StoreFrame DEF Abort, Goto, local
  <1>3. CASE CloseFailed("readScan")
    BY <1>1, <1>3, StoreClose DEF CloseFailed, Goto
  <1> DEFINE n == Least(WorkSize - Len(work[cur]), Len(inq[cur]))
  <1>4. CASE /\ got' = SubSeq(inq[cur], 1, n)
             /\ inq' = [inq EXCEPT ![cur] = Drop(@, n)]
             /\ pc' = "readDone" => cur' = cur
             /\ pc' # "writeDone"
             /\ UNCHANGED <<buffers, sent>>
    <2>1. /\ inq[cur] \in Seq(Item) /\ Len(inq[cur]) <= InMax
          /\ work[cur] \in Seq(Item) /\ Len(work[cur]) <= WorkSize
      BY <1>1 DEF StoreOK, InqOK, WorkOK
    <2>2. n \in 0..Len(inq[cur]) /\ n + Len(work[cur]) <= WorkSize
      <3>1. /\ Len(inq[cur]) \in Nat
            /\ WorkSize - Len(work[cur]) \in Nat
            /\ WorkSize \in Nat /\ Len(work[cur]) \in Nat
        BY <2>1, SizesAssumption
      <3>2. n \in Nat /\ n <= Len(inq[cur]) /\ n <= WorkSize - Len(work[cur])
        BY <3>1, LeastBounds
      <3> HIDE DEF n
      <3> QED
        BY <3>1, <3>2
    <2> HIDE DEF n
    <2>3. /\ SubSeq(inq[cur], 1, n) \in Seq(Item)
          /\ Len(SubSeq(inq[cur], 1, n)) = n
      BY <2>1, <2>2, TakeIsSeq
    <2>4. Drop(inq[cur], n) \in Seq(Item) /\ Len(Drop(inq[cur], n)) <= InMax
      BY <2>1, <2>2, DropIsSeq, SizesAssumption
    <2>5. InqOK'
      BY <1>1, <1>4, <2>4 DEF StoreOK, InqOK
    <2>6. GotOK'
      BY <1>4, <2>2, <2>3 DEF GotOK, buffers
    <2> QED
      BY <1>4, <2>5, <2>6 DEF StoreOK, ReadOK, WriteOK, WorkOK, SentOK, buffers
  <1> QED
    BY <1>2, <1>3, <1>4 DEF ReadCall, Goto

LEMMA StoreReadDone ==
  ASSUME Control, StoreOK, ReadDone PROVE StoreOK'
  <1>1. cur \in Sockets
    BY DEF Control, CurOK, Calls, ReadDone, At
  <1>2. /\ work[cur] \in Seq(Item) /\ got \in Seq(Item)
        /\ Len(got) + Len(work[cur]) <= WorkSize
    BY <1>1 DEF StoreOK, WorkOK, GotOK, ReadDone, At
  <1>3. /\ work[cur] \o got \in Seq(Item)
        /\ Len(work[cur] \o got) = Len(work[cur]) + Len(got)
    BY <1>2
  <1>4. WorkOK'
    BY <1>1, <1>2, <1>3 DEF ReadDone, StoreOK, WorkOK
  <1>5. GotOK' /\ SentOK'
    BY EmptyIsSeq DEF ReadDone, Goto, GotOK, StoreOK, SentOK
  <1> QED
    BY <1>4, <1>5 DEF ReadDone, StoreOK, InqOK, ReadOK, WriteOK

LEMMA StoreWriteCall ==
  ASSUME Control, StoreOK, WriteCall PROVE StoreOK'
  <1>1. cur \in Sockets /\ pc = "writeCall"
    BY DEF Control, CurOK, Calls, WriteCall, At
  <1>2. CASE Abort
    BY <1>2, StoreFrame DEF Abort, Goto, local
  <1>3. CASE CloseFailed("writeScan")
    BY <1>1, <1>3, StoreClose DEF CloseFailed, Goto
  <1>4. CASE /\ \/ sent' = 0 /\ pc' = "writeScan"
                \/ sent' \in 1..write[cur] /\ pc' = "writeDone" /\ cur' = cur
             /\ UNCHANGED <<inq, buffers, got>>
    <2>1. write[cur] \in 0..WriteSize
      BY <1>1 DEF StoreOK, WriteOK
    <2>2. SentOK'
      BY <1>4, <2>1, SizesAssumption DEF SentOK, buffers
    <2> QED
      BY <1>4, <2>2 DEF StoreOK, InqOK, ReadOK, WriteOK, WorkOK, GotOK, buffers
  <1> QED
    BY <1>2, <1>3, <1>4 DEF WriteCall, Goto

LEMMA StoreWriteDone ==
  ASSUME Control, StoreOK, WriteDone PROVE StoreOK'
  <1>1. cur \in Sockets /\ sent \in 1..write[cur] /\ write[cur] \in 0..WriteSize
    BY DEF Control, CurOK, Calls, WriteDone, At, StoreOK, SentOK, WriteOK
  <1>2. write' = [write EXCEPT ![cur] = write[cur] - sent]
    BY DEF WriteDone
  <1>3. write[cur] - sent \in 0..WriteSize
    BY <1>1, SizesAssumption
  <1>4. WriteOK'
    BY <1>2, <1>3 DEF StoreOK, WriteOK
  <1>5. UNCHANGED <<inq, read, work, processed, got>> /\ sent' = 0 /\ pc' = "writeScan"
    BY DEF WriteDone, Goto
  <1> QED
    BY <1>4, <1>5, SizesAssumption DEF StoreOK, InqOK, ReadOK, WorkOK, GotOK, SentOK

LEMMA StoreWorkItem ==
  ASSUME Control, StoreOK, WorkItem PROVE StoreOK'
  <1>1. cur \in Sockets
    BY DEF Control, CurOK, Calls, WorkItem, At
  <1>2. /\ work[cur] \in Seq(Item) /\ Len(work[cur]) <= WorkSize
        /\ processed[cur] \in Nat /\ processed[cur] < Len(work[cur])
        /\ Next1(cur) \in Item
    BY <1>1 DEF StoreOK, WorkOK, WorkItem, Workable, Next1
  <1>3. UNCHANGED <<inq, work, got, sent, pc>> /\ pc = "workLoop"
    BY DEF WorkItem, local, At
  <1>4. WorkOK'
    BY <1>1, <1>2, <1>3, SizesAssumption DEF StoreOK, WorkOK, WorkItem, Workable
  <1>5. ReadOK'
    <2>1. read[cur] \in Seq(Data)
      BY <1>1 DEF StoreOK, ReadOK
    <2>2. CASE Next1(cur) \in Data
      <3>1. Len(read[cur]) < ReadSize
        BY <2>2 DEF WorkItem, Workable
      <3>2. /\ Append(read[cur], Next1(cur)) \in Seq(Data)
            /\ Len(Append(read[cur], Next1(cur))) <= ReadSize
        BY <2>1, <2>2, <3>1, SizesAssumption
      <3> QED
        BY <1>1, <2>2, <3>2 DEF StoreOK, ReadOK, WorkItem
    <2>3. CASE Next1(cur) \notin Data
      BY <1>1, <2>3 DEF StoreOK, ReadOK, WorkItem
    <2> QED
      BY <2>2, <2>3
  <1>6. WriteOK'
    BY <1>1, SizesAssumption DEF StoreOK, WriteOK, WorkItem, Workable
  <1> QED
    BY <1>3, <1>4, <1>5, <1>6 DEF StoreOK, InqOK, GotOK, SentOK

LEMMA WorkTailDrains ==
  ASSUME StoreOK, cur \in Sockets, WorkTail
  PROVE  \/ UNCHANGED <<work, processed>>
         \/ /\ work' = [work EXCEPT ![cur] = Drop(@, processed[cur])]
            /\ processed' = [processed EXCEPT ![cur] = 0]
  <1>1. /\ work = [work EXCEPT ![cur] = work[cur]]
        /\ processed = [processed EXCEPT ![cur] = processed[cur]]
    BY DEF StoreOK, WorkOK
  <1> QED
    BY <1>1 DEF WorkTail

LEMMA StoreWorkTail ==
  ASSUME Control, StoreOK, WorkTail PROVE StoreOK'
  <1>1. cur \in Sockets
    BY DEF Control, CurOK, Calls, WorkTail, At
  <1>2. /\ work[cur] \in Seq(Item) /\ Len(work[cur]) <= WorkSize
        /\ processed[cur] \in 0..Len(work[cur])
    BY <1>1 DEF StoreOK, WorkOK
  <1>3. /\ Drop(work[cur], processed[cur]) \in Seq(Item)
        /\ Len(Drop(work[cur], processed[cur])) = Len(work[cur]) - processed[cur]
    BY <1>2, DropIsSeq
  <1>4. \/ UNCHANGED <<work, processed>>
        \/ /\ work' = [work EXCEPT ![cur] = Drop(@, processed[cur])]
           /\ processed' = [processed EXCEPT ![cur] = 0]
    BY <1>1, WorkTailDrains
  <1>5. WorkOK'
    <2>1. CASE UNCHANGED <<work, processed>>
      BY <2>1 DEF StoreOK, WorkOK
    <2>2. CASE /\ work' = [work EXCEPT ![cur] = Drop(@, processed[cur])]
               /\ processed' = [processed EXCEPT ![cur] = 0]
      <3> DEFINE q == Drop(work[cur], processed[cur])
      <3>1. /\ Len(work[cur]) \in Nat /\ processed[cur] \in Nat
            /\ WorkSize \in Nat
        BY <1>2, SizesAssumption
      <3>2. q \in Seq(Item) /\ Len(q) \in Nat /\ Len(q) <= WorkSize
        BY <1>2, <1>3, <3>1
      <3>3. work' = [work EXCEPT ![cur] = q]
        BY <2>2
      <3> HIDE DEF q
      <3> QED
        BY <1>1, <2>2, <3>1, <3>2, <3>3 DEF StoreOK, WorkOK
    <2> QED
      BY <1>4, <2>1, <2>2
  <1>6. UNCHANGED <<inq, read, write, got, sent>> /\ pc' = "workScan"
    BY DEF WorkTail, Goto
  <1> QED
    BY <1>5, <1>6 DEF StoreOK, InqOK, ReadOK, WriteOK, GotOK, SentOK

LEMMA StoreHandler ==
  ASSUME Control, StoreOK, Dispatch \/ RaiseFlag \/ DropCall \/ Handler PROVE StoreOK'
  <1>1. CASE \/ Dispatch \/ RaiseFlag \/ DropCall
             \/ ReadPhase \/ WritePhase \/ WorkPhase \/ Leave \/ Rearm
             \/ ReadSelect \/ WriteSelect \/ WorkStop
    BY <1>1, StoreFrame
    DEF Dispatch, RaiseFlag, DropCall, ReadPhase, WritePhase, WorkPhase, Leave, Rearm,
        ReadSelect, WriteSelect, WorkStop, Goto, local
  <1>2. CASE ReadScan \/ WriteScan \/ WorkScan
    BY <1>2, StoreFrame DEF ReadScan, WriteScan, WorkScan, Scan, At, Goto, local
  <1> QED
    BY <1>1, <1>2, StoreReadCall, StoreReadDone, StoreWriteCall, StoreWriteDone,
       StoreWorkItem, StoreWorkTail DEF Handler
-----------------------------------------------------------------------------
LEMMA IInvInit == Init => IInv
  BY ControlInit, SetsInit, StoreInit DEF IInv

LEMMA IInvNext == IInv /\ [Next]_vars => IInv'
  <1> SUFFICES ASSUME IInv, [Next]_vars PROVE IInv'
    OBVIOUS
  <1>1. Control'
    <2>1. FlagOK'
      BY FlagNext DEF IInv, Control, FlagKept
    <2>2. (ControlType /\ CurOK /\ FdSetsOpen)'
      <3>1. CASE UNCHANGED vars
        BY <3>1 DEF IInv, Control, ControlType, CurOK, FdSetsOpen, vars, session, fdSets,
                    timer, local
      <3> QED
        BY <3>1, ControlOutside, ControlInside DEF IInv, Next
    <2> QED
      BY <2>1, <2>2 DEF Control
  <1>2. SetsOK'
    BY SetsNext DEF IInv
  <1>3. StoreOK'
    <2>1. CASE UNCHANGED vars
      BY <2>1, StoreFrame DEF IInv, vars, local
    <2> QED
      BY <2>1, StoreApplication, StoreEvent, StoreHandler DEF IInv, Next
  <1> QED
    BY <1>1, <1>2, <1>3 DEF IInv

LEMMA AlwaysIInv == Spec => []IInv
  BY IInvInit, IInvNext, PTL DEF Spec

(* Every variable keeps its type and no buffer outgrows its size: a socket is
   read for no more bytes than the work buffer has room for, even when the
   connection ends between the read and the bookkeeping. *)
THEOREM VectorsTypeCorrect == Spec => []TypeOK
  BY AlwaysIInv, IInvTypes, PTL

(* The flag never stays up without a call to come: where it is up, or about to be,
   either the handler is running, and takes it down, or a call is registered
   (FlagOK).  The calls that it does not stand for grow in number only where an
   event finds it down that is about to be set (vectors.c:61-64, 87-91). *)
THEOREM VectorsCallbackFlag == Spec => CallbackFlag
  <1>1. IInv => (waiting /\ pc \in {"idle", "secure"} => Outstanding > 0)
    BY DEF IInv, Control, FlagOK
  <1>2. IInv /\ [Next]_vars
          => [Surplus' > Surplus => raising /\ ~waiting /\ waiting' /\ pc' = pc]_vars
    BY FlagNext DEF IInv, Control, FlagKept
  <1> QED
    BY <1>1, <1>2, AlwaysIInv, PTL DEF Spec, CallbackFlag

(* The fd_sets never name a closed socket, and the sockets listened to are
   those of the sessions that are connected. *)
THEOREM VectorsFdSetsOpen == Spec => []FdSetsOpen
  BY AlwaysIInv, PTL DEF IInv, Control
-----------------------------------------------------------------------------
(* Without a refusal of RISC OS, a reason noted has its call while an SSL call and
   while a registration are under way, too. *)
Noted == pc \in {"idle", "secure"} /\ reason # {} /\ ~RegisterMayFail => Outstanding > 0

LEMMA NotedNext == ASSUME FlagOK, Noted, [Next]_vars PROVE Noted'
  <1> USE Counted DEF Noted, Idle, At, Goto, timer
  <1>1. FlagOK'
    BY FlagNext DEF FlagKept
  <1>2. CASE UNCHANGED <<reason, calls>> /\ (pc' \in {"idle", "secure"} => pc \in {"idle", "secure"})
    BY <1>2 DEF calls, Outstanding
  <1>3. ASSUME NEW R, NEW how \in Ways, Register(R, how), ~raising,
               pc \in {"idle", "rearm"}
        PROVE  Noted'
    <2>1. waiting => Outstanding > 0
      BY <1>3 DEF FlagOK, Outstanding, Ways
    <2>2. CASE UNCHANGED calls /\ (waiting \/ RegisterMayFail)
      <3>1. Outstanding' = Outstanding
        BY <2>2 DEF Outstanding, calls
      <3> QED
        BY <2>1, <2>2, <3>1
    <2>3. CASE Outstanding' = Outstanding + 1
      BY <2>3
    <2> QED
      BY <1>3, <2>2, <2>3, Registers
  <1>4. ASSUME NEW c \in Sockets, NEW d, AppWrite(c, d) PROVE Noted'
    BY <1>3, <1>4 DEF AppWrite, AddCallback, Ways
  <1>5. ASSUME NEW c \in Sockets, NEW x, Arrive(c, x) PROVE Noted'
    <2>1. pc' = pc
      BY <1>5 DEF Arrive
    <2>2. CASE UNCHANGED timer
      BY <1>2, <2>1, <2>2
    <2>3. CASE EventCallback({"READ"})
      <3>1. CASE UNCHANGED calls /\ (waiting \/ RegisterMayFail)
        <4>1. Outstanding' = Outstanding
          BY <3>1 DEF Outstanding, calls
        <4> QED
          BY <2>1, <3>1, <4>1 DEF FlagOK
      <3>2. CASE Outstanding' = Outstanding + 1
        BY <3>2
      <3> QED
        BY <2>3, <3>1, <3>2, EventRegisters
    <2> QED
      BY <1>5, <2>2, <2>3 DEF Arrive
  <1>6. ASSUME NEW c \in Sockets,
               \/ OpenSession(c) \/ Connect(c) \/ SecureCall(c) \/ AppClose(c) \/ PeerClose(c)
               \/ \E n \in 1..ReadSize : AppRead(c, n)
        PROVE  Noted'
    BY <1>2, <1>6 DEF OpenSession, Connect, SecureCall, AppClose, AppRead, PeerClose
  <1>7. CASE SecureDone
    BY <1>2, <1>7 DEF SecureDone
  <1>8. CASE RaiseFlag
    BY <1>8 DEF RaiseFlag, local, Outstanding
  <1>9. CASE Rearm
    BY <1>2, <1>3, <1>9 DEF Rearm, Ways
  <1>10. CASE Dispatch \/ DropCall \/ (Handler /\ ~Rearm)
    <2>1. pc' \notin {"idle", "secure"}
      BY <1>10
      DEF Dispatch, DropCall, InHandler, Handler, ReadPhase, ReadSelect, ReadScan, ReadCall,
          ReadDone, WritePhase, WriteSelect, WriteScan, WriteCall, WriteDone, WorkPhase,
          WorkScan, WorkItem, WorkStop, WorkTail, Leave, Scan, CloseFailed, Abort, local
    <2> QED
      BY <2>1
  <1>11. CASE UNCHANGED vars
    BY <1>2, <1>11 DEF vars
  <1> QED
    BY <1>4, <1>5, <1>6, <1>7, <1>8, <1>9, <1>10, <1>11
    DEF Next, Application, Event, Handler

(* No reason for a callback is forgotten between two calls of the handler, as long as
   RISC OS accepts the registrations: it follows from the flag's never staying up
   without a call to come. *)
THEOREM VectorsNoForgottenReason == Spec => []NoForgottenReason
  <1>1. Init => Noted
    BY DEF Init, Noted
  <1>2. IInv /\ Noted /\ [Next]_vars => Noted'
    BY NotedNext DEF IInv, Control
  <1>3. Noted => NoForgottenReason
    BY DEF Noted, NoForgottenReason, Idle, At
  <1> QED
    BY <1>1, <1>2, <1>3, AlwaysIInv, PTL DEF Spec

LEMMA EndedStep ==
  ASSUME IInv, [Next]_vars, NEW s \in Sockets PROVE AfterEnd(s) /\ AfterRevival(s)
  <1>0. /\ read = [c \in Sockets |-> read[c]] /\ write = [c \in Sockets |-> write[c]]
        /\ inq = [c \in Sockets |-> inq[c]] /\ work = [c \in Sockets |-> work[c]]
        /\ processed = [c \in Sockets |-> processed[c]]
        /\ \A c \in Sockets : write[c] \in Int
        /\ Control
    BY SizesAssumption DEF IInv, StoreOK, InqOK, ReadOK, WriteOK, WorkOK
  <1>1. phase[s] = "revived" => s \notin reading \cup writing \cup working
    BY <1>0 DEF Control, FdSetsOpen
  <1> USE <1>0, <1>1
      DEF Control, ControlType, CurOK, Calls, session, buffers, AfterEnd, AfterRevival, At
  <1>2. ASSUME NEW c \in Sockets, OpenSession(c) \/ SecureCall(c)
        PROVE  AfterEnd(s) /\ AfterRevival(s)
    BY <1>2 DEF OpenSession, SecureCall
  <1>3. ASSUME NEW c \in Sockets, Connect(c) PROVE AfterEnd(s) /\ AfterRevival(s)
    BY <1>3 DEF Connect, Greet
  <1>4. ASSUME NEW c \in Sockets, AppClose(c) PROVE AfterEnd(s) /\ AfterRevival(s)
    <2>1. CASE s = c
      BY <1>4, <2>1 DEF AppClose
    <2>2. CASE s # c
      <3>1. /\ phase'[s] = phase[s] /\ read'[s] = read[s] /\ write'[s] = write[s]
            /\ inq'[s] = inq[s] /\ work'[s] = work[s] /\ processed'[s] = processed[s]
        BY <1>4, <2>2 DEF AppClose
      <3> QED
        BY <3>1
    <2> QED
      BY <2>1, <2>2
  <1>5. ASSUME NEW c \in Sockets, NEW n, AppRead(c, n) PROVE AfterEnd(s) /\ AfterRevival(s)
    BY <1>5 DEF AppRead, Usable
  <1>6. ASSUME NEW c \in Sockets, NEW d, AppWrite(c, d) PROVE AfterEnd(s) /\ AfterRevival(s)
    <2>1. /\ phase[c] \in {"connected", "revived"} /\ UNCHANGED <<phase, inq, work, processed>>
          /\ \A q \in Sockets \ {c} : read'[q] = read[q]
          /\ \A q \in Sockets : write'[q] \in {write[q], write[q] + 1}
          /\ \A q \in Sockets \ {c} : write'[q] = write[q]
      BY <1>6 DEF AppWrite, Usable
    <2>2. write'[s] >= write[s]
      BY <2>1
    <2> QED
      BY <2>1, <2>2
  <1>7. CASE SecureDone
    <2>1. cur \in Sockets /\ phase[cur] \in {"securing", "finished"} /\ pc = "secure"
      BY <1>7 DEF SecureDone
    <2>2. UNCHANGED <<inq, read, work, processed>>
      BY <1>7 DEF SecureDone
    <2>3. CASE UNCHANGED <<phase, write>>
      BY <2>2, <2>3
    <2>4. CASE /\ phase' = [phase EXCEPT ![cur] = IF IsOpen(cur) THEN "connected"
                                                                ELSE "revived"]
               /\ \A c \in Sockets \ {cur} : write'[c] = write[c]
      BY <2>1, <2>2, <2>4 DEF IsOpen
    <2> QED
      BY <1>7, <2>1, <2>3, <2>4 DEF SecureDone, Greet
  <1>8. CASE Event
    BY <1>8 DEF Event, Arrive, PeerMaySend, PeerClose, Close, IsOpen, FdSetsOpen
  <1>9. CASE \/ Dispatch \/ RaiseFlag \/ DropCall
             \/ ReadPhase \/ WritePhase \/ WorkPhase \/ Leave \/ Rearm
             \/ ReadSelect \/ WriteSelect \/ ReadScan \/ WriteScan \/ WorkScan
             \/ WorkStop \/ UNCHANGED vars
    BY <1>9
    DEF Dispatch, RaiseFlag, DropCall, ReadPhase, WritePhase, WorkPhase, Leave, Rearm,
        ReadSelect, WriteSelect, ReadScan, WriteScan, WorkScan, Scan, WorkStop, vars
  <1>10. CASE ReadCall
    BY <1>10 DEF ReadCall, CloseFailed, Close, Abort
  <1>11. CASE ReadDone
    BY <1>11 DEF ReadDone
  <1>12. CASE WriteCall
    BY <1>12 DEF WriteCall, CloseFailed, Close, Abort
  <1>13. CASE WriteDone
    BY <1>13 DEF WriteDone
  <1>14. CASE WorkItem
    <2>1. cur \in Sockets /\ phase[cur] = "connected"
      BY <1>14 DEF WorkItem, Workable
    <2>2. CASE s # cur
      <3>1. /\ phase'[s] = phase[s] /\ read'[s] = read[s] /\ write'[s] = write[s]
            /\ inq'[s] = inq[s] /\ work'[s] = work[s] /\ processed'[s] = processed[s]
        BY <1>14, <2>1, <2>2 DEF WorkItem
      <3> QED
        BY <3>1
    <2> QED
      BY <2>1, <2>2
  <1>15. CASE WorkTail
    <2>1. cur \in Sockets /\ phase[cur] # "revived" /\ UNCHANGED <<phase, read, write, inq>>
      BY <1>15 DEF WorkTail
    <2>2. \A c \in Sockets \ {cur} : work'[c] = work[c] /\ processed'[c] = processed[c]
      BY <1>15, <2>1 DEF WorkTail
    <2> QED
      BY <2>1, <2>2
  <1> QED
    BY <1>2, <1>3, <1>4, <1>5, <1>6, <1>7, <1>8, <1>9, <1>10, <1>11, <1>12, <1>13, <1>14,
       <1>15
    DEF Next, Application, Handler

(* After a connection has ended, whichever step of the handler or of the application
   it interrupted, its session takes no byte from a socket and hands none to one; an
   SSL call that was under way connects it again in name only (socket.c:331, 586,
   616): the handler never touches it again. *)
THEOREM VectorsEndedStaysEnded == Spec => EndedStaysEnded
  <1>1. IInv /\ [Next]_vars => [\A s \in Sockets : AfterEnd(s) /\ AfterRevival(s)]_vars
    BY EndedStep
  <1> QED
    BY <1>1, AlwaysIInv, PTL DEF Spec, EndedStaysEnded
-----------------------------------------------------------------------------
(* A socket with work left over is in the set of those to work on; a session
   starts with nothing left over from the one before. *)
Marked == WorkMarked
          /\ \A s \in Sockets : phase[s] = "free" => Len(work[s]) <= processed[s]

LEMMA MarkedNext ==
  ASSUME IInv, Marked, [Next]_vars PROVE Marked'
  <1>0. /\ \A s \in Sockets : work[s] \in Seq(Item) /\ processed[s] \in Nat
        /\ work = [c \in Sockets |-> work[c]]
        /\ processed = [c \in Sockets |-> processed[c]]
        /\ Control
    BY SizesAssumption DEF IInv, StoreOK, WorkOK
  <1> USE <1>0
      DEF Marked, WorkMarked, Control, ControlType, CurOK, Calls, IsOpen,
          session, buffers, fdSets, At
  <1>1. ASSUME NEW c \in Sockets, OpenSession(c) \/ Connect(c) \/ SecureCall(c)
        PROVE  Marked'
    BY <1>1 DEF OpenSession, Connect, SecureCall
  <1>2. CASE SecureDone
    <2>1. /\ cur \in Sockets /\ phase[cur] \in {"securing", "finished"}
          /\ UNCHANGED <<work, processed, working>>
      BY <1>2 DEF SecureDone
    <2>2. \A c \in Sockets : (phase'[c] = "free" <=> phase[c] = "free")
                             /\ (IsOpen(c)' <=> IsOpen(c))
      BY <1>2, <2>1 DEF SecureDone
    <2> QED
      BY <2>1, <2>2
  <1>3. ASSUME NEW c \in Sockets, AppClose(c) PROVE Marked'
    BY <1>3, EmptyIsSeq DEF AppClose
  <1>4. ASSUME NEW c \in Sockets,
               \/ \E n \in 1..ReadSize : AppRead(c, n)
               \/ \E d \in Data : AppWrite(c, d)
               \/ \E x \in Item : Arrive(c, x)
        PROVE  Marked'
    BY <1>4 DEF AppRead, AppWrite, Arrive
  <1>5. ASSUME NEW c \in Sockets, Close(c), UNCHANGED buffers PROVE Marked'
    BY <1>5 DEF Close
  <1>6. CASE \/ Dispatch \/ RaiseFlag \/ DropCall \/ ReadPhase \/ WritePhase \/ WorkPhase \/ Leave \/ Rearm
             \/ ReadSelect \/ WriteSelect \/ ReadScan \/ WriteScan \/ WorkScan
             \/ WriteDone \/ WorkStop \/ UNCHANGED vars
    BY <1>6
    DEF Dispatch, RaiseFlag, DropCall, ReadPhase, WritePhase, WorkPhase, Leave, Rearm, ReadSelect,
        WriteSelect, ReadScan, WriteScan, WorkScan, Scan, WriteDone, WorkStop, vars
  <1>7. CASE ReadCall \/ WriteCall
    BY <1>5, <1>7 DEF ReadCall, WriteCall, CloseFailed, Abort
  <1>8. CASE ReadDone
    BY <1>8 DEF ReadDone, FdSet
  <1>9. CASE WorkItem
    BY <1>9 DEF WorkItem, Workable
  <1>10. CASE WorkTail
    <2>1. cur \in Sockets
      BY <1>10 DEF WorkTail
    <2>2. Len(Drop(work[cur], processed[cur])) = Len(work[cur]) - processed[cur]
      <3>1. processed[cur] \in 0..Len(work[cur])
        BY <2>1 DEF IInv, StoreOK, WorkOK
      <3> QED
        BY <2>1, <3>1, DropIsSeq
    <2>3. IsOpen(cur) /\ Len(work[cur]) > processed[cur] => cur \in working'
      BY <1>10 DEF WorkTail, FdSet
    <2>4. \A s \in Sockets \ {cur} : /\ work'[s] = work[s]
                                    /\ processed'[s] = processed[s]
      BY <1>10, <2>1 DEF WorkTail
    <2>5. Len(work'[cur]) - processed'[cur] = Len(work[cur]) - processed[cur]
      <3>1. CASE UNCHANGED <<work, processed>>
        BY <3>1
      <3>2. CASE /\ work' = [work EXCEPT ![cur] = Drop(@, processed[cur])]
                 /\ processed' = [processed EXCEPT ![cur] = 0]
        BY <2>1, <2>2, <3>2
      <3> QED
        BY <1>10, <2>1, <3>1, <3>2, WorkTailDrains DEF IInv
    <2>6. /\ working \subseteq working' /\ phase' = phase
          /\ phase[cur] # "free"
      BY <1>10 DEF WorkTail, FdSet
    <2>7. /\ Len(work[cur]) \in Nat /\ processed[cur] \in Nat
          /\ Len(work'[cur]) \in Nat /\ processed'[cur] \in Nat
      <3>1. StoreOK'
        BY <1>10, IInvNext DEF IInv
      <3> QED
        BY <2>1, <3>1, SizesAssumption DEF StoreOK, WorkOK
    <2>8. ASSUME NEW s \in Sockets
          PROVE  /\ IsOpen(s) /\ Len(work'[s]) > processed'[s] => s \in working'
                 /\ phase[s] = "free" => Len(work'[s]) <= processed'[s]
      <3>1. CASE s = cur
        <4>1. Len(work'[cur]) > processed'[cur] => Len(work[cur]) > processed[cur]
          BY <2>5, <2>7
        <4> QED
          BY <2>3, <2>6, <3>1, <4>1
      <3>2. CASE s # cur
        BY <2>4, <2>6, <3>2
      <3> QED
        BY <3>1, <3>2
    <2> QED
      BY <2>6, <2>8
  <1> QED
    BY <1>1, <1>2, <1>3, <1>4, <1>5, <1>6, <1>7, <1>8, <1>9, <1>10
    DEF Next, Application, Event, Handler, PeerClose

(* Whatever ends or interrupts the handler, what has been read from a socket
   that is still open and not been worked on is remembered in the set that the
   work callback goes through. *)
THEOREM VectorsWorkMarked == Spec => []WorkMarked
  <1>1. Init => Marked
    BY EmptyIsSeq DEF Init, Marked, WorkMarked
  <1>2. IInv /\ Marked /\ [Next]_vars => Marked'
    BY MarkedNext
  <1>3. Marked => WorkMarked
    BY DEF Marked
  <1> QED
    BY <1>1, <1>2, <1>3, AlwaysIInv, PTL DEF Spec

(* Both hold of every run: what the handler goes through are open sockets, and
   all of those that wait for work. *)
THEOREM VectorsSetsAgree == Spec => []SetsAgree
  <1>1. FdSetsOpen /\ WorkMarked => SetsAgree
    BY DEF SetsAgree
  <1> QED
    BY <1>1, VectorsFdSetsOpen, VectorsWorkMarked, PTL
-----------------------------------------------------------------------------
(* A lost session has no socket until its application closes it.  A socket function is
   called for a socket that is connected, or was when the handler looked and has been
   lost since. *)
LostSince ==
  /\ \A s \in lost : phase[s] \in {"finished", "revived"}
  /\ pc \in {"readCall", "writeCall"}
       => phase[cur] = "connected" \/ (phase[cur] = "finished" /\ cur \in lost)
  /\ pc = "aborted" => phase[cur] = "finished" /\ cur \in lost

LEMMA LostSinceNext ==
  ASSUME Control, lost \subseteq Sockets, LostSince, [Next]_vars PROVE LostSince'
  <1> USE SocketsAssumption
      DEF LostSince, Control, ControlType, CurOK, Calls, FdSetsOpen, session, local, At, Goto,
          Idle
  <1>1. ASSUME NEW s \in Sockets,
               \/ OpenSession(s) \/ Connect(s) \/ SecureCall(s) \/ AppClose(s)
               \/ \E n \in 1..ReadSize : AppRead(s, n)
               \/ \E d \in Data : AppWrite(s, d)
        PROVE  LostSince'
    BY <1>1 DEF OpenSession, Connect, SecureCall, AppClose, AppRead, AppWrite
  <1>2. CASE SecureDone
    BY <1>2 DEF SecureDone, IsOpen
  <1>3. ASSUME NEW s \in Sockets, PeerClose(s) PROVE LostSince'
    BY <1>3 DEF PeerClose, Close
  <1>4. ASSUME NEW s \in Sockets, NEW x \in Item, Arrive(s, x) PROVE LostSince'
    BY <1>4 DEF Arrive
  <1>5. CASE \/ Dispatch \/ RaiseFlag \/ DropCall \/ ReadPhase \/ ReadSelect \/ WritePhase
             \/ WriteSelect \/ WorkPhase \/ WorkItem \/ WorkStop \/ Leave \/ Rearm
             \/ UNCHANGED vars
    BY <1>5
    DEF Dispatch, RaiseFlag, DropCall, ReadPhase, ReadSelect, WritePhase, WriteSelect,
        WorkPhase, WorkItem, WorkStop, Workable, Leave, Rearm, vars
  <1>6. CASE ReadScan \/ WriteScan \/ WorkScan
    BY <1>6 DEF ReadScan, WriteScan, WorkScan, Scan
  <1>7. CASE ReadDone \/ WriteDone \/ WorkTail
    BY <1>7 DEF ReadDone, WriteDone, WorkTail
  <1>8. CASE ReadCall \/ WriteCall
    BY <1>8 DEF ReadCall, WriteCall, CloseFailed, Close, Abort, IsOpen
  <1> QED
    BY <1>1, <1>2, <1>3, <1>4, <1>5, <1>6, <1>7, <1>8 DEF Next, Application, Event, Handler

(* The assertions of socketRead and socketWrite can fail for one reason only, that event
   3 ends this very session between the handler's look at CONNECTED (vectors.c:147, 180)
   and the call. *)
THEOREM VectorsAbortsNeedLoss == Spec => []AbortsNeedLoss
  <1>1. Init => LostSince
    BY DEF Init, LostSince
  <1>2. IInv /\ LostSince /\ [Next]_vars => LostSince'
    BY LostSinceNext DEF IInv, SetsOK
  <1>3. LostSince => AbortsNeedLoss
    BY DEF LostSince, AbortsNeedLoss
  <1> QED
    BY <1>1, <1>2, <1>3, AlwaysIInv, PTL DEF Spec
-----------------------------------------------------------------------------
LEMMA QuietStep ==
  ASSUME IInv, [Next]_vars, NEW s \in Sockets, phase[s] = "securing", phase'[s] = "securing"
  PROVE  read'[s] = read[s] /\ write'[s] = write[s]
  <1>0. /\ read = [c \in Sockets |-> read[c]] /\ write = [c \in Sockets |-> write[c]]
        /\ Control
    BY DEF IInv, StoreOK, ReadOK, WriteOK
  <1> USE <1>0 DEF Control, ControlType, CurOK, Calls, session, buffers, At
  <1>1. ASSUME NEW c \in Sockets,
               \/ OpenSession(c) \/ Connect(c) \/ SecureCall(c) \/ AppClose(c)
               \/ \E n \in 1..ReadSize : AppRead(c, n)
               \/ \E d \in Data : AppWrite(c, d)
        PROVE  read'[s] = read[s] /\ write'[s] = write[s]
    BY <1>1 DEF OpenSession, Connect, SecureCall, Greet, AppRead, AppWrite, AppClose, Usable
  <1>2. CASE Event
    BY <1>2 DEF Event, Arrive, PeerClose
  <1>3. CASE SecureDone
    <2>1. cur \in Sockets
      BY <1>3 DEF SecureDone
    <2>2. CASE s = cur
      <3>1. UNCHANGED <<read, write>>
        BY <1>3, <2>1, <2>2 DEF SecureDone
      <3> QED
        BY <3>1
    <2>3. CASE s # cur
      BY <1>3, <2>1, <2>3 DEF SecureDone, Greet
    <2> QED
      BY <2>2, <2>3
  <1>4. CASE \/ Dispatch \/ RaiseFlag \/ DropCall \/ ReadPhase \/ WritePhase \/ WorkPhase \/ Leave \/ Rearm
             \/ ReadSelect \/ WriteSelect \/ ReadScan \/ WriteScan \/ WorkScan
             \/ ReadDone \/ WorkStop \/ WorkTail \/ UNCHANGED vars
    BY <1>4
    DEF Dispatch, RaiseFlag, DropCall, ReadPhase, WritePhase, WorkPhase, Leave, Rearm, ReadSelect,
        WriteSelect, ReadScan, WriteScan, WorkScan, Scan, ReadDone,
        WorkStop, WorkTail, vars
  <1>5. CASE ReadCall \/ WriteCall
    BY <1>5 DEF ReadCall, WriteCall, CloseFailed, Abort
  <1>6. CASE WorkItem
    BY <1>6 DEF WorkItem, Workable
  <1>7. CASE WriteDone
    BY <1>7 DEF WriteDone
  <1> QED
    BY <1>1, <1>2, <1>3, <1>4, <1>5, <1>6, <1>7 DEF Next, Application, Handler

(* From the acceptance of SSL, which telnetWork may meet in the middle of the
   work buffer, to the end of the handshake neither the handler nor the
   application moves a byte of the session. *)
THEOREM VectorsQuietWhileSecuring == Spec => QuietWhileSecuring
  <1>1. IInv /\ [Next]_vars
          => [\A s \in Sockets :
               phase[s] = "securing" /\ phase'[s] = "securing"
                 => read'[s] = read[s] /\ write'[s] = write[s]]_vars
    BY QuietStep
  <1> QED
    BY <1>1, AlwaysIInv, PTL DEF Spec, QuietWhileSecuring
-----------------------------------------------------------------------------
(* Induction: a set of numbers that is not empty has a least one. *)
LEMMA LeastNumber ==
  ASSUME NEW T \in SUBSET Nat, T # {}
  PROVE  \E n \in T : \A m \in T : n <= m
  <1> DEFINE R == {p \in Nat \X Nat : p[1] < p[2]}
  <1>1. IsWellFoundedOn(OpToRel(<, Nat), Nat)
    BY NatLessThanWellFounded
  <1>2. IsWellFoundedOn(R, Nat)
    BY <1>1 DEF OpToRel
  <1>3. T \subseteq Nat
    OBVIOUS
  <1> HIDE DEF R
  <1>4. PICK n \in T : \A m \in T : ~(<<m, n>> \in R)
    BY <1>2, <1>3, WFMin, Zenon
  <1>5. ASSUME NEW m \in T PROVE n <= m
    <2>1. m \in Nat /\ n \in Nat
      OBVIOUS
    <2>2. ~(m < n)
      BY <1>4, <2>1 DEF R
    <2> QED
      BY <2>1, <2>2
  <1> QED
    BY <1>5

(* The data from each place of q on. *)
Walk(f, q, i) == IF i > Len(q) THEN <<>>
                 ELSE IF q[i] = "lead" THEN f[i + 2]
                 ELSE IF q[i] \in Data THEN <<q[i]>> \o f[i + 1]
                 ELSE f[i + 1]

Walks(f, q) == f = [i \in 1..(Len(q) + 2) |-> Walk(f, q, i)]

LEMMA PayloadChosen == ASSUME NEW q PROVE Payload(q) = (CHOOSE f : Walks(f, q))[1]
  BY DEF Payload, Walks, Walk

LEMMA WalkAt ==
  ASSUME NEW q \in Seq(Item), NEW f, Walks(f, q), NEW i \in 1..(Len(q) + 2)
  PROVE  f[i] = Walk(f, q, i)
  BY DEF Walks

LEMMA WalkExists ==
  ASSUME NEW q \in Seq(Item)
  PROVE  \E f : Walks(f, q)
  <1> DEFINE N == Len(q) + 2
             From(f, k) == f = [i \in k..N |-> Walk(f, q, i)]
             T == {m \in Nat : m <= N /\ ~\E f : From(f, N + 1 - m)}
  <1>0. N \in Nat /\ Len(q) \in Nat
    OBVIOUS
  <1>1. ASSUME T # {} PROVE FALSE
    <2>1. PICK m \in T : \A n \in T : m <= n
      BY <1>1, LeastNumber
    <2> DEFINE k == N + 1 - m
    <2>2. m # 0
      <3>1. From([i \in (N + 1)..N |-> 0], N + 1)
        <4>1. (N + 1)..N = {}
          BY <1>0
        <4> QED
          BY <4>1
      <3> QED
        BY <1>0, <3>1
    <2>3. m - 1 \in Nat /\ m - 1 <= N /\ N + 1 - (m - 1) = k + 1 /\ k \in 1..N /\ ~(m <= m - 1)
      <3>1. m \in Nat /\ m <= N
        OBVIOUS
      <3> QED
        BY <1>0, <2>2, <3>1
    <2>4. PICK f : From(f, k + 1)
      <3>1. m - 1 \notin T
        BY <2>1, <2>3
      <3>2. \E f : From(f, N + 1 - (m - 1))
        BY <2>3, <3>1
      <3> HIDE DEF From
      <3> QED
        BY <2>3, <3>2
    <2> DEFINE g == [i \in k..N |-> IF i = k THEN Walk(f, q, k) ELSE f[i]]
    <2>5. ASSUME NEW i \in k..N PROVE g[i] = Walk(g, q, i)
      <3>1. i \in Nat /\ k \in Nat /\ k <= i /\ i <= N
        BY <1>0, <2>3
      <3>2. CASE i > Len(q)
        <4>1. g[i] = Walk(f, q, i)
          <5>1. i # k => i \in (k + 1)..N
            BY <1>0, <3>1
          <5> QED
            BY <2>4, <5>1
        <4> QED
          BY <3>2, <4>1 DEF Walk
      <3>3. CASE i <= Len(q)
        <4>1. i + 1 \in (k + 1)..N /\ i + 2 \in (k + 1)..N /\ i + 1 \in k..N /\ i + 2 \in k..N
              /\ i + 1 # k /\ i + 2 # k
          BY <1>0, <3>1, <3>3
        <4>2. g[i + 1] = f[i + 1] /\ g[i + 2] = f[i + 2]
          BY <4>1
        <4>3. g[i] = Walk(f, q, i)
          <5>1. i # k => i \in (k + 1)..N
            BY <1>0, <3>1
          <5> QED
            BY <2>4, <5>1
        <4> HIDE DEF g
        <4> QED
          BY <4>2, <4>3 DEF Walk
      <3> QED
        BY <1>0, <3>1, <3>2, <3>3
    <2>6. From(g, k)
      <3>1. g = [i \in k..N |-> g[i]]
        OBVIOUS
      <3> HIDE DEF g
      <3> QED
        BY <2>5, <3>1
    <2> QED
      BY <2>1, <2>6
  <1>2. N \notin T
    BY <1>1
  <1>3. PICK f : From(f, N + 1 - N)
    BY <1>0, <1>2
  <1>4. N + 1 - N = 1
    BY <1>0
  <1>5. From(f, 1)
    BY <1>3, <1>4
  <1> QED
    BY <1>5 DEF Walks

LEMMA PayloadBy ==
  ASSUME NEW q \in Seq(Item)
  PROVE  \E f : Walks(f, q) /\ Payload(q) = f[1]
  <1> DEFINE g == CHOOSE f : Walks(f, q)
  <1>1. Walks(g, q)
    BY WalkExists
  <1> QED
    BY <1>1, PayloadChosen

(* The walk of a sequence behind another: from the same places the same data. *)
LEMMA WalkSame ==
  ASSUME NEW q \in Seq(Item), NEW r \in Seq(Item), NEW k \in Nat, Len(q) = Len(r) + k,
         \A i \in 1..Len(r) : r[i] = q[i + k],
         NEW f, NEW g, Walks(f, q), Walks(g, r)
  PROVE  \A i \in 1..(Len(r) + 2) : g[i] = f[i + k]
  <1> DEFINE N == Len(r) + 2
             T == {m \in Nat : N - m \in 1..N /\ g[N - m] # f[N - m + k]}
  <1>0. N \in Nat /\ Len(r) \in Nat
    OBVIOUS
  <1> SUFFICES ASSUME NEW j \in 1..N, g[j] # f[j + k] PROVE FALSE
    OBVIOUS
  <1>1. N - j \in Nat /\ N - (N - j) = j
    BY <1>0
  <1>2. N - j \in T
    BY <1>1
  <1>3. PICK m \in T : \A n \in T : m <= n
    BY <1>2, LeastNumber
  <1>4. PICK i \in 1..N : i = N - m /\ m \in Nat /\ i \in Nat /\ m = N - i /\ g[i] # f[i + k]
    BY <1>0, <1>3
  <1>5. ASSUME NEW n \in Nat, n \in 1..N, n > i PROVE g[n] = f[n + k]
    <2>1. N - n \in Nat /\ N - n < m /\ N - (N - n) = n
      BY <1>0, <1>4, <1>5
    <2>2. N - n \notin T
      <3> HIDE DEF T, N
      <3>1. PICK p \in Nat : p = N - n /\ ~(m <= p)
        BY <1>4, <2>1
      <3>2. p \notin T
        BY <1>3, <3>1
      <3> QED
        BY <3>1, <3>2
    <2> QED
      BY <1>5, <2>1, <2>2
  <1>6. i + k \in 1..(Len(q) + 2)
    BY <1>0, <1>4
  <1>7. g[i] = Walk(g, r, i) /\ f[i + k] = Walk(f, q, i + k)
    BY <1>6, WalkAt
  <1>8. CASE i > Len(r)
    <2>1. i + k > Len(q)
      BY <1>0, <1>4, <1>8
    <2> QED
      BY <1>4, <1>7, <1>8, <2>1 DEF Walk
  <1>9. CASE ~(i > Len(r))
    <2>1. /\ i \in 1..Len(r) /\ ~(i + k > Len(q)) /\ i + 1 \in Nat /\ i + 2 \in Nat
          /\ i + 1 \in 1..N /\ i + 2 \in 1..N /\ i + 1 > i /\ i + 2 > i
          /\ i + 1 + k = i + k + 1 /\ i + 2 + k = i + k + 2
      BY <1>0, <1>4, <1>9
    <2>2. g[i + 1] = f[i + k + 1] /\ g[i + 2] = f[i + k + 2]
      BY <1>5, <2>1
    <2>3. r[i] = q[i + k]
      BY <2>1
    <2> QED
      BY <1>4, <1>7, <1>9, <2>1, <2>2, <2>3 DEF Walk
  <1> QED
    BY <1>8, <1>9

(* The payload of a sequence by its first item. *)
LEMMA PayloadFirst ==
  ASSUME NEW q \in Seq(Item), q # <<>>
  PROVE  /\ q[1] \in Data => Payload(q) = <<q[1]>> \o Payload(Drop(q, 1))
         /\ q[1] = "lead" /\ Len(q) > 1 => Payload(q) = Payload(Drop(q, 2))
         /\ q[1] \notin Data /\ q[1] # "lead" => Payload(q) = Payload(Drop(q, 1))
  <1>1. Len(q) \in Nat \ {0} /\ "lead" \notin Data
    BY CommandsAssumption DEF AllCommands
  <1>2. PICK f : Walks(f, q) /\ Payload(q) = f[1]
    BY PayloadBy
  <1>3. Payload(q) = Walk(f, q, 1)
    <2>1. 1 \in 1..(Len(q) + 2)
      BY <1>1
    <2> QED
      BY <1>2, <2>1, WalkAt
  <1>4. ASSUME NEW k \in {1, 2}, k <= Len(q) PROVE Payload(Drop(q, k)) = f[k + 1]
    <2> DEFINE r == Drop(q, k)
    <2>1. /\ r \in Seq(Item) /\ Len(r) = Len(q) - k /\ \A i \in 1..Len(r) : r[i] = q[i + k]
          /\ k \in Nat
      BY <1>1, <1>4 DEF Drop
    <2> HIDE DEF r
    <2>2. PICK g : Walks(g, r) /\ Payload(r) = g[1]
      BY <2>1, PayloadBy
    <2>3. Len(q) = Len(r) + k /\ 1 \in 1..(Len(r) + 2)
      BY <1>1, <1>4, <2>1
    <2>4. \A i \in 1..(Len(r) + 2) : g[i] = f[i + k]
      BY <1>2, <2>1, <2>2, <2>3, WalkSame
    <2>5. g[1] = f[1 + k] /\ 1 + k = k + 1
      BY <2>1, <2>3, <2>4
    <2> QED
      BY <2>2, <2>5 DEF r
  <1>5. 1 <= Len(q) /\ 1 + 1 = 2 /\ 2 + 1 = 3 /\ 1 + 2 = 3 /\ ~(1 > Len(q))
    BY <1>1
  <1>6. Payload(Drop(q, 1)) = f[2]
    BY <1>4, <1>5
  <1>7. Len(q) > 1 => Payload(Drop(q, 2)) = f[3]
    BY <1>1, <1>4, <1>5
  <1>8. /\ q[1] = "lead" => Payload(q) = f[3]
        /\ q[1] # "lead" /\ q[1] \in Data => Payload(q) = <<q[1]>> \o f[2]
        /\ q[1] # "lead" /\ q[1] \notin Data => Payload(q) = f[2]
    BY <1>3, <1>5 DEF Walk
  <1> QED
    BY <1>1, <1>6, <1>7, <1>8

LEMMA PayloadEmpty == Payload(<<>>) = <<>>
  <1>1. <<>> \in Seq(Item) /\ Len(<<>>) = 0
    OBVIOUS
  <1>2. PICK f : Walks(f, <<>>) /\ Payload(<<>>) = f[1]
    BY <1>1, PayloadBy
  <1>3. f[1] = Walk(f, <<>>, 1)
    <2>1. 1 \in 1..(Len(<<>>) + 2)
      BY <1>1
    <2> QED
      BY <1>1, <1>2, <2>1, WalkAt
  <1> QED
    BY <1>1, <1>2, <1>3 DEF Walk

LEMMA WalkTyped ==
  ASSUME NEW q \in Seq(Item), NEW f, Walks(f, q)
  PROVE  \A i \in 1..(Len(q) + 2) : f[i] \in Seq(Data)
  <1> DEFINE N == Len(q) + 2
             T == {m \in Nat : N - m \in 1..N /\ f[N - m] \notin Seq(Data)}
  <1>0. N \in Nat /\ Len(q) \in Nat
    OBVIOUS
  <1> SUFFICES ASSUME NEW j \in 1..N, f[j] \notin Seq(Data) PROVE FALSE
    OBVIOUS
  <1>1. N - j \in Nat /\ N - (N - j) = j
    BY <1>0
  <1>2. N - j \in T
    BY <1>1
  <1>3. PICK m \in T : \A n \in T : m <= n
    BY <1>2, LeastNumber
  <1>4. PICK i \in 1..N : i = N - m /\ m \in Nat /\ i \in Nat /\ m = N - i /\ f[i] \notin Seq(Data)
    BY <1>0, <1>3
  <1>5. ASSUME NEW n \in Nat, n \in 1..N, n > i PROVE f[n] \in Seq(Data)
    <2>1. N - n \in Nat /\ N - n < m /\ N - (N - n) = n
      BY <1>0, <1>4, <1>5
    <2>2. N - n \notin T
      <3> HIDE DEF T, N
      <3>1. PICK p \in Nat : p = N - n /\ ~(m <= p)
        BY <1>4, <2>1
      <3>2. p \notin T
        BY <1>3, <3>1
      <3> QED
        BY <3>1, <3>2
    <2> QED
      BY <1>5, <2>1, <2>2
  <1>6. f[i] = Walk(f, q, i)
    BY WalkAt
  <1>7. CASE i > Len(q)
    BY <1>4, <1>6, <1>7, EmptyIsSeq DEF Walk
  <1>8. CASE ~(i > Len(q))
    <2>1. /\ i + 1 \in Nat /\ i + 2 \in Nat /\ i + 1 \in 1..N /\ i + 2 \in 1..N
          /\ i + 1 > i /\ i + 2 > i
      BY <1>0, <1>4, <1>8
    <2>2. f[i + 1] \in Seq(Data) /\ f[i + 2] \in Seq(Data)
      BY <1>5, <2>1
    <2>3. CASE q[i] \in Data /\ q[i] # "lead"
      <3>1. f[i] = <<q[i]>> \o f[i + 1]
        BY <1>6, <1>8, <2>3 DEF Walk
      <3>2. <<q[i]>> \o f[i + 1] \in Seq(Data)
        BY <2>2, <2>3
      <3> QED
        BY <1>4, <3>1, <3>2
    <2>4. CASE ~(q[i] \in Data /\ q[i] # "lead")
      BY <1>4, <1>6, <1>8, <2>2, <2>4 DEF Walk
    <2> QED
      BY <2>3, <2>4
  <1> QED
    BY <1>7, <1>8

LEMMA PayloadTyped == ASSUME NEW q \in Seq(Item) PROVE Payload(q) \in Seq(Data)
  <1>1. PICK f : Walks(f, q) /\ Payload(q) = f[1]
    BY PayloadBy
  <1>2. 1 \in 1..(Len(q) + 2)
    OBVIOUS
  <1> QED
    BY <1>1, <1>2, WalkTyped

(* Joining sequences of data. *)
LEMMA SameSeq ==
  ASSUME NEW S, NEW s \in Seq(S), NEW t \in Seq(S), Len(s) = Len(t),
         \A i \in 1..Len(s) : s[i] = t[i]
  PROVE  s = t
  OBVIOUS

LEMMA Regroup ==
  ASSUME NEW S, NEW a \in Seq(S), NEW b \in Seq(S), NEW c \in Seq(S)
  PROVE  (a \o b) \o c = a \o (b \o c)
  <1>1. /\ (a \o b) \o c \in Seq(S) /\ a \o (b \o c) \in Seq(S)
        /\ Len((a \o b) \o c) = Len(a \o (b \o c))
    OBVIOUS
  <1>2. ASSUME NEW i \in 1 .. Len((a \o b) \o c) PROVE ((a \o b) \o c)[i] = (a \o (b \o c))[i]
    OBVIOUS
  <1> QED
    BY <1>1, <1>2, SameSeq

Regroups(S) == \A a, b, c \in Seq(S) : (a \o b) \o c = a \o (b \o c)

LEMMA Regrouped == \A S : Regroups(S)
  BY Regroup DEF Regroups

LEMMA JoinEmpty ==
  ASSUME NEW S, NEW a \in Seq(S)
  PROVE  a \o <<>> = a /\ <<>> \o a = a
  <1>1. /\ a \o <<>> \in Seq(S) /\ <<>> \o a \in Seq(S)
        /\ Len(a \o <<>>) = Len(a) /\ Len(<<>> \o a) = Len(a)
        /\ \A i \in 1..Len(a) : (a \o <<>>)[i] = a[i] /\ (<<>> \o a)[i] = a[i]
    BY EmptyIsSeq
  <1> QED
    BY <1>1, SameSeq

LEMMA AppendIsJoin ==
  ASSUME NEW S, NEW a \in Seq(S), NEW e \in S
  PROVE  Append(a, e) = a \o <<e>>
  <1>1. /\ Append(a, e) \in Seq(S) /\ a \o <<e>> \in Seq(S)
        /\ Len(Append(a, e)) = Len(a \o <<e>>)
        /\ \A i \in 1..Len(Append(a, e)) : Append(a, e)[i] = (a \o <<e>>)[i]
    OBVIOUS
  <1> QED
    BY <1>1, SameSeq

(* An item that comes behind adds a byte or nothing. *)
LEMMA PayloadLast ==
  ASSUME NEW q \in Seq(Item), NEW x \in Item
  PROVE  \/ Payload(Append(q, x)) = Payload(q)
         \/ x \in Data /\ Payload(Append(q, x)) = Append(Payload(q), x)
  <1> DEFINE r == Append(q, x)
             L == Len(q)
             N == L + 2
  <1>1. /\ L \in Nat /\ r \in Seq(Item) /\ Len(r) = L + 1 /\ r[L + 1] = x
        /\ \A i \in 1..L : r[i] = q[i]
    OBVIOUS
  <1> HIDE DEF r
  <1>2. PICK f : Walks(f, q) /\ Payload(q) = f[1]
    BY PayloadBy
  <1>3. PICK g : Walks(g, r) /\ Payload(r) = g[1]
    BY <1>1, PayloadBy
  <1>4. /\ \A i \in 1..N : f[i] = Walk(f, q, i) /\ f[i] \in Seq(Data)
        /\ \A i \in 1..(N + 1) : g[i] = Walk(g, r, i)
    <2>1. Len(q) + 2 = N /\ Len(r) + 2 = N + 1
      BY <1>1
    <2>2. \A i \in 1..(Len(q) + 2) : f[i] = Walk(f, q, i) /\ f[i] \in Seq(Data)
      BY <1>2, WalkAt, WalkTyped
    <2>3. \A i \in 1..(Len(r) + 2) : g[i] = Walk(g, r, i)
      BY <1>1, <1>3, WalkAt
    <2> QED
      BY <2>1, <2>2, <2>3
  <1> DEFINE Good(i) == \/ g[i] = f[i]
                        \/ x \in Data /\ g[i] = f[i] \o <<x>>
  <1>5. Good(1)
    <2> DEFINE T == {m \in Nat : N - m \in 1..N /\ ~Good(N - m)}
    <2>0. N \in Nat /\ 1 \in 1..N
      BY <1>1
    <2> SUFFICES ASSUME ~Good(1) PROVE FALSE
      OBVIOUS
    <2> HIDE DEF Good
    <2>1. N - 1 \in T
      BY <2>0, <1>1
    <2>2. PICK m \in T : \A n \in T : m <= n
      BY <2>1, LeastNumber
    <2>3. PICK i \in 1..N : i = N - m /\ m \in Nat /\ i \in Nat /\ m = N - i /\ ~Good(i)
      BY <2>0, <2>2
    <2>4. ASSUME NEW n \in Nat, n \in 1..N, n > i PROVE Good(n)
      <3>1. N - n \in Nat /\ N - n < m /\ N - (N - n) = n
        BY <2>0, <2>3, <2>4
      <3>2. N - n \notin T
        <4> HIDE DEF T, N
        <4>1. PICK p \in Nat : p = N - n /\ ~(m <= p)
          BY <2>3, <3>1
        <4>2. p \notin T
          BY <2>2, <4>1
        <4> QED
          BY <4>1, <4>2
      <3> QED
        BY <2>4, <3>1, <3>2
    <2>5. i \in 1..(N + 1) /\ g[i] = Walk(g, r, i) /\ f[i] = Walk(f, q, i)
      BY <1>4, <2>0
    <2>6. CASE i = L + 2
      <3>1. i > Len(r) /\ i > Len(q)
        BY <1>1, <2>6
      <3> QED
        BY <2>3, <2>5, <3>1 DEF Good, Walk
    <2>7. CASE i = L + 1
      <3>1. i > Len(q) /\ ~(i > Len(r)) /\ r[i] = x
        BY <1>1, <2>7
      <3>2. f[i] = <<>>
        BY <2>5, <3>1 DEF Walk
      <3>3. g[i + 1] = <<>> /\ g[i + 2] = <<>>
        <4>1. /\ i + 1 \in 1..(N + 1) /\ i + 2 \in 1..(N + 1)
              /\ i + 1 > Len(r) /\ i + 2 > Len(r)
          BY <1>1, <2>7
        <4>2. g[i + 1] = Walk(g, r, i + 1) /\ g[i + 2] = Walk(g, r, i + 2)
          BY <1>4, <4>1
        <4> QED
          BY <4>1, <4>2 DEF Walk
      <3>4. g[i] = IF x \in Data /\ x # "lead" THEN <<x>> \o <<>> ELSE <<>>
        BY <2>5, <3>1, <3>3 DEF Walk
      <3>5. x \in Data => <<x>> \o <<>> = <<>> \o <<x>>
        <4> SUFFICES ASSUME x \in Data PROVE <<x>> \o <<>> = <<>> \o <<x>>
          OBVIOUS
        <4>1. <<x>> \in Seq(Data)
          OBVIOUS
        <4> QED
          BY <4>1, JoinEmpty
      <3>6. CASE x \in Data /\ x # "lead"
        BY <2>3, <3>2, <3>4, <3>5, <3>6 DEF Good
      <3>7. CASE ~(x \in Data /\ x # "lead")
        BY <2>3, <3>2, <3>4, <3>7 DEF Good
      <3> QED
        BY <3>6, <3>7
    <2>8. CASE i # L + 1 /\ i # L + 2
      <3>1. /\ i \in 1..L /\ ~(i > Len(q)) /\ ~(i > Len(r)) /\ r[i] = q[i]
            /\ i + 1 \in Nat /\ i + 2 \in Nat /\ i + 1 \in 1..N /\ i + 2 \in 1..N
            /\ i + 1 > i /\ i + 2 > i
        BY <1>1, <2>3, <2>8
      <3>2. Good(i + 1) /\ Good(i + 2)
        BY <2>4, <3>1
      <3>3. CASE q[i] = "lead"
        <4>1. g[i] = g[i + 2] /\ f[i] = f[i + 2]
          BY <2>5, <3>1, <3>3 DEF Walk
        <4> QED
          BY <2>3, <3>2, <4>1 DEF Good
      <3>4. CASE q[i] # "lead" /\ q[i] \notin Data
        <4>1. g[i] = g[i + 1] /\ f[i] = f[i + 1]
          BY <2>5, <3>1, <3>4 DEF Walk
        <4> QED
          BY <2>3, <3>2, <4>1 DEF Good
      <3>5. CASE q[i] # "lead" /\ q[i] \in Data
        <4>1. g[i] = <<q[i]>> \o g[i + 1] /\ f[i] = <<q[i]>> \o f[i + 1]
          BY <2>5, <3>1, <3>5 DEF Walk
        <4>2. CASE g[i + 1] = f[i + 1]
          BY <2>3, <4>1, <4>2 DEF Good
        <4>3. CASE x \in Data /\ g[i + 1] = f[i + 1] \o <<x>>
          <5>1. <<q[i]>> \in Seq(Data) /\ <<x>> \in Seq(Data) /\ f[i + 1] \in Seq(Data)
            BY <1>4, <3>1, <3>5, <4>3
          <5>2. PICK a \in Seq(Data), b \in Seq(Data), c \in Seq(Data) :
                  a = <<q[i]>> /\ b = f[i + 1] /\ c = <<x>>
            BY <5>1, Zenon
          <5>3. (a \o b) \o c = a \o (b \o c)
            <6>1. Regroups(Data)
              BY Regrouped
            <6> QED
              BY <6>1, Zenon DEF Regroups
          <5>4. g[i] = f[i] \o <<x>>
            BY <4>1, <4>3, <5>2, <5>3
          <5> QED
            BY <2>3, <4>3, <5>4 DEF Good
        <4> QED
          BY <3>2, <4>2, <4>3 DEF Good
      <3> QED
        BY <3>3, <3>4, <3>5
    <2> QED
      BY <2>6, <2>7, <2>8
  <1>6. x \in Data => Append(f[1], x) = f[1] \o <<x>>
    <2>1. f[1] \in Seq(Data)
      <3>1. 1 \in 1..N
        BY <1>1
      <3> QED
        BY <1>4, <3>1
    <2> QED
      BY <2>1, AppendIsJoin
  <1> QED
    BY <1>2, <1>3, <1>5, <1>6 DEF r
-----------------------------------------------------------------------------
(* What a session shows of the pipe. *)
Ready(s) == IF IsOpen(s) THEN read[s] ELSE <<>>
Coming(s) == IF IsOpen(s) THEN Payload(Unread(s)) ELSE <<>>
PipeStep(s) == [PipeOf(s)!PipeNext]_(PipeOf(s)!pvars)

(* Steps of a pipe, from what is seen of a session before and after. *)
LEMMA PipeStutter ==
  ASSUME NEW s \in Sockets, Ready(s)' = Ready(s), Coming(s)' = Coming(s)
  PROVE  PipeStep(s)
  BY DEF PipeOf!pvars, Ready, Coming, PipeStep

LEMMA PipeCut ==
  ASSUME NEW s \in Sockets, ~IsOpen(s)'
  PROVE  PipeStep(s)
  BY DEF PipeOf!PipeNext, PipeOf!Cut, PipeStep

LEMMA PipeSend ==
  ASSUME NEW s \in Sockets, IsOpen(s), IsOpen(s)', Ready(s)' = Ready(s), NEW d \in Data,
         Coming(s)' = Append(Coming(s), d)
  PROVE  PipeStep(s)
  <1>1. PipeOf(s)!Send
    BY DEF PipeOf!Send, Ready, Coming
  <1> QED
    BY <1>1 DEF PipeStep, PipeOf!PipeNext

(* A step that moves no byte of a session. *)
LEMMA PipeFrame ==
  ASSUME NEW s \in Sockets, IsOpen(s)' = IsOpen(s),
         work'[s] = work[s], processed'[s] = processed[s], inq'[s] = inq[s],
         read'[s] = read[s],
         \/ cur' = cur /\ got' = got
         \/ got = <<>> /\ got' = <<>>
         \/ cur # s /\ cur' # s
  PROVE  PipeStep(s)
  <1>1. Unread(s)' = Unread(s)
    BY DEF Unread
  <1>2. Ready(s)' = Ready(s) /\ Coming(s)' = Coming(s)
    BY <1>1 DEF Ready, Coming
  <1> QED
    BY <1>2, PipeStutter

(* A session starts with an empty pipe; bytes are on their way between the two
   halves of socketRead only. *)
Fresh ==
  /\ pc # "readDone" => got = <<>>
  /\ \A s \in Sockets : phase[s] = "free" => read[s] = <<>> /\ work[s] = <<>> /\ inq[s] = <<>>

LEMMA FreshInit == Init => Fresh
  BY DEF Init, Fresh

LEMMA FreshApplication == ASSUME IInv, Fresh, Application PROVE Fresh'
  <1> USE DEF IInv, Control, ControlType, StoreOK, InqOK, ReadOK, WorkOK, Fresh, local, buffers,
              session, Idle, At, Goto
  <1>1. PICK s \in Sockets : \/ OpenSession(s) \/ Connect(s) \/ SecureCall(s) \/ AppClose(s)
                             \/ \E n \in 1..ReadSize : AppRead(s, n)
                             \/ \E d \in Data : AppWrite(s, d)
    BY DEF Application
  <1>2. CASE OpenSession(s) \/ Connect(s) \/ SecureCall(s)
    BY <1>2 DEF OpenSession, Connect, SecureCall
  <1>3. CASE AppClose(s)
    BY <1>3 DEF AppClose
  <1>4. ASSUME NEW n, AppRead(s, n) PROVE Fresh'
    BY <1>4 DEF AppRead, Usable
  <1>5. ASSUME NEW d, AppWrite(s, d) PROVE Fresh'
    BY <1>5 DEF AppWrite, Usable
  <1> QED
    BY <1>1, <1>2, <1>3, <1>4, <1>5

LEMMA FreshSecureDone == ASSUME IInv, Fresh, SecureDone PROVE Fresh'
  <1>1. /\ cur \in Sockets /\ phase[cur] # "free" /\ pc # "readDone"
        /\ UNCHANGED <<read, work, inq, got>>
    BY DEF SecureDone, IInv, Control, CurOK
  <1>2. \A s \in Sockets : phase'[s] = "free" => phase[s] = "free"
    BY <1>1 DEF SecureDone, IInv, Control, ControlType
  <1> QED
    BY <1>1, <1>2 DEF Fresh

LEMMA FreshEvent == ASSUME IInv, Fresh, Event PROVE Fresh'
  <1> USE DEF IInv, Control, ControlType, StoreOK, InqOK, ReadOK, WorkOK, Fresh, local, buffers
  <1>1. ASSUME NEW s \in Sockets, PeerClose(s) PROVE Fresh'
    BY <1>1 DEF PeerClose, Close
  <1>2. ASSUME NEW s \in Sockets, NEW x, Arrive(s, x) PROVE Fresh'
    BY <1>2 DEF Arrive, PeerMaySend, IsOpen, session
  <1> QED
    BY <1>1, <1>2 DEF Event

LEMMA FreshHandler ==
  ASSUME IInv, Fresh, Dispatch \/ RaiseFlag \/ DropCall \/ Handler PROVE Fresh'
  <1> USE DEF IInv, Control, ControlType, CurOK, Calls, StoreOK, InqOK, ReadOK, WorkOK, Fresh,
              local, buffers, session, At, Goto
  <1>1. CASE Dispatch \/ ReadPhase \/ WritePhase \/ WorkPhase \/ Leave \/ Rearm \/ WorkStop
    <2>1. pc # "readDone" /\ UNCHANGED <<phase, read, work, inq, got>>
      BY <1>1 DEF Idle, Dispatch, ReadPhase, WritePhase, WorkPhase, Leave, Rearm, WorkStop
    <2> QED
      BY <2>1
  <1>2. CASE ReadSelect \/ WriteSelect
    BY <1>2 DEF ReadSelect, WriteSelect
  <1>3. CASE ReadScan \/ WriteScan \/ WorkScan
    BY <1>3 DEF ReadScan, WriteScan, WorkScan, Scan
  <1>4. CASE ReadCall
    <2>1. CASE pc' # "readDone" /\ got' = <<>> /\ UNCHANGED <<read, work, phase, inq>>
      BY <2>1
    <2>2. CASE CloseFailed("readScan")
      BY <1>4, <2>2 DEF CloseFailed, Close, ReadCall
    <2>3. CASE /\ phase[cur] = "connected" /\ UNCHANGED <<session, buffers>>
               /\ LET n == Least(WorkSize - Len(work[cur]), Len(inq[cur])) IN
                  /\ got' = SubSeq(inq[cur], 1, n)
                  /\ inq' = [inq EXCEPT ![cur] = Drop(@, n)]
                  /\ IF n = 0 THEN Goto("readScan") /\ cur' = None
                              ELSE Goto("readDone") /\ cur' = cur
      <3>1. \A s \in Sockets : phase[s] = "free" => inq'[s] = inq[s]
        BY <1>4, <2>3 DEF ReadCall
      <3>2. pc' # "readDone" => got' = <<>>
        <4>1. cur \in Sockets
          BY <1>4 DEF ReadCall
        <4>2. inq[cur] \in Seq(Item)
          BY <4>1
        <4>3. SubSeq(inq[cur], 1, 0) = <<>>
          BY <4>2
        <4> QED
          BY <2>3, <4>3
      <3> QED
        BY <2>3, <3>1, <3>2
    <2> QED
      BY <1>4, <2>1, <2>2, <2>3 DEF ReadCall, Abort
  <1>5. CASE ReadDone
    BY <1>5 DEF ReadDone
  <1>6. CASE WriteCall
    <2>1. CASE CloseFailed("writeScan")
      BY <1>6, <2>1 DEF CloseFailed, Close, WriteCall
    <2>2. CASE pc' # "readDone" /\ got' = <<>> /\ UNCHANGED <<read, work, phase, inq>>
      BY <2>2
    <2> QED
      BY <1>6, <2>1, <2>2 DEF WriteCall, Abort
  <1>7. CASE WriteDone
    BY <1>7 DEF WriteDone
  <1>8. CASE WorkItem
    BY <1>8 DEF WorkItem, Workable
  <1>9. CASE WorkTail
    BY <1>9 DEF WorkTail
  <1>10. CASE RaiseFlag \/ DropCall
    BY <1>10 DEF RaiseFlag, DropCall
  <1> QED
    BY <1>1, <1>2, <1>3, <1>4, <1>5, <1>6, <1>7, <1>8, <1>9, <1>10 DEF Handler

LEMMA FreshNext == ASSUME IInv, Fresh, [Next]_vars PROVE Fresh'
  <1>1. CASE UNCHANGED vars
    BY <1>1 DEF vars, session, buffers, local, Fresh
  <1> QED
    BY <1>1, FreshApplication, FreshSecureDone, FreshEvent, FreshHandler DEF Next
-----------------------------------------------------------------------------
(* Parts of sequences. *)
LEMMA DropsNothing == ASSUME NEW S, NEW q \in Seq(S) PROVE Drop(q, 0) = q
  <1>1. Drop(q, 0) \in Seq(S) /\ Len(Drop(q, 0)) = Len(q) /\ \A i \in 1..Len(q) : Drop(q, 0)[i] = q[i]
    BY DEF Drop
  <1> QED
    BY <1>1, SameSeq

(* Dropping from what is joined, and joining what is dropped. *)
LEMMA DropJoin ==
  ASSUME NEW S, NEW a \in Seq(S), NEW b \in Seq(S), NEW n \in 0..Len(a)
  PROVE  Drop(a \o b, n) = Drop(a, n) \o b
  <1>1. Len(a) \in Nat /\ Len(b) \in Nat /\ n \in Nat /\ n <= Len(a)
    OBVIOUS
  <1>2. a \o b \in Seq(S) /\ Len(a \o b) = Len(a) + Len(b)
        /\ \A i \in 1..(Len(a) + Len(b)) : (a \o b)[i] = IF i <= Len(a) THEN a[i] ELSE b[i - Len(a)]
    OBVIOUS
  <1>3. Drop(a, n) \in Seq(S) /\ Len(Drop(a, n)) = Len(a) - n
        /\ \A i \in 1..(Len(a) - n) : Drop(a, n)[i] = a[i + n]
    BY <1>1 DEF Drop
  <1> DEFINE c == a \o b
             d == Drop(a, n)
  <1> HIDE DEF c, d
  <1>4. Drop(c, n) \in Seq(S) /\ Len(Drop(c, n)) = Len(c) - n
        /\ \A i \in 1..(Len(c) - n) : Drop(c, n)[i] = c[i + n]
    BY <1>1, <1>2 DEF Drop, c
  <1>5. d \o b \in Seq(S) /\ Len(d \o b) = Len(d) + Len(b)
        /\ \A i \in 1..(Len(d) + Len(b)) : (d \o b)[i] = IF i <= Len(d) THEN d[i] ELSE b[i - Len(d)]
    <2>1. d \in Seq(S)
      BY <1>3 DEF d
    <2> QED
      BY <2>1
  <1>6. Len(Drop(c, n)) = Len(d \o b)
    BY <1>1, <1>2, <1>3, <1>4, <1>5 DEF c, d
  <1>7. ASSUME NEW i \in 1..Len(Drop(c, n)) PROVE Drop(c, n)[i] = (d \o b)[i]
    <2>0. /\ Len(c) = Len(a) + Len(b) /\ Len(d) = Len(a) - n /\ i \in Nat
          /\ i \in 1..(Len(c) - n) /\ i + n \in 1..(Len(a) + Len(b)) /\ i \in 1..(Len(d) + Len(b))
          /\ i + n - Len(a) = i - Len(d)
      BY <1>1, <1>2, <1>3, <1>4 DEF c, d
    <2>1. Drop(c, n)[i] = c[i + n] /\ (d \o b)[i] = IF i <= Len(d) THEN d[i] ELSE b[i - Len(d)]
      BY <1>4, <1>5, <2>0
    <2>2. c[i + n] = IF i + n <= Len(a) THEN a[i + n] ELSE b[i + n - Len(a)]
      BY <1>2, <2>0 DEF c
    <2>3. CASE i <= Len(d)
      <3>1. i + n <= Len(a) /\ i \in 1..(Len(a) - n)
        BY <1>1, <2>0, <2>3
      <3>2. d[i] = a[i + n]
        BY <1>3, <3>1 DEF d
      <3> QED
        BY <2>1, <2>2, <2>3, <3>1, <3>2
    <2>4. CASE ~(i <= Len(d))
      <3>1. ~(i + n <= Len(a))
        BY <1>1, <2>0, <2>4
      <3> QED
        BY <2>0, <2>1, <2>2, <2>4, <3>1
    <2> QED
      BY <2>3, <2>4
  <1>8. Drop(c, n) = d \o b
    BY <1>4, <1>5, <1>6, <1>7, SameSeq
  <1> QED
    BY <1>8 DEF c, d

LEMMA DropDrop ==
  ASSUME NEW S, NEW a \in Seq(S), NEW m \in Nat, NEW n \in Nat, m + n <= Len(a)
  PROVE  Drop(Drop(a, m), n) = Drop(a, m + n)
  <1> DEFINE d == Drop(a, m)
  <1>1. d \in Seq(S) /\ Len(d) = Len(a) - m /\ \A i \in 1..(Len(a) - m) : d[i] = a[i + m]
    BY DEF Drop
  <1> HIDE DEF d
  <1>2. /\ Drop(d, n) \in Seq(S) /\ Len(Drop(d, n)) = Len(a) - m - n
        /\ \A i \in 1..(Len(a) - m - n) : Drop(d, n)[i] = d[i + n]
    BY <1>1 DEF Drop
  <1>3. /\ Drop(a, m + n) \in Seq(S) /\ Len(Drop(a, m + n)) = Len(a) - (m + n)
        /\ \A i \in 1..(Len(a) - (m + n)) : Drop(a, m + n)[i] = a[i + (m + n)]
    BY DEF Drop
  <1>4. ASSUME NEW i \in 1..Len(Drop(d, n)) PROVE Drop(d, n)[i] = Drop(a, m + n)[i]
    <2>1. /\ i \in 1..(Len(a) - m - n) /\ i \in 1..(Len(a) - (m + n)) /\ i + n \in 1..(Len(a) - m)
          /\ i + n + m = i + (m + n)
      BY <1>2
    <2>2. Drop(d, n)[i] = d[i + n] /\ d[i + n] = a[i + n + m] /\ Drop(a, m + n)[i] = a[i + (m + n)]
      BY <1>1, <1>2, <1>3, <2>1
    <2> QED
      BY <2>1, <2>2
  <1>5. Len(Drop(d, n)) = Len(Drop(a, m + n))
    <2>1. Len(a) - m - n = Len(a) - (m + n)
      <3>1. Len(a) \in Nat
        OBVIOUS
      <3> QED
        BY <3>1
    <2>2. Len(Drop(d, n)) = Len(a) - m - n
      BY ONLY <1>2
    <2>3. Len(Drop(a, m + n)) = Len(a) - (m + n)
      BY ONLY <1>3
    <2> QED
      BY ONLY <2>1, <2>2, <2>3
  <1>6. Drop(d, n) = Drop(a, m + n)
    BY <1>2, <1>3, <1>4, <1>5, SameSeq
  <1> QED
    BY <1>6 DEF d

LEMMA TakeDrop ==
  ASSUME NEW S, NEW a \in Seq(S), NEW n \in 0..Len(a)
  PROVE  SubSeq(a, 1, n) \o Drop(a, n) = a
  <1> DEFINE t == SubSeq(a, 1, n)
             d == Drop(a, n)
  <1>1. Len(a) \in Nat /\ n \in Nat /\ n <= Len(a)
    OBVIOUS
  <1>2. t \in Seq(S) /\ Len(t) = n /\ \A i \in 1..n : t[i] = a[i]
    BY <1>1
  <1>3. d \in Seq(S) /\ Len(d) = Len(a) - n /\ \A i \in 1..(Len(a) - n) : d[i] = a[i + n]
    BY <1>1 DEF Drop
  <1> HIDE DEF t, d
  <1>4. /\ t \o d \in Seq(S) /\ Len(t \o d) = Len(t) + Len(d)
        /\ \A i \in 1..(Len(t) + Len(d)) : (t \o d)[i] = IF i <= Len(t) THEN t[i] ELSE d[i - Len(t)]
    BY <1>2, <1>3
  <1>5. Len(t \o d) = Len(a)
    BY <1>1, <1>2, <1>3, <1>4
  <1>6. ASSUME NEW i \in 1..Len(t \o d) PROVE (t \o d)[i] = a[i]
    <2>1. i \in 1..(Len(t) + Len(d)) /\ i \in Nat
      BY <1>4
    <2>2. (t \o d)[i] = IF i <= Len(t) THEN t[i] ELSE d[i - Len(t)]
      BY <1>4, <2>1
    <2>3. CASE i <= Len(t)
      <3>1. i \in 1..n
        BY <1>2, <2>1, <2>3
      <3> QED
        BY <1>2, <2>2, <2>3, <3>1
    <2>4. CASE ~(i <= Len(t))
      <3>1. i - n \in 1..(Len(a) - n) /\ i - Len(t) = i - n /\ i - n + n = i
        BY <1>1, <1>2, <1>3, <2>1, <2>4
      <3>2. d[i - n] = a[i]
        <4>1. PICK k \in 1..(Len(a) - n) : k = i - n /\ k + n = i
          BY <3>1
        <4>2. d[k] = a[k + n]
          BY <1>3
        <4> QED
          BY <4>1, <4>2
      <3> QED
        BY <2>2, <2>4, <3>1, <3>2
    <2> QED
      BY <2>3, <2>4
  <1>7. t \o d = a
    BY <1>4, <1>5, <1>6, SameSeq
  <1> QED
    BY <1>7 DEF t, d
-----------------------------------------------------------------------------
LEMMA PipeDeliver ==
  ASSUME NEW s \in Sockets, IsOpen(s), IsOpen(s)', NEW d \in Data, NEW q \in Seq(Data),
         Ready(s) \in Seq(Data), Len(Ready(s)) < ReadSize,
         Ready(s)' = Append(Ready(s), d), Coming(s) = <<d>> \o q, Coming(s)' = q
  PROVE  PipeStep(s)
  <1> DEFINE c == <<d>> \o q
             r == Ready(s)
  <1>1. /\ c \in Seq(Data) /\ Len(c) = 1 + Len(q) /\ c[1] = d
        /\ \A i \in 1..Len(q) : c[i + 1] = q[i]
    OBVIOUS
  <1>2. Len(c) \in Nat /\ Len(c) >= 1 /\ 1 \in 1..Len(c)
    BY <1>1
  <1> HIDE DEF c
  <1>3. SubSeq(c, 1, 1) = <<d>>
    <2>1. /\ SubSeq(c, 1, 1) \in Seq(Data) /\ Len(SubSeq(c, 1, 1)) = 1
          /\ SubSeq(c, 1, 1)[1] = c[1]
      BY <1>1, <1>2
    <2>2. <<d>> \in Seq(Data) /\ Len(<<d>>) = 1 /\ <<d>>[1] = d
      OBVIOUS
    <2>3. \A i \in 1..1 : SubSeq(c, 1, 1)[i] = <<d>>[i]
      BY <1>1, <2>1, <2>2
    <2> QED
      BY <2>1, <2>2, <2>3, SameSeq
  <1>4. SubSeq(c, 1 + 1, Len(c)) = q
    <2>1. /\ SubSeq(c, 1 + 1, Len(c)) \in Seq(Data)
          /\ Len(SubSeq(c, 1 + 1, Len(c))) = Len(q)
          /\ \A i \in 1..Len(q) : SubSeq(c, 1 + 1, Len(c))[i] = c[i + 1]
      BY <1>1, <1>2
    <2> QED
      BY <1>1, <2>1, SameSeq
  <1>5. r \in Seq(Data) /\ Len(r) + 1 <= ReadSize
    BY SizesAssumption
  <1>6. Append(r, d) = r \o SubSeq(c, 1, 1)
    BY <1>3, <1>5, AppendIsJoin
  <1>7. PipeOf(s)!Deliver
    <2>1. Coming(s) = c
      BY DEF c
    <2>2. Coming(s) = IF IsOpen(s) THEN Payload(Unread(s)) ELSE <<>>
      BY DEF Coming
    <2>3. Coming(s)' = IF IsOpen(s)' THEN Payload(Unread(s))' ELSE <<>>
      BY DEF Coming
    <2>4. r = IF IsOpen(s) THEN read[s] ELSE <<>>
      BY DEF Ready
    <2>5. Ready(s)' = IF IsOpen(s)' THEN read'[s] ELSE <<>>
      BY DEF Ready
    <2> HIDE DEF r
    <2>6. Ready(s)' = r \o SubSeq(c, 1, 1)
      BY <1>6 DEF r
    <2> QED
      BY <1>2, <1>4, <1>5, <2>1, <2>2, <2>3, <2>4, <2>5, <2>6 DEF PipeOf!Deliver
  <1> QED
    BY <1>7 DEF PipeStep, PipeOf!PipeNext

LEMMA PipeEcho ==
  ASSUME NEW s \in Sockets, NEW d \in Data, Len(Ready(s)) < ReadSize,
         Ready(s)' = Append(Ready(s), d), Coming(s)' = Coming(s)
  PROVE  PipeStep(s)
  <1>1. PipeOf(s)!EchoByte
    BY DEF PipeOf!EchoByte, Ready, Coming
  <1> QED
    BY <1>1 DEF PipeStep, PipeOf!PipeNext

LEMMA PipeHandOver ==
  ASSUME NEW s \in Sockets, NEW n \in Nat, n <= Len(Ready(s)), Ready(s) \in Seq(Data),
         Ready(s)' = Drop(Ready(s), n), Coming(s)' = Coming(s)
  PROVE  PipeStep(s)
  <1>1. CASE n = 0
    BY <1>1, DropsNothing, PipeStutter
  <1>2. CASE n # 0
    <2>1. n \in 1..Len(Ready(s))
      BY <1>2
    <2>2. PipeOf(s)!HandOver
      BY <2>1 DEF PipeOf!HandOver, Ready, Coming, Drop
    <2> QED
      BY <2>2 DEF PipeStep, PipeOf!PipeNext
  <1> QED
    BY <1>1, <1>2

(* What is left of a work buffer, a read under way and the network's bytes. *)
LEMMA UnreadTyped ==
  ASSUME NEW w \in Seq(Item), NEW p \in 0..Len(w), NEW g \in Seq(Item), NEW i \in Seq(Item)
  PROVE  /\ Drop(w, p) \in Seq(Item)
         /\ (Drop(w, p) \o g) \o i \in Seq(Item)
         /\ (Drop(w, p) \o <<>>) \o i = Drop(w, p) \o i
  <1>1. Drop(w, p) \in Seq(Item)
    BY DEF Drop
  <1>2. Drop(w, p) \o <<>> = Drop(w, p)
    BY <1>1, JoinEmpty
  <1> QED
    BY <1>1, <1>2

LEMMA UnreadIs ==
  ASSUME IInv, Fresh, NEW s \in Sockets
  PROVE  /\ Unread(s) \in Seq(Item)
         /\ pc # "readDone" \/ cur # s => Unread(s) = Drop(work[s], processed[s]) \o inq[s]
         /\ work[s] \in Seq(Item) /\ inq[s] \in Seq(Item) /\ got \in Seq(Item)
         /\ processed[s] \in 0..Len(work[s])
         /\ read[s] \in Seq(Data) /\ Len(read[s]) <= ReadSize
  <1>1. /\ work[s] \in Seq(Item) /\ inq[s] \in Seq(Item) /\ got \in Seq(Item)
        /\ processed[s] \in 0..Len(work[s])
        /\ read[s] \in Seq(Data) /\ Len(read[s]) <= ReadSize
    BY DEF IInv, StoreOK, InqOK, ReadOK, WorkOK, GotOK
  <1>2. <<>> \in Seq(Item)
    BY EmptyIsSeq
  <1>3. Unread(s) \in Seq(Item)
    BY <1>1, <1>2, UnreadTyped DEF Unread
  <1>4. ASSUME pc # "readDone" \/ cur # s PROVE Unread(s) = Drop(work[s], processed[s]) \o inq[s]
    <2>1. Unread(s) = (Drop(work[s], processed[s]) \o <<>>) \o inq[s]
      BY <1>4 DEF Unread, Fresh
    <2> QED
      BY <1>1, <1>2, <2>1, UnreadTyped
  <1> QED
    BY <1>1, <1>3, <1>4
-----------------------------------------------------------------------------
(* The application's steps. *)
LEMMA PipeOpen ==
  ASSUME IInv, Fresh, NEW s \in Sockets, NEW t \in Sockets,
         OpenSession(s) \/ Connect(s)
  PROVE  PipeStep(t)
  <1> USE DEF buffers, local
  <1>0. cur' = cur /\ got' = got /\ work' = work /\ processed' = processed /\ inq' = inq
        /\ read' = read
    BY DEF OpenSession, Connect
  <1>1. CASE IsOpen(t)' = IsOpen(t)
    BY <1>0, <1>1, PipeFrame
  <1>2. CASE IsOpen(t)' # IsOpen(t)
    <2>1. s = t /\ phase[t] = "free" /\ ~IsOpen(t) /\ IsOpen(t)'
      BY <1>2 DEF OpenSession, Connect, IsOpen, IInv, Control, ControlType
    <2>2. read[t] = <<>> /\ work[t] = <<>> /\ inq[t] = <<>>
      BY <2>1 DEF Fresh
    <2>3. pc # "readDone"
      BY DEF OpenSession, Connect, Idle, At
    <2>4. Unread(t) = Drop(<<>>, processed[t]) \o <<>>
      BY <2>2, <2>3, UnreadIs
    <2>5. processed[t] \in 0..Len(<<>>)
      BY <2>2, UnreadIs
    <2>6. processed[t] = 0 /\ <<>> \in Seq(Item)
      BY <2>5, EmptyIsSeq
    <2>7. Drop(<<>>, 0) = <<>> /\ <<>> \o <<>> = <<>>
      BY <2>6, DropsNothing, JoinEmpty
    <2>8. Unread(t) = <<>>
      BY <2>4, <2>6, <2>7
    <2>9. Unread(t)' = Unread(t)
      BY <1>0 DEF Unread
    <2>10. Ready(t)' = <<>> /\ Coming(t)' = <<>>
      BY <1>0, <2>1, <2>2, <2>8, <2>9, PayloadEmpty DEF Ready, Coming
    <2>11. Ready(t) = <<>> /\ Coming(t) = <<>>
      BY <2>1 DEF Ready, Coming
    <2> QED
      BY <2>10, <2>11, PipeStutter
  <1> QED
    BY <1>1, <1>2

(* An SSL call and what socketUpdate makes of it open and close nothing. *)
LEMMA PipeSecure ==
  ASSUME IInv, Fresh, NEW t \in Sockets,
         SecureDone \/ \E s \in Sockets : SecureCall(s)
  PROVE  PipeStep(t)
  <1>1. /\ pc # "readDone" /\ got' = got
        /\ UNCHANGED <<work, processed, inq, read>>
    BY DEF SecureDone, SecureCall, Idle, At, buffers
  <1>2. IsOpen(t)' = IsOpen(t)
    <2>1. CASE SecureDone
      <3>1. cur \in Sockets /\ phase[cur] \in {"securing", "finished"}
        BY <2>1 DEF SecureDone, IInv, Control, CurOK
      <3>2. \/ phase' = phase
            \/ phase' = [phase EXCEPT ![cur] = IF IsOpen(cur) THEN "connected" ELSE "revived"]
        BY <2>1 DEF SecureDone
      <3> QED
        BY <3>1, <3>2 DEF IsOpen, IInv, Control, ControlType
    <2>2. ASSUME NEW s \in Sockets, SecureCall(s) PROVE IsOpen(t)' = IsOpen(t)
      BY <2>2 DEF SecureCall, session, IsOpen
    <2> QED
      BY <2>1, <2>2
  <1> QED
    BY <1>1, <1>2, PipeFrame DEF Fresh

LEMMA PipeAppRead ==
  ASSUME IInv, Fresh, NEW s \in Sockets, NEW t \in Sockets, NEW n \in 1..ReadSize, AppRead(s, n)
  PROVE  PipeStep(t)
  <1>0. /\ cur' = cur /\ got' = got /\ work' = work /\ processed' = processed /\ inq' = inq
        /\ phase' = phase
        /\ read' = [read EXCEPT ![s] = Drop(@, Least(n, Len(@)))]
    BY DEF AppRead, local
  <1>1. IsOpen(t)' = IsOpen(t) /\ Unread(t)' = Unread(t)
    BY <1>0 DEF IsOpen, Unread
  <1>2. Coming(t)' = Coming(t)
    BY <1>1 DEF Coming
  <1>3. CASE s = t /\ IsOpen(t)
    <2>1. read[t] \in Seq(Data) /\ IsOpen(t) /\ read \in [Sockets -> Seq(Data)]
      BY <1>0, <1>3, UnreadIs DEF IsOpen, IInv, StoreOK, ReadOK
    <2>2. PICK m \in Nat : m = Least(n, Len(read[t])) /\ m <= Len(read[t])
      BY <2>1, SizesAssumption DEF Least
    <2>3. read'[t] = Drop(read[t], m)
      BY <1>0, <1>3, <2>1, <2>2
    <2>4. Ready(t) = read[t] /\ Ready(t)' = Drop(Ready(t), m)
      BY <1>1, <2>1, <2>3 DEF Ready
    <2> QED
      BY <1>2, <2>1, <2>2, <2>4, PipeHandOver
  <1>4. CASE s # t
    <2>1. read'[t] = read[t]
      BY <1>0, <1>4 DEF IInv, StoreOK, ReadOK
    <2> QED
      BY <1>1, <1>2, <2>1, PipeStutter DEF Ready
  <1>5. CASE ~IsOpen(t)
    BY <1>1, <1>5, PipeCut
  <1> QED
    BY <1>3, <1>4, <1>5

LEMMA PipeAppWrite ==
  ASSUME IInv, Fresh, NEW s \in Sockets, NEW t \in Sockets, NEW d \in Data, AppWrite(s, d)
  PROVE  PipeStep(t)
  <1>0. /\ cur' = cur /\ got' = got /\ work' = work /\ processed' = processed /\ inq' = inq
        /\ phase' = phase
        /\ \/ read' = read
           \/ Len(read[s]) < ReadSize /\ read' = [read EXCEPT ![s] = Append(@, d)]
    BY DEF AppWrite, local, IInv, StoreOK, ReadOK
  <1>1. IsOpen(t)' = IsOpen(t) /\ Unread(t)' = Unread(t)
    BY <1>0 DEF IsOpen, Unread
  <1>2. Coming(t)' = Coming(t)
    BY <1>1 DEF Coming
  <1>3. CASE s = t /\ IsOpen(t) /\ read' # read
    <2>1. IsOpen(t) /\ read \in [Sockets -> Seq(Data)]
      BY <1>0, <1>3 DEF IsOpen, IInv, StoreOK, ReadOK
    <2>2. Ready(t) = read[t] /\ Ready(t)' = Append(read[t], d) /\ Len(read[t]) < ReadSize
      BY <1>0, <1>1, <1>3, <2>1 DEF Ready
    <2> QED
      BY <1>2, <2>2, PipeEcho
  <1>4. CASE s # t \/ read' = read
    <2>1. read'[t] = read[t]
      BY <1>0, <1>4 DEF IInv, StoreOK, ReadOK
    <2> QED
      BY <1>1, <1>2, <2>1, PipeStutter DEF Ready
  <1>5. CASE ~IsOpen(t)
    BY <1>1, <1>5, PipeCut
  <1> QED
    BY <1>3, <1>4, <1>5

LEMMA PipeAppClose ==
  ASSUME IInv, Fresh, NEW s \in Sockets, NEW t \in Sockets, AppClose(s)
  PROVE  PipeStep(t)
  <1> USE DEF IInv, Control, ControlType, StoreOK, InqOK, ReadOK, WorkOK
  <1>1. CASE s = t
    <2>1. ~IsOpen(t)'
      BY <1>1 DEF AppClose, IsOpen
    <2> QED
      BY <2>1, PipeCut
  <1>2. CASE s # t
    <2>1. /\ IsOpen(t)' = IsOpen(t) /\ work'[t] = work[t] /\ processed'[t] = processed[t]
          /\ inq'[t] = inq[t] /\ read'[t] = read[t] /\ cur' = cur /\ got' = got
      BY <1>2 DEF AppClose, IsOpen, local
    <2> QED
      BY <2>1, PipeFrame
  <1> QED
    BY <1>1, <1>2

LEMMA PipeApplication ==
  ASSUME IInv, Fresh, Application, NEW t \in Sockets PROVE PipeStep(t)
  BY PipeOpen, PipeSecure, PipeAppRead, PipeAppWrite, PipeAppClose DEF Application

(* The events. *)
LEMMA PipePeerClose ==
  ASSUME IInv, Fresh, NEW s \in Sockets, NEW t \in Sockets, PeerClose(s)
  PROVE  PipeStep(t)
  <1> USE DEF IInv, Control, ControlType, StoreOK, InqOK, ReadOK, WorkOK
  <1>1. CASE s = t
    <2>1. ~IsOpen(t)'
      BY <1>1 DEF PeerClose, Close, IsOpen
    <2> QED
      BY <2>1, PipeCut
  <1>2. CASE s # t
    <2>1. /\ IsOpen(t)' = IsOpen(t) /\ work'[t] = work[t] /\ processed'[t] = processed[t]
          /\ inq'[t] = inq[t] /\ read'[t] = read[t] /\ cur' = cur /\ got' = got
      BY <1>2 DEF PeerClose, Close, IsOpen, local, buffers
    <2> QED
      BY <2>1, PipeFrame
  <1> QED
    BY <1>1, <1>2

LEMMA PipeArrive ==
  ASSUME IInv, Fresh, NEW s \in Sockets, NEW t \in Sockets, NEW x \in Item, Arrive(s, x)
  PROVE  PipeStep(t)
  <1>0. /\ cur' = cur /\ got' = got /\ work' = work /\ processed' = processed
        /\ read' = read /\ phase' = phase /\ IsOpen(s)
        /\ inq' = [inq EXCEPT ![s] = Append(@, x)]
    BY DEF Arrive, PeerMaySend, local, buffers, session
  <1>1. IsOpen(t)' = IsOpen(t) /\ Ready(t)' = Ready(t) /\ inq \in [Sockets -> Seq(Item)]
    BY <1>0 DEF IsOpen, Ready, IInv, StoreOK, InqOK
  <1>2. CASE s = t
    <2> DEFINE left == Drop(work[t], processed[t]) \o (IF cur = t THEN got ELSE <<>>)
    <2>1. left \in Seq(Item) /\ inq[t] \in Seq(Item) /\ Unread(t) \in Seq(Item)
      <3>1. Drop(work[t], processed[t]) \in Seq(Item) /\ got \in Seq(Item) /\ <<>> \in Seq(Item)
        BY UnreadIs, UnreadTyped, EmptyIsSeq
      <3>2. \A a, b \in Seq(Item) : a \o b \in Seq(Item)
        OBVIOUS
      <3>3. (IF cur = t THEN got ELSE <<>>) \in Seq(Item)
        BY <3>1
      <3>4. left \in Seq(Item)
        BY <3>1, <3>2, <3>3, Zenon
      <3> QED
        BY <3>4, UnreadIs
    <2>2. Unread(t) = left \o inq[t]
      BY DEF Unread
    <2>3. Unread(t)' = left \o inq'[t] /\ inq'[t] = Append(inq[t], x)
      BY <1>0, <1>1, <1>2 DEF Unread
    <2> HIDE DEF left
    <2>4. left \o (inq[t] \o <<x>>) = (left \o inq[t]) \o <<x>>
      <3>1. Regroups(Item)
        BY Regrouped
      <3>2. <<x>> \in Seq(Item)
        OBVIOUS
      <3> QED
        BY <2>1, <3>1, <3>2, Zenon DEF Regroups
    <2>5. Unread(t)' = Append(Unread(t), x)
      <3>1. Append(inq[t], x) = inq[t] \o <<x>> /\ Append(Unread(t), x) = Unread(t) \o <<x>>
        BY <2>1, AppendIsJoin
      <3> QED
        BY <2>2, <2>3, <2>4, <3>1
    <2>6. Coming(t) = Payload(Unread(t)) /\ Coming(t)' = Payload(Append(Unread(t), x))
          /\ IsOpen(t) /\ IsOpen(t)'
      BY <1>0, <1>1, <1>2, <2>5 DEF Coming
    <2>7. CASE Payload(Append(Unread(t), x)) = Payload(Unread(t))
      BY <1>1, <2>6, <2>7, PipeStutter
    <2>8. CASE x \in Data /\ Payload(Append(Unread(t), x)) = Append(Payload(Unread(t)), x)
      BY <1>1, <2>6, <2>8, PipeSend
    <2> QED
      BY <2>1, <2>7, <2>8, PayloadLast
  <1>3. CASE s # t
    <2>1. inq'[t] = inq[t]
      BY <1>0, <1>1, <1>3
    <2> QED
      BY <1>0, <1>1, <2>1, PipeFrame
  <1> QED
    BY <1>2, <1>3

LEMMA PipeEvent ==
  ASSUME IInv, Fresh, Event, NEW t \in Sockets PROVE PipeStep(t)
  BY PipePeerClose, PipeArrive DEF Event
-----------------------------------------------------------------------------
(* The steps of the handler that move no byte of a session's pipe. *)
LEMMA PipeQuiet ==
  ASSUME IInv, Fresh, NEW t \in Sockets,
         phase' = phase, work' = work, processed' = processed, inq' = inq, read' = read,
         pc # "readDone", got' = <<>>
  PROVE  PipeStep(t)
  <1>1. got = <<>> /\ IsOpen(t)' = IsOpen(t)
    BY DEF Fresh, IsOpen
  <1> QED
    BY <1>1, PipeFrame

(* socketRead or socketWrite fails and the handler closes the socket. *)
LEMMA PipeCloseFailed ==
  ASSUME IInv, Fresh, NEW t \in Sockets, NEW back, CloseFailed(back), pc # "readDone",
         cur \in Sockets
  PROVE  PipeStep(t)
  <1> USE DEF IInv, Control, ControlType, StoreOK, InqOK, ReadOK, WorkOK
  <1>1. CASE cur = t
    <2>1. ~IsOpen(t)'
      BY <1>1 DEF CloseFailed, Close, IsOpen
    <2> QED
      BY <2>1, PipeCut
  <1>2. CASE cur # t
    <2>1. /\ IsOpen(t)' = IsOpen(t) /\ work'[t] = work[t] /\ processed'[t] = processed[t]
          /\ inq'[t] = inq[t] /\ read'[t] = read[t] /\ got' = got /\ got = <<>>
      BY <1>2 DEF CloseFailed, Close, IsOpen, buffers, Fresh
    <2> QED
      BY <2>1, PipeFrame
  <1> QED
    BY <1>1, <1>2

(* socketRead moves items within what is unread: from the network to the end of
   the work buffer, in two steps with events between them. *)
LEMMA PipeReadCall ==
  ASSUME IInv, Fresh, NEW t \in Sockets, ReadCall
  PROVE  PipeStep(t)
  <1>0. pc = "readCall" /\ cur \in Sockets /\ got = <<>>
    BY DEF ReadCall, At, Fresh, IInv, Control, CurOK, Calls
  <1>1. CASE Abort
    BY <1>0, <1>1, PipeQuiet DEF Abort, session, buffers, local
  <1>2. CASE CloseFailed("readScan")
    BY <1>0, <1>2, PipeCloseFailed
  <1>3. CASE /\ phase[cur] = "connected" /\ UNCHANGED <<session, buffers>>
             /\ LET n == Least(WorkSize - Len(work[cur]), Len(inq[cur])) IN
                /\ got' = SubSeq(inq[cur], 1, n)
                /\ inq' = [inq EXCEPT ![cur] = Drop(@, n)]
                /\ IF n = 0 THEN Goto("readScan") /\ cur' = None
                            ELSE Goto("readDone") /\ cur' = cur
    <2>0. /\ work' = work /\ processed' = processed /\ read' = read /\ phase' = phase
          /\ IsOpen(t)' = IsOpen(t) /\ Ready(t)' = Ready(t) /\ inq \in [Sockets -> Seq(Item)]
      BY <1>3 DEF buffers, session, IsOpen, Ready, IInv, StoreOK, InqOK
    <2>1. PICK n \in Nat : /\ n = Least(WorkSize - Len(work[cur]), Len(inq[cur]))
                           /\ n <= Len(inq[cur])
      <3>1. Len(work[cur]) \in Nat /\ Len(work[cur]) <= WorkSize /\ Len(inq[cur]) \in Nat
        BY <1>0, UnreadIs DEF IInv, StoreOK, WorkOK
      <3> QED
        BY <3>1, SizesAssumption DEF Least
    <2>2. /\ got' = SubSeq(inq[cur], 1, n) /\ inq' = [inq EXCEPT ![cur] = Drop(@, n)]
          /\ n = 0 => cur' = None
          /\ n # 0 => cur' = cur
      BY <1>3, <2>1
    <2>3. CASE cur # t
      <3>1. inq'[t] = inq[t] /\ cur' # t
        BY <1>0, <2>0, <2>2, <2>3, SocketsAssumption DEF None
      <3> QED
        BY <2>0, <2>3, <3>1, PipeFrame
    <2>4. CASE cur = t
      <3> DEFINE a == Drop(work[t], processed[t])
                 b == SubSeq(inq[t], 1, n)
                 c == Drop(inq[t], n)
      <3>1. Unread(t) = a \o inq[t] /\ a \in Seq(Item) /\ inq[t] \in Seq(Item)
        <4>1. a \in Seq(Item)
          BY UnreadIs, UnreadTyped, EmptyIsSeq
        <4> QED
          BY <1>0, <4>1, UnreadIs
      <3>2. b \in Seq(Item) /\ c \in Seq(Item) /\ b \o c = inq[t]
        <4>1. n \in 0..Len(inq[t]) /\ inq[t] \in Seq(Item)
          BY <2>1, <2>4, <3>1
        <4>2. b \o c = inq[t]
          BY <4>1, TakeDrop
        <4>3. b \in Seq(Item) /\ c \in Seq(Item)
          BY <4>1 DEF Drop
        <4> QED
          BY <4>2, <4>3
      <3>3. inq'[t] = c /\ got' = b
        BY <2>0, <2>2, <2>4
      <3>4. Unread(t)' = (a \o (IF cur' = t THEN got' ELSE <<>>)) \o inq'[t]
        BY <2>0 DEF Unread
      <3> HIDE DEF a
      <3>5. Unread(t)' = a \o inq[t]
        <4>1. CASE n # 0
          <5>1. Unread(t)' = (a \o b) \o c
            BY <2>2, <2>4, <3>3, <3>4, <4>1
          <5>2. (a \o b) \o c = a \o (b \o c)
            <6>1. Regroups(Item)
              BY Regrouped
            <6> HIDE DEF b, c
            <6> QED
              BY <3>1, <3>2, <6>1, Zenon DEF Regroups
          <5> QED
            BY <3>2, <5>1, <5>2
        <4>2. CASE n = 0
          <5>1. cur' # t
            BY <2>2, <4>2, SocketsAssumption DEF None
          <5>2. c = inq[t]
            BY <3>1, <4>2, DropsNothing
          <5>3. a \o <<>> = a
            BY <3>1, JoinEmpty
          <5> QED
            BY <3>3, <3>4, <5>1, <5>2, <5>3
        <4> QED
          BY <4>1, <4>2
      <3>6. Unread(t)' = Unread(t)
        BY <3>1, <3>5
      <3> QED
        BY <2>0, <3>6, PipeStutter DEF Coming
    <2> QED
      BY <2>3, <2>4
  <1> QED
    BY <1>1, <1>2, <1>3 DEF ReadCall

LEMMA PipeReadDone ==
  ASSUME IInv, Fresh, NEW t \in Sockets, ReadDone
  PROVE  PipeStep(t)
  <1>0. /\ cur \in Sockets /\ phase' = phase /\ processed' = processed /\ inq' = inq
        /\ read' = read /\ work' = [work EXCEPT ![cur] = @ \o got]
        /\ got' = <<>> /\ cur' = None /\ work \in [Sockets -> Seq(Item)]
    BY DEF ReadDone, At, IInv, Control, CurOK, Calls, session, StoreOK, WorkOK
  <1>1. cur' # t /\ IsOpen(t)' = IsOpen(t) /\ Ready(t)' = Ready(t)
    BY <1>0, SocketsAssumption DEF None, IsOpen, Ready
  <1>2. CASE cur # t
    <2>1. work'[t] = work[t]
      BY <1>0, <1>2
    <2> QED
      BY <1>0, <1>1, <1>2, <2>1, PipeFrame
  <1>3. CASE cur = t
    <2>1. /\ work[t] \in Seq(Item) /\ got \in Seq(Item) /\ inq[t] \in Seq(Item)
          /\ processed[t] \in 0..Len(work[t])
      BY UnreadIs
    <2>2. Drop(work[t] \o got, processed[t]) = Drop(work[t], processed[t]) \o got
      BY <2>1, DropJoin
    <2>3. Unread(t) = (Drop(work[t], processed[t]) \o got) \o inq[t]
      BY <1>3 DEF Unread
    <2>4. Unread(t)' = (Drop(work[t] \o got, processed[t]) \o <<>>) \o inq[t]
      BY <1>0, <1>1, <1>3 DEF Unread
    <2>5. Drop(work[t] \o got, processed[t]) \o <<>> = Drop(work[t] \o got, processed[t])
      <3>1. Drop(work[t] \o got, processed[t]) \in Seq(Item)
        <4>1. Drop(work[t], processed[t]) \in Seq(Item)
          BY <2>1 DEF Drop
        <4> QED
          BY <2>1, <2>2, <4>1
      <3> QED
        BY <3>1, JoinEmpty
    <2>6. Unread(t)' = Unread(t)
      BY <2>2, <2>3, <2>4, <2>5
    <2> QED
      BY <1>1, <2>6, PipeStutter DEF Coming
  <1> QED
    BY <1>2, <1>3

LEMMA PipeWriteCall ==
  ASSUME IInv, Fresh, NEW t \in Sockets, WriteCall
  PROVE  PipeStep(t)
  <1>0. pc = "writeCall" /\ cur \in Sockets /\ got = <<>>
    BY DEF WriteCall, At, Fresh, IInv, Control, CurOK, Calls
  <1>1. CASE Abort
    BY <1>0, <1>1, PipeQuiet DEF Abort, session, buffers, local
  <1>2. CASE CloseFailed("writeScan")
    BY <1>0, <1>2, PipeCloseFailed
  <1>3. CASE UNCHANGED <<phase, read, work, processed, inq, got>>
    BY <1>0, <1>3, PipeQuiet
  <1> QED
    BY <1>1, <1>2, <1>3 DEF WriteCall, session, buffers
-----------------------------------------------------------------------------
(* What comes first in a rest and in a sequence that is joined. *)
LEMMA DropFirst ==
  ASSUME NEW S, NEW w \in Seq(S), NEW p \in Nat, p < Len(w)
  PROVE  Drop(w, p) \in Seq(S) /\ Len(Drop(w, p)) = Len(w) - p /\ Drop(w, p)[1] = w[p + 1]
  <1>1. /\ Drop(w, p) \in Seq(S) /\ Len(Drop(w, p)) = Len(w) - p
        /\ \A i \in 1..(Len(w) - p) : Drop(w, p)[i] = w[i + p]
    BY DEF Drop
  <1>2. 1 \in 1..(Len(w) - p) /\ 1 + p = p + 1
    OBVIOUS
  <1>3. Drop(w, p)[1] = w[1 + p]
    BY <1>1, <1>2
  <1> QED
    BY <1>1, <1>2, <1>3

LEMMA JoinFirst ==
  ASSUME NEW S, NEW a \in Seq(S), NEW b \in Seq(S), Len(a) > 0
  PROVE  a \o b \in Seq(S) /\ Len(a \o b) = Len(a) + Len(b) /\ (a \o b)[1] = a[1]
  OBVIOUS

(* telnetWork delivers a byte of data, and takes a command out. *)
LEMMA PipeWorkItem ==
  ASSUME IInv, Fresh, NEW t \in Sockets, WorkItem
  PROVE  PipeStep(t)
  <1> DEFINE x == Next1(cur)
             k == IF x = "lead" THEN 2 ELSE 1
  <1>0. /\ cur \in Sockets /\ cur' = cur /\ got' = got /\ got = <<>> /\ pc # "readDone"
        /\ work' = work /\ inq' = inq /\ pc' = pc
        /\ processed' = [processed EXCEPT ![cur] = @ + k]
        /\ read' = [read EXCEPT ![cur] = IF x \in Data THEN Append(@, x) ELSE @]
        /\ phase' = [phase EXCEPT ![cur] = IF x = "accept" THEN "securing" ELSE @]
    BY DEF WorkItem, At, IInv, Control, CurOK, Calls, Fresh, local
  <1>1. /\ phase \in [Sockets -> Phases] /\ processed \in [Sockets -> 0..WorkSize]
        /\ read \in [Sockets -> Seq(Data)]
    BY DEF IInv, Control, ControlType, StoreOK, WorkOK, ReadOK
  <1>2. CASE cur # t
    <2>1. /\ IsOpen(t)' = IsOpen(t) /\ processed'[t] = processed[t] /\ read'[t] = read[t]
      BY <1>0, <1>1, <1>2 DEF IsOpen
    <2> QED
      BY <1>0, <2>1, PipeFrame
  <1>3. CASE cur = t
    <2>1. /\ phase[t] = "connected" /\ processed[t] < Len(work[t])
          /\ x \in Data => Len(read[t]) < ReadSize
          /\ x = "lead" => processed[t] + 1 < Len(work[t])
      BY <1>3 DEF WorkItem, Workable
    <2>2. IsOpen(t) /\ IsOpen(t)'
      BY <1>0, <1>1, <1>3, <2>1 DEF IsOpen
    <2>3. /\ work[t] \in Seq(Item) /\ inq[t] \in Seq(Item) /\ processed[t] \in 0..Len(work[t])
          /\ read[t] \in Seq(Data) /\ x = work[t][processed[t] + 1]
      BY <1>3, UnreadIs DEF Next1
    <2>4. PICK p \in Nat : p = processed[t]
      BY <2>3
    <2>5. /\ k \in {1, 2} /\ p + k <= Len(work[t]) /\ (k = 2 <=> x = "lead")
      BY <2>1, <2>3, <2>4
    <2> DEFINE d == Drop(work[t], p)
               r == Drop(work[t], p + k)
               u == d \o inq[t]
    <2>6. d \in Seq(Item) /\ Len(d) = Len(work[t]) - p /\ d[1] = x
      <3>1. p < Len(work[t])
        BY <2>1, <2>4
      <3>2. work[t][p + 1] = x
        BY <2>3, <2>4
      <3> QED
        BY <2>3, <3>1, <3>2, DropFirst
    <2>7. r \in Seq(Item) /\ Drop(d, k) = r
      <3>1. r \in Seq(Item)
        BY <2>3, <2>4, <2>5 DEF Drop
      <3>2. k \in Nat
        BY <2>5
      <3> QED
        BY <2>3, <2>5, <3>1, <3>2, DropDrop
    <2>8. Unread(t) = u /\ Unread(t)' = r \o inq[t]
      <3>1. Unread(t) = u
        BY <1>0, <2>4, UnreadIs
      <3>2. Unread(t)' = (Drop(work[t], processed'[t]) \o <<>>) \o inq[t]
        BY <1>0 DEF Unread
      <3>3. processed'[t] = p + k
        BY <1>0, <1>1, <1>3, <2>4
      <3>4. r \o <<>> = r
        BY <2>7, JoinEmpty
      <3> QED
        BY <3>1, <3>2, <3>3, <3>4
    <2>9. u \in Seq(Item) /\ u # <<>> /\ u[1] = x /\ Len(u) >= k
      <3> HIDE DEF d, r, k, x
      <3>1. Len(d) \in Nat /\ Len(inq[t]) \in Nat /\ Len(d) >= k /\ k \in Nat /\ k >= 1
        BY <2>3, <2>5, <2>6
      <3>2. Len(d) > 0
        BY <3>1
      <3>3. u \in Seq(Item) /\ Len(u) = Len(d) + Len(inq[t]) /\ u[1] = d[1]
        BY <2>3, <2>6, <3>2, JoinFirst
      <3>4. Len(u) >= k /\ Len(u) # 0
        BY <3>1, <3>3
      <3>5. u # <<>>
        BY <3>4, EmptyIsSeq
      <3> QED
        BY <2>6, <3>3, <3>4, <3>5
    <2>10. Drop(u, k) = r \o inq[t]
      <3> HIDE DEF d, r, k, x
      <3>1. k \in 0..Len(d)
        BY <2>3, <2>4, <2>5, <2>6
      <3> QED
        BY <2>3, <2>6, <2>7, <3>1, DropJoin
    <2>11. /\ Coming(t) = Payload(u) /\ Coming(t)' = Payload(Drop(u, k))
           /\ Ready(t) = read[t] /\ Ready(t)' = read'[t]
      BY <2>2, <2>8, <2>10 DEF Coming, Ready
    <2>12. read'[t] = IF x \in Data THEN Append(read[t], x) ELSE read[t]
      BY <1>0, <1>1, <1>3
    <2>13. x \in Data => x # "lead"
      BY CommandsAssumption DEF AllCommands
    <2>14. r \o inq[t] \in Seq(Item)
      <3> HIDE DEF r
      <3> QED
        BY <2>3, <2>7
    <2> HIDE DEF d, r, u, x
    <2>15. CASE x \in Data
      <3>1. k = 1
        BY <2>13, <2>15
      <3>2. Payload(u) = <<x>> \o Payload(Drop(u, 1))
        BY <2>9, <2>15, PayloadFirst
      <3>3. Payload(Drop(u, 1)) \in Seq(Data)
        BY <2>10, <2>14, <3>1, PayloadTyped
      <3>4. PICK q \in Seq(Data) : q = Payload(Drop(u, 1))
        BY <3>3
      <3>5. Coming(t) = <<x>> \o q /\ Coming(t)' = q
        BY <2>11, <3>1, <3>2, <3>4
      <3>6. Ready(t)' = Append(Ready(t), x) /\ Ready(t) \in Seq(Data) /\ Len(Ready(t)) < ReadSize
        BY <2>1, <2>3, <2>11, <2>12, <2>15
      <3> QED
        BY <2>2, <2>15, <3>5, <3>6, PipeDeliver
    <2>16. CASE x \notin Data
      <3>1. Payload(u) = Payload(Drop(u, k))
        <4>1. CASE x = "lead"
          <5>1. k = 2 /\ Len(u) > 1
            <6>1. k = 2
              BY <4>1
            <6>2. Len(u) \in Nat
              BY <2>9
            <6> QED
              BY <2>9, <6>1, <6>2
          <5> QED
            BY <2>9, <4>1, <5>1, PayloadFirst
        <4>2. CASE x # "lead"
          BY <2>9, <2>16, <4>2, PayloadFirst
        <4> QED
          BY <4>1, <4>2
      <3> QED
        BY <2>11, <2>12, <2>16, <3>1, PipeStutter
    <2> QED
      BY <2>15, <2>16
  <1> QED
    BY <1>2, <1>3

(* What is worked on is dropped, and what is unread stays. *)
LEMMA PipeWorkTail ==
  ASSUME IInv, Fresh, NEW t \in Sockets, WorkTail
  PROVE  PipeStep(t)
  <1>0. /\ cur \in Sockets /\ cur' = None /\ got' = got /\ got = <<>> /\ pc # "readDone"
        /\ phase' = phase /\ inq' = inq /\ read' = read
    BY DEF WorkTail, At, IInv, Control, CurOK, Calls, Fresh, local
  <1>1. IsOpen(t)' = IsOpen(t) /\ Ready(t)' = Ready(t)
    BY <1>0 DEF IsOpen, Ready
  <1>2. CASE UNCHANGED <<work, processed>>
    BY <1>0, <1>2, PipeFrame, <1>1
  <1>3. CASE /\ work' = [work EXCEPT ![cur] = Drop(@, processed[cur])]
             /\ processed' = [processed EXCEPT ![cur] = 0]
    <2>1. work \in [Sockets -> Seq(Item)] /\ processed \in [Sockets -> 0..WorkSize]
      BY DEF IInv, StoreOK, WorkOK
    <2>2. CASE cur # t
      <3>1. work'[t] = work[t] /\ processed'[t] = processed[t]
        BY <1>3, <2>1, <2>2
      <3> QED
        BY <1>0, <1>1, <3>1, PipeFrame
    <2>3. CASE cur = t
      <3> DEFINE d == Drop(work[t], processed[t])
      <3>1. work'[t] = d /\ processed'[t] = 0
        BY <1>3, <2>1, <2>3
      <3>2. d \in Seq(Item)
        BY UnreadIs, UnreadTyped, EmptyIsSeq
      <3>3. Drop(d, 0) = d /\ d \o <<>> = d
        BY <3>2, DropsNothing, JoinEmpty
      <3>4. Unread(t) = d \o inq[t]
        BY <1>0, UnreadIs
      <3>5. Unread(t)' = (Drop(d, 0) \o <<>>) \o inq[t]
        BY <1>0, <3>1 DEF Unread
      <3>6. Unread(t)' = Unread(t)
        BY <3>3, <3>4, <3>5
      <3> QED
        BY <1>1, <3>6, PipeStutter DEF Coming
    <2> QED
      BY <2>2, <2>3
  <1> QED
    BY <1>0, <1>2, <1>3, WorkTailDrains DEF IInv

LEMMA PipeHandler ==
  ASSUME IInv, Fresh, Dispatch \/ RaiseFlag \/ DropCall \/ Handler, NEW t \in Sockets
  PROVE  PipeStep(t)
  <1>1. CASE \/ Dispatch \/ ReadPhase \/ ReadSelect \/ WritePhase \/ WriteSelect \/ WorkPhase
             \/ WorkStop \/ Leave \/ Rearm \/ WriteDone
    <2>1. /\ UNCHANGED <<phase, work, processed, inq, read, got>> /\ pc # "readDone"
      BY <1>1 DEF Dispatch, Idle, At, ReadPhase, ReadSelect, WritePhase, WriteSelect, WorkPhase,
                  WorkStop, Leave, Rearm, WriteDone, session, buffers, local
    <2> QED
      BY <2>1, PipeQuiet DEF Fresh
  <1>2. CASE ReadScan \/ WriteScan \/ WorkScan
    <2>1. /\ UNCHANGED <<phase, work, processed, inq, read, got>> /\ pc # "readDone"
      BY <1>2 DEF ReadScan, WriteScan, WorkScan, Scan, At, session, buffers, local
    <2> QED
      BY <2>1, PipeQuiet DEF Fresh
  <1>3. CASE RaiseFlag \/ DropCall
    <2>1. UNCHANGED <<phase, work, processed, inq, read, cur, got>>
      BY <1>3 DEF RaiseFlag, DropCall, session, buffers, local
    <2> QED
      BY <2>1, PipeFrame DEF IsOpen
  <1> QED
    BY <1>1, <1>2, <1>3, PipeReadCall, PipeReadDone, PipeWriteCall, PipeWorkItem, PipeWorkTail
    DEF Handler

LEMMA PipeNextStep ==
  ASSUME IInv, Fresh, [Next]_vars, NEW t \in Sockets PROVE PipeStep(t)
  <1>1. CASE UNCHANGED vars
    <2>1. /\ UNCHANGED <<phase, work, processed, inq, read, cur, got>>
      BY <1>1 DEF vars, session, buffers, local
    <2>2. IsOpen(t)' = IsOpen(t)
      BY <2>1 DEF IsOpen
    <2> QED
      BY <2>1, <2>2, PipeFrame
  <1> QED
    BY <1>1, PipeApplication, PipeSecure, PipeEvent, PipeHandler DEF Next

LEMMA AlwaysFresh == Spec => [](IInv /\ Fresh)
  <1>1. Init => IInv /\ Fresh
    BY IInvInit, FreshInit
  <1>2. IInv /\ Fresh /\ [Next]_vars => (IInv /\ Fresh)'
    <2>1. IInv /\ [Next]_vars => IInv'
      BY IInvNext
    <2>2. IInv /\ Fresh /\ [Next]_vars => Fresh'
      BY FreshNext
    <2> QED
      BY <2>1, <2>2
  <1> QED
    BY <1>1, <1>2, PTL DEF Spec

(* Every connection is an ordered pipe (module Pipe): through partial reads,
   partial work, drains and closes, with events between any two steps of the
   handler, the data the server sends reaches the application in order, each
   byte once, the commands taken out. *)
THEOREM VectorsIsPipe == Spec => IsPipe
  <1>1. Init => \A s \in Sockets : PipeOf(s)!PipeInit
    BY DEF PipeOf!PipeInit, Init, IsOpen
  <1>2. IInv /\ Fresh /\ [Next]_vars
          => \A s \in Sockets : [PipeOf(s)!PipeNext]_(PipeOf(s)!pvars)
    BY PipeNextStep DEF PipeStep
  <1> QED
    BY <1>1, <1>2, AlwaysFresh, PTL DEF Spec, IsPipe
=============================================================================
