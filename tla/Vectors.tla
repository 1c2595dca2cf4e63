------------------------------ MODULE Vectors ------------------------------
(***************************************************************************)
(* The core of the BTTelnet module: how bytes move between sockets, the    *)
(* three buffers of a session and the application, driven by Internet      *)
(* events and by one deferred callback (BTTelnet/Module/vectors.c, with    *)
(* socketRead, socketWrite, socketClose, telnetWork, telnetWrite and the   *)
(* SWIs they meet).                                                        *)
(*                                                                         *)
(* Three parties interleave.  The event handler runs at interrupt time, so *)
(* Arrive and PeerClose may occur between any two steps of the others.     *)
(* The callback handler is split at the points where an event makes a      *)
(* difference: every read of the shared state, every SWI, every loop round *)
(* is a step.  The application's SWIs run while no handler is active.      *)
(*                                                                         *)
(* A session is identified with the socket it owns.  Buffer contents are   *)
(* sequences of items: a byte of data, or a command of the telnet protocol *)
(* (module Telnet would spell these out).                                  *)
(***************************************************************************)
EXTENDS Integers, Sequences, FiniteSets

CONSTANTS
  Sockets,        \* socket numbers, 0..maxSocket in the code
  Data,           \* data bytes
  Commands,       \* which of AllCommands the peer uses
  ReadSize, WriteSize, WorkSize,  \* bufferSize of the three buffers, in items
  InMax,          \* bound: items the network holds for a socket
  MaxSurplus,     \* bound: calls registered that callbackWaiting does not stand for
  Greeting,       \* items telnetSendNegotiation wants to send
  Echo,           \* does the session echo locally?
  ForceSSL,       \* may sessions be opened with FORCE_SSL?
  Expires,        \* may the time slice of the handler run out?
  WriteBlocks,    \* may a socket refuse to take bytes?
  Losses,         \* may connections break?
  RegisterMayFail \* may OS_AddCallBack and OS_CallAfter return an error?

(* "ask": an option request that has to be answered (WILL, DO);
   "lead": an IAC whose following byte belongs to the command;
   "accept": the server's acceptance of SSL (telnetAuthReply). *)
AllCommands == {"ask", "lead", "accept"}

Item == Data \cup Commands

ASSUME SocketsAssumption  == Sockets \subseteq Nat
ASSUME CommandsAssumption == /\ Commands \subseteq AllCommands
                             /\ Data \cap AllCommands = {}
ASSUME SizesAssumption == /\ ReadSize \in Nat \ {0}
                          /\ WriteSize \in Nat \ {0}
                          /\ WorkSize \in Nat \ {0}
                          /\ InMax \in Nat /\ Greeting \in Nat
                          /\ MaxSurplus \in Nat
ASSUME SwitchAssumption == {Echo, ForceSSL, Expires, WriteBlocks, Losses, RegisterMayFail}
                             \subseteq BOOLEAN

VARIABLES
  phase,      \* connection bits of BTSession_s.status, and whether socket = -1
  ssl, nego, lost, incoming, outgoing,     \* other status bits, as sets
  inq,        \* items the network holds, not yet read from the socket
  read, write, work, processed,            \* the buffers; workProcessed
  connected, reading, writing, working,    \* the fd_sets of BTT_socket.h
  reason, waiting,                         \* callbackReason, callbackWaiting
  armed,      \* how many calls of the handler RISC OS has registered
  raising,    \* a call has been registered, callbackWaiting is about to be set
  pc, cur, scan, expired,  \* callbackHandler: its place, ptr, setSockets, time
  got,        \* what Socket_Read has put behind the work buffer
  sent        \* what Socket_Write has taken of the write buffer

session == <<phase, ssl, nego, lost, incoming, outgoing>>
buffers == <<read, write, work, processed>>
fdSets  == <<connected, reading, writing, working>>
calls   == <<waiting, armed, raising>>
timer   == <<reason, calls>>
local   == <<cur, scan, expired, got, sent>>
vars == <<session, inq, buffers, fdSets, timer, pc, local>>

(* "revived": FINISHED, with a socket of -1, and CONNECTED again. *)
Phases == {"free", "connecting", "connected", "securing", "finished", "revived"}
Ways == {"callback", "callafter"}
Reasons == {"READ", "WRITE", "WORK"}
Places == {"idle", "secure", "read", "readSelect", "readScan", "readCall", "readDone",
           "write", "writeSelect", "writeScan", "writeCall", "writeDone",
           "work", "workScan", "workLoop", "workTail", "leave", "rearm",
           "aborted"}

None == -1

(* ptr->socket # -1 *)
IsOpen(s) == phase[s] \in {"connecting", "connected", "securing"}

(* FD_SET(ptr->socket, ..): with a socket of -1 it writes outside the set, which
   stays as it is. *)
FdSet(s, set) == IF IsOpen(s) THEN set \cup {s} ELSE set

At(place) == pc = place /\ ~raising
Goto(place) == pc' = place

Least(a, b) == IF a < b THEN a ELSE b
Lowest(S) == CHOOSE i \in S : \A j \in S : i <= j
Drop(q, n) == SubSeq(q, n + 1, Len(q))

Init ==
  /\ phase = [s \in Sockets |-> "free"]
  /\ ssl = {} /\ nego = {} /\ lost = {} /\ incoming = {} /\ outgoing = {}
  /\ inq = [s \in Sockets |-> <<>>]
  /\ read = [s \in Sockets |-> <<>>]
  /\ write = [s \in Sockets |-> 0]
  /\ work = [s \in Sockets |-> <<>>]
  /\ processed = [s \in Sockets |-> 0]
  /\ connected = {} /\ reading = {} /\ writing = {} /\ working = {}
  /\ reason = {} /\ waiting = FALSE /\ armed = [how \in Ways |-> 0]
  /\ raising = FALSE
  /\ pc = "idle" /\ cur = None /\ scan = {} /\ expired = FALSE
  /\ got = <<>> /\ sent = 0
-----------------------------------------------------------------------------
(* The handler is between its entry and line 229. *)
InHandler == pc \notin {"idle", "secure", "rearm"}

(* Calls of the handler that are to come, and how many more of them, with the one
   that is running, there are than callbackWaiting stands for. *)
Outstanding == armed["callback"] + armed["callafter"]
Surplus == Outstanding + (IF InHandler THEN 1 ELSE 0) - (IF waiting \/ raising THEN 1 ELSE 0)

Armed(how) == armed' = [armed EXCEPT ![how] = @ + 1]

(* addCallback and addCallafter up to the SWI: note the reasons, and register
   the handler with RISC OS unless callbackWaiting says that this is done.
   Events find the flag still down until RaiseFlag. *)
Register(reasons, how) ==
  /\ reason' = reason \cup reasons
  /\ \/ waiting /\ UNCHANGED calls
     \/ ~waiting /\ Armed(how) /\ raising' = TRUE /\ UNCHANGED waiting
     \/ ~waiting /\ RegisterMayFail /\ UNCHANGED calls

AddCallback(reasons) == Register(reasons, "callback")

(* The SWI has registered the call: callbackWaiting = TRUE. *)
RaiseFlag ==
  /\ raising /\ raising' = FALSE
  /\ waiting' = TRUE
  /\ UNCHANGED <<session, inq, buffers, fdSets, reason, armed, pc, local>>

(* addCallback by the event handler, which nothing interrupts. *)
EventCallback(reasons) ==
  /\ reason' = reason \cup reasons
  /\ \/ waiting /\ UNCHANGED calls
     \/ /\ ~waiting /\ (raising => Surplus < MaxSurplus)
        /\ waiting' = TRUE /\ Armed("callback") /\ UNCHANGED raising
     \/ ~waiting /\ RegisterMayFail /\ UNCHANGED calls

(* Slip: the last FD_CLR of socketClose forgotten (line 389). *)
CloseKeepsWorking(s) ==
  /\ phase' = [phase EXCEPT ![s] = "finished"]
  /\ ssl' = ssl \ {s}
  /\ connected' = connected \ {s}
  /\ reading' = reading \ {s}
  /\ writing' = writing \ {s}
  /\ UNCHANGED working
  /\ inq' = [inq EXCEPT ![s] = <<>>]

(* socketClose for an open socket: what the network held is gone too. *)
Close(s) ==
  /\ phase' = [phase EXCEPT ![s] = "finished"]
  /\ ssl' = ssl \ {s}
  /\ connected' = connected \ {s}
  /\ reading' = reading \ {s}
  /\ writing' = writing \ {s}
  /\ working' = working \ {s}
  /\ inq' = [inq EXCEPT ![s] = <<>>]

(* telnetSendNegotiation, unless NEGOTIATING is set already.  Each message
   goes into the write buffer if there is room. *)
Greet(s) ==
  /\ nego' = nego \cup {s}
  /\ write' = [write EXCEPT ![s] = IF s \in nego THEN @
                                   ELSE Least(WriteSize, @ + Greeting)]
-----------------------------------------------------------------------------
(* The application's SWIs. *)

(* No handler is active, and no SWI of the application. *)
Idle == At("idle")

(* BTTelnet_Open, and the polls up to a created socket. *)
OpenSession(s) ==
  /\ Idle
  /\ phase[s] = "free"
  /\ phase' = [phase EXCEPT ![s] = "connecting"]
  /\ UNCHANGED <<ssl, nego, lost, incoming, outgoing, inq, buffers, fdSets,
                 timer, pc, local>>

(* BTTelnet_Status: socketConnect finds the socket connected; with FORCE_SSL
   the SSL connection is made first. *)
Connect(s) ==
  /\ Idle
  /\ phase[s] = "connecting"
  /\ connected' = connected \cup {s}
  /\ \/ phase' = [phase EXCEPT ![s] = "connected"] /\ Greet(s)
     \/ /\ ForceSSL
        /\ phase' = [phase EXCEPT ![s] = "securing"]
        /\ UNCHANGED <<nego, write>>
  /\ UNCHANGED <<ssl, lost, incoming, outgoing, inq, read, work, processed,
                 reading, writing, working, timer, pc, local>>

(* BTTelnet_Status: socketUpdate calls Secure_Connect or Secure_PollConnect. *)
SecureCall(s) ==
  /\ Idle
  /\ phase[s] = "securing"
  /\ Goto("secure")
  /\ cur' = s
  /\ UNCHANGED <<session, inq, buffers, fdSets, timer, scan, expired, got, sent>>

(* What socketUpdate does behind it: the SSL connection stands, or cannot be
   had and the session goes on without (unless FORCE_SSL), or it is not there
   yet.  An event may have closed the session in the meantime; CONNECTED is set
   all the same (lines 331, 586, 616). *)
SecureDone ==
  /\ pc = "secure"
  /\ Goto("idle")
  /\ cur' = None
  /\ \/ UNCHANGED <<phase, ssl, nego, write, connected>>
     \/ /\ phase' = [phase EXCEPT ![cur] = IF IsOpen(cur) THEN "connected" ELSE "revived"]
        /\ ssl' \in {ssl, ssl \cup {cur}}
        /\ connected' = FdSet(cur, connected)
        /\ Greet(cur)
  /\ UNCHANGED <<lost, incoming, outgoing, inq, read, work, processed,
                 reading, writing, working, timer, scan, expired, got, sent>>

(* swi_read and swi_write look for CONNECTED only (swis.c:224, 291). *)
Usable(s) == phase[s] \in {"connected", "revived"}

(* BTTelnet_Read of up to n bytes. *)
AppRead(s, n) ==
  /\ Idle
  /\ Usable(s)
  /\ read' = [read EXCEPT ![s] = Drop(@, Least(n, Len(@)))]
  /\ incoming' = IF Len(read'[s]) = 0 THEN incoming \ {s} ELSE incoming
  /\ UNCHANGED <<phase, ssl, nego, lost, outgoing, inq, write, work, processed,
                 fdSets, timer, pc, local>>

(* Slip: the state of the session not looked at (swis.c:291). *)
AppWriteUnchecked(s, d) ==
  /\ Idle
  /\ IsOpen(s)
  /\ write' = [write EXCEPT ![s] = Least(WriteSize, @ + 1)]
  /\ writing' = writing \cup {s}
  /\ outgoing' = outgoing \cup {s}
  /\ AddCallback({"WRITE"})
  /\ UNCHANGED <<phase, ssl, nego, lost, incoming, inq, read, work, processed,
                 connected, reading, working, pc, local>>

(* BTTelnet_Write of one byte d, echoed into the read buffer if there is
   room; the write buffer is marked for sending in any case. *)
AppWrite(s, d) ==
  /\ Idle
  /\ Usable(s)
  /\ LET room == write[s] < WriteSize IN
     /\ write' = [write EXCEPT ![s] = IF room THEN @ + 1 ELSE @]
     /\ read' = [read EXCEPT ![s] = IF room /\ Echo /\ Len(@) < ReadSize
                                    THEN Append(@, d) ELSE @]
  /\ writing' = FdSet(s, writing)
  /\ outgoing' = outgoing \cup {s}
  /\ AddCallback({"WRITE"})
  /\ UNCHANGED <<phase, ssl, nego, lost, incoming, inq, work, processed,
                 connected, reading, working, pc, local>>

(* BTTelnet_Close: sessionDestroy closes the socket and frees the buffers. *)
AppClose(s) ==
  /\ Idle
  /\ phase[s] # "free"
  /\ phase' = [phase EXCEPT ![s] = "free"]
  /\ ssl' = ssl \ {s} /\ nego' = nego \ {s} /\ lost' = lost \ {s}
  /\ incoming' = incoming \ {s} /\ outgoing' = outgoing \ {s}
  /\ connected' = connected \ {s}
  /\ reading' = reading \ {s}
  /\ writing' = writing \ {s}
  /\ working' = working \ {s}
  /\ inq' = [inq EXCEPT ![s] = <<>>]
  /\ read' = [read EXCEPT ![s] = <<>>]
  /\ write' = [write EXCEPT ![s] = 0]
  /\ work' = [work EXCEPT ![s] = <<>>]
  /\ processed' = [processed EXCEPT ![s] = 0]
  /\ UNCHANGED <<timer, pc, local>>

Application ==
  \E s \in Sockets :
    \/ OpenSession(s) \/ Connect(s) \/ SecureCall(s) \/ AppClose(s)
    \/ \E n \in 1..ReadSize : AppRead(s, n)
    \/ \E d \in Data : AppWrite(s, d)
-----------------------------------------------------------------------------
(* Internet events. *)

(* The items received and not yet worked on. *)
Unread(s) == Drop(work[s], processed[s]) \o (IF cur = s THEN got ELSE <<>>)
               \o inq[s]

(* The server sends nothing between its acceptance of SSL and the start of
   the SSL handshake, which is the client's. *)
PeerMaySend(s, x) ==
  /\ IsOpen(s)
  /\ ~\E i \in 1..Len(Unread(s)) : Unread(s)[i] = "accept"
  /\ x = "accept" => phase[s] = "connected" /\ s \notin ssl

(* Event 1: an item reaches the socket. *)
Arrive(s, x) ==
  /\ PeerMaySend(s, x)
  /\ Len(inq[s]) < InMax
  /\ inq' = [inq EXCEPT ![s] = Append(@, x)]
  /\ \/ /\ s \in connected /\ phase[s] = "connected"
        /\ reading' = reading \cup {s}
        /\ EventCallback({"READ"})
     \/ /\ ~(s \in connected /\ phase[s] = "connected")
        /\ UNCHANGED <<reading, timer>>
  /\ UNCHANGED <<session, buffers, connected, writing, working, pc, local>>

(* Event 3: the connection is lost. *)
PeerClose(s) ==
  /\ Losses
  /\ s \in connected
  /\ Close(s)
  /\ lost' = lost \cup {s}
  /\ UNCHANGED <<nego, incoming, outgoing, buffers, timer, pc, local>>

Event == \E s \in Sockets : PeerClose(s) \/ \E x \in Item : Arrive(s, x)
-----------------------------------------------------------------------------
(* callbackHandler. *)

(* Reading the clock: once the slice is used up it stays so. *)
Tick == expired' \in {expired, expired \/ Expires}

(* An assertion of the code fails. *)
Abort ==
  /\ Goto("aborted")
  /\ UNCHANGED <<session, inq, buffers, fdSets, timer, local>>

(* RISC OS calls the handler. *)
Dispatch ==
  /\ Idle
  /\ \E how \in Ways : armed[how] > 0 /\ armed' = [armed EXCEPT ![how] = @ - 1]
  /\ expired' = FALSE
  /\ Goto("read")
  /\ UNCHANGED <<session, inq, buffers, fdSets, reason, waiting, raising, cur,
                 scan, got, sent>>

(* A callafter comes from the ticker, while the handler is active too: inHandler
   turns the second call away. *)
DropCall ==
  /\ InHandler \/ pc = "rearm"
  /\ armed["callafter"] > 0 /\ armed' = [armed EXCEPT !["callafter"] = @ - 1]
  /\ UNCHANGED <<session, inq, buffers, fdSets, reason, waiting, raising, pc,
                 local>>

(* if(callbackReason & CALLBACK_READ), and clearing it. *)
ReadPhase ==
  /\ At("read")
  /\ Goto(IF "READ" \in reason THEN "readSelect" ELSE "write")
  /\ reason' = reason \ {"READ"}
  /\ UNCHANGED <<session, inq, buffers, fdSets, calls, local>>

(* FD_COPY and Socket_Select: those with something to read.  The call fails,
   and nothing is scanned, when a socket is closed under it. *)
ReadSelect ==
  /\ At("readSelect")
  /\ \/ scan' = {s \in reading : Len(inq[s]) > 0}
     \/ Losses /\ scan' = {}
  /\ Goto("readScan")
  /\ UNCHANGED <<session, inq, buffers, fdSets, timer, cur, expired, got, sent>>

(* Slip: CONNECTED not tested in the loop (lines 147, 180, 209). *)
ScanUnchecked(here, call, after) ==
  /\ At(here)
  /\ \/ scan = {} /\ Goto(after) /\ UNCHANGED local
     \/ /\ scan # {}
        /\ cur' = Lowest(scan)
        /\ scan' = scan \ {Lowest(scan)}
        /\ Goto(call)
        /\ UNCHANGED <<expired, got, sent>>
  /\ UNCHANGED <<session, inq, buffers, fdSets, timer>>

(* One round of the loop over the sockets of setSockets, or its end.  The
   test after the loop (i <= maxSocket) is never true: the loop has no break,
   so no reason is added for the sockets an expired slice passed over. *)
Scan(here, call, after) ==
  /\ At(here)
  /\ \/ /\ scan = {}
        /\ Goto(after)
        /\ UNCHANGED local
     \/ /\ scan # {}
        /\ scan' = scan \ {Lowest(scan)}
        /\ Tick
        /\ \/ /\ ~expired' /\ phase[Lowest(scan)] = "connected"
              /\ cur' = Lowest(scan)
              /\ Goto(call)
           \/ /\ expired' \/ phase[Lowest(scan)] # "connected"
              /\ UNCHANGED <<pc, cur>>
        /\ UNCHANGED <<got, sent>>
  /\ UNCHANGED <<session, inq, buffers, fdSets, timer>>

ReadScan == Scan("readScan", "readCall", "write")

(* socketRead returns a negative result: the handler closes the session. *)
CloseFailed(back) ==
  /\ Losses
  /\ IsOpen(cur)
  /\ Close(cur)
  /\ Goto(back)
  /\ cur' = None
  /\ UNCHANGED <<nego, lost, incoming, outgoing, buffers, timer, scan, expired,
                 got, sent>>

(* Slip: the size of the work buffer taken for the room in it (line 753). *)
ReadCallBySize ==
  /\ At("readCall")
  /\ phase[cur] = "connected"
  /\ reading' = reading \ {cur}
  /\ LET n == Least(WorkSize, Len(inq[cur])) IN
     /\ n > 0
     /\ got' = SubSeq(inq[cur], 1, n)
     /\ inq' = [inq EXCEPT ![cur] = Drop(@, n)]
  /\ Goto("readDone")
  /\ UNCHANGED <<session, buffers, connected, writing, working, timer, cur,
                 scan, expired, sent>>

(* socketRead up to and including Socket_Read.  It asserts that the session has a
   socket and is CONNECTED (lines 746, 747). *)
ReadCall ==
  /\ At("readCall")
  /\ \/ phase[cur] # "connected" /\ Abort
     \/ phase[cur] = "connected" /\ Len(work[cur]) < WorkSize
          /\ CloseFailed("readScan")
     \/ /\ phase[cur] = "connected"
        /\ reading' = reading \ {cur}
        /\ LET n == Least(WorkSize - Len(work[cur]), Len(inq[cur])) IN
           /\ got' = SubSeq(inq[cur], 1, n)
           /\ inq' = [inq EXCEPT ![cur] = Drop(@, n)]
           /\ IF n = 0 THEN Goto("readScan") /\ cur' = None
                       ELSE Goto("readDone") /\ cur' = cur
        /\ UNCHANGED <<session, buffers, connected, writing, working, timer,
                       scan, expired, sent>>

(* socketRead after Socket_Read. *)
ReadDone ==
  /\ At("readDone")
  /\ work' = [work EXCEPT ![cur] = @ \o got]
  /\ reading' = FdSet(cur, reading)
  /\ working' = FdSet(cur, working)
  /\ AddCallback({"READ", "WORK"})
  /\ got' = <<>> /\ cur' = None
  /\ Goto("readScan")
  /\ UNCHANGED <<session, inq, read, write, processed, connected, writing, scan,
                 expired, sent>>

WritePhase ==
  /\ At("write")
  /\ Tick
  /\ IF "WRITE" \in reason /\ ~expired'
     THEN Goto("writeSelect") /\ reason' = reason \ {"WRITE"}
     ELSE Goto("work") /\ UNCHANGED reason
  /\ UNCHANGED <<session, inq, buffers, fdSets, calls, cur, scan, got, sent>>

WriteSelect ==
  /\ At("writeSelect")
  /\ \/ scan' \in IF WriteBlocks THEN SUBSET writing ELSE {writing}
     \/ Losses /\ scan' = {}
  /\ Goto("writeScan")
  /\ UNCHANGED <<session, inq, buffers, fdSets, timer, cur, expired, got, sent>>

WriteScan == Scan("writeScan", "writeCall", "work")

(* socketWrite up to and including Socket_Write, which takes some of the items;
   the same assertions (lines 660, 661). *)
WriteCall ==
  /\ At("writeCall")
  /\ \/ phase[cur] # "connected" /\ Abort
     \/ phase[cur] = "connected" /\ write[cur] > 0 /\ CloseFailed("writeScan")
     \/ /\ phase[cur] = "connected"
        /\ writing' = writing \ {cur}
        /\ \/ /\ write[cur] = 0 \/ WriteBlocks
              /\ Goto("writeScan") /\ cur' = None
              /\ sent' = 0
           \/ /\ sent' \in 1..write[cur]
              /\ Goto("writeDone") /\ UNCHANGED cur
        /\ UNCHANGED <<session, inq, buffers, connected, reading, working, timer,
                       scan, expired, got>>

(* Slip: the rest not registered for another call (line 719). *)
WriteDoneOnce ==
  /\ At("writeDone")
  /\ LET rest == write[cur] - sent IN
     /\ write' = [write EXCEPT ![cur] = rest]
     /\ writing' = IF rest > 0 THEN FdSet(cur, writing) ELSE writing
     /\ outgoing' = IF rest > 0 THEN outgoing \cup {cur} ELSE outgoing \ {cur}
  /\ sent' = 0 /\ cur' = None
  /\ Goto("writeScan")
  /\ UNCHANGED <<phase, ssl, nego, lost, incoming, inq, read, work, processed, connected,
                 reading, working, timer, scan, expired, got>>

(* socketWrite after Socket_Write. *)
WriteDone ==
  /\ At("writeDone")
  /\ LET rest == write[cur] - sent IN
     /\ write' = [write EXCEPT ![cur] = rest]
     /\ \/ /\ rest > 0
           /\ writing' = FdSet(cur, writing)
           /\ AddCallback({"WRITE"})
           /\ outgoing' = outgoing \cup {cur}
        \/ /\ rest = 0
           /\ outgoing' = outgoing \ {cur}
           /\ UNCHANGED <<writing, timer>>
  /\ sent' = 0 /\ cur' = None
  /\ Goto("writeScan")
  /\ UNCHANGED <<phase, ssl, nego, lost, incoming, inq, read, work, processed, connected,
                 reading, working, scan, expired, got>>

WorkPhase ==
  /\ At("work")
  /\ Tick
  /\ IF "WORK" \in reason /\ ~expired'
     THEN Goto("workScan") /\ reason' = reason \ {"WORK"} /\ scan' = working
     ELSE Goto("leave") /\ UNCHANGED <<reason, scan>>
  /\ UNCHANGED <<session, inq, buffers, fdSets, calls, cur, got, sent>>

WorkScan == Scan("workScan", "workLoop", "leave")

(* The next item of the work buffer. *)
Next1(s) == work[s][processed[s] + 1]

(* Slip: CONNECTED not tested in the loop (line 76). *)
WorkableUnchecked(s) ==
  /\ processed[s] < Len(work[s])
  /\ Next1(s) \in Data => Len(read[s]) < ReadSize
  /\ Next1(s) = "ask"  => write[s] < WriteSize
  /\ Next1(s) = "lead" => processed[s] + 1 < Len(work[s])

(* One round of telnetWork's loop can be completed. *)
Workable(s) ==
  /\ phase[s] = "connected"
  /\ processed[s] < Len(work[s])
  /\ Next1(s) \in Data => Len(read[s]) < ReadSize
  /\ Next1(s) = "ask"  => write[s] < WriteSize
  /\ Next1(s) = "lead" => processed[s] + 1 < Len(work[s])

WorkItem ==
  /\ At("workLoop")
  /\ Workable(cur)
  /\ LET x == Next1(cur) IN
     /\ processed' = [processed EXCEPT ![cur] = @ + (IF x = "lead" THEN 2 ELSE 1)]
     /\ read' = [read EXCEPT ![cur] = IF x \in Data THEN Append(@, x) ELSE @]
     /\ nego' = IF x \in Data THEN nego \ {cur} ELSE nego
     /\ write' = [write EXCEPT ![cur] = IF x = "ask" THEN @ + 1 ELSE @]
     /\ phase' = [phase EXCEPT ![cur] = IF x = "accept" THEN "securing" ELSE @]
  /\ UNCHANGED <<ssl, lost, incoming, outgoing, inq, work, fdSets, timer, pc,
                 local>>

(* The loop ends: nothing more can be done, or its time is over. *)
WorkStop ==
  /\ At("workLoop")
  /\ ~Workable(cur) \/ Expires
  /\ Goto("workTail")
  /\ UNCHANGED <<session, inq, buffers, fdSets, timer, local>>

(* Slip: workProcessed not reset when the buffer is drained (line 218). *)
WorkTailKeepsCount ==
  /\ At("workTail")
  /\ LET done  == processed[cur]
         drain == Len(work[cur]) = done \/ done > WorkSize \div 2
     IN work' = [work EXCEPT ![cur] = IF drain THEN Drop(@, done) ELSE @]
  /\ incoming' = IF Len(read[cur]) > 0 THEN incoming \cup {cur} ELSE incoming
  /\ cur' = None
  /\ Goto("workScan")
  /\ UNCHANGED <<phase, ssl, nego, lost, outgoing, inq, read, write, processed,
                 fdSets, timer, scan, expired, got, sent>>

(* Slip: what is left is not registered for another call (line 240). *)
WorkTailOnce ==
  /\ At("workTail")
  /\ LET done  == processed[cur]
         drain == Len(work[cur]) = done \/ done > WorkSize \div 2
         toSend == write[cur] > 0
     IN /\ work' = [work EXCEPT ![cur] = IF drain THEN Drop(@, done) ELSE @]
        /\ processed' = [processed EXCEPT ![cur] = IF drain THEN 0 ELSE @]
        /\ outgoing' = IF toSend THEN outgoing \cup {cur} ELSE outgoing
        /\ writing' = IF toSend THEN FdSet(cur, writing) ELSE writing
        /\ IF toSend THEN AddCallback({"WRITE"}) ELSE UNCHANGED timer
  /\ incoming' = IF Len(read[cur]) > 0 THEN incoming \cup {cur} ELSE incoming
  /\ cur' = None
  /\ Goto("workScan")
  /\ UNCHANGED <<phase, ssl, nego, lost, inq, read, write, connected, reading,
                 working, scan, expired, got, sent>>

(* telnetWork after its loop (lines 215-241). *)
WorkTail ==
  /\ At("workTail")
  /\ LET done  == processed[cur]
         drain == Len(work[cur]) = done \/ done > WorkSize \div 2
         left  == Len(work[cur]) > done
         toSend == write[cur] > 0
     IN /\ work' = [work EXCEPT ![cur] = IF drain THEN Drop(@, done) ELSE @]
        /\ processed' = [processed EXCEPT ![cur] = IF drain THEN 0 ELSE @]
        /\ incoming' = IF Len(read[cur]) > 0 THEN incoming \cup {cur} ELSE incoming
        /\ outgoing' = IF toSend THEN outgoing \cup {cur} ELSE outgoing
        /\ writing' = IF toSend THEN FdSet(cur, writing) ELSE writing
        /\ working' = IF left THEN FdSet(cur, working) ELSE working
        /\ IF toSend \/ left
           THEN AddCallback({r \in {"WRITE", "WORK"} : \/ r = "WRITE" /\ toSend
                                                       \/ r = "WORK" /\ left})
           ELSE UNCHANGED timer
  /\ cur' = None
  /\ Goto("workScan")
  /\ UNCHANGED <<phase, ssl, nego, lost, inq, read, write, connected, reading,
                 scan, expired, got, sent>>

(* Slip: callbackWaiting set aside only when nothing is left to do. *)
LeaveIfDone ==
  /\ At("leave")
  /\ waiting' = (reason # {})
  /\ Goto("rearm")
  /\ UNCHANGED <<session, inq, buffers, fdSets, reason, armed, raising, local>>

(* callbackWaiting = FALSE *)
Leave ==
  /\ At("leave")
  /\ waiting' = FALSE
  /\ Goto("rearm")
  /\ UNCHANGED <<session, inq, buffers, fdSets, reason, armed, raising, local>>

(* Slip: only newCallback, which is never set, decides (line 231). *)
RearmIfSkipped ==
  /\ At("rearm")
  /\ Goto("idle")
  /\ expired' = FALSE
  /\ UNCHANGED <<session, inq, buffers, fdSets, timer, cur, scan, got, sent>>

(* Anymore to do? *)
Rearm ==
  /\ At("rearm")
  /\ IF reason # {} THEN Register({}, "callafter") ELSE UNCHANGED timer
  /\ Goto("idle")
  /\ expired' = FALSE
  /\ UNCHANGED <<session, inq, buffers, fdSets, cur, scan, got, sent>>

Handler == \/ ReadPhase \/ ReadSelect \/ ReadScan \/ ReadCall \/ ReadDone
           \/ WritePhase \/ WriteSelect \/ WriteScan \/ WriteCall \/ WriteDone
           \/ WorkPhase \/ WorkScan \/ WorkItem \/ WorkStop \/ WorkTail
           \/ Leave \/ Rearm

Next == \/ Application \/ SecureDone \/ Dispatch \/ Handler
        \/ RaiseFlag \/ DropCall \/ Event

Spec == Init /\ [][Next]_vars

(* RISC OS calls registered callbacks, the handler and the SWIs run to their end,
   and the application, which runs between two calls of the handler (a callafter
   is 2 cs away), reads what it is told is there: it can do so only while no
   handler is active, hence the strong fairness. *)
Fairness == /\ WF_vars(Dispatch)
            /\ WF_vars(Handler) /\ WF_vars(RaiseFlag) /\ WF_vars(SecureDone)
            /\ \A s \in Sockets : SF_vars(s \in incoming /\ AppRead(s, ReadSize))

FairSpec == Spec /\ Fairness
-----------------------------------------------------------------------------
(* Every variable has its type, and no buffer outgrows its size. *)
TypeOK ==
  /\ phase \in [Sockets -> Phases]
  /\ ssl \subseteq Sockets /\ nego \subseteq Sockets /\ lost \subseteq Sockets
  /\ incoming \subseteq Sockets /\ outgoing \subseteq Sockets
  /\ inq \in [Sockets -> Seq(Item)]
  /\ read \in [Sockets -> Seq(Data)]
  /\ write \in [Sockets -> 0..WriteSize]
  /\ work \in [Sockets -> Seq(Item)]
  /\ processed \in [Sockets -> 0..WorkSize]
  /\ connected \subseteq Sockets /\ reading \subseteq Sockets
  /\ writing \subseteq Sockets /\ working \subseteq Sockets
  /\ reason \subseteq Reasons
  /\ waiting \in BOOLEAN
  /\ armed \in [Ways -> Nat]
  /\ raising \in BOOLEAN
  /\ pc \in Places
  /\ cur \in Sockets \cup {None}
  /\ scan \subseteq Sockets
  /\ expired \in BOOLEAN
  /\ got \in Seq(Item) /\ sent \in 0..WriteSize
  /\ \A s \in Sockets : /\ Len(inq[s]) <= InMax
                        /\ Len(read[s]) <= ReadSize
                        /\ Len(work[s]) <= WorkSize
                        /\ processed[s] <= Len(work[s])

(* "If there is already a callafter or callback in progress" (vectors.c:59, 85):
   callbackWaiting never stays set with no call of the handler to come, behind
   which every later registration would be lost; and there come to be more calls
   than it stands for only by an event that falls between the registration of a
   call and the setting of the flag. *)
CallbackFlag ==
  /\ [](waiting /\ pc \in {"idle", "secure"} => Outstanding > 0)
  /\ [][Surplus' > Surplus => raising /\ ~waiting /\ waiting' /\ pc' = pc]_vars

(* A reason noted by an event, a SWI or the handler itself is never left
   without a call of the handler to come, unless RISC OS refuses one. *)
NoForgottenReason ==
  Idle /\ reason # {} /\ ~RegisterMayFail => Outstanding > 0

(* The fd_sets name open, connected sockets only, however events interleave
   with the handler: Socket_Select is never given a closed socket, and a
   closed session's number can be reused.  A connected session is one whose
   events eventvHandler listens to. *)
FdSetsOpen ==
  /\ reading \cup writing \cup working \subseteq connected
  /\ \A s \in Sockets : s \in connected <=> phase[s] \in {"connected", "securing"}

(* What has been read from an open socket and not worked on keeps the socket
   in the set the work callback goes through. *)
WorkMarked ==
  \A s \in Sockets : IsOpen(s) /\ Len(work[s]) > processed[s] => s \in working

(* The fd_sets and the sessions agree: neither names a socket the other has
   given up, and none with work left is missing (vectors.c:291). *)
SetsAgree == FdSetsOpen /\ WorkMarked

(* Between two calls of the handler, unfinished work has its callback
   ("More work to do?", telnet.c:236; "Did we process all events?",
   vectors.c:222). *)
UnfinishedWorkIsScheduled ==
  Idle => \A s \in Sockets :
            phase[s] = "connected" /\ Len(work[s]) > processed[s]
              => "WORK" \in reason

(* The assertions of socketRead and socketWrite (socket.c:660, 661, 746, 747) fail
   only when an event closes the very session that the handler has just found
   connected: never for one that was lost before, or that is in another state. *)
AbortsNeedLoss ==
  /\ pc = "aborted" => phase[cur] = "finished" /\ cur \in lost
  /\ \A s \in Sockets : phase[s] = "connected" => s \notin lost

(* Those already sent may leave the write buffer of a connection that has ended. *)
AfterEnd(s) ==
  phase[s] = "finished"
    => /\ \/ phase'[s] \in {"finished", "free"}
          \/ phase'[s] = "revived" /\ pc = "secure" /\ cur = s
       /\ phase'[s] = "finished"
            => /\ read'[s] = read[s]
               /\ write'[s] = write[s] \/ (pc = "writeDone" /\ cur = s)

AfterRevival(s) ==
  phase[s] = "revived"
    => /\ phase'[s] \in {"revived", "free"}
       /\ phase'[s] = "revived"
            => /\ UNCHANGED <<inq[s], work[s], processed[s]>>
               /\ write'[s] >= write[s]
               /\ s \notin reading \cup writing \cup working

(* A connection that has ended moves no more bytes to or from its application,
   and nothing but an SSL call that was under way when it ended connects it
   again.  Then its application may empty and fill the buffers, but nothing
   passes between them and a socket, and it stays so until BTTelnet_Close. *)
EndedStaysEnded == [][\A s \in Sockets : AfterEnd(s) /\ AfterRevival(s)]_vars

(* While the SSL connection is being made (telnetAuthReply has cleared
   CONNECTED), no byte passes between the buffers and the application or the
   socket: the server takes the next byte for the SSL handshake. *)
QuietWhileSecuring ==
  [][\A s \in Sockets :
       phase[s] = "securing" /\ phase'[s] = "securing"
         => read'[s] = read[s] /\ write'[s] = write[s]
    ]_vars

(* The data bytes among q, as telnetWork takes the commands out. *)
Payload(q) ==
  LET from[i \in 1..(Len(q) + 2)] ==
        IF i > Len(q) THEN <<>>
        ELSE IF q[i] = "lead" THEN from[i + 2]
        ELSE IF q[i] \in Data THEN <<q[i]>> \o from[i + 1]
        ELSE from[i + 1]
  IN from[1]

PipeOf(s) == INSTANCE Pipe WITH
  Room   <- ReadSize,
  ready  <- IF IsOpen(s) THEN read[s] ELSE <<>>,
  coming <- IF IsOpen(s) THEN Payload(Unread(s)) ELSE <<>>

(* Through partial reads, partial work, drains, closes and events in the
   middle of each, every connection is an ordered pipe. *)
IsPipe ==
  /\ \A s \in Sockets : PipeOf(s)!PipeInit
  /\ [][\A s \in Sockets : [PipeOf(s)!PipeNext]_(PipeOf(s)!pvars)]_vars

(* Work that can be done is done: while a session has an item that can be
   worked on, the handler keeps coming back to it. *)
WorkProceeds ==
  \A s \in Sockets :
    (<>[](phase[s] = "connected" /\ Len(work[s]) > processed[s]
            /\ ~(/\ Next1(s) = "lead" /\ processed[s] + 1 = Len(work[s]))))
      => []<><<WorkItem /\ cur = s>>_vars

(* What a SWI or the work on a command has left in the write buffer of a
   connected session is sent, for every one of the sockets that share the
   callback, however the sends and the events fall (not so the greeting, for
   which nothing registers a callback; hence Greeting = 0 where this is
   checked). *)
OutgoingSent ==
  \A s \in Sockets :
    (<>[](write[s] > 0 /\ phase[s] = "connected"))
      => []<><<WriteDone /\ cur = s>>_vars
=============================================================================
