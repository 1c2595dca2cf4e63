------------------------------- MODULE Telnet -------------------------------
(***************************************************************************)
(* The telnet protocol of one session: telnetWork takes the bytes of the   *)
(* work buffer apart, one message of the server per round of its loop,     *)
(* puts data into the read buffer and answers into the write buffer        *)
(* (BTTelnet/Module/telnet.c).                                             *)
(*                                                                         *)
(* The server sends whole messages, whenever it likes; the network cuts    *)
(* the stream anywhere.  The application reads and writes between two      *)
(* calls of telnetWork.  The registration of callbacks and the fd_sets are *)
(* the subject of Vectors; here "due" says whether a work callback for the *)
(* session is coming.                                                      *)
(***************************************************************************)
EXTENDS Integers, Sequences, FiniteSets, SequencesExt

CONSTANTS
  Kinds,         \* which messages of AllKinds the server sends
  MaxSent,       \* bound: messages the server sends
  ReadSize, WriteSize, WorkSize,   \* bufferSize of the three buffers, in bytes
  Word,          \* number of values of an unsigned int
  NameRoom,      \* bytes to send the user name, 0 without one
  TermLength,    \* strlen(ptr->terminal)
  SendSizes,     \* bound: how many bytes the network takes, or the application
                 \* writes, at a time
  RawChoices,    \* may the session be RAW, may it be telnet?
  EchoChoices,   \* has the session SUPPORT_ECHO?
  SslUsable      \* SSL flag set and SecureSockets loaded

(* BTT_telnet.h *)
NUL == 0   BS == 8     LF == 10    CR == 13    DEL == 127
SE == 240  SB == 250   WILL == 251 WONT == 252 DO == 253  DONT == 254  IAC == 255
ECHO == 1  TTYPE == 24 AUTH == 37
SEND == 1  REPLY == 2
SSL == 7   ACCEPT == 2

x == 120   \* a letter
SGA == 3   \* an option the client knows nothing of

(* The messages, as a server encodes them.  "oddReply" is the acceptance of
   a type other than SSL, "authOther" a command of the option that the client
   does not know, "otherSub" a subnegotiation of an option it does not know. *)
Encoding ==
  [letter    |-> <<x>>,               nul       |-> <<NUL>>,
   rubout    |-> <<BS>>,              newline   |-> <<CR, LF>>,
   return    |-> <<CR, NUL>>,         byte255   |-> <<IAC, IAC>>,
   nop       |-> <<IAC, 241>>,
   willEcho  |-> <<IAC, WILL, ECHO>>, wontEcho  |-> <<IAC, WONT, ECHO>>,
   willOther |-> <<IAC, WILL, SGA>>,  wontOther |-> <<IAC, WONT, SGA>>,
   doEcho    |-> <<IAC, DO, ECHO>>,   doAuth    |-> <<IAC, DO, AUTH>>,
   doTtype   |-> <<IAC, DO, TTYPE>>,  doOther   |-> <<IAC, DO, SGA>>,
   dont      |-> <<IAC, DONT, ECHO>>,
   ttype     |-> <<IAC, SB, TTYPE, SEND, IAC, SE>>,
   authSsl   |-> <<IAC, SB, AUTH, SEND, 1, 0, SSL, 0, IAC, SE>>,
   authNone  |-> <<IAC, SB, AUTH, SEND, 1, 0, IAC, SE>>,
   accept    |-> <<IAC, SB, AUTH, REPLY, SSL, 0, ACCEPT, IAC, SE>>,
   reject    |-> <<IAC, SB, AUTH, REPLY, SSL, 0, 3, IAC, SE>>,
   oddReply  |-> <<IAC, SB, AUTH, REPLY, 1, 0, ACCEPT, IAC, SE>>,
   authOther |-> <<IAC, SB, AUTH, 4, IAC, SE>>,
   otherSub  |-> <<IAC, SB, 31, x, IAC, SE>>]

AllKinds == DOMAIN Encoding

ASSUME KindsAssumption == Kinds \subseteq AllKinds /\ MaxSent \in Nat
ASSUME RoomAssumption  == /\ ReadSize \in Nat \ {0} /\ WriteSize \in Nat \ {0}
                          /\ WorkSize \in Nat \ {0}
                          /\ Word \in Nat /\ Word > 2 * WorkSize + 16
                          /\ NameRoom \in Nat /\ TermLength \in Nat
                          /\ SendSizes \subseteq Nat \ {0}
ASSUME ChoiceAssumption == /\ RawChoices \subseteq BOOLEAN
                           /\ EchoChoices \subseteq BOOLEAN
                           /\ SslUsable \in BOOLEAN

VARIABLES
  net,           \* bytes on their way from the server
  work, wp,      \* the work buffer, and workProcessed
  read, write,   \* the read buffer; the amount in the write buffer
  raw, support,  \* the flags RAW and SUPPORT_ECHO
  connected, nego, localEcho,   \* status bits; accepting SSL clears CONNECTED
  due,           \* is a work callback coming for the session?  "yes", "no", or
                 \* "passed": one came and passed over the session
  pc,            \* "idle", or telnetWork's "loop" or "tail"
  sent, stream,  \* history: messages of the server, and their bytes
  dialogue,      \* history: what each message asks for; see Dialogue
  shown, answers,  \* history: up to the first slip, bytes passed to the
                   \* application, answers to the server
  slips          \* history: what the server sent that the client gets wrong

flags   == <<raw, support>>
server  == <<sent, stream, dialogue>>
history == <<server, shown, answers, slips>>
vars == <<net, work, wp, read, write, flags, connected, nego, localEcho, due, pc,
          history>>

Least(a, b) == IF a < b THEN a ELSE b
Drop(q, n) == SubSeq(q, n + 1, Len(q))

(* What the protocol says of the messages (RFC 854, 857, 2941), and what the
   client's answers are to be. *)

Meaning(k) == CASE k = "letter"  -> <<x>>
                [] k = "rubout"  -> <<DEL>>
                [] k = "newline" -> <<LF>>
                [] k = "return"  -> <<CR>>
                [] k = "byte255" -> <<IAC>>
                [] OTHER         -> <<>>

(* An option is answered if it changes something or is refused; "echo" is
   whether the client echoes. *)
Answer(k, echo) ==
  CASE k = "willEcho"  -> IF echo THEN <<<<DO, ECHO>>>> ELSE <<>>
    [] k = "wontEcho"  -> IF echo THEN <<>> ELSE <<<<DONT, ECHO>>>>
    [] k = "willOther" -> <<<<DONT, SGA>>>>
    [] k = "doEcho"    -> <<<<WONT, ECHO>>>>
    [] k = "doOther"   -> <<<<WONT, SGA>>>>
    [] k = "doAuth"    -> <<<<WILL, AUTH>>>>
    [] k = "doTtype"   -> <<<<WILL, TTYPE>>>>
    [] k = "ttype"     -> <<<<SB, TTYPE>>>>
    [] k = "authSsl"   -> <<<<SB, AUTH, IF SslUsable THEN SSL ELSE 0>>>>
    [] k = "authNone"  -> <<<<SB, AUTH, 0>>>>
    [] OTHER           -> <<>>

(* Begun again on the SSL connection, unless the greeting stands. *)
EchoAfter(k, echo, greeting) ==
  CASE k = "willEcho" -> FALSE
    [] k = "wontEcho" -> TRUE
    [] k = "accept"   -> echo \/ ~greeting
    [] OTHER          -> echo

After(st, k) ==
  [end      |-> st.end + Len(Encoding[k]),
   bytes    |-> st.bytes \o Meaning(k),
   answers  |-> st.answers \o Answer(k, st.echo),
   echo     |-> EchoAfter(k, st.echo, st.greeting),
   greeting |-> IF k \in {"letter", "nul", "rubout", "newline", "return"} THEN FALSE
                ELSE st.greeting \/ k = "accept"]

(* The state of the dialogue after the first j messages, and where they end in
   the stream. *)
Dialogue(j) == dialogue[j + 1]

Opening == [end |-> 0, bytes |-> <<>>, answers |-> <<>>, echo |-> TRUE,
            greeting |-> TRUE]

(* What the work buffer holds that is not worked on, and the network behind it. *)
Unworked == Drop(work, Least(wp, Len(work)))
Pending  == Unworked \o net

(* The messages up to j are worked on and those behind it are not. *)
At(j) == Pending = Drop(stream, Dialogue(j).end)
-----------------------------------------------------------------------------
(* Slip: a signed counter (common.h:141). *)
Subtract1Signed(n) == n - 1

(* workProcessed--, of an unsigned int. *)
Subtract1(n) == (n + Word - 1) % Word

(* telnetSendNegotiation: four messages of three bytes, each if it has room. *)
Greeted(n) == n + 3 * Least(4, (WriteSize - n) \div 3)

Init ==
  /\ net = <<>> /\ work = <<>> /\ wp = 0 /\ read = <<>>
  /\ raw \in RawChoices /\ support \in EchoChoices
  /\ write = IF raw THEN 0 ELSE Greeted(0)
  /\ connected = TRUE /\ nego = ~raw /\ localEcho = TRUE
  /\ due = "no" /\ pc = "idle"
  /\ sent = <<>> /\ stream = <<>> /\ dialogue = <<Opening>>
  /\ shown = <<>> /\ answers = <<>> /\ slips = {}
-----------------------------------------------------------------------------
(* The server and the network. *)

(* A message, behind an acceptance of SSL too.  A RAW session does not look at the
   bytes, so that for it the short messages will do (a bound). *)
Send(k) ==
  /\ Len(sent) < MaxSent
  /\ raw => Len(Encoding[k]) <= 2
  /\ sent' = Append(sent, k)
  /\ stream' = stream \o Encoding[k]
  /\ dialogue' = Append(dialogue, After(Last(dialogue), k))
  /\ net' = net \o Encoding[k]
  /\ UNCHANGED <<work, wp, read, write, flags, connected, nego, localEcho, due, pc,
                 shown, answers, slips>>

(* socketRead brings the first n bytes that have come, as far as they fit. *)
Arrive(n) ==
  /\ pc = "idle"
  /\ connected
  /\ n <= Least(Len(net), WorkSize - Len(work))
  /\ work' = work \o SubSeq(net, 1, n)
  /\ net' = Drop(net, n)
  /\ due' = "yes"
  /\ UNCHANGED <<wp, read, write, flags, connected, nego, localEcho, pc, history>>

(* socketWrite. *)
Take(n) ==
  /\ pc = "idle"
  /\ connected
  /\ write > 0
  /\ write' = write - Least(n, write)
  /\ UNCHANGED <<net, work, wp, read, flags, connected, nego, localEcho, due, pc,
                 history>>
-----------------------------------------------------------------------------
(* The application. *)

AppRead(n) ==
  /\ pc = "idle"
  /\ connected
  /\ Len(read) > 0
  /\ read' = Drop(read, n)
  /\ UNCHANGED <<net, work, wp, write, flags, connected, nego, localEcho, due, pc,
                 history>>

(* telnetWrite of n bytes b, as far as they fit; each is echoed if the read
   buffer has room for it. *)
AppWrite(b, n) ==
  /\ pc = "idle"
  /\ connected
  /\ write < WriteSize
  /\ LET written == Least(n, WriteSize - write)
         echoed  == IF ~raw /\ localEcho /\ support
                    THEN Least(written, ReadSize - Len(read)) ELSE 0
     IN /\ write' = write + written
        /\ read' = read \o [i \in 1..echoed |-> IF b = BS THEN DEL ELSE b]
  /\ UNCHANGED <<net, work, wp, flags, connected, nego, localEcho, due, pc, history>>

(* socketUpdate has made the SSL connection, or has given up making it: the
   session is connected, and greets unless it is NEGOTIATING.  The handshake may
   have taken bytes that the server sent too early. *)
Secured ==
  /\ pc = "idle"
  /\ ~connected
  /\ \E n \in 0..Len(net) :
       /\ net' = Drop(net, n)
       /\ slips' = IF n = 0 THEN slips ELSE slips \cup {"early"}
  /\ connected' = TRUE
  /\ nego' = TRUE
  /\ IF nego THEN UNCHANGED <<localEcho, write>>
             ELSE localEcho' = TRUE /\ write' = Greeted(write)
  /\ UNCHANGED <<work, wp, read, flags, due, pc, server, shown, answers>>
-----------------------------------------------------------------------------
(* telnetWork.  Byte(j) is data[workProcessed + j]. *)
Byte(j) == work[wp + 1 + j]
Have(n) == wp + n <= Len(work)

(* The callback handler, which has cleared its reason, comes to the session. *)
Begin ==
  /\ pc = "idle"
  /\ due = "yes"
  /\ connected
  /\ due' = "no"
  /\ pc' = "loop"
  /\ UNCHANGED <<net, work, wp, read, write, flags, connected, nego, localEcho,
                 history>>

(* Or passes over it, for its slice of time is used up by other sockets or the
   session is not CONNECTED.  It does not come again for what is left. *)
PassOver ==
  /\ pc = "idle"
  /\ due = "yes"
  /\ due' = "passed"
  /\ UNCHANGED <<net, work, wp, read, write, flags, connected, nego, localEcho, pc,
                 history>>

(* A RAW session: copy what fits. *)
CopyRaw ==
  /\ pc = "loop"
  /\ raw
  /\ LET n == Least(ReadSize - Len(read), Len(work) - wp) IN
     /\ read' = read \o SubSeq(work, wp + 1, wp + n)
     /\ shown' = shown \o SubSeq(work, wp + 1, wp + n)
     /\ wp' = wp + n
  /\ pc' = "tail"
  /\ UNCHANGED <<net, work, write, flags, connected, nego, localEcho, due, server,
                 answers, slips>>

(* Slip: the loop goes on behind an acceptance of SSL. *)
LoopingUnconnected == pc = "loop" /\ ~raw /\ Have(1)

Looping == pc = "loop" /\ ~raw /\ connected /\ Have(1)

(* The time is up, or a condition of the loop fails. *)
LoopEnd ==
  /\ pc = "loop" /\ ~raw
  /\ pc' = "tail"
  /\ UNCHANGED <<net, work, wp, read, write, flags, connected, nego, localEcho, due,
                 history>>

(* What no round changes, and what only some do. *)
Fixed  == UNCHANGED <<net, work, flags, due, server>>
Status == UNCHANGED <<connected, nego, localEcho>>
Silent == UNCHANGED <<write, answers>>
Unread == UNCHANGED <<read, shown>>

Skip(n) == wp' = wp + n /\ UNCHANGED pc

(* bProcess = FALSE: the message waits for bytes or for room. *)
Wait == pc' = "tail" /\ UNCHANGED wp

(* One byte to the application. *)
Deliver(b, n) ==
  \/ /\ Len(read) < ReadSize
     /\ read' = Append(read, b)
     /\ shown' = IF slips = {} THEN Append(shown, b) ELSE shown
     /\ Skip(n)
  \/ /\ Len(read) >= ReadSize
     /\ Wait
     /\ Unread

Null ==
  /\ Looping /\ Byte(0) = NUL
  /\ Skip(1)
  /\ nego' = FALSE
  /\ Fixed /\ Silent /\ Unread /\ UNCHANGED <<connected, localEcho, slips>>

Rubout ==
  /\ Looping /\ Byte(0) \in {BS, DEL}
  /\ Deliver(DEL, 1)
  /\ nego' = FALSE
  /\ Fixed /\ Silent /\ UNCHANGED <<connected, localEcho, slips>>

(* CR LF.  Without room the counter goes back instead of staying, and the
   loop goes on. *)
NewLine ==
  /\ Looping /\ Byte(0) = CR /\ Have(2) /\ Byte(1) = LF
  /\ \/ /\ Len(read) < ReadSize
        /\ Deliver(LF, 2)
        /\ UNCHANGED slips
     \/ /\ Len(read) >= ReadSize
        /\ wp' = Subtract1(wp)
        /\ slips' = slips \cup {"newline"}
        /\ Unread /\ UNCHANGED pc
  /\ nego' = FALSE
  /\ Fixed /\ Silent /\ UNCHANGED <<connected, localEcho>>

(* CR and anything else: a NUL is looked for in the place of the CR, so the
   CR is dropped. *)
BareReturn ==
  /\ Looping /\ Byte(0) = CR /\ Have(2) /\ Byte(1) # LF
  /\ Skip(1)
  /\ slips' = slips \cup {"return"}
  /\ nego' = FALSE
  /\ Fixed /\ Silent /\ Unread /\ UNCHANGED <<connected, localEcho>>

Letter ==
  /\ Looping /\ Byte(0) \notin {NUL, BS, DEL, CR, IAC}
  /\ Deliver(Byte(0), 1)
  /\ nego' = IF Len(read) < ReadSize THEN FALSE ELSE nego
  /\ Fixed /\ Silent /\ UNCHANGED <<connected, localEcho, slips>>

(* Less than two bytes of a message that needs them. *)
TooShort ==
  /\ Looping /\ Byte(0) \in {CR, IAC} /\ ~Have(2)
  /\ Wait
  /\ Fixed /\ Status /\ Silent /\ Unread /\ UNCHANGED slips

Command(c) == Looping /\ Byte(0) = IAC /\ Have(2) /\ Byte(1) = c

Quoted ==
  /\ Command(IAC)
  /\ Deliver(IAC, 2)
  /\ Fixed /\ Status /\ Silent /\ UNCHANGED slips

(* Slip: an unknown command taken for one with an option. *)
UnknownByThree ==
  /\ Looping /\ Byte(0) = IAC /\ Have(2)
  /\ Byte(1) \notin {IAC, WILL, WONT, DO, DONT, SB}
  /\ Skip(3)
  /\ Fixed /\ Status /\ Silent /\ Unread /\ UNCHANGED slips

Unknown ==
  /\ Looping /\ Byte(0) = IAC /\ Have(2)
  /\ Byte(1) \notin {IAC, WILL, WONT, DO, DONT, SB}
  /\ Skip(2)
  /\ Fixed /\ Status /\ Silent /\ Unread /\ UNCHANGED slips

(* The option of a command has not come. *)
OptionMissing ==
  /\ \E c \in {WILL, WONT, DO, DONT} : Command(c)
  /\ ~Have(3)
  /\ Wait
  /\ Fixed /\ Status /\ Silent /\ Unread /\ UNCHANGED slips

Option(c) == Command(c) /\ Have(3)

(* Room for an answer of n bytes out of the room asked for. *)
Reply(what, n, room) ==
  /\ WriteSize - write >= room
  /\ write' = write + n
  /\ answers' = IF slips = {} THEN Append(answers, what) ELSE answers

(* telnetMessage, in the handlers below. *)
Message(c, option) ==
  \/ Reply(<<c, option>>, 3, 3) /\ Skip(3)
  \/ WriteSize - write < 3 /\ Wait /\ Silent

(* Slip: the bit cleared although the answer found no room. *)
WillOptionAtOnce ==
  /\ Option(WILL)
  /\ \/ Byte(2) = ECHO /\ ~localEcho /\ Skip(3) /\ Silent /\ UNCHANGED localEcho
     \/ /\ Byte(2) = ECHO /\ localEcho
        /\ Message(DO, ECHO)
        /\ localEcho' = FALSE
     \/ Byte(2) # ECHO /\ Message(DONT, Byte(2)) /\ UNCHANGED localEcho
  /\ Fixed /\ Unread /\ UNCHANGED <<connected, nego, slips>>

WillOption ==
  /\ Option(WILL)
  /\ \/ Byte(2) = ECHO /\ ~localEcho /\ Skip(3) /\ Silent /\ UNCHANGED localEcho
     \/ /\ Byte(2) = ECHO /\ localEcho
        /\ Message(DO, ECHO)
        /\ localEcho' = (WriteSize - write < 3)
     \/ Byte(2) # ECHO /\ Message(DONT, Byte(2)) /\ UNCHANGED localEcho
  /\ Fixed /\ Unread /\ UNCHANGED <<connected, nego, slips>>

WontOption ==
  /\ Option(WONT)
  /\ \/ /\ Byte(2) = ECHO /\ ~localEcho
        /\ Message(DONT, ECHO)
        /\ localEcho' = (WriteSize - write >= 3)
     \/ (Byte(2) # ECHO \/ localEcho) /\ Skip(3) /\ Silent /\ UNCHANGED localEcho
  /\ Fixed /\ Unread /\ UNCHANGED <<connected, nego, slips>>

DoOption ==
  /\ Option(DO)
  /\ Message(IF Byte(2) \in {AUTH, TTYPE} THEN WILL ELSE WONT, Byte(2))
  /\ Fixed /\ Status /\ Unread /\ UNCHANGED slips

DontOption ==
  /\ Option(DONT)
  /\ Skip(3)
  /\ Fixed /\ Status /\ Silent /\ Unread /\ UNCHANGED slips

(* telnetSEPresent. *)
SEs == {i \in wp + 1 .. Len(work) - 1 : work[i] = IAC /\ work[i + 1] = SE}
SEPresent == SEs # {}

SubMissing ==
  /\ Command(SB)
  /\ ~SEPresent
  /\ Wait
  /\ Fixed /\ Status /\ Silent /\ Unread /\ UNCHANGED slips

Sub == Command(SB) /\ SEPresent

(* Where the loop "while(data[i] != IAC && data[i+1] != SE) i += 2" can stop
   when it starts at Byte(j); indexes of work.  Past the bytes received it
   reads what the memory holds. *)
PairStops(j) ==
  {i \in wp + 1 + j .. Len(work) :
     /\ (i - (wp + 1 + j)) % 2 = 0
     /\ work[i] = IAC \/ (i < Len(work) /\ work[i + 1] = SE)}

IsFirst(i, S) == i \in S /\ \A k \in S : i <= k

(* The counter behind where the loop stops, be it the end of the message, a
   later place in the buffer or a place behind what it holds. *)
SkipPairs(j) ==
  /\ UNCHANGED pc
  /\ \/ \E i \in PairStops(j) : IsFirst(i, PairStops(j)) /\ wp' = i + 1
     \/ PairStops(j) = {} /\ wp' \in Len(work) + 1 .. WorkSize + 2
  /\ slips' = IF \E i \in SEs : IsFirst(i, SEs) /\ wp' = i + 1 THEN slips
              ELSE slips \cup {"overrun"}

OffersSsl ==
  \E i \in wp + 5 .. Len(work) - 1 :
     /\ (i - (wp + 5)) % 2 = 0
     /\ \A k \in PairStops(4) : i < k
     /\ work[i] = SSL /\ work[i + 1] = 0

(* telnetAuthSend: user name and answer, all or nothing.  A loop past the bytes
   received may find the offer in stale memory. *)
AuthSend ==
  /\ Sub /\ Byte(2) = AUTH /\ Byte(3) = SEND
  /\ \E stale \in BOOLEAN :
     LET ssl == SslUsable /\ (OffersSsl \/ (PairStops(4) = {} /\ stale)) IN
     \/ /\ Reply(<<SB, AUTH, IF ssl THEN SSL ELSE 0>>,
                 NameRoom + (IF ssl THEN 9 ELSE 8), NameRoom + 11)
        /\ SkipPairs(4)
     \/ /\ WriteSize - write < NameRoom + 11
        /\ Wait /\ Silent /\ UNCHANGED slips
  /\ Fixed /\ Status /\ Unread

(* telnetAuthReply. *)
AuthReply ==
  /\ Sub /\ Byte(2) = AUTH /\ Byte(3) = REPLY
  /\ LET ssl == Byte(4) = SSL /\ Byte(5) = 0 IN
     /\ SkipPairs(IF ssl THEN 7 ELSE 4)
     /\ connected' = ~(ssl /\ Byte(6) = ACCEPT)
  /\ Fixed /\ Silent /\ Unread /\ UNCHANGED <<nego, localEcho>>

(* telnetTTypeSend. *)
TTypeSend ==
  /\ Sub /\ Byte(2) = TTYPE /\ Byte(3) = SEND
  /\ \/ /\ Reply(<<SB, TTYPE>>, 6 + TermLength, 6 + TermLength)
        /\ SkipPairs(4)
     \/ WriteSize - write < 6 + TermLength /\ Wait /\ Silent /\ UNCHANGED slips
  /\ Fixed /\ Status /\ Unread

(* A command of these options that is not known: nothing is skipped, and the
   loop goes on. *)
SubCommandUnknown ==
  /\ Sub
  /\ \/ Byte(2) = AUTH /\ Byte(3) \notin {SEND, REPLY}
     \/ Byte(2) = TTYPE /\ Byte(3) # SEND
  /\ slips' = slips \cup {"subcommand"}
  /\ UNCHANGED <<wp, pc>>
  /\ Fixed /\ Status /\ Silent /\ Unread

(* An option that is not known: the loop that should skip it does not run,
   three bytes are skipped and the rest is left. *)
SubUnknown ==
  /\ Sub /\ Byte(2) \notin {AUTH, TTYPE}
  /\ Skip(3)
  /\ slips' = slips \cup {"subnegotiation"}
  /\ Fixed /\ Status /\ Silent /\ Unread

Subnegotiation == \/ SubMissing \/ AuthSend \/ AuthReply \/ TTypeSend
                  \/ SubCommandUnknown \/ SubUnknown

(* Slip: the counter not reset with the drain. *)
WorkTailKeepsCount ==
  /\ pc = "tail"
  /\ LET drain == Len(work) = wp \/ wp > WorkSize \div 2
     IN /\ work' = IF drain THEN Drop(work, Least(wp, Len(work))) ELSE work
        /\ due' = IF Len(work') > wp THEN "yes" ELSE due
  /\ pc' = "idle"
  /\ UNCHANGED <<net, wp, read, write, flags, connected, nego, localEcho, history>>

(* Slip: no callback for what is left. *)
WorkTailOnce ==
  /\ pc = "tail"
  /\ LET drain == Len(work) = wp \/ wp > WorkSize \div 2
     IN /\ work' = IF drain THEN Drop(work, Least(wp, Len(work))) ELSE work
        /\ wp' = IF drain THEN 0 ELSE wp
  /\ pc' = "idle"
  /\ UNCHANGED <<net, read, write, flags, connected, nego, localEcho, due, history>>

(* After the loop: give back what has been worked on, and come again if
   something is left. *)
WorkTail ==
  /\ pc = "tail"
  /\ LET drain == Len(work) = wp \/ wp > WorkSize \div 2
     IN /\ work' = IF drain THEN Drop(work, Least(wp, Len(work))) ELSE work
        /\ wp' = IF drain THEN 0 ELSE wp
        /\ due' = IF Len(work') > wp' THEN "yes" ELSE due
  /\ pc' = "idle"
  /\ UNCHANGED <<net, read, write, flags, connected, nego, localEcho, history>>

Round == \/ Null \/ Rubout \/ NewLine \/ BareReturn \/ Letter \/ TooShort \/ Quoted
         \/ Unknown \/ OptionMissing \/ WillOption \/ WontOption \/ DoOption
         \/ DontOption \/ Subnegotiation

telnetWork == CopyRaw \/ Round \/ LoopEnd \/ WorkTail

Next == \/ \E k \in Kinds : Send(k)
        \/ \E n \in 1..WorkSize : Arrive(n)
        \/ \E n \in SendSizes : Take(n)
        \/ \E n \in 1..ReadSize : AppRead(n)
        \/ \E b \in {x, BS}, n \in SendSizes : AppWrite(b, n)
        \/ Secured \/ Begin \/ PassOver \/ telnetWork

Spec == Init /\ [][Next]_vars

(* The network delivers and takes, the handler comes when it is registered, a
   SWI finds the time between two calls of it, and the user waits for SSL to
   stand.  The slice of 2 cs (TELNET_POLL_LOOP) is not over every time before
   the first round. *)
Fairness == /\ WF_vars(Begin \/ PassOver) /\ WF_vars(CopyRaw \/ LoopEnd) /\ WF_vars(WorkTail)
            /\ WF_vars(Secured)
            /\ SF_vars(Round)
            /\ SF_vars(\E n \in 1..WorkSize : Arrive(n))
            /\ SF_vars(\E n \in SendSizes : Take(n))
            /\ SF_vars(\E n \in 1..ReadSize : AppRead(n))

FairSpec == Spec /\ Fairness
-----------------------------------------------------------------------------
Byte8 == 0..255

BuffersOK ==
  /\ net \in Seq(Byte8) /\ work \in Seq(Byte8) /\ read \in Seq(Byte8)
  /\ shown \in Seq(Byte8)
  /\ Len(work) <= WorkSize /\ Len(read) <= ReadSize

CountsOK == wp \in 0 .. Word - 1 /\ write \in 0 .. WriteSize

BitsOK ==
  /\ raw \in BOOLEAN /\ support \in BOOLEAN /\ connected \in BOOLEAN
  /\ nego \in BOOLEAN /\ localEcho \in BOOLEAN
  /\ due \in {"no", "yes", "passed"}
  /\ pc \in {"idle", "loop", "tail"}
  /\ slips \subseteq {"newline", "return", "overrun", "subcommand", "subnegotiation",
                      "early"}

(* Every variable has its type; the buffers keep to their sizes and the counter to
   its word. *)
TypeOK == BuffersOK /\ CountsOK /\ BitsOK

(* Apart from the messages telnetWork gets wrong, the unsigned counter is a
   position in the work buffer (telnet.c:54, 216-241: uiAvailable - workProcessed,
   drain, "More work to do?" rely on it). *)
CounterInBuffer == slips = {} => wp <= Len(work)

(* However the stream is cut, whatever waits for room or for time: telnetWork
   takes off whole messages only, and the application is given exactly what
   they mean. *)
Decoded ==
  slips = {} =>
    IF raw THEN shown \o Pending = stream
           ELSE \E j \in 0..Len(sent) : At(j) /\ shown = Dialogue(j).bytes

(* Each request is answered once, in order, and not before it is worked on; the
   client echoes when, and only when, the answers given say that it does
   (BTT_api.h:44, "Local echo is enabled"). *)
Answered ==
  slips = {} /\ ~raw =>
    \E j \in 0..Len(sent) : /\ At(j)
                            /\ answers = Dialogue(j).answers
                            /\ connected => localEcho = Dialogue(j).echo

(* From an acceptance of SSL to the end of the handshake, nothing that came behind it
   is worked on, shown or answered, and nothing of it is lost (telnet.c:76, 702;
   vectors.c:209). *)
BehindAccept ==
  [][~connected => Unworked' = Unworked /\ UNCHANGED <<read, shown, answers>>]_vars

(* Every message is worked on in the end: none waits for ever for room, for a
   byte that has come or for a callback, unless the application fills the write
   buffer over and over before the answers get in, or the handler passes over the
   session and no more bytes come to call it again.  It takes a work buffer of
   twice the longest message: less than half of it is not drained (telnet.c:215). *)
AllWorkedOn ==
  LET RoomToDrain == \A k \in Kinds : 2 * Len(Encoding[k]) <= WorkSize
      WritesEnd   == <>[][\A b \in {x, BS}, n \in SendSizes : ~AppWrite(b, n)]_vars
      CalledAgain == ~<>[](due = "passed")
  IN  RoomToDrain /\ WritesEnd /\ CalledAgain
        => (Pending # <<>> ~> (Pending = <<>> \/ slips # {}))

(* telnet.c:113, "Do we treat as a carriage return or as a new line?": a line end
   becomes one character for the application, be the read buffer full when it
   comes or not. *)
LineEndsKept ==
  \E j \in 0..Len(sent) : At(j) /\ shown = Dialogue(j).bytes
=============================================================================
