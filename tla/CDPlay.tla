-------------------------------- MODULE CDPlay --------------------------------
(***************************************************************************)
(* How !CDPlay plays a disc (CDPlay/!CDPlay/CDBitz.c, Buttons.c): at every *)
(* null event it asks the drive how it is getting on and, where a track or *)
(* the disc has ended, plays what comes next: the next track, one at       *)
(* random, or the next of a program.  The drive plays by itself, has       *)
(* buttons of its own, and its disc is changed without notice.             *)
(*                                                                         *)
(* The procedures call one another: calls is the stack of what is still to *)
(* be done in the event, first what is done next.  A position on the disc  *)
(* is the track it lies in.                                                *)
(***************************************************************************)
EXTENDS Integers, SequencesExt

CONSTANTS Discs,      \* discs, as sequences of tracks "audio" and "data"
          Configs,    \* sets of choices the user may have saved
          MaxItems,   \* bound: tracks in the program, and places counted
          MaxCalls    \* bound: depth of calls at which the drive still moves

ASSUME DiscsAssumption ==
  /\ Discs \subseteq Seq({"audio", "data"}) \ {<<>>}
  /\ \E longest \in Discs : \A d \in Discs : Len(d) <= Len(longest)
ASSUME ConfigsAssumption ==
  Configs \subseteq SUBSET {"autoPlayCD", "autoRepeatCD", "autoDetectChange"}
ASSUME BoundsAssumption == MaxItems \in Nat /\ MaxCalls \in Nat

VARIABLES
  config,         \* the choices of CDFlags
  disc, audio, head, until,   \* the drive: its disc, what CD_AudioStatus says,
                  \* the track at its head, and how far it will play
  calls,
  driveEmpty, newCD, playOverride, pause,   \* the bits of CDFlags
  stopped,
  listed,         \* the disc of CDDiscID, minTrack (1) and maxTrack, or Empty
  currentTrack,
  label,          \* is "Drive Empty" in the window?
  mainOpen,
  mode,           \* "random", "memory" or neither of the two
  program, memoryItems, memoryPosition,
  startOfNextTrack,   \* a track, or -1, or 0 for a place on no known track
  silenced,       \* history: stopped, and nobody has started it since
  stale           \* history: has the drive changed since its answer was heeded,
                  \* or is it silent?

drive    == <<disc, audio, head, until>>
flags    == <<driveEmpty, newCD, playOverride, pause, stopped>>
listing  == <<listed, label>>
list     == <<program, memoryItems, memoryPosition>>
history  == <<silenced, stale>>
vars == <<config, drive, calls, flags, listing, currentTrack, mainOpen, mode, list,
          startOfNextTrack, history>>

Tracks == 0 .. 1 + (CHOOSE n \in {Len(d) : d \in Discs} : \A d \in Discs : Len(d) <= n)
Empty == <<>>    \* no disc

Idle == calls = <<>>
At(place) == ~Idle /\ calls[1][1] = place
Call(frames) == calls' = frames
Return(frames) == calls' = frames \o Tail(calls)

(* The global variables as they are set, and mainInitialise's call. *)
Init ==
  /\ config \in Configs
  /\ disc \in Discs \cup {Empty} /\ audio = "none" /\ head = 1 /\ until = "disc"
  /\ calls = <<<<"generate">>>>
  /\ driveEmpty = FALSE /\ newCD = FALSE /\ playOverride = FALSE /\ pause = FALSE
  /\ stopped = FALSE /\ listed = Empty /\ label = FALSE /\ currentTrack = 0
  /\ mainOpen = FALSE /\ mode = "normal"
  /\ program = <<>> /\ memoryItems = 0 /\ memoryPosition = 0
  /\ startOfNextTrack = -1
  /\ silenced = FALSE /\ stale = TRUE
-----------------------------------------------------------------------------
(* The drive, without the program. *)

Audible(t) == t \in DOMAIN disc /\ disc[t] = "audio"

(* What has ended is not told from what was stopped: nor does the program. *)
Silent == audio' = "none" /\ until' = "disc" /\ stale' = TRUE

(* It goes on to the next track or comes to the end. *)
Advance ==
  /\ audio = "playing" /\ Len(calls) <= MaxCalls
  /\ IF until = "disc" /\ Audible(head + 1)
       THEN head' = head + 1 /\ UNCHANGED <<audio, until, stale>>
       ELSE Silent /\ UNCHANGED head
  /\ UNCHANGED <<config, disc, calls, flags, listing, currentTrack, mainOpen, mode,
                 list, startOfNextTrack, silenced>>

(* Somebody uses its buttons, or another program does. *)
Panel ==
  /\ Idle
  /\ \/ \E t \in Tracks : Audible(t) /\ head' = t
        /\ audio' = "playing" /\ until' = "disc" /\ silenced' = FALSE /\ stale' = TRUE
     \/ audio \in {"playing", "paused"} /\ Silent /\ UNCHANGED <<head, silenced>>
     \/ audio = "playing" /\ audio' = "paused" /\ stale' = TRUE
        /\ UNCHANGED <<head, until, silenced>>
  /\ UNCHANGED <<config, disc, calls, flags, listing, currentTrack, mainOpen, mode, list,
                 startOfNextTrack>>

(* The disc is taken out, or one is put in. *)
ChangeDisc ==
  /\ Idle
  /\ disc' \in IF disc = Empty THEN Discs ELSE {Empty}
  /\ Silent /\ head' = 1
  /\ UNCHANGED <<config, calls, flags, listing, currentTrack, mainOpen, mode, list,
                 startOfNextTrack, silenced>>
-----------------------------------------------------------------------------
(* The procedures that go on at null events. *)

(* CDCheckIfEmpty.  The program is emptied, but for the number of its items. *)
CheckIfEmpty ==
  /\ driveEmpty' = (disc = Empty)
  /\ IF driveEmpty' /\ mainOpen /\ ~label
       THEN /\ stopped' = TRUE /\ listed' = Empty /\ label' = TRUE
            /\ program' = IF memoryItems # 0 THEN <<>> ELSE program
            /\ memoryPosition' = IF memoryItems # 0 THEN 0 ELSE memoryPosition
       ELSE UNCHANGED <<stopped, listing, program, memoryPosition>>

(* CDUpdateDiscInfo, ... *)
Update ==
  /\ At("update")
  /\ CheckIfEmpty
  /\ Return(IF ~driveEmpty' /\ ~playOverride THEN <<<<"check">>, <<"redraw">>>>
            ELSE <<<<"redraw">>>>)
  /\ UNCHANGED <<config, drive, newCD, playOverride, pause, currentTrack, mainOpen, mode,
                 memoryItems, startOfNextTrack, history>>

DataCD == listed = <<"data">>

(* ... and its second half, which asks which track is played. *)
Redraw ==
  /\ At("redraw")
  /\ IF mainOpen /\ ~driveEmpty /\ ~stopped /\ ~pause
       THEN /\ stopped' = DataCD
            /\ currentTrack' = IF DataCD THEN currentTrack
                               ELSE IF head \in DOMAIN listed THEN head ELSE 1
       ELSE UNCHANGED <<stopped, currentTrack>>
  /\ Return(<<>>)
  /\ UNCHANGED <<config, drive, driveEmpty, newCD, playOverride, pause, listing, mainOpen,
                 mode, list, startOfNextTrack, history>>

(* CDGenerateTrackList: another disc, or none when the program starts. *)
Generate ==
  /\ At("generate")
  /\ \/ /\ disc = Empty
        /\ CheckIfEmpty
        /\ Return(<<>>)
        /\ UNCHANGED <<newCD, currentTrack, memoryItems, startOfNextTrack, silenced>>
     \/ /\ disc # Empty
        /\ driveEmpty' = FALSE /\ newCD' = TRUE /\ stopped' = ("autoPlayCD" \notin config)
        /\ listed' = disc /\ label' = FALSE /\ currentTrack' = 0
        /\ program' = <<>> /\ memoryItems' = 0 /\ memoryPosition' = 0
        /\ startOfNextTrack' = IF startOfNextTrack = -1 THEN -1 ELSE 0
        /\ silenced' = (silenced /\ "autoPlayCD" \notin config)
        /\ Return(<<<<"check">>>>)
  /\ UNCHANGED <<config, drive, playOverride, pause, mainOpen, mode, stale>>

(* CDCheckCD: is it another disc? *)
Check ==
  /\ At("check")
  /\ Return(IF \/ "autoDetectChange" \in config /\ disc # listed
               \/ "autoDetectChange" \notin config /\ listed = Empty
            THEN <<<<"generate">>, <<"status">>>> ELSE <<<<"status">>>>)
  /\ UNCHANGED <<config, drive, flags, listing, currentTrack, mainOpen, mode, list,
                 startOfNextTrack, history>>

(* The end of the track at which the mode was changed is past, so that the
   drive is taken to have ended whatever it says. *)
Past == /\ mode # "normal" /\ startOfNextTrack # -1 /\ startOfNextTrack <= head

Asked(past) ==
  /\ At("status") /\ stale' = (past \/ audio = "none")
  /\ past \in {Past} \cup (IF startOfNextTrack = 0 THEN {FALSE} ELSE {})
  /\ startOfNextTrack' = IF past THEN -1 ELSE startOfNextTrack

(* Slip: a disc started at the drive leaves the window as it was. *)
StatusBusyUnseen ==
  /\ Asked(FALSE)
  /\ audio \in {"playing", "paused"}
  /\ pause' = (audio = "paused")
  /\ label' = (label /\ pause' = pause)
  /\ Return(<<<<"checked">>>>)
  /\ UNCHANGED <<config, drive, driveEmpty, newCD, playOverride, stopped, listed,
                 currentTrack, mainOpen, mode, list, silenced>>

(* It plays or is paused. *)
StatusBusy ==
  /\ Asked(FALSE)
  /\ audio \in {"playing", "paused"}
  /\ pause' = (audio = "paused")
  /\ stopped' = (stopped /\ audio = "paused")
  /\ label' = (label /\ pause' = pause)
  /\ Return(<<<<"checked">>>>)
  /\ UNCHANGED <<config, drive, driveEmpty, newCD, playOverride, listed, currentTrack,
                 mainOpen, mode, list, silenced>>

(* listingGetProgramTrack, at place p.  Of an empty program places are counted
   on, here to MaxItems at most.  With an empty list, but items counted, it
   reads through a null pointer. *)
Capped(p) == IF p > MaxItems THEN MaxItems ELSE IF p < 0 THEN -1 ELSE p

ProgramTrack(p, t) ==
  \/ /\ memoryItems = 0 /\ t = 0
     /\ memoryPosition' = Capped(p) /\ UNCHANGED stopped
  \/ /\ memoryItems > 0
     /\ memoryPosition' = IF p > memoryItems THEN 1 ELSE IF p < 1 THEN memoryItems ELSE p
     /\ stopped' = (stopped \/ (/\ p > memoryItems
                                /\ "autoRepeatCD" \notin config \/ playOverride))
     /\ t \in IF program = <<>> THEN Tracks
              ELSE {program[IF memoryPosition' > Len(program) THEN Len(program)
                            ELSE memoryPosition']}

(* Slip: the next random track is drawn for a stopped disc too. *)
StatusEndedThough ==
  /\ \E past \in BOOLEAN : Asked(past) /\ (past \/ audio = "none")
  /\ Return(IF mode = "random" THEN <<<<"next">>, <<"checked">>>> ELSE <<<<"checked">>>>)
  /\ UNCHANGED <<config, drive, flags, listing, currentTrack, mainOpen, mode, list,
                 silenced>>

(* It has ended, or is taken to have. *)
StatusEnded ==
  /\ \E past \in BOOLEAN : Asked(past) /\ (past \/ audio = "none")
  /\ \/ /\ stopped
        /\ Return(<<<<"checked">>>>)
        /\ UNCHANGED <<stopped, currentTrack, memoryPosition, silenced>>
     \/ /\ ~stopped /\ mode = "random"
        /\ Return(<<<<"next">>, <<"checked">>>>)
        /\ UNCHANGED <<stopped, currentTrack, memoryPosition, silenced>>
     \/ /\ ~stopped /\ mode = "memory"
        /\ \E t \in Tracks :
             /\ ProgramTrack(memoryPosition + 1, t)
             /\ Return(IF memoryItems > 0 THEN <<<<"play", t>>, <<"checked">>>>
                       ELSE <<<<"checked">>>>)
        /\ silenced' = (stopped' /\ audio # "playing")
        /\ UNCHANGED currentTrack
     \/ /\ ~stopped /\ mode = "normal"
        /\ currentTrack' = IF currentTrack + 1 \in DOMAIN listed THEN currentTrack + 1 ELSE 1
        /\ Return(<<<<"play", currentTrack'>>, <<"checked">>>>)
        /\ UNCHANGED <<stopped, memoryPosition, silenced>>
  /\ UNCHANGED <<config, drive, driveEmpty, newCD, playOverride, pause, listing, mainOpen,
                 mode, program, memoryItems>>

Checked ==
  /\ At("checked")
  /\ newCD' = FALSE
  /\ Return(<<>>)
  /\ UNCHANGED <<config, drive, driveEmpty, playOverride, pause, stopped, listing,
                 currentTrack, mainOpen, mode, list, startOfNextTrack, history>>

(* CDIsTrackAudio; what the drive says of track 0 it says of the disc, and
   a track there is not counts as audio. *)
TrackAudio(t) == IF t \in DOMAIN disc THEN {Audible(t)} ELSE IF t = 0 THEN BOOLEAN ELSE {TRUE}

(* CD_PlayTrack, to the end of the track or of the disc; it may refuse. *)
PlayTrack(t) ==
  IF Audible(t)
  THEN /\ audio' = "playing" /\ head' = t /\ stale' = FALSE /\ UNCHANGED disc
       /\ until' = IF mode = "normal" THEN "disc" ELSE "track"
  ELSE UNCHANGED drive /\ stale' = TRUE

(* CDPlayTrack, ... *)
Play ==
  /\ At("play")
  /\ LET t == calls[1][2]
         wanted == ~stopped \/ playOverride
         goesOn == t > 1 \/ "autoRepeatCD" \in config \/ newCD \/ playOverride
     IN \E audible \in TrackAudio(t) :
          \/ /\ wanted /\ ~driveEmpty /\ audible /\ goesOn
             /\ PlayTrack(t)
             /\ currentTrack' = t /\ stopped' = FALSE /\ pause' = FALSE
             /\ Return(<<<<"update">>, <<"played", TRUE>>>>)
             /\ UNCHANGED silenced
          \/ /\ wanted /\ ~driveEmpty /\ audible /\ ~goesOn
             /\ currentTrack' = 1 /\ stopped' = TRUE
             /\ silenced' = (audio # "playing")
             /\ Return(<<<<"update">>, <<"played", TRUE>>>>)
             /\ UNCHANGED <<drive, pause, stale>>
          \/ /\ ~wanted \/ driveEmpty \/ ~audible
             /\ Return(<<<<"played", FALSE>>>>)
             /\ UNCHANGED <<drive, pause, stopped, currentTrack, history>>
  /\ UNCHANGED <<config, driveEmpty, newCD, playOverride, listing, mainOpen, mode, list,
                 startOfNextTrack>>

(* ... and its end, where the name of the track is shown if it was played. *)
Played ==
  /\ At("played")
  /\ label' = (label /\ ~calls[1][2])
  /\ playOverride' = FALSE
  /\ Return(<<>>)
  /\ UNCHANGED <<config, drive, driveEmpty, newCD, pause, stopped, listed, currentTrack,
                 mainOpen, mode, list, startOfNextTrack, history>>

(* What rand() is reduced to; of no disc, one track. *)
Drawn == IF listed = Empty THEN {1} ELSE DOMAIN listed

(* The end of a program stops the disc for the program alone. *)
EndUnheard == stale' = (stale \/ stopped' # stopped)

(* buttonsNext.  Random tracks are drawn until it is another one. *)
NextTrack ==
  /\ At("next")
  /\ \E t \in Tracks :
       /\ currentTrack' = t
       /\ \/ /\ mode = "memory"
             /\ ProgramTrack(memoryPosition + 1, t) /\ startOfNextTrack' = -1
          \/ /\ mode = "random" /\ t \in Drawn \ {currentTrack}
             /\ startOfNextTrack' = -1 /\ UNCHANGED <<stopped, memoryPosition>>
          \/ /\ mode = "normal"
             /\ t = IF currentTrack + 1 \in DOMAIN listed THEN currentTrack + 1 ELSE 1
             /\ UNCHANGED <<stopped, memoryPosition, startOfNextTrack>>
       /\ Return(<<<<"play", t>>>>)
  /\ playOverride' = TRUE /\ EndUnheard
  /\ UNCHANGED <<config, drive, driveEmpty, newCD, pause, listing, mainOpen, mode,
                 program, memoryItems, silenced>>

(* The same one was drawn. *)
DrawAgain ==
  /\ At("next") /\ mode = "random" /\ currentTrack \in Drawn
  /\ UNCHANGED vars

Procedure == \/ Update \/ Redraw \/ Generate \/ Check \/ StatusBusy \/ StatusEnded
             \/ Checked \/ Play \/ Played \/ NextTrack
-----------------------------------------------------------------------------
(* Events of the desktop. *)

(* Slip: an empty drive is not looked at again. *)
NullEventIfFull ==
  /\ Idle /\ ~driveEmpty
  /\ Call(<<<<"update">>>>)
  /\ UNCHANGED <<config, drive, flags, listing, currentTrack, mainOpen, mode, list,
                 startOfNextTrack, history>>

(* taskDispatch, case eventNULL. *)
NullEvent ==
  /\ Idle
  /\ IF driveEmpty
       THEN CheckIfEmpty /\ UNCHANGED calls
       ELSE Call(<<<<"update">>>>) /\ UNCHANGED <<driveEmpty, stopped, listing, program,
                                                 memoryPosition>>
  /\ UNCHANGED <<config, drive, newCD, playOverride, pause, currentTrack, mainOpen, mode,
                 memoryItems, startOfNextTrack, history>>

(* The window is opened and closed. *)
OpenMain ==
  /\ Idle
  /\ mainOpen' = ~mainOpen
  /\ Call(IF mainOpen' THEN <<<<"update">>>> ELSE <<>>)
  /\ UNCHANGED <<config, drive, flags, listing, currentTrack, mode, list,
                 startOfNextTrack, history>>

Click == Idle /\ mainOpen

(* iconPlay: a disc that is stopped is played, ... *)
ClickPlay ==
  /\ Click /\ stopped
  /\ \/ /\ mode = "memory"
        /\ Call(<<<<"next">>>>)
        /\ UNCHANGED <<stopped, playOverride, currentTrack>>
     \/ /\ mode # "memory"
        /\ stopped' = FALSE /\ playOverride' = TRUE
        /\ currentTrack' = IF currentTrack < 1 THEN 1 ELSE currentTrack
        /\ Call(<<<<"play", currentTrack'>>>>)
  /\ silenced' = FALSE
  /\ UNCHANGED <<config, drive, driveEmpty, newCD, pause, listing, mainOpen, mode, list,
                 startOfNextTrack, stale>>

(* ... and buttonsPause. *)
ClickPause ==
  /\ Click /\ ~stopped
  /\ pause' = (audio = "playing") /\ label' = FALSE
  /\ audio' = CASE audio = "playing" -> "paused"
                [] audio = "paused" -> "playing"
                [] OTHER -> audio
  /\ UNCHANGED <<config, disc, head, until, calls, driveEmpty, newCD, playOverride, stopped,
                 listed, currentTrack, mainOpen, mode, list, startOfNextTrack, history>>

(* iconStop. *)
ClickStop ==
  /\ Click
  /\ Silent /\ pause' = FALSE /\ stopped' = TRUE /\ silenced' = TRUE
  /\ UNCHANGED <<config, disc, head, calls, driveEmpty, newCD, playOverride, listing,
                 currentTrack, mainOpen, mode, list, startOfNextTrack>>

(* iconEject, with Select or with Adjust. *)
ClickEject ==
  /\ Click
  /\ \/ CheckIfEmpty
     \/ driveEmpty' = FALSE /\ UNCHANGED <<stopped, listing, program, memoryPosition>>
  /\ disc' \in IF ~driveEmpty' THEN {Empty} ELSE Discs \cup {Empty}
  /\ Silent /\ head' = 1
  /\ UNCHANGED <<config, calls, newCD, playOverride, pause, currentTrack, mainOpen,
                 mode, memoryItems, startOfNextTrack, silenced>>

(* iconNext, and a new track number. *)
ClickNext ==
  /\ Click
  /\ Call(<<<<"next">>>>)
  /\ silenced' = FALSE
  /\ UNCHANGED <<config, drive, flags, listing, currentTrack, mainOpen, mode, list,
                 startOfNextTrack, stale>>

(* buttonsLast.  Has the track just begun?  Where the head stands decides,
   unless it is in the track. *)
JustBegun == IF head = currentTrack THEN BOOLEAN ELSE {head < currentTrack}

ClickLast ==
  /\ Click
  /\ \E begun \in JustBegun, t \in Tracks :
       \/ /\ begun /\ mode = "random"
          /\ Call(<<<<"next">>>>)
          /\ UNCHANGED <<stopped, playOverride, currentTrack, memoryPosition,
                         startOfNextTrack>>
       \/ /\ \/ /\ begun /\ mode = "memory"
                /\ ProgramTrack(memoryPosition - 1, t) /\ startOfNextTrack' = -1
             \/ /\ begun /\ mode = "normal"
                /\ t = IF currentTrack > 1 THEN currentTrack - 1 ELSE Len(listed)
                /\ UNCHANGED <<stopped, memoryPosition, startOfNextTrack>>
             \/ /\ ~begun /\ t = currentTrack
                /\ UNCHANGED <<stopped, memoryPosition, startOfNextTrack>>
          /\ currentTrack' = t /\ playOverride' = TRUE
          /\ Call(<<<<"play", t>>>>)
  /\ silenced' = FALSE /\ EndUnheard
  /\ UNCHANGED <<config, drive, driveEmpty, newCD, pause, listing, mainOpen, mode,
                 program, memoryItems>>

(* CDMoveHead: a little forward or back. *)
ClickMove ==
  /\ Click
  /\ head' \in {t \in head - 1 .. head + 1 : t >= currentTrack /\ Audible(t)}
  /\ audio' = "playing" /\ silenced' = FALSE
  /\ until' = IF mode # "normal" /\ currentTrack < Len(listed) THEN "track" ELSE "disc"
  /\ Call(<<<<"update">>>>)
  /\ UNCHANGED <<config, disc, flags, listing, currentTrack, mainOpen, mode, list,
                 startOfNextTrack, stale>>

(* iconRandom and iconMemory: if it is not the last track, the mode begins
   at its end. *)
ClickMode ==
  /\ Click
  /\ \E m \in {"random", "memory"} :
       mode' = IF mode = m THEN "normal" ELSE m
  /\ startOfNextTrack' \in
       IF mode' = "normal" \/ currentTrack >= Len(listed) THEN {startOfNextTrack}
       ELSE IF currentTrack + 1 \in DOMAIN disc THEN {currentTrack + 1} ELSE {-1, 0}
  /\ UNCHANGED <<config, drive, calls, flags, listing, currentTrack, mainOpen, list, history>>

(* buttonsChangeTrack: the number of a track is added to the program, ... *)
AddTrack ==
  /\ Click
  /\ Len(program) < MaxItems /\ memoryItems < MaxItems
  /\ \E t \in DOMAIN listed : program' = Append(program, t)
  /\ memoryItems' = memoryItems + 1
  /\ UNCHANGED <<config, drive, calls, flags, listing, currentTrack, mainOpen, mode,
                 memoryPosition, startOfNextTrack, history>>

(* ... or it is played; a data track is shown in a window instead. *)
ClickTrack ==
  /\ Click
  /\ \E t \in DOMAIN listed : \E audible \in TrackAudio(t) :
       IF audible
       THEN /\ playOverride' = TRUE
            /\ Call(<<<<"play", t>>>>)
            /\ UNCHANGED <<stopped, pause, currentTrack>>
       ELSE /\ currentTrack' = 1 /\ pause' = FALSE /\ stopped' = TRUE
            /\ Call(<<<<"update">>>>)
            /\ UNCHANGED playOverride
  /\ silenced' = FALSE
  /\ UNCHANGED <<config, drive, driveEmpty, newCD, listing, mainOpen, mode, list,
                 startOfNextTrack, stale>>

(* programClearIcon. *)
ClearProgram ==
  /\ Idle
  /\ program' = <<>> /\ memoryItems' = 0 /\ memoryPosition' = 0
  /\ UNCHANGED <<config, drive, calls, flags, listing, currentTrack, mainOpen, mode,
                 startOfNextTrack, history>>

User == \/ OpenMain \/ ClickPlay \/ ClickPause \/ ClickStop \/ ClickEject \/ ClickNext
        \/ ClickLast \/ ClickMove \/ ClickMode \/ AddTrack \/ ClickTrack \/ ClearProgram

Next == Procedure \/ DrawAgain \/ NullEvent \/ User \/ Advance \/ Panel \/ ChangeDisc

(* A program that is given the processor goes on, and null events come between
   the others. *)
Fairness == WF_vars(Procedure) /\ SF_vars(NullEvent)

Spec == Init /\ [][Next]_vars /\ Fairness
-----------------------------------------------------------------------------
(* Between two events the window says of a disc that plays or is paused what
   the drive said when it was asked last: whatever the event did, and
   whichever procedures it came back to (CDBitz.c:242-274).  Where changes
   are not looked for, the disc may not be the one that is known. *)
FollowsDrive ==
  Idle /\ ~stale /\ listed = disc =>
    /\ audio = "playing" => ~stopped /\ ~pause
    /\ audio = "paused" => pause

(* A disc that was stopped, by the user or because it had come to its end, is
   not played again until somebody asks for it or another disc comes. *)
StaysStopped == silenced => audio # "playing"

(* Is there something to play next?  With data tracks among the others there
   may not be: while the window is open the number of the track that comes is
   set back to the one that has ended (Redraw), and comes again. *)
Playable ==
  /\ disc # Empty /\ listed = disc
  /\ \/ mode = "memory" /\ \E i \in DOMAIN program : Audible(program[i])
     \/ /\ mode # "memory" /\ \A t \in DOMAIN disc : Audible(t)
        /\ mode = "random" => Len(disc) > 1

(* Where a track, a program or the disc has ended, the next one is played or
   the disc is stopped, however often the user changes what the next one is. *)
PlayedOn ==
  ~stopped /\ audio = "none" /\ Playable
    ~> stopped \/ audio \in {"playing", "paused"} \/ ~Playable
=============================================================================
