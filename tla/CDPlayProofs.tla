----------------------------- MODULE CDPlayProofs -----------------------------
(***************************************************************************)
(* Module CDPlay for any discs, choices, length of the program and depth   *)
(* of calls: what was stopped stays stopped, and between two events the    *)
(* window agrees with the drive.                                           *)
(***************************************************************************)
EXTENDS CDPlay, SequenceTheorems, TLAPS

(* What is waited for by a call that another one was made from. *)
Waiting == {<<place>> : place \in {"redraw", "status", "checked"}} \cup ({"played"} \X BOOLEAN)

Frame ==
  Waiting \cup {<<place>> : place \in {"generate", "update", "check", "next"}}
          \cup ({"play"} \X Tracks)

Stack == calls \in Seq(Frame) /\ (~Idle => Tail(calls) \in Seq(Waiting))

DriveOK ==
  /\ disc \in Discs \cup {Empty} /\ audio \in {"none", "playing", "paused"}
  /\ head \in Int /\ until \in {"disc", "track"}

BitsOK ==
  /\ driveEmpty \in BOOLEAN /\ newCD \in BOOLEAN /\ playOverride \in BOOLEAN
  /\ pause \in BOOLEAN /\ stopped \in BOOLEAN /\ label \in BOOLEAN
  /\ mainOpen \in BOOLEAN /\ silenced \in BOOLEAN /\ stale \in BOOLEAN

WindowOK ==
  /\ config \in Configs /\ mode \in {"normal", "random", "memory"}
  /\ listed \in Discs \cup {Empty} /\ currentTrack \in Tracks
  /\ program \in Seq(Tracks) /\ memoryItems \in Nat /\ memoryPosition \in Nat \cup {-1}
  /\ startOfNextTrack \in Tracks \cup {-1}

TypeOK == DriveOK /\ BitsOK /\ WindowOK

(* The bit that lets a stopped disc be played is set for one call only, and
   nothing is asked of the drive before it is cleared. *)
Overriding ==
  playOverride =>
    \/ At("play") \/ At("played")
    \/ /\ At("update") \/ At("redraw")
       /\ Tail(calls) # <<>> /\ Tail(calls)[1][1] = "played"

(* Only a track of music is played. *)
Sounding == audio # "none" => Audible(head)

(* A disc that is to be silent is known to be stopped, and nothing that is
   still to be done in the event would start it. *)
Silence == silenced => stopped /\ ~playOverride /\ audio # "playing" /\ ~At("next")

(* The window says what the drive does, ... *)
Agrees == (audio = "playing" => ~stopped /\ ~pause) /\ (audio = "paused" => pause)

(* ... or the drive will be asked before the event is over. *)
Asking == At("check") \/ At("generate") \/ At("status") \/ (At("update") /\ ~playOverride)

Heeded == ~stale /\ listed = disc => Agrees \/ Asking

IInv == TypeOK /\ Stack /\ Overriding /\ Sounding /\ Silence /\ Heeded
-----------------------------------------------------------------------------
(* The stack of calls. *)

LEMMA CallOne ==
  ASSUME NEW f \in Frame, Call(<<f>>)
  PROVE  Stack' /\ ~Idle' /\ calls'[1] = f
<1>1. Tail(<<f>>) = <<>> /\ <<f>> # <<>> /\ <<f>>[1] = f /\ <<f>> \in Seq(Frame)
  OBVIOUS
<1>2. <<>> \in Seq(Waiting)
  OBVIOUS
<1>3. QED
  BY <1>1, <1>2 DEF Call, Stack, Idle

LEMMA ReturnTo ==
  ASSUME Stack, ~Idle, Return(<<>>)
  PROVE  /\ Stack' /\ calls' = Tail(calls)
         /\ ~Idle' => calls'[1] \in Waiting
<1>1. Tail(calls) \in Seq(Waiting)
  BY DEF Stack
<1>2. calls' = Tail(calls)
  BY <1>1 DEF Return
<1>3. Seq(Waiting) \subseteq Seq(Frame)
  BY DEF Frame
<1>4. calls' # <<>> => calls'[1] \in Waiting /\ Tail(calls') \in Seq(Waiting)
  BY <1>1, <1>2, HeadTailProperties
<1>5. QED
  BY <1>1, <1>2, <1>3, <1>4 DEF Stack, Idle

LEMMA ReturnOne ==
  ASSUME Stack, ~Idle, NEW f \in Frame, Return(<<f>>)
  PROVE  Stack' /\ ~Idle' /\ calls'[1] = f /\ Tail(calls') = Tail(calls)
<1> DEFINE rest == Tail(calls)
<1>1. rest \in Seq(Waiting) /\ rest \in Seq(Frame)
  BY DEF Stack, Frame
<1>2. calls' = <<f>> \o rest
  BY DEF Return
<1> HIDE DEF rest
<1>3. calls' \in Seq(Frame) /\ calls' # <<>> /\ calls'[1] = f /\ Tail(calls') = rest
  BY <1>1, <1>2
<1>4. QED
  BY <1>1, <1>3 DEF Stack, Idle, rest

LEMMA ReturnTwo ==
  ASSUME Stack, ~Idle, NEW f \in Frame, NEW w \in Waiting, Return(<<f, w>>)
  PROVE  Stack' /\ ~Idle' /\ calls'[1] = f /\ Tail(calls') # <<>> /\ Tail(calls')[1] = w
<1> DEFINE rest == Tail(calls)
<1>1. rest \in Seq(Waiting) /\ rest \in Seq(Frame) /\ w \in Frame
  BY DEF Stack, Frame
<1>2. calls' = <<f, w>> \o rest
  BY DEF Return
<1> HIDE DEF rest
<1>3. calls' \in Seq(Frame) /\ calls' # <<>> /\ calls'[1] = f
  BY <1>1, <1>2
<1>4. Tail(calls') = <<w>> \o rest
  BY <1>1, <1>2
<1>5. <<w>> \o rest \in Seq(Waiting) /\ <<w>> \o rest # <<>> /\ (<<w>> \o rest)[1] = w
  BY <1>1
<1>6. QED
  BY <1>3, <1>4, <1>5 DEF Stack, Idle
-----------------------------------------------------------------------------
(* The numbers of tracks, of whichever disc. *)
LEMMA TracksOfDiscs ==
  /\ Tracks \subseteq Nat /\ 0 \in Tracks /\ 1 \in Tracks
  /\ \A d \in Discs \cup {Empty} :
       DOMAIN d = 1..Len(d) /\ Len(d) \in Tracks /\ DOMAIN d \subseteq Tracks
<1> DEFINE lengths == {Len(d) : d \in Discs}
           Longest(n) == \A d \in Discs : Len(d) <= n
           longest == CHOOSE n \in lengths : Longest(n)
<1>1. PICK d \in Discs : Longest(Len(d))
  BY DiscsAssumption
<1>2. longest \in lengths /\ Longest(longest)
  BY <1>1
<1>3. \A e \in Discs \cup {Empty} : e \in Seq({"audio", "data"}) /\ Len(e) \in Nat
                                  /\ DOMAIN e = 1..Len(e)
  <2>1. <<>> \in Seq({"audio", "data"})
    OBVIOUS
  <2>2. QED
    BY <2>1, DiscsAssumption, LenProperties DEF Empty
<1>4. longest \in Nat
  BY <1>2, <1>3
<1>5. Tracks = 0 .. 1 + longest
  BY DEF Tracks
<1> HIDE DEF longest
<1>6. \A e \in Discs \cup {Empty} : Len(e) <= longest
  BY <1>2, <1>4 DEF Empty
<1>7. QED
  BY <1>3, <1>4, <1>5, <1>6

LEMMA InitIInv == Init => IInv
<1> SUFFICES ASSUME Init PROVE IInv
  OBVIOUS
<1>1. TypeOK
  <2>1. <<>> \in Seq(Tracks) /\ 0 \in Tracks /\ 0 \in Nat /\ 1 \in Int
    BY TracksOfDiscs
  <2>2. /\ config \in Configs /\ disc \in Discs \cup {Empty} /\ listed = Empty
        /\ audio = "none" /\ head = 1 /\ until = "disc" /\ mode = "normal"
        /\ currentTrack = 0 /\ program = <<>> /\ memoryItems = 0 /\ memoryPosition = 0
        /\ startOfNextTrack = -1
    BY DEF Init
  <2>3. /\ driveEmpty = FALSE /\ newCD = FALSE /\ playOverride = FALSE /\ pause = FALSE
        /\ stopped = FALSE /\ label = FALSE /\ mainOpen = FALSE
        /\ silenced = FALSE /\ stale = TRUE
    BY DEF Init
  <2>4. QED
    BY <2>1, <2>2, <2>3 DEF TypeOK, DriveOK, BitsOK, WindowOK
<1>2. Stack
  <2>1. <<"generate">> \in Frame
    BY DEF Frame
  <2>2. calls = <<<<"generate">>>>
    BY DEF Init
  <2>3. QED
    BY <2>1, <2>2 DEF Stack, Idle
<1>3. Overriding /\ Sounding /\ Silence /\ Heeded
  BY DEF Init, Overriding, Sounding, Silence, Heeded
<1>4. QED
  BY <1>1, <1>2, <1>3 DEF IInv

(* What the procedures that both change variables in the same way do. *)
LEMMA EmptyKeepsTypes ==
  ASSUME TypeOK, CheckIfEmpty
  PROVE  /\ driveEmpty' \in BOOLEAN /\ stopped' \in BOOLEAN /\ label' \in BOOLEAN
         /\ listed' \in Discs \cup {Empty} /\ program' \in Seq(Tracks)
         /\ memoryPosition' \in Nat \cup {-1}
         /\ driveEmpty' = (disc = Empty)
         /\ stopped' # stopped \/ listed' # listed => disc = Empty
<1>1. <<>> \in Seq(Tracks)
  OBVIOUS
<1>2. driveEmpty' \in BOOLEAN /\ driveEmpty' = (disc = Empty)
  BY DEF CheckIfEmpty
<1>3. CASE driveEmpty' /\ mainOpen /\ ~label
  <2>1. /\ stopped' = TRUE /\ listed' = Empty /\ label' = TRUE
        /\ program' = IF memoryItems # 0 THEN <<>> ELSE program
        /\ memoryPosition' = IF memoryItems # 0 THEN 0 ELSE memoryPosition
    BY <1>3 DEF CheckIfEmpty
  <2>2. QED
    BY <1>1, <1>2, <1>3, <2>1 DEF TypeOK, WindowOK
<1>4. CASE ~(driveEmpty' /\ mainOpen /\ ~label)
  BY <1>2, <1>4 DEF TypeOK, BitsOK, WindowOK, CheckIfEmpty, listing
<1>5. QED
  BY <1>3, <1>4

LEMMA ProgramKeepsTypes ==
  ASSUME TypeOK, NEW p \in Int, NEW t \in Tracks, ProgramTrack(p, t)
  PROVE  memoryPosition' \in Nat \cup {-1} /\ stopped' \in BOOLEAN /\ (stopped => stopped')
<1>1. memoryItems \in Nat /\ MaxItems \in Nat /\ stopped \in BOOLEAN
  BY BoundsAssumption DEF TypeOK, BitsOK, WindowOK
<1>2. Capped(p) \in Nat \cup {-1}
  BY <1>1 DEF Capped
<1>3. CASE memoryItems = 0
  BY <1>1, <1>2, <1>3 DEF ProgramTrack
<1>4. CASE memoryItems > 0
  <2>1. memoryPosition' = IF p > memoryItems THEN 1 ELSE IF p < 1 THEN memoryItems ELSE p
    BY <1>4 DEF ProgramTrack
  <2>2. memoryPosition' \in Nat
    BY <1>1, <2>1
  <2>3. stopped' = (stopped \/ (/\ p > memoryItems
                                /\ "autoRepeatCD" \notin config \/ playOverride))
    BY <1>4 DEF ProgramTrack
  <2>4. QED
    BY <1>1, <2>2, <2>3, Zenon
<1>5. QED
  BY <1>1, <1>3, <1>4

LEMMA DrivesTracks ==
  ASSUME TypeOK
  PROVE  \A t : Audible(t) => t \in Tracks /\ t \in Int
BY TracksOfDiscs DEF TypeOK, DriveOK, Audible

LEMMA TopFrame ==
  ASSUME Stack
  PROVE  /\ At("play") => calls[1][2] \in Tracks
         /\ At("played") => calls[1][2] \in BOOLEAN
<1> SUFFICES ASSUME ~Idle PROVE /\ calls[1][1] = "play" => calls[1][2] \in Tracks
                                /\ calls[1][1] = "played" => calls[1][2] \in BOOLEAN
  BY DEF At
<1>1. calls[1] \in Frame
  BY HeadTailProperties DEF Stack, Idle
<1>2. QED
  BY <1>1 DEF Frame, Waiting

LEMMA StepKeepsDrive == ASSUME TypeOK, Stack, [Next]_vars PROVE DriveOK'
<1> USE DEF TypeOK, DriveOK, drive, flags, listing, list, history
<1>1. CASE Advance
  BY <1>1 DEF Advance, Silent
<1>2. CASE Panel
  BY <1>2, DrivesTracks DEF Panel, Silent
<1>3. CASE ChangeDisc
  BY <1>3 DEF ChangeDisc, Silent
<1>4. CASE Update
  BY <1>4, EmptyKeepsTypes DEF Update
<1>5. CASE Redraw
  BY <1>5, TracksOfDiscs DEF Redraw, DataCD
<1>6. CASE Generate
  BY <1>6, EmptyKeepsTypes, TracksOfDiscs DEF Generate
<1>7. CASE Check
  BY <1>7 DEF Check
<1>8. CASE StatusBusy
  BY <1>8 DEF StatusBusy, Asked
<1>9. CASE StatusEnded
  BY <1>9, ProgramKeepsTypes, TracksOfDiscs DEF StatusEnded, Asked
<1>10. CASE Checked
  BY <1>10 DEF Checked
<1>11. CASE Play
  <2>1. At("play") /\ (PlayTrack(calls[1][2]) \/ UNCHANGED drive)
    BY <1>11 DEF Play
  <2>2. calls[1][2] \in Tracks
    BY <2>1, TopFrame
  <2>3. \A t \in Tracks : t \in Int
    BY TracksOfDiscs
  <2>4. calls[1][2] \in Int
    BY <2>2, <2>3, Zenon
  <2>5. QED
    BY <2>1, <2>4 DEF PlayTrack
<1>12. CASE Played
  BY <1>12, TopFrame DEF Played
<1>13. CASE NextTrack
  BY <1>13, ProgramKeepsTypes, TracksOfDiscs DEF NextTrack, EndUnheard
<1>14. CASE DrawAgain \/ UNCHANGED vars
  BY <1>14 DEF DrawAgain, vars
<1>15. CASE NullEvent
  BY <1>15, EmptyKeepsTypes DEF NullEvent
<1>16. CASE OpenMain
  BY <1>16 DEF OpenMain
<1>17. CASE ClickPlay
  BY <1>17, TracksOfDiscs DEF ClickPlay
<1>18. CASE ClickPause
  BY <1>18 DEF ClickPause
<1>19. CASE ClickStop
  BY <1>19 DEF ClickStop, Silent
<1>20. CASE ClickEject
  BY <1>20, EmptyKeepsTypes DEF ClickEject, Silent
<1>21. CASE ClickNext
  BY <1>21 DEF ClickNext
<1>22. CASE ClickLast
  BY <1>22, ProgramKeepsTypes, TracksOfDiscs DEF ClickLast, EndUnheard
<1>23. CASE ClickMove
  BY <1>23 DEF ClickMove
<1>24. CASE ClickMode
  BY <1>24, TracksOfDiscs DEF ClickMode
<1>25. CASE AddTrack
  BY <1>25, TracksOfDiscs DEF AddTrack
<1>26. CASE ClickTrack
  BY <1>26, TracksOfDiscs DEF ClickTrack
<1>27. CASE ClearProgram
  BY <1>27 DEF ClearProgram
<1>28. QED
  BY <1>1, <1>2, <1>3, <1>4, <1>5, <1>6, <1>7, <1>8, <1>9, <1>10, <1>11, <1>12, <1>13, <1>14,
     <1>15, <1>16, <1>17, <1>18, <1>19, <1>20, <1>21, <1>22, <1>23, <1>24, <1>25, <1>26, <1>27
     DEF Next, Procedure, User

LEMMA StepKeepsBits == ASSUME TypeOK, Stack, [Next]_vars PROVE BitsOK'
<1> USE DEF TypeOK, BitsOK, drive, flags, listing, list, history
<1>1. CASE Advance
  BY <1>1 DEF Advance, Silent
<1>2. CASE Panel
  BY <1>2, DrivesTracks DEF Panel, Silent
<1>3. CASE ChangeDisc
  BY <1>3 DEF ChangeDisc, Silent
<1>4. CASE Update
  BY <1>4, EmptyKeepsTypes DEF Update
<1>5. CASE Redraw
  BY <1>5, TracksOfDiscs DEF Redraw, DataCD
<1>6. CASE Generate
  BY <1>6, EmptyKeepsTypes, TracksOfDiscs DEF Generate
<1>7. CASE Check
  BY <1>7 DEF Check
<1>8. CASE StatusBusy
  BY <1>8 DEF StatusBusy, Asked
<1>9. CASE StatusEnded
  <2>1. /\ stale' \in BOOLEAN /\ ((stopped' = stopped /\ silenced' = silenced)
                                \/ \E t \in Tracks : ProgramTrack(memoryPosition + 1, t)
                                                      /\ silenced' \in BOOLEAN)
        /\ UNCHANGED <<driveEmpty, newCD, playOverride, pause, label, mainOpen>>
    BY <1>9 DEF StatusEnded, Asked
  <2>2. memoryPosition + 1 \in Int
    BY DEF WindowOK
  <2>3. QED
    BY <2>1, <2>2, ProgramKeepsTypes
<1>10. CASE Checked
  BY <1>10 DEF Checked
<1>11. CASE Play
  BY <1>11, TopFrame, TracksOfDiscs DEF Play, PlayTrack
<1>12. CASE Played
  BY <1>12, TopFrame DEF Played
<1>13. CASE NextTrack
  <2>1. \E t \in Tracks : ProgramTrack(memoryPosition + 1, t) \/ UNCHANGED stopped
    BY <1>13 DEF NextTrack
  <2>2. stopped' \in BOOLEAN
    BY <2>1, ProgramKeepsTypes DEF WindowOK
  <2>3. QED
    BY <1>13, <2>2 DEF NextTrack, EndUnheard
<1>14. CASE DrawAgain \/ UNCHANGED vars
  BY <1>14 DEF DrawAgain, vars
<1>15. CASE NullEvent
  BY <1>15, EmptyKeepsTypes DEF NullEvent
<1>16. CASE OpenMain
  BY <1>16 DEF OpenMain
<1>17. CASE ClickPlay
  BY <1>17, TracksOfDiscs DEF ClickPlay
<1>18. CASE ClickPause
  BY <1>18 DEF ClickPause
<1>19. CASE ClickStop
  BY <1>19 DEF ClickStop, Silent
<1>20. CASE ClickEject
  BY <1>20, EmptyKeepsTypes DEF ClickEject, Silent
<1>21. CASE ClickNext
  BY <1>21 DEF ClickNext
<1>22. CASE ClickLast
  <2>1. \E t \in Tracks : ProgramTrack(memoryPosition - 1, t) \/ UNCHANGED stopped
    BY <1>22, TracksOfDiscs DEF ClickLast
  <2>2. stopped' \in BOOLEAN
    BY <2>1, ProgramKeepsTypes DEF WindowOK
  <2>3. playOverride' \in BOOLEAN
    BY <1>22 DEF ClickLast
  <2>4. QED
    BY <1>22, <2>2, <2>3 DEF ClickLast, EndUnheard
<1>23. CASE ClickMove
  BY <1>23 DEF ClickMove
<1>24. CASE ClickMode
  BY <1>24, TracksOfDiscs DEF ClickMode
<1>25. CASE AddTrack
  BY <1>25, TracksOfDiscs DEF AddTrack
<1>26. CASE ClickTrack
  BY <1>26, TracksOfDiscs DEF ClickTrack
<1>27. CASE ClearProgram
  BY <1>27 DEF ClearProgram
<1>28. QED
  BY <1>1, <1>2, <1>3, <1>4, <1>5, <1>6, <1>7, <1>8, <1>9, <1>10, <1>11, <1>12, <1>13, <1>14,
     <1>15, <1>16, <1>17, <1>18, <1>19, <1>20, <1>21, <1>22, <1>23, <1>24, <1>25, <1>26, <1>27
     DEF Next, Procedure, User

LEMMA StepKeepsWindow == ASSUME TypeOK, Stack, [Next]_vars PROVE WindowOK'
<1> USE DEF TypeOK, WindowOK, drive, flags, listing, list, history
<1>1. CASE Advance
  BY <1>1 DEF Advance, Silent
<1>2. CASE Panel
  BY <1>2, DrivesTracks DEF Panel, Silent
<1>3. CASE ChangeDisc
  BY <1>3 DEF ChangeDisc, Silent
<1>4. CASE Update
  BY <1>4, EmptyKeepsTypes DEF Update
<1>5. CASE Redraw
  BY <1>5, TracksOfDiscs DEF Redraw, DataCD
<1>6. CASE Generate
  <2>1. CASE disc = Empty
    BY <1>6, <2>1, EmptyKeepsTypes DEF Generate
  <2>2. CASE disc # Empty
    <3>1. <<>> \in Seq(Tracks) /\ 0 \in Tracks
      BY TracksOfDiscs
    <3>2. startOfNextTrack' \in {-1, 0} /\ UNCHANGED <<config, mode>>
      BY <1>6, <2>2 DEF Generate
    <3>3. /\ listed' = disc /\ currentTrack' = 0
          /\ program' = <<>> /\ memoryItems' = 0 /\ memoryPosition' = 0
      BY <1>6, <2>2 DEF Generate
    <3>4. QED
      BY <3>1, <3>2, <3>3 DEF DriveOK
  <2>3. QED
    BY <2>1, <2>2
<1>7. CASE Check
  BY <1>7 DEF Check
<1>8. CASE StatusBusy
  BY <1>8 DEF StatusBusy, Asked
<1>9. CASE StatusEnded
  <2>1. /\ startOfNextTrack' \in {-1, startOfNextTrack}
        /\ UNCHANGED <<config, mode, listed, program, memoryItems>>
    BY <1>9 DEF StatusEnded, Asked
  <2>2. currentTrack' \in Tracks
    BY <1>9, TracksOfDiscs DEF StatusEnded
  <2>3. \/ UNCHANGED memoryPosition
        \/ \E t \in Tracks : ProgramTrack(memoryPosition + 1, t)
    BY <1>9 DEF StatusEnded
  <2>4. memoryPosition' \in Nat \cup {-1}
    BY <2>3, ProgramKeepsTypes
  <2>5. QED
    BY <2>1, <2>2, <2>4
<1>10. CASE Checked
  BY <1>10 DEF Checked
<1>11. CASE Play
  BY <1>11, TopFrame, TracksOfDiscs DEF Play, PlayTrack
<1>12. CASE Played
  BY <1>12, TopFrame DEF Played
<1>13. CASE NextTrack
  BY <1>13, ProgramKeepsTypes, TracksOfDiscs DEF NextTrack, EndUnheard
<1>14. CASE DrawAgain \/ UNCHANGED vars
  BY <1>14 DEF DrawAgain, vars
<1>15. CASE NullEvent
  BY <1>15, EmptyKeepsTypes DEF NullEvent
<1>16. CASE OpenMain
  BY <1>16 DEF OpenMain
<1>17. CASE ClickPlay
  BY <1>17, TracksOfDiscs DEF ClickPlay
<1>18. CASE ClickPause
  BY <1>18 DEF ClickPause
<1>19. CASE ClickStop
  BY <1>19 DEF ClickStop, Silent
<1>20. CASE ClickEject
  BY <1>20, EmptyKeepsTypes DEF ClickEject, Silent
<1>21. CASE ClickNext
  BY <1>21 DEF ClickNext
<1>22. CASE ClickLast
  BY <1>22, ProgramKeepsTypes, TracksOfDiscs DEF ClickLast, EndUnheard
<1>23. CASE ClickMove
  BY <1>23 DEF ClickMove
<1>24. CASE ClickMode
  BY <1>24, TracksOfDiscs DEF ClickMode
<1>25. CASE AddTrack
  BY <1>25, TracksOfDiscs DEF AddTrack
<1>26. CASE ClickTrack
  BY <1>26, TracksOfDiscs DEF ClickTrack
<1>27. CASE ClearProgram
  BY <1>27 DEF ClearProgram
<1>28. QED
  BY <1>1, <1>2, <1>3, <1>4, <1>5, <1>6, <1>7, <1>8, <1>9, <1>10, <1>11, <1>12, <1>13, <1>14,
     <1>15, <1>16, <1>17, <1>18, <1>19, <1>20, <1>21, <1>22, <1>23, <1>24, <1>25, <1>26, <1>27
     DEF Next, Procedure, User

LEMMA StepKeepsTypes == ASSUME TypeOK, Stack, [Next]_vars PROVE TypeOK'
BY StepKeepsDrive, StepKeepsBits, StepKeepsWindow DEF TypeOK

(* What may be on the stack. *)
LEMMA Places ==
  /\ \A place \in {"redraw", "status", "checked", "generate", "update", "check", "next"} :
       <<place>> \in Frame /\ <<place>>[1] = place
  /\ \A place \in {"redraw", "status", "checked"} : <<place>> \in Waiting
  /\ \A b \in BOOLEAN : /\ <<"played", b>> \in Waiting /\ <<"played", b>> \in Frame
                        /\ <<"played", b>>[1] = "played"
  /\ \A t \in Tracks : <<"play", t>> \in Frame /\ <<"play", t>>[1] = "play"
  /\ \A w \in Waiting : w[1] \in {"redraw", "status", "checked", "played"}
BY DEF Frame, Waiting

(* What each step leaves to be done. *)
LEMMA StepKeepsStack == ASSUME TypeOK, Stack, [Next]_vars PROVE Stack'
<1>1. CASE UNCHANGED calls
  BY <1>1 DEF Stack, Idle
<1>2. ASSUME NEW place, At(place) PROVE ~Idle
  BY <1>2 DEF At
<1>3. CASE Update
  BY Places, <1>2, <1>3, ReturnOne, ReturnTwo DEF Update
<1>4. CASE Redraw \/ Checked \/ Played
  BY <1>2, <1>4, ReturnTo DEF Redraw, Checked, Played
<1>5. CASE Generate
  BY Places, <1>2, <1>5, ReturnTo, ReturnOne DEF Generate
<1>6. CASE Check
  BY Places, <1>2, <1>6, ReturnOne, ReturnTwo DEF Check
<1>7. CASE StatusBusy
  BY Places, <1>2, <1>7, ReturnOne DEF StatusBusy, Asked
<1>8. CASE StatusEnded
  <2>1. At("status") /\ \/ Return(<<<<"checked">>>>)
                        \/ Return(<<<<"next">>, <<"checked">>>>)
                        \/ \E t \in Tracks : Return(<<<<"play", t>>, <<"checked">>>>)
    BY <1>8, TracksOfDiscs DEF StatusEnded, Asked, TypeOK, WindowOK
  <2>2. ~Idle
    BY <2>1 DEF At
  <2>3. <<"checked">> \in Frame /\ <<"checked">> \in Waiting
    BY Places
  <2>4. CASE Return(<<<<"checked">>>>)
    BY <2>2, <2>3, <2>4, ReturnOne
  <2>5. ASSUME NEW f \in Frame, Return(<<f, <<"checked">>>>) PROVE Stack'
    BY <2>2, <2>3, <2>5, ReturnTwo
  <2>6. QED
    BY Places, <2>1, <2>4, <2>5
<1>9. CASE Play
  <2>1. At("play") /\ \/ Return(<<<<"update">>, <<"played", TRUE>>>>)
                      \/ Return(<<<<"played", FALSE>>>>)
    BY <1>9 DEF Play
  <2>2. ~Idle
    BY <2>1 DEF At
  <2>3. <<"update">> \in Frame /\ <<"played", TRUE>> \in Waiting /\ <<"played", FALSE>> \in Frame
    BY Places
  <2>4. CASE Return(<<<<"update">>, <<"played", TRUE>>>>)
    BY <2>2, <2>3, <2>4, ReturnTwo
  <2>5. CASE Return(<<<<"played", FALSE>>>>)
    BY <2>2, <2>3, <2>5, ReturnOne
  <2>6. QED
    BY <2>1, <2>4, <2>5
<1>10. CASE NextTrack
  BY Places, <1>2, <1>10, ReturnOne DEF NextTrack
<1>11. CASE NullEvent
  BY Places, <1>1, <1>11, CallOne DEF NullEvent
<1>12. CASE OpenMain
  <2>1. CASE Call(<<>>)
    BY <2>1 DEF Call, Stack, Idle
  <2>2. QED
    BY Places, <1>12, <2>1, CallOne DEF OpenMain
<1>13. CASE ClickPlay
  BY Places, <1>13, CallOne, TracksOfDiscs DEF ClickPlay, TypeOK, WindowOK
<1>14. CASE ClickNext
  BY Places, <1>14, CallOne DEF ClickNext
<1>15. CASE ClickLast
  BY Places, <1>15, CallOne DEF ClickLast
<1>16. CASE ClickMove
  BY Places, <1>16, CallOne DEF ClickMove
<1>17. CASE ClickTrack
  BY Places, <1>17, CallOne, TracksOfDiscs DEF ClickTrack, TypeOK, WindowOK
<1>18. CASE \/ DrawAgain \/ ClickPause \/ ClickStop \/ ClickEject \/ ClickMode \/ AddTrack
            \/ ClearProgram \/ Advance \/ Panel \/ ChangeDisc \/ UNCHANGED vars
  BY <1>1, <1>18 DEF DrawAgain, ClickPause, ClickStop, ClickEject, ClickMode, AddTrack,
     ClearProgram, Advance, Panel, ChangeDisc, vars
<1>19. QED
  BY <1>3, <1>4, <1>5, <1>6, <1>7, <1>8, <1>9, <1>10, <1>11, <1>12, <1>13, <1>14, <1>15,
     <1>16, <1>17, <1>18 DEF Next, Procedure, User

(* A call is made, or one is over and the one that waits goes on: where the
   program is then. *)
LEMMA NowAt ==
  ASSUME Stack, NEW f \in Frame
  PROVE  /\ Call(<<f>>) => At(f[1])'
         /\ ~Idle /\ Return(<<f>>) => At(f[1])' /\ Tail(calls') = Tail(calls)
         /\ \A w \in Waiting :
              ~Idle /\ Return(<<f, w>>) =>
                At(f[1])' /\ Tail(calls') # <<>> /\ Tail(calls')[1] = w
         /\ ~Idle /\ Return(<<>>) =>
              /\ Idle' \/ \E place \in {"redraw", "status", "checked", "played"} : At(place)'
              /\ calls' = Tail(calls)
<1>1. Call(<<f>>) => At(f[1])'
  BY CallOne DEF At
<1>2. ~Idle /\ Return(<<f>>) => At(f[1])' /\ Tail(calls') = Tail(calls)
  BY ReturnOne DEF At
<1>3. ASSUME NEW w \in Waiting, ~Idle, Return(<<f, w>>)
      PROVE  At(f[1])' /\ Tail(calls') # <<>> /\ Tail(calls')[1] = w
  BY <1>3, ReturnTwo DEF At
<1>4. ASSUME ~Idle, Return(<<>>)
      PROVE  /\ Idle' \/ \E place \in {"redraw", "status", "checked", "played"} : At(place)'
             /\ calls' = Tail(calls)
  BY <1>4, ReturnTo, Places DEF At
<1>5. QED
  BY <1>1, <1>2, <1>3, <1>4
-----------------------------------------------------------------------------
(* The parts of the invariant, action by action. *)

LEMMA EmptyIsSilent ==
  ASSUME Sounding
  PROVE  disc = Empty \/ disc = <<"data">> => audio = "none"
BY DEF Sounding, Audible, Empty

LEMMA StepKeepsSounding == ASSUME TypeOK, Sounding, [Next]_vars PROVE Sounding'
<1> USE DEF Sounding, Audible, drive, Silent
<1>1. CASE Advance
  BY <1>1 DEF Advance
<1>2. CASE Panel
  BY <1>2 DEF Panel
<1>3. CASE ChangeDisc
  BY <1>3 DEF ChangeDisc
<1>4. CASE Play
  BY <1>4 DEF Play, PlayTrack
<1>5. CASE ClickPause
  BY <1>5 DEF ClickPause
<1>6. CASE ClickStop
  BY <1>6 DEF ClickStop
<1>7. CASE ClickEject
  BY <1>7 DEF ClickEject
<1>8. CASE ClickMove
  BY <1>8 DEF ClickMove
<1>9. CASE UNCHANGED drive
  BY <1>9
<1>10. QED
  BY <1>1, <1>2, <1>3, <1>4, <1>5, <1>6, <1>7, <1>8, <1>9
     DEF Next, Procedure, User, Update, Redraw, Generate, Check, StatusBusy, StatusEnded,
         Checked, Played, NextTrack, DrawAgain, NullEvent, OpenMain, ClickPlay, ClickNext,
         ClickLast, ClickMode, AddTrack, ClickTrack, ClearProgram, vars

LEMMA StepKeepsOverriding ==
  ASSUME TypeOK, Stack, Overriding, [Next]_vars
  PROVE  Overriding'
<1> USE DEF flags
<1>1. CASE UNCHANGED <<calls, playOverride>>
  BY <1>1 DEF Overriding, At, Idle
<1>2. CASE ~playOverride'
  BY <1>2 DEF Overriding
<1>3. CASE Idle /\ UNCHANGED playOverride
  BY <1>3 DEF Overriding, At
<1>4. CASE Generate \/ Check \/ StatusBusy \/ StatusEnded \/ Checked
  <2>1. ~playOverride
    BY <1>4 DEF Overriding, At, Generate, Check, StatusBusy, StatusEnded, Asked, Checked
  <2>2. UNCHANGED playOverride
    BY <1>4 DEF Generate, Check, StatusBusy, StatusEnded, Checked
  <2>3. QED
    BY <2>1, <2>2 DEF Overriding
<1>5. CASE Update
  <2>1. playOverride' = playOverride
    BY <1>5 DEF Update
  <2>2. SUFFICES ASSUME playOverride PROVE Overriding'
    BY <2>1 DEF Overriding
  <2>3. Tail(calls) # <<>> /\ Tail(calls)[1][1] = "played" /\ ~Idle
    BY <1>5, <2>2 DEF Update, Overriding, At
  <2>4. Return(<<<<"redraw">>>>)
    BY <1>5, <2>2 DEF Update
  <2>5. At("redraw")' /\ Tail(calls') = Tail(calls)
    BY <2>3, <2>4, NowAt, Places
  <2>6. QED
    BY <2>3, <2>5 DEF Overriding
<1>6. CASE Redraw
  <2>1. playOverride' = playOverride /\ Return(<<>>) /\ At("redraw")
    BY <1>6 DEF Redraw
  <2>2. SUFFICES ASSUME playOverride PROVE At("played")'
    BY <2>1 DEF Overriding
  <2>3. Tail(calls) # <<>> /\ Tail(calls)[1][1] = "played" /\ ~Idle
    BY <2>1, <2>2 DEF Overriding, At
  <2>4. calls' = Tail(calls)
    BY <2>1, <2>3, ReturnTo
  <2>5. QED
    BY <2>3, <2>4 DEF At, Idle
<1>7. CASE Play
  <2>1. CASE Return(<<<<"update">>, <<"played", TRUE>>>>)
    BY <1>7, <2>1, NowAt, Places DEF Overriding, Play, At
  <2>2. CASE Return(<<<<"played", FALSE>>>>)
    BY <1>7, <2>2, NowAt, Places DEF Overriding, Play, At
  <2>3. QED
    BY <1>7, <2>1, <2>2 DEF Play
<1>8. CASE Played
  BY <1>8, <1>2 DEF Played
<1>9. CASE NextTrack
  <2>1. ~Idle /\ \E t \in Tracks : Return(<<<<"play", t>>>>)
    BY <1>9 DEF NextTrack, At
  <2>2. At("play")'
    BY <2>1, NowAt, Places
  <2>3. QED
    BY <2>2 DEF Overriding
<1>10. CASE ClickPlay \/ ClickLast \/ ClickTrack
  <2>1. UNCHANGED playOverride \/ \E t \in Tracks : Call(<<<<"play", t>>>>)
    BY <1>10, TracksOfDiscs DEF ClickPlay, ClickLast, ClickTrack, TypeOK, WindowOK
  <2>2. ASSUME NEW t \in Tracks, Call(<<<<"play", t>>>>) PROVE At("play")'
    BY <2>2, NowAt, Places
  <2>3. QED
    BY <1>3, <1>10, <2>1, <2>2 DEF ClickPlay, ClickLast, ClickTrack, Click, Overriding
<1>11. QED
  BY <1>1, <1>2, <1>3, <1>4, <1>5, <1>6, <1>7, <1>8, <1>9, <1>10
     DEF Next, Procedure, User, DrawAgain, NullEvent, OpenMain, ClickPause, ClickStop,
         ClickEject, ClickNext,
         ClickMove, ClickMode, AddTrack, ClearProgram, Advance, Panel, ChangeDisc, Click, vars

LEMMA StepKeepsSilence ==
  ASSUME TypeOK, Stack, Overriding, Silence, [Next]_vars
  PROVE  Silence'
<1> USE DEF Silence, flags, drive, history
<1>1. CASE ~silenced'
  BY <1>1
<1>2. ASSUME NEW f \in Frame, ~Idle, f[1] # "next", Return(<<f>>) PROVE ~At("next")'
  BY <1>2, NowAt DEF At
<1>3. ASSUME NEW f \in Frame, NEW w \in Waiting, ~Idle, f[1] # "next", Return(<<f, w>>)
      PROVE  ~At("next")'
  BY <1>3, NowAt DEF At
<1>4. ASSUME ~Idle, Return(<<>>) PROVE ~At("next")'
  BY <1>4, NowAt, Places DEF At
<1>5. ASSUME UNCHANGED calls PROVE At("next") <=> At("next")'
  BY <1>5 DEF At, Idle
<1>6. ASSUME ~At("next")', silenced' => silenced, stopped => stopped', UNCHANGED playOverride,
             audio' \in {audio, "none", "paused"}
      PROVE  Silence'
  BY <1>6
<1>7. CASE Update
  <2>1. (stopped => stopped') /\ UNCHANGED <<playOverride, audio, silenced>>
    BY <1>7, EmptyKeepsTypes DEF Update, TypeOK, BitsOK, CheckIfEmpty
  <2>2. /\ ~Idle
        /\ \/ Return(<<<<"check">>, <<"redraw">>>>)
           \/ Return(<<<<"redraw">>>>)
    BY <1>7 DEF Update, At
  <2>3. QED
    BY <1>2, <1>3, <1>6, <2>1, <2>2, Places
<1>8. CASE Redraw \/ Checked
  BY <1>4, <1>6, <1>8 DEF Redraw, Checked, At
<1>9. CASE Generate /\ disc = Empty
  <2>1. (stopped => stopped') /\ UNCHANGED <<playOverride, audio, silenced>>
    BY <1>9 DEF Generate, CheckIfEmpty
  <2>2. QED
    BY <1>4, <1>6, <1>9, <2>1 DEF Generate, At
<1>10. CASE Generate /\ disc # Empty
  <2>1. /\ silenced' => silenced /\ stopped'
        /\ UNCHANGED <<playOverride, audio>> /\ ~Idle /\ Return(<<<<"check">>>>)
    BY <1>10 DEF Generate, At
  <2>2. QED
    BY <1>2, <2>1, Places
<1>11. CASE Check
  <2>1. /\ ~Idle /\ UNCHANGED <<silenced, stopped, playOverride, audio>>
        /\ \/ Return(<<<<"generate">>, <<"status">>>>)
           \/ Return(<<<<"status">>>>)
    BY <1>11 DEF Check, At
  <2>2. QED
    BY <1>2, <1>3, <1>6, <2>1, Places
<1>12. CASE StatusBusy
  <2>1. /\ ~Idle /\ UNCHANGED <<silenced, playOverride, audio>> /\ Return(<<<<"checked">>>>)
        /\ audio # "playing" /\ stopped => stopped'
    BY <1>12 DEF StatusBusy, Asked, At
  <2>2. QED
    BY <1>2, <2>1, Places
<1>13. CASE StatusEnded
  <2>1. ~playOverride /\ ~Idle /\ UNCHANGED <<playOverride, audio>>
    BY <1>13 DEF StatusEnded, Asked, Overriding, At
  <2>2. CASE stopped
    <3>1. Return(<<<<"checked">>>>) /\ UNCHANGED <<stopped, silenced>>
      BY <1>13, <2>2 DEF StatusEnded
    <3>2. QED
      BY <1>2, <2>1, <3>1, Places
  <2>3. CASE ~stopped /\ mode = "memory"
    <3>1. /\ silenced' => stopped' /\ audio # "playing"
          /\ \/ Return(<<<<"checked">>>>)
             \/ \E t \in Tracks : Return(<<<<"play", t>>, <<"checked">>>>)
      BY <1>13, <2>3 DEF StatusEnded
    <3>2. ~At("next")'
      BY <1>2, <1>3, <2>1, <3>1, Places
    <3>3. QED
      BY <2>1, <3>1, <3>2
  <2>4. CASE ~stopped /\ mode # "memory"
    BY <1>13, <2>4 DEF StatusEnded
  <2>5. QED
    BY <2>2, <2>3, <2>4
<1>14. CASE Play
  <2>1. ~At("next")'
    <3>1. /\ ~Idle
          /\ \/ Return(<<<<"update">>, <<"played", TRUE>>>>)
             \/ Return(<<<<"played", FALSE>>>>)
      BY <1>14 DEF Play, At
    <3>2. QED
      BY <1>2, <1>3, <3>1, Places
  <2>2. \/ (~stopped \/ playOverride) /\ UNCHANGED silenced
        \/ stopped' /\ ~playOverride /\ (silenced' => audio # "playing") /\ UNCHANGED drive
        \/ UNCHANGED <<stopped, silenced, audio>>
    BY <1>14 DEF Play
  <2>3. UNCHANGED playOverride
    BY <1>14 DEF Play
  <2>4. QED
    BY <2>1, <2>2, <2>3
<1>15. CASE Played
  BY <1>4, <1>15 DEF Played, At
<1>16. CASE NextTrack
  BY <1>16 DEF NextTrack
<1>17. CASE NullEvent
  <2>1. (stopped => stopped') /\ UNCHANGED <<playOverride, audio, silenced>>
    BY <1>17 DEF NullEvent, CheckIfEmpty
  <2>2. UNCHANGED calls \/ Call(<<<<"update">>>>)
    BY <1>17 DEF NullEvent
  <2>3. ~At("next")' \/ UNCHANGED calls
    BY <2>2, NowAt, Places DEF At
  <2>4. QED
    BY <1>5, <1>6, <2>1, <2>3 DEF At, Idle
<1>18. CASE OpenMain
  <2>1. calls' = <<>> \/ Call(<<<<"update">>>>)
    BY <1>18 DEF OpenMain, Call
  <2>2. ~At("next")'
    BY <2>1, NowAt, Places DEF At, Idle
  <2>3. QED
    BY <1>6, <1>18, <2>2 DEF OpenMain
<1>19. CASE Advance
  BY <1>19 DEF Advance
<1>20. CASE Panel \/ ChangeDisc
  BY <1>5, <1>20 DEF Panel, ChangeDisc, Silent, At
<1>21. CASE ClickPause
  BY <1>21 DEF ClickPause
<1>22. CASE ClickStop
  BY <1>22 DEF ClickStop, Click, Silent, At, Overriding, Idle
<1>23. CASE ClickEject
  <2>1. (stopped => stopped') /\ UNCHANGED <<playOverride, silenced, calls>> /\ audio' = "none"
    BY <1>23 DEF ClickEject, CheckIfEmpty, Silent
  <2>2. QED
    BY <1>23, <2>1 DEF At, Idle, ClickEject, Click
<1>24. CASE ClickMode \/ AddTrack \/ ClearProgram \/ DrawAgain \/ UNCHANGED vars
  BY <1>24 DEF ClickMode, AddTrack, ClearProgram, DrawAgain, vars, At, Idle
<1>25. QED
  BY <1>1, <1>7, <1>8, <1>9, <1>10, <1>11, <1>12, <1>13, <1>14, <1>15, <1>16, <1>17, <1>18,
     <1>19, <1>20, <1>21, <1>22, <1>23, <1>24
     DEF Next, Procedure, User, ClickPlay, ClickNext, ClickLast, ClickMove, ClickTrack

LEMMA StepKeepsHeeded ==
  ASSUME TypeOK, Stack, Overriding, Sounding, Heeded, [Next]_vars
  PROVE  Heeded'
<1> USE DEF Heeded, flags, drive, listing, history
<1>1. CASE stale' \/ Agrees'
  BY <1>1
<1>2. CASE audio' = "none"
  BY <1>2 DEF Agrees
<1>3. CASE Advance
  BY <1>3 DEF Advance, Silent, Agrees, Asking, At, Idle
<1>4. CASE Panel \/ ChangeDisc
  BY <1>1, <1>4 DEF Panel, ChangeDisc, Silent
<1>5. CASE Update
  <2>1. /\ At("update") /\ ~Idle /\ UNCHANGED <<playOverride, pause, audio, disc, stale>>
        /\ driveEmpty' = (disc = Empty)
        /\ ~driveEmpty' /\ ~playOverride => Return(<<<<"check">>, <<"redraw">>>>)
    BY <1>5 DEF Update, At, CheckIfEmpty
  <2>2. CASE disc = Empty
    BY <1>2, <2>1, <2>2, EmptyIsSilent
  <2>3. CASE disc # Empty /\ ~playOverride
    <3>1. At("check")'
      BY <2>1, <2>3, NowAt, Places
    <3>2. QED
      BY <3>1 DEF Asking
  <2>4. CASE disc # Empty /\ playOverride
    <3>1. stopped' = stopped /\ listed' = listed
      BY <1>5, <2>4, EmptyKeepsTypes DEF Update
    <3>2. ~Asking
      BY <2>1, <2>4 DEF Asking, At
    <3>3. QED
      BY <2>1, <3>1, <3>2 DEF Agrees
  <2>5. QED
    BY <2>2, <2>3, <2>4
<1>6. CASE Redraw
  <2>1. /\ ~Asking /\ UNCHANGED <<pause, audio, disc, listed, stale>>
        /\ stopped' = stopped \/ listed = <<"data">>
    BY <1>6 DEF Redraw, At, Asking, DataCD, TypeOK, BitsOK
  <2>2. CASE listed = <<"data">> /\ disc = listed
    BY <1>2, <2>1, <2>2, EmptyIsSilent
  <2>3. QED
    BY <2>1, <2>2 DEF Agrees
<1>7. CASE Generate
  <2>1. CASE disc = Empty
    BY <1>2, <1>7, <2>1, EmptyIsSilent DEF Generate
  <2>2. CASE disc # Empty
    <3>1. ~Idle /\ Return(<<<<"check">>>>)
      BY <1>7, <2>2 DEF Generate, At
    <3>2. At("check")'
      BY <3>1, NowAt, Places
    <3>3. QED
      BY <3>2 DEF Asking
  <2>3. QED
    BY <2>1, <2>2
<1>8. CASE Check
  <2>1. /\ ~Idle
        /\ \/ Return(<<<<"generate">>, <<"status">>>>)
           \/ Return(<<<<"status">>>>)
    BY <1>8 DEF Check, At
  <2>2. At("generate")' \/ At("status")'
    BY <2>1, NowAt, Places
  <2>3. QED
    BY <2>2 DEF Asking
<1>9. CASE StatusBusy
  BY <1>9 DEF StatusBusy, Asked, Agrees, TypeOK, BitsOK
<1>10. CASE StatusEnded
  BY <1>1, <1>10 DEF StatusEnded, Asked
<1>11. CASE Checked \/ Played
  BY <1>11 DEF Checked, Played, Agrees, Asking, At
<1>12. CASE Play
  <2>1. CASE PlayTrack(calls[1][2]) /\ stopped' = FALSE /\ pause' = FALSE
    <3>1. stale' \/ Agrees'
      BY <1>12, <2>1 DEF Play, PlayTrack, Agrees
    <3>2. QED
      BY <1>1, <3>1
  <2>2. CASE /\ ~playOverride /\ UNCHANGED playOverride
             /\ Return(<<<<"update">>, <<"played", TRUE>>>>)
    <3>1. At("update")'
      BY <1>12, <2>2, NowAt, Places DEF Play, At
    <3>2. QED
      BY <2>2, <3>1 DEF Asking
  <2>3. CASE UNCHANGED <<drive, pause, stopped, history, listing>>
    BY <1>12, <2>3 DEF Play, Agrees, Asking, At
  <2>4. QED
    BY <1>12, <2>1, <2>2, <2>3 DEF Play
<1>13. CASE NextTrack
  <2>1. ~Asking
    BY <1>13 DEF NextTrack, Asking, At
  <2>2. UNCHANGED <<disc, audio, pause, listed>> /\ stale' = (stale \/ stopped' # stopped)
    BY <1>13 DEF NextTrack, EndUnheard
  <2>3. ~stale' => ~stale /\ stopped' = stopped
    BY <2>2
  <2>4. QED
    BY <2>1, <2>2, <2>3 DEF Agrees
<1>14. CASE NullEvent
  <2>1. /\ ~Asking /\ UNCHANGED <<disc, audio, pause, stale>>
        /\ stopped' # stopped \/ listed' # listed => disc = Empty
    BY <1>14, EmptyKeepsTypes DEF NullEvent, Asking, At
  <2>2. CASE disc = Empty
    BY <1>2, <2>1, <2>2, EmptyIsSilent
  <2>3. QED
    BY <2>1, <2>2 DEF Agrees
<1>15. CASE \/ OpenMain \/ ClickPlay \/ ClickNext \/ ClickMode \/ AddTrack \/ ClearProgram
  BY <1>15 DEF OpenMain, ClickPlay, ClickNext, ClickMode, AddTrack, ClearProgram, Click,
     Agrees, Asking, At
<1>16. CASE ClickPause
  BY <1>16 DEF ClickPause, Click, Agrees, Asking, At
<1>17. CASE ClickStop \/ ClickEject
  BY <1>1, <1>17 DEF ClickStop, ClickEject, Silent
<1>18. CASE ClickLast
  <2>1. ~Asking
    BY <1>18 DEF ClickLast, Click, Asking, At
  <2>2. UNCHANGED <<disc, audio, pause, listed>> /\ stale' = (stale \/ stopped' # stopped)
    BY <1>18 DEF ClickLast, EndUnheard
  <2>3. ~stale' => ~stale /\ stopped' = stopped
    BY <2>2
  <2>4. QED
    BY <2>1, <2>2, <2>3 DEF Agrees
<1>19. CASE Click /\ UNCHANGED playOverride /\ Call(<<<<"update">>>>)
  <2>1. ~playOverride /\ UNCHANGED playOverride /\ Call(<<<<"update">>>>)
    BY <1>19 DEF Click, Overriding, At
  <2>2. At("update")'
    BY <2>1, NowAt, Places
  <2>3. QED
    BY <2>1, <2>2 DEF Asking
<1>20. CASE ClickTrack
  <2>1. CASE UNCHANGED <<stopped, pause>>
    BY <1>20, <2>1 DEF ClickTrack, Click, Agrees, Asking, At
  <2>2. QED
    BY <1>19, <1>20, <2>1 DEF ClickTrack
<1>21. CASE DrawAgain \/ UNCHANGED vars
  BY <1>21 DEF DrawAgain, vars, Agrees, Asking, At, Idle
<1>22. QED
  BY <1>3, <1>4, <1>5, <1>6, <1>7, <1>8, <1>9, <1>10, <1>11, <1>12, <1>13, <1>14, <1>15,
     <1>16, <1>17, <1>18, <1>19, <1>20, <1>21 DEF Next, Procedure, User, ClickMove
-----------------------------------------------------------------------------
LEMMA IInvHolds == Spec => []IInv
<1>1. IInv /\ [Next]_vars => IInv'
  BY StepKeepsTypes, StepKeepsStack, StepKeepsOverriding, StepKeepsSounding,
     StepKeepsSilence, StepKeepsHeeded DEF IInv
<1>2. QED
  BY <1>1, InitIInv, PTL DEF Spec

(* Every variable keeps to its values, and nothing waits on the stack of calls
   but the procedures that call others and go on behind the call: what starts
   a track is never itself left waiting. *)
THEOREM CDPlayTypeCorrect == Spec => [](TypeOK /\ Stack)
<1>1. IInv => TypeOK /\ Stack
  BY DEF IInv
<1>2. QED
  BY <1>1, IInvHolds, PTL

(* iconStop, the end of the disc and the end of a program are final: whatever
   the procedures of the same and of later null events come back to, the disc
   is not played until somebody asks for it (CDPlayTrack's test of stopped,
   CDBitz.c:319, and the bit that goes around it). *)
THEOREM CDPlayStaysStopped == Spec => []StaysStopped
<1>1. IInv => StaysStopped
  BY DEF IInv, Silence, StaysStopped
<1>2. QED
  BY <1>1, IInvHolds, PTL

(* Between two events stopped and the pause bit say what the drive did when it
   was asked last (CDCheckCD), for all discs, choices and depths of calls. *)
THEOREM CDPlayFollowsDrive == Spec => []FollowsDrive
<1>1. IInv => FollowsDrive
  BY DEF IInv, Heeded, FollowsDrive, Agrees, Asking, At
<1>2. QED
  BY <1>1, IInvHolds, PTL
=============================================================================
