------------------------------ MODULE JPEGDecode ------------------------------
(***************************************************************************)
(* How !JPEGView shows a file (Source/JPEGdecode.c): at each null event    *)
(* JV_DecodeWork calls the JPEG library (Libraries/) for as much as the    *)
(* buffer of module JPEGSource and the time allow, and goes on at the next *)
(* one where the library suspended.  A picture is one scan of lines, or    *)
(* several, each of which makes it finer; of several it shows some while   *)
(* the file comes in, and once more all of it (the final scan).            *)
(*                                                                         *)
(* A file is segments: "H" or "P" for all up to the frame header, of one   *)
(* scan or of several; "M" and a letter, a marker, with a parameter:       *)
(*   A n x..x, C n x..x  to be skipped, Long and Short;                    *)
(*   B d, B p            a scan follows, of DC or of AC coefficients;      *)
(*   E                   the end of the image;                             *)
(* and "r" "s", one row of a scan.  What the bytes say is left out, but    *)
(* for rows completed with zeros where a marker comes too early.           *)
(***************************************************************************)
EXTENDS JPEGSource, FiniteSets

CONSTANTS Rows,          \* rows of a scan, and lines of the picture
          Long, Short    \* the lengths of the segments A and C

ASSUME RowsAssumption == Rows \in Nat \ {0}
(* A segment with nothing in it, which skip_variable passes by, is left out. *)
ASSUME SegmentsAssumption ==
  {Long, Short, 2 * MaxSize} \subseteq Skips /\ Long > 0 /\ Short > 0

VARIABLES
  info,     \* status, progressive and FINAL_SCAN of JPEGInfo
  cinfo,    \* the library's object
  pc,       \* where JV_DecodeWork is
  ret,      \* what the call of the library gave, "none" while it runs
  failed    \* why the program ended

vars == <<source, info, cinfo, pc, ret, failed>>

(* The places where the library reads: in jpeg_read_header, under
   jpeg_read_scanlines, in jpeg_consume_input, jpeg_finish_output and
   jpeg_finish_decompress. *)
Calls == {"header", "line", "eat1", "eat", "eat3", "skip", "finish", "close"}

Updated(r, fields) ==
  [f \in DOMAIN r |-> IF f \in DOMAIN fields THEN fields[f] ELSE r[f]]
Set(fields) == cinfo' = Updated(cinfo, fields)
Status(fields) == info' = Updated(info, fields)
Returned(r) == ret' = r /\ UNCHANGED <<info, pc, failed>>
At(place) == pc' = place /\ ret' = "none" /\ UNCHANGED failed
Fail(why) == failed' = why /\ pc' = "exit" /\ ret' = "none" /\ UNCHANGED info

-----------------------------------------------------------------------------
(* The library. *)

(* decompress_data and decompress_smooth_data are to be given more first. *)
Behind ==
  IF cinfo.smooth
  THEN /\ cinfo.inScan <= cinfo.outScan /\ ~cinfo.eoi
       /\ cinfo.inScan = cinfo.outScan =>
            cinfo.inRow <= cinfo.outLine + (IF cinfo.dc THEN 1 ELSE 0)
  ELSE \/ cinfo.inScan < cinfo.outScan
       \/ cinfo.inScan = cinfo.outScan /\ cinfo.inRow <= cinfo.outLine

(* consume_input is to be called. *)
Consuming ==
  /\ pc \in Calls /\ ret = "none"
  /\ pc = "line" /\ cinfo.several => Behind
  /\ pc = "finish" => cinfo.inScan <= cinfo.outScan /\ ~cinfo.eoi
  /\ pc = "close" => ~cinfo.eoi

InMarkers == Consuming /\ cinfo.reading = "markers" /\ ~cinfo.eoi /\ cinfo.length = 0
InRows == Consuming /\ cinfo.reading = "rows"

(* Where a marker that begins at byte i has its letter, if it is there. *)
MarkerEnd(i) ==
  {e \in i + 1 .. bytesInBuffer : /\ Ahead(e) # "M"
                                  /\ \A j \in i .. e - 1 : Ahead(j) = "M"}

(* first_marker, and the frame header. *)
FirstMarker ==
  /\ InMarkers /\ cinfo.unread = "none" /\ ~cinfo.begun /\ bytesInBuffer > 0
  /\ Take(1)
  /\ IF Ahead(1) \in {"H", "P"}
     THEN Set([begun |-> TRUE, several |-> Ahead(1) = "P"]) /\ Returned("none")
     ELSE Fail("no SOI") /\ UNCHANGED cinfo

(* next_marker: what is not a marker is discarded. *)
Discard ==
  /\ InMarkers /\ cinfo.unread = "none" /\ cinfo.begun
  /\ bytesInBuffer > 0 /\ Ahead(1) # "M"
  /\ Take(1) /\ UNCHANGED cinfo /\ Returned("none")

NextMarker ==
  /\ InMarkers /\ cinfo.unread = "none" /\ cinfo.begun
  /\ \E e \in MarkerEnd(1) : Take(e) /\ Set([unread |-> Ahead(e)])
  /\ Returned("none")

(* skip_variable; two bytes of an end marker are a large length. *)
Segment ==
  /\ InMarkers /\ cinfo.unread \in {"A", "C"} /\ bytesInBuffer > 0
  /\ Take(1)
  /\ Set([length |-> IF Ahead(1) # "n" THEN 2 * MaxSize
                     ELSE IF cinfo.unread = "A" THEN Long ELSE Short])
  /\ Returned("none")

(* Slip: the marker not reset once its segment is skipped (jdmarker.c:1095). *)
SkipVariableAgain ==
  /\ Consuming /\ cinfo.length > 0
  /\ SkipInput(cinfo.length)
  /\ Returned("none") /\ UNCHANGED cinfo

SkipVariable ==
  /\ Consuming /\ cinfo.length > 0
  /\ SkipInput(cinfo.length)
  /\ Set([length |-> 0, unread |-> "none"])
  /\ Returned("none")

(* get_sos and consume_markers.  Before jpeg_start_decompress nothing of the
   scan is read. *)
StartOfScan ==
  /\ InMarkers /\ cinfo.unread = "B" /\ bytesInBuffer > 0
  /\ Take(1)
  /\ IF Ahead(1) \notin {"d", "p"}
     THEN Fail("corrupt") /\ UNCHANGED cinfo
     ELSE IF cinfo.inScan > 0 /\ ~cinfo.several
     THEN Fail("end of image expected") /\ UNCHANGED cinfo
     ELSE /\ Set([unread |-> "none", inScan |-> cinfo.inScan + 1, inRow |-> 0,
                  dc |-> Ahead(1) = "d",
                  reading |-> IF cinfo.inScan = 0 THEN "markers" ELSE "rows"])
          /\ Returned("SOS")

EndOfImage ==
  /\ InMarkers /\ cinfo.unread = "E"
  /\ UNCHANGED source
  /\ IF cinfo.inScan = 0 THEN Fail("no image") /\ UNCHANGED cinfo
     ELSE /\ Set([unread |-> "none", eoi |-> TRUE,
                  outScan |-> Least(cinfo.outScan, cinfo.inScan)])
          /\ Returned("EOI")

AfterEnd ==
  /\ Consuming /\ cinfo.reading = "markers" /\ cinfo.eoi
  /\ UNCHANGED <<source, cinfo>> /\ Returned("EOI")

RowRead(marker) ==
  /\ Set([unread |-> marker, inRow |-> cinfo.inRow + 1,
          reading |-> IF cinfo.inRow + 1 = Rows THEN "markers" ELSE "rows"])
  /\ Returned(IF cinfo.inRow + 1 = Rows THEN "SCAN" ELSE "ROW")

(* consume_data and decompress_onepass: a whole row, ... *)
Row ==
  /\ InRows /\ cinfo.unread = "none" /\ bytesInBuffer >= 2
  /\ Ahead(1) # "M" /\ Ahead(2) # "M"
  /\ Take(2) /\ RowRead("none")

(* ... the marker that ends the data too early, ... *)
RowCutShort ==
  /\ InRows /\ cinfo.unread = "none"
  /\ \E i \in 1..Least(2, bytesInBuffer) : \E e \in MarkerEnd(i) :
       /\ i = 2 => Ahead(1) # "M"
       /\ Ahead(i) = "M" /\ Take(e) /\ RowRead(Ahead(e))

(* ... and zeros for what is missing behind it. *)
RowOfZeros == InRows /\ cinfo.unread # "none" /\ RowRead(cinfo.unread) /\ UNCHANGED source

(* No byte is there that is needed: fill_input_buffer is FALSE. *)
Suspend ==
  /\ \/ /\ InMarkers /\ cinfo.unread # "E"
        /\ \/ bytesInBuffer = 0
           \/ /\ cinfo.unread = "none" /\ cinfo.begun /\ bytesInBuffer > 0
              /\ Ahead(1) = "M" /\ MarkerEnd(1) = {}
     \/ /\ InRows /\ cinfo.unread = "none"
        /\ \A i \in 1..Least(2, bytesInBuffer) : Ahead(i) = "M" => MarkerEnd(i) = {}
        /\ bytesInBuffer >= 2 => \E i \in 1..2 : Ahead(i) = "M"
  /\ UNCHANGED <<source, cinfo>> /\ Returned("SUSPENDED")

Library == \/ FirstMarker \/ Discard \/ NextMarker \/ Segment \/ SkipVariable
           \/ StartOfScan \/ EndOfImage \/ AfterEnd
           \/ Row \/ RowCutShort \/ RowOfZeros \/ Suspend

-----------------------------------------------------------------------------
(* JV_DecodeWork. *)

Is(status) == pc = "idle" /\ info.status = status
Is2(progressive) == Is("PROGRESSIVE") /\ info.progressive = progressive

(* JV_STATUS_CREATE, for a file that can be opened. *)
Create ==
  /\ Is("CREATE")
  /\ OpenSource(file)
  /\ Status([status |-> "HEADER"])
  /\ UNCHANGED <<cinfo, pc, ret, failed>>

(* JV_STATUS_HEADER: jpeg_read_header is called again at each null event until
   it finds a scan; ... *)
Header == Is("HEADER") /\ GetInput /\ At("header") /\ UNCHANGED <<info, cinfo>>

HeaderSuspended ==
  pc = "header" /\ ret = "SUSPENDED" /\ At("idle") /\ UNCHANGED <<source, info, cinfo>>

HeaderRead ==
  pc = "header" /\ ret = "SOS" /\ At("start") /\ UNCHANGED <<source, info, cinfo>>

(* ... then it goes on to JV_STATUS_START, where jpeg_start_decompress never
   suspends: a file of several scans has buffered_image, and no pass is a dummy
   one with the quantisation chosen here. *)
Start ==
  /\ pc = "start" /\ GetInput
  /\ Set([reading |-> "rows", inRow |-> 0,
          state |-> IF cinfo.several THEN "BUFIMAGE" ELSE "SCANNING"])
  /\ Status(IF cinfo.several THEN [status |-> "PROGRESSIVE", progressive |-> "START"]
            ELSE [status |-> "STANDARD", progressive |-> "none"])
  /\ At("idle")

(* JPEGCreateSprite fails. *)
NoSprite == pc = "start" /\ GetInput /\ Fail("no memory") /\ UNCHANGED cinfo

(* Slip: after the last line the next scan is started without
   jpeg_finish_output. *)
DecodeLinesUnfinished ==
  /\ Is("STANDARD") \/ Is2("PROCESS")
  /\ GetInput
  /\ IF cinfo.outLine < Rows THEN At("lines") /\ UNCHANGED info
     ELSE /\ At("idle")
          /\ Status(IF info.status = "PROGRESSIVE" /\ ~info.final
                    THEN [progressive |-> "START"] ELSE [status |-> "FINISHED"])
  /\ UNCHANGED cinfo

(* JV_DecodeLines: whether there is anything to do is seen a call late. *)
DecodeLines ==
  /\ Is("STANDARD") \/ Is2("PROCESS")
  /\ GetInput
  /\ IF cinfo.outLine < Rows THEN At("lines") /\ UNCHANGED info
     ELSE /\ At("idle")
          /\ Status(IF info.status = "PROGRESSIVE" THEN [progressive |-> "FINISH"]
                    ELSE [status |-> "FINISHED"])
  /\ UNCHANGED cinfo

(* Slip: one line too many. *)
ScanLinePastEnd ==
  /\ pc = "lines" /\ cinfo.outLine <= Rows
  /\ At("line") /\ UNCHANGED <<source, info, cinfo>>

ScanLine ==
  /\ pc = "lines" /\ cinfo.outLine < Rows
  /\ At("line") /\ UNCHANGED <<source, info, cinfo>>

(* All lines are out, or the time is. *)
LinesEnd == pc = "lines" /\ At("idle") /\ UNCHANGED <<source, info, cinfo>>

(* jpeg_read_scanlines suspends, is given more by consume_input, or has the
   line. *)
LineSuspended ==
  pc = "line" /\ ret = "SUSPENDED" /\ At("idle") /\ UNCHANGED <<source, info, cinfo>>

LineInput ==
  /\ pc = "line" /\ ret \notin {"none", "SUSPENDED"} /\ cinfo.several
  /\ At("line") /\ UNCHANGED <<source, info, cinfo>>

Line ==
  /\ pc = "line"
  /\ IF cinfo.several THEN ret = "none" /\ ~Behind ELSE ret \in {"ROW", "SCAN"}
  /\ Set([outLine |-> cinfo.outLine + 1]) /\ At("lines")
  /\ UNCHANGED <<source, info>>

(* JV_PROGRESSIVE_START: of a file that has all come in, the rest of the scans
   is read; of another, two scans in three are skipped. *)
StartScan ==
  /\ Is2("START") /\ GetInput
  /\ IF completed' THEN At("eat1") /\ UNCHANGED info
     ELSE IF cinfo.inScan % 3 # 1
     THEN Status([progressive |-> "SKIP"]) /\ At("idle")
     ELSE At("output") /\ UNCHANGED info
  /\ UNCHANGED cinfo

(* The three calls of jpeg_consume_input, the second of them in a loop that
   gets input and ends with the file or the time. *)
Eaten ==
  /\ pc = "eat1" /\ ret # "none"
  /\ At(IF ret = "EOI" THEN "output" ELSE "eat")
  /\ UNCHANGED <<source, info, cinfo>>

EatMore ==
  /\ pc = "eat" /\ ret \notin {"none", "EOI"}
  /\ GetInput /\ At("eat") /\ UNCHANGED <<info, cinfo>>

EatEnd == pc = "eat" /\ ret # "none" /\ At("eat3") /\ UNCHANGED <<source, info, cinfo>>

AllEaten ==
  /\ pc = "eat3" /\ ret # "none"
  /\ At(IF ret = "EOI" THEN "output" ELSE "idle")
  /\ UNCHANGED <<source, info, cinfo>>

(* jpeg_start_output, for the final scan if the end of the image is reached;
   whether the pass is smoothed depends on what the scans gave. *)
Output ==
  /\ pc = "output"
  /\ IF cinfo.state # "BUFIMAGE"
     THEN Fail("bad state") /\ UNCHANGED cinfo
     ELSE \E smooth \in BOOLEAN :
            /\ Set([outScan |-> cinfo.inScan, outLine |-> 0, smooth |-> smooth,
                    state |-> "SCANNING"])
            /\ Status([final |-> info.final \/ cinfo.eoi, progressive |-> "PROCESS"])
            /\ At("idle")
  /\ UNCHANGED source

(* JV_PROGRESSIVE_SKIP_SCAN, in such a loop too. *)
SkipScan == Is2("SKIP") /\ At("skip") /\ UNCHANGED <<source, info, cinfo>>

SkipMore ==
  /\ pc = "skip" /\ ret \notin {"none", "SOS", "EOI"}
  /\ GetInput /\ At("skip") /\ UNCHANGED <<info, cinfo>>

SkipEnd ==
  /\ pc = "skip" /\ ret # "none"
  /\ IF ret \in {"SOS", "EOI"} THEN Status([progressive |-> "START"]) ELSE UNCHANGED info
  /\ At("idle") /\ UNCHANGED <<source, cinfo>>

(* JV_PROGRESSIVE_FINISH: jpeg_finish_output reads on to the next scan. *)
FinishScan ==
  /\ Is2("FINISH")
  /\ Set([state |-> "BUFPOST"]) /\ At("finish")
  /\ UNCHANGED <<source, info>>

FinishMore ==
  /\ pc = "finish" /\ ret \notin {"none", "SUSPENDED"}
  /\ At("finish") /\ UNCHANGED <<source, info, cinfo>>

(* Slip: the wrong one of two flags tested (line 774). *)
ScanFinishedByFile ==
  /\ pc = "finish"
  /\ \/ ret = "SUSPENDED" /\ UNCHANGED cinfo
     \/ ret = "none" /\ ~Consuming /\ Set([state |-> "BUFIMAGE"])
  /\ Status(IF completed THEN [status |-> "FINISHED"] ELSE [progressive |-> "START"])
  /\ At("idle") /\ UNCHANGED source

(* Its result, FALSE where it suspended, is not looked at. *)
ScanFinished ==
  /\ pc = "finish"
  /\ \/ ret = "SUSPENDED" /\ UNCHANGED cinfo
     \/ ret = "none" /\ ~Consuming /\ Set([state |-> "BUFIMAGE"])
  /\ Status(IF info.final THEN [status |-> "FINISHED"] ELSE [progressive |-> "START"])
  /\ At("idle") /\ UNCHANGED source

(* JV_STATUS_FINISHED: jpeg_finish_decompress reads to the end of the image. *)
Close ==
  /\ Is("FINISHED") /\ GetInput
  /\ IF cinfo.state \in {"SCANNING", "BUFIMAGE", "STOPPING"}
     THEN Set([state |-> "STOPPING"]) /\ At("close") /\ UNCHANGED info
     ELSE Fail("bad state") /\ UNCHANGED cinfo

CloseMore ==
  /\ pc = "close" /\ ret \notin {"none", "SUSPENDED"}
  /\ At("close") /\ UNCHANGED <<source, info, cinfo>>

CloseSuspended ==
  pc = "close" /\ ret = "SUSPENDED" /\ At("idle") /\ UNCHANGED <<source, info, cinfo>>

(* The object is destroyed; null events do nothing more. *)
Release ==
  /\ pc = "close" /\ ret = "none" /\ ~Consuming
  /\ Status([status |-> "none"]) /\ At("idle")
  /\ UNCHANGED <<source, cinfo>>

Ended == pc = "exit" \/ info.status = "none"

Init ==
  /\ SourceInit
  /\ info = [status |-> "CREATE", progressive |-> "none", final |-> FALSE]
  /\ cinfo = [state |-> "INHEADER", begun |-> FALSE, several |-> FALSE,
              unread |-> "none", length |-> 0, reading |-> "markers", eoi |-> FALSE,
              inScan |-> 0, inRow |-> 0, dc |-> FALSE,
              outScan |-> 0, outLine |-> 0, smooth |-> FALSE]
  /\ pc = "idle" /\ ret = "none" /\ failed = "none"

Work == \/ Create \/ Header \/ HeaderSuspended \/ HeaderRead \/ Start \/ NoSprite
        \/ DecodeLines \/ ScanLine \/ LinesEnd \/ LineSuspended \/ LineInput \/ Line
        \/ StartScan \/ Eaten \/ EatMore \/ EatEnd \/ AllEaten \/ Output
        \/ SkipScan \/ SkipMore \/ SkipEnd
        \/ FinishScan \/ FinishMore \/ ScanFinished
        \/ Close \/ CloseMore \/ CloseSuspended \/ Release

Next == Library \/ Work \/ (Ended /\ UNCHANGED vars)

(* Null events go on, and each leaves the time for a line or for a round of the
   loop that skips, if not always then again and again. *)
Fairness == WF_vars(Library \/ Work) /\ SF_vars(ScanLine) /\ SF_vars(SkipMore)

Spec == Init /\ [][Next]_vars /\ Fairness

-----------------------------------------------------------------------------
(* Every variable has its type; no line is written below the sprite. *)
TypeOK ==
  /\ SourceTypeOK
  /\ info \in [status : {"CREATE", "HEADER", "STANDARD", "PROGRESSIVE", "FINISHED", "none"},
               progressive : {"none", "START", "SKIP", "PROCESS", "FINISH"},
               final : BOOLEAN]
  /\ cinfo \in [state : {"INHEADER", "BUFIMAGE", "SCANNING", "BUFPOST", "STOPPING"},
                begun : BOOLEAN, several : BOOLEAN,
                unread : (Byte \ {"M"}) \cup {"none"}, length : {0, Long, Short, 2 * MaxSize},
                reading : {"markers", "rows"}, eoi : BOOLEAN,
                inScan : Nat, inRow : 0..Rows, dc : BOOLEAN,
                outScan : Nat, outLine : 0..Rows, smooth : BOOLEAN]
  /\ pc \in Calls \cup {"idle", "start", "lines", "output", "exit"}
  /\ ret \in {"none", "SUSPENDED", "SOS", "EOI", "ROW", "SCAN"}
  /\ failed \in {"none", "no SOI", "no image", "corrupt", "end of image expected",
                 "no memory", "bad state"}

(* A whole file is segments as above, from the frame header to the end of the
   image, with bytes between them that are not to be read or without: nothing
   but a marker begins with 0xFF, and there is a scan, just one where the frame
   says so. *)
MarkerIn(f, i) == i \in 2 .. Len(f) - 1 /\ f[i] = "M"

(* The next marker is n bytes behind the one at i or further. *)
Follows(f, i, n) ==
  /\ \E j \in i + n .. Len(f) : f[j] = "M"
  /\ \A j \in i + 1 .. i + n - 1 : f[j] # "M"

WellFormed(f, i) ==
  \/ f[i + 1] = "A" /\ Follows(f, i, 3 + Long) /\ f[i + 2] = "n"
  \/ f[i + 1] = "C" /\ Follows(f, i, 3 + Short) /\ f[i + 2] = "n"
  \/ f[i + 1] = "B" /\ Follows(f, i, 3 + 2 * Rows) /\ f[i + 2] \in {"d", "p"}
  \/ f[i + 1] = "E" /\ \A j \in i + 1 .. Len(f) : f[j] # "M"

ScansOf(f) == Cardinality({i \in 2..Len(f) : f[i-1] = "M" /\ f[i] = "B"})

(* What stands between two scans fits in the buffer: jpeg_finish_output, which
   JV_DecodeWork calls once, reads all of it. *)
Fits(f) ==
  \A i \in 2..Len(f) : MarkerIn(f, i) /\ f[i + 1] = "B" =>
    LET end == i + 3 + 2 * Rows
    IN \E j \in end .. end + MaxSize - 4 : MarkerIn(f, j) /\ f[j + 1] \in {"B", "E"}

Whole(f) ==
  /\ Len(f) > 0 /\ f[1] \in {"H", "P"}
  /\ \A i \in 2..Len(f) : f[i] = "M" => MarkerIn(f, i) /\ WellFormed(f, i)
  /\ ScansOf(f) > 0
  /\ IF f[1] = "P" THEN Fits(f) ELSE ScansOf(f) = 1

(* However a whole file is cut by buffer and time, and whatever scans are
   skipped, the program ends over it only for want of memory: the library never
   takes one byte for another and is never called in a state it refuses. *)
WholeFilesShown == pc = "exit" /\ Whole(file) => failed = "no memory"

(* All lines of the last scan that was read are out, to the end of the image,
   and of several scans it was the final one that gave them. *)
ShownToEnd ==
  /\ cinfo.outLine = Rows /\ cinfo.eoi
  /\ cinfo.several => info.final /\ cinfo.outScan = cinfo.inScan

(* Nothing is closed before it is shown to its end, and of a whole file the last
   scan it has was read (JPEGdecode.c:659, "If image completed start final
   scan"). *)
ShownWhole ==
  [][Release => /\ ShownToEnd
                /\ Whole(file) => cinfo.inScan = ScansOf(file)]_vars

(* The library as it is called here uses the source as it is to be used. *)
UsesSource == SourceSpec

(* Bytes behind the end of the image, 0 if it never comes. *)
Overhang(f) ==
  LET ends == {i \in 2..Len(f) : f[i-1] = "M" /\ f[i] = "E"}
  IN IF ends = {} THEN 0 ELSE Len(f) - CHOOSE i \in ends : \A j \in ends : i <= j

(* The end of the file is noticed, for which the buffer must have room left behind
   the last byte (JPEGsrcman.c:74), or START does not turn to SKIP there
   (JPEGdecode.c:652): else these two call each other for ever. *)
EndInSight(f) ==
  f # <<>> /\ f[1] = "P" /\ ScansOf(f) % 3 # 1 => Overhang(f) < MaxSize - 1

(* Every such file is shown to its end or given up: the source never leaves the
   decoder without a byte for good, and no stage waits for the next one. *)
LoadEnds == EndInSight(file) => <>Ended
=============================================================================
