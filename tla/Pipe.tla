-------------------------------- MODULE Pipe --------------------------------
(***************************************************************************)
(* What BTTelnet promises the application about the bytes of one           *)
(* connection.  The data the server sends is handed over in order, each    *)
(* byte once, with the protocol's commands taken out; a byte the           *)
(* application writes may be echoed behind what is ready by then; all that *)
(* was not handed over is gone once the connection is.                     *)
(***************************************************************************)
EXTENDS Integers, Sequences

CONSTANTS Data,      \* data bytes
          Room       \* how much can be ready at a time

VARIABLES ready,     \* what BTTelnet_Read would hand over
          coming     \* the data still on its way there

pvars == <<ready, coming>>

PipeInit == ready = <<>> /\ coming = <<>>

Send == \E d \in Data : coming' = Append(coming, d) /\ UNCHANGED ready

Deliver == \E n \in 1..Len(coming) :
             /\ Len(ready) + n <= Room
             /\ ready' = ready \o SubSeq(coming, 1, n)
             /\ coming' = SubSeq(coming, n + 1, Len(coming))

EchoByte == /\ Len(ready) < Room
            /\ \E d \in Data : ready' = Append(ready, d)
            /\ UNCHANGED coming

HandOver == /\ \E n \in 1..Len(ready) : ready' = SubSeq(ready, n + 1, Len(ready))
            /\ UNCHANGED coming

Cut == ready' = <<>> /\ coming' = <<>>

PipeNext == Send \/ Deliver \/ EchoByte \/ HandOver \/ Cut

PipeSpec == PipeInit /\ [][PipeNext]_pvars
=============================================================================
