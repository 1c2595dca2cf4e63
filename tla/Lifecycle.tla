------------------------------ MODULE Lifecycle ------------------------------
(***************************************************************************)
(* The life of one connection as the rest of the BTTelnet module and the   *)
(* application may rely on it: the phases of module Vectors, and "dead"    *)
(* for a session whose set-up failed for good.  Nothing leads back from    *)
(* the end of a connection but closing the session, unless it ended while  *)
(* SecureSockets was called for it ("losing"); such a session may become   *)
(* connected without a socket ("revived").  A connection that is being set *)
(* up has no events that could end it.                                     *)
(***************************************************************************)
VARIABLE phase

Phases == {"free", "connecting", "connected", "securing", "losing", "revived",
           "finished", "dead"}

(* The phases that may follow each phase. *)
After ==
  [free       |-> {"connecting"},
   connecting |-> {"connected", "securing", "dead", "free"},
   connected  |-> {"securing", "finished", "free"},
   securing   |-> {"connected", "losing", "finished", "dead", "free"},
   losing     |-> {"finished", "revived"},
   revived    |-> {"free"},
   finished   |-> {"free"},
   dead       |-> {"finished", "free"}]

Init == phase = "free"
Next == phase' \in After[phase]
Spec == Init /\ [][Next]_phase
=============================================================================
