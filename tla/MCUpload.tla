------------------------------ MODULE MCUpload ------------------------------
(***************************************************************************)
(* The one way in which a recording that the server has taken is taken     *)
(* back, for TLC: Upload, with its faults only where this story has them   *)
(* and without the user's manual sync.  An answer is given up that shows   *)
(* the card nothing, a resume is carried out late, the server restarts     *)
(* between two requests, the end is carried out late, and a chunk is lost. *)
(* The card then defers the recording while the late end is still ending   *)
(* its live session.                                                       *)
(***************************************************************************)
EXTENDS Upload

Unanswered(kind) == call.rq.kind = kind /\ call' = NoCall
Outlived(kind) == Awaited # {} /\ Unanswered(kind)
Story ==
    \/ faults.count = 0 /\ Unanswered("poll")
    \/ faults.count = 1 /\ Outlived("resume")
    \/ faults.count = 2 /\ call = NoCall
    \/ faults.count = 3 /\ Outlived("end")
    \/ faults.count = 4 /\ Unanswered("chunk")
Guided == ~lane'.sync /\ (faults'.count # faults.count => Story)
GuidedSpec == Init /\ [][Next /\ Guided]_vars
=============================================================================
