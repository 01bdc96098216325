--------------------------- MODULE RecordingStore ---------------------------
(***************************************************************************)
(* What the card promises for a recording, whatever happens while it is    *)
(* made.  At most one is open.  The readers of a session (the uploader)    *)
(* are offered a number of frames; what was offered is kept, through       *)
(* failed writes and power losses, and a sealed recording, closed by the   *)
(* writer or repaired at a later start, never changes again.               *)
(***************************************************************************)
EXTENDS Naturals

CONSTANTS Sessions, MaxFrames

VARIABLES phase,     \* of each session: absent, open, torn or sealed
          offered,   \* frames its readers were told they may read
          kept       \* frames that would survive a power loss now
vars == <<phase, offered, kept>>

Frames == 0..MaxFrames
At(f, s, v) == [f EXCEPT ![s] = v]

Init ==
  /\ phase = [s \in Sessions |-> "absent"]
  /\ offered = [s \in Sessions |-> 0]
  /\ kept = [s \in Sessions |-> 0]

(* A session is opened, or what its failed opening left is torn.           *)
Begin(s, p) ==
  /\ phase[s] = "absent" /\ \A t \in Sessions : phase[t] # "open"
  /\ phase' = At(phase, s, p)
  /\ UNCHANGED <<offered, kept>>

Sync(s, n) ==
  /\ phase[s] = "open" /\ n >= kept[s]
  /\ kept' = At(kept, s, n)
  /\ \E o \in Frames : o >= offered[s] /\ o <= n /\ offered' = At(offered, s, o)
  /\ UNCHANGED phase

Seal(s) ==
  /\ phase[s] = "open" /\ offered[s] = kept[s]
  /\ phase' = At(phase, s, "sealed")
  /\ UNCHANGED <<offered, kept>>

(* The writer gives the session up.                                        *)
Tear(s) ==
  /\ phase[s] = "open"
  /\ phase' = At(phase, s, "torn")
  /\ UNCHANGED <<offered, kept>>

(* What was not synced may turn out to be on the card; a seal that was     *)
(* just being set may be there.                                            *)
PowerLoss ==
  /\ \A s \in Sessions :
       \/ phase'[s] = phase[s] /\ phase[s] # "open"
       \/ phase[s] = "open" /\ phase'[s] = "torn"
       \/ phase[s] = "open" /\ phase'[s] = "sealed" /\ offered[s] = kept[s]
  /\ \A s \in Sessions :
       IF phase'[s] = "torn" THEN kept'[s] >= kept[s] ELSE kept'[s] = kept[s]
  /\ UNCHANGED offered

(* A repair may find more than was synced, never less; it may also fail    *)
(* before it has marked the session.                                       *)
Repair(s, n, p) ==
  /\ phase[s] = "torn" /\ n >= kept[s] /\ p \in {"torn", "sealed"}
  /\ phase' = At(phase, s, p) /\ kept' = At(kept, s, n)
  /\ UNCHANGED offered

Next ==
  \E s \in Sessions :
    \/ \E p \in {"open", "torn"} : Begin(s, p)
    \/ \E n \in Frames : Sync(s, n)
    \/ Seal(s)
    \/ Tear(s)
    \/ \E n \in Frames, p \in {"torn", "sealed"} : Repair(s, n, p)
    \/ PowerLoss

Spec == Init /\ [][Next]_vars
=============================================================================
