----------------------------- MODULE VoiceTodo -----------------------------
(***************************************************************************)
(* A spoken to-do, from the held key to the entry in the owner's agenda.   *)
(* The application task starts and ends a capture, the microphone's task   *)
(* puts sound into a ring of a fixed size, the writer task empties it into *)
(* audio.wav, and the network task uploads the file, asks for what the     *)
(* server understood and passes on the owner's answer.  All but the        *)
(* microphone's write todo.json, each as a whole and from a copy of its    *)
(* own; the state in it says whose turn it is.  Power may fail at any      *)
(* step, the server may restart, a request or its answer may be lost, a    *)
(* file operation may fail and the writer may miss the three seconds it    *)
(* has.                                                                     *)
(***************************************************************************)
EXTENDS Integers, FiniteSets, FiniteSetsExt

CONSTANTS
    Last,        \* the to-dos are 1 .. Last: ids and directories in order of creation
    MaxHeard,    \* pieces of sound heard in a capture
    RingRoom,    \* TODO_RING_BYTES, in pieces
    Room,        \* TODO_MAX_PCM, in pieces
    FaultKinds,  \* what may go wrong: "lost" (a request or its answer), "late" (the
                 \* request, given up by the card), "power", "restart" (of the server),
                 \* "sd" (a file operation), "slow" (the writer), "asr"
    MaxFaults    \* how often something goes wrong

ASSUME TodoAssumption ==
    /\ Last \in Nat \ {0} /\ MaxHeard \in Nat \ {0}
    /\ RingRoom \in Nat \ {0} /\ Room \in Nat \ {0}
    /\ FaultKinds \subseteq {"lost", "late", "power", "restart", "sd", "slow", "asr"}
    /\ MaxFaults \in Nat

Todos == 1 .. Last

VARIABLES
    on,       \* the card has started up
    disk,     \* todo.json of every to-do: its state and the revision of its result
    wav,      \* pieces of sound in audio.wav
    heard,    \* pieces the tap was called with while its capture was on
    taken,    \* pieces the ring took until the writer closed the capture
    tapping,  \* the tap has seen a capture that is on, and not yet sent its piece
    capture,  \* s_capture: the to-do, what the writer still has to do, the state of
              \* its item and whether a write failed
    ring,     \* pieces in s_todo_ring
    token,    \* s_todo_done is given
    waiting,  \* the application waits for it
    told,     \* what the owner was told at the end of a capture
    latest,   \* s_latest_todo
    wish,     \* the answer the owner gave, and saw accepted
    call,     \* the request the network task waits for, with its copy of the item
    late,     \* requests the card has given up that still reach the server
    rows,     \* device_voice_todos: status, revision, sound, agenda entries, and the
              \* answers to actions kept in api_idempotency
    task,     \* process_todo of every row: none, due, or waiting for the transcript
    faults    \* how many faults there were

cardVars == <<on, disk, latest>>
captureVars == <<wav, heard, taken, tapping, capture, ring, token, waiting, told>>
serverVars == <<late, rows, task>>
vars == <<cardVars, captureVars, wish, call, serverVars, faults>>

Fault(kind) == kind \in FaultKinds /\ faults < MaxFaults /\ faults' = faults + 1

-----------------------------------------------------------------------------
(* todo.json, and the answers the server keeps. *)

States == {"none", "capturing", "queued", "uploaded", "needs_confirmation",
           "confirm_pending", "cancel_pending", "created", "cancelled", "failed"}
Pending == {"confirm_pending", "cancel_pending"}
Sendable == {"queued", "uploaded"} \union Pending

Item(t) == [id |-> t, state |-> disk[t].state, rev |-> disk[t].rev]
NoItem == [id |-> 0, state |-> "none", rev |-> 0]

(* todo_save: the file and the latest item change together or not at all   *)
(* (AtomicJson is about the file alone).                                    *)
Save(item) ==
    /\ disk' = [disk EXCEPT ![item.id] = [state |-> item.state, rev |-> item.rev]]
    /\ latest' = item

NoCapture == [id |-> 0, step |-> "none", state |-> "none", error |-> FALSE]
NoCall == [item |-> NoItem, sound |-> 0, step |-> "none", code |-> 0, status |-> "none", rev |-> 0]
NoRow == [status |-> "none", rev |-> 0, sound |-> 0, entries |-> 0, answers |-> {}]

-----------------------------------------------------------------------------
(* The capture: the key held, the sound, the key released. *)

Begin ==
    /\ on /\ ~waiting /\ capture.step = "none"
    /\ \E t \in Todos :
          /\ t = capture.id + 1
          /\ Save([id |-> t, state |-> "capturing", rev |-> 0])
          /\ capture' = [id |-> t, step |-> "active", state |-> "capturing", error |-> FALSE]
    /\ ring' = 0
    /\ UNCHANGED <<on, wav, heard, taken, tapping, token, waiting, told, wish, call, serverVars, faults>>

(* todo_audio_tap: it looks whether a capture is on, and sends what it was *)
(* called with.  The capture may have been closed in between, and another  *)
(* begun: the piece then stays in the ring until a capture begins, or is   *)
(* part of the new one.  A full ring takes nothing, and nobody is told.    *)
Hear ==
    /\ capture.step = "active" /\ ~tapping /\ heard[capture.id] < MaxHeard
    /\ tapping' = TRUE
    /\ heard' = [heard EXCEPT ![capture.id] = @ + 1]
    /\ UNCHANGED <<cardVars, wav, taken, capture, ring, token, waiting, told, wish, call, serverVars, faults>>
Take == IF capture.step = "none" THEN taken ELSE [taken EXCEPT ![capture.id] = @ + 1]
Send ==
    /\ tapping /\ tapping' = FALSE
    /\ \/ ring < RingRoom /\ ring' = ring + 1 /\ taken' = Take
       \/ ring = RingRoom /\ UNCHANGED <<ring, taken>>
    /\ UNCHANGED <<cardVars, wav, heard, capture, token, waiting, told, wish, call, serverVars, faults>>

WritePiece(t) ==
    IF wav[t] < Room /\ ~capture.error THEN wav' = [wav EXCEPT ![t] = @ + 1] ELSE UNCHANGED wav
Write ==
    /\ capture.step # "none" /\ ring > 0 /\ ring' = ring - 1
    /\ \/ WritePiece(capture.id) /\ UNCHANGED <<capture, faults>>
       \/ ~capture.error /\ Fault("sd") /\ capture' = [capture EXCEPT !.error = TRUE] /\ UNCHANGED wav
    /\ UNCHANGED <<cardVars, heard, taken, tapping, token, waiting, told, wish, call, serverVars>>

(* todo_capture_end stops the tap, leaves the rest to the writer and waits. *)
End ==
    /\ capture.step = "active"
    /\ capture' = [capture EXCEPT !.step = "closing"]
    /\ waiting' = TRUE
    /\ UNCHANGED <<cardVars, wav, heard, taken, tapping, ring, token, told, wish, call, serverVars, faults>>

(* The writer has emptied the ring: the header, then todo.json, then the   *)
(* token.  When todo.json cannot be saved it says "capturing" until the    *)
(* card starts up again.                                                    *)
Closed == capture.step = "closing" /\ ring = 0
(* Wrong variant of Outcome: a piece that could not be written is forgotten. *)
OutcomeHopeful == {"queued"}
Outcome == IF capture.error THEN {"failed"} ELSE {"queued"}
CloseAs(state) ==
    /\ capture' = [capture EXCEPT !.step = "none", !.state = state]
    /\ token' = TRUE
Close ==
    /\ Closed
    /\ \/ \E state \in Outcome :
             Save([id |-> capture.id, state |-> state, rev |-> 0]) /\ CloseAs(state) /\ UNCHANGED faults
       \/ Save([id |-> capture.id, state |-> "failed", rev |-> 0]) /\ CloseAs("failed") /\ Fault("sd")
       \/ UNCHANGED <<disk, latest>> /\ CloseAs("failed") /\ Fault("sd")
    /\ UNCHANGED <<on, wav, heard, taken, tapping, ring, waiting, told, wish, call, serverVars>>

Tell(what) == told' = [told EXCEPT ![capture.id] = what]
Done == token
Ended ==
    /\ waiting /\ Done
    /\ waiting' = FALSE /\ token' = FALSE
    /\ Tell(IF capture.state = "queued" THEN "saved" ELSE "failed")
    /\ UNCHANGED <<cardVars, wav, heard, taken, tapping, capture, ring, wish, call, serverVars, faults>>
(* Three seconds are over; the token the writer gives later stays.          *)
TimedOut ==
    /\ waiting /\ ~token /\ Fault("slow")
    /\ waiting' = FALSE
    /\ Tell("failed")
    /\ UNCHANGED <<cardVars, wav, heard, taken, tapping, capture, ring, token, wish, call, serverVars>>

-----------------------------------------------------------------------------
(* The owner's answer: todo_request_action. *)

(* Wrong variant of Asked: the owner may also take back an answer.          *)
AskedAgain == latest.state \in {"needs_confirmation", "confirm_pending"}
Asked == latest.state = "needs_confirmation"
Answer ==
    /\ on /\ ~waiting /\ capture.step = "none" /\ Asked
    /\ \E state \in Pending :
          /\ Save([latest EXCEPT !.state = state])
          /\ wish' = [wish EXCEPT ![latest.id] = state]
    /\ UNCHANGED <<on, captureVars, call, serverVars, faults>>

-----------------------------------------------------------------------------
(* The network task. *)

(* todo_next: the first directory with something to send.                  *)
Eligible == {t \in Todos : disk[t].state \in Sendable}
Turn ==
    /\ on /\ call.step = "none" /\ Eligible # {}
    /\ LET t == Min(Eligible)
       IN  call' = [NoCall EXCEPT !.item = Item(t), !.sound = wav[t], !.step = "sent"]
    /\ UNCHANGED <<cardVars, captureVars, wish, serverVars, faults>>

(* What an answer makes of the item: to upload, to be told the result, and *)
(* to act.  An answer that fits none of them is tried again.                *)
Uploaded(item) == [item EXCEPT !.state = IF call.status = "failed" THEN "failed" ELSE "uploaded"]
ResultStates == [ready |-> "needs_confirmation", confirmed |-> "created",
                 failed |-> "failed", cancelled |-> "failed"]
(* todo_set_result; the revision of a failure is not kept.                  *)
Resulted(item) ==
    LET state == ResultStates[call.status]
    IN  [item EXCEPT !.state = state, !.rev = IF state = "failed" THEN @ ELSE call.rev]
Acted(item) == [item EXCEPT !.state = IF @ = "confirm_pending" THEN "created" ELSE "cancelled"]

Received(item) ==
    CASE call.code = 200 /\ item.state = "queued" -> Uploaded(item)
      [] call.code = 200 /\ item.state = "uploaded" /\ call.rev > item.rev -> Resulted(item)
      [] call.code = 200 /\ item.state \in Pending /\ call.rev = item.rev + 1 -> Acted(item)
      [] call.code = 409 /\ item.state \in Pending /\ call.rev > item.rev -> [item EXCEPT !.state = "uploaded"]
      [] call.code = 409 /\ ~(item.state \in Pending /\ call.rev > item.rev) -> [item EXCEPT !.state = "failed"]
      [] OTHER -> item

(* Wrong variant of Keeps: a request without an answer counts as done.      *)
KeepsHopeful ==
    IF call.step = "lost" /\ call.item.state \in Pending THEN Acted(call.item)
    ELSE IF call.step = "lost" THEN call.item ELSE Received(call.item)
Keeps == IF call.step = "lost" THEN call.item ELSE Received(call.item)
Receive ==
    /\ on /\ call.step \in {"answered", "lost"}
    /\ \/ /\ call.code \in {202, 204}
          /\ UNCHANGED <<disk, latest, faults>>
       \/ call.code \notin {202, 204} /\ Save(Keeps) /\ UNCHANGED faults
       \/ /\ call.code \notin {202, 204} /\ Fault("sd")
          /\ UNCHANGED disk /\ latest' \in {latest, call.item}
    /\ call' = NoCall
    /\ UNCHANGED <<on, captureVars, wish, serverVars>>

-----------------------------------------------------------------------------
(* The server. *)

Reply(code, status, rev) == [code |-> code, status |-> status, rev |-> rev]

(* upload_todo. *)
Uploads(row, rq) ==
    IF row.status = "none"
    THEN [row EXCEPT !.status = "received", !.rev = 1, !.sound = rq.sound] ELSE row
UploadReply(row, rq) ==
    IF row.status # "none" /\ row.sound # rq.sound THEN Reply(409, "none", 0)
    ELSE Reply(200, Uploads(row, rq).status, Uploads(row, rq).rev)

(* todo_result. *)
ResultReply(row, rq) ==
    CASE row.status = "none" -> Reply(404, "none", 0)
      [] row.status # "none" /\ row.rev <= rq.item.rev -> Reply(204, "none", 0)
      [] row.status \in {"received", "processing"} /\ row.rev > rq.item.rev -> Reply(202, "none", 0)
      [] OTHER -> Reply(200, row.status, row.rev)

(* todo_action: what it did is kept in the transaction that does it.       *)
Known(row, rq) == [state |-> rq.item.state, rev |-> rq.item.rev] \in row.answers
Acts(row, rq) ==
    IF Known(row, rq) \/ row.rev # rq.item.rev \/ row.status # "ready" THEN row
    ELSE [row EXCEPT !.status = IF rq.item.state = "confirm_pending" THEN "confirmed" ELSE "cancelled",
                     !.rev = @ + 1,
                     !.entries = @ + (IF rq.item.state = "confirm_pending" THEN 1 ELSE 0),
                     !.answers = @ \union {[state |-> rq.item.state, rev |-> rq.item.rev]}]
ActionReply(row, rq) ==
    IF Known(row, rq) \/ (row.rev = rq.item.rev /\ row.status = "ready")
    THEN Reply(200, "acted", rq.item.rev + 1)
    ELSE Reply(409, "none", IF row.rev # rq.item.rev THEN row.rev ELSE 0)

Serves(row, rq) ==
    CASE rq.item.state = "queued" -> Uploads(row, rq)
      [] rq.item.state = "uploaded" -> row
      [] OTHER -> Acts(row, rq)
ReplyTo(row, rq) ==
    CASE rq.item.state = "queued" -> UploadReply(row, rq)
      [] rq.item.state = "uploaded" -> ResultReply(row, rq)
      [] OTHER -> ActionReply(row, rq)
ServeRow(rq) ==
    /\ rows' = [rows EXCEPT ![rq.item.id] = Serves(@, rq)]
    /\ task' = [task EXCEPT ![rq.item.id] = IF rows[rq.item.id].status = "none" THEN "due" ELSE @]

Serve ==
    /\ call.step = "sent"
    /\ ServeRow(call)
    /\ LET reply == ReplyTo(rows[call.item.id], call)
       IN  call' = [call EXCEPT !.step = "answered", !.code = reply.code,
                                !.status = reply.status, !.rev = reply.rev]
    /\ UNCHANGED <<cardVars, captureVars, wish, late, faults>>
ServeLate ==
    /\ \E rq \in late : late' = late \ {rq} /\ ServeRow(rq)
    /\ UNCHANGED <<cardVars, captureVars, wish, call, faults>>
GivenUp == [NoCall EXCEPT !.item = call.item, !.step = "lost"]
Lose ==
    /\ \/ call.step \in {"sent", "answered"} /\ Fault("lost") /\ UNCHANGED late
       \/ call.step = "sent" /\ call.item.state # "uploaded" /\ Fault("late") /\ late' = late \union {call}
    /\ call' = GivenUp
    /\ UNCHANGED <<cardVars, captureVars, wish, rows, task>>

(* process_todo, before and after it waits for the transcript.             *)
StartTask ==
    /\ \E t \in Todos :
          /\ task[t] = "due"
          /\ task' = [task EXCEPT ![t] = IF rows[t].status \in {"received", "processing"} THEN "asr" ELSE "none"]
          /\ rows' = IF rows[t].status \notin {"received", "processing"} THEN rows
                     ELSE [rows EXCEPT ![t].status = "processing", ![t].rev = @ + 1]
    /\ UNCHANGED <<cardVars, captureVars, wish, call, late, faults>>
Understand ==
    /\ \E t \in Todos :
          /\ task[t] = "asr" /\ task' = [task EXCEPT ![t] = "none"]
          /\ \/ rows' = [rows EXCEPT ![t].status = "ready", ![t].rev = @ + 1] /\ UNCHANGED faults
             \/ rows' = [rows EXCEPT ![t].status = "failed", ![t].rev = @ + 1] /\ Fault("asr")
    /\ UNCHANGED <<cardVars, captureVars, wish, call, late>>
(* main.py starts process_todo again for every row that waits for it.      *)
(* Wrong variant of Resumable: a row being processed is not started again.  *)
ResumableNew == {"received"}
Resumable == {"received", "processing"}
Restart ==
    /\ Fault("restart")
    /\ task' = [t \in Todos |-> IF rows[t].status \in Resumable THEN "due" ELSE "none"]
    /\ UNCHANGED <<cardVars, captureVars, wish, call, late, rows>>

-----------------------------------------------------------------------------
(* Power. *)

PowerFails ==
    /\ on /\ Fault("power")
    /\ on' = FALSE /\ latest' = NoItem
    /\ IF capture.step = "none" THEN UNCHANGED wav
       ELSE \E n \in 0 .. wav[capture.id] : wav' = [wav EXCEPT ![capture.id] = n]
    /\ capture' = [NoCapture EXCEPT !.id = capture.id]
    /\ tapping' = FALSE /\ ring' = 0 /\ token' = FALSE /\ waiting' = FALSE
    /\ call' = NoCall
    /\ UNCHANGED <<disk, heard, taken, told, wish, serverVars>>

(* agenda_todo_init: captures that were cut off are queued with the sound  *)
(* that is there (all of them, unless a file operation fails or power does *)
(* again); the newest to-do is the latest.                                  *)
Recovered(t) == IF wav[t] > 0 THEN "queued" ELSE "failed"
CutOff == {t \in Todos : disk[t].state = "capturing"}
StartUp ==
    /\ ~on /\ on' = TRUE
    /\ \E done \in SUBSET CutOff :
          /\ disk' = [t \in Todos |-> IF t \in done THEN [disk[t] EXCEPT !.state = Recovered(t)] ELSE disk[t]]
          /\ \/ done = CutOff /\ UNCHANGED faults
             \/ done # CutOff /\ Fault("sd")
          /\ LET known == {t \in Todos : disk[t].state # "none"}
             IN  latest' = IF known = {} THEN NoItem
                           ELSE [id |-> Max(known), rev |-> disk[Max(known)].rev,
                                 state |-> IF Max(known) \in CutOff \ done THEN "failed"
                                           ELSE disk'[Max(known)].state]
    /\ UNCHANGED <<captureVars, wish, call, serverVars>>

-----------------------------------------------------------------------------
Init ==
    /\ on = TRUE
    /\ disk = [t \in Todos |-> [state |-> "none", rev |-> 0]]
    /\ wav = [t \in Todos |-> 0] /\ heard = [t \in Todos |-> 0] /\ taken = [t \in Todos |-> 0]
    /\ tapping = FALSE
    /\ capture = NoCapture /\ ring = 0 /\ token = FALSE /\ waiting = FALSE
    /\ told = [t \in Todos |-> "none"] /\ wish = [t \in Todos |-> "none"]
    /\ latest = NoItem /\ call = NoCall /\ late = {}
    /\ rows = [t \in Todos |-> NoRow] /\ task = [t \in Todos |-> "none"]
    /\ faults = 0

Capture == Begin \/ Hear \/ Send \/ Write \/ End \/ Close \/ Ended \/ TimedOut
Network == Turn \/ Receive
Server == Serve \/ ServeLate \/ StartTask \/ Understand
Next ==
    \/ Capture \/ Answer \/ Network \/ Server
    \/ Lose \/ Restart \/ PowerFails \/ StartUp

Spec == Init /\ [][Next]_vars
(* The tasks run, the server answers, the card is switched on again, the    *)
(* owner lets go of the key and answers what he is asked.                   *)
FairSpec ==
    /\ Spec
    /\ WF_vars(Write) /\ WF_vars(End) /\ WF_vars(Close) /\ WF_vars(Ended)
    /\ WF_vars(Network) /\ WF_vars(Serve) /\ WF_vars(StartTask) /\ WF_vars(Understand)
    /\ WF_vars(StartUp) /\ WF_vars(Answer)

-----------------------------------------------------------------------------
ItemType == [id : 0 .. Last, state : States, rev : Nat]
(* The type of the state.                                                   *)
TypeOK ==
    /\ on \in BOOLEAN /\ token \in BOOLEAN /\ waiting \in BOOLEAN /\ tapping \in BOOLEAN
    /\ disk \in [Todos -> [state : States, rev : Nat]]
    /\ wav \in [Todos -> 0 .. Room] /\ heard \in [Todos -> 0 .. MaxHeard] /\ taken \in [Todos -> Nat]
    /\ ring \in 0 .. RingRoom
    /\ capture \in [id : 0 .. Last, step : {"none", "active", "closing"}, state : States, error : BOOLEAN]
    /\ told \in [Todos -> {"none", "saved", "failed"}]
    /\ wish \in [Todos -> {"none"} \union Pending]
    /\ latest \in ItemType
    /\ call.item \in ItemType /\ call.step \in {"none", "sent", "answered", "lost"}
    /\ \A t \in Todos : task[t] \in {"none", "due", "asr"} /\ rows[t].entries \in Nat
    /\ faults \in 0 .. MaxFaults

(* "Saved" is kept: a to-do whose owner was told so when the key was        *)
(* released has on the card all the sound its ring took before the writer   *)
(* closed it, up to the room there is, and only the server's own failure    *)
(* makes it a failed one - whatever is lost, refused or interrupted on the  *)
(* way.  (Not all the sound that was heard: AllHeardIsKept.)                *)
SavedIsKept ==
    \A t \in Todos : told[t] = "saved" =>
        /\ disk[t].state \notin {"none", "capturing"}
        /\ wav[t] = Min({taken[t], Room})
        /\ disk[t].state = "failed" => rows[t].status = "failed"

(* As the owner takes it: a to-do he was told is saved has all the sound    *)
(* heard while he held the key, up to the room.  The code does not do it:   *)
(* a piece sent after the writer has closed is lost, or becomes part of     *)
(* the next to-do.                                                          *)
AllHeardIsKept == \A t \in Todos : told[t] = "saved" => wav[t] = Min({heard[t], Room})

(* While a capture lasts, what the tap was called with has got into the     *)
(* ring.  The code does not do it: a full ring takes nothing, and the tap   *)
(* does not look at what its send returns.                                  *)
RingTakesAll == capture.step # "none" /\ ~tapping => taken[capture.id] = heard[capture.id]

(* The network task writes back the whole item it read before its request: *)
(* nobody else has changed that item meanwhile, neither the owner's answer *)
(* nor the writer.                                                          *)
OneOwner == call.step # "none" => Item(call.item.id) = call.item

(* A to-do has at most one entry in the agenda and only if the owner        *)
(* confirmed it; it is "created" on the card only when the entry exists,    *)
(* and one that is cancelled has none.                                      *)
OneEntry ==
    \A t \in Todos :
        /\ rows[t].entries <= 1
        /\ rows[t].entries = 1 => wish[t] = "confirm_pending"
        /\ disk[t].state = "created" => rows[t].entries = 1
        /\ disk[t].state = "cancelled" => rows[t].entries = 0

(* What was queued is resolved: the owner is asked, or it ends.             *)
Resolved ==
    \A t \in Todos :
        disk[t].state = "queued" ~>
            disk[t].state \in {"needs_confirmation", "created", "cancelled", "failed"}

(* The state sequence the documentation gives: a to-do whose result has     *)
(* come is confirmed or cancelled by an owner who answers when asked.       *)
Answered ==
    \A t \in Todos : disk[t].state = "needs_confirmation" ~> disk[t].state # "needs_confirmation"
=============================================================================
