------------------------------- MODULE CardUi -------------------------------
(***************************************************************************)
(* The application state machine with everything around it: the event      *)
(* queue of app_main.c, the keys, the one-shot timers, the microphone      *)
(* (audio_pdm.c), the capture of a voice to-do (agenda_todo.c), and, seen  *)
(* from outside, the session on the card, the manual sync job, the pairing *)
(* of the network task and the agenda's alarms.                            *)
(*                                                                         *)
(* Sources says which of the outside parties act; a run takes those its    *)
(* question needs.  The queue never overflows here: a party that posts     *)
(* waits for room.                                                         *)
(***************************************************************************)
EXTENDS AppState, Sequences

CONSTANTS Sources,      \* outside parties that act
          QueueSlots    \* bound: events in the queue, 32 in the source

Source == {"todo", "sync", "alarm", "results", "pairing", "battery", "card"}
ASSUME SourceAssumption == Sources \subseteq Source
ASSUME QueueAssumption == QueueSlots \in Nat \ {0}

VARIABLES
  queue,     \* s_q
  held,      \* the MARK key is down and its long press was posted
  mic,       \* the I2S channel is enabled and capture_task feeds the ring
  muted,     \* s_muted: frames are not put into the ring of the recording
  capture,   \* s_capture.active
  ownMic,    \* s_todo_started_audio
  store,     \* the session on the card
  syncing,   \* s_manual_sync of the network task
  net        \* its pairing: s_pair.state, s_pair_requested, s_pairing_busy

sound == <<mic, muted, capture, ownMic>>
world == <<sound, store, syncing, net>>
vars == <<uivars, queue, held, world>>

Settled == {"none", "closed", "failed"}   \* no session open

(* The events of the queue that reach a handler here.                      *)
Event ==
  ({"SHORT", "LONG"} \X {"R", "M", "B"})
    \cup ({"TIMER"} \X Timer)
    \cup ({"SYNC_CHANGE"} \X {"RUNNING", "DONE", "FAILED"})
    \cup ({"PAIRING_CHANGE"} \X Pairing)
    \cup ({"TODO_RESULT"} \X TodoPage)
    \cup ({"MARK_RELEASE", "RTC_ALARM", "CLOSE_DONE", "SETTLED", "STORAGE_ERROR",
           "BATTERY_CRITICAL"} \X {"-"})

TypeOK ==
  /\ UiTypeOK
  /\ queue \in Seq(Event) /\ Len(queue) <= QueueSlots
  /\ {held, mic, muted, capture, ownMic, syncing} \subseteq BOOLEAN
  /\ store \in Settled \cup {"open", "broken", "closing"}
  /\ net \in [state : Pairing, requested : BOOLEAN, busy : BOOLEAN]

Init ==
  /\ UiInit
  /\ queue = <<>>
  /\ held = FALSE /\ mic = FALSE /\ muted = FALSE
  /\ capture = FALSE /\ ownMic = FALSE
  /\ store = "none" /\ syncing = FALSE
  /\ net = [state |-> "IDLE", requested |-> FALSE, busy |-> FALSE]

-----------------------------------------------------------------------------
(* What the hooks of app_main.c do to the other components.                *)
Called(hook, result) == <<hook, result>> \in calls'

(* hook_start_recording: the microphone first, then the session.  Enabling *)
(* an enabled channel is an error.                                         *)
StartRecordingHook ==
  /\ Called("start_recording", "ok") => ~mic /\ store \in Settled
  /\ Called("start_recording", "fail") => mic \/ store \notin Settled \/ "card" \in Sources

CaptureHooks ==
  /\ Called("capture_start", "ok") => ~capture /\ (store \in Settled => ~mic)
  /\ Called("capture_end", "ok") => capture

SyncHook == Called("sync_request", "ok") => "sync" \in Sources

CloseStatusHook ==
  /\ Called("close_status", "ok") => store = "closed"
  /\ Called("close_status", "fail") => store = "failed"
  /\ Called("close_status", "busy") => store \notin {"closed", "failed"}

Starts == Called("start_recording", "ok")
Stops == Called("stop_recording", "ok")
StartsCapture == Called("capture_start", "ok")
EndsCapture == Called("capture_end", "ok") \/ Called("capture_end", "fail")

HooksAct ==
  /\ StartRecordingHook /\ CaptureHooks /\ SyncHook /\ CloseStatusHook
  /\ ownMic' = IF StartsCapture THEN store \in Settled
               ELSE IF EndsCapture THEN FALSE ELSE ownMic
  /\ mic' = ((mic \/ Starts \/ (StartsCapture /\ store \in Settled))
               /\ ~Stops /\ ~(EndsCapture /\ ownMic))
  /\ muted' = IF Starts \/ (StartsCapture /\ store \in Settled) THEN FALSE
              ELSE IF Called("set_paused", "ok") THEN ui'.paused ELSE muted
  /\ capture' = ((capture \/ StartsCapture) /\ ~EndsCapture)
  /\ store' = IF Starts THEN "open"
              ELSE IF Stops /\ store = "open" THEN "closing" ELSE store
  /\ syncing' = (syncing \/ Called("sync_request", "ok"))
  /\ net' = IF Called("enter_pairing", "ok")
              THEN [net EXCEPT !.state = "JOINING", !.requested = TRUE]
            ELSE IF Called("exit_pairing", "ok")
              THEN [net EXCEPT !.state = "IDLE", !.requested = FALSE]
            ELSE net

(* The hooks of the network task answer with an event of their own.        *)
HookPosts ==
  IF Called("sync_request", "ok") THEN <<<<"SYNC_CHANGE", "RUNNING">>>>
  ELSE IF Called("enter_pairing", "ok") THEN <<<<"PAIRING_CHANGE", "JOINING">>>>
  ELSE IF Called("exit_pairing", "ok") /\ net.state # "IDLE"
         THEN <<<<"PAIRING_CHANGE", "IDLE">>>>
  ELSE <<>>

Deliver ==
  /\ queue # <<>>
  /\ Handle(Head(queue))
  /\ HooksAct
  /\ queue' = Tail(queue) \o HookPosts
  /\ UNCHANGED held

-----------------------------------------------------------------------------
Post(events) ==
  /\ Len(queue) + Len(events) <= QueueSlots
  /\ queue' = queue \o events

(* Posted by another task: the state machine itself does not move.         *)
Quiet == UNCHANGED <<ui, armed>> /\ calls' = {}

Press ==
  /\ \/ \E k \in {"R", "B"}, p \in {"SHORT", "LONG"} :
          Post(<<<<p, k>>>>) /\ UNCHANGED held
     \/ ~held /\ Post(<<<<"SHORT", "M">>>>) /\ UNCHANGED held
     \/ ~held /\ "todo" \in Sources /\ Post(<<<<"LONG", "M">>>>) /\ held' = TRUE
  /\ Quiet /\ UNCHANGED world

ReleaseMark ==
  /\ held /\ held' = FALSE
  /\ Post(<<<<"MARK_RELEASE", "-">>>>)
  /\ Quiet /\ UNCHANGED world

Expire(t) ==
  /\ t \in armed
  /\ Post(<<<<"TIMER", t>>>>)
  /\ armed' = armed \ {t} /\ calls' = {}
  /\ UNCHANGED <<ui, held, world>>

(* The manual sync job of the network task ends.                           *)
SyncEnds ==
  /\ syncing /\ syncing' = FALSE
  /\ \E s \in {"DONE", "FAILED"} : Post(<<<<"SYNC_CHANGE", s>>>>)
  /\ Quiet /\ UNCHANGED <<held, sound, store, net>>

Outside ==
  /\ \/ "alarm" \in Sources /\ Post(<<<<"RTC_ALARM", "-">>>>)
     \/ "results" \in Sources /\ \E p \in TodoPage : Post(<<<<"TODO_RESULT", p>>>>)
     \/ "battery" \in Sources /\ Post(<<<<"BATTERY_CRITICAL", "-">>>>)
  /\ Quiet /\ UNCHANGED <<held, world>>

(* The pairing task: a revoked token asks for a pairing, an exchange with  *)
(* the server runs while one is wanted and ends in a new state, also when  *)
(* the user left the pairing page in the meantime.                         *)
PairState(p, requested, busy) ==
  /\ net' = [state |-> p, requested |-> requested, busy |-> busy]
  /\ IF p = net.state THEN UNCHANGED queue ELSE Post(<<<<"PAIRING_CHANGE", p>>>>)
  /\ Quiet /\ UNCHANGED <<held, sound, store, syncing>>

Pairs ==
  /\ "pairing" \in Sources
  /\ \/ ~net.requested /\ PairState("JOINING", TRUE, net.busy)
     \/ net.requested /\ ~net.busy /\ PairState(net.state, TRUE, TRUE)
     \/ net.busy /\ \E p \in {"JOINING", "CLAIM_PENDING"} : PairState(p, net.requested, FALSE)
     \/ net.busy /\ net.state = "CLAIM_PENDING" /\ PairState("BOUND", FALSE, FALSE)

(* The writer of the card: it closes the session or fails to, or fails     *)
(* while recording and settles once the microphone has stopped.            *)
SessionCloses ==
  /\ store = "closing"
  /\ \/ store' = "closed" /\ Post(<<<<"CLOSE_DONE", "-">>>>)
     \/ /\ "card" \in Sources /\ store' = "failed"
        /\ Post(<<<<"STORAGE_ERROR", "-">>, <<"SETTLED", "-">>>>)
  /\ Quiet /\ UNCHANGED <<held, sound, syncing, net>>

SessionBreaks ==
  /\ "card" \in Sources
  /\ store = "open" /\ store' = "broken"
  /\ Post(<<<<"STORAGE_ERROR", "-">>>>)
  /\ Quiet /\ UNCHANGED <<held, sound, syncing, net>>

SessionSettles ==
  /\ store = "broken" /\ ~mic /\ store' = "failed"
  /\ Post(<<<<"SETTLED", "-">>>>)
  /\ Quiet /\ UNCHANGED <<held, sound, syncing, net>>

Next ==
  \/ Deliver
  \/ Press \/ ReleaseMark
  \/ \E t \in Timer : Expire(t)
  \/ SyncEnds \/ Outside \/ Pairs
  \/ SessionCloses \/ SessionBreaks \/ SessionSettles

Spec == Init /\ [][Next]_vars

(* The loop keeps taking events, and an expired timer, posted by the       *)
(* high-priority esp_timer task, gets a free slot sooner or later.  Nothing*)
(* is assumed of the card, the network or the user.                        *)
Fairness == WF_vars(Deliver) /\ \A t \in Timer : SF_vars(Expire(t))

FairSpec == Spec /\ Fairness

-----------------------------------------------------------------------------
(* The capture of a voice to-do lasts exactly as long as its page is up    *)
(* (V0_9_0_THREE_KEY_BASELINE.md:43: it ends when the key is released).    *)
(* An end of the manual sync replaces the page and the release is ignored. *)
CaptureFollowsPage == capture <=> ui.overlay = "TODO_LISTEN"

(* The microphone is on exactly while a session is recorded or a to-do     *)
(* captured, and frames are withheld exactly while the recording is paused.*)
MicHasUser ==
  /\ mic <=> ui.mode = "RECORDING" \/ capture
  /\ ui.mode = "RECORDING" => (muted <=> ui.paused)

(* A page that ends by itself has its timer running or already expired in  *)
(* the queue: most of them ignore the keys, so without it the card would   *)
(* be stuck.                                                               *)
Running(t) == t \in armed \/ \E i \in 1..Len(queue) : queue[i] = <<"TIMER", t>>

NoDeadPage ==
  /\ ui.overlay \in TimedPage => Running("OVERLAY")
  /\ ui.mode = "ENDING" => Running("ENDING")
  /\ ui.mode = "CLOSING" => Running("CLOSE_POLL")

(* An alarm that rings while a session is closed is shown after it, unless *)
(* the closing ends in an error.                                           *)
ReminderAfterClose ==
  (ui.mode \in {"CLOSING", "ENDING"} /\ ui.reminder)
    ~> (ui.overlay = "REMINDER" \/ ui.mode = "STORAGE_ERROR")

(* The timer that the page of a completed binding set brings the card home *)
(* (test_app_state.c:304-308).  In the program exit_pairing, called on     *)
(* BOUND, itself posts IDLE, and the timer then finds no BOUND.            *)
Takes(e) == Len(queue') < Len(queue) /\ Head(queue) = e
BoundReturnsHome ==
  [][Takes(<<"TIMER", "PAIRING">>) /\ ui.mode = "PAIRING"
       => ui'.mode = "STANDBY"]_vars

(* Under the key lock no key but the long BACK touches the recording,      *)
(* whatever page has come up over it: the page may take the key, but the   *)
(* recording goes on, is not paused and gets no mark.                      *)
RecordingHook == {"start_recording", "stop_recording", "set_paused",
                  "mark_point", "capture_start"}
LockedKeepsRecording ==
  [][ui.locked /\ (\E k \in {"R", "M"} : Takes(<<"SHORT", k>>) \/ Takes(<<"LONG", k>>))
       => /\ ui'.mode = ui.mode /\ ui'.paused = ui.paused
          /\ \A c \in calls' : c[1] \notin RecordingHook]_vars
=============================================================================
