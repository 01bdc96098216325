------------------------------- MODULE Recorder -------------------------------
(***************************************************************************)
(* Recording from the key to the card: the application state machine       *)
(* (AppState), its event queue and timers, and the path of the recording   *)
(* (SessionWriter), whose events the queue carries, with the uploader that *)
(* may be the first to meet a fault of the card.  Where CardUi sees the    *)
(* session from outside, here the writer itself takes its steps.  The      *)
(* other overlays, the pairing and power losses are left out.              *)
(*                                                                         *)
(* Timing the code relies on, assumed here besides SessionWriter's: the    *)
(* writer, the highest priority of its core, goes from closing the session *)
(* to its last post without the application taking an event in between.    *)
(* The queue, of 32 slots in the source, never fills; KeySlots bounds how  *)
(* far the application may be behind keys and timers.                      *)
(***************************************************************************)
EXTENDS AppState, SessionWriter

CONSTANTS
  KeySlots,      \* bound: a key, timer or uploader posts below this length
  Uploader       \* the uploader reads the card too
ASSUME RecorderAssumption ==
  KeySlots \in Nat \ {0} /\ Uploader \in BOOLEAN

VARIABLES
  queue,     \* s_q
  scan       \* the uploader: "reads", "met" a fault, or has "told" it

session == <<audio, sess, w, fault, card, cur, seen, torn, faults>>
everything == <<uivars, session, posts, queue, scan>>

(* What the user and the battery post, and what may wait to be handled.    *)
Key == {<<"SHORT", "R">>, <<"SHORT", "M">>, <<"SHORT", "B">>, <<"LONG", "R">>,
        <<"BATTERY_CRITICAL", "-">>}
Waiting == Key \cup ({"TIMER"} \X Timer) \cup (Event \X {"-"})

RecorderTypeOK ==
  /\ UiTypeOK /\ TypeOK
  /\ queue \in Seq(Waiting)
  /\ scan \in {"reads", "met", "told"}

RecorderInit == UiInit /\ Init /\ queue = <<>> /\ scan = "reads"

Post(e) == Len(queue) < KeySlots /\ queue' = Append(queue, e)
Posted(q) == IF posts' = <<>> THEN q ELSE Append(q, <<posts'[1], "-">>)
Nothing == UNCHANGED session /\ posts' = <<>>
AppRests == UNCHANGED <<ui, armed>> /\ calls' = {}

-----------------------------------------------------------------------------
(* The hooks a handler calls, as calls of the session.  The bound on the   *)
(* number of sessions is one on the user, who then starts no other.        *)
Called(hook, result) == <<hook, result>> \in calls'
Refused == Nothing /\ (fault \/ sess.open \/ audio.mic # "off")

(* Wrong variant: the error is not looked at.                              *)
CloseStatusPlain == IF sess.open \/ ~sess.closed THEN "busy" ELSE "ok"

(* sd_session_close_status.                                                *)
CloseStatus ==
  IF sess.open \/ ~sess.closed THEN "busy" ELSE IF sess.error THEN "fail" ELSE "ok"

Hooks ==
  \/ Called("start_recording", "ok") /\ StartOk
  \/ Called("start_recording", "fail") /\ (StartFails \/ Refused)
  \/ Called("stop_recording", "ok") /\ Stop
  \/ Called("set_paused", "ok") /\ SetMuted(ui'.paused)
  \/ Called("mark_point", "ok") /\ (MarkFails \/ Nothing)
  \/ Called("close_status", CloseStatus) /\ Nothing
  \/ (Called("sync_request", "ok") \/ Called("sync_request", "fail")) /\ Nothing
  \/ calls' = {} /\ Nothing

Through == w.pc \notin {"closed", "report", "settle"}

Deliver ==
  /\ queue # <<>> /\ Through
  /\ Handle(Head(queue)) /\ Hooks
  /\ queue' = Posted(Tail(queue))
  /\ UNCHANGED scan

Press ==
  /\ \E e \in Key :
       Post(e) /\ (e = <<"SHORT", "R">> => cur < MaxSessions \/ ui.mode # "STANDBY")
  /\ AppRests /\ Nothing /\ UNCHANGED scan

Expire(t) ==
  /\ t \in armed /\ Post(<<"TIMER", t>>)
  /\ armed' = armed \ {t} /\ calls' = {}
  /\ Nothing /\ UNCHANGED <<ui, scan>>

Writes ==
  /\ WriterStep /\ queue' = Posted(queue)
  /\ AppRests /\ UNCHANGED scan

Captures ==
  Capture /\ AppRests /\ UNCHANGED <<queue, scan>>

(* The uploader meets a fault, or finds one that was met; then, once, it   *)
(* tells the application if a session is open (stop_for_storage_fault).    *)
Uploads ==
  /\ Uploader /\ scan = "reads" /\ scan' = "met"
  /\ ReportFault \/ (fault /\ Nothing)
  /\ AppRests /\ UNCHANGED queue

UploaderTells ==
  /\ scan = "met" /\ scan' = "told"
  /\ IF sess.open THEN Post(<<"STORAGE_ERROR", "-">>) ELSE UNCHANGED queue
  /\ AppRests /\ Nothing

RecorderNext ==
  \/ Deliver \/ Press \/ (\E t \in Timer : Expire(t))
  \/ Writes \/ Captures
  \/ Uploads \/ UploaderTells

RecorderSpec == RecorderInit /\ [][RecorderNext]_everything

(* The loop keeps taking events, the writer and the capture task run; a    *)
(* timer's event gets into the queue sooner or later.                      *)
RecorderFairness ==
  /\ WF_everything(Deliver) /\ WF_everything(Captures) /\ WF_everything(Writes)
  /\ \A t \in Timer : SF_everything(Expire(t))

FairRecorder == RecorderSpec /\ RecorderFairness

-----------------------------------------------------------------------------
(* "Saved" is shown only for a session that is closed, whole and on the    *)
(* card (STORAGE_SAFETY_DESIGN.md:7), whichever of CLOSE_DONE, a poll or a *)
(* late CLOSE_DONE after a timeout brought the page up.                    *)
SavedIsSaved ==
  ui.mode = "ENDING" =>
    ~sess.open /\ card[cur].man = "closed" /\ card[cur].synced = audio.queued

(* Off the recording page the microphone is off, and the home page is only *)
(* reached when the writer has let go of the session, so that the next one *)
(* can start (test_app_state.c:212: "still salvaging, cannot leave").      *)
HomeCanRecord ==
  /\ ui.mode # "RECORDING" => audio.mic = "off"
  /\ ui.mode = "STANDBY" => ~sess.open

(* What both rest on: events do not say of which session they are, so the  *)
(* next one must not start before the application has heard how the last   *)
(* one ended.  It needs a poll and two keys that are handled before it for *)
(* that to go wrong (Recorder_race.cfg, Recorder_saved.cfg).               *)
Ended == {"CLOSE_DONE", "SETTLED"}
OldNews == sess.open /\ \E i \in DOMAIN queue : queue[i][1] \in Ended

(* While the error page cannot be left, the session is still being         *)
(* salvaged or the news that it is not is on its way.  It holds only when  *)
(* the uploader never is the first to report: Recorder_uploader.cfg shows  *)
(* the page that stays for ever.                                           *)
Salvaging ==
  ui.mode = "STORAGE_ERROR" /\ ~ui.settled => sess.open \/ w.pc # "loop" \/ queue # <<>>

(* A recording that is being closed is saved or given up, and an error     *)
(* page can be left in the end; unless the uploader told of the fault: its *)
(* report may come after the last look the writer takes at the fault, and  *)
(* no SETTLED follows it (see Salvaging).                                  *)
CloseSettles ==
  (ui.mode = "CLOSING") ~> (ui.mode = "STANDBY" \/ ui.settled \/ scan = "told")
=============================================================================
