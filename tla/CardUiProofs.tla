---------------------------- MODULE CardUiProofs ----------------------------
(***************************************************************************)
(* For every length of the event queue and every limit of the close polls: *)
(* the application state machine and what its hooks do to the microphone,  *)
(* the capture of a voice to-do and the session on the card.               *)
(***************************************************************************)
EXTENDS CardUi, SequenceTheorems, TLAPS

Fault == <<"STORAGE_ERROR", "-">>
SettledEvent == <<"SETTLED", "-">>
ClosedEvent == <<"CLOSE_DONE", "-">>
EndingOver == <<"TIMER", "ENDING">>

Unsettled == ui.mode = "STORAGE_ERROR" /\ ~ui.settled
SettledError == ui.mode = "STORAGE_ERROR" /\ ui.settled
AtHome == ui.mode \in {"STANDBY", "PAIRING"}

Calls(hook) == Called(hook, "ok") \/ Called(hook, "fail")

-----------------------------------------------------------------------------
(* What one handler may do, whatever event it handles.                     *)

(* The mode, the flag of the error page and the hooks of the recording.    *)
Moves(e) ==
  /\ ui'.mode = "RECORDING" => \/ ui.mode = "RECORDING"
                               \/ Called("start_recording", "ok")
  /\ Called("start_recording", "ok") =>
       ui.mode = "STANDBY" /\ ui'.mode = "RECORDING" /\ ~ui'.paused
  /\ Called("stop_recording", "ok") <=> ui.mode = "RECORDING" /\ ui'.mode # "RECORDING"
  /\ Called("stop_recording", "ok") => ui'.mode = "CLOSING" \/ Unsettled'
  /\ Called("capture_start", "ok") => ui.mode = "STANDBY" /\ ui'.mode = "STANDBY"
  /\ Called("set_paused", "ok") => ui.mode = "RECORDING" /\ ui'.mode = "RECORDING"
  /\ ui.mode = "RECORDING" /\ ui'.mode = "RECORDING" /\ ~Called("set_paused", "ok") =>
       ui'.paused = ui.paused
  /\ ui'.mode = "CLOSING" => /\ ui.mode \in {"CLOSING", "RECORDING"}
                             /\ \/ ui.mode = "CLOSING" /\ ui'.polls = ui.polls
                                \/ ui'.polls < ClosePollLimit
  /\ Unsettled' => Unsettled \/ ui.mode \in {"RECORDING", "CLOSING"}
  /\ SettledError' => \/ SettledError \/ ui.mode = "STANDBY"
                      \/ ui.mode = "CLOSING" /\ Called("close_status", "fail")
                      \/ Unsettled /\ e = SettledEvent
  /\ ui'.mode = "ENDING" => \/ ui.mode = "ENDING"
                            \/ ui.mode = "CLOSING" /\ Called("close_status", "ok")
                            \/ ui.mode \in {"CLOSING", "STORAGE_ERROR"} /\ e = ClosedEvent
  /\ AtHome' => AtHome \/ SettledError \/ (ui.mode = "ENDING" /\ e = EndingOver)
  /\ ui.mode = "ENDING" => (ui'.mode = "ENDING" <=> e # EndingOver)
  /\ e = Fault => /\ ui'.mode \notin {"RECORDING", "CLOSING"}
                  /\ SettledError \/ AtHome => ui'.mode = ui.mode

(* A page that ends by itself gets its timer, and no timer but that of the *)
(* close poll is ever taken back.                                          *)
Timers(e) ==
  /\ ui'.overlay \in TimedPage =>
       \/ "OVERLAY" \in armed'
       \/ ui.overlay \in TimedPage /\ e # <<"TIMER", "OVERLAY">>
  /\ ui'.mode = "ENDING" => "ENDING" \in armed' \/ ui.mode = "ENDING"
  /\ ui'.mode = "CLOSING" =>
       \/ "CLOSE_POLL" \in armed'
       \/ ui.mode = "CLOSING" /\ e # <<"TIMER", "CLOSE_POLL">>
  /\ armed \ {"CLOSE_POLL"} \subseteq armed'
  /\ ui'.mode = "CLOSING" => armed \subseteq armed'
  /\ "ENDING" \in armed' =>
       "ENDING" \in armed \/ (ui.mode # "ENDING" /\ ui'.mode = "ENDING")

(* The page of a capture and the hooks of the capture.                     *)
Captures(e) ==
  /\ Called("capture_start", "ok") => ui'.overlay = "TODO_LISTEN"
  /\ Calls("capture_end") <=> ui.overlay = "TODO_LISTEN" /\ e[1] = "MARK_RELEASE"
  /\ Calls("capture_end") => ui'.overlay # "TODO_LISTEN"
  /\ ui'.overlay = "TODO_LISTEN" /\ ui.overlay # "TODO_LISTEN" =>
       Called("capture_start", "ok")
  /\ ui.overlay = "TODO_LISTEN" /\ AtHome =>
       \/ ui'.overlay = "TODO_LISTEN" /\ AtHome'
       \/ e[1] \in {"MARK_RELEASE", "SYNC_CHANGE"}

(* The key lock ends with the recording, and under it a key starts none,   *)
(* stops, pauses or marks none and captures nothing.                       *)
Locks(e) ==
  /\ (ui.locked => ui.mode = "RECORDING") => (ui'.locked => ui'.mode = "RECORDING")
  /\ ui.locked /\ ui.mode = "RECORDING" /\ e \in {"SHORT", "LONG"} \X {"R", "M"} =>
       /\ ui'.mode = ui.mode /\ ui'.paused = ui.paused
       /\ \A c \in calls' : c[1] \notin RecordingHook

Effects(e) == UiTypeOK' /\ Moves(e) /\ Timers(e) /\ Captures(e) /\ Locks(e)

-----------------------------------------------------------------------------
LEMMA ScreenIs ==
  ASSUME ui \in Ui
  PROVE  /\ Screen = "ERROR" => SettledError
         /\ Screen \in {"STANDBY", "RECORDING", "PAIRING"} =>
              ui.mode = Screen /\ ui.overlay \in {"NONE", "LOCKED_HINT"}
         /\ Screen \in {"STANDBY", "RECORDING"} => ~ui.locked
         /\ Screen = "LOCKED" => /\ ui.locked /\ ui.mode \in {"STANDBY", "RECORDING"}
                                 /\ ui.overlay \in {"NONE", "LOCKED_HINT"}
         /\ Screen \in Overlay \ {"NONE", "LOCKED_HINT"} =>
              ui.overlay = Screen /\ ui.mode \in {"STANDBY", "RECORDING", "PAIRING"}
  BY DEF Screen, Ui, Mode, Overlay, TodoPage, TimedPage, SettledError

(* The transitions the handlers share.                                     *)
LEMMA ShowTodoIs ==
  ASSUME NEW u \in Ui
  PROVE  /\ ShowTodo(u) \in Ui /\ ShowTodo(u).overlay \in {u.overlay} \cup TodoPage
         /\ \A f \in {"mode", "settled", "paused", "locked", "polls"} : ShowTodo(u)[f] = u[f]
  BY DEF ShowTodo, Ui, Overlay, TodoPage

LEMMA ShowWaitingIs ==
  ASSUME NEW u \in Ui
  PROVE  /\ ShowWaiting(u) \in Ui
         /\ ShowWaiting(u).overlay \in {u.overlay, "REMINDER"} \cup TodoPage
         /\ \A f \in {"mode", "settled", "paused", "locked", "polls"} : ShowWaiting(u)[f] = u[f]
<1>1. CASE u.reminder
  BY <1>1 DEF ShowWaiting, ShowReminder, Ui, Overlay, TodoPage
<1>2. CASE ~u.reminder
  BY <1>2, ShowTodoIs DEF ShowWaiting
<1>. QED BY <1>1, <1>2

LEMMA HomeIs == ASSUME NEW u \in Ui PROVE Home(u) \in {"STANDBY", "PAIRING"}
  BY DEF Home

LEMMA ErroredIs ==
  ASSUME NEW u \in Ui, NEW error \in {"TIMEOUT", "OTHER"}, NEW settled \in BOOLEAN,
         NEW v, v = Errored(u, error, settled)
  PROVE  /\ v \in Ui /\ v.mode = "STORAGE_ERROR" /\ v.settled = settled
         /\ v.overlay = "NONE" /\ ~v.locked
  BY DEF Errored, Ui, Mode, Overlay

LEMMA NoPolls == 0 \in 0..ClosePollLimit
  BY PollAssumption

LEMMA StartRecIs ==
  ASSUME NEW u \in Ui, NEW hooks, StartRec(u, hooks)
  PROVE  /\ ui' \in Ui
         /\ ~ui'.locked /\ ui'.overlay \in {"NONE"} \cup TodoPage
         /\ \/ /\ ui'.mode = "RECORDING" /\ ~ui'.paused
               /\ calls' = hooks \cup {<<"start_recording", "ok">>} /\ armed' = armed
            \/ /\ ui'.mode = "STORAGE_ERROR" /\ ui'.settled
               /\ calls' = hooks \cup {<<"start_recording", "fail">>}
               /\ armed' = armed \ {"CLOSE_POLL"}
<1> DEFINE s == [u EXCEPT !.error = "NONE", !.overlay = "NONE", !.paused = FALSE,
                          !.locked = FALSE, !.settled = FALSE, !.polls = 0]
           r == [s EXCEPT !.mode = "RECORDING"]
<1>1. s \in Ui /\ s.overlay = "NONE" /\ ~s.paused /\ ~s.locked
  <2>1. s \in Ui
    BY NoPolls DEF Ui, Overlay
  <2> QED BY <2>1 DEF Ui
<1>2. r \in Ui /\ r.overlay = "NONE" /\ ~r.paused /\ ~r.locked /\ r.mode = "RECORDING"
  <2> HIDE DEF s
  <2> QED BY <1>1 DEF Ui, Mode
<1>3. CASE Become(ShowTodo(r), hooks \cup {<<"start_recording", "ok">>}, armed)
  <2> HIDE DEF r
  <2> QED BY <1>2, <1>3, ShowTodoIs DEF Become
<1>4. CASE Become(Errored(s, "OTHER", TRUE), hooks \cup {<<"start_recording", "fail">>},
                  armed \ {"CLOSE_POLL"})
  <2> HIDE DEF s
  <2> QED BY <1>1, <1>4, ErroredIs DEF Become
<1>. QED BY <1>3, <1>4 DEF StartRec

LEMMA BeginCloseIs ==
  ASSUME ui \in Ui, BeginClose
  PROVE  /\ ui' \in Ui /\ ui'.mode = "CLOSING" /\ ui'.overlay = "NONE" /\ ~ui'.locked
         /\ ui'.polls = 0
         /\ calls' = {<<"stop_recording", "ok">>} /\ armed' = armed \cup {"CLOSE_POLL"}
<1>1. ui' = [ui EXCEPT !.mode = "CLOSING", !.overlay = "NONE", !.locked = FALSE,
                      !.paused = FALSE, !.polls = 0]
  BY DEF BeginClose, Become
<1>2. ui' \in Ui
  BY <1>1, NoPolls DEF Ui, Mode, Overlay
<1>. QED BY <1>1, <1>2 DEF BeginClose, Become, Did, Ui

LEMMA CloseDoneIs ==
  ASSUME ui \in Ui, NEW hooks, CloseDone(hooks)
  PROVE  /\ ui' \in Ui /\ ui'.mode = "ENDING" /\ ui'.overlay = ui.overlay
         /\ ui'.locked = ui.locked
         /\ calls' = hooks /\ armed' = (armed \ {"CLOSE_POLL"}) \cup {"ENDING"}
  BY DEF CloseDone, Become, Ui, Mode

LEMMA EnterErrorIs ==
  ASSUME ui \in Ui, NEW settled \in BOOLEAN, NEW hooks, EnterError("OTHER", settled, hooks)
  PROVE  /\ ui' \in Ui /\ ui'.mode = "STORAGE_ERROR" /\ ui'.settled = settled
         /\ ui'.overlay = "NONE" /\ ~ui'.locked
         /\ calls' = hooks /\ armed' = armed \ {"CLOSE_POLL"}
  BY ErroredIs DEF EnterError, Become

LEMMA ShowTimedIs ==
  ASSUME ui \in Ui, NEW page \in TimedPage, NEW hooks, ShowTimed(ui, page, hooks)
  PROVE  /\ ui' \in Ui /\ ui'.overlay = page
         /\ \A f \in {"mode", "settled", "paused", "locked", "polls"} : ui'[f] = ui[f]
         /\ calls' = hooks /\ armed' = armed \cup {"OVERLAY"}
  BY DEF ShowTimed, Timed, Become, Ui, Overlay, TimedPage

-----------------------------------------------------------------------------
(* What every handler does.  A handler that changes none of mode, error    *)
(* page, pause and lock and calls no hook of a recording or a capture has  *)
(* nothing to show but its page and its timer.                             *)
RecordingOrCapture == RecordingHook \cup {"capture_end", "close_status"}

Stays ==
  /\ ui' \in Ui
  /\ \A f \in {"mode", "settled", "paused", "locked", "polls"} : ui'[f] = ui[f]
  /\ calls' \subseteq (Hook \ RecordingOrCapture) \X {"ok", "fail", "busy"}
  /\ armed \subseteq armed' /\ armed' \subseteq armed \cup {"OVERLAY"}

LEMMA StaysDoes ==
  ASSUME UiTypeOK, NEW e \in Event, Stays,
         e[1] = "MARK_RELEASE" => ui.overlay # "TODO_LISTEN",
         e = Fault => ui.mode \notin {"RECORDING", "CLOSING"},
         e = <<"TIMER", "CLOSE_POLL">> => ui.mode # "CLOSING",
         e = EndingOver => ui.mode # "ENDING",
         ui'.overlay = ui.overlay \/ ui'.overlay \in Overlay \ (TimedPage \cup {"TODO_LISTEN"})
           \/ (ui'.overlay \in TimedPage /\ "OVERLAY" \in armed'),
         e = <<"TIMER", "OVERLAY">> => ui'.overlay \notin TimedPage,
         ui.overlay = "TODO_LISTEN" => ui'.overlay = "TODO_LISTEN" \/ e[1] = "SYNC_CHANGE"
  PROVE  Effects(e)
<1>1. \A h \in RecordingOrCapture : \A r : <<h, r>> \notin calls'
  BY DEF Stays
<1>2. \A h \in RecordingOrCapture : ~Calls(h)
  BY <1>1 DEF Calls, Called
<1>3. /\ ~Called("start_recording", "ok") /\ ~Called("stop_recording", "ok")
      /\ ~Called("capture_start", "ok") /\ ~Called("set_paused", "ok") /\ ~Calls("capture_end")
  BY <1>1, <1>2 DEF Called, RecordingOrCapture, RecordingHook
<1>4. /\ ui'.polls = ui.polls
      /\ ui'.mode = ui.mode /\ ui'.settled = ui.settled /\ ui'.paused = ui.paused
      /\ ui'.locked = ui.locked /\ armed \subseteq armed' /\ armed' \subseteq armed \cup {"OVERLAY"}
      /\ Unsettled' = Unsettled /\ SettledError' = SettledError /\ AtHome' = AtHome
  BY DEF Stays, Unsettled, SettledError, AtHome
<1>5. UiTypeOK'
  BY <1>4 DEF Stays, UiTypeOK, Timer
<1>6. Moves(e)
  BY <1>3, <1>4 DEF Moves, Fault, ClosedEvent, SettledEvent, EndingOver
<1>7. Timers(e)
  BY <1>4 DEF Timers
<1>8. Captures(e)
  BY <1>3, <1>4 DEF Captures, TimedPage
<1>9. Locks(e)
  <2>1. \A c \in calls' : c[1] \notin RecordingHook
    BY DEF Stays, RecordingOrCapture
  <2> QED BY <1>4, <2>1 DEF Locks
<1>. QED BY <1>5, <1>6, <1>7, <1>8, <1>9 DEF Effects

(* Nothing of the handled event reaches the state machine.                 *)
LEMMA IgnoreDoes ==
  ASSUME UiTypeOK, NEW e \in Event, Ignore,
         e[1] = "MARK_RELEASE" => ui.overlay # "TODO_LISTEN",
         e = Fault => ui.mode \notin {"RECORDING", "CLOSING"},
         e = <<"TIMER", "CLOSE_POLL">> => ui.mode # "CLOSING",
         e = EndingOver => ui.mode # "ENDING",
         e = <<"TIMER", "OVERLAY">> => ui.overlay \notin TimedPage
  PROVE  Effects(e)
<1>1. ui' = ui /\ calls' = {} /\ armed' = armed
  BY DEF Ignore, Show, Become
<1>2. Stays
  BY <1>1 DEF Stays, UiTypeOK
<1>. QED BY <1>1, <1>2, StaysDoes

(* A key or a timer of its own kind is none of the other events.           *)
LEMMA KeyIsKey ==
  ASSUME NEW e \in Event, e[1] \in {"SHORT", "LONG"}
  PROVE  /\ e[1] \notin {"MARK_RELEASE", "SYNC_CHANGE", "TIMER"}
         /\ e \notin {Fault, SettledEvent, ClosedEvent, EndingOver,
                      <<"TIMER", "OVERLAY">>, <<"TIMER", "CLOSE_POLL">>}
         /\ e[2] \in {"R", "M", "B"} /\ e = <<e[1], e[2]>>
  BY DEF Event, Fault, SettledEvent, ClosedEvent, EndingOver

(* A key that only changes the page.                                       *)
LEMMA PageKeyDoes ==
  ASSUME UiTypeOK, NEW e \in Event, e[1] \in {"SHORT", "LONG"}, ui.overlay # "TODO_LISTEN", Stays,
         \/ ui'.overlay = ui.overlay
         \/ ui'.overlay \in Overlay \ (TimedPage \cup {"TODO_LISTEN"})
         \/ ui'.overlay \in TimedPage /\ "OVERLAY" \in armed'
  PROVE  Effects(e)
  BY KeyIsKey, StaysDoes, Zenon

-----------------------------------------------------------------------------
(* The keys.                                                               *)
LEMMA LeaveErrorDoes ==
  ASSUME UiTypeOK, NEW e \in Event, e[1] = "SHORT", LeaveError PROVE Effects(e)
<1> DEFINE u == [ui EXCEPT !.mode = Home(ui), !.error = "NONE"]
<1>1. SettledError /\ ui.mode = "STORAGE_ERROR"
  BY ScreenIs DEF LeaveError, UiTypeOK, SettledError
<1>2. u \in Ui /\ u.mode \in {"STANDBY", "PAIRING"} /\ u.overlay = ui.overlay /\ u.locked = ui.locked
  BY HomeIs DEF UiTypeOK, Ui, Mode
<1>3. ui' = ShowTodo(u) /\ calls' = {} /\ armed' = armed
  BY DEF LeaveError, Show, Become
<1> HIDE DEF u
<1>4. /\ ui' \in Ui /\ ui'.mode \in {"STANDBY", "PAIRING"}
      /\ ui'.overlay \in {ui.overlay} \cup TodoPage /\ ui'.locked = ui.locked
  BY <1>2, <1>3, ShowTodoIs
<1>5. ~Called("start_recording", "ok") /\ \A h, r : ~Called(h, r) /\ ~Calls(h)
  BY <1>3 DEF Called, Calls
<1>6. Moves(e)
  BY <1>1, <1>4, <1>5, KeyIsKey DEF Moves, AtHome, SettledError, Unsettled
<1>7. Timers(e) /\ Captures(e)
  BY <1>1, <1>3, <1>4, <1>5, KeyIsKey DEF Timers, Captures, AtHome, TodoPage, TimedPage
<1>8. Locks(e)
  BY <1>1, <1>3, <1>4 DEF Locks
<1>9. UiTypeOK'
  BY <1>3, <1>4 DEF UiTypeOK
<1>. QED BY <1>6, <1>7, <1>8, <1>9 DEF Effects

LEMMA SyncConfirmKeyDoes ==
  ASSUME UiTypeOK, NEW e \in Event, e[1] = "SHORT", NEW k, SyncConfirmKey(k) PROVE Effects(e)
<1>1. ui.overlay = "SYNC_CONFIRM"
  BY ScreenIs DEF SyncConfirmKey, UiTypeOK, Overlay, TodoPage, TimedPage
<1>2. Stays /\ ui'.overlay \in {"SYNC_PROGRESS", "SYNC_FAILED", "NONE"}
  BY DEF SyncConfirmKey, Show, Become, Stays, UiTypeOK, Ui, Overlay, Hook, RecordingOrCapture, RecordingHook
<1>. QED BY <1>1, <1>2, PageKeyDoes DEF Overlay, TimedPage, TodoPage

LEMMA DismissPageDoes ==
  ASSUME UiTypeOK, NEW e \in Event, e[1] = "SHORT", DismissPage PROVE Effects(e)
<1>1. ui.overlay # "TODO_LISTEN"
  BY ScreenIs DEF DismissPage, UiTypeOK, Overlay, TodoPage, TimedPage
<1>2. Stays /\ ui'.overlay = "NONE"
  BY DEF DismissPage, Show, Become, Stays, UiTypeOK, Ui, Overlay
<1>. QED BY <1>1, <1>2, PageKeyDoes DEF Overlay, TimedPage, TodoPage

LEMMA TodoConfirmKeyDoes ==
  ASSUME UiTypeOK, NEW e \in Event, e[1] = "SHORT", TodoConfirmKey PROVE Effects(e)
<1>1. ui.overlay # "TODO_LISTEN"
  BY ScreenIs DEF TodoConfirmKey, UiTypeOK, Overlay, TodoPage, TimedPage
<1>2. CASE ShowTimed(ui, "TODO_OK", {<<"todo_action", "ok">>})
  <2>1. Stays /\ ui'.overlay = "TODO_OK" /\ "OVERLAY" \in armed'
    BY <1>2, ShowTimedIs DEF Stays, UiTypeOK, TimedPage, Hook, RecordingOrCapture, RecordingHook
  <2> QED BY <1>1, <2>1, PageKeyDoes DEF TimedPage
<1>3. CASE Become([ui EXCEPT !.overlay = "TODO_FAILED"], {<<"todo_action", "fail">>}, armed)
  <2>1. Stays /\ ui'.overlay = "TODO_FAILED"
    BY <1>3 DEF Become, Stays, UiTypeOK, Ui, Overlay, TodoPage, Hook, RecordingOrCapture, RecordingHook
  <2> QED BY <1>1, <2>1, PageKeyDoes DEF Overlay, TimedPage, TodoPage
<1>. QED BY <1>2, <1>3 DEF TodoConfirmKey

(* Recording is started on the home page, by a key.                        *)
LEMMA StartRecDoes ==
  ASSUME UiTypeOK, NEW e \in Event, e[1] = "SHORT", NEW u \in Ui,
         NEW hooks \in SUBSET {<<"reminder_action", "ok">>}, StartRec(u, hooks),
         ui.mode = "STANDBY", ui.overlay # "TODO_LISTEN"
  PROVE  Effects(e)
<1>1. /\ e[1] \notin {"MARK_RELEASE", "SYNC_CHANGE", "TIMER"}
      /\ e \notin {Fault, SettledEvent, ClosedEvent, EndingOver,
                   <<"TIMER", "OVERLAY">>, <<"TIMER", "CLOSE_POLL">>}
  BY KeyIsKey
<1>2. ui' \in Ui /\ ~ui'.locked /\ ui'.overlay \in {"NONE"} \cup TodoPage
  BY StartRecIs
<1>3. CASE /\ ui'.mode = "RECORDING" /\ ~ui'.paused
           /\ calls' = hooks \cup {<<"start_recording", "ok">>} /\ armed' = armed
  <2>1. /\ Called("start_recording", "ok") /\ ~Called("stop_recording", "ok")
        /\ ~Called("capture_start", "ok") /\ ~Called("set_paused", "ok") /\ ~Calls("capture_end")
    BY <1>3 DEF Called, Calls
  <2>2. Moves(e)
    BY <1>1, <1>3, <2>1 DEF Moves, AtHome, SettledError, Unsettled
  <2>3. Timers(e) /\ Captures(e)
    BY <1>1, <1>2, <1>3, <2>1 DEF Timers, Captures, TodoPage, TimedPage
  <2>4. Locks(e) /\ UiTypeOK'
    BY <1>2, <1>3 DEF Locks, UiTypeOK, Hook
  <2> QED BY <2>2, <2>3, <2>4 DEF Effects
<1>4. CASE /\ ui'.mode = "STORAGE_ERROR" /\ ui'.settled
           /\ calls' = hooks \cup {<<"start_recording", "fail">>}
           /\ armed' = armed \ {"CLOSE_POLL"}
  <2>1. /\ ~Called("start_recording", "ok") /\ ~Called("stop_recording", "ok")
        /\ ~Called("capture_start", "ok") /\ ~Called("set_paused", "ok") /\ ~Calls("capture_end")
    BY <1>4 DEF Called, Calls
  <2>2. Moves(e)
    BY <1>1, <1>4, <2>1 DEF Moves, AtHome, SettledError, Unsettled
  <2>3. Timers(e) /\ Captures(e)
    BY <1>1, <1>2, <1>4, <2>1 DEF Timers, Captures, TodoPage, TimedPage
  <2>4. Locks(e) /\ UiTypeOK'
    BY <1>2, <1>4 DEF Locks, UiTypeOK, Hook
  <2> QED BY <2>2, <2>3, <2>4 DEF Effects
<1>. QED BY <1>3, <1>4, StartRecIs

(* A recording is stopped by a long REC or an empty battery.               *)
LEMMA BeginCloseDoes ==
  ASSUME UiTypeOK, NEW e \in Event, BeginClose, ui.mode = "RECORDING",
         e[1] = "BATTERY_CRITICAL" \/ (e[1] = "LONG" /\ ~ui.locked)
  PROVE  Effects(e)
<1>1. /\ e[1] \notin {"MARK_RELEASE", "SYNC_CHANGE", "TIMER", "CLOSE_DONE", "SETTLED", "STORAGE_ERROR"}
      /\ e \notin {Fault, SettledEvent, ClosedEvent, EndingOver,
                   <<"TIMER", "OVERLAY">>, <<"TIMER", "CLOSE_POLL">>}
  BY DEF Fault, SettledEvent, ClosedEvent, EndingOver
<1>2. /\ ui' \in Ui /\ ui'.mode = "CLOSING" /\ ui'.overlay = "NONE" /\ ~ui'.locked
      /\ ui'.polls < ClosePollLimit
      /\ calls' = {<<"stop_recording", "ok">>} /\ armed' = armed \cup {"CLOSE_POLL"}
  BY BeginCloseIs, PollAssumption DEF UiTypeOK
<1>3. /\ ~Called("start_recording", "ok") /\ Called("stop_recording", "ok")
      /\ ~Called("capture_start", "ok") /\ ~Called("set_paused", "ok") /\ ~Calls("capture_end")
  BY <1>2 DEF Called, Calls
<1>4. Moves(e)
  BY <1>1, <1>2, <1>3 DEF Moves, AtHome, SettledError, Unsettled
<1>5. Timers(e) /\ Captures(e)
  BY <1>1, <1>2, <1>3 DEF Timers, Captures, TimedPage, AtHome
<1>6. Locks(e) /\ UiTypeOK'
  <2>1. UiTypeOK' BY <1>2 DEF UiTypeOK, Hook, Timer
  <2>2. ~(ui.locked /\ e \in {"SHORT", "LONG"} \X {"R", "M"}) BY DEF Event
  <2> QED BY <1>2, <2>1, <2>2 DEF Locks
<1>. QED BY <1>4, <1>5, <1>6 DEF Effects

LEMMA ReminderShortDoes ==
  ASSUME UiTypeOK, NEW e \in Event, e[1] = "SHORT", NEW k, ReminderShort(k) PROVE Effects(e)
<1> DEFINE closed == [ui EXCEPT !.overlay = "NONE"]
<1>1. ui.overlay = "REMINDER"
  BY ScreenIs DEF ReminderShort, UiTypeOK, Overlay, TodoPage, TimedPage
<1>2. /\ closed \in Ui /\ closed.overlay = "NONE"
      /\ \A f \in {"mode", "settled", "paused", "locked", "polls"} : closed[f] = ui[f]
  BY DEF UiTypeOK, Ui, Overlay
<1>3. CASE ui.mode = "STANDBY" /\ StartRec(closed, Did("reminder_action"))
  BY <1>1, <1>2, <1>3, StartRecDoes DEF Did
<1>4. CASE Become(closed, Did("reminder_action"), armed)
  <2>1. Stays /\ ui'.overlay = "NONE"
    <3> HIDE DEF closed
    <3> QED BY <1>2, <1>4 DEF Become, Did, Stays, Hook, RecordingOrCapture, RecordingHook
  <2> QED BY <1>1, <2>1, PageKeyDoes DEF Overlay, TodoPage, TimedPage
<1>5. CASE Become(ShowTodo(closed), Did("reminder_action"), armed)
  <2>1. Stays /\ ui'.overlay \in {"NONE"} \cup TodoPage
    <3> HIDE DEF closed
    <3>1. ui' = ShowTodo(closed) /\ calls' = {<<"reminder_action", "ok">>} /\ armed' = armed
      BY <1>5 DEF Become, Did
    <3>2. ui' \in Ui /\ \A f \in {"mode", "settled", "paused", "locked", "polls"} : ui'[f] = ui[f]
      BY <1>2, <3>1, ShowTodoIs
    <3> QED BY <1>2, <3>1, <3>2, ShowTodoIs DEF Stays, Hook, RecordingOrCapture, RecordingHook
  <2> QED BY <1>1, <2>1, PageKeyDoes DEF Overlay, TodoPage, TimedPage
<1>. QED BY <1>3, <1>4, <1>5 DEF ReminderShort

LEMMA LeavePairingDoes ==
  ASSUME UiTypeOK, NEW e \in Event, e[1] = "SHORT", LeavePairing PROVE Effects(e)
<1>1. ui.mode = "PAIRING" /\ ui.overlay \in {"NONE", "LOCKED_HINT"}
  BY ScreenIs DEF LeavePairing, UiTypeOK
<1>2. CASE Ignore
  BY <1>1, <1>2, IgnoreDoes, KeyIsKey
<1>3. CASE Become(ShowTodo([ui EXCEPT !.mode = "STANDBY", !.pairing = "IDLE"]),
                  Did("exit_pairing"), armed)
  <2> DEFINE u == [ui EXCEPT !.mode = "STANDBY", !.pairing = "IDLE"]
  <2>1. u \in Ui /\ u.mode = "STANDBY" /\ u.overlay = ui.overlay /\ u.locked = ui.locked
    BY DEF UiTypeOK, Ui, Mode, Pairing
  <2> HIDE DEF u
  <2>2. ui' = ShowTodo(u) /\ calls' = {<<"exit_pairing", "ok">>} /\ armed' = armed
    BY <1>3 DEF Become, Did, u
  <2>3. /\ ui' \in Ui /\ ui'.mode = "STANDBY"
        /\ ui'.overlay \in {ui.overlay} \cup TodoPage /\ ui'.locked = ui.locked
    BY <2>1, <2>2, ShowTodoIs
  <2>4. /\ ~Called("start_recording", "ok") /\ ~Called("stop_recording", "ok")
        /\ ~Called("capture_start", "ok") /\ ~Called("set_paused", "ok") /\ ~Calls("capture_end")
    BY <2>2 DEF Called, Calls
  <2>5. Moves(e)
    BY <1>1, <2>3, <2>4, KeyIsKey DEF Moves, AtHome, SettledError, Unsettled
  <2>6. Timers(e) /\ Captures(e)
    BY <1>1, <2>2, <2>3, <2>4, KeyIsKey DEF Timers, Captures, TodoPage, TimedPage
  <2>7. Locks(e) /\ UiTypeOK'
    BY <1>1, <2>2, <2>3 DEF Locks, UiTypeOK, Hook
  <2> QED BY <2>5, <2>6, <2>7 DEF Effects
<1>. QED BY <1>2, <1>3 DEF LeavePairing

LEMMA ShowLockedHintDoes ==
  ASSUME UiTypeOK, NEW e \in Event, e[1] \in {"SHORT", "LONG"}, Screen = "LOCKED",
         ShowTimed(ui, "LOCKED_HINT", {})
  PROVE  Effects(e)
<1>1. ui.overlay # "TODO_LISTEN"
  BY ScreenIs DEF UiTypeOK
<1>2. Stays /\ ui'.overlay = "LOCKED_HINT" /\ "OVERLAY" \in armed'
  BY ShowTimedIs DEF Stays, UiTypeOK, TimedPage
<1>. QED BY <1>1, <1>2, PageKeyDoes DEF TimedPage

LEMMA RecordingShortDoes ==
  ASSUME UiTypeOK, NEW e \in Event, e[1] = "SHORT", NEW k, RecordingShort(k) PROVE Effects(e)
<1>1. ui.mode = "RECORDING" /\ ui.overlay \in {"NONE", "LOCKED_HINT"} /\ ~ui.locked
  BY ScreenIs DEF RecordingShort, UiTypeOK
<1>2. /\ ui' \in Ui /\ ui'.mode = "RECORDING" /\ ui'.overlay = ui.overlay /\ ~ui'.locked
      /\ armed' = armed
      /\ \/ calls' = {<<"set_paused", "ok">>}
         \/ calls' = {<<"mark_point", "ok">>} /\ ui'.paused = ui.paused
  BY <1>1 DEF RecordingShort, Become, Did, UiTypeOK, Ui
<1>3. /\ ~Called("start_recording", "ok") /\ ~Called("stop_recording", "ok")
      /\ ~Called("capture_start", "ok") /\ ~Calls("capture_end")
      /\ Called("set_paused", "ok") \/ ui'.paused = ui.paused
  BY <1>2 DEF Called, Calls
<1>4. Moves(e)
  BY <1>1, <1>2, <1>3, KeyIsKey DEF Moves, AtHome, SettledError, Unsettled
<1>5. Timers(e) /\ Captures(e)
  BY <1>1, <1>2, <1>3, KeyIsKey DEF Timers, Captures, TimedPage
<1>6. Locks(e) /\ UiTypeOK'
  BY <1>1, <1>2 DEF Locks, UiTypeOK, Hook
<1>. QED BY <1>4, <1>5, <1>6 DEF Effects

LEMMA ShortPressDoes ==
  ASSUME UiTypeOK, NEW e \in Event, e[1] = "SHORT", ShortPress(e[2]) PROVE Effects(e)
<1>1. CASE Ignore
  BY <1>1, IgnoreDoes, KeyIsKey
<1>2. CASE e[2] = "R" /\ StandbyRec
  <2>1. ui.mode = "STANDBY" /\ ui.overlay # "TODO_LISTEN"
    BY <1>2, ScreenIs DEF StandbyRec, UiTypeOK
  <2> QED BY <1>2, <2>1, StartRecDoes DEF StandbyRec, UiTypeOK
<1>3. CASE ShowLockedHint
  BY <1>3, ShowLockedHintDoes DEF ShowLockedHint
<1>. QED
  BY <1>1, <1>2, <1>3, LeaveErrorDoes, SyncConfirmKeyDoes, DismissPageDoes, TodoConfirmKeyDoes,
     ReminderShortDoes, LeavePairingDoes, RecordingShortDoes DEF ShortPress

LEMMA TodoHoldDoes ==
  ASSUME UiTypeOK, NEW e \in Event, e[1] = "LONG", TodoHold PROVE Effects(e)
<1>1. ui.mode = "STANDBY" /\ ui.overlay \in {"NONE", "LOCKED_HINT"} /\ ~ui.locked
  BY ScreenIs DEF TodoHold, UiTypeOK
<1>2. /\ ui' \in Ui /\ ui'.mode = "STANDBY" /\ ~ui'.locked /\ armed' = armed
      /\ \/ ui'.overlay = "TODO_LISTEN" /\ calls' = {<<"capture_start", "ok">>}
         \/ ui'.overlay = "TODO_FAILED" /\ calls' = {<<"capture_start", "fail">>}
  BY <1>1 DEF TodoHold, Become, UiTypeOK, Ui, Overlay, TodoPage
<1>3. /\ ~Called("start_recording", "ok") /\ ~Called("stop_recording", "ok")
      /\ ~Called("set_paused", "ok") /\ ~Calls("capture_end")
      /\ Called("capture_start", "ok") <=> ui'.overlay = "TODO_LISTEN"
  BY <1>2 DEF Called, Calls
<1>4. Moves(e)
  BY <1>1, <1>2, <1>3, KeyIsKey DEF Moves, AtHome, SettledError, Unsettled
<1>5. Timers(e) /\ Captures(e)
  BY <1>1, <1>2, <1>3, KeyIsKey DEF Timers, Captures, TimedPage
<1>6. Locks(e) /\ UiTypeOK'
  BY <1>1, <1>2 DEF Locks, UiTypeOK, Hook
<1>. QED BY <1>4, <1>5, <1>6 DEF Effects

LEMMA SnoozeDoes ==
  ASSUME UiTypeOK, NEW e \in Event, e[1] = "LONG", Snooze PROVE Effects(e)
<1>1. ui.overlay = "REMINDER"
  BY ScreenIs DEF Snooze, UiTypeOK, Overlay, TodoPage, TimedPage
<1>2. Stays /\ ui'.overlay = "SNOOZED" /\ "OVERLAY" \in armed'
  BY ShowTimedIs DEF Snooze, Did, Stays, UiTypeOK, TimedPage, Hook, RecordingOrCapture, RecordingHook
<1>. QED BY <1>1, <1>2, PageKeyDoes DEF TimedPage

LEMMA LockedLongDoes ==
  ASSUME UiTypeOK, NEW e \in Event, e[1] = "LONG", LockedLong(e[2]) PROVE Effects(e)
<1>1. ui.mode \in {"STANDBY", "RECORDING"} /\ ui.overlay \in {"NONE", "LOCKED_HINT"} /\ Screen = "LOCKED"
  BY ScreenIs DEF LockedLong, UiTypeOK
<1>2. CASE e[2] # "B"
  BY <1>1, <1>2, ShowLockedHintDoes DEF LockedLong
<1>3. CASE e[2] = "B"
  <2> DEFINE u == [ui EXCEPT !.locked = FALSE, !.overlay = "NONE"]
  <2>1. /\ u \in Ui /\ u.mode = ui.mode /\ u.overlay = "NONE" /\ ~u.locked
        /\ u.paused = ui.paused /\ u.settled = ui.settled
    BY DEF UiTypeOK, Ui, Overlay
  <2> HIDE DEF u
  <2>2. ui' = ShowTodo(u) /\ calls' = {} /\ armed' = armed
    BY <1>3 DEF LockedLong, Show, Become, u
  <2>3. /\ ui' \in Ui /\ ui'.mode = ui.mode /\ ui'.paused = ui.paused /\ ui'.settled = ui.settled
        /\ ui'.overlay \in {"NONE"} \cup TodoPage /\ ~ui'.locked
    BY <2>1, <2>2, ShowTodoIs
  <2>4. /\ ~Called("start_recording", "ok") /\ ~Called("stop_recording", "ok")
        /\ ~Called("capture_start", "ok") /\ ~Called("set_paused", "ok") /\ ~Calls("capture_end")
    BY <2>2 DEF Called, Calls
  <2>5. Moves(e)
    BY <1>1, <2>3, <2>4, KeyIsKey DEF Moves, AtHome, SettledError, Unsettled
  <2>6. Timers(e) /\ Captures(e)
    BY <1>1, <2>2, <2>3, <2>4, KeyIsKey DEF Timers, Captures, TodoPage, TimedPage
  <2>7. Locks(e) /\ UiTypeOK'
    BY <2>2, <2>3 DEF Locks, UiTypeOK
  <2> QED BY <2>5, <2>6, <2>7 DEF Effects
<1>. QED BY <1>2, <1>3

LEMMA StandbyLongDoes ==
  ASSUME UiTypeOK, NEW e \in Event, e[1] = "LONG", NEW k, StandbyLong(k) PROVE Effects(e)
<1>1. ui.mode = "STANDBY" /\ ui.overlay \in {"NONE", "LOCKED_HINT"} /\ ~ui.locked
  BY ScreenIs DEF StandbyLong, UiTypeOK
<1>2. CASE Show([ui EXCEPT !.overlay = "SYNC_CONFIRM"])
  <2>1. Stays /\ ui'.overlay = "SYNC_CONFIRM"
    BY <1>2 DEF Show, Become, Stays, UiTypeOK, Ui, Overlay
  <2> QED BY <1>1, <2>1, PageKeyDoes DEF Overlay, TodoPage, TimedPage
<1>3. CASE Become([ui EXCEPT !.mode = "PAIRING"], Did("enter_pairing"), armed)
  <2>1. /\ ui' \in Ui /\ ui'.mode = "PAIRING" /\ ui'.overlay = ui.overlay /\ ~ui'.locked
        /\ armed' = armed /\ calls' = {<<"enter_pairing", "ok">>}
    BY <1>1, <1>3 DEF Become, Did, UiTypeOK, Ui, Mode
  <2>2. /\ ~Called("start_recording", "ok") /\ ~Called("stop_recording", "ok")
        /\ ~Called("capture_start", "ok") /\ ~Called("set_paused", "ok") /\ ~Calls("capture_end")
    BY <2>1 DEF Called, Calls
  <2>3. Moves(e)
    BY <1>1, <2>1, <2>2, KeyIsKey DEF Moves, AtHome, SettledError, Unsettled
  <2>4. Timers(e) /\ Captures(e)
    BY <1>1, <2>1, <2>2, KeyIsKey DEF Timers, Captures, TimedPage
  <2>5. Locks(e) /\ UiTypeOK'
    BY <1>1, <2>1 DEF Locks, UiTypeOK, Hook
  <2> QED BY <2>3, <2>4, <2>5 DEF Effects
<1>. QED BY <1>2, <1>3, TodoHoldDoes DEF StandbyLong

LEMMA RecordingLongDoes ==
  ASSUME UiTypeOK, NEW e \in Event, e[1] = "LONG", RecordingLong(e[2]) PROVE Effects(e)
<1>1. ui.mode = "RECORDING" /\ ui.overlay \in {"NONE", "LOCKED_HINT"} /\ ~ui.locked
  BY ScreenIs DEF RecordingLong, UiTypeOK
<1>2. CASE BeginClose
  BY <1>1, <1>2, BeginCloseDoes
<1>3. CASE e[2] = "B" /\ Show([ui EXCEPT !.locked = TRUE, !.overlay = "NONE"])
  <2>1. /\ ui' \in Ui /\ ui'.mode = "RECORDING" /\ ui'.overlay = "NONE"
        /\ ui'.paused = ui.paused /\ armed' = armed /\ calls' = {}
    BY <1>1, <1>3 DEF Show, Become, UiTypeOK, Ui, Overlay
  <2>2. /\ ~Called("start_recording", "ok") /\ ~Called("stop_recording", "ok")
        /\ ~Called("capture_start", "ok") /\ ~Called("set_paused", "ok") /\ ~Calls("capture_end")
    BY <2>1 DEF Called, Calls
  <2>3. Moves(e)
    BY <1>1, <2>1, <2>2, KeyIsKey DEF Moves, AtHome, SettledError, Unsettled
  <2>4. Timers(e) /\ Captures(e)
    BY <1>1, <2>1, <2>2, KeyIsKey DEF Timers, Captures, TimedPage
  <2>5. Locks(e) /\ UiTypeOK'
    BY <1>1, <2>1 DEF Locks, UiTypeOK
  <2> QED BY <2>3, <2>4, <2>5 DEF Effects
<1>. QED BY <1>2, <1>3 DEF RecordingLong

LEMMA LongPressDoes ==
  ASSUME UiTypeOK, NEW e \in Event, e[1] = "LONG", LongPress(e[2]) PROVE Effects(e)
<1>1. CASE Ignore
  BY <1>1, IgnoreDoes, KeyIsKey
<1>. QED
  BY <1>1, SnoozeDoes, LockedLongDoes, StandbyLongDoes, RecordingLongDoes DEF LongPress

LEMMA TodoReleaseDoes ==
  ASSUME UiTypeOK, NEW e \in Event, e[1] = "MARK_RELEASE", TodoRelease PROVE Effects(e)
<1>1. /\ e \notin {Fault, SettledEvent, ClosedEvent, EndingOver,
                   <<"TIMER", "OVERLAY">>, <<"TIMER", "CLOSE_POLL">>}
      /\ e \notin {"SHORT", "LONG"} \X {"R", "M"}
  BY DEF Fault, SettledEvent, ClosedEvent, EndingOver
<1>2. CASE Ignore /\ ui.overlay # "TODO_LISTEN"
  BY <1>1, <1>2, IgnoreDoes
<1>3. CASE ui.overlay = "TODO_LISTEN"
  <2>1. /\ ui' \in Ui /\ \A f \in {"mode", "settled", "paused", "locked", "polls"} : ui'[f] = ui[f]
        /\ \/ /\ ui'.overlay = "TODO_OK" /\ armed' = armed \cup {"OVERLAY"}
              /\ calls' = {<<"capture_end", "ok">>, <<"mark_point", "ok">>}
           \/ /\ ui'.overlay = "TODO_FAILED" /\ armed' = armed
              /\ calls' = {<<"capture_end", "fail">>}
    <3>1. CASE ShowTimed(ui, "TODO_OK", {<<"capture_end", "ok">>, <<"mark_point", "ok">>})
      BY <3>1, ShowTimedIs DEF UiTypeOK, TimedPage
    <3>2. CASE Become([ui EXCEPT !.overlay = "TODO_FAILED"], {<<"capture_end", "fail">>}, armed)
      BY <3>2 DEF Become, UiTypeOK, Ui, Overlay, TodoPage
    <3> QED BY <1>3, <3>1, <3>2 DEF TodoRelease
  <2>2. /\ ~Called("start_recording", "ok") /\ ~Called("stop_recording", "ok")
        /\ ~Called("capture_start", "ok") /\ ~Called("set_paused", "ok") /\ Calls("capture_end")
    BY <2>1 DEF Called, Calls
  <2>3. Moves(e)
    BY <1>1, <2>1, <2>2 DEF Moves, AtHome, SettledError, Unsettled
  <2>4. Timers(e) /\ Captures(e)
    BY <1>1, <1>3, <2>1, <2>2 DEF Timers, Captures, TimedPage
  <2>5. Locks(e)
    BY <1>1, <2>1 DEF Locks
  <2>6. UiTypeOK'
    <3>1. calls' \subseteq Hook \X {"ok", "fail", "busy"}
      BY <2>1 DEF Hook
    <3>2. armed' \subseteq Timer
      BY <2>1 DEF UiTypeOK, Timer
    <3> QED BY <2>1, <3>1, <3>2 DEF UiTypeOK
  <2> QED BY <2>3, <2>4, <2>5, <2>6 DEF Effects
<1>. QED BY <1>2, <1>3 DEF TodoRelease

-----------------------------------------------------------------------------
(* The timers and the events of the other tasks.                           *)
LEMMA RtcAlarmDoes ==
  ASSUME UiTypeOK, NEW e \in Event, e[1] = "RTC_ALARM", RtcAlarm PROVE Effects(e)
<1>1. Stays /\ (ui'.overlay = ui.overlay \/ (ui'.overlay = "REMINDER" /\ ui.overlay # "TODO_LISTEN"))
  BY DEF RtcAlarm, Show, ShowReminder, Become, Stays, UiTypeOK, Ui, Overlay
<1>2. e[1] \notin {"MARK_RELEASE", "SYNC_CHANGE"} /\ e # Fault /\ e # EndingOver
      /\ e # <<"TIMER", "CLOSE_POLL">> /\ e # <<"TIMER", "OVERLAY">>
  BY DEF Fault, EndingOver
<1>. QED BY <1>1, <1>2, StaysDoes DEF Overlay, TimedPage, TodoPage

LEMMA OnPairingDoes ==
  ASSUME UiTypeOK, NEW e \in Event, e = <<"TIMER", "PAIRING">>, OnPairing PROVE Effects(e)
<1>1. /\ e[1] = "TIMER"
      /\ e \notin {Fault, SettledEvent, ClosedEvent, EndingOver,
                   <<"TIMER", "OVERLAY">>, <<"TIMER", "CLOSE_POLL">>}
      /\ e \notin {"SHORT", "LONG"} \X {"R", "M"}
  BY DEF Fault, SettledEvent, ClosedEvent, EndingOver
<1>2. CASE Ignore
  BY <1>1, <1>2, IgnoreDoes
<1>3. CASE ui.mode = "PAIRING" /\ Show([ui EXCEPT !.mode = "STANDBY"])
  <2>1. /\ ui' \in Ui /\ ui'.mode = "STANDBY" /\ ui'.overlay = ui.overlay /\ ui'.locked = ui.locked
        /\ calls' = {} /\ armed' = armed
    BY <1>3 DEF Show, Become, UiTypeOK, Ui, Mode
  <2>2. /\ ~Called("start_recording", "ok") /\ ~Called("stop_recording", "ok")
        /\ ~Called("capture_start", "ok") /\ ~Called("set_paused", "ok") /\ ~Calls("capture_end")
    BY <2>1 DEF Called, Calls
  <2>3. Moves(e)
    BY <1>1, <1>3, <2>1, <2>2 DEF Moves, AtHome, SettledError, Unsettled
  <2>4. Timers(e) /\ Captures(e)
    BY <1>1, <1>3, <2>1, <2>2 DEF Timers, Captures, TimedPage, AtHome
  <2>5. Locks(e) /\ UiTypeOK'
    BY <1>1, <1>3, <2>1 DEF Locks, UiTypeOK
  <2> QED BY <2>3, <2>4, <2>5 DEF Effects
<1>. QED BY <1>2, <1>3 DEF OnPairing

(* The mode leaves CLOSING or the error page for ENDING.                   *)
LEMMA CloseDoneDoes ==
  ASSUME UiTypeOK, NEW e \in Event, ui' \in Ui, ui'.mode = "ENDING", ui'.overlay = ui.overlay,
         ui'.locked = ui.locked,
         calls' \in {{}, {<<"close_status", "ok">>}},
         armed' \in {(armed \ {"CLOSE_POLL"}) \cup {"ENDING"}, armed \cup {"ENDING"}},
         \/ ui.mode = "CLOSING" /\ Called("close_status", "ok") /\ e = <<"TIMER", "CLOSE_POLL">>
         \/ ui.mode \in {"CLOSING", "STORAGE_ERROR"} /\ e = ClosedEvent
  PROVE  Effects(e)
<1>1. /\ e[1] \notin {"MARK_RELEASE", "SYNC_CHANGE"} /\ e \notin {Fault, SettledEvent, EndingOver,
                   <<"TIMER", "OVERLAY">>}
      /\ e \notin {"SHORT", "LONG"} \X {"R", "M"}
  BY DEF Fault, SettledEvent, ClosedEvent, EndingOver
<1>2. /\ ~Called("start_recording", "ok") /\ ~Called("stop_recording", "ok")
      /\ ~Called("capture_start", "ok") /\ ~Called("set_paused", "ok") /\ ~Calls("capture_end")
  BY DEF Called, Calls
<1>3. ui.mode \in {"CLOSING", "STORAGE_ERROR"}
  OBVIOUS
<1>4. Moves(e)
  BY <1>1, <1>2, <1>3 DEF Moves, AtHome, SettledError, Unsettled
<1>5. Timers(e) /\ Captures(e)
  BY <1>1, <1>2, <1>3 DEF Timers, Captures, AtHome
<1>6. Locks(e)
  BY <1>1, <1>3 DEF Locks
<1>7. UiTypeOK'
  BY DEF UiTypeOK, Hook, Timer
<1>. QED BY <1>4, <1>5, <1>6, <1>7 DEF Effects

(* The recording or its closing ends on the error page.                    *)
LEMMA EnterErrorDoes ==
  ASSUME UiTypeOK, NEW e \in Event, ui' \in Ui, ui'.mode = "STORAGE_ERROR",
         ui'.overlay = "NONE", ~ui'.locked, armed' = armed \ {"CLOSE_POLL"},
         \/ /\ ui.mode = "RECORDING" /\ e = Fault /\ ~ui'.settled
            /\ calls' = {<<"stop_recording", "ok">>}
         \/ /\ ui.mode = "CLOSING" /\ e = Fault /\ ~ui'.settled /\ calls' = {}
         \/ /\ ui.mode = "CLOSING" /\ e = <<"TIMER", "CLOSE_POLL">> /\ ui'.settled
            /\ calls' = {<<"close_status", "fail">>}
         \/ /\ ui.mode = "CLOSING" /\ e = <<"TIMER", "CLOSE_POLL">> /\ ~ui'.settled
            /\ calls' = {<<"close_status", "busy">>}
  PROVE  Effects(e)
<1>1. /\ e[1] \notin {"MARK_RELEASE", "SYNC_CHANGE"} /\ e \notin {SettledEvent, EndingOver,
                   ClosedEvent, <<"TIMER", "OVERLAY">>}
      /\ e \notin {"SHORT", "LONG"} \X {"R", "M"}
  BY DEF Fault, SettledEvent, ClosedEvent, EndingOver
<1>2. /\ ~Called("start_recording", "ok")
      /\ Called("stop_recording", "ok") <=> ui.mode = "RECORDING"
      /\ ~Called("capture_start", "ok") /\ ~Called("set_paused", "ok") /\ ~Calls("capture_end")
      /\ ui'.settled <=> Called("close_status", "fail")
  BY DEF Called, Calls
<1>3. ui.mode \in {"CLOSING", "RECORDING"}
  OBVIOUS
<1>4. Moves(e)
  BY <1>1, <1>2, <1>3 DEF Moves, AtHome, SettledError, Unsettled
<1>5. Timers(e) /\ Captures(e)
  BY <1>1, <1>2, <1>3 DEF Timers, Captures, AtHome, TimedPage
<1>6. Locks(e)
  BY <1>1, <1>3 DEF Locks
<1>7. UiTypeOK'
  BY DEF UiTypeOK, Hook, Timer
<1>. QED BY <1>4, <1>5, <1>6, <1>7 DEF Effects

(* In CLOSING a poll is left.                                              *)
PollsLeft == ui.mode = "CLOSING" => ui.polls < ClosePollLimit

LEMMA OnClosePollDoes ==
  ASSUME UiTypeOK, PollsLeft, NEW e \in Event, e = <<"TIMER", "CLOSE_POLL">>, OnClosePoll
  PROVE  Effects(e)
<1>1. /\ e[1] = "TIMER" /\ e \notin {Fault, SettledEvent, ClosedEvent, EndingOver, <<"TIMER", "OVERLAY">>}
      /\ e \notin {"SHORT", "LONG"} \X {"R", "M"}
  BY DEF Fault, SettledEvent, ClosedEvent, EndingOver
<1> DEFINE polled == [ui EXCEPT !.polls = @ + 1]
<1>2. CASE ui.mode # "CLOSING" /\ Ignore
  BY <1>1, <1>2, IgnoreDoes
<1>3. CASE ui.mode = "CLOSING" /\ CloseDone({<<"close_status", "ok">>})
  <2>1. /\ ui' \in Ui /\ ui'.mode = "ENDING" /\ ui'.overlay = ui.overlay /\ ui'.locked = ui.locked
        /\ calls' = {<<"close_status", "ok">>} /\ armed' = (armed \ {"CLOSE_POLL"}) \cup {"ENDING"}
    BY <1>3, CloseDoneIs DEF UiTypeOK
  <2>2. Called("close_status", "ok") BY <2>1 DEF Called
  <2> QED BY <1>3, <2>1, <2>2, CloseDoneDoes
<1>4. CASE ui.mode = "CLOSING" /\ EnterError("OTHER", TRUE, {<<"close_status", "fail">>})
  <2>1. /\ ui' \in Ui /\ ui'.mode = "STORAGE_ERROR" /\ ui'.settled /\ ui'.overlay = "NONE" /\ ~ui'.locked
        /\ calls' = {<<"close_status", "fail">>} /\ armed' = armed \ {"CLOSE_POLL"}
    BY <1>4, EnterErrorIs DEF UiTypeOK
  <2> QED BY <1>4, <2>1, EnterErrorDoes
<1>5. ASSUME ui.mode = "CLOSING"
      PROVE  /\ polled \in Ui /\ polled.polls = ui.polls + 1 /\ ui.polls \in Nat
             /\ \A f \in {"mode", "settled", "paused", "locked", "overlay"} : polled[f] = ui[f]
  <2>1. ui.polls \in 0..ClosePollLimit /\ ui.polls + 1 \in 0..ClosePollLimit
    BY <1>5, PollAssumption DEF PollsLeft, UiTypeOK, Ui
  <2> QED BY <2>1 DEF UiTypeOK, Ui
<1>6. CASE /\ ui.mode = "CLOSING" /\ polled.polls >= ClosePollLimit
           /\ Become(Errored(polled, "TIMEOUT", FALSE), {<<"close_status", "busy">>},
                     armed \ {"CLOSE_POLL"})
  <2>1. polled \in Ui BY <1>5, <1>6
  <2> HIDE DEF polled
  <2>2. /\ ui' \in Ui /\ ui'.mode = "STORAGE_ERROR" /\ ~ui'.settled /\ ui'.overlay = "NONE" /\ ~ui'.locked
        /\ calls' = {<<"close_status", "busy">>} /\ armed' = armed \ {"CLOSE_POLL"}
    BY <1>6, <2>1, ErroredIs DEF Become
  <2> QED BY <1>6, <2>2, EnterErrorDoes
<1>7. CASE /\ ui.mode = "CLOSING" /\ ~(polled.polls >= ClosePollLimit)
           /\ Become(polled, {<<"close_status", "busy">>}, armed \cup {"CLOSE_POLL"})
  <2>1. /\ ui' = polled /\ calls' = {<<"close_status", "busy">>} /\ armed' = armed \cup {"CLOSE_POLL"}
    BY <1>7 DEF Become
  <2>2. /\ ui' \in Ui /\ \A f \in {"mode", "settled", "paused", "locked", "overlay"} : ui'[f] = ui[f]
        /\ ui'.polls < ClosePollLimit
    BY <1>5, <1>7, <2>1, PollAssumption
  <2> HIDE DEF polled
  <2>3. /\ ~Called("start_recording", "ok") /\ ~Called("stop_recording", "ok")
        /\ ~Called("capture_start", "ok") /\ ~Called("set_paused", "ok") /\ ~Calls("capture_end")
    BY <2>1 DEF Called, Calls
  <2>4. Moves(e)
    BY <1>1, <1>7, <2>2, <2>3 DEF Moves, AtHome, SettledError, Unsettled
  <2>5. Timers(e) /\ Captures(e)
    BY <1>1, <1>7, <2>1, <2>2, <2>3 DEF Timers, Captures, AtHome, TimedPage
  <2>6. Locks(e) /\ UiTypeOK'
    BY <1>1, <1>7, <2>1, <2>2 DEF Locks, UiTypeOK, Hook, Timer
  <2> QED BY <2>4, <2>5, <2>6 DEF Effects
<1>. QED BY <1>2, <1>3, <1>4, <1>6, <1>7 DEF OnClosePoll

LEMMA OnEndingDoes ==
  ASSUME UiTypeOK, NEW e \in Event, e = EndingOver, OnEnding PROVE Effects(e)
<1>1. /\ e[1] = "TIMER"
      /\ e \notin {Fault, SettledEvent, ClosedEvent, <<"TIMER", "OVERLAY">>, <<"TIMER", "CLOSE_POLL">>}
      /\ e \notin {"SHORT", "LONG"} \X {"R", "M"}
  BY DEF Fault, SettledEvent, ClosedEvent, EndingOver
<1>2. CASE ui.mode # "ENDING" /\ Ignore
  BY <1>1, <1>2, IgnoreDoes
<1>3. CASE ui.mode = "ENDING" /\ Show(ShowWaiting([ui EXCEPT !.mode = Home(ui)]))
  <2> DEFINE u == [ui EXCEPT !.mode = Home(ui)]
  <2>1. u \in Ui /\ u.mode \in {"STANDBY", "PAIRING"} /\ u.overlay = ui.overlay /\ u.locked = ui.locked
    BY HomeIs DEF UiTypeOK, Ui, Mode
  <2> HIDE DEF u
  <2>2. ui' = ShowWaiting(u) /\ calls' = {} /\ armed' = armed
    BY <1>3 DEF Show, Become, u
  <2>3. /\ ui' \in Ui /\ ui'.mode \in {"STANDBY", "PAIRING"} /\ ui'.locked = ui.locked
        /\ ui'.overlay \in {ui.overlay, "REMINDER"} \cup TodoPage
    BY <2>1, <2>2, ShowWaitingIs
  <2>4. /\ ~Called("start_recording", "ok") /\ ~Called("stop_recording", "ok")
        /\ ~Called("capture_start", "ok") /\ ~Called("set_paused", "ok") /\ ~Calls("capture_end")
    BY <2>2 DEF Called, Calls
  <2>5. Moves(e)
    BY <1>1, <1>3, <2>3, <2>4 DEF Moves, AtHome, SettledError, Unsettled
  <2>6. Timers(e) /\ Captures(e)
    BY <1>1, <1>3, <2>2, <2>3, <2>4 DEF Timers, Captures, TimedPage, TodoPage, AtHome
  <2>7. Locks(e) /\ UiTypeOK'
    BY <1>1, <1>3, <2>2, <2>3 DEF Locks, UiTypeOK
  <2> QED BY <2>5, <2>6, <2>7 DEF Effects
<1>. QED BY <1>2, <1>3 DEF OnEnding

LEMMA OnOverlayDoes ==
  ASSUME UiTypeOK, NEW e \in Event, e = <<"TIMER", "OVERLAY">>, OnOverlay PROVE Effects(e)
<1>1. e[1] = "TIMER" /\ e \notin {Fault, EndingOver, <<"TIMER", "CLOSE_POLL">>}
  BY DEF Fault, EndingOver
<1> DEFINE u == [ui EXCEPT !.overlay = "NONE"]
<1>2. /\ u \in Ui /\ u.overlay = "NONE"
      /\ \A f \in {"mode", "settled", "paused", "locked", "polls"} : u[f] = ui[f]
  BY DEF UiTypeOK, Ui, Overlay
<1>3. CASE ui.overlay \in {"SNOOZED", "TODO_OK"} /\ Show(ShowWaiting(u))
  <2> HIDE DEF u
  <2>1. ui' = ShowWaiting(u) /\ calls' = {} /\ armed' = armed
    BY <1>3 DEF Show, Become
  <2>2. Stays /\ ui'.overlay \in {"NONE", "REMINDER"} \cup TodoPage
    <3>1. ui' \in Ui /\ \A f \in {"mode", "settled", "paused", "locked", "polls"} : ui'[f] = ui[f]
      BY <1>2, <2>1, ShowWaitingIs
    <3> QED BY <1>2, <2>1, <3>1, ShowWaitingIs DEF Stays
  <2> QED BY <1>1, <1>3, <2>2, StaysDoes DEF Overlay, TimedPage, TodoPage
<1>4. CASE ui.overlay \in {"LOCKED_HINT", "SYNC_DONE"} /\ Show(u)
  <2> HIDE DEF u
  <2>1. ui' = u /\ calls' = {} /\ armed' = armed
    BY <1>4 DEF Show, Become
  <2>2. Stays /\ ui'.overlay = "NONE"
    BY <1>2, <2>1 DEF Stays
  <2> QED BY <1>1, <1>4, <2>2, StaysDoes DEF Overlay, TimedPage, TodoPage
<1>5. CASE ui.overlay \notin TimedPage /\ Ignore
  BY <1>1, <1>5, IgnoreDoes
<1>. QED BY <1>3, <1>4, <1>5 DEF OnOverlay, TimedPage

LEMMA OnTimerDoes ==
  ASSUME UiTypeOK, PollsLeft, NEW e \in Event, e[1] = "TIMER", OnTimer(e[2]) PROVE Effects(e)
<1>1. e = <<e[1], e[2]>>
  BY DEF Event
<1>. QED
  BY <1>1, OnPairingDoes, OnClosePollDoes, OnEndingDoes, OnOverlayDoes DEF OnTimer, EndingOver

LEMMA SessionCloseDoneDoes ==
  ASSUME UiTypeOK, NEW e \in Event, e[1] = "CLOSE_DONE", SessionCloseDone PROVE Effects(e)
<1>1. e = ClosedEvent
  BY DEF Event, ClosedEvent
<1>2. CASE ui.mode = "CLOSING" /\ CloseDone({})
  <2>1. /\ ui' \in Ui /\ ui'.mode = "ENDING" /\ ui'.overlay = ui.overlay /\ ui'.locked = ui.locked
        /\ calls' = {} /\ armed' = (armed \ {"CLOSE_POLL"}) \cup {"ENDING"}
    BY <1>2, CloseDoneIs DEF UiTypeOK
  <2> QED BY <1>1, <1>2, <2>1, CloseDoneDoes
<1>3. CASE ui.mode = "STORAGE_ERROR" /\ ui.error = "TIMEOUT" /\
           Become([ui EXCEPT !.mode = "ENDING", !.error = "NONE", !.settled = TRUE],
                  {}, armed \cup {"ENDING"})
  <2>1. /\ ui' \in Ui /\ ui'.mode = "ENDING" /\ ui'.overlay = ui.overlay /\ ui'.locked = ui.locked
        /\ calls' = {} /\ armed' = armed \cup {"ENDING"}
    BY <1>3 DEF Become, UiTypeOK, Ui, Mode
  <2> QED BY <1>1, <1>3, <2>1, CloseDoneDoes
<1>4. CASE Ignore
  BY <1>1, <1>4, IgnoreDoes DEF ClosedEvent, Fault, EndingOver
<1>. QED BY <1>2, <1>3, <1>4 DEF SessionCloseDone

LEMMA SessionSettledDoes ==
  ASSUME UiTypeOK, NEW e \in Event, e[1] = "SETTLED", SessionSettled PROVE Effects(e)
<1>1. e = SettledEvent /\ e \notin {Fault, ClosedEvent, EndingOver}
  BY DEF Event, Fault, SettledEvent, ClosedEvent, EndingOver
<1>2. CASE ui.mode # "STORAGE_ERROR" /\ Ignore
  BY <1>1, <1>2, IgnoreDoes
<1>3. CASE ui.mode = "STORAGE_ERROR" /\ Show([ui EXCEPT !.settled = TRUE])
  <2>1. /\ ui' \in Ui /\ ui'.mode = "STORAGE_ERROR" /\ ui'.settled /\ ui'.overlay = ui.overlay
        /\ ui'.locked = ui.locked /\ calls' = {} /\ armed' = armed
    BY <1>3 DEF Show, Become, UiTypeOK, Ui
  <2>2. /\ ~Called("start_recording", "ok") /\ ~Called("stop_recording", "ok")
        /\ ~Called("capture_start", "ok") /\ ~Called("set_paused", "ok") /\ ~Calls("capture_end")
    BY <2>1 DEF Called, Calls
  <2>3. Moves(e)
    BY <1>1, <1>3, <2>1, <2>2 DEF Moves, AtHome, SettledError, Unsettled
  <2>4. Timers(e) /\ Captures(e)
    BY <1>1, <1>3, <2>1, <2>2 DEF Timers, Captures, TimedPage, AtHome
  <2>5. Locks(e) /\ UiTypeOK'
    BY <1>1, <1>3, <2>1 DEF Locks, UiTypeOK
  <2> QED BY <2>3, <2>4, <2>5 DEF Effects
<1>. QED BY <1>2, <1>3 DEF SessionSettled

LEMMA StorageErrorDoes ==
  ASSUME UiTypeOK, NEW e \in Event, e[1] = "STORAGE_ERROR", StorageError PROVE Effects(e)
<1>1. e = Fault /\ e \notin {SettledEvent, ClosedEvent, EndingOver} /\ e[1] = "STORAGE_ERROR"
  BY DEF Event, Fault, SettledEvent, ClosedEvent, EndingOver
<1>2. CASE ui.mode = "RECORDING" /\ EnterError("OTHER", FALSE, Did("stop_recording"))
  <2>1. /\ ui' \in Ui /\ ui'.mode = "STORAGE_ERROR" /\ ~ui'.settled /\ ui'.overlay = "NONE" /\ ~ui'.locked
        /\ calls' = {<<"stop_recording", "ok">>} /\ armed' = armed \ {"CLOSE_POLL"}
    BY <1>2, EnterErrorIs DEF UiTypeOK, Did
  <2> QED BY <1>1, <1>2, <2>1, EnterErrorDoes
<1>3. CASE ui.mode = "CLOSING" /\ EnterError("OTHER", FALSE, {})
  <2>1. /\ ui' \in Ui /\ ui'.mode = "STORAGE_ERROR" /\ ~ui'.settled /\ ui'.overlay = "NONE" /\ ~ui'.locked
        /\ calls' = {} /\ armed' = armed \ {"CLOSE_POLL"}
    BY <1>3, EnterErrorIs DEF UiTypeOK
  <2> QED BY <1>1, <1>3, <2>1, EnterErrorDoes
<1>4. CASE Unsettled /\ Show([ui EXCEPT !.error = "OTHER"])
  <2>1. Stays /\ ui'.overlay = ui.overlay
    BY <1>4 DEF Show, Become, Stays, UiTypeOK, Ui
  <2>2. ui.mode \notin {"RECORDING", "CLOSING"}
    BY <1>4 DEF Unsettled
  <2> QED BY <1>1, <2>1, <2>2, StaysDoes DEF Fault
<1>5. CASE ui.mode \notin {"RECORDING", "CLOSING"} /\ Ignore
  BY <1>1, <1>5, IgnoreDoes DEF Fault
<1>. QED BY <1>2, <1>3, <1>4, <1>5 DEF StorageError, Unsettled

(* A pairing page comes up over the home page only.                        *)
LEMMA PairingChangeDoes ==
  ASSUME UiTypeOK, NEW e \in Event, e[1] = "PAIRING_CHANGE", PairingChange(e[2]) PROVE Effects(e)
<1>1. /\ e[2] \in Pairing /\ e \notin {Fault, SettledEvent, ClosedEvent, EndingOver,
                   <<"TIMER", "OVERLAY">>, <<"TIMER", "CLOSE_POLL">>}
      /\ e \notin {"SHORT", "LONG"} \X {"R", "M"}
  BY DEF Event, Fault, SettledEvent, ClosedEvent, EndingOver
<1> DEFINE paired == [ui EXCEPT !.pairing = e[2]]
<1>2. /\ paired \in Ui
      /\ \A f \in {"mode", "settled", "paused", "locked", "polls", "overlay"} : paired[f] = ui[f]
  BY <1>1 DEF UiTypeOK, Ui
<1>3. CASE Become(paired, Did("exit_pairing"), armed \cup {"PAIRING"}) \/ Show(paired)
  <2> HIDE DEF paired
  <2>1. /\ ui' = paired /\ \A h \in RecordingOrCapture : \A r : <<h, r>> \notin calls'
        /\ calls' \subseteq {<<"exit_pairing", "ok">>} /\ armed \subseteq armed'
        /\ armed' \subseteq armed \cup {"PAIRING"}
    BY <1>3 DEF Become, Show, Did, RecordingOrCapture, RecordingHook
  <2>2. /\ ~Called("start_recording", "ok") /\ ~Called("stop_recording", "ok")
        /\ ~Called("capture_start", "ok") /\ ~Called("set_paused", "ok") /\ ~Calls("capture_end")
    BY <2>1 DEF Called, Calls
  <2>3. Moves(e)
    BY <1>1, <1>2, <2>1, <2>2 DEF Moves, AtHome, SettledError, Unsettled
  <2>4. Timers(e) /\ Captures(e)
    BY <1>1, <1>2, <2>1, <2>2 DEF Timers, Captures, AtHome
  <2>5. Locks(e) /\ UiTypeOK'
    BY <1>1, <1>2, <2>1 DEF Locks, UiTypeOK, Hook, Timer
  <2> QED BY <2>3, <2>4, <2>5 DEF Effects
<1>4. CASE ui.mode = "STANDBY" /\ Show([paired EXCEPT !.mode = "PAIRING"])
  <2> HIDE DEF paired
  <2>1. /\ ui' \in Ui /\ ui'.mode = "PAIRING" /\ ui'.overlay = ui.overlay /\ ui'.locked = ui.locked
        /\ calls' = {} /\ armed' = armed
    BY <1>2, <1>4 DEF Show, Become, Ui, Mode
  <2>2. /\ ~Called("start_recording", "ok") /\ ~Called("stop_recording", "ok")
        /\ ~Called("capture_start", "ok") /\ ~Called("set_paused", "ok") /\ ~Calls("capture_end")
    BY <2>1 DEF Called, Calls
  <2>3. Moves(e)
    BY <1>1, <1>4, <2>1, <2>2 DEF Moves, AtHome, SettledError, Unsettled
  <2>4. Timers(e) /\ Captures(e)
    BY <1>1, <1>4, <2>1, <2>2 DEF Timers, Captures, AtHome
  <2>5. Locks(e) /\ UiTypeOK'
    BY <1>1, <1>4, <2>1 DEF Locks, UiTypeOK
  <2> QED BY <2>3, <2>4, <2>5 DEF Effects
<1>. QED BY <1>3, <1>4 DEF PairingChange

LEMMA BatteryCriticalDoes ==
  ASSUME UiTypeOK, NEW e \in Event, e[1] = "BATTERY_CRITICAL", BatteryCritical PROVE Effects(e)
<1>1. e \notin {Fault, EndingOver, <<"TIMER", "OVERLAY">>, <<"TIMER", "CLOSE_POLL">>}
  BY DEF Fault, EndingOver
<1>2. CASE ui.mode = "RECORDING" /\ BeginClose
  BY <1>2, BeginCloseDoes
<1>3. CASE Ignore
  BY <1>1, <1>3, IgnoreDoes
<1>. QED BY <1>2, <1>3 DEF BatteryCritical

LEMMA TodoResultDoes ==
  ASSUME UiTypeOK, NEW e \in Event, e[1] = "TODO_RESULT", TodoResult(e[2]) PROVE Effects(e)
<1>1. /\ e[2] \in TodoPage
      /\ e \notin {Fault, EndingOver, <<"TIMER", "OVERLAY">>, <<"TIMER", "CLOSE_POLL">>}
  BY DEF Event, Fault, EndingOver, TodoPage
<1>2. CASE Show([ui EXCEPT !.todo = e[2]])
  <2>1. Stays /\ ui'.overlay = ui.overlay
    BY <1>1, <1>2 DEF Show, Become, Stays, UiTypeOK, Ui
  <2> QED BY <1>1, <2>1, StaysDoes
<1>3. CASE ui.overlay # "TODO_LISTEN" /\ Show([ui EXCEPT !.overlay = e[2], !.todo = "NONE"])
  <2>1. Stays /\ ui'.overlay = e[2]
    BY <1>1, <1>3 DEF Show, Become, Stays, UiTypeOK, Ui, Overlay
  <2> QED BY <1>1, <1>3, <2>1, StaysDoes DEF Overlay, TimedPage, TodoPage
<1>. QED BY <1>2, <1>3 DEF TodoResult

LEMMA SyncChangeDoes ==
  ASSUME UiTypeOK, NEW e \in Event, e[1] = "SYNC_CHANGE", SyncChange(e[2]) PROVE Effects(e)
<1>1. e \notin {Fault, EndingOver, <<"TIMER", "OVERLAY">>, <<"TIMER", "CLOSE_POLL">>}
  BY DEF Fault, EndingOver
<1>2. CASE \E page \in {"SYNC_PROGRESS", "SYNC_FAILED"} : Show([ui EXCEPT !.overlay = page])
  <2>1. Stays /\ ui'.overlay \in {"SYNC_PROGRESS", "SYNC_FAILED"}
    BY <1>2 DEF Show, Become, Stays, UiTypeOK, Ui, Overlay
  <2> QED BY <1>1, <2>1, StaysDoes DEF Overlay, TimedPage, TodoPage
<1>3. CASE ShowTimed(ui, "SYNC_DONE", {})
  <2>1. Stays /\ ui'.overlay = "SYNC_DONE" /\ "OVERLAY" \in armed'
    BY <1>3, ShowTimedIs DEF Stays, UiTypeOK, TimedPage
  <2> QED BY <1>1, <2>1, StaysDoes DEF TimedPage
<1>. QED BY <1>2, <1>3 DEF SyncChange

(* app_state_handle: whatever event is handled.                            *)
LEMMA HandleDoes ==
  ASSUME UiTypeOK, PollsLeft, NEW e \in Event, Handle(e) PROVE Effects(e)
  BY ShortPressDoes, LongPressDoes, TodoReleaseDoes, RtcAlarmDoes, OnTimerDoes,
     SessionCloseDoneDoes, SessionSettledDoes, StorageErrorDoes, PairingChangeDoes,
     BatteryCriticalDoes, TodoResultDoes, SyncChangeDoes DEF Handle

-----------------------------------------------------------------------------
(* The event queue.                                                        *)
LEMMA PostedIs ==
  ASSUME queue \in Seq(Event), NEW events \in Seq(Event), queue' = queue \o events
  PROVE  /\ queue' \in Seq(Event) /\ Len(queue') = Len(queue) + Len(events)
         /\ \A i \in 1..Len(queue) : queue'[i] = queue[i]
         /\ \A i \in 1..Len(queue') : i > Len(queue) => queue'[i] = events[i - Len(queue)]
<1>1. queue' \in Seq(Event) /\ Len(queue') = Len(queue) + Len(events)
  OBVIOUS
<1>. QED BY <1>1

LEMMA TakenIs ==
  ASSUME queue \in Seq(Event), queue # <<>>, NEW events \in Seq(Event),
         queue' = Tail(queue) \o events
  PROVE  /\ Head(queue) \in Event /\ Head(queue) = queue[1] /\ Len(queue) \in Nat \ {0}
         /\ queue' \in Seq(Event) /\ Len(queue') = Len(queue) - 1 + Len(events)
         /\ \A i \in 1..Len(queue') :
              IF i < Len(queue) THEN queue'[i] = queue[i + 1]
              ELSE queue'[i] = events[i - Len(queue) + 1]
<1>1. Len(queue) \in Nat \ {0} /\ Head(queue) \in Event /\ Head(queue) = queue[1]
  OBVIOUS
<1>2. /\ Tail(queue) \in Seq(Event) /\ Len(Tail(queue)) = Len(queue) - 1
      /\ \A i \in 1..Len(queue) - 1 : Tail(queue)[i] = queue[i + 1]
  BY <1>1
<1>3. queue' \in Seq(Event) /\ Len(queue') = Len(queue) - 1 + Len(events)
  BY <1>2
<1>4. ASSUME NEW i \in 1..Len(queue')
      PROVE  IF i < Len(queue) THEN queue'[i] = queue[i + 1]
             ELSE queue'[i] = events[i - Len(queue) + 1]
  <2> DEFINE q == Tail(queue)
  <2>1. q \in Seq(Event) /\ Len(q) = Len(queue) - 1 BY <1>2
  <2>2. i <= Len(q) => queue'[i] = q[i]
    <3> HIDE DEF q
    <3>1. queue' = q \o events BY DEF q
    <3> QED BY <1>3, <2>1, <3>1
  <2>3. i > Len(q) => queue'[i] = events[i - Len(q)]
    <3> HIDE DEF q
    <3>1. queue' = q \o events BY DEF q
    <3> QED BY <1>3, <2>1, <3>1
  <2> QED BY <1>1, <1>2, <2>1, <2>2, <2>3
<1>. QED BY <1>1, <1>3, <1>4

(* What the hooks of a handler post, and when.                             *)
LEMMA HookPostsAre ==
  /\ HookPosts \in Seq(Event) /\ Len(HookPosts) \in {0, 1}
  /\ Len(HookPosts) = 1 =>
       \/ HookPosts[1][1] = "SYNC_CHANGE" /\ Called("sync_request", "ok")
       \/ HookPosts[1][1] = "PAIRING_CHANGE"
  BY DEF HookPosts, Event, Pairing

-----------------------------------------------------------------------------
(* The types, with two facts of the state machine they rest on.            *)
Typed ==
  /\ TypeOK
  /\ PollsLeft
  /\ ui.locked => ui.mode = "RECORDING"

LEMMA InitTyped == Init => Typed
<1> SUFFICES ASSUME Init PROVE Typed
  OBVIOUS
<1>1. ui \in Ui /\ UiTypeOK
  BY NoPolls DEF Init, UiInit, UiTypeOK, Ui, Mode, Overlay, Pairing
<1>2. queue \in Seq(Event) /\ Len(queue) <= QueueSlots
  BY QueueAssumption DEF Init
<1>3. net \in [state : Pairing, requested : BOOLEAN, busy : BOOLEAN]
  BY DEF Init, Pairing
<1>4. TypeOK
  BY <1>1, <1>2, <1>3 DEF Init, TypeOK, Settled
<1>. QED BY <1>4 DEF Init, UiInit, Typed, PollsLeft

(* A handler and what its hooks do.                                        *)
LEMMA DeliverDoes ==
  ASSUME Typed, Deliver
  PROVE  /\ Effects(Head(queue)) /\ Head(queue) \in Event /\ Head(queue) = queue[1]
         /\ Len(queue) \in Nat \ {0} /\ queue' \in Seq(Event)
         /\ Len(queue') = Len(queue) - 1 + Len(HookPosts) /\ Len(queue') <= Len(queue)
         /\ \A i \in 1..Len(queue') :
              IF i < Len(queue) THEN queue'[i] = queue[i + 1]
              ELSE \/ queue'[i][1] = "SYNC_CHANGE" /\ Called("sync_request", "ok")
                   \/ queue'[i][1] = "PAIRING_CHANGE"
<1>1. queue \in Seq(Event) /\ queue # <<>> /\ UiTypeOK /\ PollsLeft
  BY DEF Typed, TypeOK, Deliver
<1>2. queue' = Tail(queue) \o HookPosts /\ Handle(Head(queue))
  BY DEF Deliver
<1> DEFINE posts == HookPosts
<1>3. posts \in Seq(Event) /\ Len(posts) \in {0, 1}
  BY HookPostsAre
<1>4. Len(posts) = 1 => \/ posts[1][1] = "SYNC_CHANGE" /\ Called("sync_request", "ok")
                        \/ posts[1][1] = "PAIRING_CHANGE"
  BY HookPostsAre
<1> HIDE DEF posts
<1>5. queue' = Tail(queue) \o posts
  BY <1>2 DEF posts
<1>6. /\ Head(queue) \in Event /\ Head(queue) = queue[1] /\ Len(queue) \in Nat \ {0}
      /\ queue' \in Seq(Event) /\ Len(queue') = Len(queue) - 1 + Len(posts)
      /\ \A i \in 1..Len(queue') :
           IF i < Len(queue) THEN queue'[i] = queue[i + 1]
           ELSE queue'[i] = posts[i - Len(queue) + 1]
  BY <1>1, <1>3, <1>5, TakenIs
<1>7. Effects(Head(queue))
  BY <1>1, <1>2, <1>6, HandleDoes
<1>8. ASSUME NEW i \in 1..Len(queue'), ~(i < Len(queue))
      PROVE  \/ queue'[i][1] = "SYNC_CHANGE" /\ Called("sync_request", "ok")
             \/ queue'[i][1] = "PAIRING_CHANGE"
  <2>1. Len(posts) = 1 /\ i = Len(queue) /\ queue'[i] = posts[1]
    BY <1>3, <1>6, <1>8
  <2> QED BY <1>4, <2>1
<1>9. Len(queue') <= Len(queue)
  BY <1>3, <1>6
<1>. QED BY <1>6, <1>7, <1>8, <1>9 DEF posts

LEMMA DeliverTyped == ASSUME Typed, Deliver PROVE Typed'
<1>1. Effects(Head(queue)) /\ queue' \in Seq(Event) /\ Len(queue') <= Len(queue) /\ Len(queue') \in Nat
  BY DeliverDoes
<1>2. UiTypeOK' /\ PollsLeft' /\ (ui'.locked => ui'.mode = "RECORDING")
  BY <1>1 DEF Effects, Moves, Locks, Typed, PollsLeft
<1>3. Len(queue') <= QueueSlots
  BY <1>1, DeliverDoes, QueueAssumption DEF Typed, TypeOK
<1>4. {mic, muted, capture, ownMic, syncing, held} \subseteq BOOLEAN /\ held' = held
  BY DEF Typed, TypeOK, Deliver
<1>5. ui'.paused \in BOOLEAN
  BY <1>2 DEF UiTypeOK, Ui
<1>6. mic' \in BOOLEAN /\ capture' \in BOOLEAN /\ syncing' \in BOOLEAN
  BY Zenon DEF Deliver, HooksAct
<1>7. muted' \in BOOLEAN /\ ownMic' \in BOOLEAN
  <2>1. muted' = FALSE \/ muted' = ui'.paused \/ muted' = muted
    BY Zenon DEF Deliver, HooksAct
  <2>2. ownMic' = (store \in Settled) \/ ownMic' = FALSE \/ ownMic' = ownMic
    BY Zenon DEF Deliver, HooksAct
  <2>3. (store \in Settled) \in BOOLEAN
    OBVIOUS
  <2> QED BY <1>4, <1>5, <2>1, <2>2, <2>3
<1>8. store' \in Settled \cup {"open", "broken", "closing"}
  BY DEF Deliver, HooksAct, Typed, TypeOK
<1>9. net' \in [state : Pairing, requested : BOOLEAN, busy : BOOLEAN]
  BY DEF Deliver, HooksAct, Typed, TypeOK, Pairing
<1>. QED BY <1>1, <1>2, <1>3, <1>4, <1>6, <1>7, <1>8, <1>9 DEF Typed, TypeOK

(* The other parties post one event or, when a closing fails, two.         *)
LEMMA PostOne ==
  ASSUME Typed, NEW e \in Event, Post(<<e>>)
  PROVE  /\ queue' \in Seq(Event) /\ Len(queue') = Len(queue) + 1 /\ Len(queue') <= QueueSlots
         /\ Len(queue) \in Nat /\ queue'[Len(queue) + 1] = e
         /\ \A i \in 1..Len(queue) : queue'[i] = queue[i]
<1>1. queue \in Seq(Event) /\ <<e>> \in Seq(Event) /\ Len(<<e>>) = 1 /\ Len(queue) \in Nat
  BY DEF Typed, TypeOK
<1>2. queue' = queue \o <<e>> /\ Len(queue) + 1 <= QueueSlots
  BY <1>1 DEF Post
<1>3. /\ queue' \in Seq(Event) /\ Len(queue') = Len(queue) + 1
      /\ \A i \in 1..Len(queue) : queue'[i] = queue[i]
  BY <1>1, <1>2, PostedIs
<1>4. queue'[Len(queue) + 1] = e
  BY <1>1, <1>2
<1>. QED BY <1>1, <1>2, <1>3, <1>4

LEMMA PostTwo ==
  ASSUME Typed, NEW e \in Event, NEW f \in Event, Post(<<e, f>>)
  PROVE  /\ queue' \in Seq(Event) /\ Len(queue') = Len(queue) + 2 /\ Len(queue') <= QueueSlots
         /\ Len(queue) \in Nat /\ queue'[Len(queue) + 1] = e /\ queue'[Len(queue) + 2] = f
         /\ \A i \in 1..Len(queue) : queue'[i] = queue[i]
<1>1. queue \in Seq(Event) /\ <<e, f>> \in Seq(Event) /\ Len(<<e, f>>) = 2 /\ Len(queue) \in Nat
  BY DEF Typed, TypeOK
<1>2. queue' = queue \o <<e, f>> /\ Len(queue) + 2 <= QueueSlots
  BY <1>1 DEF Post
<1>3. /\ queue' \in Seq(Event) /\ Len(queue') = Len(queue) + 2
      /\ \A i \in 1..Len(queue) : queue'[i] = queue[i]
  BY <1>1, <1>2, PostedIs
<1>4. queue'[Len(queue) + 1] = e /\ queue'[Len(queue) + 2] = f
  BY <1>1, <1>2
<1>. QED BY <1>1, <1>2, <1>3, <1>4

(* An event that is none of the writer's and no timer's.                   *)
Outer(e) ==
  /\ e \in Event
  /\ e[1] \notin {"TIMER", "CLOSE_DONE", "SETTLED", "STORAGE_ERROR"}
  /\ e[1] = "SYNC_CHANGE" => syncing

Around ==
  /\ UNCHANGED <<armed, sound, store>>
  /\ syncing' => syncing
  /\ UNCHANGED queue \/ \E e \in Event : Outer(e) /\ Post(<<e>>)

LEMMA OtherSteps ==
  ASSUME Typed, Next, ~Deliver
  PROVE  /\ ui' = ui /\ calls' = {}
         /\ Around \/ (\E t \in Timer : Expire(t)) \/ SessionCloses \/ SessionBreaks \/ SessionSettles
         /\ held' \in BOOLEAN /\ syncing' \in BOOLEAN
         /\ net' \in [state : Pairing, requested : BOOLEAN, busy : BOOLEAN]
<1> USE DEF Quiet, world, Typed, TypeOK
<1>1. CASE Press
  <2>1. PICK e \in Event : Outer(e) /\ Post(<<e>>)
    BY <1>1 DEF Press, Event, Outer
  <2>2. UNCHANGED <<armed, sound, store, syncing, net>> /\ ui' = ui /\ calls' = {} /\ held' \in BOOLEAN
    BY <1>1 DEF Press
  <2> QED BY <2>1, <2>2 DEF Around
<1>2. CASE ReleaseMark
  <2>1. PICK e \in Event : Outer(e) /\ Post(<<e>>)
    BY <1>2 DEF ReleaseMark, Event, Outer
  <2>2. UNCHANGED <<armed, sound, store, syncing, net>> /\ ui' = ui /\ calls' = {} /\ held' \in BOOLEAN
    BY <1>2 DEF ReleaseMark
  <2> QED BY <2>1, <2>2 DEF Around
<1>3. CASE \E t \in Timer : Expire(t)
  BY <1>3 DEF Expire
<1>4. CASE SyncEnds
  <2>1. PICK e \in Event : Outer(e) /\ Post(<<e>>)
    BY <1>4 DEF SyncEnds, Event, Outer
  <2>2. UNCHANGED <<armed, sound, store, held, net>> /\ ui' = ui /\ calls' = {} /\ syncing' = FALSE
    BY <1>4 DEF SyncEnds
  <2> QED BY <2>1, <2>2 DEF Around
<1>5. CASE Outside
  <2>1. PICK e \in Event : Outer(e) /\ Post(<<e>>)
    BY <1>5 DEF Outside, Event, Outer
  <2>2. UNCHANGED <<armed, sound, store, syncing, net, held>> /\ ui' = ui /\ calls' = {}
    BY <1>5 DEF Outside
  <2> QED BY <2>1, <2>2 DEF Around
<1>6. CASE Pairs
  <2>1. PICK p \in Pairing, r \in BOOLEAN, b \in BOOLEAN : PairState(p, r, b)
    BY <1>6 DEF Pairs, Pairing
  <2>2. UNCHANGED <<armed, sound, store, syncing, held>> /\ ui' = ui /\ calls' = {}
    BY <2>1 DEF PairState
  <2>3. net' \in [state : Pairing, requested : BOOLEAN, busy : BOOLEAN]
    BY <2>1 DEF PairState
  <2>4. UNCHANGED queue \/ \E e \in Event : Outer(e) /\ Post(<<e>>)
    BY <2>1 DEF PairState, Event, Outer
  <2> QED BY <2>2, <2>3, <2>4 DEF Around
<1>7. CASE SessionCloses \/ SessionBreaks \/ SessionSettles
  BY <1>7 DEF SessionCloses, SessionBreaks, SessionSettles
<1>. QED BY <1>1, <1>2, <1>3, <1>4, <1>5, <1>6, <1>7 DEF Next

LEMMA OtherTyped == ASSUME Typed, Next, ~Deliver PROVE Typed'
<1>1. ui' = ui /\ calls' = {} /\ held' \in BOOLEAN /\ syncing' \in BOOLEAN
      /\ net' \in [state : Pairing, requested : BOOLEAN, busy : BOOLEAN]
  BY OtherSteps
<1>2. CASE Around
  <2>1. queue' \in Seq(Event) /\ Len(queue') <= QueueSlots
    BY <1>2, PostOne DEF Around, Typed, TypeOK
  <2> QED BY <1>1, <1>2, <2>1 DEF Around, Typed, TypeOK, UiTypeOK, PollsLeft, sound
<1>3. CASE \E t \in Timer : Expire(t)
  <2>1. PICK t \in Timer : Expire(t)
    BY <1>3
  <2>2. <<"TIMER", t>> \in Event
    BY DEF Event
  <2>3. queue' \in Seq(Event) /\ Len(queue') <= QueueSlots
    BY <2>1, <2>2, PostOne DEF Expire
  <2> QED BY <1>1, <2>1, <2>3 DEF Expire, Typed, TypeOK, UiTypeOK, PollsLeft, world, sound
<1>4. CASE SessionCloses \/ SessionBreaks \/ SessionSettles
  <2>1. Fault \in Event /\ ClosedEvent \in Event /\ SettledEvent \in Event
    BY DEF Event, Fault, ClosedEvent, SettledEvent
  <2>2. queue' \in Seq(Event) /\ Len(queue') <= QueueSlots
    BY <1>4, <2>1, PostOne, PostTwo
       DEF SessionCloses, SessionBreaks, SessionSettles, Fault, ClosedEvent, SettledEvent
  <2>3. /\ store' \in Settled \cup {"open", "broken", "closing"}
        /\ UNCHANGED <<armed, mic, muted, capture, ownMic>>
    BY <1>4 DEF SessionCloses, SessionBreaks, SessionSettles, Settled, Quiet, sound
  <2> QED BY <1>1, <2>2, <2>3 DEF Typed, TypeOK, UiTypeOK, PollsLeft
<1>. QED BY <1>2, <1>3, <1>4, OtherSteps

LEMMA StillTyped == ASSUME Typed, UNCHANGED vars PROVE Typed'
  BY DEF vars, uivars, world, sound, Typed, TypeOK, UiTypeOK, PollsLeft

LEMMA NextTyped == ASSUME Typed, [Next]_vars PROVE Typed'
  BY DeliverTyped, OtherTyped, StillTyped

LEMMA AlwaysTyped == Spec => []Typed
  BY InitTyped, NextTyped, PTL DEF Spec

(* The state machine, the queue and what the hooks act on keep their types.*)
THEOREM TypeCorrect == Spec => []TypeOK
<1>1. Typed => TypeOK
  BY DEF Typed
<1>. QED BY <1>1, AlwaysTyped, PTL

-----------------------------------------------------------------------------
(* An event in the queue waits there until its turn comes.                 *)
Waits(e) == \E i \in 1..Len(queue) : queue[i] = e

LEMMA WaitsOn ==
  ASSUME Typed, Deliver, NEW e, Waits(e), Head(queue) # e
  PROVE  Waits(e)'
<1>1. PICK i \in 1..Len(queue) : queue[i] = e
  BY DEF Waits
<1>2. /\ Head(queue) = queue[1] /\ Len(queue) \in Nat \ {0}
      /\ Len(queue') = Len(queue) - 1 + Len(HookPosts) /\ Len(HookPosts) \in {0, 1}
      /\ \A j \in 1..Len(queue') : j < Len(queue) => queue'[j] = queue[j + 1]
  <2>1. Len(HookPosts) \in {0, 1}
    BY HookPostsAre
  <2> QED BY <2>1, DeliverDoes
<1>3. i # 1 /\ i - 1 \in 1..Len(queue') /\ i - 1 < Len(queue)
  BY <1>1, <1>2
<1>4. queue'[i - 1] = e
  BY <1>1, <1>2, <1>3
<1>. QED BY <1>3, <1>4 DEF Waits

LEMMA OtherQueue ==
  ASSUME Typed, Next, ~Deliver
  PROVE  /\ Len(queue) \in Nat /\ Len(queue') \in Nat /\ Len(queue) <= Len(queue')
         /\ \A i \in 1..Len(queue) : queue'[i] = queue[i]
<1>1. CASE Around
  <2>1. CASE UNCHANGED queue
    BY <2>1 DEF Typed, TypeOK
  <2>2. CASE \E e \in Event : Outer(e) /\ Post(<<e>>)
    BY <2>2, PostOne
  <2> QED BY <1>1, <2>1, <2>2 DEF Around
<1>2. CASE \E t \in Timer : Expire(t)
  <2>1. PICK t \in Timer : Expire(t)
    BY <1>2
  <2>2. <<"TIMER", t>> \in Event
    BY DEF Event
  <2> QED BY <2>1, <2>2, PostOne DEF Expire
<1>3. CASE SessionCloses \/ SessionBreaks \/ SessionSettles
  <2>1. Fault \in Event /\ ClosedEvent \in Event /\ SettledEvent \in Event
    BY DEF Event, Fault, ClosedEvent, SettledEvent
  <2> QED
    BY <1>3, <2>1, PostOne, PostTwo
       DEF SessionCloses, SessionBreaks, SessionSettles, Fault, ClosedEvent, SettledEvent
<1>. QED BY <1>1, <1>2, <1>3, OtherSteps

LEMMA OtherWaitsOn == ASSUME Typed, Next, ~Deliver, NEW e, Waits(e) PROVE Waits(e)'
<1>1. PICK i \in 1..Len(queue) : queue[i] = e
  BY DEF Waits
<1>2. i \in 1..Len(queue') /\ queue'[i] = e
  BY <1>1, OtherQueue
<1>. QED BY <1>2 DEF Waits

(* A timer that runs goes on or its event waits.                           *)
LEMMA RunningIs == \A t : Running(t) <=> t \in armed \/ Waits(<<"TIMER", t>>)
  BY DEF Running, Waits

LEMMA DeliverKeepsRunning ==
  ASSUME Typed, Deliver, NEW t, Running(t), t \in armed => t \in armed',
         Head(queue) # <<"TIMER", t>>
  PROVE  Running(t)'
<1>1. CASE t \in armed
  BY <1>1 DEF Running
<1>2. CASE Waits(<<"TIMER", t>>)
  <2>1. Waits(<<"TIMER", t>>)'
    BY <1>2, WaitsOn
  <2> QED BY <2>1 DEF Running, Waits
<1>. QED BY <1>1, <1>2, RunningIs

LEMMA OtherKeepsRunning ==
  ASSUME Typed, Next, ~Deliver, NEW t \in Timer, Running(t)
  PROVE  Running(t)'
<1>1. CASE Waits(<<"TIMER", t>>)
  <2>1. Waits(<<"TIMER", t>>)'
    BY <1>1, OtherWaitsOn
  <2> QED BY <2>1 DEF Running, Waits
<1>2. CASE t \in armed /\ t \in armed'
  BY <1>2 DEF Running
<1>3. CASE t \in armed /\ t \notin armed'
  <2>1. Expire(t)
    BY <1>3, OtherSteps
       DEF Expire, Around, SessionCloses, SessionBreaks, SessionSettles, Quiet
  <2>2. <<"TIMER", t>> \in Event
    BY DEF Event
  <2>3. Len(queue) + 1 \in 1..Len(queue') /\ queue'[Len(queue) + 1] = <<"TIMER", t>>
    BY <2>1, <2>2, PostOne DEF Expire
  <2> QED BY <2>3 DEF Running
<1>. QED BY <1>1, <1>2, <1>3, RunningIs

LEMMA InitNoDeadPage == Init => NoDeadPage
  BY DEF Init, UiInit, NoDeadPage, TimedPage

LEMMA NextNoDeadPage == ASSUME Typed, NoDeadPage, [Next]_vars PROVE NoDeadPage'
<1>1. CASE Deliver
  <2>1. Timers(Head(queue)) /\ Moves(Head(queue))
    BY <1>1, DeliverDoes DEF Effects
  <2>2. \A t : t \in armed /\ t # "CLOSE_POLL" => t \in armed'
    BY <2>1 DEF Timers
  <2>3. ui'.overlay \in TimedPage => Running("OVERLAY")'
    <3> SUFFICES ASSUME ui'.overlay \in TimedPage, "OVERLAY" \notin armed' PROVE Running("OVERLAY")'
      BY DEF Running
    <3>1. ui.overlay \in TimedPage /\ Head(queue) # <<"TIMER", "OVERLAY">>
      BY <2>1 DEF Timers
    <3>2. Running("OVERLAY")
      BY <3>1 DEF NoDeadPage
    <3> QED BY <1>1, <2>2, <3>1, <3>2, DeliverKeepsRunning
  <2>4. ui'.mode = "ENDING" => Running("ENDING")'
    <3> SUFFICES ASSUME ui'.mode = "ENDING", "ENDING" \notin armed' PROVE Running("ENDING")'
      BY DEF Running
    <3>1. ui.mode = "ENDING" /\ Head(queue) # <<"TIMER", "ENDING">>
      BY <2>1 DEF Timers, Moves, EndingOver
    <3>2. Running("ENDING")
      BY <3>1 DEF NoDeadPage
    <3> QED BY <1>1, <2>2, <3>1, <3>2, DeliverKeepsRunning
  <2>5. ui'.mode = "CLOSING" => Running("CLOSE_POLL")'
    <3> SUFFICES ASSUME ui'.mode = "CLOSING", "CLOSE_POLL" \notin armed'
                 PROVE  Running("CLOSE_POLL")'
      BY DEF Running
    <3>1. ui.mode = "CLOSING" /\ Head(queue) # <<"TIMER", "CLOSE_POLL">> /\ armed \subseteq armed'
      BY <2>1 DEF Timers
    <3>2. Running("CLOSE_POLL")
      BY <3>1 DEF NoDeadPage
    <3> QED BY <1>1, <3>1, <3>2, DeliverKeepsRunning
  <2> QED BY <2>3, <2>4, <2>5 DEF NoDeadPage
<1>2. CASE Next /\ ~Deliver
  <2>1. ui' = ui
    BY <1>2, OtherSteps
  <2>2. \A t \in Timer : Running(t) => Running(t)'
    BY <1>2, OtherKeepsRunning
  <2> QED BY <2>1, <2>2 DEF NoDeadPage, Timer
<1>3. CASE UNCHANGED vars
  BY <1>3 DEF vars, uivars, NoDeadPage, Running
<1>. QED BY <1>1, <1>2, <1>3

(* app_state.c: a page that ends by itself, the end of a session and its   *)
(* closing always have their timer running or already expired in the       *)
(* queue, whatever the queue holds and whoever posts: the card is never    *)
(* stuck on a page that ignores the keys.                                  *)
THEOREM PagesEnd == Spec => []NoDeadPage
<1>1. Typed /\ NoDeadPage /\ [Next]_vars => NoDeadPage'
  BY NextNoDeadPage
<1>. QED BY <1>1, InitNoDeadPage, AlwaysTyped, PTL DEF Spec

-----------------------------------------------------------------------------
(* Only the state machine takes an event from the queue.                   *)
LEMMA TakesDelivers ==
  ASSUME Typed, [Next]_vars, NEW e, Takes(e)
  PROVE  Deliver /\ Head(queue) = e
<1>1. CASE Next /\ ~Deliver
  BY <1>1, OtherQueue DEF Takes
<1>2. CASE UNCHANGED vars
  <2>1. Len(queue') = Len(queue) /\ Len(queue) \in Nat
    BY <1>2 DEF vars, Typed, TypeOK
  <2> QED BY <2>1 DEF Takes
<1>. QED BY <1>1, <1>2 DEF Takes

(* app_state.c, the key lock: with it no key but the long BACK starts,     *)
(* stops, pauses or marks a recording or captures a to-do, whatever page   *)
(* has come up over the recording.                                         *)
THEOREM LockHolds == Spec => LockedKeepsRecording
<1> DEFINE A == ui.locked /\ (\E k \in {"R", "M"} : Takes(<<"SHORT", k>>) \/ Takes(<<"LONG", k>>))
                  => /\ ui'.mode = ui.mode /\ ui'.paused = ui.paused
                     /\ \A c \in calls' : c[1] \notin RecordingHook
<1>1. Typed /\ [Next]_vars => [A]_vars
  <2> SUFFICES ASSUME Typed, [Next]_vars, ui.locked,
                      NEW k \in {"R", "M"}, Takes(<<"SHORT", k>>) \/ Takes(<<"LONG", k>>)
               PROVE  /\ ui'.mode = ui.mode /\ ui'.paused = ui.paused
                      /\ \A c \in calls' : c[1] \notin RecordingHook
    OBVIOUS
  <2>1. Deliver /\ Head(queue) \in {"SHORT", "LONG"} \X {"R", "M"}
    <3>1. CASE Takes(<<"SHORT", k>>)
      <4>1. Deliver /\ Head(queue) = <<"SHORT", k>>
        BY <3>1, TakesDelivers
      <4> QED BY <4>1
    <3>2. CASE Takes(<<"LONG", k>>)
      <4>1. Deliver /\ Head(queue) = <<"LONG", k>>
        BY <3>2, TakesDelivers
      <4> QED BY <4>1
    <3> QED BY <3>1, <3>2
  <2>2. Locks(Head(queue)) /\ ui.mode = "RECORDING"
    BY <2>1, DeliverDoes DEF Effects, Typed
  <2> QED BY <2>1, <2>2 DEF Locks
<1>2. Spec => [][A]_vars
  BY <1>1, AlwaysTyped, PTL DEF Spec
<1>. QED BY <1>2 DEF LockedKeepsRecording

-----------------------------------------------------------------------------
(* The inductive invariant of the capture: its page is up over the home    *)
(* page only.                                                              *)
CaptureInv ==
  /\ CaptureFollowsPage
  /\ ui.overlay = "TODO_LISTEN" => AtHome

(* No change of the manual sync is handled while the page of a capture is  *)
(* up.                                                                     *)
SyncSpares == Deliver /\ Head(queue)[1] = "SYNC_CHANGE" => ui.overlay # "TODO_LISTEN"

LEMMA InitCapture == Init => CaptureInv
  BY DEF Init, UiInit, CaptureInv, CaptureFollowsPage

LEMMA NextCapture ==
  ASSUME Typed, CaptureInv, [Next]_vars, [SyncSpares]_vars
  PROVE  CaptureInv'
<1>1. CASE UNCHANGED vars
  BY <1>1 DEF vars, uivars, world, sound, CaptureInv, CaptureFollowsPage, AtHome
<1>2. CASE Deliver /\ SyncSpares
  <2>1. Captures(Head(queue)) /\ Moves(Head(queue))
    BY <1>2, DeliverDoes DEF Effects
  <2>2. Head(queue)[1] = "SYNC_CHANGE" => ui.overlay # "TODO_LISTEN"
    BY <1>2 DEF SyncSpares
  <2>3. capture' <=> (capture \/ Called("capture_start", "ok")) /\ ~Calls("capture_end")
    BY <1>2, Zenon DEF Deliver, HooksAct, StartsCapture, EndsCapture, Calls
  <2>4. capture' <=> ui'.overlay = "TODO_LISTEN"
    BY <2>1, <2>2, <2>3 DEF Captures, CaptureInv, CaptureFollowsPage
  <2>5. ui'.overlay = "TODO_LISTEN" => AtHome'
    <3>1. Called("capture_start", "ok") => AtHome'
      BY <2>1 DEF Moves, AtHome
    <3> QED BY <2>1, <2>2, <3>1 DEF Captures, CaptureInv
  <2> QED BY <2>4, <2>5 DEF CaptureInv, CaptureFollowsPage
<1>3. CASE Next /\ ~Deliver
  <2>1. ui' = ui /\ AtHome' = AtHome
    BY <1>3, OtherSteps DEF AtHome
  <2>2. Around \/ (\E t \in Timer : Expire(t)) \/ SessionCloses \/ SessionBreaks \/ SessionSettles
    BY <1>3, OtherSteps
  <2>3. capture' = capture
    BY <2>2 DEF Around, Expire, SessionCloses, SessionBreaks, SessionSettles, sound, world
  <2> QED BY <2>1, <2>3 DEF CaptureInv, CaptureFollowsPage
<1>. QED BY <1>1, <1>2, <1>3

(* agenda_todo.c and app_state.c: nothing but a change of the manual sync, *)
(* which replaces any page, ever separates the capture of a voice to-do    *)
(* from its page, whatever alarms, results, faults and keys come meanwhile.*)
THEOREM CaptureLostToSyncOnly ==
  Spec /\ [][SyncSpares]_vars => []CaptureFollowsPage
<1>1. Typed /\ CaptureInv /\ [Next]_vars /\ [SyncSpares]_vars => CaptureInv'
  BY NextCapture
<1>2. CaptureInv => CaptureFollowsPage
  BY DEF CaptureInv
<1>. QED BY <1>1, <1>2, InitCapture, AlwaysTyped, PTL DEF Spec

-----------------------------------------------------------------------------
(* The inductive invariant of the microphone: what the page says of the    *)
(* session on the card, and which events of a session still wait.          *)

(* The mode and the session: an unsettled error page and CLOSING are left  *)
(* only when the session is.                                               *)
Phases ==
  /\ store = "open" => ui.mode = "RECORDING"
  /\ store = "closing" => ui.mode = "CLOSING" \/ Unsettled
  /\ store = "broken" => ui.mode \in {"RECORDING", "CLOSING"} \/ Unsettled
  /\ ui.mode = "RECORDING" => store \in {"open", "broken"}
  /\ ui.mode = "ENDING" => store = "closed"

FaultTold == store = "broken" /\ ui.mode \in {"RECORDING", "CLOSING"} => Waits(Fault)

(* ENDING has one timer, and no other mode has any.                        *)
EndsOnce ==
  /\ ui.mode # "ENDING" => "ENDING" \notin armed /\ ~Waits(EndingOver)
  /\ "ENDING" \in armed => ~Waits(EndingOver)
  /\ \A i, j \in 1..Len(queue) : queue[i] = EndingOver /\ queue[j] = EndingOver => i = j

(* A CLOSE_DONE is about the session of the page, and is taken before the  *)
(* page of its end goes.                                                   *)
ClosedFirst ==
  \A i \in 1..Len(queue) : queue[i] = ClosedEvent =>
    /\ store = "closed" /\ (ui.mode \in {"CLOSING", "ENDING"} \/ Unsettled)
    /\ \A j \in 1..i : queue[j] # EndingOver

(* A SETTLED that waits has fewer events before it, its STORAGE_ERROR not  *)
(* counted, than it takes from this page to start the next session.        *)
Within(j, n) == j <= n \/ (j <= n + 1 /\ \E i \in 1..j - 1 : queue[i] = Fault)

SettledSoon ==
  \A j \in 1..Len(queue) : queue[j] = SettledEvent =>
    /\ store = "failed"
    /\ \A i \in 1..Len(queue) : queue[i] = SettledEvent => i = j
    /\ \/ Unsettled
       \/ ui.mode = "CLOSING" /\ Within(j, 3)
       \/ SettledError /\ Within(j, 2)
       \/ AtHome /\ Within(j, 1)

Owns == (ownMic <=> capture) /\ (ui.mode = "RECORDING" => ~capture)

MicInv ==
  /\ Phases /\ FaultTold /\ EndsOnce /\ ClosedFirst /\ SettledSoon
  /\ Owns /\ MicHasUser

(* A session fails while few events wait: the fault is posted behind at    *)
(* most three.                                                             *)
FailsSoon == store' = "failed" /\ store # "failed" => Len(queue') <= 4

LEMMA InitMic == Init => MicInv
<1> SUFFICES ASSUME Init PROVE MicInv
  OBVIOUS
<1>1. queue = <<>> /\ Len(queue) = 0 /\ ui.mode = "STANDBY" /\ armed = {} /\ store = "none"
  BY DEF Init, UiInit
<1>2. ~mic /\ ~capture /\ ~ownMic
  BY DEF Init
<1>. QED BY <1>1, <1>2 DEF MicInv, Phases, FaultTold, EndsOnce, ClosedFirst, SettledSoon, Owns,
                            MicHasUser, Waits

-----------------------------------------------------------------------------
(* A handler.                                                              *)
LEMMA HooksDo ==
  ASSUME Typed, Deliver
  PROVE  /\ Called("start_recording", "ok") => ~mic /\ store \in Settled
         /\ Called("close_status", "ok") => store = "closed"
         /\ Called("close_status", "fail") => store = "failed"
         /\ store' = IF Called("start_recording", "ok") THEN "open"
                     ELSE IF Called("stop_recording", "ok") /\ store = "open" THEN "closing"
                     ELSE store
  BY DEF Deliver, HooksAct, StartRecordingHook, CloseStatusHook, Starts, Stops

(* The head of the queue, by what the invariant says of its place.         *)
LEMMA HeadIs ==
  ASSUME Typed, MicInv, Deliver
  PROVE  /\ Head(queue) = ClosedEvent => store = "closed"
         /\ Head(queue) = SettledEvent => store = "failed"
         /\ 1 \in 1..Len(queue) /\ queue[1] = Head(queue)
<1>1. 1 \in 1..Len(queue) /\ queue[1] = Head(queue)
  BY DeliverDoes
<1>. QED BY <1>1 DEF MicInv, ClosedFirst, SettledSoon

LEMMA DeliverPhases == ASSUME Typed, MicInv, Deliver PROVE Phases'
<1>1. Moves(Head(queue)) /\ ui' \in Ui /\ ui \in Ui
  BY DeliverDoes DEF Effects, UiTypeOK, Typed, TypeOK
<1>2. /\ Head(queue) = ClosedEvent => store = "closed"
      /\ Head(queue) = SettledEvent => store = "failed"
  BY HeadIs
<1>3. /\ ui.mode \in Mode /\ ui'.mode \in Mode /\ ui.settled \in BOOLEAN /\ ui'.settled \in BOOLEAN
      /\ store \in Settled \cup {"open", "broken", "closing"}
  BY <1>1 DEF Ui, Typed, TypeOK
<1>4. Phases
  BY DEF MicInv
<1>5. (store = "open" => ui.mode = "RECORDING")'
  BY <1>1, <1>3, <1>4, HooksDo DEF Phases, Moves, Settled
<1>6. (store = "closing" => ui.mode = "CLOSING" \/ Unsettled)'
  BY <1>1, <1>2, <1>3, <1>4, HooksDo DEF Phases, Moves, Settled, Mode, Unsettled, SettledError, AtHome
<1>7. (store = "broken" => ui.mode \in {"RECORDING", "CLOSING"} \/ Unsettled)'
  BY <1>1, <1>2, <1>3, <1>4, HooksDo DEF Phases, Moves, Settled, Mode, Unsettled, SettledError, AtHome
<1>8. (ui.mode = "RECORDING" => store \in {"open", "broken"})'
  BY <1>1, <1>3, <1>4, HooksDo DEF Phases, Moves, Settled
<1>9. (ui.mode = "ENDING" => store = "closed")'
  BY <1>1, <1>2, <1>3, <1>4, HooksDo DEF Phases, Moves, Settled, Unsettled
<1>. QED BY <1>5, <1>6, <1>7, <1>8, <1>9 DEF Phases

LEMMA DeliverFaultTold == ASSUME Typed, MicInv, Deliver PROVE FaultTold'
<1> SUFFICES ASSUME store' = "broken", ui'.mode \in {"RECORDING", "CLOSING"}
             PROVE  Waits(Fault)'
  BY DEF FaultTold
<1>1. Moves(Head(queue)) /\ Phases
  BY DeliverDoes DEF Effects, MicInv
<1>2. store = "broken" /\ ~Called("start_recording", "ok")
  BY HooksDo
<1>3. ui.mode \in {"RECORDING", "CLOSING"} /\ Head(queue) # Fault
  BY <1>1, <1>2 DEF Moves
<1>4. Waits(Fault)
  BY <1>2, <1>3 DEF MicInv, FaultTold
<1>. QED BY <1>3, <1>4, WaitsOn

(* What waits after a handler waited behind its event, or is of the        *)
(* network task.                                                           *)
LEMMA WaitedBehind ==
  ASSUME Typed, Deliver, NEW i \in 1..Len(queue'),
         queue'[i] \in {Fault, ClosedEvent, SettledEvent, EndingOver}
  PROVE  i + 1 \in 1..Len(queue) /\ queue[i + 1] = queue'[i] /\ i \in Nat
<1>1. queue'[i][1] \notin {"SYNC_CHANGE", "PAIRING_CHANGE"}
  BY DEF Fault, ClosedEvent, SettledEvent, EndingOver
<1>. QED BY <1>1, DeliverDoes

LEMMA DeliverEndsOnce == ASSUME Typed, MicInv, Deliver PROVE EndsOnce'
<1>1. /\ Moves(Head(queue)) /\ Timers(Head(queue)) /\ EndsOnce
      /\ 1 \in 1..Len(queue) /\ queue[1] = Head(queue)
  BY DeliverDoes, HeadIs DEF Effects, MicInv
<1>2. Waits(EndingOver)' => Waits(EndingOver) /\ Head(queue) # EndingOver
  <2> SUFFICES ASSUME NEW i \in 1..Len(queue'), queue'[i] = EndingOver
               PROVE  Waits(EndingOver) /\ Head(queue) # EndingOver
    BY DEF Waits
  <2>1. i + 1 \in 1..Len(queue) /\ queue[i + 1] = EndingOver /\ i + 1 # 1
    BY WaitedBehind
  <2> QED BY <1>1, <2>1 DEF EndsOnce, Waits
<1>3. Head(queue) = EndingOver => Waits(EndingOver)
  BY <1>1 DEF Waits
<1>4. (ui.mode # "ENDING" => "ENDING" \notin armed /\ ~Waits(EndingOver))'
  BY <1>1, <1>2, <1>3 DEF Moves, Timers, EndsOnce
<1>5. ("ENDING" \in armed => ~Waits(EndingOver))'
  BY <1>1, <1>2 DEF Moves, Timers, EndsOnce
<1>6. ASSUME NEW i \in 1..Len(queue'), NEW j \in 1..Len(queue'),
             queue'[i] = EndingOver, queue'[j] = EndingOver
      PROVE  i = j
  <2>1. /\ i + 1 \in 1..Len(queue) /\ queue[i + 1] = EndingOver
        /\ j + 1 \in 1..Len(queue) /\ queue[j + 1] = EndingOver /\ i \in Nat /\ j \in Nat
    BY <1>6, WaitedBehind
  <2>2. i + 1 = j + 1
    BY <1>1, <2>1 DEF EndsOnce
  <2> QED BY <2>1, <2>2
<1>. QED BY <1>4, <1>5, <1>6 DEF EndsOnce

LEMMA DeliverClosedFirst == ASSUME Typed, MicInv, Deliver PROVE ClosedFirst'
<1> SUFFICES ASSUME NEW i \in 1..Len(queue'), queue'[i] = ClosedEvent
             PROVE  /\ store' = "closed" /\ (ui'.mode \in {"CLOSING", "ENDING"} \/ Unsettled')
                    /\ \A j \in 1..i : queue'[j] # EndingOver
  BY DEF ClosedFirst
<1>1. i + 1 \in 1..Len(queue) /\ queue[i + 1] = ClosedEvent /\ i \in Nat
  BY WaitedBehind
<1>2. /\ store = "closed" /\ (ui.mode \in {"CLOSING", "ENDING"} \/ Unsettled)
      /\ \A j \in 1..i + 1 : queue[j] # EndingOver
  BY <1>1 DEF MicInv, ClosedFirst
<1>3. /\ Moves(Head(queue)) /\ Head(queue) # EndingOver /\ Head(queue) # SettledEvent
      /\ ui'.mode \in Mode /\ ui.mode \in Mode /\ ui.settled \in BOOLEAN /\ ui'.settled \in BOOLEAN
      /\ Len(queue') \in Nat
  <2>1. 1 \in 1..i + 1 /\ queue[1] = Head(queue) /\ Head(queue) # SettledEvent
    BY <1>1, <1>2, HeadIs
  <2>2. Moves(Head(queue)) /\ ui' \in Ui /\ ui \in Ui /\ Len(queue') \in Nat
    BY DeliverDoes DEF Effects, UiTypeOK, Typed, TypeOK
  <2> QED BY <1>2, <2>1, <2>2 DEF Ui
<1>4. store' = "closed" /\ ~Called("start_recording", "ok") /\ ~Called("close_status", "fail")
  BY <1>2, <1>3, HooksDo DEF Moves, Unsettled
<1>5. ui'.mode \in {"CLOSING", "ENDING"} \/ Unsettled'
  BY <1>2, <1>3, <1>4 DEF Moves, Mode, Unsettled, SettledError, AtHome
<1>6. ASSUME NEW j \in 1..i, queue'[j] = EndingOver PROVE FALSE
  <2>1. j \in 1..Len(queue')
    BY <1>1, <1>3
  <2>2. j + 1 \in 1..i + 1 /\ queue[j + 1] = EndingOver
    BY <1>1, <1>6, <2>1, WaitedBehind
  <2> QED BY <1>2, <2>2
<1>. QED BY <1>4, <1>5, <1>6

(* The fault of a session that is being closed is not settled yet.        *)
LEMMA FaultUnsettles ==
  ASSUME Typed, Deliver, Head(queue) = Fault, ui.mode = "CLOSING" PROVE Unsettled'
<1>1. StorageError /\ ui \in Ui
  BY DEF Deliver, Handle, Fault, Typed, TypeOK, UiTypeOK
<1>2. EnterError("OTHER", FALSE, {})
  BY <1>1 DEF StorageError, Did
<1>. QED BY <1>1, <1>2, EnterErrorIs DEF Unsettled

(* A handler takes one of the events before it, and the page moves one on  *)
(* only by an event that is not the fault, the closing page apart.         *)
LEMMA DeliverSettledSoon == ASSUME Typed, MicInv, Deliver PROVE SettledSoon'
<1> SUFFICES ASSUME NEW j \in 1..Len(queue'), queue'[j] = SettledEvent
             PROVE  /\ store' = "failed"
                    /\ \A i \in 1..Len(queue') : queue'[i] = SettledEvent => i = j
                    /\ \/ Unsettled'
                       \/ ui'.mode = "CLOSING" /\ Within(j, 3)'
                       \/ SettledError' /\ Within(j, 2)'
                       \/ AtHome' /\ Within(j, 1)'
  BY DEF SettledSoon, Within
<1>1. j + 1 \in 1..Len(queue) /\ queue[j + 1] = SettledEvent /\ j \in Nat \ {0}
  BY WaitedBehind
<1>2. /\ store = "failed"
      /\ \A i \in 1..Len(queue) : queue[i] = SettledEvent => i = j + 1
      /\ \/ Unsettled
         \/ ui.mode = "CLOSING" /\ Within(j + 1, 3)
         \/ SettledError /\ Within(j + 1, 2)
         \/ AtHome /\ Within(j + 1, 1)
  BY <1>1 DEF MicInv, SettledSoon
<1>3. /\ Moves(Head(queue)) /\ queue[1] = Head(queue) /\ 1 \in 1..Len(queue)
      /\ ui' \in Ui /\ ui \in Ui /\ Len(queue') \in Nat /\ Len(queue) \in Nat
  BY DeliverDoes, HeadIs DEF Effects, UiTypeOK, Typed, TypeOK
<1>4. /\ ui'.mode \in Mode /\ ui.mode \in Mode /\ ui.settled \in BOOLEAN /\ ui'.settled \in BOOLEAN
  BY <1>3 DEF Ui
<1>5. /\ Head(queue) # SettledEvent /\ ~Called("close_status", "ok")
      /\ Head(queue) = ClosedEvent => FALSE
  BY <1>1, <1>2, <1>3, HooksDo, HeadIs
<1>6. \A i \in 1..Len(queue') : queue'[i] = SettledEvent => i = j
  <2> SUFFICES ASSUME NEW i \in 1..Len(queue'), queue'[i] = SettledEvent PROVE i = j
    OBVIOUS
  <2>1. i + 1 \in 1..Len(queue) /\ queue[i + 1] = SettledEvent /\ i \in Nat
    BY WaitedBehind
  <2>2. i + 1 = j + 1
    BY <1>2, <2>1
  <2> QED BY <1>1, <2>1, <2>2
(* One fewer is before it; so it is when the fault was taken.              *)
<1>7. ASSUME NEW n \in 1..3, Within(j + 1, n)
      PROVE  /\ Head(queue) # Fault => n # 1 /\ Within(j, n - 1)'
             /\ Within(j, n)'
  <2>1. CASE j + 1 <= n
    BY <1>1, <2>1 DEF Within
  <2>2. CASE j + 1 <= n + 1 /\ \E i \in 1..j : queue[i] = Fault
    <3>1. PICK i \in 1..j : queue[i] = Fault
      BY <2>2
    <3>2. j <= n
      BY <1>1, <2>2
    <3>3. Within(j, n)'
      BY <3>2 DEF Within
    <3>4. ASSUME Head(queue) # Fault PROVE n # 1 /\ Within(j, n - 1)'
      <4>1. i - 1 \in 1..j - 1 /\ i - 1 \in 1..Len(queue') /\ i - 1 < Len(queue)
        BY <1>1, <1>3, <3>1, <3>4
      <4>2. queue'[i - 1] = Fault
        <5>1. queue'[i - 1] = queue[i - 1 + 1]
          BY <4>1, DeliverDoes
        <5>2. i - 1 + 1 = i
          BY <3>1
        <5> QED BY <3>1, <5>1, <5>2
      <4> QED BY <1>1, <3>2, <4>1, <4>2 DEF Within
    <3> QED BY <3>3, <3>4
  <2>3. \/ j + 1 <= n
        \/ j + 1 <= n + 1 /\ \E i \in 1..j : queue[i] = Fault
    <3>1. j + 1 - 1 = j
      BY <1>1
    <3> QED BY <1>7, <3>1 DEF Within
  <2> QED BY <2>1, <2>2, <2>3
<1>8. CASE Unsettled
  BY <1>3, <1>4, <1>5, <1>6, <1>8, <1>2, HooksDo DEF Moves, Mode, Unsettled, SettledError, AtHome
<1>9. CASE ui.mode = "CLOSING" /\ Within(j + 1, 3)
  <2>1. store' = "failed"
    BY <1>2, <1>3, <1>9, HooksDo DEF Moves
  <2>2. Unsettled' \/ ui'.mode = "CLOSING" \/ SettledError'
    BY <1>3, <1>4, <1>5, <1>9, <2>1, HooksDo DEF Moves, Mode, Unsettled, SettledError, AtHome
  <2>3. SettledError' => Within(j, 2)'
    BY <1>7, <1>9, FaultUnsettles DEF Unsettled, SettledError
  <2> QED BY <1>6, <1>7, <1>9, <2>1, <2>2, <2>3
<1>10. CASE SettledError /\ Within(j + 1, 2)
  <2>1. store' = "failed"
    BY <1>2, <1>3, <1>10, HooksDo DEF Moves, SettledError
  <2>2. SettledError' \/ (AtHome' /\ Head(queue) # Fault)
    BY <1>3, <1>4, <1>5, <1>10, <2>1, HooksDo DEF Moves, Mode, Unsettled, SettledError, AtHome
  <2>3. Within(j, 2)' /\ (Head(queue) # Fault => Within(j, 1)')
    BY <1>7, <1>10
  <2> QED BY <1>6, <2>1, <2>2, <2>3
<1>11. CASE AtHome /\ Within(j + 1, 1)
  <2>1. Head(queue) = Fault /\ Within(j, 1)'
    BY <1>7, <1>11
  <2>2. ui'.mode = ui.mode
    BY <1>3, <1>11, <2>1 DEF Moves
  <2>3. store' = "failed" /\ AtHome'
    BY <1>2, <1>3, <1>11, <2>2, HooksDo DEF Moves, AtHome
  <2> QED BY <1>6, <2>1, <2>3
<1>. QED BY <1>2, <1>8, <1>9, <1>10, <1>11

(* What a handler does to the microphone, its flags as propositions.       *)
LEMMA SoundDoes ==
  ASSUME Typed, MicInv, Deliver
  PROVE  /\ StartsCapture => ui.mode = "STANDBY" /\ ui'.mode = "STANDBY" /\ store \in Settled
                             /\ ~EndsCapture /\ ~Starts /\ ~Stops
         /\ Starts => ~mic /\ ~Stops /\ ui'.mode = "RECORDING" /\ ui.mode = "STANDBY"
         /\ Stops <=> ui.mode = "RECORDING" /\ ui'.mode # "RECORDING"
         /\ ui'.mode = "RECORDING" => ui.mode = "RECORDING" \/ Starts
         /\ capture' <=> (capture \/ StartsCapture) /\ ~EndsCapture
         /\ ownMic' <=> StartsCapture \/ (ownMic /\ ~EndsCapture)
         /\ mic' <=> (mic \/ Starts \/ StartsCapture) /\ ~Stops /\ ~(EndsCapture /\ ownMic)
<1>1. Moves(Head(queue)) /\ Captures(Head(queue)) /\ Phases
  BY DeliverDoes DEF Effects, MicInv
<1>2. store \in Settled \cup {"open", "broken", "closing"}
  BY DEF Typed, TypeOK
<1>3. StartsCapture => ui.mode = "STANDBY" /\ ui'.mode = "STANDBY"
  BY <1>1 DEF StartsCapture, Moves
<1>4. StartsCapture => store \in Settled
  BY <1>1, <1>2, <1>3 DEF Phases, Unsettled
<1>5. StartsCapture => ~EndsCapture
  BY <1>1 DEF StartsCapture, EndsCapture, Captures, Calls
<1>6. /\ Starts => ~mic /\ ui'.mode = "RECORDING" /\ ui.mode = "STANDBY"
      /\ Stops <=> ui.mode = "RECORDING" /\ ui'.mode # "RECORDING"
      /\ ui'.mode = "RECORDING" => ui.mode = "RECORDING" \/ Starts
  BY <1>1, HooksDo DEF Starts, Stops, Moves
<1>7. capture' <=> (capture \/ StartsCapture) /\ ~EndsCapture
  BY Zenon DEF Deliver, HooksAct
<1>8. ownMic' <=> StartsCapture \/ (ownMic /\ ~EndsCapture)
  BY <1>4, <1>5, Zenon DEF Deliver, HooksAct
<1>9. mic' <=> (mic \/ Starts \/ StartsCapture) /\ ~Stops /\ ~(EndsCapture /\ ownMic)
  BY <1>4, Zenon DEF Deliver, HooksAct
<1>. QED BY <1>3, <1>4, <1>5, <1>6, <1>7, <1>8, <1>9

LEMMA DeliverOwns == ASSUME Typed, MicInv, Deliver PROVE Owns'
<1>1. /\ ownMic <=> capture
      /\ ui.mode = "RECORDING" => ~capture
      /\ mic <=> ui.mode = "RECORDING" \/ capture
  BY DEF MicInv, Owns, MicHasUser
<1>. QED BY <1>1, SoundDoes DEF Owns

LEMMA DeliverMic == ASSUME Typed, MicInv, Deliver PROVE MicHasUser'
<1>1. /\ ownMic <=> capture
      /\ ui.mode = "RECORDING" => ~capture
      /\ mic <=> ui.mode = "RECORDING" \/ capture
      /\ ui.mode = "RECORDING" => (muted <=> ui.paused)
  BY DEF MicInv, Owns, MicHasUser
<1>2. mic' <=> ui'.mode = "RECORDING" \/ capture'
  BY <1>1, SoundDoes
<1>3. ASSUME ui'.mode = "RECORDING" PROVE muted' <=> ui'.paused
  <2>1. Moves(Head(queue)) /\ ~StartsCapture
    BY <1>3, DeliverDoes, SoundDoes DEF Effects
  <2>2. /\ Starts => ~muted'
        /\ ~Starts /\ Called("set_paused", "ok") => (muted' <=> ui'.paused)
        /\ ~Starts /\ ~Called("set_paused", "ok") => (muted' <=> muted)
    BY <2>1, Zenon DEF Deliver, HooksAct
  <2>3. CASE Starts
    BY <2>1, <2>2, <2>3 DEF Moves, Starts
  <2>4. CASE ~Starts /\ Called("set_paused", "ok")
    BY <2>2, <2>4
  <2>5. CASE ~Starts /\ ~Called("set_paused", "ok")
    BY <1>1, <1>3, <2>1, <2>2, <2>5 DEF Moves, Starts
  <2> QED BY <2>3, <2>4, <2>5
<1>. QED BY <1>2, <1>3 DEF MicHasUser

LEMMA DeliverKeepsMic == ASSUME Typed, MicInv, Deliver PROVE MicInv'
  BY DeliverPhases, DeliverFaultTold, DeliverEndsOnce, DeliverClosedFirst, DeliverSettledSoon,
     DeliverOwns, DeliverMic DEF MicInv

-----------------------------------------------------------------------------
(* The other parties: what waits goes on to wait, and what they post comes *)
(* behind it.                                                              *)
LEMMA WaitedBefore ==
  ASSUME Typed, Next, ~Deliver, NEW i \in 1..Len(queue'), i <= Len(queue)
  PROVE  i \in 1..Len(queue) /\ queue[i] = queue'[i]
  BY OtherQueue

NoneBehind(e) == \A i \in 1..Len(queue') : i > Len(queue) => queue'[i] # e

LEMMA EndsOnceStays ==
  ASSUME Typed, MicInv, Next, ~Deliver, armed' = armed, NoneBehind(EndingOver)
  PROVE  EndsOnce'
<1>1. EndsOnce /\ ui' = ui
  BY OtherSteps DEF MicInv
<1>2. ASSUME NEW i \in 1..Len(queue'), queue'[i] = EndingOver
      PROVE  i \in 1..Len(queue) /\ queue[i] = EndingOver
  <2>1. i <= Len(queue)
    BY <1>2, OtherQueue DEF NoneBehind
  <2> QED BY <1>2, <2>1, WaitedBefore
<1>3. Waits(EndingOver)' => Waits(EndingOver)
  BY <1>2 DEF Waits
<1>. QED BY <1>1, <1>2, <1>3 DEF EndsOnce

LEMMA OldClosed ==
  ASSUME Typed, MicInv, Next, ~Deliver, NEW i \in 1..Len(queue'), i <= Len(queue),
         queue'[i] = ClosedEvent
  PROVE  /\ store = "closed" /\ (ui.mode \in {"CLOSING", "ENDING"} \/ Unsettled)
         /\ \A j \in 1..i : queue'[j] # EndingOver
<1>1. i \in 1..Len(queue) /\ queue[i] = ClosedEvent
  BY WaitedBefore
<1>2. /\ store = "closed" /\ (ui.mode \in {"CLOSING", "ENDING"} \/ Unsettled)
      /\ \A j \in 1..i : queue[j] # EndingOver
  BY <1>1 DEF MicInv, ClosedFirst
<1>3. \A j \in 1..i : j \in 1..Len(queue) /\ queue'[j] = queue[j]
  BY <1>1, OtherQueue
<1>. QED BY <1>2, <1>3

LEMMA OldSettled ==
  ASSUME Typed, MicInv, Next, ~Deliver, NEW j \in 1..Len(queue'), j <= Len(queue),
         queue'[j] = SettledEvent
  PROVE  /\ store = "failed"
         /\ \A i \in 1..Len(queue') : i <= Len(queue) /\ queue'[i] = SettledEvent => i = j
         /\ \/ Unsettled
            \/ ui.mode = "CLOSING" /\ Within(j, 3)'
            \/ SettledError /\ Within(j, 2)'
            \/ AtHome /\ Within(j, 1)'
<1>1. j \in 1..Len(queue) /\ queue[j] = SettledEvent
  BY WaitedBefore
<1>2. /\ store = "failed"
      /\ \A i \in 1..Len(queue) : queue[i] = SettledEvent => i = j
      /\ \/ Unsettled
         \/ ui.mode = "CLOSING" /\ Within(j, 3)
         \/ SettledError /\ Within(j, 2)
         \/ AtHome /\ Within(j, 1)
  BY <1>1 DEF MicInv, SettledSoon
<1>3. \A i \in 1..j - 1 : queue'[i] = queue[i]
  BY <1>1, OtherQueue
<1>4. \A n : Within(j, n) => Within(j, n)'
  BY <1>3 DEF Within
<1>5. \A i \in 1..Len(queue') : i <= Len(queue) /\ queue'[i] = SettledEvent => i = j
  BY <1>2, WaitedBefore
<1>. QED BY <1>2, <1>4, <1>5

(* An event that says nothing of the session.                              *)
LEMMA PlainPost ==
  ASSUME Typed, MicInv, Next, ~Deliver, UNCHANGED <<ui, store, sound>>, armed' \subseteq armed,
         NEW e \in Event, Post(<<e>>), e \notin {Fault, ClosedEvent, SettledEvent},
         IF e = EndingOver THEN "ENDING" \in armed /\ "ENDING" \notin armed' ELSE TRUE
  PROVE  MicInv'
<1>1. /\ Len(queue') = Len(queue) + 1 /\ Len(queue) \in Nat /\ queue'[Len(queue) + 1] = e
      /\ \A i \in 1..Len(queue) : queue'[i] = queue[i]
  BY PostOne
<1>2. \A i \in 1..Len(queue') : queue'[i] # e => i <= Len(queue)
  BY <1>1
<1>3. Phases' /\ Owns' /\ MicHasUser'
  BY DEF MicInv, Phases, Owns, MicHasUser, Unsettled, sound
<1>4. FaultTold'
  BY OtherWaitsOn DEF MicInv, FaultTold
<1>5. EndsOnce'
  <2>1. EndsOnce
    BY DEF MicInv
  <2>2. CASE e = EndingOver
    <3>1. ui.mode = "ENDING" /\ ~Waits(EndingOver) /\ "ENDING" \notin armed'
      BY <2>1, <2>2 DEF EndsOnce
    <3>2. ASSUME NEW i \in 1..Len(queue'), queue'[i] = EndingOver PROVE i = Len(queue) + 1
      <4>1. i <= Len(queue) => FALSE
        BY <1>1, <3>1, <3>2, WaitedBefore DEF Waits
      <4> QED BY <1>1, <4>1
    <3> QED BY <3>1, <3>2 DEF EndsOnce
  <2>3. CASE e # EndingOver
    <3>1. ASSUME NEW i \in 1..Len(queue'), queue'[i] = EndingOver
          PROVE  i \in 1..Len(queue) /\ queue[i] = EndingOver
      BY <1>2, <2>3, <3>1, WaitedBefore
    <3>2. Waits(EndingOver)' => Waits(EndingOver)
      BY <3>1 DEF Waits
    <3> QED BY <2>1, <3>1, <3>2 DEF EndsOnce
  <2> QED BY <2>2, <2>3
<1>6. ClosedFirst'
  BY <1>2, OldClosed DEF ClosedFirst, Unsettled
<1>7. SettledSoon'
  <2> SUFFICES ASSUME NEW j \in 1..Len(queue'), queue'[j] = SettledEvent
               PROVE  /\ store' = "failed"
                      /\ \A i \in 1..Len(queue') : queue'[i] = SettledEvent => i = j
                      /\ \/ Unsettled'
                         \/ ui'.mode = "CLOSING" /\ Within(j, 3)'
                         \/ SettledError' /\ Within(j, 2)'
                         \/ AtHome' /\ Within(j, 1)'
    BY DEF SettledSoon, Within
  <2>1. j <= Len(queue) /\ \A i \in 1..Len(queue') : queue'[i] = SettledEvent => i <= Len(queue)
    BY <1>2
  <2>2. (Unsettled' <=> Unsettled) /\ (SettledError' <=> SettledError) /\ (AtHome' <=> AtHome)
    BY DEF Unsettled, SettledError, AtHome
  <2> QED BY <2>1, <2>2, OldSettled
<1>. QED BY <1>3, <1>4, <1>5, <1>6, <1>7 DEF MicInv

LEMMA QuietMic == ASSUME MicInv, UNCHANGED <<ui, armed, queue, store, sound>> PROVE MicInv'
  BY DEF sound, MicInv, Phases, FaultTold, EndsOnce, ClosedFirst, SettledSoon, Owns, MicHasUser,
         Waits, Within, Unsettled, SettledError, AtHome

(* The writer's steps find the session open, broken or closing: nothing of *)
(* its end waits yet.                                                      *)
LEMMA NothingOld ==
  ASSUME Typed, MicInv, Next, ~Deliver, store \notin {"closed", "failed"}
  PROVE  \A i \in 1..Len(queue') :
           queue'[i] \in {ClosedEvent, SettledEvent} => i > Len(queue)
<1> SUFFICES ASSUME NEW i \in 1..Len(queue'), queue'[i] \in {ClosedEvent, SettledEvent},
                    i <= Len(queue)
             PROVE  FALSE
  BY OtherQueue
<1>1. i \in 1..Len(queue) /\ queue[i] \in {ClosedEvent, SettledEvent}
  BY WaitedBefore
<1>. QED BY <1>1 DEF MicInv, ClosedFirst, SettledSoon

LEMMA Events ==
  /\ Fault \in Event /\ ClosedEvent \in Event /\ SettledEvent \in Event
  /\ Fault \notin {ClosedEvent, SettledEvent, EndingOver} /\ ClosedEvent # SettledEvent
  /\ EndingOver \notin {ClosedEvent, SettledEvent}
  BY DEF Event, Fault, ClosedEvent, SettledEvent, EndingOver

LEMMA ClosesMic ==
  ASSUME Typed, MicInv, Next, ~Deliver, SessionCloses, store' = "closed"
  PROVE  MicInv'
<1>1. /\ store = "closing" /\ Post(<<ClosedEvent>>) /\ ui' = ui /\ armed' = armed /\ sound' = sound
  BY DEF SessionCloses, Quiet, ClosedEvent
<1>2. ui.mode = "CLOSING" \/ Unsettled
  BY <1>1 DEF MicInv, Phases
<1>3. /\ Len(queue') = Len(queue) + 1 /\ Len(queue) \in Nat /\ queue'[Len(queue) + 1] = ClosedEvent
      /\ \A i \in 1..Len(queue) : queue'[i] = queue[i]
  BY <1>1, PostOne, Events
<1>4. \A i \in 1..Len(queue') : i > Len(queue) => queue'[i] = ClosedEvent
  BY <1>3
<1>5. /\ Phases' /\ Owns' /\ MicHasUser' /\ FaultTold'
  BY <1>1, <1>2 DEF MicInv, Phases, Owns, MicHasUser, FaultTold, Unsettled, sound
<1>6. EndsOnce'
  BY <1>1, <1>4, Events, EndsOnceStays DEF NoneBehind
<1>7. ClosedFirst'
  <2>1. ui'.mode # "ENDING"
    BY <1>1, <1>2 DEF Unsettled
  <2>2. \A j \in 1..Len(queue') : queue'[j] # EndingOver
    BY <1>6, <2>1 DEF EndsOnce, Waits
  <2>3. \A i \in 1..Len(queue') : \A j \in 1..i : queue'[j] # EndingOver
    BY <1>3, <2>2
  <2> QED BY <1>1, <1>2, <2>3 DEF ClosedFirst, Unsettled, SessionCloses
<1>8. SettledSoon'
  <2>1. \A i \in 1..Len(queue') : queue'[i] # SettledEvent
    BY <1>1, <1>4, NothingOld, Events
  <2> QED BY <2>1 DEF SettledSoon
<1>. QED BY <1>5, <1>6, <1>7, <1>8 DEF MicInv

(* The end of a failed session: its last event is the only SETTLED, and    *)
(* the fault waits before it.                                              *)
LEMMA FailedMic ==
  ASSUME Typed, MicInv, Next, ~Deliver, UNCHANGED <<ui, armed, sound>>,
         store \in {"closing", "broken"}, store' = "failed", ui.mode # "RECORDING",
         Len(queue') \in 1..4, queue'[Len(queue')] = SettledEvent,
         \A i \in 1..Len(queue') - 1 : i > Len(queue) => queue'[i] = Fault,
         ui.mode = "CLOSING" => \E i \in 1..Len(queue') - 1 : queue'[i] = Fault
  PROVE  MicInv'
<1>1. ui.mode = "CLOSING" \/ Unsettled
  BY DEF MicInv, Phases
<1>2. \A i \in 1..Len(queue') : i > Len(queue) => queue'[i] \in {Fault, SettledEvent}
  OBVIOUS
<1>3. /\ Phases' /\ Owns' /\ MicHasUser' /\ FaultTold'
  BY <1>1 DEF MicInv, Phases, Owns, MicHasUser, FaultTold, Unsettled, sound
<1>4. EndsOnce'
  BY <1>2, Events, EndsOnceStays DEF NoneBehind
<1>5. ClosedFirst'
  <2>1. \A i \in 1..Len(queue') : queue'[i] # ClosedEvent
    BY <1>2, NothingOld, Events
  <2> QED BY <2>1 DEF ClosedFirst
<1>6. SettledSoon'
  <2> SUFFICES ASSUME NEW j \in 1..Len(queue'), queue'[j] = SettledEvent
               PROVE  /\ \A i \in 1..Len(queue') : queue'[i] = SettledEvent => i = j
                      /\ Unsettled' \/ (ui'.mode = "CLOSING" /\ Within(j, 3)')
    BY DEF SettledSoon, Within
  <2>1. ASSUME NEW i \in 1..Len(queue'), queue'[i] = SettledEvent PROVE i = Len(queue')
    <3>1. i > Len(queue)
      BY <2>1, NothingOld
    <3> QED BY <2>1, <3>1, Events
  <2>2. j = Len(queue')
    BY <2>1
  <2>3. ui.mode = "CLOSING" => Within(j, 3)'
    BY <2>2 DEF Within
  <2> QED BY <1>1, <2>1, <2>2, <2>3 DEF Unsettled
<1>. QED BY <1>3, <1>4, <1>5, <1>6 DEF MicInv

LEMMA BreaksMic == ASSUME Typed, MicInv, Next, ~Deliver, SessionBreaks PROVE MicInv'
<1>1. /\ store = "open" /\ store' = "broken" /\ Post(<<Fault>>)
      /\ ui' = ui /\ armed' = armed /\ sound' = sound
  BY DEF SessionBreaks, Quiet, Fault
<1>2. ui.mode = "RECORDING"
  BY <1>1 DEF MicInv, Phases
<1>3. /\ Len(queue') = Len(queue) + 1 /\ Len(queue) \in Nat /\ queue'[Len(queue) + 1] = Fault
  BY <1>1, PostOne, Events
<1>4. \A i \in 1..Len(queue') : i > Len(queue) => queue'[i] = Fault
  BY <1>3
<1>5. /\ Phases' /\ Owns' /\ MicHasUser'
  BY <1>1, <1>2 DEF MicInv, Phases, Owns, MicHasUser, Unsettled, sound
<1>6. FaultTold'
  BY <1>3 DEF FaultTold, Waits
<1>7. EndsOnce'
  BY <1>1, <1>4, Events, EndsOnceStays DEF NoneBehind
<1>8. \A i \in 1..Len(queue') : queue'[i] \notin {ClosedEvent, SettledEvent}
  BY <1>1, <1>4, NothingOld, Events
<1>9. ClosedFirst' /\ SettledSoon'
  BY <1>8 DEF ClosedFirst, SettledSoon
<1>. QED BY <1>5, <1>6, <1>7, <1>9 DEF MicInv

LEMMA ClosingFailsMic ==
  ASSUME Typed, MicInv, Next, ~Deliver, SessionCloses, store' = "failed", FailsSoon
  PROVE  MicInv'
<1>1. /\ store = "closing" /\ Post(<<Fault, SettledEvent>>)
      /\ ui' = ui /\ armed' = armed /\ sound' = sound
  BY DEF SessionCloses, Quiet, Fault, SettledEvent
<1>2. /\ Len(queue') = Len(queue) + 2 /\ Len(queue) \in Nat
      /\ queue'[Len(queue) + 1] = Fault /\ queue'[Len(queue) + 2] = SettledEvent
  BY <1>1, PostTwo, Events
<1>3. Len(queue') \in 1..4
  BY <1>1, <1>2 DEF FailsSoon
<1>4. ui.mode # "RECORDING"
  BY <1>1 DEF MicInv, Phases
<1>5. /\ \A i \in 1..Len(queue') - 1 : i > Len(queue) => queue'[i] = Fault
      /\ \E i \in 1..Len(queue') - 1 : queue'[i] = Fault
  BY <1>2
<1>. QED BY <1>1, <1>2, <1>3, <1>4, <1>5, FailedMic

LEMMA SettlesMic ==
  ASSUME Typed, MicInv, Next, ~Deliver, SessionSettles, FailsSoon PROVE MicInv'
<1>1. /\ store = "broken" /\ ~mic /\ store' = "failed" /\ Post(<<SettledEvent>>)
      /\ ui' = ui /\ armed' = armed /\ sound' = sound
  BY DEF SessionSettles, Quiet, SettledEvent
<1>2. /\ Len(queue') = Len(queue) + 1 /\ Len(queue) \in Nat
      /\ queue'[Len(queue) + 1] = SettledEvent
      /\ \A i \in 1..Len(queue) : queue'[i] = queue[i]
  BY <1>1, PostOne, Events
<1>3. Len(queue') \in 1..4
  BY <1>1, <1>2 DEF FailsSoon
<1>4. ui.mode # "RECORDING"
  BY <1>1 DEF MicInv, MicHasUser
<1>5. ui.mode = "CLOSING" => Waits(Fault)
  BY <1>1 DEF MicInv, FaultTold
<1>6. ui.mode = "CLOSING" => \E i \in 1..Len(queue') - 1 : queue'[i] = Fault
  BY <1>2, <1>5 DEF Waits
<1>7. \A i \in 1..Len(queue') - 1 : i > Len(queue) => queue'[i] = Fault
  BY <1>2
<1>. QED BY <1>1, <1>2, <1>3, <1>4, <1>6, <1>7, FailedMic

LEMMA OtherKeepsMic ==
  ASSUME Typed, MicInv, Next, ~Deliver, FailsSoon PROVE MicInv'
<1>1. ui' = ui
  BY OtherSteps
<1>2. CASE Around
  <2>1. CASE UNCHANGED queue
    BY <1>1, <1>2, <2>1, QuietMic DEF Around
  <2>2. CASE \E e \in Event : Outer(e) /\ Post(<<e>>)
    <3>1. PICK e \in Event : Outer(e) /\ Post(<<e>>)
      BY <2>2
    <3>2. e \notin {Fault, ClosedEvent, SettledEvent, EndingOver}
      BY <3>1 DEF Outer, Fault, ClosedEvent, SettledEvent, EndingOver
    <3>3. armed' = armed /\ store' = store /\ sound' = sound
      BY <1>2 DEF Around
    <3> QED BY <1>1, <3>1, <3>2, <3>3, PlainPost
  <2> QED BY <1>2, <2>1, <2>2 DEF Around
<1>3. CASE \E t \in Timer : Expire(t)
  <2>1. PICK t \in Timer : Expire(t)
    BY <1>3
  <2>2. /\ t \in armed /\ Post(<<<<"TIMER", t>>>>) /\ armed' = armed \ {t}
        /\ store' = store /\ sound' = sound
    BY <2>1 DEF Expire, world
  <2>3. /\ <<"TIMER", t>> \in Event /\ <<"TIMER", t>> \notin {Fault, ClosedEvent, SettledEvent}
        /\ <<"TIMER", t>> = EndingOver => t = "ENDING"
    BY DEF Event, Fault, ClosedEvent, SettledEvent, EndingOver
  <2> QED BY <1>1, <2>2, <2>3, PlainPost
<1>4. CASE SessionCloses
  BY <1>4, ClosesMic, ClosingFailsMic DEF SessionCloses
<1>5. CASE SessionBreaks
  BY <1>5, BreaksMic
<1>6. CASE SessionSettles
  BY <1>6, SettlesMic
<1>. QED BY <1>2, <1>3, <1>4, <1>5, <1>6, OtherSteps

LEMMA NextMic == ASSUME Typed, MicInv, [Next]_vars, [FailsSoon]_vars PROVE MicInv'
<1>1. CASE UNCHANGED vars
  BY <1>1, QuietMic DEF vars, uivars, world
<1>2. CASE Next /\ FailsSoon
  BY <1>2, DeliverKeepsMic, OtherKeepsMic
<1>. QED BY <1>1, <1>2

(* app_main.c and audio_pdm.c: the microphone is on for a recording or a   *)
(* capture and for nothing else, and is muted as the page says, provided a *)
(* session never fails behind a long queue: behind four events that wait,  *)
(* the late SETTLED of one session could settle the error page of the next.*)
THEOREM MicUsed == Spec /\ [][FailsSoon]_vars => []MicHasUser
<1>1. Typed /\ MicInv /\ [Next]_vars /\ [FailsSoon]_vars => MicInv'
  BY NextMic
<1>2. MicInv => MicHasUser
  BY DEF MicInv
<1>. QED BY <1>1, <1>2, InitMic, AlwaysTyped, PTL DEF Spec
=============================================================================
