------------------------------ MODULE AppState ------------------------------
(***************************************************************************)
(* The application state machine of the recorder card, app_state.c.  One   *)
(* task runs it: an event is taken from the queue and handled to the end   *)
(* before the next.  ui is the static struct S, as far as control depends  *)
(* on it, armed the one-shot timers a handler set and that have not        *)
(* expired, calls the hooks the last handler called that reach another     *)
(* component, each with its result.  A module that extends this one says   *)
(* what the hooks do and when their results are possible.                  *)
(*                                                                         *)
(* Left out: what is only drawn (page, scene, elapsed time, counters, sync *)
(* state, battery, network and agenda indicators) with the events that     *)
(* change nothing else; mode OFF and the POWER_CONFIRM overlay, which no   *)
(* handler enters (UI154_FIRMWARE.md: the power switch is in hardware).    *)
(* Mode STARTING lasts only inside one handler.  The result page           *)
(* TODO_CREATED, which the handlers treat as they do TODO_FAILED, is not   *)
(* told apart from it.                                                     *)
(***************************************************************************)
EXTENDS Naturals

CONSTANT ClosePollLimit     \* CLOSE_POLL_LIMIT, 8 in the source
ASSUME PollAssumption == ClosePollLimit \in Nat \ {0}

VARIABLES ui, armed, calls
uivars == <<ui, armed, calls>>

Mode == {"STANDBY", "RECORDING", "CLOSING", "ENDING", "STORAGE_ERROR", "PAIRING"}
TodoPage == {"TODO_CONFIRM", "TODO_FAILED"}
TimedPage == {"TODO_OK", "SNOOZED", "LOCKED_HINT", "SYNC_DONE"}
Overlay == TodoPage \cup TimedPage \cup
  {"NONE", "REMINDER", "TODO_LISTEN", "SYNC_CONFIRM", "SYNC_PROGRESS", "SYNC_FAILED"}
Pairing == {"IDLE", "JOINING", "CLAIM_PENDING", "BOUND"}
Timer == {"OVERLAY", "CLOSE_POLL", "ENDING", "PAIRING"}

(* error tells only what a handler tells apart.  todo is the result page   *)
(* todo_result_pending stands for, "NONE" for 0.                           *)
Ui == [mode : Mode, overlay : Overlay, error : {"NONE", "TIMEOUT", "OTHER"},
       settled : BOOLEAN, paused : BOOLEAN, locked : BOOLEAN,
       polls : 0..ClosePollLimit, pairing : Pairing,
       reminder : BOOLEAN, todo : TodoPage \cup {"NONE"}]

Hook == {"start_recording", "stop_recording", "set_paused", "mark_point",
         "capture_start", "capture_end", "todo_action", "sync_request",
         "reminder_action", "enter_pairing", "exit_pairing", "close_status"}

UiTypeOK ==
  /\ ui \in Ui
  /\ armed \subseteq Timer
  /\ calls \subseteq Hook \X {"ok", "fail", "busy"}

UiInit ==
  /\ ui = [mode |-> "STANDBY", overlay |-> "NONE", error |-> "NONE",
           settled |-> FALSE, paused |-> FALSE, locked |-> FALSE,
           polls |-> 0, pairing |-> "IDLE", reminder |-> FALSE, todo |-> "NONE"]
  /\ armed = {}
  /\ calls = {}

Become(u, hooks, timers) == ui' = u /\ calls' = hooks /\ armed' = timers
Show(u) == Become(u, {}, armed)
Did(hook) == {<<hook, "ok">>}
Ignore == Show(ui)

-----------------------------------------------------------------------------
(* The transitions the handlers share.                                     *)

ShowTodo(u) == IF u.todo = "NONE" THEN u
               ELSE [u EXCEPT !.overlay = u.todo, !.todo = "NONE"]

ShowReminder(u) == [u EXCEPT !.overlay = "REMINDER", !.reminder = FALSE]

(* The reminder that waited goes first, then the to-do result.             *)
ShowWaiting(u) == IF u.reminder THEN ShowReminder(u) ELSE ShowTodo(u)

Timed(u, page) == [u EXCEPT !.overlay = page]
(* Wrong variant: the timer is forgotten.                                  *)
ShowUntimed(u, page, hooks) == Become(Timed(u, page), hooks, armed)
ShowTimed(u, page, hooks) == Become(Timed(u, page), hooks, armed \cup {"OVERLAY"})

Home(u) == IF u.pairing = "CLAIM_PENDING" THEN "PAIRING" ELSE "STANDBY"

Errored(u, error, settled) ==
  [u EXCEPT !.mode = "STORAGE_ERROR", !.error = error, !.overlay = "NONE",
            !.paused = FALSE, !.locked = FALSE, !.settled = settled]

EnterError(error, settled, hooks) ==
  Become(Errored(ui, error, settled), hooks, armed \ {"CLOSE_POLL"})

StartRec(u, hooks) ==
  LET starting == [u EXCEPT !.error = "NONE", !.overlay = "NONE",
                            !.paused = FALSE, !.locked = FALSE,
                            !.settled = FALSE, !.polls = 0]
  IN \/ Become(ShowTodo([starting EXCEPT !.mode = "RECORDING"]),
               hooks \cup {<<"start_recording", "ok">>}, armed)
     \/ Become(Errored(starting, "OTHER", TRUE),
               hooks \cup {<<"start_recording", "fail">>}, armed \ {"CLOSE_POLL"})

BeginClose ==
  Become([ui EXCEPT !.mode = "CLOSING", !.overlay = "NONE", !.locked = FALSE,
                    !.paused = FALSE, !.polls = 0],
         Did("stop_recording"), armed \cup {"CLOSE_POLL"})

CloseDone(hooks) ==
  Become([ui EXCEPT !.mode = "ENDING", !.error = "NONE", !.settled = TRUE],
         hooks, (armed \ {"CLOSE_POLL"}) \cup {"ENDING"})

-----------------------------------------------------------------------------
(* Wrong variant: the lock is not looked at.                               *)
ScreenUnlocked ==
  CASE ui.mode \in {"CLOSING", "ENDING"} -> "BUSY"
    [] ui.mode = "STORAGE_ERROR" -> IF ui.settled THEN "ERROR" ELSE "BUSY"
    [] ui.mode \notin {"CLOSING", "ENDING", "STORAGE_ERROR"} /\
       ui.overlay \notin {"NONE", "LOCKED_HINT"} -> ui.overlay
    [] OTHER -> ui.mode

(* What the keys act on.  The handlers' early returns come in this order:  *)
(* busy modes, overlays, the pairing page, the key lock, the mode.         *)
Screen ==
  CASE ui.mode \in {"CLOSING", "ENDING"} -> "BUSY"
    [] ui.mode = "STORAGE_ERROR" -> IF ui.settled THEN "ERROR" ELSE "BUSY"
    [] ui.mode \notin {"CLOSING", "ENDING", "STORAGE_ERROR"} /\
       ui.overlay \notin {"NONE", "LOCKED_HINT"} -> ui.overlay
    [] OTHER -> IF ui.mode = "PAIRING" THEN "PAIRING"
                ELSE IF ui.locked THEN "LOCKED" ELSE ui.mode

(* The screens a short or long press acts on, by key.                      *)
ShortActs == [R |-> {"ERROR", "REMINDER", "LOCKED", "STANDBY", "RECORDING"},
              M |-> TodoPage \cup {"SYNC_CONFIRM", "SYNC_DONE", "SYNC_FAILED",
                                   "LOCKED", "RECORDING"},
              B |-> TodoPage \cup {"ERROR", "SYNC_CONFIRM", "SYNC_PROGRESS", "SYNC_DONE",
                                   "SYNC_FAILED", "REMINDER", "PAIRING", "LOCKED"}]
LongActs == [R |-> {"LOCKED", "STANDBY", "RECORDING"},
             M |-> {"LOCKED", "STANDBY"},
             B |-> {"REMINDER", "LOCKED", "STANDBY", "RECORDING"}]

LeaveError ==
  /\ Screen = "ERROR"
  /\ Show(ShowTodo([ui EXCEPT !.mode = Home(ui), !.error = "NONE"]))

SyncConfirmKey(k) ==
  /\ Screen = "SYNC_CONFIRM"
  /\ \/ k = "M" /\ Become([ui EXCEPT !.overlay = "SYNC_PROGRESS"],
                          {<<"sync_request", "ok">>}, armed)
     \/ k = "M" /\ Become([ui EXCEPT !.overlay = "SYNC_FAILED"],
                          {<<"sync_request", "fail">>}, armed)
     \/ k = "B" /\ Show([ui EXCEPT !.overlay = "NONE"])

DismissPage ==
  /\ Screen \in {"SYNC_PROGRESS", "SYNC_DONE", "SYNC_FAILED", "TODO_FAILED"}
  /\ Show([ui EXCEPT !.overlay = "NONE"])

TodoConfirmKey ==
  /\ Screen = "TODO_CONFIRM"
  /\ \/ ShowTimed(ui, "TODO_OK", {<<"todo_action", "ok">>})
     \/ Become([ui EXCEPT !.overlay = "TODO_FAILED"], {<<"todo_action", "fail">>}, armed)

(* REC starts the meeting, except while one is recorded; elsewhere than on *)
(* the home page start_rec returns at once.                                *)
ReminderShort(k) ==
  LET closed == [ui EXCEPT !.overlay = "NONE"]
  IN /\ Screen = "REMINDER"
     /\ \/ k = "R" /\ ui.mode = "STANDBY" /\ StartRec(closed, Did("reminder_action"))
        \/ k = "R" /\ ui.mode # "STANDBY" /\ Become(closed, Did("reminder_action"), armed)
        \/ k = "B" /\ Become(ShowTodo(closed), Did("reminder_action"), armed)

LeavePairing ==
  /\ Screen = "PAIRING"
  /\ IF ui.pairing = "BOUND" THEN Ignore
     ELSE Become(ShowTodo([ui EXCEPT !.mode = "STANDBY", !.pairing = "IDLE"]),
                 Did("exit_pairing"), armed)

ShowLockedHint == Screen = "LOCKED" /\ ShowTimed(ui, "LOCKED_HINT", {})

StandbyRec == Screen = "STANDBY" /\ StartRec(ui, {})

RecordingShort(k) ==
  /\ Screen = "RECORDING"
  /\ \/ k = "R" /\ Become([ui EXCEPT !.paused = ~ui.paused], Did("set_paused"), armed)
     \/ k = "M" /\ Become(ui, Did("mark_point"), armed)

ShortPress(k) ==
  IF Screen \notin ShortActs[k] THEN Ignore
  ELSE \/ LeaveError \/ SyncConfirmKey(k) \/ DismissPage \/ TodoConfirmKey
       \/ ReminderShort(k) \/ LeavePairing \/ ShowLockedHint
       \/ k = "R" /\ StandbyRec
       \/ RecordingShort(k)

-----------------------------------------------------------------------------
TodoHold ==
  /\ Screen = "STANDBY"
  /\ \/ Become([ui EXCEPT !.overlay = "TODO_LISTEN"], {<<"capture_start", "ok">>}, armed)
     \/ Become([ui EXCEPT !.overlay = "TODO_FAILED"], {<<"capture_start", "fail">>}, armed)

Snooze == Screen = "REMINDER" /\ ShowTimed(ui, "SNOOZED", Did("reminder_action"))

LockedLong(k) ==
  /\ Screen = "LOCKED"
  /\ IF k = "B" THEN Show(ShowTodo([ui EXCEPT !.locked = FALSE, !.overlay = "NONE"]))
     ELSE ShowTimed(ui, "LOCKED_HINT", {})

StandbyLong(k) ==
  /\ Screen = "STANDBY"
  /\ \/ k = "R" /\ Show([ui EXCEPT !.overlay = "SYNC_CONFIRM"])
     \/ k = "M" /\ TodoHold
     \/ k = "B" /\ Become([ui EXCEPT !.mode = "PAIRING"], Did("enter_pairing"), armed)

RecordingLong(k) ==
  /\ Screen = "RECORDING"
  /\ \/ k = "R" /\ BeginClose
     \/ k = "B" /\ Show([ui EXCEPT !.locked = TRUE, !.overlay = "NONE"])

LongPress(k) ==
  IF Screen \notin LongActs[k] THEN Ignore
  ELSE Snooze \/ LockedLong(k) \/ StandbyLong(k) \/ RecordingLong(k)

TodoRelease ==
  IF ui.overlay # "TODO_LISTEN" THEN Ignore
  ELSE \/ ShowTimed(ui, "TODO_OK", {<<"capture_end", "ok">>, <<"mark_point", "ok">>})
       \/ Become([ui EXCEPT !.overlay = "TODO_FAILED"], {<<"capture_end", "fail">>}, armed)

(* Wrong variant: a capture in progress does not defer the reminder.       *)
RtcAlarmAtOnce ==
  IF ui.mode \in {"CLOSING", "ENDING", "STORAGE_ERROR"}
    THEN Show([ui EXCEPT !.reminder = TRUE])
    ELSE Show(ShowReminder(ui))

RtcAlarm ==
  IF ui.mode \in {"CLOSING", "ENDING", "STORAGE_ERROR"} \/ ui.overlay = "TODO_LISTEN"
    THEN Show([ui EXCEPT !.reminder = TRUE])
    ELSE Show(ShowReminder(ui))

-----------------------------------------------------------------------------
(* on_timer, one operator per timer.                                       *)
OnPairing ==
  IF ui.mode = "PAIRING" /\ ui.pairing = "BOUND"
    THEN Show([ui EXCEPT !.mode = "STANDBY"]) ELSE Ignore

OnClosePoll ==
  IF ui.mode # "CLOSING" THEN Ignore
  ELSE \/ CloseDone({<<"close_status", "ok">>})
       \/ EnterError("OTHER", TRUE, {<<"close_status", "fail">>})
       \/ LET polled == [ui EXCEPT !.polls = @ + 1] IN
            IF polled.polls >= ClosePollLimit
              THEN Become(Errored(polled, "TIMEOUT", FALSE), {<<"close_status", "busy">>},
                          armed \ {"CLOSE_POLL"})
              ELSE Become(polled, {<<"close_status", "busy">>}, armed \cup {"CLOSE_POLL"})

(* Wrong variant: what waited is not looked at.                            *)
OnEndingPlain ==
  IF ui.mode = "ENDING" THEN Show([ui EXCEPT !.mode = Home(ui)]) ELSE Ignore

OnEnding ==
  IF ui.mode = "ENDING"
    THEN Show(ShowWaiting([ui EXCEPT !.mode = Home(ui)])) ELSE Ignore

OnOverlay ==
  CASE ui.overlay \in {"SNOOZED", "TODO_OK"} ->
         Show(ShowWaiting([ui EXCEPT !.overlay = "NONE"]))
    [] ui.overlay \in {"LOCKED_HINT", "SYNC_DONE"} -> Show([ui EXCEPT !.overlay = "NONE"])
    [] OTHER -> Ignore

OnTimer(t) ==
  \/ t = "PAIRING" /\ OnPairing
  \/ t = "CLOSE_POLL" /\ OnClosePoll
  \/ t = "ENDING" /\ OnEnding
  \/ t = "OVERLAY" /\ OnOverlay

-----------------------------------------------------------------------------
(* Events of the other tasks.                                              *)
(* Wrong variant: a CLOSE_DONE after the timeout is not heard.             *)
SessionCloseDoneOnTime == IF ui.mode = "CLOSING" THEN CloseDone({}) ELSE Ignore

SessionCloseDone ==
  IF ui.mode = "CLOSING" THEN CloseDone({})
  ELSE IF ui.mode = "STORAGE_ERROR" /\ ui.error = "TIMEOUT"
         THEN Become([ui EXCEPT !.mode = "ENDING", !.error = "NONE", !.settled = TRUE],
                     {}, armed \cup {"ENDING"})
         ELSE Ignore

SessionSettled ==
  IF ui.mode = "STORAGE_ERROR" THEN Show([ui EXCEPT !.settled = TRUE]) ELSE Ignore

(* Wrong variants: the microphone is not stopped; the error counts as      *)
(* settled before the writer says so.                                      *)
StorageErrorKeepsMic ==
  CASE ui.mode \in {"RECORDING", "CLOSING"} -> EnterError("OTHER", FALSE, {})
    [] ui.mode = "STORAGE_ERROR" /\ ~ui.settled -> Show([ui EXCEPT !.error = "OTHER"])
    [] OTHER -> Ignore
StorageErrorSettled ==
  CASE ui.mode = "RECORDING" -> EnterError("OTHER", TRUE, Did("stop_recording"))
    [] ui.mode = "CLOSING" -> EnterError("OTHER", TRUE, {})
    [] OTHER -> Ignore

StorageError ==
  CASE ui.mode = "RECORDING" -> EnterError("OTHER", FALSE, Did("stop_recording"))
    [] ui.mode = "CLOSING" -> EnterError("OTHER", FALSE, {})
    [] ui.mode = "STORAGE_ERROR" /\ ~ui.settled -> Show([ui EXCEPT !.error = "OTHER"])
    [] OTHER -> Ignore

PairingChange(p) ==
  LET paired == [ui EXCEPT !.pairing = p]
  IN CASE ui.mode = "PAIRING" /\ p = "BOUND" ->
            Become(paired, Did("exit_pairing"), armed \cup {"PAIRING"})
       [] ui.mode = "STANDBY" /\ p = "CLAIM_PENDING" ->
            Show([paired EXCEPT !.mode = "PAIRING"])
       [] OTHER -> Show(paired)

BatteryCritical == IF ui.mode = "RECORDING" THEN BeginClose ELSE Ignore

TodoResult(page) ==
  IF \/ ui.mode \in {"CLOSING", "ENDING", "STORAGE_ERROR", "PAIRING"}
     \/ ui.locked
     \/ ui.overlay \in {"REMINDER", "TODO_LISTEN", "SNOOZED", "LOCKED_HINT", "SYNC_CONFIRM",
                        "SYNC_PROGRESS", "SYNC_DONE", "SYNC_FAILED"}
    THEN Show([ui EXCEPT !.todo = page])
    ELSE Show([ui EXCEPT !.overlay = page, !.todo = "NONE"])

SyncChange(s) ==
  \/ s = "RUNNING" /\ Show([ui EXCEPT !.overlay = "SYNC_PROGRESS"])
  \/ s = "DONE" /\ ShowTimed(ui, "SYNC_DONE", {})
  \/ s = "FAILED" /\ Show([ui EXCEPT !.overlay = "SYNC_FAILED"])

(* app_state_handle: an event is a pair <<kind, argument>>.                *)
Handle(e) ==
  \/ e[1] = "SHORT" /\ ShortPress(e[2])
  \/ e[1] = "LONG" /\ LongPress(e[2])
  \/ e[1] = "MARK_RELEASE" /\ TodoRelease
  \/ e[1] = "RTC_ALARM" /\ RtcAlarm
  \/ e[1] = "TIMER" /\ OnTimer(e[2])
  \/ e[1] = "CLOSE_DONE" /\ SessionCloseDone
  \/ e[1] = "SETTLED" /\ SessionSettled
  \/ e[1] = "STORAGE_ERROR" /\ StorageError
  \/ e[1] = "PAIRING_CHANGE" /\ PairingChange(e[2])
  \/ e[1] = "BATTERY_CRITICAL" /\ BatteryCritical
  \/ e[1] = "TODO_RESULT" /\ TodoResult(e[2])
  \/ e[1] = "SYNC_CHANGE" /\ SyncChange(e[2])
=============================================================================
