------------------------------- MODULE Agenda -------------------------------
(***************************************************************************)
(* The owner's agenda on the card.  The server keeps the events and counts *)
(* the revisions; the network task fetches the days ahead when there is a  *)
(* newer revision (agenda_sync_once); the card keeps what the user did     *)
(* with its reminders, stores everything in agenda.json and programs the   *)
(* one alarm of its clock with the next reminder.  The card may be bound   *)
(* to another owner, lose power or fail to write at any time.              *)
(***************************************************************************)
EXTENDS Integers, FiniteSets, FiniteSetsExt

CONSTANTS
    Last,        \* the events are 1 .. Last, in the order the card lists them
    Horizon,     \* the clock stops there; a unit is the ten minutes of a snooze
    Window,      \* window_days, in units
    Day,         \* how late a reminder is still shown, in units
    Bindings,    \* binding generations, each with an owner of its own
    MaxChanges,  \* changes the owners make
    FaultKinds,  \* what may go wrong: "lost" (a request or its answer), "power", "sd"
    MaxFaults    \* how often something goes wrong

ASSUME AgendaAssumption ==
    /\ {Last, Horizon, Window, Day, Bindings} \subseteq Nat \ {0}
    /\ MaxChanges \in Nat /\ MaxFaults \in Nat
    /\ FaultKinds \subseteq {"lost", "power", "sd"}

Events == 1 .. Last

VARIABLES
    now,      \* the clock
    srv,      \* every owner's events and the revision of his agenda
    bound,    \* the binding generation
    agenda,   \* s_agenda
    disk,     \* agenda.json and agenda.json.bak
    alarm,    \* the time programmed into the clock, 0 for none
    rung,     \* an RTC_ALARM event waits for the application
    active,   \* s_active_reminder: the event whose page is up, 0 for none
    unplanned,\* a step ended before it programmed the alarm, for a failed write
    call,     \* the request the network task waits for, and its answer
    changes, faults  \* how many changes and faults there were

vars == <<now, srv, bound, agenda, disk, alarm, rung, active, unplanned, call, changes, faults>>

Fault(kind) == kind \in FaultKinds /\ faults < MaxFaults /\ faults' = faults + 1

-----------------------------------------------------------------------------
(* The server. *)

NoEvent == [start |-> 0, remind |-> 0]
NoItem == [start |-> 0, remind |-> 0, dismissed |-> FALSE]

(* An event and the revision change in one transaction.                    *)
(* Wrong variant of Changed: moving an event leaves the revision alone.     *)
ChangedQuietly(s, e, event) ==
    [s EXCEPT !.events[e] = event, !.rev = IF s.events[e] = NoEvent \/ event = NoEvent THEN @ + 1 ELSE @]
Changed(s, e, event) == [s EXCEPT !.events = [@ EXCEPT ![e] = event], !.rev = @ + 1]
Change ==
    /\ changes < MaxChanges /\ changes' = changes + 1
    /\ \E g \in 1 .. Bindings, e \in Events, t \in now .. Horizon, r \in 0 .. Horizon :
       \E event \in {[start |-> t, remind |-> r], NoEvent} :
          /\ event # srv[g].events[e]
          /\ event.remind \in {event.start - 1, event.start, event.start + 1} \/ event = NoEvent
          /\ srv' = [srv EXCEPT ![g] = Changed(@, e, event)]
    /\ UNCHANGED <<now, bound, agenda, disk, alarm, rung, active, unplanned, call, faults>>

(* agenda_snapshot: the events of the window, no reminder after its event. *)
Reminder(event) == Min({event.remind, event.start})
Ahead(event) == event.start >= now /\ event.start < now + Window /\ event.start > 0
Projected(s) ==
    [e \in Events |->
        IF Ahead(s.events[e])
        THEN [start |-> s.events[e].start, remind |-> Reminder(s.events[e]), dismissed |-> FALSE]
        ELSE NoItem]
NoItems == [e \in Events |-> NoItem]
Snapshot(g, after) ==
    [have |-> TRUE, gen |-> g, rev |-> srv[g].rev, synced |-> now,
     items |-> IF srv[g].rev <= after THEN NoItems ELSE Projected(srv[g])]

-----------------------------------------------------------------------------
(* The card: its file and its alarm. *)

NoAgenda == [have |-> FALSE, gen |-> 0, rev |-> 0, synced |-> 0, items |-> NoItems]
NoCall == [step |-> "none", gen |-> 0, after |-> 0, answer |-> NoAgenda]

(* parse_agenda: a reminder after its event makes the whole file invalid.  *)
Valid(doc) == doc.have /\ \A e \in Events : doc.items[e].remind <= doc.items[e].start
(* luoye_agenda_next_index.                                                 *)
(* Wrong variant of NextReminder: the first of the list, not the nearest.   *)
Coming == {e \in Events : ~agenda'.items[e].dismissed /\ agenda'.items[e].remind > now}
NextReminderListed == IF Coming = {} THEN 0 ELSE agenda'.items[Min(Coming)].remind
NextReminder == IF Coming = {} THEN 0 ELSE Min({agenda'.items[e].remind : e \in Coming})
Schedule == alarm' = NextReminder /\ unplanned' = FALSE

(* agenda_save_locked, and agenda_schedule_next if it succeeded.           *)
Store ==
    \/ disk' = [main |-> agenda', bak |-> disk.main] /\ Schedule /\ UNCHANGED faults
    \/ Fault("sd") /\ unplanned' = TRUE /\ UNCHANGED <<disk, alarm>>

-----------------------------------------------------------------------------
(* Fetching the agenda. *)

Ask ==
    /\ call.step = "none"
    /\ call' = [NoCall EXCEPT !.step = "sent", !.gen = bound,
                  !.after = IF agenda.have /\ agenda.gen = bound THEN agenda.rev ELSE 0]
    /\ UNCHANGED <<now, srv, bound, agenda, disk, alarm, rung, active, unplanned, changes, faults>>
(* The token of an earlier binding is refused.                              *)
Serve ==
    /\ call.step = "sent"
    /\ call' = IF call.gen # bound THEN NoCall
               ELSE [call EXCEPT !.step = "ok", !.answer = Snapshot(call.gen, call.after)]
    /\ UNCHANGED <<now, srv, bound, agenda, disk, alarm, rung, active, unplanned, changes, faults>>
Lose ==
    /\ call.step # "none" /\ Fault("lost")
    /\ call' = NoCall
    /\ UNCHANGED <<now, srv, bound, agenda, disk, alarm, rung, active, unplanned, changes>>

(* luoye_agenda_accept.                                                     *)
(* Wrong variant of Accepts: revisions must follow one another.             *)
AcceptsNext(doc) ==
    IF agenda.have /\ agenda.gen # doc.gen THEN doc.rev > 0
    ELSE doc.rev = (IF agenda.have THEN agenda.rev ELSE 0) + 1
Accepts(doc) ==
    IF agenda.have /\ agenda.gen # doc.gen THEN doc.rev > 0
    ELSE doc.rev > (IF agenda.have THEN agenda.rev ELSE 0)
(* preserve_local_actions.                                                  *)
Preserved(doc) ==
    IF ~agenda.have \/ agenda.gen # doc.gen THEN doc.items
    ELSE [e \in Events |->
            IF doc.items[e] = NoItem \/ agenda.items[e] = NoItem THEN doc.items[e]
            ELSE [doc.items[e] EXCEPT
                    !.dismissed = agenda.items[e].dismissed,
                    !.remind = IF agenda.items[e].dismissed THEN @ ELSE Max({@, agenda.items[e].remind})]]
(* Wrong variant of Ours: an answer for an earlier owner is taken.          *)
OursAnyhow(doc) == Valid(doc)
Ours(doc) == Valid(doc) /\ doc.gen = bound
Apply ==
    /\ call.step = "ok" /\ call' = NoCall
    /\ IF Ours(call.answer) /\ Accepts(call.answer)
       THEN agenda' = [call.answer EXCEPT !.items = Preserved(call.answer)] /\ Store
       ELSE UNCHANGED <<agenda, disk, alarm, unplanned, faults>>
    /\ UNCHANGED <<now, srv, bound, rung, active, changes>>

(* agenda_reset_binding. *)
Foreign(doc, g) == doc.have /\ doc.gen # g
Rebind ==
    /\ bound < Bindings /\ bound' = bound + 1
    /\ IF Foreign(agenda, bound') THEN
          /\ agenda' = NoAgenda /\ disk' = [main |-> NoAgenda, bak |-> NoAgenda]
          /\ alarm' = 0 /\ active' = 0
       ELSE UNCHANGED <<agenda, disk, alarm, active>>
    /\ UNCHANGED <<now, srv, rung, unplanned, call, changes, faults>>

-----------------------------------------------------------------------------
(* Reminders.  The clock rings within seconds and the application takes    *)
(* the event as fast: neither waits for ten minutes.                       *)

Tick ==
    /\ now < Horizon /\ ~rung /\ (alarm = 0 \/ alarm > now)
    /\ now' = now + 1
    /\ UNCHANGED <<srv, bound, agenda, disk, alarm, rung, active, unplanned, call, changes, faults>>
(* poll_task finds the alarm flag, clears the alarm and posts.              *)
Ring ==
    /\ alarm # 0 /\ alarm <= now
    /\ alarm' = 0 /\ rung' = TRUE
    /\ UNCHANGED <<now, srv, bound, agenda, disk, active, unplanned, call, changes, faults>>

(* agenda_take_due: the earliest reminder that is due.                     *)
DueItems == {e \in Events : ~agenda.items[e].dismissed /\ agenda.items[e].remind \in 1 .. now}
Earliest == CHOOSE e \in DueItems :
    \A f \in DueItems :
       \/ agenda.items[e].remind < agenda.items[f].remind
       \/ agenda.items[e].remind = agenda.items[f].remind /\ e <= f
TakeDue ==
    /\ rung /\ rung' = FALSE
    /\ IF DueItems # {} /\ agenda.items[Earliest].remind >= now - Day
       THEN active' = Earliest /\ UNCHANGED <<agenda, alarm, unplanned>>
       ELSE UNCHANGED <<agenda, active>> /\ Schedule
    /\ UNCHANGED <<now, srv, bound, disk, call, changes, faults>>

(* agenda_reminder_action: to dismiss it or begin the meeting, or to be    *)
(* reminded in ten minutes.                                                 *)
Handled ==
    LET item == agenda.items[active]
    IN  \E new \in {[item EXCEPT !.dismissed = TRUE], [item EXCEPT !.remind = now + 1]} :
           agenda' = [agenda EXCEPT !.items = [@ EXCEPT ![active] = new]]
Handle ==
    /\ active # 0 /\ active' = 0
    /\ IF agenda.items[active] = NoItem THEN UNCHANGED <<agenda, disk, alarm, unplanned, faults>>
       ELSE Handled /\ Store
    /\ UNCHANGED <<now, srv, bound, rung, call, changes>>

-----------------------------------------------------------------------------
(* agenda_todo_init after a power failure: the file, or else the one before *)
(* it; what belongs to another owner goes.                                  *)
Loaded ==
    IF Valid(disk.main) THEN disk.main ELSE IF Valid(disk.bak) THEN disk.bak ELSE NoAgenda
Reboot ==
    /\ Fault("power")
    /\ IF Foreign(Loaded, bound)
       THEN agenda' = NoAgenda /\ disk' = [main |-> NoAgenda, bak |-> NoAgenda]
       ELSE agenda' = Loaded /\ UNCHANGED disk
    /\ Schedule
    /\ rung' = FALSE /\ active' = 0 /\ call' = NoCall
    /\ UNCHANGED <<now, srv, bound, changes>>

-----------------------------------------------------------------------------
Init ==
    /\ now = 1 /\ bound = 1
    /\ srv = [g \in 1 .. Bindings |-> [rev |-> 0, events |-> [e \in Events |-> NoEvent]]]
    /\ agenda = NoAgenda /\ disk = [main |-> NoAgenda, bak |-> NoAgenda]
    /\ alarm = 0 /\ rung = FALSE /\ active = 0 /\ unplanned = FALSE
    /\ call = NoCall /\ changes = 0 /\ faults = 0

Fetch == Ask \/ Serve \/ Apply
Reminders == Ring \/ TakeDue
Next == Change \/ Fetch \/ Lose \/ Rebind \/ Tick \/ Reminders \/ Handle \/ Reboot

Spec == Init /\ [][Next]_vars
(* The network task polls every few minutes whenever the card is idle and   *)
(* online; the clock rings and the application takes what is posted.        *)
FairSpec == Spec /\ WF_vars(Fetch) /\ WF_vars(Ring) /\ WF_vars(TakeDue) /\ WF_vars(Handle)

-----------------------------------------------------------------------------
ItemsType == [Events -> [start : 0 .. Horizon, remind : 0 .. Horizon + 1, dismissed : BOOLEAN]]
DocType == [have : BOOLEAN, gen : 0 .. Bindings, rev : Nat, synced : 0 .. Horizon, items : ItemsType]
(* The type of the state; what the server sends is always valid.            *)
TypeOK ==
    /\ now \in 1 .. Horizon /\ bound \in 1 .. Bindings
    /\ \A g \in 1 .. Bindings : srv[g].rev \in 0 .. MaxChanges
    /\ agenda \in DocType /\ disk \in [main : DocType, bak : DocType]
    /\ alarm \in 0 .. Horizon + 1 /\ rung \in BOOLEAN /\ active \in 0 .. Last /\ unplanned \in BOOLEAN
    /\ call.step \in {"none", "sent", "ok"} /\ (call.step = "ok" => Valid(call.answer))
    /\ changes \in 0 .. MaxChanges /\ faults \in 0 .. MaxFaults

(* What the card shows and what its alarm is set for belongs to the owner   *)
(* it is bound to, also when an answer for the owner before comes after the *)
(* binding, and after a power failure.                                      *)
Isolated == IF agenda.have THEN agenda.gen = bound ELSE alarm = 0 /\ active = 0

(* A card with the revision of the server has exactly the events of the     *)
(* days that lay ahead when it asked: the same revision is the same agenda. *)
SameRevision ==
    agenda.have /\ agenda.rev = srv[bound].rev =>
        \A e \in Events :
            LET start == srv[bound].events[e].start
            IN  agenda.items[e].start =
                   IF start \in agenda.synced .. agenda.synced + Window - 1 THEN start ELSE 0

(* A reminder still to come has an alarm that rings no later, unless a page *)
(* is up (nothing is programmed before it is answered), the alarm has just  *)
(* rung, or a write failed since.                                           *)
Armed ==
    LET coming == {e \in Events : ~agenda.items[e].dismissed /\ agenda.items[e].remind > now}
    IN  active = 0 /\ ~rung /\ ~unplanned =>
           \A e \in coming : alarm # 0 /\ alarm <= agenda.items[e].remind

(* What the user has dismissed stays dismissed, through every new revision  *)
(* and through a power failure that finds the file as it was last written.  *)
DismissedStays ==
    [][\A e \in Events :
          /\ agenda.items[e].dismissed /\ agenda'.items[e] # NoItem
          /\ agenda.gen = agenda'.gen
          /\ faults' = faults \/ (disk.main = agenda /\ Valid(disk.main))
          => agenda'.items[e].dismissed]_vars

(* The card catches up with its owner's agenda again and again, whatever    *)
(* was lost or is unreadable.                                               *)
CatchesUp == []<>(srv[bound].rev = (IF agenda.have THEN agenda.rev ELSE 0))

(* The documentation: the cached agenda is there without a network.  What   *)
(* the card wrote last can be read when it starts up.                       *)
ReadBack == agenda.have /\ disk.main = agenda => Valid(disk.main)
=============================================================================
