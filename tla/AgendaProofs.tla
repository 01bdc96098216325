---------------------------- MODULE AgendaProofs ----------------------------
(***************************************************************************)
(* For any number of events, owners, changes and faults: the card shows    *)
(* only what belongs to the owner it is bound to, a revision stands for one *)
(* agenda, the alarm rings no later than the next reminder, and what was   *)
(* dismissed stays so.                                                      *)
(***************************************************************************)
EXTENDS Agenda, WellFoundedInduction, TLAPS

-----------------------------------------------------------------------------
(* The inductive invariant.                                                *)

Servers == [1 .. Bindings -> [rev : 0 .. MaxChanges, events : [Events -> [start : 0 .. Horizon, remind : 0 .. Horizon]]]]
Calls == [step : {"none", "sent", "ok"}, gen : 0 .. Bindings, after : Nat, answer : DocType]

(* Every variable has its type; every revision is a change of an owner.    *)
Typed ==
  /\ now \in 1 .. Horizon /\ bound \in 1 .. Bindings
  /\ srv \in Servers /\ changes \in 0 .. MaxChanges
  /\ \A g \in 1 .. Bindings : srv[g].rev <= changes
  /\ agenda \in DocType /\ disk \in [main : DocType, bak : DocType]
  /\ alarm \in 0 .. Horizon + 1 /\ rung \in BOOLEAN /\ active \in 0 .. Last /\ unplanned \in BOOLEAN
  /\ call \in Calls /\ faults \in 0 .. MaxFaults

(* What is not there holds nothing.                                        *)
Empty == ~agenda.have => agenda = NoAgenda

(* A document tells of a past revision of its owner, or of the present one. *)
Shows(doc, s) ==
  \A e \in Events :
     doc.items[e].start = IF s.events[e].start \in doc.synced .. doc.synced + Window - 1
                          THEN s.events[e].start ELSE 0
Tells(doc, servers) ==
  doc.have =>
     /\ doc.gen \in 1 .. Bindings /\ doc.rev <= servers[doc.gen].rev
     /\ doc.rev = servers[doc.gen].rev => Shows(doc, servers[doc.gen])
Told == Tells(agenda, srv) /\ Tells(disk.main, srv) /\ Tells(disk.bak, srv)

(* An answer is the whole agenda if it is newer than what was asked from.  *)
Answers ==
  /\ call.step # "none" => call.gen \in 1 .. bound
  /\ call.step # "none" /\ call.gen = bound =>
        call.after <= IF agenda.have THEN agenda.rev ELSE 0
  /\ call.step = "ok" =>
        /\ Valid(call.answer) /\ call.answer.gen = call.gen
        /\ call.answer.rev <= srv[call.gen].rev
        /\ call.answer.rev = srv[call.gen].rev /\ call.answer.rev > call.after => Shows(call.answer, srv[call.gen])

(* Armed, also when the event whose page is up is gone.                    *)
Planned ==
  (active = 0 \/ agenda.items[active] = NoItem) /\ ~rung /\ ~unplanned =>
     \A e \in Events :
        ~agenda.items[e].dismissed /\ agenda.items[e].remind > now =>
           alarm # 0 /\ alarm <= agenda.items[e].remind

IInv == Typed /\ Empty /\ Isolated /\ Told /\ Answers /\ Planned

-----------------------------------------------------------------------------
(* The constants, and minima. *)

LEMMA Constants ==
  /\ Last \in Nat /\ Last > 0 /\ Horizon \in Nat /\ Horizon > 0 /\ Window \in Nat /\ Window > 0
  /\ Day \in Nat /\ Bindings \in Nat /\ Bindings > 0 /\ MaxChanges \in Nat /\ MaxFaults \in Nat
BY AgendaAssumption

LEMMA Nothings ==
  /\ NoItems \in ItemsType /\ NoAgenda \in DocType /\ NoCall \in Calls
  /\ ~NoAgenda.have /\ NoAgenda.rev = 0 /\ \A e \in Events : NoAgenda.items[e] = NoItem
  /\ NoItem.start = 0 /\ NoItem.remind = 0 /\ ~NoItem.dismissed /\ NoCall.step = "none"
BY Constants DEF NoItems, NoItem, ItemsType, NoAgenda, DocType, NoCall, Calls

LEMMA MinIsIn ==
  ASSUME NEW S \in SUBSET Nat, S # {} PROVE Min(S) \in S /\ \A y \in S : Min(S) <= y
<1> DEFINE R == OpToRel(<, Nat)
<1>1. IsWellFoundedOn(R, Nat) BY NatLessThanWellFounded
<1>2. ASSUME NEW a \in Nat, NEW b \in Nat PROVE (<<a, b>> \in R) <=> a < b
  BY DEF OpToRel
<1> HIDE DEF R
<1>3. \E x \in S : \A y \in S : ~ (<<y, x>> \in R) BY <1>1, WFMin
<1>4. PICK x \in S : \A y \in S : ~ (<<y, x>> \in R) BY <1>3
<1>5. ASSUME NEW y \in S PROVE x <= y
  <2>1. x \in Nat /\ y \in Nat OBVIOUS
  <2>2. ~(y < x) BY <2>1, <1>2, <1>4
  <2> QED BY <2>1, <2>2
<1> QED BY <1>5 DEF Min

(* The clock is programmed with the nearest reminder to come.              *)
LEMMA ScheduleFacts ==
  ASSUME agenda' \in DocType, now \in 1 .. Horizon, Schedule
  PROVE  /\ alarm' \in 0 .. Horizon + 1 /\ unplanned' = FALSE
         /\ \A e \in Events :
              ~agenda'.items[e].dismissed /\ agenda'.items[e].remind > now =>
                 alarm' # 0 /\ alarm' <= agenda'.items[e].remind
         /\ (\A e \in Events : agenda'.items[e] = NoItem) => alarm' = 0
<1> DEFINE R == {agenda'.items[e].remind : e \in Coming}
<1>1. alarm' = NextReminder /\ unplanned' = FALSE BY DEF Schedule
<1>2. \A e \in Events : agenda'.items[e].remind \in 0 .. Horizon + 1 BY DEF DocType, ItemsType
<1>3. CASE Coming = {}
  <2>1. alarm' = 0 BY <1>1, <1>3 DEF NextReminder
  <2>2. ~ \E e \in Events : ~agenda'.items[e].dismissed /\ agenda'.items[e].remind > now
    BY <1>3 DEF Coming
  <2> QED BY <1>1, <2>1, <2>2, Constants
<1>4. CASE Coming # {}
  <2>1. alarm' = Min(R) BY <1>1, <1>4 DEF NextReminder
  <2>2. R \in SUBSET Nat /\ R # {} BY <1>2, <1>4, Constants DEF Coming
  <2>3. \A r \in R : r \in 0 .. Horizon + 1 /\ r > now BY <1>2 DEF Coming
  <2>4. \A e \in Events :
          ~agenda'.items[e].dismissed /\ agenda'.items[e].remind > now => agenda'.items[e].remind \in R
    BY DEF Coming
  <2>5. ~ \A e \in Events : agenda'.items[e] = NoItem
    <3>1. PICK e \in Events : agenda'.items[e].remind > now BY <1>4 DEF Coming
    <3> QED BY <3>1, Nothings
  <2> HIDE DEF R
  <2>6. alarm' \in R /\ \A r \in R : alarm' <= r BY <2>1, <2>2, MinIsIn
  <2>7. alarm' # 0 BY <2>3, <2>6
  <2> QED BY <1>1, <2>3, <2>4, <2>5, <2>6, <2>7
<1> QED BY <1>3, <1>4

(* Written and planned, or neither.                                        *)
LEMMA StoreFacts ==
  ASSUME Typed, agenda' \in DocType, Store
  PROVE  /\ alarm' \in 0 .. Horizon + 1 /\ unplanned' \in BOOLEAN /\ faults' \in 0 .. MaxFaults
         /\ disk' = disk \/ disk' = [main |-> agenda', bak |-> disk.main]
         /\ disk' \in [main : DocType, bak : DocType]
         /\ unplanned' \/
              \A e \in Events :
                 ~agenda'.items[e].dismissed /\ agenda'.items[e].remind > now =>
                    alarm' # 0 /\ alarm' <= agenda'.items[e].remind
<1> USE DEF Typed
<1>1. CASE disk' = [main |-> agenda', bak |-> disk.main] /\ Schedule /\ UNCHANGED faults
  BY <1>1, ScheduleFacts
<1>2. CASE Fault("sd") /\ unplanned' = TRUE /\ UNCHANGED <<disk, alarm>>
  BY <1>2, Constants DEF Fault
<1> QED BY <1>1, <1>2 DEF Store

LEMMA EarliestIsDue == ASSUME Typed, DueItems # {} PROVE Earliest \in DueItems
<1> DEFINE R == {agenda.items[e].remind : e \in DueItems}
           m == Min(R)
           E == {e \in DueItems : agenda.items[e].remind = m}
           f == Min(E)
<1>1. DueItems \in SUBSET Nat BY Constants DEF DueItems, Events
<1>2. \A e \in DueItems : agenda.items[e].remind \in Nat
  BY Constants DEF DueItems, Typed, DocType, ItemsType
<1>3. R \in SUBSET Nat /\ R # {} BY <1>2
<1>4. m \in R /\ \A r \in R : m <= r BY <1>3, MinIsIn
<1>5. E \in SUBSET Nat /\ E # {} BY <1>1, <1>4
<1>6. f \in E /\ \A e \in E : f <= e BY <1>5, MinIsIn
<1>7. \A e \in DueItems : agenda.items[e].remind \in R BY DEF R
<1>8. f \in DueItems /\ agenda.items[f].remind = m BY <1>6
<1> HIDE DEF R, m, f
<1>9. ASSUME NEW e \in DueItems
      PROVE  \/ agenda.items[f].remind < agenda.items[e].remind
             \/ agenda.items[f].remind = agenda.items[e].remind /\ f <= e
  <2>1. m <= agenda.items[e].remind /\ m \in Nat /\ agenda.items[e].remind \in Nat
    BY <1>2, <1>3, <1>4, <1>7
  <2>2. CASE m < agenda.items[e].remind BY <1>8, <2>2
  <2>3. CASE m = agenda.items[e].remind BY <1>6, <1>8, <2>3
  <2> QED BY <2>1, <2>2, <2>3
<1> HIDE DEF E
<1> QED BY <1>8, <1>9 DEF Earliest

-----------------------------------------------------------------------------
LEMMA InitInv == Init => IInv
<1> SUFFICES ASSUME Init PROVE IInv OBVIOUS
<1>1. srv \in Servers /\ \A g \in 1 .. Bindings : srv[g].rev = 0
  <2>1. NoEvent \in [start : 0 .. Horizon, remind : 0 .. Horizon] BY Constants DEF NoEvent
  <2> QED BY <2>1, Constants DEF Init, Servers
<1>2. Typed
  <2>1. /\ now \in 1 .. Horizon /\ bound \in 1 .. Bindings /\ changes \in 0 .. MaxChanges
        /\ alarm \in 0 .. Horizon + 1 /\ active \in 0 .. Last /\ faults \in 0 .. MaxFaults
    BY Constants DEF Init
  <2>4. rung \in BOOLEAN /\ unplanned \in BOOLEAN BY DEF Init
  <2>2. agenda \in DocType /\ disk \in [main : DocType, bak : DocType] /\ call \in Calls
    BY Nothings DEF Init
  <2>3. \A g \in 1 .. Bindings : srv[g].rev <= changes BY <1>1 DEF Init
  <2> QED BY <1>1, <2>1, <2>2, <2>3, <2>4 DEF Typed
<1>3. Empty /\ Isolated /\ Told /\ Answers BY Nothings DEF Init, Empty, Isolated, Told, Tells, Answers
<1>4. Planned BY Nothings DEF Init, Planned
<1> QED BY <1>2, <1>3, <1>4 DEF IInv

(* Where neither an agenda, nor a file, nor a server changes.              *)
LEMMA QuietInv ==
  ASSUME IInv, UNCHANGED <<srv, bound, agenda, disk, changes>>, faults' \in 0 .. MaxFaults,
         now' \in 1 .. Horizon, alarm' \in 0 .. Horizon + 1, rung' \in BOOLEAN,
         active' \in 0 .. Last, unplanned' \in BOOLEAN, call' \in Calls,
         Isolated', Answers', Planned'
  PROVE  IInv'
<1>1. Typed' BY DEF IInv, Typed
<1>2. Empty' BY DEF IInv, Empty
<1>3. Told' BY DEF IInv, Told
<1> QED BY <1>1, <1>2, <1>3 DEF IInv

LEMMA TickInv == ASSUME IInv, Tick PROVE IInv'
<1> USE DEF IInv, Typed
<1>1. /\ now' = now + 1 /\ now < Horizon
      /\ UNCHANGED <<srv, bound, agenda, disk, alarm, rung, active, unplanned, call, changes, faults>>
  BY DEF Tick
<1>2. now' \in 1 .. Horizon BY <1>1, Constants
<1>3. Planned'
  <2>1. \A e \in Events : agenda.items[e].remind > now' => agenda.items[e].remind > now
    BY <1>1, Constants DEF DocType, ItemsType
  <2> QED BY <1>1, <2>1 DEF Planned
<1>4. Isolated' /\ Answers' BY <1>1 DEF Isolated, Answers, Valid
<1> QED BY <1>1, <1>2, <1>3, <1>4, QuietInv

LEMMA RingInv == ASSUME IInv, Ring PROVE IInv'
<1> USE DEF IInv, Typed
<1>1. /\ alarm # 0 /\ alarm' = 0 /\ rung' = TRUE
      /\ UNCHANGED <<now, srv, bound, agenda, disk, active, unplanned, call, changes, faults>>
  BY DEF Ring
<1>2. Planned' BY <1>1 DEF Planned
<1>3. Isolated' /\ Answers' BY <1>1 DEF Isolated, Answers, Valid
<1>4. alarm' \in 0 .. Horizon + 1 BY <1>1, Constants
<1> QED BY <1>1, <1>2, <1>3, <1>4, QuietInv

LEMMA AskInv == ASSUME IInv, Ask PROVE IInv'
<1> USE DEF IInv, Typed
<1> DEFINE after == IF agenda.have /\ agenda.gen = bound THEN agenda.rev ELSE 0
<1>1. /\ call' = [NoCall EXCEPT !.step = "sent", !.gen = bound, !.after = after]
      /\ UNCHANGED <<now, srv, bound, agenda, disk, alarm, rung, active, unplanned, changes, faults>>
  BY DEF Ask
<1>2. after \in Nat /\ after <= IF agenda.have THEN agenda.rev ELSE 0
  BY DEF DocType
<1> HIDE DEF after
<1>3. call' \in Calls /\ call'.step = "sent" /\ call'.gen = bound /\ call'.after = after
  <2>1. call' = [step |-> "sent", gen |-> bound, after |-> after, answer |-> NoAgenda]
    BY <1>1 DEF NoCall
  <2>2. bound \in 0 .. Bindings BY Constants
  <2> QED BY <1>2, <2>1, <2>2, Nothings DEF Calls
<1>4. Isolated' /\ Planned' BY <1>1 DEF Isolated, Planned
<1>5. Answers' BY <1>1, <1>2, <1>3, Constants DEF Answers
<1> QED BY <1>1, <1>3, <1>4, <1>5, QuietInv

LEMMA NoCallInv ==
  ASSUME IInv, call' = NoCall, faults' \in 0 .. MaxFaults,
         UNCHANGED <<now, srv, bound, agenda, disk, alarm, rung, active, unplanned, changes>>
  PROVE  IInv'
<1>1. Isolated' /\ Planned' BY DEF IInv, Isolated, Planned
<1>2. Answers' BY Nothings DEF Answers
<1> QED BY <1>1, <1>2, Nothings, QuietInv DEF IInv, Typed

(* The answer holds the events ahead, no reminder after its event.         *)
LEMMA SnapshotFacts ==
  ASSUME Typed, NEW g \in 1 .. Bindings, NEW after \in Nat,
         NEW doc, doc = Snapshot(g, after)
  PROVE  /\ doc \in DocType /\ Valid(doc) /\ doc.gen = g /\ doc.rev = srv[g].rev
         /\ doc.rev > after => Shows(doc, srv[g])
<1> USE DEF Typed
<1> DEFINE s == srv[g]
<1>1. /\ s.rev \in 0 .. MaxChanges
      /\ \A e \in Events : s.events[e] \in [start : 0 .. Horizon, remind : 0 .. Horizon]
  BY DEF Servers
<1> HIDE DEF s
<1>2. \A e \in Events :
        /\ Reminder(s.events[e]) \in 0 .. Horizon
        /\ Reminder(s.events[e]) <= s.events[e].start
  <2>1. ASSUME NEW e \in Events
        PROVE  /\ Reminder(s.events[e]) \in 0 .. Horizon
               /\ Reminder(s.events[e]) <= s.events[e].start
    <3> DEFINE R == {s.events[e].remind, s.events[e].start}
    <3>1. R \in SUBSET Nat /\ R # {} /\ R \subseteq 0 .. Horizon /\ s.events[e].start \in R
      BY <1>1, Constants
    <3>2. Reminder(s.events[e]) = Min(R) BY DEF Reminder
    <3> HIDE DEF R
    <3>3. Min(R) \in R /\ \A y \in R : Min(R) <= y BY <3>1, MinIsIn
    <3> QED BY <3>1, <3>2, <3>3
  <2> QED BY <2>1
<1>3. /\ Projected(s) \in ItemsType
      /\ \A e \in Events :
           /\ Projected(s)[e].start = IF Ahead(s.events[e]) THEN s.events[e].start ELSE 0
           /\ Projected(s)[e].remind <= Projected(s)[e].start
  <2>1. ASSUME NEW e \in Events
        PROVE  /\ Projected(s)[e] \in [start : 0 .. Horizon, remind : 0 .. Horizon + 1, dismissed : BOOLEAN]
               /\ Projected(s)[e].start = IF Ahead(s.events[e]) THEN s.events[e].start ELSE 0
               /\ Projected(s)[e].remind <= Projected(s)[e].start
    BY <1>1, <1>2, Constants DEF Projected, NoItem
  <2>2. Projected(s) = [e \in Events |-> Projected(s)[e]] BY DEF Projected
  <2> QED BY <2>1, <2>2 DEF ItemsType
<1>4. doc = [have |-> TRUE, gen |-> g, rev |-> s.rev, synced |-> now,
             items |-> IF s.rev <= after THEN NoItems ELSE Projected(s)]
  BY DEF Snapshot, s
<1>5. doc.items \in ItemsType /\ \A e \in Events : doc.items[e].remind <= doc.items[e].start
  BY <1>3, <1>4, Nothings DEF NoItems
<1>6. doc \in DocType BY <1>1, <1>4, <1>5, Constants DEF DocType
<1>7. ASSUME doc.rev > after PROVE Shows(doc, s)
  <2>1. doc.items = Projected(s) /\ doc.synced = now BY <1>1, <1>4, <1>7
  <2>2. \A e \in Events :
          Ahead(s.events[e]) <=> s.events[e].start \in now .. now + Window - 1
    BY <1>1, Constants DEF Ahead
  <2> QED BY <1>3, <2>1, <2>2 DEF Shows
<1> QED BY <1>4, <1>5, <1>6, <1>7 DEF Valid, s

LEMMA ServeInv == ASSUME IInv, Serve PROVE IInv'
<1> USE DEF IInv, Typed
<1>1. /\ UNCHANGED <<now, srv, bound, agenda, disk, alarm, rung, active, unplanned, changes, faults>>
      /\ call.step = "sent"
  BY DEF Serve
<1>2. CASE call.gen # bound BY <1>1, <1>2, NoCallInv DEF Serve
<1>3. CASE call.gen = bound
  <2> DEFINE doc == Snapshot(call.gen, call.after)
  <2>1. call' = [call EXCEPT !.step = "ok", !.answer = doc] BY <1>3 DEF Serve
  <2>2. call.gen \in 1 .. Bindings /\ call.after \in Nat BY <1>3 DEF Calls
  <2>3. /\ doc \in DocType /\ Valid(doc) /\ doc.gen = call.gen /\ doc.rev = srv[call.gen].rev
        /\ doc.rev > call.after => Shows(doc, srv[call.gen])
    BY <2>2, SnapshotFacts
  <2> HIDE DEF doc
  <2>4. /\ call' \in Calls /\ call'.step = "ok" /\ call'.gen = call.gen
        /\ call'.after = call.after /\ call'.answer = doc
    BY <2>1, <2>3 DEF Calls
  <2>5. Isolated' /\ Planned' BY <1>1 DEF Isolated, Planned
  <2>6. srv[call.gen].rev \in Nat BY <2>2, Constants DEF Servers
  <2>7. call.step # "none" BY <1>1
  <2>9. Answers'
    <3>1. call'.gen \in 1 .. bound' BY <1>1, <2>4, <2>7 DEF Answers
    <3>2. call'.gen = bound' => call'.after <= IF agenda'.have THEN agenda'.rev ELSE 0
      BY <1>1, <2>4, <2>7 DEF Answers
    <3> QED BY <1>1, <2>3, <2>4, <2>6, <3>1, <3>2 DEF Answers, Valid
  <2> QED BY <1>1, <2>4, <2>5, <2>9, QuietInv
<1> QED BY <1>2, <1>3

LEMMA ChangeInv == ASSUME IInv, Change PROVE IInv'
<1> USE DEF IInv, Typed
<1>1. PICK g \in 1 .. Bindings, e \in Events, event \in [start : 0 .. Horizon, remind : 0 .. Horizon] :
         srv' = [srv EXCEPT ![g] = Changed(srv[g], e, event)]
  <2>1. PICK g \in 1 .. Bindings, e \in Events, t \in now .. Horizon, r \in 0 .. Horizon :
          \E event \in {[start |-> t, remind |-> r], NoEvent} :
             srv' = [srv EXCEPT ![g] = Changed(srv[g], e, event)]
    BY DEF Change
  <2>2. PICK event \in {[start |-> t, remind |-> r], NoEvent} :
             srv' = [srv EXCEPT ![g] = Changed(srv[g], e, event)]
    BY <2>1
  <2>3. event \in [start : 0 .. Horizon, remind : 0 .. Horizon]
    <3>1. now .. Horizon \subseteq 0 .. Horizon BY Constants
    <3>2. NoEvent \in [start : 0 .. Horizon, remind : 0 .. Horizon] BY Constants DEF NoEvent
    <3> QED BY <3>1, <3>2
  <2> QED BY <2>2, <2>3
<1>2. /\ changes < MaxChanges /\ changes' = changes + 1
      /\ UNCHANGED <<now, bound, agenda, disk, alarm, rung, active, unplanned, call, faults>>
  BY DEF Change
<1> DEFINE s == srv[g]
           t == [s EXCEPT !.events = [s.events EXCEPT ![e] = event], !.rev = s.rev + 1]
<1>3. s \in [rev : 0 .. MaxChanges, events : [Events -> [start : 0 .. Horizon, remind : 0 .. Horizon]]]
      /\ s.rev <= changes
  BY DEF Servers
<1>4. srv' = [srv EXCEPT ![g] = t] BY <1>1 DEF Changed
<1> HIDE DEF s
<1>5. /\ t \in [rev : 0 .. MaxChanges, events : [Events -> [start : 0 .. Horizon, remind : 0 .. Horizon]]]
      /\ t.rev = s.rev + 1 /\ t.rev <= changes'
  <2>1. s.rev + 1 \in 0 .. MaxChanges /\ s.rev + 1 <= changes' BY <1>2, <1>3, Constants
  <2>2. [s.events EXCEPT ![e] = event] \in [Events -> [start : 0 .. Horizon, remind : 0 .. Horizon]]
    BY <1>3
  <2> QED BY <1>3, <2>1, <2>2
<1> HIDE DEF t
<1>6. /\ srv' \in Servers
      /\ \A h \in 1 .. Bindings : srv'[h] = IF h = g THEN t ELSE srv[h]
  BY <1>4, <1>5 DEF Servers
<1>7. \A h \in 1 .. Bindings : srv'[h].rev <= changes'
  <2>1. \A h \in 1 .. Bindings : srv[h].rev \in Nat /\ srv[h].rev <= changes
    BY Constants DEF Servers
  <2> QED BY <1>2, <1>5, <1>6, <2>1, Constants
<1>8. Typed' BY <1>2, <1>6, <1>7, Constants
<1>9. ASSUME NEW h \in 1 .. Bindings, NEW doc \in DocType, doc.rev <= srv[h].rev
      PROVE  /\ doc.rev <= srv'[h].rev
             /\ doc.rev = srv'[h].rev => srv'[h] = srv[h]
  <2>1. doc.rev \in Nat /\ s.rev \in Nat BY <1>3, Constants DEF DocType
  <2>2. CASE h = g
    <3>1. srv'[h].rev = s.rev + 1 /\ doc.rev <= s.rev BY <1>5, <1>6, <1>9, <2>2 DEF s
    <3> QED BY <2>1, <3>1
  <2>3. CASE h # g BY <1>6, <1>9, <2>3
  <2> QED BY <2>2, <2>3
<1>10. ASSUME NEW doc \in DocType, Tells(doc, srv) PROVE Tells(doc, srv')
  BY <1>9, <1>10 DEF Tells
<1>11. Told'
  <2>1. agenda \in DocType /\ disk.main \in DocType /\ disk.bak \in DocType OBVIOUS
  <2>2. Tells(agenda, srv') /\ Tells(disk.main, srv') /\ Tells(disk.bak, srv')
    BY <1>10, <2>1 DEF Told
  <2> QED BY <1>2, <2>2 DEF Told
<1>12. Answers'
  <2>1. CASE call.step # "ok" BY <1>2, <2>1 DEF Answers
  <2>2. CASE call.step = "ok"
    <3>1. call.gen \in 1 .. Bindings /\ call.answer \in DocType
      BY <2>2, Constants DEF Answers, Calls
    <3>2. /\ call.answer.rev <= srv'[call.gen].rev
          /\ call.answer.rev = srv'[call.gen].rev => srv'[call.gen] = srv[call.gen]
      BY <1>9, <2>2, <3>1 DEF Answers
    <3> QED BY <1>2, <2>2, <3>2 DEF Answers, Valid
  <2> QED BY <2>1, <2>2
<1> QED BY <1>2, <1>8, <1>11, <1>12 DEF Empty, Isolated, Planned

LEMMA LoseInv == ASSUME IInv, Lose PROVE IInv'
<1>1. /\ UNCHANGED <<now, srv, bound, agenda, disk, alarm, rung, active, unplanned, changes>>
      /\ call' = NoCall /\ faults' \in 0 .. MaxFaults
  BY Constants DEF Lose, Fault, IInv, Typed
<1> QED BY <1>1, NoCallInv

(* A new revision takes over what the user did, and no start of an event.  *)
LEMMA PreservedFacts ==
  ASSUME Typed, NEW doc \in DocType, NEW new, new = [doc EXCEPT !.items = Preserved(doc)]
  PROVE  /\ new \in DocType /\ new.have = doc.have /\ new.gen = doc.gen /\ new.rev = doc.rev
         /\ new.synced = doc.synced
         /\ \A e \in Events : new.items[e].start = doc.items[e].start
         /\ agenda.have /\ agenda.gen = doc.gen =>
              \A e \in Events : agenda.items[e].dismissed /\ new.items[e] # NoItem => new.items[e].dismissed
<1> DEFINE T == [start : 0 .. Horizon, remind : 0 .. Horizon + 1, dismissed : BOOLEAN]
           P == Preserved(doc)
<1>1. \A e \in Events : doc.items[e] \in T /\ agenda.items[e] \in T
  BY DEF Typed, DocType, ItemsType
<1>2. CASE ~agenda.have \/ agenda.gen # doc.gen
  <2>1. P = doc.items BY <1>2 DEF Preserved
  <2> QED BY <1>2, <2>1 DEF DocType, ItemsType
<1>3. CASE agenda.have /\ agenda.gen = doc.gen
  <2> DEFINE Item(e) ==
               IF doc.items[e] = NoItem \/ agenda.items[e] = NoItem THEN doc.items[e]
               ELSE [doc.items[e] EXCEPT
                       !.dismissed = agenda.items[e].dismissed,
                       !.remind = IF agenda.items[e].dismissed THEN @
                                  ELSE Max({@, agenda.items[e].remind})]
  <2>1. P = [e \in Events |-> Item(e)] BY <1>3 DEF Preserved
  <2>2. ASSUME NEW e \in Events
        PROVE  /\ Item(e) \in T /\ Item(e).start = doc.items[e].start
               /\ agenda.items[e].dismissed /\ Item(e) # NoItem => Item(e).dismissed
    <3> DEFINE d == doc.items[e]
               a == agenda.items[e]
               m == IF a.dismissed THEN d.remind ELSE Max({d.remind, a.remind})
    <3>1. d \in T /\ a \in T BY <1>1
    <3> HIDE DEF d, a
    <3>2. m \in 0 .. Horizon + 1
      <4>1. d.remind \in 0 .. Horizon + 1 /\ a.remind \in 0 .. Horizon + 1 BY <3>1
      <4>2. \E x \in {d.remind, a.remind} : \A y \in {d.remind, a.remind} : x >= y
        BY <4>1, Constants
      <4>3. Max({d.remind, a.remind}) \in {d.remind, a.remind} BY <4>2 DEF Max
      <4> QED BY <4>1, <4>3
    <3>3. Item(e) = IF d = NoItem \/ a = NoItem THEN d
                    ELSE [d EXCEPT !.dismissed = a.dismissed, !.remind = m]
      BY DEF d, a
    <3> HIDE DEF m, Item
    <3>4. Item(e) \in T /\ Item(e).start = d.start BY <3>1, <3>2, <3>3
    <3>5. a.dismissed /\ Item(e) # NoItem => Item(e).dismissed BY <3>1, <3>2, <3>3, Nothings
    <3> QED BY <3>4, <3>5 DEF d, a
  <2> HIDE DEF Item
  <2>3. P \in ItemsType /\ \A e \in Events : P[e] = Item(e) BY <2>1, <2>2 DEF ItemsType
  <2> HIDE DEF P
  <2>4. new = [doc EXCEPT !.items = P] BY DEF P
  <2>5. new \in DocType /\ new.items = P BY <2>3, <2>4 DEF DocType
  <2> QED BY <2>2, <2>3, <2>4, <2>5 DEF DocType
<1> QED BY <1>2, <1>3

(* An answer that is taken is the present agenda of the owner.             *)
LEMMA ApplyInv == ASSUME IInv, Apply PROVE IInv'
<1> USE DEF IInv
<1> DEFINE doc == call.answer
<1>1. /\ call.step = "ok" /\ call' = NoCall /\ UNCHANGED <<now, srv, bound, rung, active, changes>>
  BY DEF Apply
<1>2. CASE ~(Ours(doc) /\ Accepts(doc))
  <2>1. UNCHANGED <<agenda, disk, alarm, unplanned, faults>> BY <1>2 DEF Apply
  <2> QED BY <1>1, <2>1, NoCallInv DEF Typed
<1>3. CASE Ours(doc) /\ Accepts(doc)
  <2>1. agenda' = [doc EXCEPT !.items = Preserved(doc)] /\ Store BY <1>3 DEF Apply
  <2>2. /\ doc \in DocType /\ doc.have /\ doc.gen = bound /\ call.gen = bound
        /\ doc.rev <= srv[bound].rev
        /\ doc.rev = srv[bound].rev /\ doc.rev > call.after => Shows(doc, srv[bound])
        /\ call.after <= IF agenda.have THEN agenda.rev ELSE 0
    BY <1>1, <1>3 DEF Ours, Valid, Answers, Typed, Calls
  <2>3. doc.rev > call.after
    <3>1. doc.rev > (IF agenda.have THEN agenda.rev ELSE 0)
      BY <1>3, <2>2 DEF Accepts, Isolated
    <3>2. doc.rev \in Nat /\ agenda.rev \in Nat /\ call.after \in Nat
      BY <2>2 DEF Typed, DocType, Calls
    <3> QED BY <2>2, <3>1, <3>2
  <2> DEFINE new == agenda'
  <2>4. /\ new \in DocType /\ new.have /\ new.gen = bound /\ new.rev = doc.rev
        /\ new.synced = doc.synced /\ \A e \in Events : new.items[e].start = doc.items[e].start
    <3> HIDE DEF doc
    <3>1. Typed OBVIOUS
    <3> QED BY ONLY <2>1, <2>2, <3>1, PreservedFacts
  <2>5. /\ alarm' \in 0 .. Horizon + 1 /\ unplanned' \in BOOLEAN /\ faults' \in 0 .. MaxFaults
        /\ disk' = disk \/ disk' = [main |-> new, bak |-> disk.main]
        /\ disk' \in [main : DocType, bak : DocType]
        /\ unplanned' \/
             \A e \in Events :
                ~new.items[e].dismissed /\ new.items[e].remind > now =>
                   alarm' # 0 /\ alarm' <= new.items[e].remind
    BY <2>1, <2>4, StoreFacts
  <2>6. Tells(new, srv)
    BY <2>2, <2>3, <2>4 DEF Tells, Shows, Typed
  <2> HIDE DEF doc
  <2>7. Typed' BY <1>1, <2>4, <2>5, Nothings DEF Typed
  <2>8. Empty' /\ Isolated' BY <1>1, <2>4 DEF Empty, Isolated
  <2>9. Told'
    <3>1. disk'.main \in {disk.main, new} /\ disk'.bak \in {disk.bak, disk.main} BY <2>5
    <3> QED BY <1>1, <2>6, <3>1 DEF Told
  <2>10. Answers' BY <1>1, Nothings DEF Answers
  <2>11. Planned' BY <1>1, <2>5 DEF Planned
  <2> QED BY <2>7, <2>8, <2>9, <2>10, <2>11
<1> QED BY <1>2, <1>3

(* A card of another owner keeps nothing.                                  *)
LEMMA RebindInv == ASSUME IInv, Rebind PROVE IInv'
<1> USE DEF IInv
<1>1. /\ bound < Bindings /\ bound' = bound + 1
      /\ UNCHANGED <<now, srv, rung, unplanned, call, changes, faults>>
  BY DEF Rebind
<1>2. bound' \in 1 .. Bindings /\ bound' # bound BY <1>1, Constants DEF Typed
<1>3. Answers'
  <2>1. call.gen \in 1 .. bound => call.gen \in 1 .. bound' /\ call.gen # bound'
    BY <1>1 DEF Typed
  <2> QED BY <1>1, <2>1 DEF Answers, Valid
<1>4. CASE agenda.have
  <2>1. /\ agenda' = NoAgenda /\ disk' = [main |-> NoAgenda, bak |-> NoAgenda]
        /\ alarm' = 0 /\ active' = 0
    BY <1>2, <1>4 DEF Rebind, Foreign, Isolated
  <2>2. Typed' BY <1>1, <1>2, <2>1, Nothings, Constants DEF Typed
  <2>3. Empty' /\ Isolated' /\ Told' BY <2>1, Nothings DEF Empty, Isolated, Told, Tells
  <2>4. Planned' BY <1>1, <2>1, Nothings DEF Planned, Typed
  <2> QED BY <1>3, <2>2, <2>3, <2>4
<1>5. CASE ~agenda.have
  <2>1. UNCHANGED <<agenda, disk, alarm, active>> BY <1>5 DEF Rebind, Foreign
  <2>2. Typed' BY <1>1, <1>2, <2>1 DEF Typed
  <2>3. Empty' /\ Isolated' /\ Told' /\ Planned'
    BY <1>1, <1>5, <2>1 DEF Empty, Isolated, Told, Planned
  <2> QED BY <1>3, <2>2, <2>3
<1> QED BY <1>4, <1>5

LEMMA TakeDueInv == ASSUME IInv, TakeDue PROVE IInv'
<1> USE DEF IInv
<1>1. rung' = FALSE /\ UNCHANGED <<now, srv, bound, disk, call, changes, faults>>
  BY DEF TakeDue
<1>2. CASE DueItems # {} /\ agenda.items[Earliest].remind >= now - Day
  <2>1. active' = Earliest /\ UNCHANGED <<agenda, alarm, unplanned>> BY <1>2 DEF TakeDue
  <2>2. Earliest \in DueItems BY <1>2, EarliestIsDue
  <2>3. active' \in Events /\ agenda.items[active'] # NoItem
    BY <2>1, <2>2, Nothings DEF DueItems
  <2>4. active' \in 0 .. Last /\ active' # 0 BY <2>3, Constants DEF Events
  <2>5. agenda.have BY <2>3, Nothings DEF Empty
  <2>6. Isolated' /\ Answers' /\ Planned'
    BY <1>1, <2>1, <2>3, <2>4, <2>5 DEF Isolated, Answers, Valid, Planned
  <2> QED BY <1>1, <2>1, <2>4, <2>6, QuietInv DEF Typed
<1>3. CASE UNCHANGED <<agenda, active>> /\ Schedule
  <2>1. /\ alarm' \in 0 .. Horizon + 1 /\ unplanned' = FALSE
        /\ \A e \in Events :
             ~agenda'.items[e].dismissed /\ agenda'.items[e].remind > now =>
                alarm' # 0 /\ alarm' <= agenda'.items[e].remind
        /\ (\A e \in Events : agenda'.items[e] = NoItem) => alarm' = 0
    BY <1>3, ScheduleFacts DEF Typed
  <2>2. Isolated' BY <1>1, <1>3, <2>1, Nothings DEF Isolated, Empty
  <2>3. Answers' BY <1>1, <1>3 DEF Answers, Valid
  <2>4. Planned' BY <1>1, <2>1 DEF Planned
  <2> QED BY <1>1, <1>3, <2>1, <2>2, <2>3, <2>4, QuietInv DEF Typed
<1> QED BY <1>2, <1>3 DEF TakeDue

LEMMA HandledFacts ==
  ASSUME Typed, active # 0, Handled
  PROVE  /\ agenda' \in DocType
         /\ agenda'.have = agenda.have /\ agenda'.gen = agenda.gen /\ agenda'.rev = agenda.rev
         /\ agenda'.synced = agenda.synced
         /\ \A e \in Events : agenda'.items[e].start = agenda.items[e].start
         /\ \A e \in Events : agenda.items[e].dismissed => agenda'.items[e].dismissed
<1> USE DEF Typed
<1> DEFINE T == [start : 0 .. Horizon, remind : 0 .. Horizon + 1, dismissed : BOOLEAN]
           item == agenda.items[active]
<1>1. active \in Events /\ agenda.items \in [Events -> T] /\ item \in T
  <2>1. active \in Events BY Constants DEF Events
  <2>2. agenda.items \in [Events -> T] BY DEF DocType, ItemsType
  <2> QED BY <2>1, <2>2
<1>2. now + 1 \in 0 .. Horizon + 1 BY Constants
<1>3. PICK new \in {[item EXCEPT !.dismissed = TRUE], [item EXCEPT !.remind = now + 1]} :
         agenda' = [agenda EXCEPT !.items = [agenda.items EXCEPT ![active] = new]]
  BY DEF Handled
<1> HIDE DEF item
<1>4. new \in T /\ new.start = item.start /\ (item.dismissed => new.dismissed)
  BY <1>1, <1>2
<1> DEFINE items == [agenda.items EXCEPT ![active] = new]
<1>5. /\ items \in ItemsType
      /\ \A e \in Events : items[e] = IF e = active THEN new ELSE agenda.items[e]
  BY <1>1, <1>4 DEF ItemsType
<1>6. \A e \in Events : items[e].start = agenda.items[e].start
                       /\ (agenda.items[e].dismissed => items[e].dismissed)
  BY <1>4, <1>5 DEF item
<1> HIDE DEF items
<1>7. agenda' = [agenda EXCEPT !.items = items] BY <1>3 DEF items
<1>8. agenda' \in DocType /\ agenda'.items = items BY <1>5, <1>7 DEF DocType
<1> QED BY <1>6, <1>7, <1>8 DEF DocType

LEMMA HandleInv == ASSUME IInv, Handle PROVE IInv'
<1> USE DEF IInv
<1>1. active # 0 /\ active' = 0 /\ UNCHANGED <<now, srv, bound, rung, call, changes>>
  BY DEF Handle
<1>2. agenda.have BY <1>1 DEF Isolated
<1>3. CASE agenda.items[active] = NoItem
  <2>1. UNCHANGED <<agenda, disk, alarm, unplanned, faults>> BY <1>3 DEF Handle
  <2>2. Isolated' /\ Answers' /\ Planned'
    BY <1>1, <1>2, <1>3, <2>1 DEF Isolated, Answers, Valid, Planned
  <2>3. active' \in 0 .. Last BY <1>1, Constants
  <2> QED BY <1>1, <2>1, <2>2, <2>3, QuietInv DEF Typed
<1>4. CASE agenda.items[active] # NoItem
  <2>1. Handled /\ Store BY <1>4 DEF Handle
  <2>2. /\ agenda' \in DocType
        /\ agenda'.have = agenda.have /\ agenda'.gen = agenda.gen /\ agenda'.rev = agenda.rev
        /\ agenda'.synced = agenda.synced
        /\ \A e \in Events : agenda'.items[e].start = agenda.items[e].start
    <3>1. Typed /\ active # 0 /\ Handled BY <1>1, <2>1
    <3> HIDE DEF IInv
    <3> QED BY <3>1, HandledFacts, Zenon
  <2>3. /\ alarm' \in 0 .. Horizon + 1 /\ unplanned' \in BOOLEAN /\ faults' \in 0 .. MaxFaults
        /\ disk' = disk \/ disk' = [main |-> agenda', bak |-> disk.main]
        /\ disk' \in [main : DocType, bak : DocType]
        /\ unplanned' \/
             \A e \in Events :
                ~agenda'.items[e].dismissed /\ agenda'.items[e].remind > now =>
                   alarm' # 0 /\ alarm' <= agenda'.items[e].remind
    BY <2>1, <2>2, StoreFacts
  <2>4. Typed' BY <1>1, <2>2, <2>3, Constants DEF Typed
  <2>5. Empty' /\ Isolated' BY <1>1, <1>2, <2>2 DEF Empty, Isolated
  <2>6. Tells(agenda', srv) BY <2>2 DEF Told, Tells, Shows
  <2>7. Told'
    <3>1. disk'.main \in {disk.main, agenda'} /\ disk'.bak \in {disk.bak, disk.main} BY <2>3
    <3> QED BY <1>1, <2>6, <3>1 DEF Told
  <2>8. Answers' BY <1>1, <2>2 DEF Answers, Valid
  <2>9. Planned' BY <1>1, <2>3 DEF Planned
  <2> QED BY <2>4, <2>5, <2>7, <2>8, <2>9
<1> QED BY <1>3, <1>4

LEMMA RebootInv == ASSUME IInv, Reboot PROVE IInv'
<1> USE DEF IInv
<1>1. /\ rung' = FALSE /\ active' = 0 /\ call' = NoCall /\ UNCHANGED <<now, srv, bound, changes>>
      /\ faults' \in 0 .. MaxFaults /\ Schedule
  BY Constants DEF Reboot, Fault, Typed
<1>2. /\ Loaded \in DocType /\ Tells(Loaded, srv) /\ (~Loaded.have => Loaded = NoAgenda)
  BY Nothings DEF Loaded, Valid, Typed, Told, Tells
<1>3. \/ agenda' = NoAgenda /\ disk' = [main |-> NoAgenda, bak |-> NoAgenda]
      \/ agenda' = Loaded /\ disk' = disk /\ (Loaded.have => Loaded.gen = bound)
  BY DEF Reboot, Foreign
<1>4. /\ agenda' \in DocType /\ disk' \in [main : DocType, bak : DocType]
      /\ ~agenda'.have => agenda' = NoAgenda
      /\ agenda'.have => agenda'.gen = bound
  BY <1>2, <1>3, Nothings DEF Typed
<1>5. Told'
  <2>1. Tells(NoAgenda, srv) BY Nothings DEF Tells
  <2> QED BY <1>1, <1>2, <1>3, <2>1 DEF Told
<1>6. /\ alarm' \in 0 .. Horizon + 1 /\ unplanned' = FALSE
      /\ \A e \in Events :
           ~agenda'.items[e].dismissed /\ agenda'.items[e].remind > now =>
              alarm' # 0 /\ alarm' <= agenda'.items[e].remind
      /\ (\A e \in Events : agenda'.items[e] = NoItem) => alarm' = 0
  BY <1>1, <1>4, ScheduleFacts DEF Typed
<1>7. Typed'
  <2>1. 0 \in 0 .. Last /\ NoCall \in Calls BY Nothings, Constants
  <2> QED BY <1>1, <1>4, <1>6, <2>1 DEF Typed
<1>8. Empty' /\ Isolated' BY <1>1, <1>4, <1>6, Nothings DEF Empty, Isolated
<1>9. Answers' /\ Planned' BY <1>1, <1>6, Nothings DEF Answers, Planned
<1> QED BY <1>5, <1>7, <1>8, <1>9

LEMMA NextInv == ASSUME IInv, [Next]_vars PROVE IInv'
<1>1. CASE Change \/ Ask \/ Serve \/ Apply
  BY <1>1, ChangeInv, AskInv, ServeInv, ApplyInv
<1>2. CASE Lose \/ Rebind \/ Tick \/ Ring BY <1>2, LoseInv, RebindInv, TickInv, RingInv
<1>3. CASE TakeDue \/ Handle \/ Reboot BY <1>3, TakeDueInv, HandleInv, RebootInv
<1>4. CASE UNCHANGED vars
  <2>1. Isolated' /\ Answers' /\ Planned' BY <1>4 DEF vars, IInv, Isolated, Answers, Valid, Planned
  <2> QED BY <1>4, <2>1, QuietInv DEF vars, IInv, Typed
<1> QED BY <1>1, <1>2, <1>3, <1>4 DEF Next, Fetch, Reminders

LEMMA SpecInv == Spec => []IInv
<1>1. IInv /\ [Next]_vars => IInv' BY NextInv
<1> QED BY <1>1, InitInv, PTL DEF Spec

-----------------------------------------------------------------------------
(* Agenda, files, alarm and answers keep their types, and no owner has more *)
(* revisions than there were changes.                                      *)
THEOREM TypeCorrect == Spec => []TypeOK
<1>1. IInv => TypeOK
  <2> SUFFICES ASSUME IInv PROVE TypeOK OBVIOUS
  <2>1. \A g \in 1 .. Bindings : srv[g].rev \in 0 .. MaxChanges BY DEF IInv, Typed, Servers
  <2>2. call.step \in {"none", "sent", "ok"} BY DEF IInv, Typed, Calls
  <2>3. call.step = "ok" => Valid(call.answer) BY DEF IInv, Answers
  <2>4. agenda \in DocType /\ disk \in [main : DocType, bak : DocType] BY DEF IInv, Typed
  <2> QED BY <2>1, <2>2, <2>3, <2>4 DEF IInv, Typed, TypeOK
<1> QED BY <1>1, SpecInv, PTL

(* agenda_accept and agenda_reset_binding: nothing of an earlier owner is  *)
(* shown or rings, also when an answer for him comes after the binding or  *)
(* an old file is found at start-up.                                       *)
THEOREM OwnersAreIsolated == Spec => []Isolated
<1>1. IInv => Isolated BY DEF IInv
<1> QED BY <1>1, SpecInv, PTL

(* luoye_agenda_accept takes only a newer revision: one revision stands for *)
(* one agenda, whatever was changed, lost or read back on the way.          *)
THEOREM RevisionMeansAgenda == Spec => []SameRevision
<1>1. IInv => SameRevision
  <2> SUFFICES ASSUME IInv, agenda.have, agenda.rev = srv[bound].rev,
                      NEW e \in Events
               PROVE  agenda.items[e].start =
                         IF srv[bound].events[e].start \in agenda.synced .. agenda.synced + Window - 1
                         THEN srv[bound].events[e].start ELSE 0
    BY DEF SameRevision
  <2>1. agenda.gen = bound BY DEF IInv, Isolated
  <2>2. Shows(agenda, srv[bound]) BY <2>1 DEF IInv, Told, Tells
  <2> QED BY <2>2 DEF Shows
<1> QED BY <1>1, SpecInv, PTL

(* agenda_schedule_next: a reminder to come has an alarm that rings no     *)
(* later, unless a page is up, the alarm has just rung or a write failed.  *)
THEOREM RemindersAreArmed == Spec => []Armed
<1>1. IInv => Armed BY DEF IInv, Planned, Armed
<1> QED BY <1>1, SpecInv, PTL

LEMMA NextKeepsDismissed ==
  ASSUME IInv, [Next]_vars, NEW e \in Events,
         agenda.items[e].dismissed, agenda'.items[e] # NoItem, agenda.gen = agenda'.gen,
         faults' = faults \/ (disk.main = agenda /\ Valid(disk.main))
  PROVE  agenda'.items[e].dismissed
<1> USE DEF IInv
<1>0. agenda.have BY Nothings DEF Empty
<1>1. CASE agenda' = agenda BY <1>1
<1>2. CASE agenda' = NoAgenda BY <1>2, Nothings
<1>3. CASE Apply
  <2> DEFINE doc == call.answer
  <2>1. CASE agenda' = [doc EXCEPT !.items = Preserved(doc)] /\ Ours(doc)
    <3>1. doc \in DocType /\ doc.gen = bound /\ agenda.gen = bound
      BY <1>0, <2>1 DEF Ours, Isolated, Typed, Calls
    <3>2. Typed OBVIOUS
    <3> DEFINE new == agenda'
    <3> HIDE DEF doc
    <3>3. agenda.have /\ agenda.gen = doc.gen =>
             \A f \in Events : agenda.items[f].dismissed /\ agenda'.items[f] # NoItem => agenda'.items[f].dismissed
      BY <2>1, <3>1, <3>2, PreservedFacts
    <3> QED BY <1>0, <3>1, <3>3
  <2> QED BY <1>1, <1>3, <2>1 DEF Apply
<1>4. CASE Handle
  <2>1. active # 0 /\ (Handled \/ agenda' = agenda) BY <1>4 DEF Handle
  <2>2. Typed OBVIOUS
  <2> HIDE DEF IInv
  <2>3. CASE Handled
    <3>1. \A f \in Events : agenda.items[f].dismissed => agenda'.items[f].dismissed
      BY <2>1, <2>2, <2>3, HandledFacts, Zenon
    <3> QED BY <3>1
  <2> QED BY <1>1, <2>1, <2>3
<1>5. CASE Reboot
  <2>1. faults' # faults BY <1>5 DEF Reboot, Fault, Typed
  <2>2. Loaded = agenda BY <2>1 DEF Loaded
  <2> QED BY <1>1, <1>2, <1>5, <2>2 DEF Reboot
<1>6. CASE Rebind BY <1>1, <1>2, <1>6 DEF Rebind
<1>7. CASE TakeDue BY <1>1, <1>7 DEF TakeDue
<1>8. CASE Change \/ Ask \/ Serve \/ Lose \/ Tick \/ Ring \/ UNCHANGED vars
  BY <1>1, <1>8 DEF Change, Ask, Serve, Lose, Tick, Ring, vars
<1> QED BY <1>3, <1>4, <1>5, <1>6, <1>7, <1>8 DEF Next, Fetch, Reminders

(* preserve_local_actions: what the user dismissed stays dismissed, through *)
(* every revision and a power failure that finds the file as last written. *)
THEOREM DismissedForGood == Spec => DismissedStays
<1> DEFINE A == \A e \in Events :
                  /\ agenda.items[e].dismissed /\ agenda'.items[e] # NoItem
                  /\ agenda.gen = agenda'.gen
                  /\ faults' = faults \/ (disk.main = agenda /\ Valid(disk.main))
                  => agenda'.items[e].dismissed
<1>1. IInv /\ [Next]_vars => [A]_vars BY NextKeepsDismissed
<1>2. Spec => [][A]_vars BY <1>1, SpecInv, PTL DEF Spec
<1> QED BY <1>2 DEF DismissedStays
=============================================================================
