------------------------------ MODULE Standby ------------------------------
(***************************************************************************)
(* The card left alone.  The event loop closes the network and sleeps, is  *)
(* woken every minute, brings the agenda in every half hour over a lane of *)
(* its own, and opens everything again for a key.  Wi-Fi selector, stack,  *)
(* pairing task and uploader run beside it and share flags without a lock. *)
(* The card has a Wi-Fi profile and an owner and is not being paired.      *)
(***************************************************************************)
EXTENDS Integers, Sequences

CONSTANTS
    MaxPresses,  \* how often a key is pressed
    FaultKinds,  \* "link" (access point away), "start" (radio), "slow" (a wait runs out), "wake",
                 \* "alarm" (a reminder is due)
    MaxFaults    \* how often something goes wrong

ASSUME StandbyAssumption ==
    /\ MaxPresses \in Nat /\ MaxFaults \in Nat
    /\ FaultKinds \subseteq {"link", "start", "slow", "wake", "alarm"}

VARIABLES
    net,       \* the flags of net_uploader.c
    app,       \* where the event loop is
    key,       \* a key event is queued
    selector,  \* the Wi-Fi selector: where it is, and whether it was notified
    radio,     \* the Wi-Fi stack
    events,    \* what the stack has posted
    ap,        \* the access point is in reach
    lane,      \* the request of the uploader
    exchange,  \* the pairing task asks for the contract
    presses, faults  \* how often the user and the environment did something

vars == <<net, app, key, selector, radio, events, ap, lane, exchange, presses, faults>>
wifi == <<selector, radio, events, ap>>
requests == <<lane, exchange>>
counters == <<presses, faults>>

Fault(kind) == kind \in FaultKinds /\ faults < MaxFaults /\ faults' = faults + 1

Busy == exchange \/ lane \in {"normal", "forced", "poll", "silent"}
Held(n) == n.suspended /\ ~n.resuming
Offline(n) == [n EXCEPT !.online = FALSE, !.ready = FALSE]

Init ==
    /\ \E live \in BOOLEAN :
        net = [suspended |-> FALSE, resuming |-> FALSE, maintenance |-> FALSE, done |-> FALSE,
               wanted |-> FALSE, manual |-> FALSE, live |-> live, online |-> FALSE, ready |-> FALSE,
               connecting |-> FALSE, started |-> TRUE, retry |-> FALSE]
    /\ app = "loop" /\ key = FALSE
    /\ selector = [at |-> "wait", told |-> TRUE]
    /\ radio = "on" /\ events = <<>> /\ ap = TRUE
    /\ lane = "none" /\ exchange = FALSE
    /\ presses = 0 /\ faults = 0

-----------------------------------------------------------------------------
(* What the event loop calls. *)

CanIdle ==
    /\ ~net.resuming /\ ~Busy /\ ~net.manual
    /\ (net.live => ~net.online)  \* and has been for a minute

(* idle_stop_wifi: a station that was connecting or connected says so.     *)
StopWifi(n) ==
    /\ net' = Offline([n EXCEPT !.retry = FALSE, !.started = FALSE,
                                !.connecting = IF n.started THEN FALSE ELSE @])
    /\ radio' = IF n.started THEN "off" ELSE radio
    /\ events' = IF n.started /\ radio \in {"joining", "joined"} THEN Append(events, "disconnected") ELSE events

(* Wrong variant of Resumed: a maintenance under way keeps its flag.       *)
ResumedKeeping(n) ==
    IF n.online THEN [n EXCEPT !.suspended = FALSE, !.resuming = FALSE]
    ELSE [n EXCEPT !.resuming = n.suspended \/ @]
Resumed(n) ==
    LET m == [n EXCEPT !.maintenance = FALSE, !.done = FALSE] IN
    IF m.online THEN [m EXCEPT !.suspended = FALSE, !.resuming = FALSE]
    ELSE [m EXCEPT !.resuming = m.suspended \/ @]
Resume(n) ==
    /\ net' = Resumed(n)
    /\ selector' = [selector EXCEPT !.told = @ \/ Resumed(n).resuming]
    /\ UNCHANGED <<radio, events, ap>>

(* A key opens the network and asks for the agenda.                        *)
UserWake == Resume([net EXCEPT !.wanted = TRUE]) /\ app' = "loop"

-----------------------------------------------------------------------------
(* The event loop. *)

Press ==
    /\ presses < MaxPresses /\ presses' = presses + 1
    /\ key' = TRUE
    /\ UNCHANGED <<net, app, wifi, requests, faults>>

(* The key may be the one that starts a manual synchronisation.            *)
Key ==
    /\ app = "loop" /\ key /\ key' = FALSE
    /\ \E manual \in {net.manual, TRUE} :
        LET n == [net EXCEPT !.manual = manual] IN
        IF n.suspended \/ n.resuming \/ n.maintenance THEN Resume([n EXCEPT !.wanted = TRUE])
        ELSE net' = n /\ UNCHANGED wifi
    /\ UNCHANGED <<app, requests, counters>>

(* Raise the flag, give a request under way 400 ms, then switch off.  One  *)
(* between its gate and its busy flag is not seen.                         *)
Suspend ==
    /\ app = "loop" /\ ~key
    /\ CanIdle
    /\ IF Held(net) THEN app' = "asleep" /\ UNCHANGED net
       ELSE app' = "suspending" /\ net' = [net EXCEPT !.suspended = TRUE, !.resuming = FALSE]
    /\ UNCHANGED <<key, wifi, requests, counters>>
Suspended ==
    /\ app = "suspending" /\ ~Busy
    /\ StopWifi(net) /\ app' = "asleep"
    /\ UNCHANGED <<key, selector, ap, requests, counters>>
SuspendGivesUp ==
    /\ app = "suspending" /\ Busy /\ Fault("slow")
    /\ net' = [net EXCEPT !.suspended = FALSE] /\ app' = "loop"
    /\ UNCHANGED <<key, wifi, requests, presses>>

KeyWake ==
    /\ app = "asleep" /\ key
    /\ UserWake
    /\ UNCHANGED <<key, requests, counters>>
(* A reminder that is due is painted with the network closed.              *)
AlarmWake ==
    /\ app = "asleep" /\ ~key
    /\ Fault("alarm")
    /\ app' = "loop"
    /\ UNCHANGED <<net, key, wifi, requests, presses>>
OddWake ==
    /\ app = "asleep" /\ ~key /\ Fault("wake")
    /\ Resume(net) /\ app' = "loop"
    /\ UNCHANGED <<key, requests, presses>>

(* A minute is over: paint, and either go on or open everything.           *)
Minute ==
    /\ app = "asleep" /\ ~key
    /\ app' = "loop"
    /\ IF CanIdle THEN UNCHANGED <<net, wifi>> ELSE Resume(net)
    /\ UNCHANGED <<key, requests, counters>>
MayMaintain == Held(net) /\ ~net.maintenance /\ ~Busy /\ ~net.manual /\ ~net.live
(* The task of the events comes before that of the loop: it has handled    *)
(* what was posted before the card slept.                                  *)
HalfHour ==
    /\ app = "asleep" /\ ~key /\ events = <<>>
    /\ MayMaintain
    /\ net' = [net EXCEPT !.maintenance = TRUE, !.done = FALSE, !.resuming = TRUE]
    /\ selector' = [selector EXCEPT !.told = TRUE]
    /\ app' = "maintain"
    /\ UNCHANGED <<key, radio, events, ap, requests, counters>>

MaintainKey ==
    /\ app = "maintain" /\ key
    /\ UserWake
    /\ UNCHANGED <<key, requests, counters>>
MaintainEnds ==
    /\ app = "maintain" /\ net.done
    /\ app' = "stopping"
    /\ UNCHANGED <<net, key, wifi, requests, counters>>
(* Thirty seconds are enough unless the access point is away, or was lost  *)
(* after it gave an address: that looks like an intended stop, and nobody  *)
(* connects again.                                                         *)
Reachable == ap /\ (net.online \/ net.resuming)
MaintainLate ==
    /\ app = "maintain"
    /\ IF Reachable THEN Fault("slow") /\ app' = "overdue"
                    ELSE app' = "stopping" /\ UNCHANGED faults
    /\ UNCHANGED <<net, key, wifi, requests, presses>>
MaintainAlarm ==
    /\ app = "maintain"
    /\ Fault("alarm")
    /\ app' = "stopping"
    /\ UNCHANGED <<net, key, wifi, requests, presses>>

Closed(n) == [n EXCEPT !.maintenance = FALSE, !.done = FALSE, !.resuming = FALSE, !.suspended = TRUE]
StopMaintenance ==
    /\ app \in {"stopping", "overdue"}
    /\ IF net.maintenance \/ net.resuming
       THEN ~Busy /\ StopWifi(Closed(net))
       ELSE UNCHANGED <<net, radio, events>>
    /\ app' = "loop"
    /\ UNCHANGED <<key, selector, ap, requests, counters>>
(* A request that was overdue already may outlast the grace as well. *)
StopGivesUp ==
    /\ Busy /\ \/ app = "stopping" /\ Fault("slow")
               \/ app = "overdue" /\ UNCHANGED faults
    /\ Resume(net) /\ app' = "loop"
    /\ UNCHANGED <<key, requests, presses>>

-----------------------------------------------------------------------------
(* The Wi-Fi selector, the stack and its events. *)

Notify == selector' = [selector EXCEPT !.told = TRUE]

Select ==
    /\ selector.at = "wait" /\ selector.told
    /\ selector' = [told |-> FALSE,
                    at |-> IF Held(net) \/ net.online \/ net.connecting THEN "wait"
                           ELSE IF net.started THEN "scan" ELSE "start"]
    /\ UNCHANGED <<net, app, key, radio, events, ap, requests, counters>>
StartRadio ==
    /\ selector.at = "start"
    /\ \/ /\ radio' = "on" /\ events' = Append(events, "started")
          /\ net' = [net EXCEPT !.started = TRUE]
          /\ selector' = [selector EXCEPT !.at = "scan"]
          /\ UNCHANGED faults
       \/ /\ Fault("start")
          /\ net' = [net EXCEPT !.retry = TRUE]
          /\ selector' = [selector EXCEPT !.at = "wait"]
          /\ UNCHANGED <<radio, events>>
    /\ UNCHANGED <<app, key, ap, requests, presses>>
Connect ==
    /\ selector.at = "scan"
    /\ selector' = [selector EXCEPT !.at = "wait"]
    /\ IF Held(net) \/ net.online \/ ~net.started THEN UNCHANGED <<net, radio>>
       ELSE IF radio = "on"
       THEN radio' = "joining" /\ net' = [net EXCEPT !.connecting = TRUE]
       ELSE net' = [net EXCEPT !.connecting = FALSE, !.retry = TRUE] /\ UNCHANGED radio
    /\ UNCHANGED <<app, key, events, ap, requests, counters>>
Selector == Select \/ StartRadio \/ Connect

Join ==
    /\ radio = "joining"
    /\ IF ap THEN radio' = "joined" /\ events' = Append(events, "address")
       ELSE radio' = "on" /\ events' = Append(events, "disconnected")
    /\ UNCHANGED <<net, app, key, selector, ap, requests, counters>>
LinkLost ==
    /\ ap /\ Fault("link")
    /\ ap' = FALSE
    /\ IF radio = "joined" THEN radio' = "on" /\ events' = Append(events, "disconnected")
       ELSE UNCHANGED <<radio, events>>
    /\ UNCHANGED <<net, app, key, selector, requests, presses>>
LinkBack ==
    /\ ~ap /\ ap' = TRUE
    /\ UNCHANGED <<net, app, key, selector, radio, events, requests, counters>>

(* Wrong variant of Addressed: the lanes open, the resume is not over.     *)
AddressedStill(n) ==
    [n EXCEPT !.connecting = FALSE, !.ready = FALSE, !.online = TRUE, !.wanted = @ \/ ~n.maintenance,
              !.suspended = @ /\ (n.maintenance \/ ~n.resuming)]
Addressed(n) ==
    LET m == [n EXCEPT !.connecting = FALSE, !.ready = FALSE, !.online = TRUE,
                       !.wanted = @ \/ ~n.maintenance] IN
    IF n.resuming
    THEN [m EXCEPT !.resuming = FALSE, !.suspended = n.maintenance, !.retry = FALSE]
    ELSE m
WifiEvent ==
    /\ events # <<>> /\ events' = Tail(events)
    /\ CASE Head(events) = "started" ->
              IF Held(net) THEN UNCHANGED <<net, selector>> ELSE Notify /\ UNCHANGED net
         [] Head(events) = "disconnected" ->
              /\ net' = [Offline(net) EXCEPT !.connecting = FALSE, !.retry = @ \/ ~Held(net)]
              /\ UNCHANGED selector
         [] OTHER -> net' = Addressed(net) /\ UNCHANGED selector
    /\ UNCHANGED <<app, key, radio, ap, requests, counters>>
Reconnect ==
    /\ net.retry
    /\ net' = [net EXCEPT !.retry = FALSE]
    /\ IF Held(net) THEN UNCHANGED selector ELSE Notify
    /\ UNCHANGED <<app, key, radio, events, ap, requests, counters>>

-----------------------------------------------------------------------------
(* The pairing task and the uploader. *)

(* Wrong variant of MayAsk: nothing is asked of the cloud in standby.      *)
MayAskAwake == net.online /\ ~net.suspended /\ ~net.ready
MayAsk == net.online /\ (~net.suspended \/ net.maintenance) /\ ~net.ready
AskContract ==
    /\ ~exchange /\ MayAsk
    /\ exchange' = TRUE
    /\ UNCHANGED <<net, app, key, wifi, lane, counters>>
Contract ==
    /\ exchange /\ exchange' = FALSE
    /\ \E answered \in IF net.online THEN {TRUE} ELSE BOOLEAN :
        net' = [net EXCEPT !.ready = answered]
    /\ UNCHANGED <<app, key, wifi, lane, counters>>

(* The lanes look at the flags, then at the card's files, then raise the   *)
(* busy flag: recordings and to-dos ("normal") before the agenda.          *)
Gate ==
    /\ lane = "none" /\ ~net.maintenance
    /\ ~net.suspended /\ ~net.resuming /\ net.online /\ net.ready
    /\ lane' = "gate"
    /\ UNCHANGED <<net, app, key, wifi, exchange, counters>>
Begin ==
    /\ lane = "gate"
    /\ lane' \in IF net.manual \/ net.live THEN {"normal"}
                 ELSE IF net.wanted THEN {"forced"} ELSE {"normal", "poll", "none"}
    /\ UNCHANGED <<net, app, key, wifi, exchange, counters>>
(* A request without a connection fails and is tried again.                *)
End ==
    /\ lane \in {"normal", "forced", "poll"} /\ lane' = "none"
    /\ net' = CASE lane = "forced" -> [net EXCEPT !.wanted = FALSE]
                [] lane = "normal" /\ net.online -> [net EXCEPT !.manual = FALSE, !.live = FALSE]
                [] OTHER -> net
    /\ UNCHANGED <<app, key, wifi, exchange, counters>>

Silent ==
    /\ lane = "none" /\ net.maintenance /\ ~net.done
    /\ net.online /\ net.ready
    /\ lane' = "silent"
    /\ UNCHANGED <<net, app, key, wifi, exchange, counters>>
SilentEnd ==
    /\ lane = "silent" /\ lane' = "none"
    /\ net' = [net EXCEPT !.done = TRUE]
    /\ UNCHANGED <<app, key, wifi, exchange, counters>>
Uploader == Gate \/ Begin \/ End \/ Silent \/ SilentEnd

-----------------------------------------------------------------------------

Loop ==
    \/ Key \/ Suspended \/ KeyWake \/ Minute
    \/ MaintainKey \/ MaintainEnds \/ StopMaintenance
Next ==
    \/ Press \/ Loop \/ Suspend \/ SuspendGivesUp \/ AlarmWake \/ OddWake
    \/ HalfHour \/ MaintainLate \/ MaintainAlarm \/ StopGivesUp
    \/ Selector \/ Join \/ LinkLost \/ LinkBack \/ WifiEvent \/ Reconnect
    \/ AskContract \/ Contract \/ Uploader

Spec == Init /\ [][Next]_vars
(* Every task is served and every request ends.  The loop tests once a     *)
(* second and the lanes are free most of the time; of the minutes it is    *)
(* woken for, every thirtieth is a half hour; an access point comes back;  *)
(* the milliseconds from a gate to the busy flag are not always hit.       *)
FairSpec ==
    /\ Spec
    /\ WF_vars(Loop) /\ SF_vars(Suspend) /\ SF_vars(HalfHour)
    /\ WF_vars(~Reachable /\ MaintainLate)
    /\ WF_vars(Selector) /\ WF_vars(Join) /\ WF_vars(LinkBack) /\ WF_vars(WifiEvent)
    /\ WF_vars(Reconnect) /\ WF_vars(AskContract) /\ WF_vars(Contract)
    /\ WF_vars(Uploader) /\ SF_vars(net.online /\ Begin)

-----------------------------------------------------------------------------
(* The type of the state.                                                   *)
TypeOK ==
    /\ net \in [DOMAIN net -> BOOLEAN]
    /\ app \in {"loop", "suspending", "asleep", "maintain", "overdue", "stopping"}
    /\ key \in BOOLEAN /\ ap \in BOOLEAN /\ exchange \in BOOLEAN
    /\ selector \in [at : {"wait", "start", "scan"}, told : BOOLEAN]
    /\ radio \in {"off", "on", "joining", "joined"}
    /\ lane \in {"none", "gate", "normal", "forced", "poll", "silent"}
    /\ events \in Seq({"started", "disconnected", "address"})
    /\ presses \in 0 .. MaxPresses /\ faults \in 0 .. MaxFaults

(* A key opens the network again, in whatever phase of standby it comes    *)
(* and however often the radio, the link or a request fails on the way     *)
(* (FIRMWARE_PROGRESS_LOG.md:1006-1007, net_uploader.c:361-386).           *)
Reopens == (net.suspended /\ (key \/ (net.resuming /\ ~net.maintenance))) ~> ~net.suspended

(* The agenda comes in again and again though nobody touches the card; a   *)
(* manual synchronisation and a session that was being sent live go first  *)
(* (app_main.c:402-418, V1_5_1_REFRESH_CADENCE.md:13).                     *)
AgendaComes == []<>(net.live \/ net.manual \/ (net.online /\ lane \in {"forced", "poll", "silent"}))

(* A card that is left alone goes to sleep, and again after every key,     *)
(* unless a manual synchronisation keeps it up                             *)
(* (SYNCQUEUE_SLEEP_R3_RELEASE.md:10, FIRMWARE_PROGRESS_LOG.md:1009).  The *)
(* access point must come back for that: a card that was woken stays awake *)
(* until it has an address.                                                *)
SleepsAgain == []<>(app = "asleep" \/ net.manual)
=============================================================================
