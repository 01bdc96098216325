---------------------------- MODULE CardStorage ----------------------------
(***************************************************************************)
(* The recordings on the card as their owner manages them from a browser.  *)
(* The uploader task reports what is on the card page by page              *)
(* (storage_sync_once), the server keeps the list (storage_snapshot) and   *)
(* answers with the next order of the owner, and the card deletes          *)
(* directories file by file (delete_session_locked) and acknowledges the   *)
(* order.  Deleting is also how the upload of a recording ends.  Power may *)
(* fail after any file operation.                                          *)
(***************************************************************************)
EXTENDS Integers, Sequences, FiniteSets, FiniteSetsExt

CONSTANTS
    Last,        \* the recordings are 1 .. Last: session ids sort by time
    Page,        \* SD_STORAGE_PAGE_MAX
    MaxOrders,   \* orders the owner gives
    FaultKinds,  \* what may go wrong: "lost" (a request or its answer), "late" (the
                 \* request, given up by the card), "power", "io" (an unlink)
    MaxFaults    \* how often something goes wrong

ASSUME StorageAssumption ==
    /\ Last \in Nat \ {0} /\ Page \in Nat \ {0} /\ MaxOrders \in Nat
    /\ FaultKinds \subseteq {"lost", "late", "power", "io"}
    /\ MaxFaults \in Nat

Recordings == 1 .. Last
Files == {"audio", "state", "manifest", "marker"}

VARIABLES
    made,    \* how many recordings were started
    open,    \* the recording in progress, 0 for none
    files,   \* the files of every recording; marker is delete.safe
    dirs,    \* the recordings whose directory exists
    final,   \* the recordings whose final acknowledgement is on the card
    scan,    \* the scan the card reports: its id, cursor and page on the way; bulk is
             \* the order to delete all whose count is kept
    doing,   \* the deletion under way
    call,    \* the request the card waits for, and its answer
    late,    \* requests the card has given up that still reach the server
    srv,     \* the list on the server, and the orders
    faults   \* how many faults there were

cardVars == <<made, open, files, dirs, final>>
vars == <<cardVars, scan, doing, call, late, srv, faults>>

Fault(kind) == kind \in FaultKinds /\ faults < MaxFaults /\ faults' = faults + 1

-----------------------------------------------------------------------------
(* What is on the card. *)

(* load_item: a closed recording of this binding.  Without upload.state the *)
(* binding generation reads as 0, which is no binding.                      *)
Loadable(r) == r # open /\ {"audio", "state", "manifest"} \subseteq files[r]
Inventory == {r \in Recordings : Loadable(r)}

(* The order of delete_session_locked: the manifest and the marker last.    *)
Removable(fs) ==
    IF fs \ {"manifest", "marker"} # {} THEN fs \ {"manifest", "marker"}
    ELSE IF "manifest" \in fs THEN {"manifest"} ELSE fs
(* Wrong variant of CanDelete: a deletion that was interrupted is not known. *)
CanDeleteLoadable(r) == Loadable(r)
CanDelete(r) == "marker" \in files[r] \/ Loadable(r)

Nothing == [order |-> -1, left |-> {}, at |-> 0, gone |-> {}, counted |-> FALSE]
NoScan == [id |-> 0, cursor |-> 0, next |-> 0, last |-> FALSE, tail |-> FALSE,
           due |-> FALSE, bulk |-> 0]
NoRequest == [kind |-> "none", scan |-> 0, ids |-> {}, last |-> FALSE,
              first |-> FALSE, order |-> 0, status |-> "none"]
NoCall == [rq |-> NoRequest, step |-> "none", order |-> 0]
Idle == call = NoCall /\ doing = Nothing

-----------------------------------------------------------------------------
(* The recorder, and the end of an upload. *)

Record ==
    /\ open = 0 /\ made < Last
    /\ made' = made + 1 /\ open' = made + 1
    /\ dirs' = dirs \union {made + 1}
    /\ files' = [files EXCEPT ![made + 1] = Files \ {"marker"}]
    /\ UNCHANGED <<final, scan, doing, call, late, srv, faults>>
CloseRecording ==
    /\ open # 0 /\ open' = 0
    /\ UNCHANGED <<made, files, dirs, final, scan, doing, call, late, srv, faults>>
(* The final acknowledgement of an upload is stored and the recording       *)
(* deleted; after a power failure it is found again by its acknowledgement. *)
DeleteAs(accepted) ==
    /\ Idle
    /\ \E r \in accepted : final' = final \union {r} /\ doing' = [Nothing EXCEPT !.order = 0, !.at = r]
    /\ UNCHANGED <<made, open, files, dirs, scan, call, late, srv, faults>>
Accept == DeleteAs(Inventory \ final)
DeleteAccepted == DeleteAs(Inventory \intersect final)

-----------------------------------------------------------------------------
(* Reporting the inventory, a page at a time; after the last page the card *)
(* pauses before it scans again.                                           *)

FreshScan ==
    CHOOSE s \in 1 .. Last + MaxFaults + 3 :
       /\ s \notin {srv.rows[r] : r \in Recordings} \union {srv.scan, scan.id}
       /\ s \notin {rq.scan : rq \in late}
Smallest(ids, n) == {r \in ids : Cardinality({q \in ids : q < r}) < n}
Cursor(ids) == IF ids = {} THEN 0 ELSE Max(ids)

(* storage_scan_reset leaves the count of a bulk deletion alone.            *)
Reset(s) == [NoScan EXCEPT !.bulk = s.bulk]
Pause ==
    /\ scan.tail /\ ~scan.due
    /\ scan' = [scan EXCEPT !.due = TRUE]
    /\ UNCHANGED <<cardVars, doing, call, late, srv, faults>>
Snapshot ==
    /\ Idle /\ open = 0
    /\ LET now == IF scan.due \/ scan.id = 0 THEN [Reset(scan) EXCEPT !.id = FreshScan] ELSE scan
           ids == {r \in Inventory : r > now.cursor}
           page == Smallest(ids, Page)
       IN  /\ scan' = [now EXCEPT !.next = Cursor(page), !.last = ids = page]
           /\ call' = [NoCall EXCEPT !.step = "sent",
                         !.rq = [NoRequest EXCEPT !.kind = "snapshot", !.scan = now.id,
                                    !.first = now.cursor = 0, !.ids = page, !.last = ids = page]]
    /\ UNCHANGED <<cardVars, doing, late, srv, faults>>
(* What storage_sync_once does last, if the scan was not reset meanwhile.  *)
TurnPage(s) == [s EXCEPT !.cursor = s.next, !.tail = @ \/ s.last]

-----------------------------------------------------------------------------
(* The server. *)

Final == {"completed", "failed"}
Waiting(s) == {o \in DOMAIN s.orders : s.orders[o].status = "queued"}
Ended(s) == {o \in DOMAIN s.orders : s.orders[o].status \in Final}
Begun(s) == {o \in DOMAIN s.orders : s.orders[o].status = "in_progress"}
(* _next_storage_command: the one begun, else the oldest that waits.       *)
(* Wrong variant of NextOrder: what was begun is not delivered again.      *)
NextOrderOnce(s) == IF Waiting(s) # {} THEN Min(Waiting(s)) ELSE 0
NextOrder(s) ==
    IF Begun(s) # {} THEN Min(Begun(s)) ELSE IF Waiting(s) # {} THEN Min(Waiting(s)) ELSE 0

Listed(s) == {r \in Recordings : s.rows[r] # 0}
(* Wrong variant of Report: rows an older scan left are kept.               *)
ReportKeeps(s, rq) ==
    [s EXCEPT !.scan = rq.scan,
              !.rows = [r \in Recordings |-> IF r \in rq.ids THEN rq.scan ELSE s.rows[r]]]
Report(s, rq) ==
    LET rows == [r \in Recordings |-> IF r \in rq.ids THEN rq.scan ELSE s.rows[r]]
    IN  [s EXCEPT !.scan = rq.scan,
                  !.rows = IF ~rq.last THEN rows
                           ELSE [r \in Recordings |-> IF rows[r] = rq.scan THEN rq.scan ELSE 0]]
Deliver(s) ==
    LET o == NextOrder(s)
    IN  IF o = 0 THEN s ELSE [s EXCEPT !.orders = [@ EXCEPT ![o].status = "in_progress"]]
Acknowledge(s, rq) ==
    IF s.orders[rq.order].status \in Final THEN s
    ELSE [s EXCEPT !.orders = [@ EXCEPT ![rq.order].status = rq.status],
                   !.rows = [r \in Recordings |->
                      IF \/ r \in rq.ids
                         \/ s.orders[rq.order].ids = {} /\ rq.status = "completed"
                      THEN 0 ELSE s.rows[r]]]
Served(s, rq) == IF rq.kind = "snapshot" THEN Deliver(Report(s, rq)) ELSE Acknowledge(s, rq)

Serve ==
    /\ call.step = "sent"
    /\ srv' = Served(srv, call.rq)
    /\ call' = [call EXCEPT !.step = "ok",
                 !.order = IF call.rq.kind = "snapshot" THEN NextOrder(srv') ELSE 0]
    /\ UNCHANGED <<cardVars, scan, doing, late, faults>>
ServeLate ==
    /\ \E rq \in late : late' = late \ {rq} /\ srv' = Served(srv, rq)
    /\ UNCHANGED <<cardVars, scan, doing, call, faults>>
Lose ==
    /\ \/ call.step \in {"sent", "ok"} /\ Fault("lost") /\ UNCHANGED late
       \/ call.step = "sent" /\ Fault("late") /\ late' = late \union {call.rq}
    /\ call' = [call EXCEPT !.step = "lost"]
    /\ UNCHANGED <<cardVars, scan, doing, srv>>

(* The owner orders the deletion of listed recordings, or of all: ids = {}. *)
Order ==
    /\ Len(srv.orders) < MaxOrders
    /\ \E ids \in SUBSET Listed(srv) :
          srv' = [srv EXCEPT !.orders = Append(@, [ids |-> ids, status |-> "queued"])]
    /\ UNCHANGED <<cardVars, scan, doing, call, late, faults>>

-----------------------------------------------------------------------------
(* Carrying out an order. *)

All(o) == srv.orders[o].ids = {}
Bulk(ok) ==
    IF ~All(doing.order) THEN scan.bulk
    ELSE IF ok \/ ~doing.counted THEN 0 ELSE doing.order

ReceivePage ==
    /\ call.rq.kind = "snapshot" /\ call.step \in {"ok", "lost"}
    /\ call' = NoCall
    /\ IF call.step = "lost" THEN UNCHANGED <<scan, doing>>
       ELSE IF call.order = 0 THEN scan' = TurnPage(scan) /\ UNCHANGED doing
       ELSE /\ doing' = [Nothing EXCEPT !.order = call.order,
                            !.left = srv.orders[call.order].ids,
                            !.counted = All(call.order) /\ scan.bulk = call.order]
            /\ UNCHANGED scan
    /\ UNCHANGED <<cardVars, late, srv, faults>>

(* A recording that cannot be loaded counts as deleted.  One in progress   *)
(* was never reported, so no order names it.                               *)
Working == doing.order > 0 /\ call = NoCall
SkipDeleted ==
    /\ Working /\ doing.at = 0
    /\ \E r \in doing.left :
          /\ ~CanDelete(r)
          /\ doing' = [doing EXCEPT !.left = @ \ {r}, !.gone = @ \union {r}, !.counted = TRUE]
    /\ UNCHANGED <<cardVars, scan, call, late, srv, faults>>
Choose ==
    /\ Working /\ doing.at = 0
    /\ \E r \in IF All(doing.order) THEN Smallest(Inventory, 1) ELSE doing.left :
          CanDelete(r) /\ doing' = [doing EXCEPT !.at = r]
    /\ UNCHANGED <<cardVars, scan, call, late, srv, faults>>

(* Deleting the directory doing.at: marker, files, directory.              *)
SetFiles(r, fs) ==
    /\ files' = [files EXCEPT ![r] = fs]
    /\ UNCHANGED <<made, open, dirs, final, scan, doing, call, late, srv, faults>>
Mark ==
    /\ doing.at # 0 /\ "audio" \in files[doing.at] /\ "marker" \notin files[doing.at]
    /\ SetFiles(doing.at, files[doing.at] \union {"marker"})
Unlink ==
    /\ doing.at # 0 /\ "marker" \in files[doing.at]
    /\ \E f \in Removable(files[doing.at]) : SetFiles(doing.at, files[doing.at] \ {f})
RemoveDirectory ==
    /\ doing.at # 0 /\ files[doing.at] = {}
    /\ dirs' = dirs \ {doing.at}
    /\ doing' = IF doing.order = 0 THEN Nothing
                ELSE [doing EXCEPT !.at = 0, !.left = @ \ {doing.at}, !.counted = TRUE,
                        !.gone = IF All(doing.order) THEN {} ELSE @ \union {doing.at}]
    /\ UNCHANGED <<made, open, files, final, scan, call, late, srv, faults>>

SendAck(status) ==
    call' = [NoCall EXCEPT !.step = "sent",
               !.rq = [NoRequest EXCEPT !.kind = "ack", !.order = doing.order,
                          !.status = status, !.ids = doing.gone]]
Done ==
    /\ Working /\ doing.at = 0
    /\ IF All(doing.order) THEN Inventory = {} ELSE doing.left = {}
    /\ SendAck("completed")
    /\ UNCHANGED <<cardVars, scan, doing, late, srv, faults>>
Fail ==
    /\ doing.at # 0 /\ Fault("io")
    /\ IF doing.order = 0 THEN doing' = Nothing /\ UNCHANGED call
       ELSE doing' = [doing EXCEPT !.at = 0] /\ SendAck("failed")
    /\ UNCHANGED <<cardVars, scan, late, srv>>
ReceiveAck ==
    /\ call.rq.kind = "ack" /\ call.step \in {"ok", "lost"}
    /\ scan' = [IF call.step = "ok" /\ doing.counted THEN Reset(scan) ELSE TurnPage(scan)
                   EXCEPT !.bulk = Bulk(call.step = "ok")]
    /\ call' = NoCall /\ doing' = Nothing
    /\ UNCHANGED <<cardVars, late, srv, faults>>

(* Power fails and the card starts again: recover_incomplete_sessions gives *)
(* every directory with audio a manifest if it has none; an upload.state it *)
(* writes has no binding and is none for load_item.                         *)
PowerLoss ==
    /\ Fault("power")
    /\ \E sent \in {{}, IF call.step = "sent" THEN {call.rq} ELSE {}} :
          late' = late \union sent
    /\ files' = [r \in Recordings |->
                   files[r] \union IF "audio" \in files[r] THEN {"manifest"} ELSE {}]
    /\ open' = 0 /\ scan' = NoScan /\ doing' = Nothing /\ call' = NoCall
    /\ UNCHANGED <<made, dirs, final, srv>>

-----------------------------------------------------------------------------
Init ==
    /\ made = 0 /\ open = 0 /\ dirs = {} /\ final = {}
    /\ files = [r \in Recordings |-> {}]
    /\ scan = NoScan /\ doing = Nothing /\ call = NoCall /\ late = {}
    /\ srv = [rows |-> [r \in Recordings |-> 0], scan |-> 0, orders |-> <<>>]
    /\ faults = 0
Storage ==
    \/ DeleteAccepted \/ Pause \/ Snapshot \/ ReceivePage \/ SkipDeleted
    \/ Choose \/ Mark \/ Unlink \/ RemoveDirectory \/ Done \/ ReceiveAck
Next ==
    \/ Record \/ CloseRecording \/ Accept \/ Order
    \/ Storage \/ Serve \/ ServeLate
    \/ Lose \/ Fail \/ PowerLoss
Spec == Init /\ [][Next]_vars
(* The task goes on, a request is served or lost in the end, and one that  *)
(* the card has given up is served in the end as well.                     *)
FairSpec == Spec /\ WF_vars(Storage) /\ WF_vars(Pause) /\ WF_vars(Serve) /\ WF_vars(ServeLate)

-----------------------------------------------------------------------------
Request ==
    [kind : {"none", "snapshot", "ack"}, scan : Nat, ids : SUBSET Recordings, last : BOOLEAN,
     first : BOOLEAN, order : 0 .. MaxOrders, status : Final \union {"none"}]
(* Every variable has its type, and no directory is left without its owner *)
(* knowing it: what has files has a directory.                              *)
TypeOK ==
    /\ made \in 0 .. Last /\ open \in 0 .. made
    /\ files \in [Recordings -> SUBSET Files] /\ dirs \subseteq 1 .. made
    /\ {r \in Recordings : files[r] # {}} \subseteq dirs
    /\ final \subseteq 1 .. made
    /\ call.rq \in Request /\ late \subseteq Request
    /\ doing.order \in -1 .. MaxOrders /\ doing.at \in {0} \union dirs
    /\ doing.left \union doing.gone \subseteq Recordings
    /\ srv.rows \in [Recordings -> Nat] /\ Len(srv.orders) <= MaxOrders
    /\ faults \in 0 .. MaxFaults

(* When the owner is told that the recordings she chose are deleted, no    *)
(* file of them is left on the card, however often the order was carried   *)
(* out and wherever power failed in between.                               *)
DoneIsGone ==
    \A o \in DOMAIN srv.orders :
       srv.orders[o].status = "completed" => \A r \in srv.orders[o].ids : files[r] = {}

(* What is being deleted only ever loses files: the recovery after a power *)
(* failure does not take the remains for a recording to be repaired.       *)
NeverGrows ==
    [][\A r \in Recordings : "marker" \in files[r] => files'[r] \subseteq files[r]]_vars

(* SESSION_MANIFEST_SCHEMA.md:114: a deletion that power interrupted is    *)
(* taken up again: the uploader or an order still gets at the directory.   *)
TakenUp ==
    \A r \in Recordings :
       \/ "marker" \notin files[r] \/ doing.at = r \/ Loadable(r)
       \/ \E o \in Waiting(srv) \union Begun(srv) : r \in srv.orders[o].ids

(* Once the owner stops recording, the list on the server becomes and stays *)
(* the inventory of the card.                                               *)
ListSettles == <>[](open = 0) => <>[](Listed(srv) = Inventory)

(* Once the owner stops recording, every order is carried out and told.     *)
OrdersEnd ==
    <>[](open = 0) =>
       \A o \in 1 .. MaxOrders :
          [](o \in Waiting(srv) \union Begun(srv) => <>(o \in Ended(srv)))
=============================================================================
