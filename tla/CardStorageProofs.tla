-------------------------- MODULE CardStorageProofs --------------------------
(***************************************************************************)
(* For every number of recordings, orders and faults and every size of a   *)
(* page: an order that is told to be done has left nothing on the card,    *)
(* and what is being deleted does not grow again.  And, at the end, for    *)
(* the JSON files of a recording and every number of generations and       *)
(* failures: a replacement never loses a stored document that an update    *)
(* did not find missing.                                                   *)
(***************************************************************************)
EXTENDS CardStorage, AtomicJson, FiniteSetTheorems, WellFoundedInduction, TLAPS

-----------------------------------------------------------------------------
(* The inductive invariant.                                                *)

Scans == [id : Nat, cursor : Nat, next : Nat, last : BOOLEAN, tail : BOOLEAN,
          due : BOOLEAN, bulk : Int]
Doings == [order : -1 .. MaxOrders, left : SUBSET Recordings, at : Nat,
           gone : SUBSET Recordings, counted : BOOLEAN]
Calls == [rq : Request, step : {"none", "sent", "ok", "lost"}, order : 0 .. MaxOrders]
Orders == [ids : SUBSET Recordings, status : {"queued", "in_progress"} \union Final]
Server == [rows : [Recordings -> Nat], scan : Nat, orders : Seq(Orders)]

(* Every variable has its type; a late request has cost a fault.           *)
Typed ==
  /\ TypeOK
  /\ scan \in Scans /\ doing \in Doings /\ call \in Calls /\ srv \in Server
  /\ IsFiniteSet(late) /\ Cardinality(late) <= faults

(* What a directory can hold: a whole recording, or what a deletion leaves.*)
Remains ==
  \A r \in Recordings :
     /\ files[r] = {} \/ "marker" \in files[r] \/ Files \ {"marker"} \subseteq files[r]
     /\ "audio" \in files[r] => "manifest" \in files[r]

(* The server hears of closed recordings only, and nobody orders others.   *)
Past == (1 .. made) \ {open}
Reported ==
  /\ \A r \in Recordings : srv.rows[r] # 0 => r \in Past
  /\ \A rq \in late \union {call.rq} : rq.kind = "snapshot" => rq.ids \subseteq Past
  /\ \A o \in DOMAIN srv.orders : srv.orders[o].ids \subseteq Past

(* What an order has done so far, and what an acknowledgement says of it.  *)
Gone(o) == \A r \in srv.orders[o].ids : files[r] = {}
Carried ==
  /\ call.order # 0 => call.order \in DOMAIN srv.orders
  /\ doing.order > 0 =>
        /\ doing.order \in DOMAIN srv.orders
        /\ \A r \in srv.orders[doing.order].ids : r \in doing.left \/ files[r] = {}
  /\ doing.at # 0 => doing.order >= 0
  /\ \A rq \in late \union {call.rq} :
        rq.kind = "ack" /\ rq.status = "completed" => rq.order \in DOMAIN srv.orders /\ Gone(rq.order)

(* What travels, and what the card waits for, is a request.                *)
Asked ==
  /\ \A rq \in late \union {call.rq} : rq.kind = "ack" => rq.status \in Final
  /\ \A rq \in late : rq.kind # "none"
  /\ call.step # "none" => call.rq.kind # "none"

IInv == Typed /\ Remains /\ Reported /\ Carried /\ DoneIsGone

-----------------------------------------------------------------------------
(* Numbers and sets of numbers. *)

LEMMA MinIsIn ==
  ASSUME NEW S \in SUBSET Nat, S # {} PROVE Min(S) \in S /\ \A y \in S : Min(S) =< y
<1> DEFINE R == OpToRel(<, Nat)
<1>1. IsWellFoundedOn(R, Nat) BY NatLessThanWellFounded
<1>2. ASSUME NEW a \in Nat, NEW b \in Nat PROVE (<<a, b>> \in R) <=> a < b
  BY DEF OpToRel
<1> HIDE DEF R
<1>3. \E x \in S : \A y \in S : ~ (<<y, x>> \in R) BY <1>1, WFMin
<1>4. PICK x \in S : \A y \in S : ~ (<<y, x>> \in R) BY <1>3
<1>5. ASSUME NEW y \in S PROVE x =< y
  <2>1. x \in Nat /\ y \in Nat OBVIOUS
  <2>2. ~(y < x) BY <2>1, <1>2, <1>4
  <2> QED BY <2>1, <2>2
<1> QED BY <1>5 DEF Min

LEMMA MaxIsIn == ASSUME NEW S \in SUBSET Recordings, S # {} PROVE Max(S) \in S
<1> DEFINE T == {Last - x : x \in S}
<1>1. Last \in Nat BY StorageAssumption
<1>2. T \in SUBSET Nat /\ T # {} BY <1>1 DEF Recordings
<1> HIDE DEF T
<1>5. PICK m \in T : \A y \in T : m =< y BY <1>2, MinIsIn
<1>6. PICK x \in S : m = Last - x BY DEF T
<1>7. \A y \in S : x >= y
  <2>1. ASSUME NEW y \in S PROVE x >= y
    <3>1. Last - y \in T BY DEF T
    <3>2. x \in Int /\ y \in Int BY DEF Recordings
    <3> QED BY <1>1, <1>5, <1>6, <3>1, <3>2
  <2> QED BY <2>1
<1> QED BY <1>7 DEF Max

(* There are more numbers for a scan than are in use.                      *)
LEMMA FreshScanIsNew == ASSUME Typed PROVE FreshScan \in Nat
<1> DEFINE InRows == {srv.rows[r] : r \in Recordings}
           InLate == {rq.scan : rq \in late}
           K == Last + MaxFaults + 3
           Used == InRows \union {srv.scan, scan.id} \union InLate
<1>0. Last \in Nat /\ MaxFaults \in Nat /\ faults \in Nat /\ faults <= MaxFaults
  BY StorageAssumption DEF Typed, TypeOK
<1>1. IsFiniteSet(InRows) /\ Cardinality(InRows) <= Last
  <2>1. IsFiniteSet(Recordings) /\ Cardinality(Recordings) = Last
    BY <1>0, FS_Interval, StorageAssumption DEF Recordings
  <2> DEFINE f == [r \in Recordings |-> srv.rows[r]]
  <2>2. f \in Surjection(Recordings, InRows) BY DEF Surjection
  <2> HIDE DEF InRows, f
  <2> QED BY <2>1, <2>2, FS_Surjection
<1>2. IsFiniteSet(InLate) /\ Cardinality(InLate) <= Cardinality(late)
  <2> DEFINE f == [rq \in late |-> rq.scan]
  <2>2. f \in Surjection(late, InLate) BY DEF Surjection
  <2>1. IsFiniteSet(late) BY DEF Typed
  <2> HIDE DEF InLate, f
  <2> QED BY <2>1, <2>2, FS_Surjection
<1>3. IsFiniteSet({srv.scan, scan.id}) /\ Cardinality({srv.scan, scan.id}) <= 2
  <2>1. IsFiniteSet({srv.scan}) /\ Cardinality({srv.scan}) = 1 BY FS_Singleton
  <2>2. /\ IsFiniteSet({srv.scan} \union {scan.id})
        /\ Cardinality({srv.scan} \union {scan.id}) <= 2
    BY <2>1, FS_AddElement
  <2>3. {srv.scan} \union {scan.id} = {srv.scan, scan.id} OBVIOUS
  <2> QED BY <2>2, <2>3
<1> HIDE DEF InRows, InLate
<1>4. IsFiniteSet(Used) /\ Cardinality(Used) < K
  <2> DEFINE A == InRows \union {srv.scan, scan.id}
  <2>1. IsFiniteSet(A) /\ Cardinality(A) <= Last + 2
    <3>1. /\ IsFiniteSet(A)
          /\ Cardinality(A) = Cardinality(InRows) + Cardinality({srv.scan, scan.id})
                              - Cardinality(InRows \intersect {srv.scan, scan.id})
      BY <1>1, <1>3, FS_Union
    <3>2. /\ Cardinality(InRows) \in Nat /\ Cardinality({srv.scan, scan.id}) \in Nat
          /\ Cardinality(InRows \intersect {srv.scan, scan.id}) \in Nat
      BY <1>1, <1>3, FS_CardinalityType, FS_Intersection
    <3> QED BY <1>0, <1>1, <1>3, <3>1, <3>2
  <2> HIDE DEF A
  <2>2. /\ IsFiniteSet(A \union InLate)
        /\ Cardinality(A \union InLate) = Cardinality(A) + Cardinality(InLate)
                                          - Cardinality(A \intersect InLate)
    BY <1>2, <2>1, FS_Union
  <2>3. /\ Cardinality(A) \in Nat /\ Cardinality(InLate) \in Nat /\ Cardinality(late) \in Nat
        /\ Cardinality(A \intersect InLate) \in Nat
    BY <1>2, <2>1, FS_CardinalityType, FS_Intersection DEF Typed
  <2>4. Cardinality(late) <= MaxFaults BY <1>0, <2>3 DEF Typed
  <2>5. Used = A \union InLate BY DEF A
  <2> HIDE DEF Used
  <2> QED BY <1>0, <1>2, <2>1, <2>2, <2>3, <2>4, <2>5
<1>5. ~(1 .. K \subseteq Used)
  <2> SUFFICES ASSUME 1 .. K \subseteq Used PROVE FALSE OBVIOUS
  <2> HIDE DEF Used, K
  <2>1. Cardinality(1 .. K) <= Cardinality(Used) BY <1>4, FS_Subset
  <2>2. K \in Nat /\ K > 0 BY <1>0 DEF K
  <2>3. Cardinality(1 .. K) = K BY <2>2, FS_Interval
  <2>4. Cardinality(Used) \in Nat BY <1>4, FS_CardinalityType
  <2> QED BY <1>4, <2>1, <2>2, <2>3, <2>4
<1>6. \E s \in 1 .. Last + MaxFaults + 3 :
         /\ s \notin {srv.rows[r] : r \in Recordings} \union {srv.scan, scan.id}
         /\ s \notin {rq.scan : rq \in late}
  BY <1>5 DEF InRows, InLate
<1>7. FreshScan \in 1 .. Last + MaxFaults + 3 BY <1>6 DEF FreshScan
<1> QED BY <1>0, <1>7

-----------------------------------------------------------------------------
(* What holds in every state of the invariant. *)

LEMMA InventoryIsPast == ASSUME Typed PROVE Inventory \subseteq Past
BY StorageAssumption DEF Typed, TypeOK, Inventory, Loadable, Past, Recordings, Files

LEMMA DirsAre == ASSUME Typed PROVE dirs \subseteq Recordings /\ dirs \subseteq Nat
<1>1. dirs \subseteq 1 .. made /\ made \in 0 .. Last BY DEF Typed, TypeOK
<1> QED BY <1>1, StorageAssumption DEF Recordings

LEMMA Constants ==
  /\ Last \in Nat /\ Last > 0 /\ MaxOrders \in Nat /\ MaxFaults \in Nat
  /\ Nothing \in Doings /\ NoScan \in Scans /\ NoCall \in Calls /\ NoRequest \in Request
BY StorageAssumption DEF Nothing, Doings, NoScan, Scans, NoCall, Calls, NoRequest, Request, Final

LEMMA InitInv == Init => IInv
<1> SUFFICES ASSUME Init PROVE IInv OBVIOUS
<1>1. srv \in Server BY DEF Init, Server, Orders
<1>2. late = {} /\ IsFiniteSet(late) /\ Cardinality(late) = 0 BY FS_EmptySet DEF Init
<1>3. TypeOK
  <2>1. call.rq \in Request BY Constants DEF Init, NoCall
  <2>2. doing.order = -1 /\ doing.at = 0 /\ doing.left = {} /\ doing.gone = {}
    BY DEF Init, Nothing
  <2>3. srv.rows \in [Recordings -> Nat] /\ Len(srv.orders) = 0 BY DEF Init
  <2> QED BY Constants, <1>2, <2>1, <2>2, <2>3 DEF Init, TypeOK, Recordings
<1>4. Typed BY Constants, <1>1, <1>2, <1>3 DEF Init, Typed
<1>5. srv.orders = <<>> /\ DOMAIN srv.orders = {} /\ (\A r \in Recordings : srv.rows[r] = 0)
  BY DEF Init
<1>6. call.rq = NoRequest /\ call.order = 0 /\ doing.order = -1 /\ doing.at = 0
      /\ NoRequest.kind = "none"
  BY DEF Init, NoCall, Nothing, NoRequest
<1>7. Remains BY DEF Init, Remains
<1>8. Reported BY <1>2, <1>5, <1>6 DEF Reported
<1>9. Carried BY <1>2, <1>6 DEF Carried
<1> QED BY <1>4, <1>5, <1>7, <1>8, <1>9 DEF IInv, DoneIsGone

LEMMA RecordInv == ASSUME IInv, Record PROVE IInv'
<1> USE DEF IInv
<1> DEFINE m == made + 1
<1>1. /\ open = 0 /\ made' = m /\ open' = m /\ m \in Recordings /\ made \in Nat
      /\ dirs' = dirs \union {m}
      /\ files' = [files EXCEPT ![m] = Files \ {"marker"}]
      /\ UNCHANGED <<final, scan, doing, call, late, srv, faults>>
  BY Constants DEF Record, Typed, TypeOK, Recordings
<1>2. /\ files' \in [Recordings -> SUBSET Files] /\ files[m] = {}
      /\ \A r \in Recordings : files'[r] = IF r = m THEN Files \ {"marker"} ELSE files[r]
  BY <1>1 DEF Typed, TypeOK
<1>3. \A r \in Past : r \in Past' /\ r \in Recordings /\ r # m
  BY <1>1, Constants DEF Past, Typed, TypeOK, Recordings
<1> HIDE DEF m
<1>4. TypeOK'
  <2>3. /\ m = made + 1 /\ m \in 1 .. Last /\ Last \in Nat
        /\ dirs \subseteq 1 .. made /\ final \subseteq 1 .. made
    BY <1>1, Constants DEF Typed, TypeOK, Recordings, m
  <2>4. made' \in 0 .. Last /\ open' \in 0 .. made' BY <1>1, <2>3
  <2>5. 1 .. made \subseteq 1 .. m /\ m \in 1 .. m BY <1>1, <2>3
  <2>6. dirs' \subseteq 1 .. made' /\ final' \subseteq 1 .. made' BY <1>1, <2>3, <2>5
  <2>1. made' \in 0 .. Last /\ open' \in 0 .. made' /\ dirs' \subseteq 1 .. made'
        /\ final' \subseteq 1 .. made'
    BY <2>4, <2>6
  <2>2. {r \in Recordings : files'[r] # {}} \subseteq dirs'
    BY <1>1, <1>2 DEF Typed, TypeOK
  <2> QED BY <1>1, <1>2, <2>1, <2>2 DEF Typed, TypeOK
<1>5. Typed' BY <1>1, <1>4 DEF Typed
<1>6. Remains' BY <1>2 DEF Remains, Files
<1>7. Reported' BY <1>1, <1>3 DEF Reported, Typed, Server
<1>8. \A o \in DOMAIN srv.orders : \A r \in srv.orders[o].ids : files'[r] = files[r]
  BY <1>2, <1>3 DEF Reported
<1>9. Carried' BY <1>1, <1>8 DEF Carried, Gone
<1>10. DoneIsGone' BY <1>1, <1>8 DEF DoneIsGone
<1> QED BY <1>5, <1>6, <1>7, <1>9, <1>10

LEMMA CloseRecordingInv == ASSUME IInv, CloseRecording PROVE IInv'
<1>1. /\ open' = 0
      /\ UNCHANGED <<made, files, dirs, final, scan, doing, call, late, srv, faults>>
  BY DEF CloseRecording
<1>2. Typed' BY <1>1 DEF IInv, Typed, TypeOK
<1>3. Past \subseteq Past' BY <1>1 DEF Past
<1>4. Reported' BY <1>1, <1>3 DEF IInv, Reported
<1> QED BY <1>1, <1>2, <1>4 DEF IInv, Remains, Carried, Gone, DoneIsGone

(* Of the card, its files and its server nothing changes: what is left is  *)
(* the deletion under way, the scan and the call.                          *)
LEMMA QuietInv ==
  ASSUME IInv, final' \subseteq 1 .. made, scan' \in Scans, doing' \in Doings, call' \in Calls,
         doing'.at \in {0} \union dirs,
         UNCHANGED <<made, open, files, dirs, late, srv, faults>>,
         call'.rq.kind = "snapshot" => call'.rq.ids \subseteq Past,
         call'.order # 0 => call'.order \in DOMAIN srv.orders,
         doing'.order > 0 =>
            /\ doing'.order \in DOMAIN srv.orders
            /\ \A r \in srv.orders[doing'.order].ids : r \in doing'.left \/ files[r] = {},
         doing'.at # 0 => doing'.order >= 0,
         call'.rq.kind = "ack" /\ call'.rq.status = "completed" =>
            call'.rq.order \in DOMAIN srv.orders /\ Gone(call'.rq.order)
  PROVE  IInv'
<1>1. Typed'
  <2>1. call'.rq \in Request BY DEF Calls
  <2>2. doing'.order \in -1 .. MaxOrders /\ doing'.left \union doing'.gone \subseteq Recordings
    BY DEF Doings
  <2> QED BY <2>1, <2>2 DEF IInv, Typed, TypeOK
<1>2. Past' = Past BY DEF Past
<1>3. Reported' BY <1>2 DEF IInv, Reported
<1>4. Carried' BY DEF IInv, Carried, Gone
<1> QED BY <1>1, <1>3, <1>4 DEF IInv, Remains, DoneIsGone

LEMMA QuietFacts ==
  ASSUME IInv
  PROVE  /\ final \subseteq 1 .. made /\ scan \in Scans /\ doing \in Doings /\ call \in Calls
         /\ doing.at \in {0} \union dirs
         /\ call.rq.kind = "snapshot" => call.rq.ids \subseteq Past
         /\ call.order # 0 => call.order \in DOMAIN srv.orders
         /\ doing.order > 0 =>
               /\ doing.order \in DOMAIN srv.orders
               /\ \A r \in srv.orders[doing.order].ids : r \in doing.left \/ files[r] = {}
         /\ doing.at # 0 => doing.order >= 0
         /\ call.rq.kind = "ack" /\ call.rq.status = "completed" =>
               call.rq.order \in DOMAIN srv.orders /\ Gone(call.rq.order)
BY DEF IInv, Typed, TypeOK, Reported, Carried

LEMMA OrdersAre ==
  ASSUME Typed
  PROVE  /\ DOMAIN srv.orders = 1 .. Len(srv.orders) /\ Len(srv.orders) \in 0 .. MaxOrders
         /\ \A o \in DOMAIN srv.orders : /\ srv.orders[o].ids \subseteq Recordings
                                         /\ srv.orders[o] \in Orders /\ o \in 1 .. MaxOrders
<1>1. srv.orders \in Seq(Orders) /\ Len(srv.orders) <= MaxOrders BY DEF Typed, TypeOK, Server
<1>2. Len(srv.orders) \in Nat /\ DOMAIN srv.orders = 1 .. Len(srv.orders) BY <1>1
<1>3. ASSUME NEW o \in DOMAIN srv.orders
      PROVE  /\ srv.orders[o].ids \subseteq Recordings
             /\ srv.orders[o] \in Orders /\ o \in 1 .. MaxOrders
  <2>1. srv.orders[o] \in Orders BY <1>1, <1>2
  <2>2. o \in 1 .. MaxOrders BY <1>1, <1>2, Constants
  <2> QED BY <2>1, <2>2 DEF Orders
<1> QED BY <1>1, <1>2, <1>3, Constants

LEMMA DeletingInv ==
  ASSUME IInv, NEW rs \in SUBSET Inventory, DeleteAs(rs)
  PROVE  IInv'
<1>1. PICK r \in rs : /\ final' = final \union {r}
                      /\ doing' = [Nothing EXCEPT !.order = 0, !.at = r]
  BY DEF DeleteAs
<1>2. /\ UNCHANGED <<made, open, files, dirs, scan, call, late, srv, faults>>
  BY DEF DeleteAs
<1>3. r \in 1 .. made /\ r \in dirs /\ r \in Nat
  BY InventoryIsPast DEF IInv, Past, Typed, TypeOK, Inventory, Loadable
<1>4. doing' \in Doings /\ doing'.order = 0 /\ doing'.at = r
  <2>1. doing' = [order |-> 0, left |-> {}, at |-> r, gone |-> {}, counted |-> FALSE]
    BY <1>1 DEF Nothing
  <2> QED BY <1>3, <2>1, Constants DEF Doings
<1> QED BY <1>1, <1>2, <1>3, <1>4, QuietFacts, QuietInv

LEMMA PauseInv == ASSUME IInv, Pause PROVE IInv'
<1>1. scan' \in Scans /\ UNCHANGED <<cardVars, doing, call, late, srv, faults>>
  BY DEF Pause, IInv, Typed, Scans
<1> QED BY <1>1, QuietFacts, QuietInv DEF cardVars

LEMMA SnapshotInv == ASSUME IInv, Snapshot PROVE IInv'
<1> DEFINE now == IF scan.due \/ scan.id = 0 THEN [Reset(scan) EXCEPT !.id = FreshScan] ELSE scan
           ids == {r \in Inventory : r > now.cursor}
           page == Smallest(ids, Page)
<1>1. /\ scan' = [now EXCEPT !.next = Cursor(page), !.last = ids = page]
      /\ call' = [NoCall EXCEPT !.step = "sent",
                    !.rq = [NoRequest EXCEPT !.kind = "snapshot", !.scan = now.id,
                               !.first = now.cursor = 0, !.ids = page, !.last = ids = page]]
      /\ UNCHANGED <<cardVars, doing, late, srv, faults>>
  BY DEF Snapshot
<1>2. now \in Scans
  <2>1. FreshScan \in Nat BY FreshScanIsNew DEF IInv
  <2>2. scan \in Scans BY DEF IInv, Typed
  <2> QED BY <2>1, <2>2 DEF Reset, NoScan, Scans
<1> HIDE DEF now
<1>3. page \subseteq Inventory /\ page \subseteq Past /\ page \subseteq Recordings
  BY InventoryIsPast DEF IInv, Smallest, Inventory
<1>4. Cursor(page) \in Nat
  <2>1. CASE page = {} BY <2>1 DEF Cursor
  <2>2. CASE page # {}
    <3>1. Max(page) \in page BY <2>2, <1>3, MaxIsIn
    <3> QED BY <2>2, <3>1, <1>3 DEF Cursor, Recordings
  <2> QED BY <2>1, <2>2
<1> HIDE DEF page, ids
<1>5. scan' \in Scans BY <1>1, <1>2, <1>4 DEF Scans
<1>6. call' \in Calls /\ call'.rq.kind = "snapshot" /\ call'.rq.ids = page /\ call'.order = 0
  BY <1>1, <1>2, <1>3, Constants DEF NoCall, Calls, NoRequest, Request, Final, Scans
<1> QED BY <1>1, <1>3, <1>5, <1>6, QuietFacts, QuietInv DEF cardVars

LEMMA ReceivePageInv == ASSUME IInv, ReceivePage PROVE IInv'
<1> DEFINE o == call.order
<1>1. /\ call' = NoCall /\ UNCHANGED <<cardVars, late, srv, faults>>
      /\ NoCall.rq.kind = "none" /\ NoCall.order = 0
  BY DEF ReceivePage, NoCall, NoRequest
<1>2. scan' \in Scans
  BY DEF ReceivePage, TurnPage, IInv, Typed, Scans
<1>3. /\ doing' \in Doings /\ (doing' = doing \/ doing'.at = 0)
      /\ doing' = doing \/ (doing'.order = o /\ doing'.left = srv.orders[o].ids /\ o # 0)
  <2>1. CASE UNCHANGED doing BY <2>1 DEF IInv, Typed
  <2>2. CASE /\ doing' = [Nothing EXCEPT !.order = o, !.left = srv.orders[o].ids,
                             !.counted = All(o) /\ scan.bulk = o]
             /\ o # 0
    <3>1. o \in DOMAIN srv.orders BY <2>2 DEF IInv, Carried
    <3>2. srv.orders[o].ids \subseteq Recordings /\ o \in 1 .. MaxOrders
      BY <3>1, OrdersAre DEF IInv
    <3> DEFINE b == All(o) /\ scan.bulk = o
    <3>3. b \in BOOLEAN OBVIOUS
    <3>4. doing' = [order |-> o, left |-> srv.orders[o].ids, at |-> 0, gone |-> {}, counted |-> b]
      BY <2>2 DEF Nothing
    <3> HIDE DEF b, o
    <3>5. o \in -1 .. MaxOrders /\ o # 0 BY <3>2, Constants
    <3>6. doing' \in Doings BY <3>2, <3>3, <3>4, <3>5 DEF Doings
    <3> QED BY <3>4, <3>5, <3>6
  <2> QED BY <2>1, <2>2 DEF ReceivePage
<1> QED BY <1>1, <1>2, <1>3, Constants, QuietFacts, QuietInv DEF cardVars, IInv, Carried

LEMMA ChooseInv == ASSUME IInv, Choose PROVE IInv'
<1>1. /\ UNCHANGED <<cardVars, scan, call, late, srv, faults>> /\ Working
  BY DEF Choose
<1>2. PICK r \in Recordings : CanDelete(r) /\ doing' = [doing EXCEPT !.at = r]
  BY QuietFacts DEF Choose, Smallest, Inventory, Doings
<1>3. r \in dirs /\ r \in Nat BY <1>2 DEF CanDelete, Loadable, IInv, Typed, TypeOK, Recordings
<1>4. doing' \in Doings /\ doing'.at = r /\ doing'.order = doing.order /\ doing'.left = doing.left
  BY <1>2, <1>3, QuietFacts DEF Doings
<1>5. doing.order > 0 BY <1>1 DEF Working
<1> QED BY <1>1, <1>3, <1>4, <1>5, QuietFacts, QuietInv DEF cardVars, Doings

(* A recording that cannot be deleted is one of which nothing is left.     *)
LEMMA SkipDeletedInv == ASSUME IInv, SkipDeleted PROVE IInv'
<1>1. /\ UNCHANGED <<cardVars, scan, call, late, srv, faults>> /\ Working /\ doing.at = 0
  BY DEF SkipDeleted
<1>2. PICK r \in doing.left : /\ ~CanDelete(r)
                              /\ doing' = [doing EXCEPT !.left = @ \ {r}, !.gone = @ \union {r},
                                                        !.counted = TRUE]
  BY DEF SkipDeleted
<1>3. r \in Recordings BY QuietFacts DEF Doings
<1>4. /\ doing' \in Doings /\ doing'.at = 0 /\ doing'.order = doing.order
      /\ doing'.left = doing.left \ {r}
  BY <1>1, <1>2, <1>3, QuietFacts DEF Doings
<1>5. doing.order > 0 BY <1>1 DEF Working
<1>6. r \in srv.orders[doing.order].ids => files[r] = {}
  BY <1>2, <1>3, <1>5, QuietFacts DEF CanDelete, Loadable, IInv, Remains, Reported, Past, Files
<1> QED BY <1>1, <1>4, <1>5, <1>6, QuietFacts, QuietInv DEF cardVars

(* The acknowledgement of an order that is carried out, or that failed.    *)
LEMMA SendAckFacts ==
  ASSUME IInv, doing.order > 0, NEW st \in Final, SendAck(st)
  PROVE  /\ call' \in Calls /\ call'.order = 0 /\ call'.rq.kind = "ack"
         /\ call'.rq.status = st /\ call'.rq.order = doing.order
<1>1. doing.order \in 0 .. MaxOrders /\ doing.gone \subseteq Recordings
  BY QuietFacts DEF Doings
<1>2. call' = [rq |-> [kind |-> "ack", scan |-> 0, ids |-> doing.gone, last |-> FALSE,
                       first |-> FALSE, order |-> doing.order, status |-> st],
               step |-> "sent", order |-> 0]
  BY DEF SendAck, NoCall, NoRequest
<1> QED BY <1>1, <1>2, Constants DEF Calls, Request

LEMMA DoneInv == ASSUME IInv, Done PROVE IInv'
<1>1. /\ UNCHANGED <<cardVars, scan, doing, late, srv, faults>> /\ doing.order > 0
      /\ SendAck("completed")
      /\ srv.orders[doing.order].ids # {} => doing.left = {}
  BY DEF Done, Working, All
<1>2. /\ call' \in Calls /\ call'.order = 0 /\ call'.rq.kind = "ack"
      /\ call'.rq.order = doing.order
  BY <1>1, SendAckFacts DEF Final
<1>3. doing.order \in DOMAIN srv.orders /\ Gone(doing.order)
  BY <1>1, QuietFacts DEF Gone
<1> QED BY <1>1, <1>2, <1>3, QuietFacts, QuietInv DEF cardVars

LEMMA ReceiveAckInv == ASSUME IInv, ReceiveAck PROVE IInv'
<1>1. /\ call' = NoCall /\ doing' = Nothing /\ UNCHANGED <<cardVars, late, srv, faults>>
      /\ NoCall.rq.kind = "none" /\ NoCall.order = 0 /\ Nothing.order = -1 /\ Nothing.at = 0
  BY DEF ReceiveAck, NoCall, NoRequest, Nothing
<1>2. scan' \in Scans
  <2>1. scan \in Scans /\ doing \in Doings BY DEF IInv, Typed
  <2>2. Bulk(call.step = "ok") \in Int BY <2>1 DEF Bulk, Scans, Doings
  <2>3. Reset(scan) \in Scans BY <2>1 DEF Reset, NoScan, Scans
  <2>4. TurnPage(scan) \in Scans BY <2>1 DEF TurnPage, Scans
  <2>5. PICK base \in Scans : scan' = [base EXCEPT !.bulk = Bulk(call.step = "ok")]
    BY <2>3, <2>4 DEF ReceiveAck
  <2> QED BY <2>2, <2>5 DEF Scans
<1> QED BY <1>1, <1>2, Constants, QuietFacts, QuietInv DEF cardVars

(* One file at a time: the marker, then the rest, and the marker last.     *)
LEMMA FilesInv ==
  ASSUME IInv, NEW r \in dirs, NEW fs \in SUBSET Files, SetFiles(r, fs),
         files[r] # {},
         fs = {} \/ "marker" \in fs \/ Files \ {"marker"} \subseteq fs,
         "audio" \in fs => "manifest" \in fs
  PROVE  IInv'
<1> USE DEF IInv
<1>1. /\ files' = [files EXCEPT ![r] = fs]
      /\ UNCHANGED <<made, open, dirs, final, scan, doing, call, late, srv, faults>>
  BY DEF SetFiles
<1>2. /\ files' \in [Recordings -> SUBSET Files] /\ r \in Recordings
      /\ \A q \in Recordings : files'[q] = IF q = r THEN fs ELSE files[q]
  BY <1>1, Constants DEF Typed, TypeOK, Recordings
<1>3. TypeOK' BY <1>1, <1>2 DEF Typed, TypeOK
<1>4. Typed' BY <1>1, <1>3 DEF Typed
<1>5. Remains' BY <1>2 DEF Remains
<1>6. Past' = Past BY <1>1 DEF Past
<1>7. Reported' BY <1>1, <1>6 DEF Reported
<1>8. \A q \in Recordings : files[q] = {} => files'[q] = {} BY <1>2
<1>9. \A o \in DOMAIN srv.orders : srv.orders[o].ids \subseteq Recordings
  BY OrdersAre
<1>10. Carried'
  <2>1. \A o \in DOMAIN srv.orders : Gone(o) => Gone(o)' BY <1>1, <1>8, <1>9 DEF Gone
  <2> QED BY <1>1, <1>8, <1>9, <2>1 DEF Carried
<1>11. DoneIsGone' BY <1>1, <1>8, <1>9 DEF DoneIsGone
<1> QED BY <1>4, <1>5, <1>7, <1>10, <1>11

LEMMA MarkInv == ASSUME IInv, Mark PROVE IInv'
<1> DEFINE r == doing.at
<1>1. r \in dirs /\ r \in Recordings /\ files[r] \in SUBSET Files
  <2>1. r \in dirs BY QuietFacts DEF Mark
  <2> QED BY <2>1, DirsAre DEF IInv, Typed, TypeOK
<1>2. /\ files[r] # {} /\ "manifest" \in files[r]
      /\ SetFiles(r, files[r] \union {"marker"})
  BY <1>1 DEF Mark, IInv, Remains
<1> DEFINE fs == files[r] \union {"marker"}
<1>3. /\ fs \in SUBSET Files /\ "marker" \in fs
      /\ "audio" \in fs => "manifest" \in fs
  BY <1>1, <1>2 DEF Files
<1>4. SetFiles(r, fs) BY <1>2
<1> HIDE DEF r, fs
<1> QED BY <1>1, <1>2, <1>3, <1>4, FilesInv

LEMMA UnlinkInv == ASSUME IInv, Unlink PROVE IInv'
<1> DEFINE r == doing.at
<1>1. r \in dirs /\ r \in Recordings /\ files[r] \in SUBSET Files /\ "marker" \in files[r]
  <2>1. r \in dirs BY QuietFacts DEF Unlink
  <2> QED BY <2>1, DirsAre DEF IInv, Typed, TypeOK, Unlink
<1>2. PICK f \in Removable(files[r]) : SetFiles(r, files[r] \ {f}) BY DEF Unlink
<1>3. "audio" \in files[r] => "manifest" \in files[r] BY <1>1 DEF IInv, Remains
<1> HIDE DEF r
<1>4. /\ files[r] \ {f} = {} \/ "marker" \in files[r] \ {f}
      /\ "audio" \in files[r] \ {f} => "manifest" \in files[r] \ {f}
  <2>1. CASE files[r] \ {"manifest", "marker"} # {}
    BY <1>1, <1>2, <1>3, <2>1 DEF Removable
  <2>2. CASE files[r] \ {"manifest", "marker"} = {} /\ "manifest" \in files[r]
    BY <1>1, <1>2, <2>2 DEF Removable
  <2>3. CASE files[r] \ {"manifest", "marker"} = {} /\ "manifest" \notin files[r]
    <3>1. files[r] = {"marker"} BY <1>1, <2>3
    <3> QED BY <1>2, <2>3, <3>1 DEF Removable
  <2> QED BY <2>1, <2>2, <2>3
<1> QED BY <1>1, <1>2, <1>4, FilesInv

LEMMA RemoveDirectoryInv == ASSUME IInv, RemoveDirectory PROVE IInv'
<1> USE DEF IInv
<1> DEFINE r == doing.at
<1>1. /\ r # 0 /\ r \in dirs /\ r \in Recordings /\ files[r] = {} /\ dirs' = dirs \ {r}
      /\ UNCHANGED <<made, open, files, final, scan, call, late, srv, faults>>
  BY Constants, QuietFacts DEF RemoveDirectory, Typed, TypeOK, Recordings
<1>2. /\ doing' \in Doings /\ doing'.at = 0
      /\ doing'.order > 0 => doing'.order = doing.order /\ doing'.left = doing.left \ {r}
  <2>1. CASE doing' = Nothing BY <2>1, Constants DEF Nothing
  <2>2. CASE doing' = [doing EXCEPT !.at = 0, !.left = @ \ {r}, !.counted = TRUE,
                         !.gone = IF All(doing.order) THEN {} ELSE @ \union {r}]
    BY <1>1, <2>2, QuietFacts DEF Doings
  <2> QED BY <2>1, <2>2 DEF RemoveDirectory
<1> HIDE DEF r
<1>3. Typed'
  <2>1. {q \in Recordings : files[q] # {}} \subseteq dirs \ {r}
    BY <1>1 DEF Typed, TypeOK
  <2>2. doing'.order \in -1 .. MaxOrders /\ doing'.left \union doing'.gone \subseteq Recordings
    BY <1>2 DEF Doings
  <2> QED BY <1>1, <1>2, <2>1, <2>2 DEF Typed, TypeOK
<1>4. Past' = Past BY <1>1 DEF Past
<1>5. Remains' /\ Reported' /\ DoneIsGone' BY <1>1, <1>4 DEF Remains, Reported, DoneIsGone
<1>6. Carried' BY <1>1, <1>2 DEF Carried, Gone
<1> QED BY <1>3, <1>5, <1>6

-----------------------------------------------------------------------------
(* The server. *)

LEMMA NextOrderIs ==
  ASSUME NEW s \in Server
  PROVE  NextOrder(s) = 0 \/ NextOrder(s) \in DOMAIN s.orders
<1>1. DOMAIN s.orders = 1 .. Len(s.orders) /\ Len(s.orders) \in Nat BY DEF Server
<1>2. /\ Begun(s) \in SUBSET Nat /\ Waiting(s) \in SUBSET Nat
      /\ Begun(s) \subseteq DOMAIN s.orders /\ Waiting(s) \subseteq DOMAIN s.orders
  BY <1>1 DEF Begun, Waiting
<1>3. CASE Begun(s) # {}
  <2>1. Min(Begun(s)) \in Begun(s) BY <1>2, <1>3, MinIsIn
  <2> QED BY <1>2, <1>3, <2>1 DEF NextOrder
<1>4. CASE Begun(s) = {} /\ Waiting(s) # {}
  <2>1. Min(Waiting(s)) \in Waiting(s) BY <1>2, <1>4, MinIsIn
  <2> QED BY <1>2, <1>4, <2>1 DEF NextOrder
<1>5. CASE Begun(s) = {} /\ Waiting(s) = {} BY <1>5 DEF NextOrder
<1> QED BY <1>3, <1>4, <1>5

(* Setting the status of an order leaves the orders what they are.         *)
LEMMA StatusSet ==
  ASSUME NEW f \in Seq(Orders), NEW o \in DOMAIN f,
         NEW st \in {"queued", "in_progress"} \union Final,
         NEW g, g = [f EXCEPT ![o].status = st]
  PROVE  /\ g \in Seq(Orders) /\ DOMAIN g = DOMAIN f /\ Len(g) = Len(f)
         /\ \A p \in DOMAIN f : /\ g[p].ids = f[p].ids
                                /\ g[p].status = IF p = o THEN st ELSE f[p].status
<1>1. f[o] \in Orders /\ DOMAIN f = 1 .. Len(f) /\ Len(f) \in Nat OBVIOUS
<1>2. /\ [f[o] EXCEPT !.status = st] \in Orders
      /\ [f[o] EXCEPT !.status = st].ids = f[o].ids
      /\ [f[o] EXCEPT !.status = st].status = st
  BY <1>1 DEF Orders
<1>3. g = [f EXCEPT ![o] = [f[o] EXCEPT !.status = st]] OBVIOUS
<1> DEFINE e == [f[o] EXCEPT !.status = st]
<1> HIDE DEF e
<1>4. g = [f EXCEPT ![o] = e] /\ e \in Orders /\ e.ids = f[o].ids /\ e.status = st
  BY <1>2, <1>3 DEF e
<1> QED BY ONLY f \in Seq(Orders), o \in DOMAIN f, <1>1, <1>4

(* What a request does to the list and to the orders.                      *)
LEMMA ServedIs ==
  ASSUME IInv, Asked, NEW rq \in late \union {call.rq}, rq.kind # "none",
         NEW t, t = Served(srv, rq)
  PROVE  /\ t \in Server /\ DOMAIN t.orders = DOMAIN srv.orders /\ Len(t.orders) = Len(srv.orders)
         /\ \A o \in DOMAIN srv.orders :
              /\ t.orders[o].ids = srv.orders[o].ids
              /\ t.orders[o].status = "completed" =>
                   srv.orders[o].status = "completed" \/ Gone(o)
         /\ \A r \in Recordings : t.rows[r] # 0 => r \in Past
<1> USE DEF IInv
<1>0. /\ rq \in Request /\ srv \in Server /\ srv.orders \in Seq(Orders)
      /\ srv.rows \in [Recordings -> Nat]
  BY DEF Typed, TypeOK, Server
<1>3. rq.kind \in {"snapshot", "ack"} BY <1>0 DEF Request
<1>1. CASE rq.kind = "snapshot"
  <2> DEFINE s == Report(srv, rq)
             o == NextOrder(s)
  <2>1. t = Deliver(s) BY <1>1 DEF Served
  <2>2. /\ s \in Server /\ s.orders = srv.orders
        /\ \A r \in Recordings : s.rows[r] # 0 => r \in Past
    <3>1. rq.ids \subseteq Past BY <1>1 DEF Reported
    <3> DEFINE one == [r \in Recordings |-> IF r \in rq.ids THEN rq.scan ELSE srv.rows[r]]
               two == [r \in Recordings |-> IF one[r] = rq.scan THEN rq.scan ELSE 0]
               rows == IF ~rq.last THEN one ELSE two
    <3>2. rq.scan \in Nat BY <1>0 DEF Request
    <3>3. one \in [Recordings -> Nat] /\ two \in [Recordings -> Nat] BY <1>0, <3>2
    <3>4. \A r \in Recordings : one[r] # 0 => r \in Past BY <3>1 DEF Reported
    <3>5. \A r \in Recordings : two[r] # 0 => one[r] # 0 OBVIOUS
    <3>6. s = [srv EXCEPT !.scan = rq.scan, !.rows = rows] BY DEF Report
    <3>7. rows \in [Recordings -> Nat] /\ \A r \in Recordings : rows[r] # 0 => r \in Past
      BY <3>3, <3>4, <3>5
    <3> HIDE DEF one, two, rows, s
    <3> QED BY <1>0, <3>2, <3>6, <3>7 DEF Server
  <2> HIDE DEF s, o
  <2>3. CASE o = 0
    <3>1. t = s BY <2>1, <2>3 DEF Deliver, o
    <3> QED BY <2>2, <3>1
  <2>4. CASE o # 0
    <3>1. o \in DOMAIN srv.orders BY <2>2, <2>4, NextOrderIs DEF o
    <3> DEFINE st == "in_progress"
               g == [srv.orders EXCEPT ![o].status = st]
    <3>2. t = [s EXCEPT !.orders = [s.orders EXCEPT ![o].status = "in_progress"]]
      BY <2>1, <2>4 DEF Deliver, o
    <3>3. t = [s EXCEPT !.orders = g] BY <2>2, <3>2 DEF g
    <3>4. st \in {"queued", "in_progress"} \union Final /\ st # "completed" BY DEF st
    <3>5. g = [srv.orders EXCEPT ![o].status = st] BY DEF g
    <3> HIDE DEF g, st
    <3>6. /\ g \in Seq(Orders) /\ DOMAIN g = DOMAIN srv.orders /\ Len(g) = Len(srv.orders)
          /\ \A p \in DOMAIN srv.orders :
               /\ g[p].ids = srv.orders[p].ids
               /\ g[p].status = IF p = o THEN st ELSE srv.orders[p].status
      <4> DEFINE f == srv.orders
      <4>1. f \in Seq(Orders) /\ o \in DOMAIN f /\ g = [f EXCEPT ![o].status = st]
        BY <1>0, <3>1, <3>5
      <4>2. st \in {"queued", "in_progress"} \union Final BY <3>4
      <4> HIDE DEF f
      <4>3. /\ g \in Seq(Orders) /\ DOMAIN g = DOMAIN f /\ Len(g) = Len(f)
            /\ \A p \in DOMAIN f : /\ g[p].ids = f[p].ids
                                   /\ g[p].status = IF p = o THEN st ELSE f[p].status
        BY <4>1, <4>2, StatusSet, SMTT(60)
      <4> QED BY <4>3 DEF f
    <3>8. t \in Server /\ t.orders = g /\ t.rows = s.rows BY <2>2, <3>3, <3>6 DEF Server
    <3> QED BY <2>2, <3>4, <3>6, <3>8
  <2> QED BY <2>3, <2>4
<1>2. CASE rq.kind = "ack"
  <2> DEFINE o == rq.order
             st == rq.status
  <2>1. t = Acknowledge(srv, rq) BY <1>2 DEF Served
  <2>2. CASE srv.orders[o].status \in Final
    <3>1. t = srv BY <2>1, <2>2 DEF Acknowledge
    <3> QED BY <1>0, <3>1 DEF Reported
  <2>3. CASE srv.orders[o].status \notin Final
    <3> DEFINE rows == [r \in Recordings |->
                          IF r \in rq.ids \/ (srv.orders[o].ids = {} /\ st = "completed")
                          THEN 0 ELSE srv.rows[r]]
    <3> DEFINE g == [srv.orders EXCEPT ![o].status = st]
    <3>1. t = [srv EXCEPT !.orders = g, !.rows = rows]
      BY <2>1, <2>3 DEF Acknowledge
    <3>2. /\ rows \in [Recordings -> Nat]
          /\ \A r \in Recordings : rows[r] # 0 => r \in Past
      BY <1>0 DEF Reported
    <3> HIDE DEF rows
    <3>3. g = [srv.orders EXCEPT ![o].status = st] BY DEF g
    <3> HIDE DEF g
    <3>5. CASE o \in DOMAIN srv.orders
      <4>1. CASE st \in Final
        <5>1. /\ g \in Seq(Orders) /\ DOMAIN g = DOMAIN srv.orders /\ Len(g) = Len(srv.orders)
              /\ \A p \in DOMAIN srv.orders :
                   /\ g[p].ids = srv.orders[p].ids
                   /\ g[p].status = IF p = o THEN st ELSE srv.orders[p].status
          BY <1>0, <3>3, <3>5, <4>1, StatusSet
        <5>2. t \in Server /\ t.orders = g /\ t.rows = rows BY <1>0, <3>1, <3>2, <5>1 DEF Server
        <5>3. st = "completed" => Gone(o) BY <1>2 DEF Carried
        <5> QED BY <3>2, <5>1, <5>2, <5>3
      <4>2. st \in Final BY <1>2 DEF Asked
      <4> QED BY <4>1, <4>2
    <3>6. CASE o \notin DOMAIN srv.orders
      <4>1. g = srv.orders BY <1>0, <3>3, <3>6
      <4>2. t \in Server /\ t.orders = g /\ t.rows = rows BY <1>0, <3>1, <3>2, <4>1 DEF Server
      <4> QED BY <3>2, <4>1, <4>2
    <3> QED BY <3>5, <3>6
  <2> QED BY <2>2, <2>3
<1> QED BY <1>1, <1>2, <1>3

(* The answer names the order it delivers, and the list stays true.        *)
LEMMA ServedInv ==
  ASSUME IInv, Asked, NEW rq \in late \union {call.rq}, rq.kind # "none",
         srv' = Served(srv, rq), UNCHANGED <<cardVars, scan, doing, faults>>,
         late' \subseteq late, call' \in Calls, call'.rq = call.rq,
         call'.order # 0 => call'.order \in DOMAIN srv'.orders
  PROVE  IInv'
<1> USE DEF IInv
<1> DEFINE t == srv'
<1>1. /\ t \in Server /\ DOMAIN t.orders = DOMAIN srv.orders /\ Len(t.orders) = Len(srv.orders)
      /\ \A o \in DOMAIN srv.orders :
           /\ t.orders[o].ids = srv.orders[o].ids
           /\ t.orders[o].status = "completed" =>
                srv.orders[o].status = "completed" \/ Gone(o)
      /\ \A r \in Recordings : t.rows[r] # 0 => r \in Past
  BY ServedIs
<1> HIDE DEF t
<1>2. srv' = t /\ UNCHANGED <<made, open, files, dirs, final, scan, doing, faults>>
  BY DEF t, cardVars
<1>3. Typed'
  <2>1. IsFiniteSet(late') /\ Cardinality(late') <= faults
    <3>1. IsFiniteSet(late') /\ Cardinality(late') <= Cardinality(late)
      BY FS_Subset DEF Typed
    <3>2. Cardinality(late') \in Nat /\ Cardinality(late) \in Nat /\ faults \in Nat
      BY <3>1, FS_CardinalityType, Constants DEF Typed, TypeOK
    <3> QED BY <3>1, <3>2 DEF Typed
  <2>2. t.rows \in [Recordings -> Nat] /\ Len(t.orders) <= MaxOrders
    BY <1>1 DEF Server, Typed, TypeOK
  <2> QED BY <1>1, <1>2, <2>1, <2>2 DEF Typed, TypeOK, Calls
<1>4. Past' = Past BY <1>2 DEF Past
<1>5. \A o \in DOMAIN srv.orders : Gone(o) <=> Gone(o)' BY <1>1, <1>2 DEF Gone
<1>6. Reported' BY <1>1, <1>2, <1>4 DEF Reported
<1>7. Carried' BY <1>1, <1>2, <1>5 DEF Carried
<1>8. DoneIsGone' BY <1>1, <1>2, <1>5 DEF DoneIsGone, Gone
<1> QED BY <1>2, <1>3, <1>6, <1>7, <1>8 DEF Remains

LEMMA ServeInv == ASSUME IInv, Asked, Serve PROVE IInv'
<1> DEFINE rq == call.rq
           n == IF rq.kind = "snapshot" THEN NextOrder(srv') ELSE 0
<1>1. /\ rq \in late \union {call.rq} /\ rq.kind # "none" /\ srv' = Served(srv, rq)
      /\ call' = [call EXCEPT !.step = "ok", !.order = n] /\ late' = late
      /\ UNCHANGED <<cardVars, scan, doing, faults>>
  BY DEF Serve, Asked
<1>2. /\ srv' \in Server /\ DOMAIN srv'.orders = DOMAIN srv.orders
  BY <1>1, ServedIs
<1>3. n = 0 \/ n \in DOMAIN srv'.orders BY <1>2, NextOrderIs
<1>4. n \in 0 .. MaxOrders BY <1>2, <1>3, OrdersAre, Constants DEF IInv
<1> HIDE DEF n
<1>5. call' \in Calls /\ call'.rq = call.rq /\ call'.order = n
  BY <1>1, <1>4 DEF IInv, Typed, Calls
<1> QED BY <1>1, <1>3, <1>5, ServedInv

LEMMA ServeLateInv == ASSUME IInv, Asked, ServeLate PROVE IInv'
<1>1. PICK rq \in late : late' = late \ {rq} /\ srv' = Served(srv, rq) BY DEF ServeLate
<1>2. UNCHANGED <<cardVars, scan, doing, call, faults>> BY DEF ServeLate
<1>3. rq \in late \union {call.rq} /\ rq.kind # "none" BY DEF Asked
<1>4. DOMAIN srv'.orders = DOMAIN srv.orders BY <1>1, <1>3, ServedIs
<1>5. /\ late' \subseteq late /\ call' \in Calls /\ call'.rq = call.rq
      /\ call'.order # 0 => call'.order \in DOMAIN srv'.orders
  BY <1>1, <1>2, <1>4, QuietFacts
<1> QED BY <1>1, <1>2, <1>3, <1>5, ServedInv

(* A request that is late has cost a fault, so few are.                    *)
LEMMA LateFacts ==
  ASSUME IInv, NEW kind, Fault(kind), NEW new \in {{}, {call.rq}}, late' = late \union new
  PROVE  /\ faults' \in 0 .. MaxFaults /\ IsFiniteSet(late') /\ Cardinality(late') <= faults'
         /\ late' \subseteq Request
<1>1. /\ IsFiniteSet(late) /\ Cardinality(late) <= faults /\ faults \in 0 .. MaxFaults
      /\ faults' = faults + 1 /\ faults < MaxFaults /\ late \subseteq Request
      /\ call.rq \in Request
  BY DEF IInv, Typed, TypeOK, Fault
<1>2. Cardinality(late) \in Nat BY <1>1, FS_CardinalityType
<1>3. CASE new = {} BY <1>1, <1>2, <1>3, Constants
<1>4. CASE new = {call.rq}
  <2>1. /\ IsFiniteSet(late \union {call.rq})
        /\ Cardinality(late \union {call.rq}) =
             IF call.rq \in late THEN Cardinality(late) ELSE Cardinality(late) + 1
    BY <1>1, FS_AddElement
  <2> QED BY <1>1, <1>2, <1>4, <2>1, Constants
<1> QED BY <1>3, <1>4

LEMMA LoseInv == ASSUME IInv, Lose PROVE IInv'
<1> USE DEF IInv
<1>1. \E kind \in {"lost", "late"} : \E new \in {{}, {call.rq}} :
         Fault(kind) /\ late' = late \union new
  <2>1. CASE Fault("lost") /\ UNCHANGED late
    <3>1. late' = late \union {} BY <2>1
    <3> QED BY <2>1, <3>1
  <2>2. CASE Fault("late") /\ late' = late \union {call.rq} BY <2>2
  <2> QED BY <2>1, <2>2 DEF Lose
<1>2. /\ faults' \in 0 .. MaxFaults /\ IsFiniteSet(late') /\ Cardinality(late') <= faults'
      /\ late' \subseteq Request
  BY <1>1, LateFacts
<1>10. late' \subseteq late \union {call.rq} BY <1>1
<1>3. /\ UNCHANGED <<made, open, files, dirs, final, scan, doing, srv>>
      /\ call' = [call EXCEPT !.step = "lost"]
  BY DEF Lose, cardVars
<1>4. call' \in Calls /\ call'.rq = call.rq /\ call'.order = call.order
  BY <1>3 DEF Typed, Calls
<1>5. late' \union {call'.rq} \subseteq late \union {call.rq} BY <1>4, <1>10
<1>6. Typed' BY <1>2, <1>3, <1>4 DEF Typed, TypeOK
<1>7. Past' = Past BY <1>3 DEF Past
<1>8. Reported' BY <1>3, <1>5, <1>7 DEF Reported
<1>9. Carried'
  <2>1. \A o : Gone(o) <=> Gone(o)' BY <1>3 DEF Gone
  <2> QED BY <1>3, <1>4, <1>5, <2>1 DEF Carried
<1> QED BY <1>3, <1>6, <1>8, <1>9 DEF Remains, DoneIsGone

LEMMA OrderInv == ASSUME IInv, Order PROVE IInv'
<1> USE DEF IInv
<1>1. PICK ids \in SUBSET Listed(srv) :
         srv' = [srv EXCEPT !.orders = Append(@, [ids |-> ids, status |-> "queued"])]
  BY DEF Order
<1> DEFINE g == Append(srv.orders, [ids |-> ids, status |-> "queued"])
<1>2. /\ UNCHANGED <<made, open, files, dirs, final, scan, doing, call, late, faults>>
      /\ Len(srv.orders) < MaxOrders
  BY DEF Order, cardVars
<1>3. ids \subseteq Past /\ ids \subseteq Recordings BY DEF Listed, Reported
<1>4. [ids |-> ids, status |-> "queued"] \in Orders BY <1>3 DEF Orders
<1>5. srv \in Server /\ srv.orders \in Seq(Orders) BY DEF Typed, Server
<1>6. /\ g \in Seq(Orders) /\ Len(g) = Len(srv.orders) + 1
      /\ DOMAIN srv.orders = 1 .. Len(srv.orders) /\ DOMAIN g = 1 .. Len(g)
      /\ Len(srv.orders) \in Nat
      /\ \A o \in DOMAIN srv.orders : g[o] = srv.orders[o]
      /\ g[Len(g)] = [ids |-> ids, status |-> "queued"]
  BY <1>4, <1>5
<1>7. srv' = [srv EXCEPT !.orders = g] BY <1>1, <1>5
<1> HIDE DEF g
<1>8. \A o \in DOMAIN g : \/ o \in DOMAIN srv.orders
                          \/ o = Len(g) /\ g[o].ids = ids /\ g[o].status = "queued"
  <2>1. \A o \in 1 .. Len(srv.orders) + 1 : o \in 1 .. Len(srv.orders) \/ o = Len(srv.orders) + 1
    BY <1>6
  <2>2. g[Len(g)].ids = ids /\ g[Len(g)].status = "queued" BY <1>6
  <2> QED BY <1>6, <2>1, <2>2
<1>9. srv' \in Server /\ srv'.orders = g /\ srv'.rows = srv.rows BY <1>5, <1>6, <1>7 DEF Server
<1>10. Len(g) <= MaxOrders BY <1>2, <1>6, Constants
<1>11. DOMAIN srv.orders \subseteq DOMAIN g BY <1>6
<1>12. Typed' BY <1>2, <1>9, <1>10 DEF Typed, TypeOK, Server
<1>13. Past' = Past BY <1>2 DEF Past
<1>14. Reported' BY <1>2, <1>3, <1>6, <1>8, <1>9, <1>13 DEF Reported
<1>15. \A o \in DOMAIN srv.orders : Gone(o) <=> Gone(o)' BY <1>2, <1>6, <1>9 DEF Gone
<1>16. Carried' BY <1>2, <1>6, <1>9, <1>11, <1>15 DEF Carried
<1>17. DoneIsGone' BY <1>2, <1>6, <1>8, <1>9 DEF DoneIsGone
<1> QED BY <1>2, <1>12, <1>14, <1>16, <1>17 DEF Remains

LEMMA FailInv == ASSUME IInv, Fail PROVE IInv'
<1> USE DEF IInv
<1>1. /\ UNCHANGED <<made, open, files, dirs, final, scan, late, srv>> /\ doing.at # 0
      /\ faults' \in 0 .. MaxFaults /\ faults <= faults'
  BY Constants DEF Fail, cardVars, Fault, Typed, TypeOK
<1>2. Cardinality(late) <= faults'
  <2>1. Cardinality(late) \in Nat BY FS_CardinalityType DEF Typed
  <2> QED BY <1>1, <2>1, Constants DEF Typed, TypeOK
<1>3. Past' = Past BY <1>1 DEF Past
<1>4. \A o : Gone(o) <=> Gone(o)' BY <1>1 DEF Gone
<1>5. CASE doing.order = 0
  <2>1. doing' = Nothing /\ call' = call BY <1>5 DEF Fail
  <2>2. Nothing \in Doings /\ Nothing.order = -1 /\ Nothing.at = 0
    BY Constants DEF Nothing
  <2>3. Typed' BY <1>1, <1>2, <2>1, <2>2 DEF Typed, TypeOK, Doings
  <2>4. Reported' BY <1>1, <1>3, <2>1 DEF Reported
  <2>5. Carried' BY <1>1, <1>4, <2>1, <2>2 DEF Carried
  <2> QED BY <1>1, <2>3, <2>4, <2>5 DEF Remains, DoneIsGone
<1>6. CASE doing.order # 0
  <2>1. doing' = [doing EXCEPT !.at = 0] /\ SendAck("failed") /\ doing.order > 0
    BY <1>1, <1>6, QuietFacts DEF Fail, Doings
  <2>2. /\ call' \in Calls /\ call'.order = 0 /\ call'.rq.kind = "ack"
        /\ call'.rq.status = "failed"
    BY <2>1, SendAckFacts DEF Final
  <2>3. /\ doing' \in Doings /\ doing'.order = doing.order /\ doing'.at = 0
        /\ doing'.left = doing.left
    BY <2>1, QuietFacts DEF Doings
  <2>4. Typed' BY <1>1, <1>2, <2>2, <2>3 DEF Typed, TypeOK, Doings, Calls
  <2>5. Reported' BY <1>1, <1>3, <2>2 DEF Reported
  <2>6. Carried' BY <1>1, <1>4, <2>2, <2>3 DEF Carried
  <2> QED BY <1>1, <2>4, <2>5, <2>6 DEF Remains, DoneIsGone
<1> QED BY <1>5, <1>6

(* Recovery finds a manifest wherever there is audio: it changes no file.  *)
LEMMA PowerLossInv == ASSUME IInv, PowerLoss PROVE IInv' /\ files' = files
<1> USE DEF IInv
<1>1. \E new \in {{}, {call.rq}} : Fault("power") /\ late' = late \union new
  BY DEF PowerLoss
<1>2. /\ faults' \in 0 .. MaxFaults /\ IsFiniteSet(late') /\ Cardinality(late') <= faults'
      /\ late' \subseteq Request
  BY <1>1, LateFacts
<1>3. late' \subseteq late \union {call.rq} BY <1>1
<1>4. /\ UNCHANGED <<made, dirs, final, srv>>
      /\ open' = 0 /\ scan' = NoScan /\ doing' = Nothing /\ call' = NoCall
  BY DEF PowerLoss
<1>5. files' = files
  <2>1. files \in [Recordings -> SUBSET Files] BY DEF Typed, TypeOK
  <2>2. files' = [r \in Recordings |->
                    files[r] \union IF "audio" \in files[r] THEN {"manifest"} ELSE {}]
    BY DEF PowerLoss
  <2>3. \A r \in Recordings :
           files[r] \union (IF "audio" \in files[r] THEN {"manifest"} ELSE {}) = files[r]
    BY DEF Remains
  <2> QED BY <2>1, <2>2, <2>3
<1>6. /\ NoCall.rq.kind = "none" /\ NoCall.order = 0 /\ NoCall.rq \in Request
      /\ Nothing.order = -1 /\ Nothing.at = 0 /\ Nothing.left \union Nothing.gone = {}
  BY Constants DEF NoCall, NoRequest, Nothing
<1>7. Typed' BY <1>2, <1>4, <1>5, <1>6, Constants DEF Typed, TypeOK
<1>8. Past \subseteq Past' BY <1>4 DEF Past, Typed, TypeOK
<1>9. Reported' BY <1>3, <1>4, <1>6, <1>8 DEF Reported
<1>10. \A o : Gone(o) <=> Gone(o)' BY <1>4, <1>5 DEF Gone
<1>11. Carried' BY <1>3, <1>4, <1>6, <1>10 DEF Carried
<1> QED BY <1>4, <1>5, <1>7, <1>9, <1>11 DEF Remains, DoneIsGone

-----------------------------------------------------------------------------
LEMMA InitAsked == Init => Asked
BY DEF Init, Asked, NoCall, NoRequest

LEMMA NextAsked == ASSUME IInv, Asked, [Next]_vars PROVE Asked'
<1>0. call \in Calls BY DEF IInv, Typed
<1>1. CASE Snapshot
  <2>1. call'.rq.kind = "snapshot" /\ late' = late
    BY <1>1 DEF Snapshot, NoCall, NoRequest
  <2> QED BY <2>1 DEF Asked
<1>2. ASSUME NEW st \in Final, SendAck(st), late' = late PROVE Asked'
  <2>1. call'.rq.kind = "ack" /\ call'.rq.status = st
    BY <1>2 DEF SendAck, NoCall, NoRequest
  <2> QED BY <1>2, <2>1 DEF Asked
<1>3. CASE call' = NoCall /\ late' \subseteq late \union {call.rq} /\
           (call.rq \in late' => call.step # "none" \/ call.rq \in late)
  <2>1. NoCall.rq.kind = "none" /\ NoCall.step = "none" BY DEF NoCall, NoRequest
  <2> QED BY <1>3, <2>1 DEF Asked
<1>4. CASE Serve
  <2>1. call'.rq = call.rq /\ late' = late /\ call.step # "none"
    BY <1>0, <1>4 DEF Serve, Calls
  <2> QED BY <2>1 DEF Asked
<1>5. CASE Lose
  <2>1. call' = [call EXCEPT !.step = "lost"] /\ call.step # "none"
    BY <1>5 DEF Lose
  <2>2. late' \subseteq late \union {call.rq} BY <1>5 DEF Lose
  <2>3. call'.rq = call.rq BY <1>0, <2>1 DEF Calls
  <2> QED BY <2>1, <2>2, <2>3 DEF Asked
<1>6. CASE call' = call /\ late' \subseteq late BY <1>6 DEF Asked
<1>7. CASE Record \/ CloseRecording \/ Accept \/ Order \/ DeleteAccepted \/ Pause \/ UNCHANGED vars
  BY <1>6, <1>7 DEF Record, CloseRecording, Accept, Order, DeleteAccepted, DeleteAs, Pause, vars
<1>8. CASE SkipDeleted \/ Choose \/ Mark \/ Unlink \/ RemoveDirectory
  BY <1>6, <1>8 DEF SkipDeleted, Choose, Mark, Unlink, RemoveDirectory, SetFiles
<1>9. CASE ServeLate BY <1>6, <1>9 DEF ServeLate
<1>10. CASE Done BY <1>2, <1>10 DEF Done, Final
<1>11. CASE Fail
  <2>1. (SendAck("failed") \/ call' = call) /\ late' = late BY <1>11 DEF Fail
  <2> QED BY <1>2, <1>6, <2>1 DEF Final
<1>12. CASE ReceivePage \/ ReceiveAck BY <1>3, <1>12 DEF ReceivePage, ReceiveAck
<1>13. CASE PowerLoss BY <1>3, <1>13 DEF PowerLoss
<1> QED BY <1>1, <1>4, <1>5, <1>7, <1>8, <1>9, <1>10, <1>11, <1>12, <1>13 DEF Next, Storage

LEMMA NextInv == ASSUME IInv, Asked, [Next]_vars PROVE IInv'
<1>1. CASE Record \/ CloseRecording \/ Order
  BY <1>1, RecordInv, CloseRecordingInv, OrderInv
<1>2. CASE Accept \/ DeleteAccepted
  <2>1. Inventory \ final \in SUBSET Inventory /\ Inventory \intersect final \in SUBSET Inventory
    OBVIOUS
  <2> QED BY <1>2, <2>1, DeletingInv DEF Accept, DeleteAccepted
<1>3. CASE Pause \/ Snapshot \/ ReceivePage BY <1>3, PauseInv, SnapshotInv, ReceivePageInv
<1>4. CASE SkipDeleted \/ Choose \/ Mark \/ Unlink \/ RemoveDirectory
  BY <1>4, SkipDeletedInv, ChooseInv, MarkInv, UnlinkInv, RemoveDirectoryInv
<1>5. CASE Done \/ ReceiveAck \/ Fail BY <1>5, DoneInv, ReceiveAckInv, FailInv
<1>6. CASE Serve \/ ServeLate \/ Lose BY <1>6, ServeInv, ServeLateInv, LoseInv
<1>7. CASE PowerLoss BY <1>7, PowerLossInv
<1>8. CASE UNCHANGED vars
  <2>1. /\ UNCHANGED <<made, open, files, dirs, final, scan, doing, call, late, srv, faults>>
    BY <1>8 DEF vars, cardVars
  <2>2. Typed' BY <2>1 DEF IInv, Typed, TypeOK
  <2>3. Past' = Past BY <2>1 DEF Past
  <2>4. Reported' BY <2>1, <2>3 DEF IInv, Reported
  <2> QED BY <2>1, <2>2, <2>4 DEF IInv, Remains, Carried, Gone, DoneIsGone
<1> QED BY <1>1, <1>2, <1>3, <1>4, <1>5, <1>6, <1>7, <1>8 DEF Next, Storage

LEMMA SpecInv == Spec => [](IInv /\ Asked)
<1>1. Init => IInv /\ Asked BY InitInv, InitAsked
<1>2. IInv /\ Asked /\ [Next]_vars => (IInv /\ Asked)' BY NextInv, NextAsked
<1> QED BY <1>1, <1>2, PTL DEF Spec

-----------------------------------------------------------------------------
(* The card, the scan, the requests and the list keep their types, and what *)
(* has files has a directory.                                              *)
THEOREM TypeCorrect == Spec => []TypeOK
<1>1. IInv => TypeOK BY DEF IInv, Typed
<1> QED BY <1>1, SpecInv, PTL

(* delete_session_locked and storage_sync_once: an order the owner is told *)
(* to be completed has left no file of the recordings it names, wherever   *)
(* power failed and whatever request was lost, late or repeated.           *)
THEOREM DoneLeavesNothing == Spec => []DoneIsGone
<1>1. IInv => DoneIsGone BY DEF IInv
<1> QED BY <1>1, SpecInv, PTL

LEMMA NextShrinks ==
  ASSUME IInv, [Next]_vars, NEW r \in Recordings, "marker" \in files[r]
  PROVE  files'[r] \subseteq files[r]
<1>0. files \in [Recordings -> SUBSET Files] /\ made \in Nat BY DEF IInv, Typed, TypeOK
<1>1. CASE Record
  <2>1. files' = [files EXCEPT ![made + 1] = Files \ {"marker"}] BY <1>1 DEF Record
  <2>2. r # made + 1
    <3>1. r \in dirs /\ dirs \subseteq 1 .. made BY DEF IInv, Typed, TypeOK
    <3> QED BY <1>0, <3>1
  <2> QED BY <1>0, <2>1, <2>2
<1>2. CASE Mark \/ Unlink
  <2>1. \/ /\ files' = [files EXCEPT ![doing.at] = files[doing.at] \union {"marker"}]
           /\ "marker" \notin files[doing.at]
        \/ \E f : files' = [files EXCEPT ![doing.at] = files[doing.at] \ {f}]
    BY <1>2 DEF Mark, Unlink, SetFiles
  <2> QED BY <1>0, <2>1
<1>3. CASE PowerLoss BY <1>3, PowerLossInv
<1>4. CASE UNCHANGED files BY <1>4
<1>5. CASE CloseRecording \/ Accept \/ Order \/ DeleteAccepted \/ Pause \/ Snapshot
           \/ ReceivePage \/ UNCHANGED vars
  BY <1>4, <1>5 DEF CloseRecording, Accept, Order, DeleteAccepted, DeleteAs, Pause, Snapshot,
                   ReceivePage, vars, cardVars
<1>6. CASE SkipDeleted \/ Choose \/ RemoveDirectory \/ Done \/ ReceiveAck \/ Serve
           \/ ServeLate \/ Lose \/ Fail
  BY <1>4, <1>6 DEF SkipDeleted, Choose, RemoveDirectory, Done, ReceiveAck, Serve, ServeLate,
                   Lose, Fail, cardVars
<1> QED BY <1>1, <1>2, <1>3, <1>5, <1>6 DEF Next, Storage

(* recover_incomplete_sessions: a directory that is being deleted never    *)
(* gains a file again, not by the recovery after a power failure either.   *)
THEOREM RemainsNeverGrow == Spec => NeverGrows
<1>1. IInv /\ [Next]_vars =>
        [\A r \in Recordings : "marker" \in files[r] => files'[r] \subseteq files[r]]_vars
  BY NextShrinks
<1>2. Spec => [][\A r \in Recordings : "marker" \in files[r] => files'[r] \subseteq files[r]]_vars
  BY <1>1, SpecInv, PTL DEF Spec
<1> QED BY <1>2 DEF NeverGrows

-----------------------------------------------------------------------------
(* Replacing a JSON file (AtomicJson).                                     *)

(* The two markers are no documents, so what is neither is one.            *)
LEMMA DocumentFields ==
  ASSUME NEW d \in Document
  PROVE  d # None /\ d # Torn /\ d.gen \in 1..MaxGen /\ d.whole \in BOOLEAN
  BY MarkerAssumption DEF Document

(* Before the first call nothing is on the card.                           *)
LEMMA JsonInitTyped == JsonInit => JsonTypeOK /\ WhereStored
<1>1. JsonInit => JsonTypeOK
  <2>1. 0 \in 0..MaxGen /\ 0 \in 0..MaxFailures
    BY BoundAssumption
  <2>. QED BY <2>1, Zenon DEF JsonInit, JsonTypeOK
<1>2. JsonInit => WhereStored
  BY DEF JsonInit, WhereStored
<1>. QED BY <1>1, <1>2

(* Every operation of write_json_atomic, every failure and every boot      *)
(* keeps the types.                                                        *)
LEMMA JsonStepTyped == JsonTypeOK /\ WhereStored /\ [JsonNext]_jsonvars => JsonTypeOK'
<1> SUFFICES ASSUME JsonTypeOK, WhereStored, [JsonNext]_jsonvars PROVE JsonTypeOK'
  OBVIOUS
<1>. USE MarkerAssumption, BoundAssumption DEF JsonTypeOK, WhereStored
<1>1. CASE Begin
  BY <1>1, DocumentFields DEF Begin, Document
<1>2. CASE SyncTmp
  BY <1>2, DocumentFields DEF SyncTmp
<1>3. CASE UnlinkBak
  BY <1>3, DocumentFields DEF UnlinkBak
<1>4. CASE KeepCurrent
  BY <1>4, DocumentFields DEF KeepCurrent
<1>5. CASE Commit
  <2>1. doc \in Document /\ doc.gen \in 0..MaxGen
    BY <1>5, DocumentFields DEF Commit
  <2>. QED BY <1>5, <2>1, Zenon DEF Commit
<1>6. CASE SyncFails
  BY <1>6, DocumentFields DEF SyncFails, Failure, Cleaned
<1>7. CASE UnlinkFails
  BY <1>7, DocumentFields DEF UnlinkFails, Failure, Cleaned
<1>8. CASE KeepFails
  BY <1>8, DocumentFields DEF KeepFails, Failure, Cleaned
<1>9. CASE CommitFails
  BY <1>9, DocumentFields DEF CommitFails, Failure, Cleaned
<1>10. CASE IoFault
  BY <1>10, DocumentFields DEF IoFault, Failure
<1>11. CASE PowerFails
  BY <1>11, DocumentFields DEF PowerFails, Failure
<1>12. CASE Reboot
  BY <1>12, DocumentFields DEF Reboot
<1>13. CASE UNCHANGED jsonvars
  BY <1>13 DEF jsonvars
<1>. QED BY <1>1, <1>2, <1>3, <1>4, <1>5, <1>6, <1>7, <1>8, <1>9, <1>10, <1>11, <1>12, <1>13 DEF JsonNext

(* The stored generation keeps a name of its own through every operation.  *)
LEMMA StepKeepsStored == JsonTypeOK /\ WhereStored /\ [JsonNext]_jsonvars => WhereStored'
<1> SUFFICES ASSUME JsonTypeOK, WhereStored, [JsonNext]_jsonvars PROVE WhereStored'
  OBVIOUS
<1>. USE MarkerAssumption, BoundAssumption DEF JsonTypeOK, WhereStored
<1>1. CASE Begin
  BY <1>1, DocumentFields DEF Begin, Document
<1>2. CASE SyncTmp
  BY <1>2, DocumentFields DEF SyncTmp
<1>3. CASE UnlinkBak
  BY <1>3, DocumentFields DEF UnlinkBak
<1>4. CASE KeepCurrent
  BY <1>4, DocumentFields DEF KeepCurrent
<1>5. CASE Commit
  BY <1>5, DocumentFields DEF Commit
<1>6. CASE SyncFails
  BY <1>6, DocumentFields DEF SyncFails, Failure, Cleaned
<1>7. CASE UnlinkFails
  BY <1>7, DocumentFields DEF UnlinkFails, Failure, Cleaned
<1>8. CASE KeepFails
  BY <1>8, DocumentFields DEF KeepFails, Failure, Cleaned
<1>9. CASE CommitFails
  BY <1>9, DocumentFields DEF CommitFails, Failure, Cleaned
<1>10. CASE IoFault
  BY <1>10, DocumentFields DEF IoFault, Failure
<1>11. CASE PowerFails
  BY <1>11, DocumentFields DEF PowerFails, Failure
<1>12. CASE Reboot
  BY <1>12, DocumentFields DEF Reboot
<1>13. CASE UNCHANGED jsonvars
  BY <1>13 DEF jsonvars
<1>. QED BY <1>1, <1>2, <1>3, <1>4, <1>5, <1>6, <1>7, <1>8, <1>9, <1>10, <1>11, <1>12, <1>13 DEF JsonNext

(* The inductive invariant: at each operation of write_json_atomic the     *)
(* stored generation is under a name the operation does not touch.         *)
THEOREM JsonInvariant == JsonSpec => [](JsonTypeOK /\ WhereStored)
<1>1. JsonInit => JsonTypeOK /\ WhereStored
  BY JsonInitTyped
<1>2. (JsonTypeOK /\ WhereStored) /\ [JsonNext]_jsonvars => (JsonTypeOK /\ WhereStored)'
  BY JsonStepTyped, StepKeepsStored
<1>. QED BY <1>1, <1>2, PTL DEF JsonSpec

(* write_json_atomic: only the temporary file is ever torn, and every name *)
(* holds a document of a generation that was written.                      *)
THEOREM JsonTypeCorrect == JsonSpec => []JsonTypeOK
  BY JsonInvariant, PTL

(* write_json_atomic: what a call reported as stored is found again after  *)
(* any number of failures, unless an update began while the file itself    *)
(* was missing.                                                            *)
THEOREM StoredSurvives == JsonSpec => []Survives
<1>1. JsonTypeOK /\ WhereStored => Survives
  BY MarkerAssumption, DocumentFields
     DEF JsonTypeOK, WhereStored, Survives, Recoverable, Readable
<1>. QED BY <1>1, JsonInvariant, PTL

-----------------------------------------------------------------------------
(* Generations only go up: the document being written is not older than    *)
(* the stored one, and no copy is newer than that.                         *)
Rising ==
  /\ stored # 0 => doc # None /\ doc.gen >= stored
  /\ bak # None => bak.gen <= stored

LEMMA InitRising == JsonInit => Rising
BY DEF JsonInit, Rising

LEMMA StepRises ==
  ASSUME JsonTypeOK, WhereStored, Rising, [JsonNext]_jsonvars
  PROVE  Rising' /\ stored' >= stored
<1>. USE MarkerAssumption, BoundAssumption DEF JsonTypeOK, WhereStored, Rising
<1>1. CASE Begin
  <2>1. PICK g \in 1..MaxGen :
          /\ g = (IF doc = None THEN 1 ELSE doc.gen + 1)
          /\ doc' = [gen |-> g, whole |-> g = 1 \/ stored = 0 \/ (Loaded # None /\ Loaded.whole)]
    BY <1>1 DEF Begin
  <2>2. doc' \in Document /\ doc'.gen = g
    BY <2>1, <1>1 DEF Begin, Document, Loaded, Readable
  <2>3. stored' = stored /\ bak' = bak
    BY <1>1 DEF Begin
  <2>4. stored # 0 => doc'.gen >= stored
    <3> SUFFICES ASSUME stored # 0 PROVE g >= stored
      BY <2>2
    <3>1. doc \in Document /\ doc.gen \in 1..MaxGen /\ doc.gen >= stored
      BY DocumentFields
    <3> QED BY <2>1, <3>1, DocumentFields
  <2>5. doc' # None
    BY <2>2, DocumentFields
  <2>6. stored \in Nat
    OBVIOUS
  <2> QED BY <2>3, <2>4, <2>5, <2>6
<1>2. CASE SyncTmp
  BY <1>2, DocumentFields DEF SyncTmp
<1>3. CASE UnlinkBak
  BY <1>3, DocumentFields DEF UnlinkBak
<1>4. CASE KeepCurrent
  BY <1>4, DocumentFields DEF KeepCurrent
<1>5. CASE Commit
  BY <1>5, DocumentFields DEF Commit
<1>6. CASE SyncFails
  BY <1>6, DocumentFields DEF SyncFails
<1>7. CASE UnlinkFails
  BY <1>7, DocumentFields DEF UnlinkFails
<1>8. CASE KeepFails
  BY <1>8, DocumentFields DEF KeepFails
<1>9. CASE CommitFails
  BY <1>9, DocumentFields DEF CommitFails
<1>10. CASE IoFault
  BY <1>10, DocumentFields DEF IoFault
<1>11. CASE PowerFails
  BY <1>11, DocumentFields DEF PowerFails
<1>12. CASE Reboot
  BY <1>12, DocumentFields DEF Reboot
<1>13. CASE UNCHANGED jsonvars
  BY <1>13 DEF jsonvars
<1>. QED BY <1>1, <1>2, <1>3, <1>4, <1>5, <1>6, <1>7, <1>8, <1>9, <1>10, <1>11, <1>12, <1>13 DEF JsonNext

(* What can be found is the stored generation or an older one.             *)
Found ==
  /\ stored \in Nat
  /\ Recoverable # None => Recoverable.gen \in Nat /\ Recoverable.gen <= stored
  /\ stored # 0 /\ ~exposed => Recoverable # None /\ Recoverable.gen = stored

LEMMA FoundIsStored == JsonTypeOK /\ WhereStored /\ Rising => Found
BY MarkerAssumption, BoundAssumption, DocumentFields
   DEF JsonTypeOK, WhereStored, Rising, Found, Recoverable, Readable

(* write_json_atomic: neither its undo nor a reboot after a failure brings *)
(* an older generation back, unless an update began while the file itself  *)
(* was missing.                                                            *)
THEOREM NothingOlder == JsonSpec => NeverOlder
<1> DEFINE I == JsonTypeOK /\ WhereStored /\ Rising
           A == stored # 0 /\ ~exposed' /\ Recoverable # None =>
                   Recoverable' # None /\ Recoverable'.gen >= Recoverable.gen
<1>1. JsonInit => I
  BY JsonInitTyped, InitRising
<1>2. I /\ [JsonNext]_jsonvars => I' /\ stored' >= stored
  BY JsonStepTyped, StepKeepsStored, StepRises
<1>3. I /\ Found /\ Found' /\ [JsonNext]_jsonvars => [A]_jsonvars
  <2> SUFFICES ASSUME I, Found, Found', [JsonNext]_jsonvars, stored # 0, ~exposed', Recoverable # None
               PROVE  Recoverable' # None /\ Recoverable'.gen >= Recoverable.gen
    OBVIOUS
  <2>1. stored' >= stored
    BY <1>2
  <2>2. stored \in Nat /\ Recoverable.gen \in Nat /\ Recoverable.gen <= stored
    BY DEF Found
  <2>3. /\ stored' \in Nat
        /\ stored' # 0 => Recoverable' # None /\ Recoverable'.gen = stored'
    BY DEF Found
  <2> QED BY <2>1, <2>2, <2>3
<1>4. JsonSpec => [](I /\ Found)
  BY <1>1, <1>2, FoundIsStored, PTL DEF JsonSpec
<1>5. JsonSpec => [][A]_jsonvars
  BY <1>3, <1>4, PTL DEF JsonSpec
<1> QED BY <1>5 DEF NeverOlder
=============================================================================
