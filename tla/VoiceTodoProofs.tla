-------------------------- MODULE VoiceTodoProofs --------------------------
(***************************************************************************)
(* For any number of to-dos and faults, any length of a capture, any size  *)
(* of the ring and any room: what was told saved is kept, the network task *)
(* and the others never overwrite each other's todo.json, and a to-do gets *)
(* into the agenda at most once, and only when its owner confirmed it.     *)
(***************************************************************************)
EXTENDS VoiceTodo, WellFoundedInduction, TLAPS

-----------------------------------------------------------------------------
(* The inductive invariant. *)

RowStates == {"none", "received", "processing", "ready", "failed", "confirmed", "cancelled"}
Answers == [state : Pending, rev : Nat]
Rows == [status : RowStates, rev : Nat, sound : Nat, entries : Nat, answers : SUBSET Answers]
Captures == [id : 0 .. Last, step : {"none", "active", "closing"},
             state : {"none", "capturing", "queued", "failed"}, error : BOOLEAN]
Calls == [item : ItemType, sound : Nat, step : {"none", "sent", "answered", "lost"}, code : Nat,
          status : RowStates \union {"acted"}, rev : Nat]

(* Every variable has its type.                                            *)
Typed ==
  /\ on \in BOOLEAN /\ token \in BOOLEAN /\ waiting \in BOOLEAN /\ tapping \in BOOLEAN
  /\ disk \in [Todos -> [state : States, rev : Nat]]
  /\ wav \in [Todos -> 0 .. Room] /\ heard \in [Todos -> 0 .. MaxHeard] /\ taken \in [Todos -> Nat]
  /\ ring \in 0 .. RingRoom
  /\ capture \in Captures
  /\ told \in [Todos -> {"none", "saved", "failed"}]
  /\ wish \in [Todos -> {"none"} \union Pending]
  /\ latest \in ItemType /\ call \in Calls /\ late \subseteq Calls
  /\ rows \in [Todos -> Rows] /\ task \in [Todos -> {"none", "due", "asr"}]
  /\ faults \in 0 .. MaxFaults

(* Nobody but the application and the writer knows of a to-do before it is *)
(* queued.                                                                 *)
Fresh(t) == disk[t].state \in {"none", "capturing"}

(* The capture is of the newest to-do; what its ring took is in the file   *)
(* or still in the ring, as long as there is room and no piece failed.     *)
Capturing ==
  /\ \A t \in Todos : t > capture.id =>
        disk[t].state = "none" /\ wav[t] = 0 /\ taken[t] = 0 /\ told[t] = "none"
  /\ capture.step # "none" =>
        /\ on /\ capture.id # 0 /\ disk[capture.id].state = "capturing"
        /\ capture.state = "capturing" /\ told[capture.id] # "saved"
        /\ ring <= taken[capture.id]
        /\ ~capture.error => wav[capture.id] = Min({taken[capture.id] - ring, Room})
  /\ waiting => capture.id # 0
  /\ ~on => call.step = "none" /\ capture.step = "none" /\ ~waiting

(* What was told saved, or is going to be told so, is kept.                *)
Safe(t) == told[t] = "saved" \/ (t = capture.id /\ capture.step = "none" /\ capture.state = "queued")
Whole(t) ==
  /\ ~Fresh(t) /\ wav[t] = Min({taken[t], Room})
  /\ disk[t].state = "failed" => rows[t].status = "failed"
Kept == \A t \in Todos : Safe(t) => Whole(t)

(* The state on the card tells what the server has, up to what is on its   *)
(* way: before the question, while it is asked, when the answer was        *)
(* carried out.                                                            *)
Before == {"received", "processing", "ready", "failed"}
OutcomeOf(w) == IF w = "confirm_pending" THEN "confirmed" ELSE "cancelled"
EndOf(w) == IF w = "confirm_pending" THEN "created" ELSE "cancelled"
Untouched(t) == rows[t].answers = {} /\ rows[t].entries = 0
Unasked(t) == wish[t] = "none" /\ Untouched(t)
Asking(t) == rows[t].status = "ready" /\ rows[t].rev = disk[t].rev /\ Untouched(t)
Carried(t) ==
  /\ wish[t] \in Pending
  /\ rows[t].status = OutcomeOf(wish[t]) /\ rows[t].rev = disk[t].rev + 1
  /\ rows[t].answers = {[state |-> wish[t], rev |-> disk[t].rev]}
  /\ rows[t].entries = IF wish[t] = "confirm_pending" THEN 1 ELSE 0
Agrees(t) ==
  /\ Fresh(t) => rows[t] = NoRow /\ wish[t] = "none"
  /\ disk[t].state = "queued" => Unasked(t) /\ rows[t].status \in Before \union {"none"}
  /\ disk[t].state = "uploaded" => Unasked(t) /\ rows[t].status \in Before
  /\ disk[t].state = "needs_confirmation" => wish[t] = "none" /\ Asking(t)
  /\ disk[t].state \in Pending => wish[t] = disk[t].state /\ (Asking(t) \/ Carried(t))
  /\ disk[t].state \in {"created", "cancelled"} => disk[t].state = EndOf(wish[t]) /\ Carried(t)
  /\ disk[t].state = "failed" => Unasked(t) /\ rows[t].status \in {"none", "failed"}
  /\ rows[t].status # "none" => rows[t].sound = wav[t]
  /\ task[t] = "asr" => rows[t].status = "processing"
  /\ task[t] = "due" => rows[t].status # "none"
Agreed == \A t \in Todos : Agrees(t)

(* A request that was given up asks for nothing the card would not ask for *)
(* again, or has not been told already.                                    *)
Harmless(rq) ==
  LET t == rq.item.id IN
  /\ t \in Todos /\ ~Fresh(t) /\ rq.sound = wav[t]
  /\ rq.item.state \in {"queued"} \union Pending
  /\ disk[t].state = "failed" => rows[t].status = "failed"
  /\ rq.item.state \in Pending =>
        /\ wish[t] = rq.item.state /\ rq.item.rev = disk[t].rev
        /\ disk[t].state \in {wish[t], EndOf(wish[t])}
Travelling == \A rq \in late : Harmless(rq)

(* The copy of the item the network task works with is the item, and what  *)
(* it was answered is still so.                                            *)
Replied ==
  LET t == call.item.id IN
  /\ call.item.state = "queued" =>
        call.code = 200 /\ rows[t].status # "none" /\ (call.status = "failed" => rows[t].status = "failed")
  /\ call.item.state = "uploaded" =>
        /\ call.code # 409
        /\ call.code = 200 /\ call.rev > call.item.rev =>
             call.status \in {"ready", "failed"} /\ rows[t].status = call.status /\ rows[t].rev = call.rev
  /\ call.item.state \in Pending => call.code = 200 /\ call.rev = call.item.rev + 1 /\ Carried(t)
Calling ==
  call.step # "none" =>
     /\ call.item.id \in Todos /\ call.item = Item(call.item.id) /\ call.item.state \in Sendable
     /\ call.step = "sent" => call.sound = wav[call.item.id]
     /\ call.step = "answered" => Replied

(* The latest item is the file's, unless the file could not be brought up  *)
(* to date at the start.                                                   *)
Current(item) == item = Item(item.id) \/ (item.state = "failed" /\ disk[item.id].state = "capturing")
Newest == IF latest.id = 0 THEN latest = NoItem ELSE Current(latest)

IInv == Typed /\ Capturing /\ Kept /\ Agreed /\ Travelling /\ Calling /\ Newest

-----------------------------------------------------------------------------
(* Minima and maxima. *)

LEMMA Numbers ==
  /\ Last \in Nat \ {0} /\ MaxHeard \in Nat \ {0} /\ RingRoom \in Nat \ {0} /\ Room \in Nat \ {0}
  /\ MaxFaults \in Nat
BY TodoAssumption

LEMMA MinOfTwo ==
  ASSUME NEW a \in Nat, NEW b \in Nat
  PROVE  Min({a, b}) = IF a <= b THEN a ELSE b
<1> DEFINE m == IF a <= b THEN a ELSE b
<1>1. m \in {a, b} /\ \A y \in {a, b} : m <= y OBVIOUS
<1>2. ASSUME NEW x \in {a, b}, \A y \in {a, b} : x <= y PROVE x = m
  BY <1>2
<1>3. Min({a, b}) \in {a, b} /\ \A y \in {a, b} : Min({a, b}) <= y
  BY <1>1 DEF Min
<1> QED BY <1>2, <1>3

LEMMA LeastIsIn == ASSUME NEW S \in SUBSET Todos, S # {} PROVE Min(S) \in S
<1> DEFINE R == OpToRel(<, Nat)
<1>1. IsWellFoundedOn(R, Nat) BY NatLessThanWellFounded
<1>2. S \subseteq Nat BY DEF Todos
<1>3. PICK x \in S : \A y \in S : ~ (<<y, x>> \in R) BY <1>1, <1>2, WFMin
<1>4. ASSUME NEW y \in S PROVE x <= y
  <2>1. x \in Nat /\ y \in Nat BY <1>2
  <2>2. ~(y < x) BY <2>1, <1>3 DEF OpToRel
  <2> QED BY <2>1, <2>2
<1> QED BY <1>4 DEF Min

LEMMA GreatestIsIn == ASSUME NEW S \in SUBSET Todos, S # {} PROVE Max(S) \in S /\ \A y \in S : Max(S) >= y
<1> DEFINE T == {Last + 1 - x : x \in S}
<1>1. T \subseteq Todos /\ T # {}
  <2>1. ASSUME NEW x \in S PROVE Last + 1 - x \in Todos BY Numbers DEF Todos
  <2> QED BY <2>1
<1> HIDE DEF T
<1>2. Min(T) \in T /\ \A y \in T : Min(T) <= y
  <2> DEFINE R == OpToRel(<, Nat)
  <2>1. IsWellFoundedOn(R, Nat) BY NatLessThanWellFounded
  <2>2. T \subseteq Nat BY <1>1 DEF Todos
  <2>3. PICK x \in T : \A y \in T : ~ (<<y, x>> \in R) BY <1>1, <2>1, <2>2, WFMin
  <2>4. ASSUME NEW y \in T PROVE x <= y
    <3>1. x \in Nat /\ y \in Nat BY <2>2
    <3>2. ~(y < x) BY <3>1, <2>3 DEF OpToRel
    <3> QED BY <3>1, <3>2
  <2> QED BY <2>4 DEF Min
<1>3. PICK x \in S : Min(T) = Last + 1 - x BY <1>2 DEF T
<1>4. ASSUME NEW y \in S PROVE x >= y
  <2>1. Last + 1 - y \in T BY DEF T
  <2>2. x \in Int /\ y \in Int /\ Last \in Int BY Numbers DEF Todos
  <2> QED BY <1>2, <1>3, <2>1, <2>2
<1> QED BY <1>4 DEF Max

-----------------------------------------------------------------------------
(* What a step that concerns only the capture leaves alone. *)

LEMMA Nothings ==
  /\ NoItem \in ItemType /\ NoItem.id = 0
  /\ NoCall \in Calls /\ NoCall.step = "none" /\ NoCall.item = NoItem
  /\ NoCapture \in Captures /\ NoCapture.id = 0 /\ NoCapture.step = "none" /\ NoCapture.state = "none"
  /\ NoRow \in Rows /\ NoRow.status = "none" /\ NoRow.answers = {} /\ NoRow.entries = 0
<1>1. 0 \in 0 .. Last BY Numbers
<1>2. NoItem \in ItemType BY <1>1 DEF NoItem, ItemType, States
<1> QED BY <1>1, <1>2 DEF NoItem, NoCall, Calls, NoCapture, Captures, NoRow, Rows, RowStates

LEMMA InitInv == Init => IInv
<1> SUFFICES ASSUME Init PROVE IInv OBVIOUS
<1>1. Typed
  <2>1. 0 \in 0 .. Room /\ 0 \in 0 .. MaxHeard /\ 0 \in 0 .. RingRoom /\ 0 \in 0 .. MaxFaults BY Numbers
  <2>2. disk \in [Todos -> [state : States, rev : Nat]] BY DEF Init, States
  <2>3. rows \in [Todos -> Rows] /\ latest \in ItemType /\ call \in Calls /\ capture \in Captures
    BY Nothings DEF Init
  <2> QED BY <2>1, <2>2, <2>3 DEF Init, Typed
<1>2. Capturing BY Nothings DEF Init, Capturing
<1>3. Kept BY Nothings DEF Init, Kept, Safe
<1>4. Agreed BY Nothings DEF Init, Agreed, Agrees, Fresh, Pending
<1>5. Travelling /\ Calling /\ Newest BY Nothings DEF Init, Travelling, Calling, Newest
<1> QED BY <1>1, <1>2, <1>3, <1>4, <1>5 DEF IInv

(* Sound is only added to a to-do nobody else knows of.                    *)
Apart == disk' = disk /\ wish' = wish /\ rows' = rows /\ task' = task /\ late' = late
         /\ \A t \in Todos : ~Fresh(t) => wav'[t] = wav[t]

LEMMA ApartInv == ASSUME IInv, Apart PROVE Agreed' /\ Travelling'
<1>1. ASSUME NEW t \in Todos PROVE Agrees(t)'
  <2>1. Agrees(t) BY DEF IInv, Agreed
  <2>2. rows[t].status # "none" => ~Fresh(t) BY <2>1, Nothings DEF Agrees
  <2> QED BY <2>1, <2>2 DEF Apart, Agrees, Fresh, Unasked, Untouched, Asking, Carried
<1>2. ASSUME NEW rq \in late PROVE Harmless(rq)'
  <2>1. Harmless(rq) BY DEF IInv, Travelling
  <2> QED BY <2>1 DEF Apart, Harmless, Fresh
<1> QED BY <1>1, <1>2 DEF Agreed, Travelling, Apart

LEMMA ApartCall == ASSUME IInv, Apart, call' = call PROVE Calling'
<1>1. ASSUME call.step # "none" PROVE Calling'
  <2>1. /\ call.item.id \in Todos /\ call.item = Item(call.item.id) /\ call.item.state \in Sendable
        /\ call.step = "sent" => call.sound = wav[call.item.id]
        /\ call.step = "answered" => Replied
    BY <1>1 DEF IInv, Calling
  <2>2. ~Fresh(call.item.id) BY <2>1 DEF Item, Sendable, Pending, Fresh
  <2> QED BY <2>1, <2>2 DEF Apart, Calling, Item, Replied, Carried
<1> QED BY <1>1 DEF Calling

LEMMA ApartNewest == ASSUME IInv, Apart, latest' = latest PROVE Newest'
BY DEF IInv, Newest, Current, Apart, Item

-----------------------------------------------------------------------------
(* The capture. *)

LEMMA HearInv == ASSUME IInv, Hear PROVE IInv'
<1> DEFINE c == capture.id
<1>1. /\ Typed /\ Capturing /\ Kept BY DEF IInv
<1>2. /\ capture.step = "active" /\ c \in Todos /\ heard[c] < MaxHeard
      /\ tapping' = TRUE /\ heard' = [heard EXCEPT ![c] = @ + 1]
      /\ UNCHANGED <<cardVars, wav, taken, capture, ring, token, waiting, told, wish, call, serverVars, faults>>
  BY <1>1 DEF Hear, Capturing, Typed, Captures, Todos
<1>3. heard' \in [Todos -> 0 .. MaxHeard]
  <2>1. heard[c] + 1 \in 0 .. MaxHeard BY <1>1, <1>2, Numbers DEF Typed
  <2> QED BY <1>1, <1>2, <2>1 DEF Typed
<1>4. Typed' BY <1>1, <1>2, <1>3 DEF Typed, cardVars, serverVars
<1>5. Capturing' BY <1>1, <1>2 DEF Capturing, cardVars
<1>6. Kept' BY <1>1, <1>2 DEF Kept, Safe, Whole, Fresh, cardVars, serverVars
<1>7. Apart BY <1>2 DEF Apart, cardVars, serverVars
<1> QED BY <1>2, <1>4, <1>5, <1>6, <1>7, ApartInv, ApartCall, ApartNewest DEF IInv, cardVars

(* A piece counts for the capture that is on when it gets into the ring;   *)
(* one that comes after the end, or finds the ring full, for none.         *)
LEMMA SendInv == ASSUME IInv, Send PROVE IInv'
<1> DEFINE c == capture.id
<1>1. /\ Typed /\ Capturing /\ Kept BY DEF IInv
<1>2. /\ tapping' = FALSE
      /\ UNCHANGED <<cardVars, wav, heard, capture, token, waiting, told, wish, call, serverVars, faults>>
      /\ \/ ring < RingRoom /\ ring' = ring + 1 /\ taken' = Take
         \/ ring' = ring /\ taken' = taken
  BY DEF Send
<1>3. ring' \in 0 .. RingRoom BY <1>1, <1>2, Numbers DEF Typed
<1>4. capture.step # "none" => c \in Todos /\ disk[c].state = "capturing"
  BY <1>1 DEF Capturing, Typed, Captures, Todos
<1>5. /\ taken' \in [Todos -> Nat]
      /\ \A t \in Todos : (capture.step = "none" \/ t # c) => taken'[t] = taken[t]
      /\ capture.step # "none" =>
           /\ taken'[c] \in Nat /\ ring' <= taken'[c] /\ taken'[c] - ring' = taken[c] - ring
  <2>1. CASE taken' = taken /\ ring' = ring BY <2>1, <1>1, <1>4 DEF Typed, Capturing
  <2>2. CASE capture.step = "none" /\ taken' = Take BY <2>2, <1>1 DEF Typed, Take
  <2>3. CASE capture.step # "none" /\ ring' = ring + 1 /\ taken' = Take
    <3>1. taken' = [taken EXCEPT ![c] = @ + 1] BY <2>3 DEF Take
    <3>2. taken[c] \in Nat /\ ring \in Nat /\ ring <= taken[c] BY <2>3, <1>1, <1>4 DEF Typed, Capturing
    <3> QED BY <2>3, <3>1, <3>2, <1>1, <1>4 DEF Typed
  <2> QED BY <1>2, <2>1, <2>2, <2>3
<1>6. Typed' BY <1>1, <1>2, <1>3, <1>5 DEF Typed, cardVars, serverVars
<1>7. Capturing'
  <2>1. \A t \in Todos : t > c => taken'[t] = taken[t] BY <1>1, <1>5 DEF Typed, Captures, Todos
  <2>2. capture.step # "none" /\ ~capture.error => wav[c] = Min({taken'[c] - ring', Room})
    BY <1>1, <1>5 DEF Capturing
  <2> QED BY <1>1, <1>2, <1>5, <2>1, <2>2 DEF Capturing, cardVars
<1>8. Kept'
  <2>1. ASSUME NEW t \in Todos, Safe(t)' PROVE Whole(t)'
    <3>1. Safe(t) BY <2>1, <1>2 DEF Safe
    <3>2. Whole(t) BY <3>1, <1>1 DEF Kept
    <3>3. capture.step = "none" \/ t # c BY <3>2, <1>4 DEF Whole, Fresh
    <3>4. taken'[t] = taken[t] BY <1>5, <3>3
    <3> QED BY <3>2, <3>4, <1>2 DEF Whole, Fresh, cardVars, serverVars
  <2> QED BY <2>1 DEF Kept
<1>9. Apart BY <1>2 DEF Apart, cardVars, serverVars
<1> QED BY <1>2, <1>6, <1>7, <1>8, <1>9, ApartInv, ApartCall, ApartNewest DEF IInv, cardVars

LEMMA WriteInv == ASSUME IInv, Write PROVE IInv'
<1> DEFINE c == capture.id
<1>1. /\ Typed /\ Capturing /\ Kept BY DEF IInv
<1>2. /\ capture.step # "none" /\ c \in Todos /\ disk[c].state = "capturing"
      /\ ring > 0 /\ ring' = ring - 1
      /\ UNCHANGED <<cardVars, heard, taken, tapping, token, waiting, told, wish, call, serverVars>>
  BY <1>1 DEF Write, Capturing, Typed, Captures, Todos
<1>3. taken[c] \in Nat /\ ring \in Nat /\ ring <= taken[c] /\ wav[c] \in 0 .. Room
  BY <1>1, <1>2 DEF Typed, Capturing
<1>4. \/ WritePiece(c) /\ capture' = capture /\ faults' = faults
      \/ ~capture.error /\ Fault("sd") /\ capture' = [capture EXCEPT !.error = TRUE] /\ wav' = wav
  BY DEF Write
<1>5. /\ wav' = [wav EXCEPT ![c] = wav'[c]] /\ wav'[c] \in 0 .. Room
      /\ ~capture'.error => ~capture.error /\ wav'[c] = IF wav[c] < Room THEN wav[c] + 1 ELSE wav[c]
  <2>1. CASE WritePiece(c) /\ capture' = capture
    BY <2>1, <1>1, <1>2, <1>3, Numbers DEF WritePiece, Typed
  <2>2. CASE capture' = [capture EXCEPT !.error = TRUE] /\ wav' = wav
    BY <2>2, <1>1, <1>2, <1>3 DEF Typed, Captures
  <2> QED BY <1>4, <2>1, <2>2
<1>6. /\ capture' \in Captures /\ capture'.id = c /\ capture'.step = capture.step /\ capture'.state = capture.state
      /\ faults' \in 0 .. MaxFaults
  <2>1. CASE capture' = capture /\ faults' = faults BY <2>1, <1>1 DEF Typed
  <2>2. CASE Fault("sd") /\ capture' = [capture EXCEPT !.error = TRUE]
    <3>1. faults' \in 0 .. MaxFaults BY <2>2, <1>1, Numbers DEF Typed, Fault
    <3> QED BY <2>2, <3>1, <1>1 DEF Typed, Captures
  <2> QED BY <1>4, <2>1, <2>2
<1>7. \A t \in Todos : t # c => wav'[t] = wav[t] BY <1>1, <1>5 DEF Typed
<1>8. Typed'
  <2>1. ring' \in 0 .. RingRoom BY <1>1, <1>2, Numbers DEF Typed
  <2>2. wav' \in [Todos -> 0 .. Room] BY <1>1, <1>5 DEF Typed
  <2> QED BY <1>1, <1>2, <1>6, <2>1, <2>2 DEF Typed, cardVars, serverVars
<1>9. Capturing'
  <2>1. \A t \in Todos : t > c => wav'[t] = wav[t] BY <1>7, <1>2 DEF Todos
  <2>2. ~capture'.error => wav'[c] = Min({taken[c] - ring', Room})
    <3>1. SUFFICES ASSUME ~capture'.error PROVE wav'[c] = Min({taken[c] - ring', Room}) OBVIOUS
    <3>2. wav[c] = Min({taken[c] - ring, Room}) BY <1>1, <1>2, <1>5, <3>1 DEF Capturing
    <3>3. taken[c] - ring \in Nat /\ taken[c] - ring' \in Nat /\ taken[c] - ring' = taken[c] - ring + 1
      BY <1>2, <1>3
    <3>4. /\ Min({taken[c] - ring, Room}) = IF taken[c] - ring <= Room THEN taken[c] - ring ELSE Room
          /\ Min({taken[c] - ring', Room}) = IF taken[c] - ring' <= Room THEN taken[c] - ring' ELSE Room
      BY <3>3, MinOfTwo, Numbers
    <3> QED BY <1>3, <1>5, <3>1, <3>2, <3>3, <3>4, Numbers
  <2>3. ring' <= taken[c] BY <1>2, <1>3
  <2> QED BY <1>1, <1>2, <1>6, <2>1, <2>2, <2>3 DEF Capturing, cardVars
<1>10. Kept'
  <2>1. ASSUME NEW t \in Todos, Safe(t)' PROVE Whole(t)'
    <3>1. Whole(t) BY <2>1, <1>1, <1>2, <1>6 DEF Safe, Kept
    <3>2. t # c BY <3>1, <1>2 DEF Whole, Fresh
    <3> QED BY <3>1, <3>2, <1>2, <1>7 DEF Whole, Fresh, cardVars, serverVars
  <2> QED BY <2>1 DEF Kept
<1>11. Apart BY <1>2, <1>7 DEF Apart, cardVars, serverVars, Fresh
<1> QED BY <1>2, <1>8, <1>9, <1>10, <1>11, ApartInv, ApartCall, ApartNewest DEF IInv, cardVars

LEMMA EndInv == ASSUME IInv, End PROVE IInv'
<1>1. /\ Typed /\ Capturing /\ Kept BY DEF IInv
<1>2. /\ capture.step = "active" /\ capture' = [capture EXCEPT !.step = "closing"] /\ waiting' = TRUE
      /\ UNCHANGED <<cardVars, wav, heard, taken, tapping, ring, token, told, wish, call, serverVars, faults>>
  BY DEF End
<1>3. capture' \in Captures /\ capture'.id = capture.id /\ capture'.step = "closing"
      /\ capture'.state = capture.state /\ capture'.error = capture.error
  BY <1>1, <1>2 DEF Typed, Captures
<1>4. Typed' BY <1>1, <1>2, <1>3 DEF Typed, cardVars, serverVars
<1>5. Capturing' BY <1>1, <1>2, <1>3 DEF Capturing, cardVars
<1>6. Kept' BY <1>1, <1>2, <1>3 DEF Kept, Safe, Whole, Fresh, cardVars, serverVars
<1>7. Apart BY <1>2 DEF Apart, cardVars, serverVars
<1> QED BY <1>2, <1>4, <1>5, <1>6, <1>7, ApartInv, ApartCall, ApartNewest DEF IInv, cardVars

(* What is told at the end is what the writer left.                        *)
LEMMA ToldInv ==
  ASSUME IInv, waiting, waiting' = FALSE, token' \in BOOLEAN, NEW what \in {"saved", "failed"}, Tell(what),
         what = "saved" => capture.state = "queued", faults' \in 0 .. MaxFaults,
         UNCHANGED <<cardVars, wav, heard, taken, tapping, capture, ring, wish, call, serverVars>>
  PROVE  IInv'
<1> DEFINE c == capture.id
<1>1. /\ Typed /\ Capturing /\ Kept BY DEF IInv
<1>2. c \in Todos BY <1>1 DEF Typed, Capturing, Captures, Todos
<1>3. told'[c] = what /\ \A t \in Todos : t # c => told'[t] = told[t]
  BY <1>1, <1>2 DEF Tell, Typed
<1>4. capture.step # "none" => what = "failed" BY <1>1 DEF Capturing
<1>5. Typed' BY <1>1 DEF Typed, Tell, cardVars, serverVars
<1>6. Capturing'
  <2>1. \A t \in Todos : t > c => told'[t] = told[t] BY <1>2, <1>3 DEF Todos
  <2> QED BY <1>1, <1>3, <1>4, <2>1 DEF Capturing, cardVars
<1>7. Kept'
  <2>1. ASSUME NEW t \in Todos, Safe(t)' PROVE Whole(t)'
    <3>1. Safe(t) BY <2>1, <1>3, <1>4, <1>1 DEF Safe, Typed, Captures
    <3>2. Whole(t) BY <3>1, <1>1 DEF Kept
    <3> QED BY <3>2 DEF Whole, Fresh, cardVars, serverVars
  <2> QED BY <2>1 DEF Kept
<1>8. Apart BY DEF Apart, cardVars, serverVars
<1> QED BY <1>5, <1>6, <1>7, <1>8, ApartInv, ApartCall, ApartNewest DEF IInv, cardVars

LEMMA EndedInv == ASSUME IInv, Ended PROVE IInv'
<1> DEFINE what == IF capture.state = "queued" THEN "saved" ELSE "failed"
<1>1. faults' \in 0 .. MaxFaults BY DEF Ended, IInv, Typed
<1> QED BY <1>1, ToldInv DEF Ended

LEMMA TimedOutInv == ASSUME IInv, TimedOut PROVE IInv'
<1>1. faults' \in 0 .. MaxFaults BY Numbers DEF TimedOut, Fault, IInv, Typed
<1>2. token' \in BOOLEAN BY DEF TimedOut, IInv, Typed
<1> QED BY <1>1, <1>2, ToldInv DEF TimedOut

-----------------------------------------------------------------------------
(* What a step that concerns another to-do leaves alone. *)

Still(t) == disk'[t] = disk[t] /\ wav'[t] = wav[t] /\ wish'[t] = wish[t] /\ rows'[t] = rows[t] /\ task'[t] = task[t]

LEMMA StillAgrees == ASSUME NEW t \in Todos, Agrees(t), Still(t) PROVE Agrees(t)'
BY DEF Still, Agrees, Fresh, Unasked, Untouched, Asking, Carried

LEMMA StillHarmless == ASSUME NEW rq, Harmless(rq), Still(rq.item.id) PROVE Harmless(rq)'
BY DEF Still, Harmless, Fresh

LEMMA StillCalling ==
  ASSUME Calling, call' = call, call.step # "none" => Still(call.item.id) PROVE Calling'
<1>1. ASSUME call.step # "none" PROVE Calling'
  <2>1. /\ call.item.id \in Todos /\ call.item = Item(call.item.id) /\ call.item.state \in Sendable
        /\ call.step = "sent" => call.sound = wav[call.item.id]
        /\ call.step = "answered" => Replied
    BY <1>1 DEF Calling
  <2> QED BY <1>1, <2>1 DEF Still, Calling, Item, Replied, Carried
<1> QED BY <1>1 DEF Calling

(* The card's file of one to-do changes, and nothing of any capture.       *)
LEMMA FileCapturing ==
  ASSUME IInv, NEW t \in Todos, ~Fresh(t), \A u \in Todos : u # t => disk'[u] = disk[u],
         on, UNCHANGED <<on, capture, ring, wav, taken, told, waiting>>
  PROVE  Capturing'
<1>1. Capturing /\ Typed BY DEF IInv
<1>2. \A u \in Todos : u > capture.id => u # t BY <1>1 DEF Capturing, Fresh
<1>3. capture.step # "none" => capture.id \in Todos /\ capture.id # t
  BY <1>1 DEF Capturing, Typed, Captures, Todos, Fresh
<1> QED BY <1>1, <1>2, <1>3 DEF Capturing

LEMMA FileKept ==
  ASSUME IInv, NEW t \in Todos, ~Fresh(t)', disk'[t].state = "failed" => rows[t].status = "failed",
         \A u \in Todos : u # t => disk'[u] = disk[u],
         UNCHANGED <<capture, wav, taken, told, rows>>
  PROVE  Kept'
<1>1. ASSUME NEW u \in Todos, Safe(u)' PROVE Whole(u)'
  <2>1. Safe(u) BY <1>1 DEF Safe
  <2>2. Whole(u) BY <2>1 DEF IInv, Kept
  <2> QED BY <2>2 DEF Whole, Fresh
<1> QED BY <1>1 DEF Kept

-----------------------------------------------------------------------------
LEMMA SaveIs ==
  ASSUME Typed, NEW item \in ItemType, item.id \in Todos, Save(item)
  PROVE  /\ disk' \in [Todos -> [state : States, rev : Nat]] /\ latest' = item /\ latest' \in ItemType
         /\ disk'[item.id].state = item.state /\ disk'[item.id].rev = item.rev
         /\ \A u \in Todos : u # item.id => disk'[u] = disk[u]
         /\ Newest'
<1>1. /\ disk' \in [Todos -> [state : States, rev : Nat]] /\ latest' = item
      /\ disk'[item.id] = [state |-> item.state, rev |-> item.rev]
      /\ \A u \in Todos : u # item.id => disk'[u] = disk[u]
  BY DEF Typed, Save, ItemType
<1>2. item = [id |-> item.id, state |-> item.state, rev |-> item.rev] BY DEF ItemType
<1>3. item.id # 0 BY DEF Todos
<1>4. Current(latest)' BY <1>1, <1>2 DEF Current, Item
<1> QED BY <1>1, <1>3, <1>4 DEF Newest

LEMMA BeginInv == ASSUME IInv, Begin PROVE IInv'
<1>1. /\ Typed /\ Capturing /\ Kept /\ Agreed /\ Travelling /\ Calling BY DEF IInv
<1>2. PICK t \in Todos :
          /\ t = capture.id + 1
          /\ Save([id |-> t, state |-> "capturing", rev |-> 0])
          /\ capture' = [id |-> t, step |-> "active", state |-> "capturing", error |-> FALSE]
  BY DEF Begin
<1>3. on /\ ~waiting /\ capture.step = "none" /\ ring' = 0
      /\ UNCHANGED <<on, wav, heard, taken, tapping, token, waiting, told, wish, call, serverVars, faults>>
  BY DEF Begin
<1>4. capture.id \in Nat /\ t \in Nat /\ t # 0 /\ t > capture.id /\ t \in 0 .. Last
  BY <1>1, <1>2 DEF Typed, Captures, Todos
<1>5. disk[t].state = "none" /\ wav[t] = 0 /\ taken[t] = 0 /\ told[t] = "none" BY <1>1, <1>4 DEF Capturing
<1> DEFINE item == [id |-> t, state |-> "capturing", rev |-> 0]
<1>6. item \in ItemType /\ item.id = t /\ item.state = "capturing" BY <1>4 DEF ItemType, States
<1> HIDE DEF item
<1>7. Save(item) BY <1>2 DEF item
<1>8. /\ disk' \in [Todos -> [state : States, rev : Nat]] /\ latest' \in ItemType
      /\ disk'[t].state = "capturing" /\ \A u \in Todos : u # t => disk'[u] = disk[u]
      /\ Newest'
  BY <1>1, <1>6, <1>7, SaveIs
<1>9. Typed'
  <2>1. capture' \in Captures BY <1>2, <1>4 DEF Captures
  <2>2. 0 \in 0 .. RingRoom BY Numbers
  <2> QED BY <1>1, <1>3, <1>8, <2>1, <2>2 DEF Typed, serverVars
<1>10. Capturing'
  <2>1. ASSUME NEW u \in Todos, u > t
        PROVE  disk'[u].state = "none" /\ wav[u] = 0 /\ taken[u] = 0 /\ told[u] = "none"
    <3>1. u > capture.id /\ u # t BY <2>1, <1>2, <1>4 DEF Todos
    <3> QED BY <3>1, <1>1, <1>8 DEF Capturing
  <2>2. Min({0 - 0, Room}) = 0 BY MinOfTwo, Numbers
  <2>3. capture'.id = t /\ capture'.step = "active" /\ capture'.state = "capturing" BY <1>2
  <2>4. ring' = 0 /\ taken'[t] = 0 /\ wav'[t] = 0 /\ told'[t] = "none" /\ on' /\ ~waiting'
    BY <1>3, <1>5
  <2>5. wav'[t] = Min({taken'[t] - ring', Room}) BY <2>2, <2>4
  <2> QED BY <1>3, <1>4, <1>8, <2>1, <2>3, <2>4, <2>5 DEF Capturing
<1>11. \A u \in Todos : u # t => Still(u) BY <1>3, <1>8 DEF Still, serverVars
<1>12. Kept'
  <2>1. ASSUME NEW u \in Todos, Safe(u)' PROVE Whole(u)'
    <3>1. told[u] = "saved" BY <2>1, <1>2, <1>3 DEF Safe
    <3>2. Whole(u) BY <3>1, <1>1 DEF Kept, Safe
    <3>3. u # t BY <3>1, <1>5
    <3> QED BY <3>2, <3>3, <1>3, <1>8 DEF Whole, Fresh, serverVars
  <2> QED BY <2>1 DEF Kept
<1>13. Agreed'
  <2>1. Agrees(t) BY <1>1 DEF Agreed
  <2>2. rows[t] = NoRow /\ wish[t] = "none" /\ task[t] \notin {"asr", "due"}
    BY <2>1, <1>5, Nothings DEF Agrees, Fresh
  <2>3. Agrees(t)' BY <2>2, <1>3, <1>8, Nothings DEF Agrees, Fresh, Pending, serverVars
  <2> QED BY <1>1, <1>11, <2>3, StillAgrees DEF Agreed
<1>14. Travelling'
  <2>1. ASSUME NEW rq \in late PROVE Harmless(rq)'
    <3>1. Harmless(rq) BY <1>1 DEF Travelling
    <3>2. rq.item.id \in Todos /\ rq.item.id # t BY <3>1, <1>5 DEF Harmless, Fresh
    <3> QED BY <3>1, <3>2, <1>11, StillHarmless
  <2> QED BY <2>1, <1>3 DEF Travelling, serverVars
<1>15. Calling'
  <2>1. ASSUME call.step # "none" PROVE call.item.id \in Todos /\ call.item.id # t
    BY <2>1, <1>1, <1>5 DEF Calling, Item, Sendable, Pending
  <2> QED BY <2>1, <1>1, <1>3, <1>11, StillCalling
<1> QED BY <1>8, <1>9, <1>10, <1>12, <1>13, <1>14, <1>15 DEF IInv

(* What the writer leaves when it has emptied the ring.                    *)
LEMMA CloseInv == ASSUME IInv, Close PROVE IInv'
<1>1. /\ Typed /\ Capturing /\ Kept /\ Agreed /\ Travelling /\ Calling /\ Newest BY DEF IInv
<1>0. PICK c \in Todos : c = capture.id BY <1>1 DEF Close, Closed, Capturing, Typed, Captures, Todos
<1>2. capture.step = "closing" /\ ring = 0 /\ c \in 0 .. Last /\ disk[c].state = "capturing" /\ on
      /\ told[c] # "saved"
      /\ UNCHANGED <<on, wav, heard, taken, tapping, ring, waiting, told, wish, call, serverVars>>
  BY <1>0, <1>1 DEF Close, Closed, Capturing, Todos
<1>3. \E state \in {"queued", "failed"}, item \in ItemType :
        /\ capture' = [capture EXCEPT !.step = "none", !.state = state]
        /\ token' = TRUE
        /\ state = "queued" => ~capture.error
        /\ faults' \in 0 .. MaxFaults
        /\ \/ item = [id |-> c, state |-> state, rev |-> 0] /\ Save(item)
           \/ state = "failed" /\ UNCHANGED <<disk, latest>>
  <2>1. \A state \in {"queued", "failed"} : [id |-> c, state |-> state, rev |-> 0] \in ItemType
    BY <1>2 DEF ItemType, States
  <2>2. faults \in 0 .. MaxFaults /\ (Fault("sd") => faults' \in 0 .. MaxFaults)
    BY <1>1, Numbers DEF Typed, Fault
  <2>3. CASE \E state \in Outcome :
             Save([id |-> c, state |-> state, rev |-> 0]) /\ CloseAs(state) /\ UNCHANGED faults
    BY <1>0, <2>1, <2>2, <2>3 DEF Outcome, CloseAs
  <2>4. CASE Save([id |-> c, state |-> "failed", rev |-> 0]) /\ CloseAs("failed") /\ Fault("sd")
    BY <2>1, <2>2, <2>4 DEF CloseAs
  <2>5. CASE UNCHANGED <<disk, latest>> /\ CloseAs("failed") /\ Fault("sd")
    BY <2>1, <2>2, <2>5 DEF CloseAs
  <2> QED BY <1>0, <2>3, <2>4, <2>5 DEF Close
<1>4. PICK state \in {"queued", "failed"}, item \in ItemType :
        /\ capture' = [capture EXCEPT !.step = "none", !.state = state]
        /\ token' = TRUE
        /\ state = "queued" => ~capture.error
        /\ faults' \in 0 .. MaxFaults
        /\ \/ item = [id |-> c, state |-> state, rev |-> 0] /\ Save(item)
           \/ state = "failed" /\ UNCHANGED <<disk, latest>>
  BY <1>3
<1>5. capture' \in Captures /\ capture'.id = c /\ capture'.step = "none" /\ capture'.state = state
  BY <1>0, <1>1, <1>4 DEF Typed, Captures
<1>6. /\ disk' \in [Todos -> [state : States, rev : Nat]] /\ latest' \in ItemType
      /\ disk'[c].state = state \/ (state = "failed" /\ disk'[c].state = "capturing")
      /\ \A u \in Todos : u # c => disk'[u] = disk[u]
      /\ Newest'
  <2>1. CASE item = [id |-> c, state |-> state, rev |-> 0] /\ Save(item)
    <3>1. item.id = c /\ item.state = state BY <2>1
    <3> QED BY <1>1, <1>2, <2>1, <3>1, SaveIs
  <2>2. CASE state = "failed" /\ UNCHANGED <<disk, latest>>
    <3>1. Newest' BY <1>1, <2>2 DEF Newest, Current, Item
    <3> QED BY <1>1, <1>2, <2>2, <3>1 DEF Typed
  <2> QED BY <1>4, <2>1, <2>2
<1>7. Typed' BY <1>1, <1>2, <1>4, <1>5, <1>6 DEF Typed, serverVars
<1>8. Capturing'
  <2>1. \A u \in Todos : u > c => u # c BY DEF Todos
  <2> QED BY <1>0, <1>1, <1>2, <1>4, <1>5, <1>6, <2>1 DEF Capturing
<1>9. \A u \in Todos : u # c => Still(u) BY <1>2, <1>6 DEF Still, serverVars
<1>10. Kept'
  <2>1. ASSUME NEW u \in Todos, Safe(u)' PROVE Whole(u)'
    <3>1. CASE u # c
      <4>1. Safe(u) BY <2>1, <3>1, <1>0, <1>2, <1>5 DEF Safe
      <4>2. Whole(u) BY <4>1, <1>1 DEF Kept
      <4> QED BY <4>2, <3>1, <1>2, <1>6 DEF Whole, Fresh, serverVars
    <3>2. CASE u = c
      <4>1. state = "queued" BY <2>1, <3>2, <1>2, <1>5 DEF Safe
      <4>2. wav[c] = Min({taken[c] - 0, Room}) BY <4>1, <1>0, <1>1, <1>2, <1>4 DEF Capturing
      <4>3. taken[c] - 0 = taken[c] BY <1>1, <1>2 DEF Typed
      <4> QED BY <3>2, <4>1, <4>2, <4>3, <1>2, <1>6 DEF Whole, Fresh
    <3> QED BY <3>1, <3>2
  <2> QED BY <2>1 DEF Kept
<1>11. Agreed'
  <2>1. Agrees(c) BY <1>1, <1>2 DEF Agreed
  <2>2. rows[c] = NoRow /\ wish[c] = "none" /\ task[c] \notin {"asr", "due"}
    BY <2>1, <1>2, Nothings DEF Agrees, Fresh
  <2>3. rows'[c] = NoRow /\ wish'[c] = "none" /\ task'[c] \notin {"asr", "due"}
    BY <2>2, <1>2 DEF serverVars
  <2>4. Unasked(c)' /\ rows'[c].status = "none" BY <2>3, Nothings DEF Unasked, Untouched
  <2>5. disk'[c].state \in {"queued", "failed", "capturing"} BY <1>6
  <2>6. Agrees(c)' BY <2>3, <2>4, <2>5 DEF Agrees, Fresh, Pending
  <2> QED BY <1>1, <1>9, <2>6, StillAgrees DEF Agreed
<1>12. Travelling'
  <2>1. ASSUME NEW rq \in late PROVE Harmless(rq)'
    <3>1. Harmless(rq) BY <1>1 DEF Travelling
    <3>2. rq.item.id \in Todos /\ rq.item.id # c BY <3>1, <1>2 DEF Harmless, Fresh
    <3> QED BY <3>1, <3>2, <1>9, StillHarmless
  <2> QED BY <2>1, <1>2 DEF Travelling, serverVars
<1>13. Calling'
  <2>1. ASSUME call.step # "none" PROVE call.item.id \in Todos /\ call.item.id # c
    BY <2>1, <1>1, <1>2 DEF Calling, Item, Sendable, Pending
  <2> QED BY <2>1, <1>1, <1>2, <1>9, StillCalling
<1> QED BY <1>6, <1>7, <1>8, <1>10, <1>11, <1>12, <1>13 DEF IInv

-----------------------------------------------------------------------------
(* The owner's answer. *)

LEMMA AnswerInv == ASSUME IInv, Answer PROVE IInv'
<1>1. /\ Typed /\ Capturing /\ Kept /\ Agreed /\ Travelling /\ Calling /\ Newest BY DEF IInv
<1>2. on /\ latest.state = "needs_confirmation" /\ UNCHANGED <<on, captureVars, call, serverVars, faults>>
  BY DEF Answer, Asked
<1>3. PICK state \in Pending : Save([latest EXCEPT !.state = state]) /\ wish' = [wish EXCEPT ![latest.id] = state]
  BY DEF Answer
<1>4. PICK t \in Todos : t = latest.id /\ latest = Item(t)
  <2>1. latest.id # 0 BY <1>1, <1>2 DEF Newest, NoItem
  <2> QED BY <2>1, <1>1, <1>2 DEF Newest, Current, Typed, ItemType, Todos
<1>5. disk[t].state = "needs_confirmation" /\ latest.rev = disk[t].rev BY <1>2, <1>4 DEF Item
<1>6. PICK item \in ItemType : item = [latest EXCEPT !.state = state]
  <2>1. state \in States BY <1>3 DEF Pending, States
  <2> QED BY <2>1, <1>1 DEF Typed, ItemType
<1>7. item.id = t /\ item.state = state /\ item.rev = disk[t].rev /\ Save(item)
  BY <1>1, <1>3, <1>4, <1>5, <1>6 DEF Typed, ItemType
<1>8. /\ disk' \in [Todos -> [state : States, rev : Nat]] /\ latest' \in ItemType
      /\ disk'[t].state = state /\ disk'[t].rev = disk[t].rev
      /\ \A u \in Todos : u # t => disk'[u] = disk[u]
      /\ Newest'
  BY <1>1, <1>7, SaveIs
<1>9. wish'[t] = state /\ \A u \in Todos : u # t => wish'[u] = wish[u] BY <1>1, <1>3, <1>4 DEF Typed
<1>10. Typed'
  <2>1. wish' \in [Todos -> {"none"} \union Pending] BY <1>1, <1>3 DEF Typed
  <2> QED BY <1>1, <1>2, <1>8, <2>1 DEF Typed, captureVars, serverVars
<1>11. ~Fresh(t) /\ ~Fresh(t)' /\ disk'[t].state # "failed" BY <1>3, <1>5, <1>8 DEF Fresh, Pending
<1>12. Capturing'
  <2>1. UNCHANGED <<on, capture, ring, wav, taken, told, waiting>> BY <1>2 DEF captureVars
  <2> QED BY <1>2, <1>8, <1>11, <2>1, FileCapturing
<1>13. Kept'
  <2>1. UNCHANGED <<capture, wav, taken, told, rows>> BY <1>2 DEF captureVars, serverVars
  <2> QED BY <1>8, <1>11, <2>1, FileKept
<1>14. \A u \in Todos : u # t => Still(u) BY <1>2, <1>8, <1>9 DEF Still, captureVars, serverVars
<1>15. Agrees(t) BY <1>1 DEF Agreed
<1>16. Agreed'
  <2>1. rows'[t] = rows[t] /\ wav'[t] = wav[t] /\ task'[t] = task[t] BY <1>2 DEF captureVars, serverVars
  <2>2. Asking(t)' BY <1>5, <1>8, <1>15, <2>1 DEF Agrees, Asking, Untouched
  <2>3. Agrees(t)' BY <2>1, <2>2, <1>3, <1>8, <1>9, <1>15 DEF Agrees, Fresh, Pending
  <2> QED BY <1>1, <1>14, <2>3, StillAgrees DEF Agreed
<1>17. Travelling'
  <2>1. ASSUME NEW rq \in late PROVE Harmless(rq)'
    <3>1. Harmless(rq) BY <1>1 DEF Travelling
    <3>2. CASE rq.item.id = t
      <4>1. wish[t] = "none" BY <1>5, <1>15 DEF Agrees
      <4>2. rq.item.state = "queued" BY <3>1, <3>2, <4>1 DEF Harmless, Pending
      <4> QED BY <3>1, <3>2, <4>2, <1>2, <1>11 DEF Harmless, Pending, captureVars
    <3>3. CASE rq.item.id # t BY <3>1, <3>3, <1>14, StillHarmless DEF Harmless
    <3> QED BY <3>2, <3>3
  <2> QED BY <2>1, <1>2 DEF Travelling, serverVars
<1>18. Calling'
  <2>1. ASSUME call.step # "none" PROVE call.item.id \in Todos /\ call.item.id # t
    BY <2>1, <1>1, <1>5 DEF Calling, Item, Sendable, Pending
  <2> QED BY <2>1, <1>1, <1>2, <1>14, StillCalling
<1> QED BY <1>8, <1>10, <1>12, <1>13, <1>16, <1>17, <1>18 DEF IInv

-----------------------------------------------------------------------------
(* The network task. *)

(* Only the request changes.                                               *)
LEMMA CallInv ==
  ASSUME IInv, call' \in Calls, call'.step # "none" => on, Calling', faults' \in 0 .. MaxFaults,
         UNCHANGED <<cardVars, captureVars, wish, rows, task>>,
         late' \subseteq Calls, \A rq \in late' : rq \in late \/ Harmless(rq)
  PROVE  IInv'
<1>1. /\ Typed /\ Capturing /\ Kept /\ Agreed /\ Travelling /\ Newest BY DEF IInv
<1>2. Typed' BY <1>1 DEF Typed, cardVars, captureVars
<1>3. Capturing' BY <1>1 DEF Capturing, cardVars, captureVars
<1>4. Kept' BY <1>1 DEF Kept, Safe, Whole, Fresh, cardVars, captureVars
<1>5. Agreed'
  <2>1. ASSUME NEW t \in Todos PROVE Agrees(t)'
    <3>1. Agrees(t) /\ Still(t) BY <1>1 DEF Agreed, Still, cardVars, captureVars
    <3> QED BY <3>1, StillAgrees
  <2> QED BY <2>1 DEF Agreed
<1>6. Travelling'
  <2>1. ASSUME NEW rq \in late' PROVE Harmless(rq)'
    <3>1. Harmless(rq) BY <1>1 DEF Travelling
    <3> QED BY <3>1 DEF Harmless, Fresh, cardVars, captureVars
  <2> QED BY <2>1 DEF Travelling
<1>7. Newest' BY <1>1 DEF Newest, Current, Item, cardVars
<1> QED BY <1>2, <1>3, <1>4, <1>5, <1>6, <1>7 DEF IInv

LEMMA TurnInv == ASSUME IInv, Turn PROVE IInv'
<1>1. Typed /\ faults \in 0 .. MaxFaults BY DEF IInv, Typed
<1>2. on /\ Eligible # {} /\ UNCHANGED <<cardVars, captureVars, wish, serverVars, faults>> BY DEF Turn
<1>3. PICK t \in Todos : t = Min(Eligible) /\ t \in Eligible
  <2>1. Eligible \in SUBSET Todos BY DEF Eligible
  <2> QED BY <1>2, <2>1, LeastIsIn
<1>4. call' = [NoCall EXCEPT !.item = Item(t), !.sound = wav[t], !.step = "sent"] BY <1>3 DEF Turn
<1>5. call' = [item |-> Item(t), sound |-> wav[t], step |-> "sent", code |-> 0, status |-> "none", rev |-> 0]
  BY <1>4 DEF NoCall
<1>6. Item(t) \in ItemType /\ Item(t).id = t /\ Item(t).state = disk[t].state
  BY <1>1 DEF Item, ItemType, Typed, Todos
<1>7. call' \in Calls
  <2>1. wav[t] \in Nat BY <1>1 DEF Typed
  <2> QED BY <1>5, <1>6, <2>1 DEF Calls, RowStates
<1>8. Calling'
  <2>1. disk[t].state \in Sendable BY <1>3 DEF Eligible
  <2>2. call'.item = Item(t) /\ call'.sound = wav[t] /\ call'.step = "sent" BY <1>5
  <2>3. Item(t)' = Item(t) BY <1>2 DEF Item, cardVars
  <2> QED BY <1>2, <1>6, <2>1, <2>2, <2>3 DEF Calling, Item, cardVars, captureVars
<1> QED BY <1>1, <1>2, <1>7, <1>8, CallInv DEF serverVars, Typed

LEMMA LoseInv == ASSUME IInv, Lose PROVE IInv'
<1>1. /\ Typed /\ Agreed /\ Calling BY DEF IInv
<1>2. /\ call' = GivenUp /\ call.step \in {"sent", "answered"} /\ UNCHANGED <<cardVars, captureVars, wish, rows, task>>
      /\ \/ late' = late
         \/ call.step = "sent" /\ call.item.state # "uploaded" /\ late' = late \union {call}
  BY DEF Lose
<1>3. faults' \in 0 .. MaxFaults BY <1>1, Numbers DEF Lose, Fault, Typed
<1>4. PICK t \in Todos : t = call.item.id /\ call.item = Item(t) /\ disk[t].state \in Sendable
      /\ (call.step = "sent" => call.sound = wav[t])
  BY <1>1, <1>2 DEF Calling, Item
<1>5. call' = [item |-> call.item, sound |-> 0, step |-> "lost", code |-> 0, status |-> "none", rev |-> 0]
  BY <1>2 DEF GivenUp, NoCall
<1>6. call.item \in ItemType BY <1>1 DEF Typed, Calls
<1>7. call' \in Calls BY <1>5, <1>6 DEF Calls, RowStates
<1>8. Calling'
  <2>1. call'.item = Item(t) /\ call'.step = "lost" /\ Item(t)' = Item(t) /\ Item(t).id = t /\ Item(t).state = disk[t].state
    BY <1>2, <1>4, <1>5 DEF Item, cardVars
  <2> QED BY <1>4, <2>1 DEF Calling
<1>9. late' \subseteq Calls BY <1>1, <1>2 DEF Typed
<1>10. ASSUME NEW rq \in late', rq \notin late PROVE Harmless(rq)
  <2>1. rq = call /\ call.step = "sent" /\ call.item.state # "uploaded" BY <1>2, <1>10
  <2>2. call.item.id = t /\ call.item.state = disk[t].state /\ call.item.rev = disk[t].rev /\ call.sound = wav[t]
    BY <1>4, <2>1 DEF Item
  <2>3. disk[t].state \in {"queued"} \union Pending BY <1>4, <2>1, <2>2 DEF Sendable
  <2>4. Agrees(t) BY <1>1 DEF Agreed
  <2>5. disk[t].state \in Pending => wish[t] = disk[t].state BY <2>4 DEF Agrees
  <2> QED BY <2>1, <2>2, <2>3, <2>5 DEF Harmless, Fresh, Pending
<1>11. on BY <1>2 DEF IInv, Capturing
<1> QED BY <1>2, <1>3, <1>7, <1>8, <1>9, <1>10, <1>11, CallInv

(* What an answer may make of the item.                                    *)
Follows(t, item) ==
  /\ item \in ItemType /\ item.id = t
  /\ \/ item = call.item
     \/ /\ call.item.state = "queued" /\ item.state = "uploaded" /\ item.rev = disk[t].rev
        /\ rows[t].status # "none"
     \/ /\ call.item.state \in {"queued", "uploaded"} /\ item.state = "failed" /\ item.rev = disk[t].rev
        /\ rows[t].status = "failed"
     \/ /\ call.item.state = "uploaded" /\ item.state = "needs_confirmation" /\ item.rev = rows[t].rev
        /\ rows[t].status = "ready"
     \/ /\ call.item.state \in Pending /\ item.state = EndOf(call.item.state) /\ item.rev = disk[t].rev
        /\ Carried(t)

LEMMA KeepsFollows ==
  ASSUME Typed, NEW t \in Todos, t = call.item.id, call.item = Item(t), call.item.state \in Sendable,
         call.step \in {"answered", "lost"}, call.step = "answered" => Replied
  PROVE  Follows(t, Keeps)
<1>1. call.item \in ItemType /\ call.item.rev = disk[t].rev /\ rows[t].rev \in Nat
  <2>1. call \in Calls /\ rows[t] \in Rows BY DEF Typed
  <2>2. call.item.rev = disk[t].rev BY DEF Item
  <2>3. call.item \in ItemType BY <2>1 DEF Calls
  <2>4. rows[t].rev \in Nat BY <2>1 DEF Rows
  <2> QED BY <2>2, <2>3, <2>4
<1>2. CASE Keeps = call.item BY <1>1, <1>2 DEF Follows
<1>3. CASE call.step = "answered" /\ call.item.state = "queued"
  <2>1. call.code = 200 /\ rows[t].status # "none" /\ (call.status = "failed" => rows[t].status = "failed")
    BY <1>3 DEF Replied
  <2>2. Keeps = [call.item EXCEPT !.state = IF call.status = "failed" THEN "failed" ELSE "uploaded"]
    <3>1. Keeps = Received(call.item) BY <1>3 DEF Keeps
    <3>2. Received(call.item) = Uploaded(call.item) BY <1>3, <2>1 DEF Received, Pending
    <3> QED BY <3>1, <3>2 DEF Uploaded
  <2>3. CASE call.status = "failed"
    <3>1. Keeps = [call.item EXCEPT !.state = "failed"] BY <2>2, <2>3
    <3>2. Keeps \in ItemType /\ Keeps.id = t /\ Keeps.state = "failed" /\ Keeps.rev = disk[t].rev
      BY <1>1, <3>1 DEF ItemType, States
    <3> QED BY <1>3, <2>1, <2>3, <3>2 DEF Follows
  <2>4. CASE call.status # "failed"
    <3>1. Keeps = [call.item EXCEPT !.state = "uploaded"] BY <2>2, <2>4
    <3>2. Keeps \in ItemType /\ Keeps.id = t /\ Keeps.state = "uploaded" /\ Keeps.rev = disk[t].rev
      BY <1>1, <3>1 DEF ItemType, States
    <3> QED BY <1>3, <2>1, <3>2 DEF Follows
  <2> QED BY <2>3, <2>4
<1>4. CASE call.step = "answered" /\ call.item.state = "uploaded"
  <2>1. /\ call.code # 409
        /\ call.code = 200 /\ call.rev > call.item.rev =>
             call.status \in {"ready", "failed"} /\ rows[t].status = call.status /\ rows[t].rev = call.rev
    BY <1>4 DEF Replied
  <2>2. CASE call.code = 200 /\ call.rev > call.item.rev
    <3>1. Keeps = Resulted(call.item) BY <1>4, <2>2 DEF Keeps, Received, Pending
    <3>2. CASE call.status = "failed"
      <4>1. Keeps = [call.item EXCEPT !.state = "failed", !.rev = call.item.rev]
        BY <3>1, <3>2 DEF Resulted, ResultStates
      <4>2. Keeps \in ItemType /\ Keeps.id = t /\ Keeps.state = "failed" /\ Keeps.rev = disk[t].rev
        BY <1>1, <4>1 DEF ItemType, States
      <4>3. rows[t].status = "failed" BY <2>1, <2>2, <3>2
      <4> QED BY <1>4, <4>2, <4>3 DEF Follows
    <3>3. CASE call.status = "ready"
      <4>1. Keeps = [call.item EXCEPT !.state = "needs_confirmation", !.rev = call.rev]
        BY <3>1, <3>3 DEF Resulted, ResultStates
      <4>2. /\ Keeps \in ItemType /\ Keeps.id = t /\ Keeps.state = "needs_confirmation"
            /\ Keeps.rev = rows[t].rev
        BY <1>1, <2>1, <2>2, <4>1 DEF ItemType, States
      <4>3. rows[t].status = "ready" BY <2>1, <2>2, <3>3
      <4> QED BY <1>4, <4>2, <4>3 DEF Follows
    <3> QED BY <2>1, <2>2, <3>2, <3>3
  <2>3. CASE ~(call.code = 200 /\ call.rev > call.item.rev)
    <3>1. Keeps = call.item BY <1>4, <2>1, <2>3 DEF Keeps, Received, Pending
    <3> QED BY <3>1, <1>2
  <2> QED BY <2>2, <2>3
<1>5. CASE call.step = "answered" /\ call.item.state \in Pending
  <2>1. call.code = 200 /\ call.rev = call.item.rev + 1 /\ Carried(t) BY <1>5 DEF Replied, Pending
  <2>2. Keeps = Acted(call.item) BY <1>5, <2>1 DEF Keeps, Received, Pending
  <2>3. Keeps = [call.item EXCEPT !.state = EndOf(call.item.state)] BY <2>2 DEF Acted, EndOf
  <2>4. EndOf(call.item.state) \in States BY DEF EndOf, States
  <2>5. Keeps \in ItemType /\ Keeps.id = t /\ Keeps.state = EndOf(call.item.state) /\ Keeps.rev = disk[t].rev
    BY <1>1, <2>3, <2>4 DEF ItemType
  <2> QED BY <1>5, <2>1, <2>5 DEF Follows
<1>6. CASE call.step = "lost" BY <1>2, <1>6 DEF Keeps
<1> QED BY <1>3, <1>4, <1>5, <1>6 DEF Sendable

LEMMA ReceiveInv == ASSUME IInv, Receive PROVE IInv'
<1>1. /\ Typed /\ Capturing /\ Kept /\ Agreed /\ Travelling /\ Calling /\ Newest BY DEF IInv
<1>2. on /\ call.step \in {"answered", "lost"} /\ call' = NoCall /\ UNCHANGED <<on, captureVars, wish, serverVars>>
  BY DEF Receive
<1>3. PICK t \in Todos : t = call.item.id
  BY <1>1, <1>2 DEF Calling
<1>4. call.item = Item(t) /\ call.item.state \in Sendable /\ (call.step = "answered" => Replied)
  BY <1>1, <1>2, <1>3 DEF Calling
<1>5. Follows(t, Keeps) BY <1>1, <1>2, <1>3, <1>4, KeepsFollows
<1>6. call.item \in ItemType /\ call.item.state = disk[t].state /\ call.item.rev = disk[t].rev
  BY <1>1, <1>4 DEF Typed, Calls, Item
<1>7. faults' \in 0 .. MaxFaults BY <1>1, Numbers DEF Typed, Receive, Fault
(* The file as it is after the answer: what follows, or what it was.       *)
<1>8. PICK item \in ItemType :
        /\ Follows(t, item)
        /\ disk' \in [Todos -> [state : States, rev : Nat]] /\ latest' \in ItemType
        /\ disk'[t].state = item.state /\ disk'[t].rev = item.rev
        /\ \A u \in Todos : u # t => disk'[u] = disk[u]
        /\ Newest'
  <2>1. CASE Save(Keeps)
    <3>1. Keeps \in ItemType /\ Keeps.id = t BY <1>5 DEF Follows
    <3> QED BY <1>1, <1>5, <2>1, <3>1, SaveIs
  <2>2. CASE disk' = disk /\ latest' \in {latest, call.item}
    <3>1. Follows(t, call.item) BY <1>3, <1>6 DEF Follows
    <3>2. Newest'
      <4>1. CASE latest' = latest BY <1>1, <2>2, <4>1 DEF Newest, Current, Item
      <4>2. CASE latest' = call.item
        <5>1. latest'.id = t /\ t # 0 BY <1>3, <4>2 DEF Todos
        <5>2. latest' = Item(t)' BY <1>4, <2>2, <4>2 DEF Item
        <5> QED BY <5>1, <5>2 DEF Newest, Current
      <4> QED BY <2>2, <4>1, <4>2
    <3> QED BY <1>1, <1>6, <2>2, <3>1, <3>2 DEF Typed
  <2> QED BY <2>1, <2>2 DEF Receive
<1>9. ~Fresh(t) BY <1>4, <1>6 DEF Fresh, Sendable, Pending
<1>10. Agrees(t) BY <1>1 DEF Agreed
<1>11. disk'[t] = [state |-> disk'[t].state, rev |-> disk'[t].rev] /\ disk[t] = [state |-> disk[t].state, rev |-> disk[t].rev]
  BY <1>1, <1>8 DEF Typed
<1>12. rows'[t] = rows[t] /\ wav'[t] = wav[t] /\ task'[t] = task[t] /\ wish'[t] = wish[t]
  BY <1>2 DEF captureVars, serverVars
<1>13. CASE item = call.item
  <2>1. disk' = disk
    <3>1. disk'[t] = disk[t] BY <1>6, <1>8, <1>11, <1>13
    <3> QED BY <1>1, <1>8, <3>1 DEF Typed
  <2>2. \A u \in Todos : Still(u) BY <2>1, <1>2 DEF Still, captureVars, serverVars
  <2>3. Agreed' BY <1>1, <2>2, StillAgrees DEF Agreed
  <2>4. Travelling'
    <3>1. ASSUME NEW rq \in late PROVE Harmless(rq)'
      <4>1. Harmless(rq) BY <1>1 DEF Travelling
      <4> QED BY <4>1, <2>2, StillHarmless DEF Harmless
    <3> QED BY <3>1, <1>2 DEF Travelling, serverVars
  <2>5. Kept' BY <2>1, <1>1, <1>2 DEF Kept, Safe, Whole, Fresh, captureVars, serverVars
  <2>6. Capturing' BY <2>1, <1>1, <1>2, Nothings DEF Capturing, captureVars
  <2>7. Typed' BY <1>1, <1>2, <1>7, <1>8, Nothings DEF Typed, captureVars, serverVars
  <2>8. Calling' BY <1>2, Nothings DEF Calling
  <2> QED BY <1>8, <2>3, <2>4, <2>5, <2>6, <2>7, <2>8 DEF IInv
<1>14. CASE item # call.item
  <2>1. /\ disk'[t].state \notin {"none", "capturing"}
        /\ disk'[t].state = "failed" => rows[t].status = "failed"
    BY <1>8, <1>14 DEF Follows, EndOf
  <2>2. Agrees(t)'
    <3>1. CASE /\ disk[t].state = "queued" /\ disk'[t].state = "uploaded" /\ rows[t].status # "none"
      BY <3>1, <1>10, <1>12 DEF Agrees, Fresh, Unasked, Untouched, Pending, Before
    <3>2. CASE /\ disk[t].state \in {"queued", "uploaded"} /\ disk'[t].state = "failed" /\ rows[t].status = "failed"
      BY <3>2, <1>10, <1>12 DEF Agrees, Fresh, Unasked, Untouched, Pending, Before
    <3>3. CASE /\ disk[t].state = "uploaded" /\ disk'[t].state = "needs_confirmation" /\ disk'[t].rev = rows[t].rev
               /\ rows[t].status = "ready"
      BY <3>3, <1>10, <1>12 DEF Agrees, Fresh, Unasked, Untouched, Asking, Pending, Before
    <3>4. CASE /\ disk[t].state \in Pending /\ disk'[t].state = EndOf(disk[t].state) /\ disk'[t].rev = disk[t].rev
               /\ Carried(t)
      <4>1. Carried(t)' BY <3>4, <1>12 DEF Carried
      <4>2. wish[t] = disk[t].state BY <3>4, <1>10 DEF Agrees
      <4>3. disk'[t].state = EndOf(wish'[t]) BY <3>4, <4>2, <1>12
      <4>4. disk'[t].state \in {"created", "cancelled"} BY <3>4 DEF EndOf
      <4> QED BY <4>1, <4>3, <4>4, <1>10, <1>12 DEF Agrees, Fresh, Pending
    <3> QED BY <3>1, <3>2, <3>3, <3>4, <1>6, <1>8, <1>14 DEF Follows
  <2>3. \A u \in Todos : u # t => Still(u) BY <1>2, <1>8 DEF Still, captureVars, serverVars
  <2>4. Agreed' BY <1>1, <2>2, <2>3, StillAgrees DEF Agreed
  <2>5. Travelling'
    <3>1. ASSUME NEW rq \in late PROVE Harmless(rq)'
      <4>1. Harmless(rq) BY <1>1 DEF Travelling
      <4>2. CASE rq.item.id # t BY <4>1, <4>2, <2>3, StillHarmless DEF Harmless
      <4>3. CASE rq.item.id = t
        <5>1. rq.item.state \in Pending =>
                 /\ wish[t] = rq.item.state /\ disk'[t].rev = disk[t].rev
                 /\ disk'[t].state = EndOf(wish[t])
          <6>1. SUFFICES ASSUME rq.item.state \in Pending
                         PROVE  wish[t] = rq.item.state /\ disk'[t].rev = disk[t].rev /\ disk'[t].state = EndOf(wish[t])
            OBVIOUS
          <6>2. wish[t] \in Pending /\ wish[t] = rq.item.state BY <4>1, <4>3, <6>1 DEF Harmless
          <6>3. disk[t].state \notin {"queued", "uploaded"} BY <6>2, <1>10 DEF Agrees, Unasked, Pending
          <6>4. disk[t].state \in Pending /\ disk'[t].state = EndOf(disk[t].state) /\ disk'[t].rev = disk[t].rev
            BY <6>3, <1>6, <1>8, <1>14 DEF Follows
          <6>5. wish[t] = disk[t].state BY <6>4, <1>10 DEF Agrees
          <6> QED BY <6>2, <6>4, <6>5
        <5> QED BY <4>1, <4>3, <5>1, <2>1, <1>12 DEF Harmless, Fresh
      <4> QED BY <4>2, <4>3
    <3> QED BY <3>1, <1>2 DEF Travelling, serverVars
  <2>6. Kept'
    <3>1. UNCHANGED <<capture, wav, taken, told, rows>> BY <1>2 DEF captureVars, serverVars
    <3> QED BY <3>1, <2>1, <1>8, FileKept DEF Fresh
  <2>7. Capturing'
    <3>1. UNCHANGED <<on, capture, ring, wav, taken, told, waiting>> BY <1>2 DEF captureVars
    <3> QED BY <3>1, <1>2, <1>8, <1>9, FileCapturing
  <2>8. Typed' BY <1>1, <1>2, <1>7, <1>8, Nothings DEF Typed, captureVars, serverVars
  <2>9. Calling' BY <1>2, Nothings DEF Calling
  <2> QED BY <1>8, <2>4, <2>5, <2>6, <2>7, <2>8, <2>9 DEF IInv
<1> QED BY <1>13, <1>14

-----------------------------------------------------------------------------
(* Rows. *)

StepOf(r, s) == [r EXCEPT !.status = s, !.rev = @ + 1]
ActOf(r, s, n, a) == [r EXCEPT !.status = s, !.rev = @ + 1, !.entries = @ + n, !.answers = @ \union {a}]

LEMMA RowStepped ==
  ASSUME NEW r \in Rows, NEW s \in RowStates
  PROVE  /\ StepOf(r, s) \in Rows /\ StepOf(r, s).status = s /\ StepOf(r, s).sound = r.sound
         /\ StepOf(r, s).entries = r.entries /\ StepOf(r, s).answers = r.answers
<1> DEFINE q == StepOf(r, s)
<1>1. q = [status |-> s, rev |-> r.rev + 1, sound |-> r.sound, entries |-> r.entries, answers |-> r.answers]
  <2>1. ASSUME NEW p, p = [r EXCEPT !.status = s, !.rev = @ + 1]
        PROVE  p = [status |-> s, rev |-> r.rev + 1, sound |-> r.sound, entries |-> r.entries, answers |-> r.answers]
    BY <2>1 DEF Rows
  <2> QED BY <2>1 DEF StepOf
<1> HIDE DEF q
<1>2. r.rev + 1 \in Nat /\ r.sound \in Nat /\ r.entries \in Nat /\ r.answers \in SUBSET Answers BY DEF Rows
<1>3. /\ q \in Rows /\ q.status = s /\ q.sound = r.sound /\ q.entries = r.entries /\ q.answers = r.answers
  BY <1>1, <1>2 DEF Rows
<1> QED BY <1>3 DEF q

LEMMA RowActed ==
  ASSUME NEW r \in Rows, NEW s \in RowStates, NEW n \in Nat, NEW a \in Answers,
         r.entries = 0, r.answers = {}
  PROVE  LET q == ActOf(r, s, n, a)
         IN  /\ q \in Rows /\ q.status = s /\ q.rev = r.rev + 1 /\ q.sound = r.sound
             /\ q.entries = n /\ q.answers = {a}
<1> DEFINE q == ActOf(r, s, n, a)
<1>1. q = [status |-> s, rev |-> r.rev + 1, sound |-> r.sound, entries |-> 0 + n, answers |-> {} \union {a}]
  <2>1. ASSUME NEW p, p = [r EXCEPT !.status = s, !.rev = @ + 1, !.entries = @ + n, !.answers = @ \union {a}]
        PROVE  p = [status |-> s, rev |-> r.rev + 1, sound |-> r.sound, entries |-> r.entries + n,
                    answers |-> r.answers \union {a}]
    BY <2>1 DEF Rows
  <2> QED BY <2>1 DEF ActOf
<1> HIDE DEF q
<1>2. 0 + n = n /\ {} \union {a} = {a} OBVIOUS
<1>3. r.rev + 1 \in Nat /\ r.sound \in Nat /\ {a} \in SUBSET Answers BY DEF Rows
<1>4. /\ q \in Rows /\ q.status = s /\ q.rev = r.rev + 1 /\ q.sound = r.sound
      /\ q.entries = n /\ q.answers = {a}
  BY <1>1, <1>2, <1>3 DEF Rows
<1> QED BY <1>4 DEF q

-----------------------------------------------------------------------------
(* The server. *)

(* What a step of the server does to a row: nothing, a new recording, the  *)
(* owner's answer carried out, or a step of process_todo.                  *)
Tasked(t) ==
  /\ task'[t] = "asr" => rows'[t].status = "processing"
  /\ task'[t] = "due" => rows'[t].status # "none"
Advances(t) ==
  /\ Tasked(t)
  /\ \/ rows'[t] = rows[t]
     \/ /\ disk[t].state = "queued" /\ rows[t].status = "none" /\ rows'[t].status = "received"
        /\ rows'[t].sound = wav[t] /\ rows'[t].entries = 0 /\ rows'[t].answers = {}
     \/ disk[t].state \in Pending /\ Asking(t) /\ Carried(t)' /\ rows'[t].sound = rows[t].sound
     \/ /\ rows[t].status \in {"received", "processing"}
        /\ rows'[t].status \in {"processing", "ready", "failed"}
        /\ rows'[t].sound = rows[t].sound /\ rows'[t].entries = rows[t].entries
        /\ rows'[t].answers = rows[t].answers

LEMMA AdvanceAgrees ==
  ASSUME NEW t \in Todos, Agrees(t), Advances(t), UNCHANGED <<cardVars, captureVars, wish>> PROVE Agrees(t)'
<1>1. disk' = disk /\ wish' = wish /\ wav' = wav BY DEF cardVars, captureVars
<1>2. CASE rows'[t] = rows[t] BY <1>1, <1>2 DEF Advances, Tasked, Agrees, Fresh, Unasked, Untouched, Asking, Carried
<1>3. CASE /\ disk[t].state = "queued" /\ rows[t].status = "none" /\ rows'[t].status = "received"
           /\ rows'[t].sound = wav[t] /\ rows'[t].entries = 0 /\ rows'[t].answers = {}
  BY <1>1, <1>3 DEF Advances, Tasked, Agrees, Fresh, Unasked, Untouched, Before, Pending
<1>4. CASE disk[t].state \in Pending /\ Asking(t) /\ Carried(t)' /\ rows'[t].sound = rows[t].sound
  <2>1. rows'[t].status # "none" => rows'[t].sound = wav'[t] BY <1>1, <1>4 DEF Agrees, Asking
  <2> QED BY <1>1, <1>4, <2>1 DEF Advances, Tasked, Agrees, Fresh, Pending
<1>5. CASE /\ rows[t].status \in {"received", "processing"}
           /\ rows'[t].status \in {"processing", "ready", "failed"}
           /\ rows'[t].sound = rows[t].sound /\ rows'[t].entries = rows[t].entries
           /\ rows'[t].answers = rows[t].answers
  <2>1. ~Fresh(t) BY <1>5, Nothings DEF Agrees
  <2>2. ~Asking(t) /\ ~Carried(t) BY <1>5 DEF Asking, Carried, OutcomeOf
  <2>3. disk[t].state \notin {"needs_confirmation", "created", "cancelled", "failed"} \union Pending
    BY <1>5, <2>2 DEF Agrees
  <2> QED BY <1>1, <1>5, <2>1, <2>3 DEF Advances, Tasked, Agrees, Fresh, Unasked, Untouched, Before
<1> QED BY <1>2, <1>3, <1>4, <1>5 DEF Advances

LEMMA AdvanceReplied ==
  ASSUME Agreed, Calling, call.step # "none", Advances(call.item.id), Replied,
         UNCHANGED <<cardVars, captureVars, wish, call>>
  PROVE  Replied'
<1>1. PICK t \in Todos : t = call.item.id /\ call.item.state = disk[t].state /\ call.item.state \in Sendable
  BY DEF Calling, Item
<1>2. Agrees(t) /\ Advances(t) BY <1>1 DEF Agreed
<1>3. disk' = disk /\ wish' = wish /\ wav' = wav /\ call' = call BY DEF cardVars, captureVars
<1>4. ASSUME call.item.state = "queued"
      PROVE  rows'[t].status # "none" /\ (call.status = "failed" => rows'[t].status = "failed")
  <2>1. rows[t].status # "none" /\ (call.status = "failed" => rows[t].status = "failed") BY <1>1, <1>4 DEF Replied
  <2>2. ~Asking(t) \/ disk[t].state \notin Pending BY <1>1, <1>4 DEF Pending
  <2> QED BY <1>2, <2>1, <2>2 DEF Advances
<1>5. ASSUME call.item.state = "uploaded", call.code = 200, call.rev > call.item.rev
      PROVE  rows'[t].status = call.status /\ rows'[t].rev = call.rev
  <2>1. call.status \in {"ready", "failed"} /\ rows[t].status = call.status /\ rows[t].rev = call.rev
    BY <1>1, <1>5 DEF Replied
  <2>2. disk[t].state \notin Pending \union {"queued"} BY <1>1, <1>5 DEF Pending
  <2> QED BY <1>2, <2>1, <2>2 DEF Advances
<1>6. ASSUME call.item.state \in Pending PROVE Carried(t)'
  <2>1. Carried(t) BY <1>1, <1>6 DEF Replied
  <2>2. rows[t].status \in {"confirmed", "cancelled"} BY <2>1 DEF Carried, OutcomeOf
  <2>3. rows'[t] = rows[t] BY <1>2, <2>2 DEF Advances, Asking
  <2> QED BY <1>3, <2>1, <2>3 DEF Carried
<1> QED BY <1>1, <1>3, <1>4, <1>5, <1>6 DEF Replied

LEMMA ServerInv ==
  ASSUME IInv, \A t \in Todos : Advances(t), UNCHANGED <<cardVars, captureVars, wish>>,
         rows' \in [Todos -> Rows], task' \in [Todos -> {"none", "due", "asr"}], late' \subseteq late,
         faults' \in 0 .. MaxFaults, call' \in Calls, call'.step # "none" => on, Calling'
  PROVE  IInv'
<1>1. /\ Typed /\ Capturing /\ Kept /\ Agreed /\ Travelling /\ Newest BY DEF IInv
<1>2. Typed' BY <1>1 DEF Typed, cardVars, captureVars
<1>3. Capturing' BY <1>1 DEF Capturing, cardVars, captureVars
<1>4. Agreed' BY <1>1, AdvanceAgrees DEF Agreed
<1>5. \A t \in Todos : rows[t].status = "failed" => rows'[t].status = "failed" BY DEF Advances, Asking
<1>6. Kept' BY <1>1, <1>5 DEF Kept, Safe, Whole, Fresh, cardVars, captureVars
<1>7. Travelling'
  <2>1. ASSUME NEW rq \in late PROVE Harmless(rq)'
    <3>1. Harmless(rq) BY <1>1 DEF Travelling
    <3> QED BY <3>1, <1>5 DEF Harmless, Fresh, cardVars, captureVars
  <2> QED BY <2>1 DEF Travelling
<1>8. Newest' BY <1>1 DEF Newest, Current, Item, cardVars
<1> QED BY <1>2, <1>3, <1>4, <1>6, <1>7, <1>8 DEF IInv

(* The request the network task waits for is not concerned.                *)
LEMMA BesideInv ==
  ASSUME IInv, \A t \in Todos : Advances(t), UNCHANGED <<cardVars, captureVars, wish, call>>,
         rows' \in [Todos -> Rows], task' \in [Todos -> {"none", "due", "asr"}], late' \subseteq late,
         faults' \in 0 .. MaxFaults
  PROVE  IInv'
<1>1. Typed /\ Agreed /\ Calling /\ Capturing BY DEF IInv
<1>2. Calling'
  <2>1. ASSUME call.step # "none" PROVE Calling'
    <3>1. /\ call.item.id \in Todos /\ call.item = Item(call.item.id) /\ call.item.state \in Sendable
          /\ call.step = "sent" => call.sound = wav[call.item.id]
      BY <1>1, <2>1 DEF Calling
    <3>2. call.step = "answered" => Replied' BY <1>1, <2>1, <3>1, AdvanceReplied DEF Calling
    <3> QED BY <3>1, <3>2 DEF Calling, Item, cardVars, captureVars
  <2> QED BY <2>1 DEF Calling
<1>3. call' \in Calls /\ (call'.step # "none" => on) BY <1>1 DEF Typed, Capturing
<1> QED BY <1>2, <1>3, ServerInv

-----------------------------------------------------------------------------
(* A request reaches the server. *)

Welcome(rq, t) ==
  /\ t = rq.item.id /\ rq.sound = wav[t] /\ ~Fresh(t)
  /\ disk[t].state = "failed" => rows[t].status = "failed"
  /\ \/ rq.item.state = "queued"
     \/ rq.item.state = "uploaded" /\ disk[t].state = "uploaded"
     \/ /\ rq.item.state \in Pending /\ wish[t] = rq.item.state /\ rq.item.rev = disk[t].rev
        /\ disk[t].state \in {wish[t], EndOf(wish[t])}

(* The answer is carried out once, however often it is asked for.          *)
LEMMA ActsOnce ==
  ASSUME IInv, NEW t \in Todos, NEW rq \in Calls, Welcome(rq, t), rq.item.state \in Pending,
         UNCHANGED <<cardVars, wish>>, rows'[t] = Acts(rows[t], rq), rows[t] \in Rows
  PROVE  /\ Carried(t)' /\ rows'[t].sound = rows[t].sound
         /\ rows'[t] = rows[t] \/ (disk[t].state \in Pending /\ Asking(t))
         /\ ActionReply(rows[t], rq) = Reply(200, "acted", rq.item.rev + 1)
         /\ rows'[t] \in Rows /\ rows[t].status # "none"
<1>1. Typed /\ Agrees(t) BY DEF IInv, Agreed
<1>2. disk' = disk /\ wish' = wish BY DEF cardVars
<1>3. wish[t] = rq.item.state /\ rq.item.rev = disk[t].rev /\ rq.item.rev \in Nat
  BY <1>1 DEF Welcome, Pending, Typed
<1>4. disk[t].state \in {rq.item.state, EndOf(rq.item.state)} BY <1>3 DEF Welcome, Pending
<1> DEFINE answer == [state |-> rq.item.state, rev |-> rq.item.rev]
<1>5. answer \in Answers BY <1>3 DEF Answers
<1>6. CASE Carried(t)
  <2>1. Known(rows[t], rq) BY <1>3, <1>6 DEF Known, Carried
  <2>2. rows'[t] = rows[t] BY <2>1 DEF Acts
  <2>3. rows[t].status # "none" BY <1>6 DEF Carried, OutcomeOf
  <2> QED BY <1>2, <1>6, <2>1, <2>2, <2>3 DEF Carried, ActionReply
<1>7. CASE disk[t].state \in Pending /\ Asking(t)
  <2>1. rows[t].status = "ready" /\ rows[t].rev = rq.item.rev /\ rows[t].answers = {} /\ rows[t].entries = 0
    BY <1>3, <1>7 DEF Asking, Untouched
  <2>2. ~Known(rows[t], rq) BY <2>1 DEF Known
  <2>3. rows'[t] = [rows[t] EXCEPT !.status = IF rq.item.state = "confirm_pending" THEN "confirmed" ELSE "cancelled",
                     !.rev = @ + 1,
                     !.entries = @ + (IF rq.item.state = "confirm_pending" THEN 1 ELSE 0),
                     !.answers = @ \union {answer}]
    BY <2>1, <2>2 DEF Acts
  <2>4. /\ rows'[t].status = OutcomeOf(rq.item.state) /\ rows'[t].rev = disk[t].rev + 1
        /\ rows'[t].entries = IF rq.item.state = "confirm_pending" THEN 1 ELSE 0
        /\ rows'[t].answers = {answer} /\ rows'[t].sound = rows[t].sound
        /\ rows'[t] \in Rows
    <3> DEFINE n == IF rq.item.state = "confirm_pending" THEN 1 ELSE 0
    <3>1. OutcomeOf(rq.item.state) \in RowStates /\ n \in Nat BY DEF OutcomeOf, RowStates
    <3>2. rows'[t] = ActOf(rows[t], OutcomeOf(rq.item.state), n, answer) BY <2>3 DEF OutcomeOf, ActOf
    <3> HIDE DEF answer, n
    <3>3. rows'[t].entries = n BY <1>5, <2>1, <3>1, <3>2, RowActed
    <3>4. /\ rows'[t] \in Rows /\ rows'[t].status = OutcomeOf(rq.item.state) /\ rows'[t].rev = rows[t].rev + 1
          /\ rows'[t].sound = rows[t].sound /\ rows'[t].answers = {answer}
      BY <1>5, <2>1, <3>1, <3>2, RowActed
    <3> QED BY <1>3, <2>1, <3>3, <3>4 DEF n
  <2>5. Carried(t)' BY <1>2, <1>3, <2>4 DEF Carried
  <2> QED BY <1>7, <2>1, <2>4, <2>5 DEF ActionReply
<1> QED BY <1>1, <1>4, <1>6, <1>7 DEF Agrees, EndOf, Pending

LEMMA ServeRowAdvances ==
  ASSUME IInv, NEW rq \in Calls, NEW t \in Todos, Welcome(rq, t), ServeRow(rq),
         UNCHANGED <<cardVars, captureVars, wish>>
  PROVE  /\ \A u \in Todos : Advances(u)
         /\ rows' \in [Todos -> Rows] /\ task' \in [Todos -> {"none", "due", "asr"}]
         /\ rows'[t] = Serves(rows[t], rq) /\ rows'[t].status # "none"
<1>1. Typed /\ Agreed /\ Agrees(t) BY DEF IInv, Agreed
<1>2. t = rq.item.id /\ rq.sound = wav[t] /\ ~Fresh(t) BY DEF Welcome
<1>3. /\ rows' = [rows EXCEPT ![t] = Serves(rows[t], rq)]
      /\ task' = [task EXCEPT ![t] = IF rows[t].status = "none" THEN "due" ELSE @]
  BY <1>2 DEF ServeRow
<1>4. /\ rows'[t] = Serves(rows[t], rq) /\ task'[t] = IF rows[t].status = "none" THEN "due" ELSE task[t]
      /\ \A u \in Todos : u # t => rows'[u] = rows[u] /\ task'[u] = task[u]
      /\ rows[t] \in Rows
  BY <1>1, <1>3 DEF Typed
<1>5. task' \in [Todos -> {"none", "due", "asr"}] BY <1>1, <1>3 DEF Typed
<1>6. Advances(t) /\ rows'[t] \in Rows /\ rows'[t].status # "none"
  <2>1. CASE rq.item.state = "queued"
    <3>1. rows'[t] = Uploads(rows[t], rq) BY <1>4, <2>1 DEF Serves
    <3>2. CASE rows[t].status # "none"
      <4>1. rows'[t] = rows[t] /\ task'[t] = task[t] BY <1>4, <3>1, <3>2 DEF Uploads
      <4> QED BY <1>1, <1>4, <3>2, <4>1 DEF Advances, Tasked, Agrees
    <3>3. CASE rows[t].status = "none"
      <4>1. disk[t].state = "queued"
        <5>1. disk[t].state # "failed" BY <3>3 DEF Welcome
        <5>2. ~Asking(t) /\ ~Carried(t) BY <3>3 DEF Asking, Carried, OutcomeOf
        <5>3. disk[t].state \in States BY <1>1 DEF Typed
        <5> QED BY <5>1, <5>2, <5>3, <3>3, <1>1, <1>2 DEF Agrees, States, Fresh, Pending, Before
      <4>2. rows'[t] = [rows[t] EXCEPT !.status = "received", !.rev = 1, !.sound = rq.sound]
        BY <3>1, <3>3 DEF Uploads
      <4>3. rows[t].entries = 0 /\ rows[t].answers = {} BY <4>1, <1>1 DEF Agrees, Unasked, Untouched
      <4>4. rq.sound \in Nat BY DEF Calls
      <4>5. /\ rows'[t] \in Rows /\ rows'[t].status = "received" /\ rows'[t].sound = wav[t]
            /\ rows'[t].entries = 0 /\ rows'[t].answers = {}
        <5>1. rows'[t] = [status |-> "received", rev |-> 1, sound |-> rq.sound, entries |-> 0, answers |-> {}]
          BY <1>4, <4>2, <4>3 DEF Rows
        <5>2. "received" \in RowStates BY DEF RowStates
        <5> QED BY <1>2, <4>4, <5>1, <5>2 DEF Rows
      <4>6. task'[t] = "due" BY <1>4, <3>3
      <4> QED BY <3>3, <4>1, <4>5, <4>6 DEF Advances, Tasked
    <3> QED BY <3>2, <3>3
  <2>2. CASE rq.item.state = "uploaded" /\ disk[t].state = "uploaded"
    <3>1. rows[t].status # "none" BY <2>2, <1>1 DEF Agrees, Before
    <3>2. rows'[t] = rows[t] /\ task'[t] = task[t] BY <1>4, <2>2, <3>1 DEF Serves
    <3> QED BY <1>1, <1>4, <3>1, <3>2 DEF Advances, Tasked, Agrees
  <2>3. CASE rq.item.state \in Pending
    <3>1. rows'[t] = Acts(rows[t], rq) BY <1>4, <2>3 DEF Serves, Pending
    <3>2. /\ Carried(t)' /\ rows'[t].sound = rows[t].sound
          /\ rows'[t] = rows[t] \/ (disk[t].state \in Pending /\ Asking(t))
          /\ rows'[t] \in Rows /\ rows[t].status # "none"
      BY <1>4, <2>3, <3>1, ActsOnce
    <3>3. task'[t] = task[t] BY <1>4, <3>2
    <3>4. rows'[t].status # "none" BY <3>2 DEF Carried, OutcomeOf
    <3>5. Tasked(t)
      <4>1. CASE rows'[t] = rows[t] BY <4>1, <1>1, <3>3 DEF Tasked, Agrees
      <4>2. CASE Asking(t) BY <4>2, <1>1, <3>3, <3>4 DEF Tasked, Agrees, Asking
      <4> QED BY <3>2, <4>1, <4>2
    <3> QED BY <3>2, <3>4, <3>5 DEF Advances
  <2> QED BY <2>1, <2>2, <2>3 DEF Welcome
<1>7. rows' \in [Todos -> Rows] BY <1>1, <1>3, <1>4, <1>6 DEF Typed
<1>8. ASSUME NEW u \in Todos, u # t PROVE Advances(u)
  BY <1>1, <1>4, <1>8 DEF Advances, Tasked, Agreed, Agrees
<1> QED BY <1>4, <1>5, <1>6, <1>7, <1>8

LEMMA CallWelcome ==
  ASSUME IInv, call.step = "sent"
  PROVE  \E t \in Todos : /\ Welcome(call, t) /\ call.item = Item(t) /\ call.item.state = disk[t].state
                          /\ call.item.state \in Sendable
<1>1. Agreed /\ Calling BY DEF IInv
<1>2. PICK t \in Todos : /\ t = call.item.id /\ call.item = Item(t) /\ call.item.state \in Sendable
                         /\ call.sound = wav[t]
  BY <1>1 DEF Calling
<1>3. call.item.state = disk[t].state /\ call.item.rev = disk[t].rev BY <1>2 DEF Item
<1>4. disk[t].state \in Pending => wish[t] = disk[t].state BY <1>1 DEF Agreed, Agrees
<1>5. Welcome(call, t) BY <1>2, <1>3, <1>4 DEF Welcome, Fresh, Sendable, Pending
<1> QED BY <1>2, <1>3, <1>5

LEMMA ServeInv == ASSUME IInv, Serve PROVE IInv'
<1>1. Typed /\ Agreed /\ Capturing BY DEF IInv
<1>2. call.step = "sent" /\ ServeRow(call) /\ UNCHANGED <<cardVars, captureVars, wish, late, faults>>
  BY DEF Serve
<1>3. PICK t \in Todos : /\ Welcome(call, t) /\ call.item = Item(t) /\ call.item.state = disk[t].state
                         /\ call.item.state \in Sendable
  BY <1>2, CallWelcome
<1>4. t = call.item.id /\ call.sound = wav[t] /\ call \in Calls BY <1>1, <1>3 DEF Welcome, Typed
<1>5. /\ \A u \in Todos : Advances(u)
      /\ rows' \in [Todos -> Rows] /\ task' \in [Todos -> {"none", "due", "asr"}]
      /\ rows'[t] = Serves(rows[t], call) /\ rows'[t].status # "none"
  BY <1>2, <1>3, <1>4, ServeRowAdvances
<1>6. Agrees(t) /\ rows[t] \in Rows /\ rows[t].rev \in Nat /\ rows[t].status \in RowStates /\ call.item.rev \in Nat
  BY <1>1, <1>4 DEF Agreed, Typed, Rows, Calls, ItemType
<1> DEFINE reply == ReplyTo(rows[t], call)
(* What it answers.                                                        *)
<1>7. /\ reply.code \in Nat /\ reply.rev \in Nat /\ reply.status \in RowStates \union {"acted"}
      /\ call.item.state = "queued" =>
            reply.code = 200 /\ (reply.status = "failed" => rows'[t].status = "failed")
      /\ call.item.state = "uploaded" =>
            /\ reply.code # 409
            /\ reply.code = 200 /\ reply.rev > call.item.rev =>
                 reply.status \in {"ready", "failed"} /\ rows'[t].status = reply.status /\ rows'[t].rev = reply.rev
      /\ call.item.state \in Pending => reply.code = 200 /\ reply.rev = call.item.rev + 1 /\ Carried(t)'
  <2>1. CASE call.item.state = "queued"
    <3>1. rows'[t] = Uploads(rows[t], call) BY <1>5, <2>1 DEF Serves
    <3>2. rows[t].status # "none" => rows[t].sound = call.sound BY <1>4, <1>6 DEF Agrees
    <3>3. reply = [code |-> 200, status |-> rows'[t].status, rev |-> rows'[t].rev]
      BY <2>1, <3>1, <3>2 DEF ReplyTo, UploadReply, Reply
    <3>4. rows'[t].status \in RowStates /\ rows'[t].rev \in Nat BY <1>5 DEF Rows
    <3> HIDE DEF reply
    <3> QED BY <2>1, <3>3, <3>4 DEF Pending
  <2>2. CASE call.item.state = "uploaded"
    <3>1. rows'[t] = rows[t] BY <1>5, <2>2 DEF Serves
    <3>2. rows[t].status \in Before BY <1>3, <1>6, <2>2 DEF Agrees
    <3>3. \/ reply = [code |-> 204, status |-> "none", rev |-> 0]
          \/ reply = [code |-> 202, status |-> "none", rev |-> 0]
          \/ /\ reply = [code |-> 200, status |-> rows[t].status, rev |-> rows[t].rev]
             /\ rows[t].status \in {"ready", "failed"}
      BY <1>6, <2>2, <3>2 DEF ReplyTo, ResultReply, Reply, Before
    <3> HIDE DEF reply
    <3> QED BY <1>6, <2>2, <3>1, <3>3 DEF Pending, RowStates
  <2>3. CASE call.item.state \in Pending
    <3>1. rows'[t] = Acts(rows[t], call) BY <1>5, <2>3 DEF Serves, Pending
    <3>2. Carried(t)' /\ ActionReply(rows[t], call) = Reply(200, "acted", call.item.rev + 1)
      BY <1>2, <1>3, <1>4, <1>6, <2>3, <3>1, ActsOnce
    <3>3. reply = [code |-> 200, status |-> "acted", rev |-> call.item.rev + 1]
      BY <2>3, <3>2 DEF ReplyTo, Pending, Reply
    <3> HIDE DEF reply
    <3> QED BY <1>6, <2>3, <3>2, <3>3 DEF Pending
  <2> QED BY <1>3, <2>1, <2>2, <2>3 DEF Sendable
<1> HIDE DEF reply
<1>8. call' = [call EXCEPT !.step = "answered", !.code = reply.code, !.status = reply.status, !.rev = reply.rev]
  BY <1>4 DEF Serve, reply
<1>9. /\ call' \in Calls /\ call'.step = "answered" /\ call'.item = call.item
      /\ call'.code = reply.code /\ call'.status = reply.status /\ call'.rev = reply.rev
  <2>1. call' = [item |-> call.item, sound |-> call.sound, step |-> "answered", code |-> reply.code,
                 status |-> reply.status, rev |-> reply.rev]
    BY <1>4, <1>8 DEF Calls
  <2> QED BY <1>4, <1>7, <2>1 DEF Calls
<1>10. Item(t)' = Item(t) BY <1>2 DEF Item, cardVars
<1>11. Calling'
  <2>1. Replied' BY <1>4, <1>5, <1>7, <1>9 DEF Replied
  <2> QED BY <1>3, <1>4, <1>9, <1>10, <2>1 DEF Calling
<1>12. on /\ faults' \in 0 .. MaxFaults /\ late' \subseteq late BY <1>1, <1>2 DEF Capturing, Typed
<1> QED BY <1>2, <1>5, <1>9, <1>11, <1>12, ServerInv

LEMMA ServeLateInv == ASSUME IInv, ServeLate PROVE IInv'
<1>1. Typed /\ Travelling BY DEF IInv
<1>2. PICK rq \in late : late' = late \ {rq} /\ ServeRow(rq) BY DEF ServeLate
<1>3. UNCHANGED <<cardVars, captureVars, wish, call, faults>> BY DEF ServeLate
<1>4. Harmless(rq) /\ rq \in Calls BY <1>1, <1>2 DEF Travelling, Typed
<1>5. PICK t \in Todos : t = rq.item.id /\ Welcome(rq, t) BY <1>4 DEF Harmless, Welcome, Pending
<1>6. /\ \A u \in Todos : Advances(u)
      /\ rows' \in [Todos -> Rows] /\ task' \in [Todos -> {"none", "due", "asr"}]
  BY <1>2, <1>3, <1>4, <1>5, ServeRowAdvances
<1>7. faults' \in 0 .. MaxFaults /\ late' \subseteq late BY <1>1, <1>2, <1>3 DEF Typed
<1> QED BY <1>3, <1>6, <1>7, BesideInv

-----------------------------------------------------------------------------
(* process_todo, and the start of the server. *)

LEMMA StepInv ==
  ASSUME IInv, NEW t \in Todos, rows[t].status \in {"received", "processing"},
         NEW status \in {"processing", "ready", "failed"}, NEW next \in {"none", "asr"},
         next = "asr" => status = "processing",
         rows' = [rows EXCEPT ![t].status = status, ![t].rev = @ + 1], task' = [task EXCEPT ![t] = next],
         UNCHANGED <<cardVars, captureVars, wish, call, late>>, faults' \in 0 .. MaxFaults
  PROVE  IInv'
<1>1. Typed /\ Agreed BY DEF IInv
<1>2. rows[t] \in Rows BY <1>1 DEF Typed
<1>3. /\ rows'[t] = [rows[t] EXCEPT !.status = status, !.rev = @ + 1] /\ task'[t] = next
      /\ \A u \in Todos : u # t => rows'[u] = rows[u] /\ task'[u] = task[u]
  BY <1>1 DEF Typed
<1>4. /\ rows'[t] \in Rows /\ rows'[t].status = status /\ rows'[t].sound = rows[t].sound
      /\ rows'[t].entries = rows[t].entries /\ rows'[t].answers = rows[t].answers
  <2>1. status \in RowStates BY DEF RowStates
  <2>2. rows'[t] = StepOf(rows[t], status) BY <1>3 DEF StepOf
  <2> QED BY <1>2, <2>1, <2>2, RowStepped
<1>5. rows' \in [Todos -> Rows] /\ task' \in [Todos -> {"none", "due", "asr"}]
  <2>1. rows' = [rows EXCEPT ![t] = rows'[t]] BY <1>1, <1>3 DEF Typed
  <2>2. rows' \in [Todos -> Rows] BY <1>1, <1>4, <2>1 DEF Typed
  <2>3. task' \in [Todos -> {"none", "due", "asr"}] BY <1>1 DEF Typed
  <2> QED BY <2>2, <2>3
<1>6. Advances(t) BY <1>3, <1>4 DEF Advances, Tasked
<1>7. \A u \in Todos : u # t => Advances(u) BY <1>1, <1>3 DEF Advances, Tasked, Agreed, Agrees
<1> QED BY <1>5, <1>6, <1>7, BesideInv

LEMMA TasksInv ==
  ASSUME IInv, task' \in [Todos -> {"none", "due", "asr"}],
         \A t \in Todos : \/ task'[t] \in {"none", task[t]}
                          \/ task'[t] = "due" /\ rows[t].status # "none",
         UNCHANGED <<cardVars, captureVars, wish, call, late, rows>>, faults' \in 0 .. MaxFaults
  PROVE  IInv'
<1>1. Typed /\ Agreed BY DEF IInv
<1>2. ASSUME NEW t \in Todos PROVE Advances(t)
  BY <1>1 DEF Agreed, Agrees, Advances, Tasked
<1> QED BY <1>1, <1>2, BesideInv DEF Typed

LEMMA StartTaskInv == ASSUME IInv, StartTask PROVE IInv'
<1>1. Typed BY DEF IInv
<1>2. UNCHANGED <<cardVars, captureVars, wish, call, late, faults>> /\ faults' \in 0 .. MaxFaults
  BY <1>1 DEF StartTask, Typed
<1>3. PICK t \in Todos :
          /\ task[t] = "due"
          /\ task' = [task EXCEPT ![t] = IF rows[t].status \in {"received", "processing"} THEN "asr" ELSE "none"]
          /\ rows' = IF rows[t].status \notin {"received", "processing"} THEN rows
                     ELSE [rows EXCEPT ![t].status = "processing", ![t].rev = @ + 1]
  BY DEF StartTask
<1>4. CASE rows[t].status \in {"received", "processing"}
  <2>1. /\ task' = [task EXCEPT ![t] = "asr"]
        /\ rows' = [rows EXCEPT ![t].status = "processing", ![t].rev = @ + 1]
    BY <1>3, <1>4
  <2> QED BY <1>2, <1>4, <2>1, StepInv
<1>5. CASE rows[t].status \notin {"received", "processing"}
  <2>1. task' = [task EXCEPT ![t] = "none"] /\ rows' = rows BY <1>3, <1>5
  <2>2. task' \in [Todos -> {"none", "due", "asr"}] /\ \A u \in Todos : task'[u] \in {"none", task[u]}
    BY <1>1, <2>1 DEF Typed
  <2> QED BY <1>2, <2>1, <2>2, TasksInv
<1> QED BY <1>4, <1>5

LEMMA UnderstandInv == ASSUME IInv, Understand PROVE IInv'
<1>1. Typed /\ Agreed BY DEF IInv
<1>2. UNCHANGED <<cardVars, captureVars, wish, call, late>> BY DEF Understand
<1>3. PICK t \in Todos, status \in {"ready", "failed"} :
          /\ task[t] = "asr" /\ task' = [task EXCEPT ![t] = "none"]
          /\ rows' = [rows EXCEPT ![t].status = status, ![t].rev = @ + 1]
          /\ faults' = faults \/ Fault("asr")
  BY DEF Understand
<1>4. rows[t].status \in {"received", "processing"} BY <1>1, <1>3 DEF Agreed, Agrees
<1>5. faults' \in 0 .. MaxFaults BY <1>1, <1>3, Numbers DEF Typed, Fault
<1> QED BY <1>2, <1>3, <1>4, <1>5, StepInv

LEMMA RestartInv == ASSUME IInv, Restart PROVE IInv'
<1>1. Typed BY DEF IInv
<1>2. /\ task' = [t \in Todos |-> IF rows[t].status \in Resumable THEN "due" ELSE "none"]
      /\ UNCHANGED <<cardVars, captureVars, wish, call, late, rows>>
  BY DEF Restart
<1>3. faults' \in 0 .. MaxFaults BY <1>1, Numbers DEF Restart, Fault, Typed
<1>4. task' \in [Todos -> {"none", "due", "asr"}] BY <1>2
<1>5. \A t \in Todos : task'[t] = "none" \/ (task'[t] = "due" /\ rows[t].status # "none") BY <1>2 DEF Resumable
<1> QED BY <1>2, <1>3, <1>4, <1>5, TasksInv

-----------------------------------------------------------------------------
(* Power. *)

LEMMA PowerFailsInv == ASSUME IInv, PowerFails PROVE IInv'
<1>1. /\ Typed /\ Capturing /\ Kept /\ Agreed BY DEF IInv
<1>2. /\ on' = FALSE /\ latest' = NoItem /\ capture' = [NoCapture EXCEPT !.id = capture.id]
      /\ tapping' = FALSE /\ ring' = 0 /\ token' = FALSE /\ waiting' = FALSE /\ call' = NoCall
      /\ UNCHANGED <<disk, heard, taken, told, wish, serverVars>>
  BY DEF PowerFails
<1>3. faults' \in 0 .. MaxFaults BY <1>1, Numbers DEF PowerFails, Fault, Typed
<1>4. capture' = [id |-> capture.id, step |-> "none", state |-> "none", error |-> FALSE] BY <1>2 DEF NoCapture
<1>5. capture' \in Captures /\ capture'.id = capture.id /\ capture'.step = "none" /\ capture'.state = "none"
  BY <1>1, <1>4 DEF Typed, Captures
<1>6. /\ wav' \in [Todos -> 0 .. Room]
      /\ \A t \in Todos : (capture.step = "none" \/ t # capture.id) => wav'[t] = wav[t]
  <2>1. CASE capture.step = "none" BY <2>1, <1>1 DEF PowerFails, Typed
  <2>2. CASE capture.step # "none"
    <3>1. PICK n \in 0 .. wav[capture.id] : wav' = [wav EXCEPT ![capture.id] = n] BY <2>2 DEF PowerFails
    <3>2. capture.id \in Todos BY <1>1, <2>2 DEF Capturing, Typed, Captures, Todos
    <3>3. n \in 0 .. Room BY <1>1, <3>1, <3>2, Numbers DEF Typed
    <3> QED BY <1>1, <2>2, <3>1, <3>3 DEF Typed
  <2> QED BY <2>1, <2>2
<1>7. capture.step # "none" => disk[capture.id].state = "capturing" /\ told[capture.id] # "saved"
  BY <1>1 DEF Capturing
<1>8. Typed'
  <2>1. 0 \in 0 .. RingRoom /\ NoItem \in ItemType /\ NoCall \in Calls BY Numbers, Nothings
  <2> QED BY <1>1, <1>2, <1>3, <1>5, <1>6, <2>1 DEF Typed, serverVars
<1>9. Capturing'
  <2>1. ASSUME NEW t \in Todos, t > capture.id
        PROVE  disk[t].state = "none" /\ wav'[t] = 0 /\ taken[t] = 0 /\ told[t] = "none"
    <3>1. t # capture.id BY <2>1 DEF Todos
    <3> QED BY <2>1, <3>1, <1>1, <1>6 DEF Capturing
  <2> QED BY <1>2, <1>5, <2>1, Nothings DEF Capturing
<1>10. Kept'
  <2>1. ASSUME NEW t \in Todos, Safe(t)' PROVE Whole(t)'
    <3>1. told[t] = "saved" BY <2>1, <1>2, <1>5 DEF Safe
    <3>2. Whole(t) BY <3>1, <1>1 DEF Kept, Safe
    <3>3. wav'[t] = wav[t] BY <3>1, <1>6, <1>7
    <3> QED BY <3>2, <3>3, <1>2 DEF Whole, Fresh, serverVars
  <2> QED BY <2>1 DEF Kept
<1>11. Apart BY <1>2, <1>6, <1>7 DEF Apart, Fresh, serverVars
<1>12. Agreed' /\ Travelling' BY <1>11, ApartInv
<1>13. Calling' /\ Newest' BY <1>2, Nothings DEF Calling, Newest
<1> QED BY <1>8, <1>9, <1>10, <1>12, <1>13 DEF IInv

(* Only captures that were cut off change, and nobody else knows of them.  *)
LEMMA StartUpInv == ASSUME IInv, StartUp PROVE IInv'
<1>1. /\ Typed /\ Capturing /\ Kept /\ Agreed /\ Travelling BY DEF IInv
<1>2. ~on /\ on' = TRUE /\ UNCHANGED <<captureVars, wish, call, serverVars>> BY DEF StartUp
<1> DEFINE known == {t \in Todos : disk[t].state # "none"}
<1>3. PICK done \in SUBSET CutOff :
        /\ disk' = [t \in Todos |-> IF t \in done THEN [disk[t] EXCEPT !.state = Recovered(t)] ELSE disk[t]]
        /\ faults' = faults \/ Fault("sd")
        /\ latest' = IF known = {} THEN NoItem
                     ELSE [id |-> Max(known), rev |-> disk[Max(known)].rev,
                           state |-> IF Max(known) \in CutOff \ done THEN "failed"
                                     ELSE disk'[Max(known)].state]
  BY DEF StartUp
<1>4. faults' \in 0 .. MaxFaults BY <1>1, <1>3, Numbers DEF Fault, Typed
<1>5. ASSUME NEW t \in Todos
      PROVE  /\ disk'[t] \in [state : States, rev : Nat] /\ disk'[t].rev = disk[t].rev
             /\ t \notin done => disk'[t] = disk[t]
             /\ t \in done => disk[t].state = "capturing" /\ disk'[t].state \in {"queued", "failed"}
  <2>1. disk[t] \in [state : States, rev : Nat] BY <1>1 DEF Typed
  <2>2. CASE t \in done
    <3>1. disk'[t] = [disk[t] EXCEPT !.state = Recovered(t)] BY <1>3, <2>2
    <3>2. Recovered(t) \in {"queued", "failed"} /\ Recovered(t) \in States BY DEF Recovered, States
    <3>3. disk[t].state = "capturing" BY <2>2 DEF CutOff
    <3> QED BY <2>1, <2>2, <3>1, <3>2, <3>3
  <2>3. CASE t \notin done BY <1>3, <2>1, <2>3
  <2> QED BY <2>2, <2>3
<1>6. disk' \in [Todos -> [state : States, rev : Nat]]
  <2>1. disk' = [t \in Todos |-> disk'[t]] BY <1>3
  <2> QED BY <2>1, <1>5
<1>7. capture.step = "none" /\ call.step = "none" /\ ~waiting BY <1>1, <1>2 DEF Capturing
<1>8. latest' \in ItemType /\ Newest'
  <2>1. CASE known = {} BY <1>3, <2>1, Nothings DEF Newest
  <2>2. CASE known # {}
    <3>1. known \in SUBSET Todos OBVIOUS
    <3>2. PICK m \in Todos : m = Max(known) BY <2>2, <3>1, GreatestIsIn
    <3> HIDE DEF known
    <3> DEFINE state == IF m \in CutOff \ done THEN "failed" ELSE disk'[m].state
    <3>3. latest' = [id |-> m, rev |-> disk[m].rev, state |-> state] BY <1>3, <2>2, <3>2
    <3>4. disk'[m].rev = disk[m].rev /\ disk'[m].state \in States /\ disk'[m].rev \in Nat /\ "failed" \in States
      BY <1>5 DEF States
    <3>5. m \in CutOff \ done => disk'[m].state = "capturing" BY <1>5 DEF CutOff
    <3>6. state \in States BY <3>4
    <3>7. m \in 0 .. Last /\ m # 0 BY DEF Todos
    <3>8. latest' \in ItemType /\ latest'.id = m
      <4> HIDE DEF state
      <4> QED BY <3>3, <3>4, <3>6, <3>7 DEF ItemType
    <3>9. Current(latest)'
      <4>1. CASE m \in CutOff \ done
        <5>1. latest'.state = "failed" BY <3>3, <4>1
        <5> QED BY <3>5, <3>8, <4>1, <5>1 DEF Current
      <4>2. CASE ~(m \in CutOff \ done)
        <5>1. latest' = [id |-> m, rev |-> disk'[m].rev, state |-> disk'[m].state] BY <3>3, <3>4, <4>2
        <5> QED BY <3>8, <5>1 DEF Current, Item
      <4> QED BY <4>1, <4>2
    <3> QED BY <3>7, <3>8, <3>9 DEF Newest
  <2> QED BY <2>1, <2>2
<1>9. Typed' BY <1>1, <1>2, <1>4, <1>6, <1>8 DEF Typed, captureVars, serverVars
<1>10. Capturing'
  <2>1. ASSUME NEW t \in Todos, t > capture.id PROVE disk'[t].state = "none"
    <3>1. disk[t].state = "none" BY <1>1, <2>1 DEF Capturing
    <3> QED BY <3>1, <1>5
  <2> QED BY <1>1, <1>2, <1>7, <2>1 DEF Capturing, captureVars
<1>11. Kept'
  <2>1. ASSUME NEW t \in Todos, Safe(t)' PROVE Whole(t)'
    <3>1. Safe(t) BY <2>1, <1>2 DEF Safe, captureVars
    <3>2. Whole(t) BY <3>1, <1>1 DEF Kept
    <3>3. disk'[t] = disk[t] BY <3>2, <1>5 DEF Whole, Fresh
    <3> QED BY <3>2, <3>3, <1>2 DEF Whole, Fresh, captureVars, serverVars
  <2> QED BY <2>1 DEF Kept
<1>12. ASSUME NEW t \in Todos, t \notin done PROVE Still(t)
  BY <1>2, <1>5, <1>12 DEF Still, captureVars, serverVars
<1>13. Agreed'
  <2>1. ASSUME NEW t \in Todos, t \in done PROVE Agrees(t)'
    <3>1. Agrees(t) /\ disk[t].state = "capturing" /\ disk'[t].state \in {"queued", "failed"}
      BY <1>1, <1>5, <2>1 DEF Agreed
    <3>2. rows'[t] = NoRow /\ wish'[t] = "none" /\ task'[t] \notin {"asr", "due"}
      BY <3>1, <1>2, Nothings DEF Agrees, Fresh, serverVars
    <3>3. Unasked(t)' /\ rows'[t].status = "none" BY <3>2, Nothings DEF Unasked, Untouched
    <3> QED BY <3>1, <3>2, <3>3 DEF Agrees, Fresh, Pending
  <2> QED BY <1>1, <1>12, <2>1, StillAgrees DEF Agreed
<1>14. Travelling'
  <2>1. ASSUME NEW rq \in late PROVE Harmless(rq)'
    <3>1. Harmless(rq) BY <1>1 DEF Travelling
    <3>2. rq.item.id \in Todos /\ rq.item.id \notin done BY <3>1, <1>5 DEF Harmless, Fresh
    <3> QED BY <3>1, <3>2, <1>12, StillHarmless
  <2> QED BY <2>1, <1>2 DEF Travelling, serverVars
<1>15. Calling' BY <1>2, <1>7 DEF Calling
<1> QED BY <1>8, <1>9, <1>10, <1>11, <1>13, <1>14, <1>15 DEF IInv

-----------------------------------------------------------------------------
LEMMA StutterInv == ASSUME IInv, UNCHANGED vars PROVE IInv'
<1>1. Apart BY DEF Apart, vars, cardVars, captureVars, serverVars
<1>2. Typed' /\ Capturing' /\ Kept'
  BY DEF IInv, Typed, Capturing, Kept, Safe, Whole, Fresh, vars, cardVars, captureVars, serverVars
<1> QED BY <1>1, <1>2, ApartInv, ApartCall, ApartNewest DEF IInv, vars, cardVars

LEMMA NextInv == IInv /\ [Next]_vars => IInv'
<1> SUFFICES ASSUME IInv, [Next]_vars PROVE IInv' OBVIOUS
<1>1. CASE Capture
  BY <1>1, BeginInv, HearInv, SendInv, WriteInv, EndInv, CloseInv, EndedInv, TimedOutInv DEF Capture
<1>2. CASE Answer BY <1>2, AnswerInv
<1>3. CASE Network BY <1>3, TurnInv, ReceiveInv DEF Network
<1>4. CASE Server BY <1>4, ServeInv, ServeLateInv, StartTaskInv, UnderstandInv DEF Server
<1>5. CASE Lose BY <1>5, LoseInv
<1>6. CASE Restart BY <1>6, RestartInv
<1>7. CASE PowerFails BY <1>7, PowerFailsInv
<1>8. CASE StartUp BY <1>8, StartUpInv
<1>9. CASE UNCHANGED vars BY <1>9, StutterInv
<1> QED BY <1>1, <1>2, <1>3, <1>4, <1>5, <1>6, <1>7, <1>8, <1>9 DEF Next

LEMMA SpecInv == Spec => []IInv
BY InitInv, NextInv, PTL DEF Spec

-----------------------------------------------------------------------------
(* Every variable keeps its type.                                          *)
THEOREM TypeCorrect == Spec => []TypeOK
<1>1. IInv => TypeOK
  <2> SUFFICES ASSUME IInv PROVE TypeOK OBVIOUS
  <2>1. Typed BY DEF IInv
  <2>2. capture \in [id : 0 .. Last, step : {"none", "active", "closing"}, state : States, error : BOOLEAN]
    BY <2>1 DEF Typed, Captures, States
  <2>3. call.item \in ItemType /\ call.step \in {"none", "sent", "answered", "lost"}
    BY <2>1 DEF Typed, Calls
  <2>4. \A t \in Todos : task[t] \in {"none", "due", "asr"} /\ rows[t].entries \in Nat
    BY <2>1 DEF Typed, Rows
  <2> QED BY <2>1, <2>2, <2>3, <2>4 DEF Typed, TypeOK
<1> QED BY <1>1, SpecInv, PTL

(* "Saved" is kept: whatever is lost, refused, interrupted or late, a      *)
(* to-do whose owner was told so has on the card every piece its ring took *)
(* before the writer closed it, up to the room, and only the server's own  *)
(* failure makes it a failed one.  What the ring refuses or gets too late  *)
(* is no part of it: AllHeardIsKept does not hold.                         *)
THEOREM SavedStaysKept == Spec => []SavedIsKept
<1>1. IInv => SavedIsKept BY DEF IInv, Kept, Safe, Whole, Fresh, SavedIsKept
<1> QED BY <1>1, SpecInv, PTL

(* The three tasks that write todo.json, each from a copy of its own,      *)
(* never undo each other's change: the copy is never stale.                *)
THEOREM CopiesAreCurrent == Spec => []OneOwner
<1>1. IInv => OneOwner BY DEF IInv, Calling, OneOwner
<1> QED BY <1>1, SpecInv, PTL

(* However often the owner's answer is sent, and however late one of them  *)
(* arrives, the agenda gets one entry for a confirmed to-do and none for   *)
(* another, and the card says "created" only when it is there.             *)
THEOREM OneEntryEach == Spec => []OneEntry
<1>1. IInv => OneEntry
  <2> SUFFICES ASSUME IInv, NEW t \in Todos
               PROVE  /\ rows[t].entries <= 1
                      /\ rows[t].entries = 1 => wish[t] = "confirm_pending"
                      /\ disk[t].state = "created" => rows[t].entries = 1
                      /\ disk[t].state = "cancelled" => rows[t].entries = 0
    BY DEF OneEntry
  <2>1. Agrees(t) /\ disk[t].state \in States BY DEF IInv, Agreed, Typed
  <2>2. rows[t].entries = 0 \/ Carried(t)
    BY <2>1, Nothings DEF Agrees, Fresh, Unasked, Untouched, Asking, Pending, States
  <2>3. disk[t].state \in {"created", "cancelled"} => Carried(t) /\ disk[t].state = EndOf(wish[t])
    BY <2>1 DEF Agrees
  <2> QED BY <2>2, <2>3 DEF Carried, EndOf
<1> QED BY <1>1, SpecInv, PTL

=============================================================================
