---------------------------- MODULE UploadProofs ----------------------------
(***************************************************************************)
(* For recordings of any length, chunks and blocks of any size, any number *)
(* of faults and of late requests: the card forgets a recording only when  *)
(* the server has the whole of it, card, server and network together keep  *)
(* the promise of Handover, and what the server has taken stays taken, as  *)
(* long as no late end crosses a late defer.  The types come last.         *)
(***************************************************************************)
EXTENDS Upload, TLAPS, FiniteSetTheorems, SequenceTheorems

-----------------------------------------------------------------------------
(* The inductive invariant.  Fields that nothing is said about have the    *)
(* value they have.                                                        *)

Places == 0 .. card.pcm
Spans == [start : Nat, end : Places]
Cursors == [seq : Nat, acked : Nat]
Epochs == [seq : Nat, start : Nat, gap : Nat]

CardOk == card \in [pcm : Nat, closed : BOOLEAN, here : BOOLEAN, marks : {card.marks}]

(* Only a closed recording is sent in ranges.                              *)
UpOk ==
  /\ up \in [created : {up.created}, mode : {"live", "bulk", "repair"}, next : Nat, acked : Places,
             result : {up.result}, resume : {up.resume}, gap : Nat, deferred : {up.deferred},
             deferAcked : {up.deferAcked}, marksAcked : {up.marksAcked}, final : BOOLEAN,
             stopped : {up.stopped}]
  /\ up.mode # "live" => card.closed

(* What is asked lies in the recording; its end is only spoken of when it  *)
(* is closed.                                                              *)
Sound(rq) ==
  /\ rq.kind \in Kinds
  /\ rq.kind \in {"chunk", "range"} => rq.seq \in Nat /\ rq.start \in Nat /\ rq.end \in Places
  /\ rq.kind \in {"resume", "defer"} => rq.start \in Nat /\ rq.end \in Places
  /\ rq.kind \in {"complete", "end", "plan"} => card.closed /\ rq.end = card.pcm /\ rq.seq \in Nat

(* What is answered: above all, that the recording is taken only when it   *)
(* is filed.                                                               *)
Good(rq, a) ==
  /\ a.class = "missing" => a.body \in Nat
  /\ a.class = "ok" =>
       /\ rq.kind = "create" => a.body.acked \in Nat /\ a.body.seq \in Nat
       /\ rq.kind = "resume" => a.body \in [pending : {a.body.pending}, cursor : Cursors]
       /\ rq.kind = "plan" =>
            /\ a.body.covered \in Places
            /\ ~a.body.complete => a.body.next.start \in Nat /\ a.body.next.end \in Places
       /\ rq.kind = "range" => a.body \in Int
       /\ rq.kind = "complete" => srv.final
       /\ rq.kind = "end" /\ a.body \in {"processing", "failed"} => srv.final

(* What the server has lies in the recording, and so does what it would    *)
(* answer again.                                                           *)
Session(s) ==
  s \in [status : {s.status}, total : Nat, chunks : {s.chunks}, cleaned : {s.cleaned},
         ranges : {s.ranges}, epochs : {s.epochs}, marks : {s.marks}, partial : {s.partial},
         final : BOOLEAN, held : {s.held}, stored : {s.stored}]
SrvOk ==
  /\ Session(srv)
  /\ \E n \in Nat : ChunkSeqs(srv) \subseteq 0 .. n
  /\ \A q \in ChunkSeqs(srv) : srv.chunks[q] \in Spans
  /\ srv.ranges \subseteq Spans
  /\ srv.epochs \in Seq(Epochs)
  /\ \A m \in srv.stored : Good(m.key, m.answer) /\ m.answer.class = "ok"

(* What is taken is filed, what is filed is whole, and only what is filed  *)
(* is forgotten.                                                           *)
Filing ==
  /\ Accepted(srv) => srv.final
  /\ srv.final => card.closed /\ srv.held = 0 .. card.pcm - 1
  /\ ~srv.final => srv.held = {}
  /\ up.final => srv.final
  /\ ~card.here => up.final

(* A handler past its checks relies on what it saw there.                  *)
Working(h) ==
  /\ h \in [rq : {h.rq}, step : {h.step}, waited : BOOLEAN, saw : {h.saw}, gap : {h.gap}, place : {h.place}]
  /\ Sound(h.rq)
  /\ h.waited => h.rq = call.rq /\ reply.class = "none"
  /\ h.rq.kind = "complete" /\ h.step = "finishing" => 0 .. card.pcm - 1 \subseteq Covered(srv.ranges)
  /\ h.rq.kind = "complete" /\ h.step = "renamed" => srv.final
  /\ h.rq.kind = "end" /\ h.step = "ending" =>
       /\ 0 .. h.rq.seq - 1 \subseteq ChunkSeqs(srv)
       /\ Covered({srv.chunks[q] : q \in 0 .. h.rq.seq - 1}) = 0 .. card.pcm - 1
Workers ==
  /\ \A h \in work : Working(h)
  /\ \A g, h \in work : g.waited /\ h.waited => g = h

Calling ==
  /\ call = NoCall \/ Sound(call.rq)
  /\ call = NoCall => reply.class = "none"
  /\ Good(call.rq, reply)

IInv == CardOk /\ UpOk /\ SrvOk /\ Filing /\ Workers /\ Calling

-----------------------------------------------------------------------------
(* Lowest and Highest are what they are called.                            *)

LEMMA LowestIs ==
  ASSUME NEW S \in SUBSET Nat, S # {}
  PROVE  Lowest(S) \in S /\ \A y \in S : Lowest(S) <= y
<1> DEFINE T == {0 .. x - 1 : x \in S}
<1>1. T # {} /\ T \subseteq FiniteSubsetsOf(Nat)
  <2>1. \A x \in S : IsFiniteSet(0 .. x - 1) /\ 0 .. x - 1 \subseteq Nat BY FS_Interval
  <2> QED BY <2>1 DEF FiniteSubsetsOf
<1>2. PICK t \in T : \A u \in T : <<u, t>> \notin StrictSubsetOrdering(Nat)
  BY <1>1, FS_StrictSubsetOrderingWellFounded, WFMin
<1>3. PICK x \in S : t = 0 .. x - 1 OBVIOUS
<1>4. ASSUME NEW y \in S, y < x PROVE FALSE
  <2>1. 0 .. y - 1 \subseteq 0 .. x - 1 /\ 0 .. y - 1 # 0 .. x - 1
    <3>1. y \in 0 .. x - 1 /\ y \notin 0 .. y - 1 BY <1>4
    <3>2. 0 .. y - 1 \subseteq 0 .. x - 1 BY <1>4
    <3> QED BY <3>1, <3>2
  <2>2. 0 .. y - 1 \in T /\ 0 .. y - 1 \in SUBSET Nat /\ 0 .. x - 1 \in SUBSET Nat OBVIOUS
  <2> HIDE DEF T
  <2> QED BY <1>2, <1>3, <2>1, <2>2 DEF StrictSubsetOrdering
<1>5. \A y \in S : x <= y BY <1>4
<1> QED BY <1>5 DEF Lowest

LEMMA HighestIs ==
  ASSUME NEW n \in Nat, NEW S \in SUBSET (0 .. n), S # {}
  PROVE  Highest(S) \in S /\ \A y \in S : Highest(S) >= y
<1> DEFINE T == {n - x : x \in S}
<1>1. \A x \in S : n - x \in Nat OBVIOUS
<1>2. T \in SUBSET Nat /\ T # {} BY <1>1
<1> HIDE DEF T
<1>3. Lowest(T) \in T /\ \A u \in T : Lowest(T) <= u BY <1>2, LowestIs
<1> USE DEF T
<1>4. PICK x \in S : Lowest(T) = n - x BY <1>3
<1>5. \A y \in S : x >= y
  <2> TAKE y \in S
  <2>1. n - x <= n - y BY <1>3, <1>4
  <2> QED BY <2>1
<1> QED BY <1>5 DEF Highest

-----------------------------------------------------------------------------
(* What is true from the start, and what the invariant says of its parts.  *)

LEMMA InitInv == Init => IInv
<1> SUFFICES ASSUME Init PROVE IInv OBVIOUS
<1>1. /\ card = [pcm |-> 0, closed |-> FALSE, here |-> TRUE, marks |-> {}]
      /\ up = Fresh /\ call = NoCall /\ reply = NoReply /\ work = {} /\ srv = NoSession
  BY DEF Init
<1>2. CardOk BY <1>1 DEF CardOk
<1>3. UpOk BY <1>1 DEF UpOk, Fresh, Places
<1>4. SrvOk
  <2>1. ChunkSeqs(srv) = {} /\ srv.ranges = {} /\ srv.stored = {} /\ srv.epochs = <<>>
    BY <1>1 DEF NoSession, ChunkSeqs
  <2>2. Session(srv) BY <1>1 DEF NoSession, Session
  <2>3. srv.epochs \in Seq(Epochs) BY <2>1
  <2>4. ChunkSeqs(srv) \subseteq 0 .. 0 BY <2>1
  <2> QED BY <2>1, <2>2, <2>3, <2>4 DEF SrvOk
<1>5. Filing BY <1>1 DEF Filing, NoSession, Fresh, Accepted
<1>6. Workers /\ Calling BY <1>1 DEF Workers, Calling, NoReply, Good
<1> QED BY <1>2, <1>3, <1>4, <1>5, <1>6 DEF IInv

(* Where the chunks that follow each other from a place on end.            *)
LEMMA RunType ==
  ASSUME SrvOk, CardOk, NEW seq \in Nat, NEW start \in Nat
  PROVE  RunFrom(srv, seq, start) \in Cursors
<1> DEFINE Begins(q) == IF q = seq THEN start ELSE srv.chunks[q - 1].end
           Runs(n) == \A q \in seq .. n - 1 :
                         q \in ChunkSeqs(srv) /\ srv.chunks[q].start = Begins(q)
           S == {n \in seq .. seq + Cardinality(ChunkSeqs(srv)) : Runs(n)}
           next == Highest(S)
<1>1. RunFrom(srv, seq, start) = [seq |-> next, acked |-> Begins(next)]
  BY DEF RunFrom
<1>2. Cardinality(ChunkSeqs(srv)) \in Nat
  <2>1. PICK n \in Nat : ChunkSeqs(srv) \subseteq 0 .. n BY DEF SrvOk
  <2>2. IsFiniteSet(0 .. n) BY FS_Interval
  <2>3. IsFiniteSet(ChunkSeqs(srv)) BY <2>1, <2>2, FS_Subset
  <2> QED BY <2>3, FS_CardinalityType
<1>3. seq \in S /\ S \subseteq seq .. seq + Cardinality(ChunkSeqs(srv))
  BY <1>2
<1>4. next \in S
  <2>1. S \in SUBSET (0 .. seq + Cardinality(ChunkSeqs(srv))) /\ S # {} BY <1>2, <1>3
  <2>2. seq + Cardinality(ChunkSeqs(srv)) \in Nat BY <1>2
  <2> HIDE DEF S
  <2> QED BY <2>1, <2>2, HighestIs
<1>5. next \in Nat /\ next >= seq /\ Runs(next) BY <1>2, <1>4
<1>6. Begins(next) \in Nat
  <2>1. CASE next = seq BY <2>1
  <2>2. CASE next # seq
    <3>1. next - 1 \in seq .. next - 1 BY <1>5, <2>2
    <3>2. next - 1 \in ChunkSeqs(srv) BY <1>5, <3>1
    <3>3. srv.chunks[next - 1] \in Spans BY <3>2 DEF SrvOk
    <3> QED BY <2>2, <3>3 DEF Spans, Places, CardOk
  <2> QED BY <2>1, <2>2
<1> HIDE DEF next, Begins, S
<1> QED BY <1>1, <1>5, <1>6 DEF Cursors

LEMMA CursorType == ASSUME SrvOk, CardOk PROVE LiveCursor(srv) \in Cursors
<1>1. NewestEpoch(srv).seq \in Nat /\ NewestEpoch(srv).start \in Nat
  <2>1. CASE srv.epochs = <<>> BY <2>1 DEF NewestEpoch
  <2>2. CASE srv.epochs # <<>>
    <3>1. Len(srv.epochs) \in 1 .. Len(srv.epochs) BY <2>2 DEF SrvOk
    <3>2. srv.epochs[Len(srv.epochs)] \in Epochs BY <3>1 DEF SrvOk
    <3> QED BY <2>2, <3>2 DEF NewestEpoch, Epochs
  <2> QED BY <2>1, <2>2
<1> QED BY <1>1, RunType DEF LiveCursor

(* What is missing lies in the recording.                                  *)
LEMMA MissingType ==
  ASSUME NEW s, NEW total \in Nat
  PROVE  /\ Missing(s, total) \subseteq 0 .. total - 1
         /\ IsFiniteSet(Missing(s, total)) /\ Cardinality(Missing(s, total)) \in 0 .. total
<1>1. Missing(s, total) \subseteq 0 .. total - 1 BY DEF Missing
<1>2. IsFiniteSet(0 .. total - 1) /\ Cardinality(0 .. total - 1) = total BY FS_Interval
<1>3. /\ IsFiniteSet(Missing(s, total))
      /\ Cardinality(Missing(s, total)) <= total
  BY <1>1, <1>2, FS_Subset
<1>4. Cardinality(Missing(s, total)) \in Nat BY <1>3, FS_CardinalityType
<1> QED BY <1>1, <1>3, <1>4

LEMMA FirstMissingType ==
  ASSUME NEW s, NEW total \in Nat, Missing(s, total) # {}
  PROVE  FirstMissing(s, total).start \in Nat /\ FirstMissing(s, total).end \in 0 .. total
<1> DEFINE M == Missing(s, total)
           from == Lowest(M)
           E == {e \in from + 1 .. from + BLOCK : from .. e - 1 \subseteq M}
<1>1. M \subseteq 0 .. total - 1 BY MissingType
<1> HIDE DEF M
<1>2. from \in M
  <2>1. M \in SUBSET Nat /\ M # {} BY <1>1 DEF M
  <2> QED BY <2>1, LowestIs
<1>3. from \in 0 .. total - 1 BY <1>1, <1>2
<1>4. BLOCK \in Nat /\ BLOCK > 0 BY BlockAssumption
<1> HIDE DEF from
<1>5. from + 1 \in E
  <2>1. from .. (from + 1) - 1 = {from} BY <1>3
  <2>2. from + 1 \in from + 1 .. from + BLOCK BY <1>3, <1>4
  <2> QED BY <1>2, <2>1, <2>2
<1>6. E \subseteq 0 .. total
  <2> SUFFICES ASSUME NEW e \in E PROVE e \in 0 .. total OBVIOUS
  <2>1. e \in from + 1 .. from + BLOCK /\ from .. e - 1 \subseteq M OBVIOUS
  <2>2. e \in Nat /\ e > from BY <1>3, <1>4, <2>1
  <2>3. e - 1 \in from .. e - 1 BY <1>3, <2>2
  <2>4. e - 1 \in 0 .. total - 1 BY <1>1, <2>1, <2>3
  <2> QED BY <2>2, <2>4
<1>7. Highest(E) \in 0 .. total
  <2>1. E \in SUBSET (0 .. total) /\ E # {} BY <1>5, <1>6
  <2> HIDE DEF E
  <2> QED BY <1>6, <2>1, HighestIs
<1>8. FirstMissing(s, total) = Piece(from, Highest(E)) BY DEF FirstMissing, from, M
<1> HIDE DEF E
<1> QED BY <1>3, <1>7, <1>8 DEF Piece

-----------------------------------------------------------------------------
(* A handler goes on or ends.  What the server has only grows: Grown.      *)

Grown ==
  /\ UNCHANGED <<card, up, call>>
  /\ SrvOk' /\ (Accepted(srv') => srv'.final)
  /\ srv'.final => card.closed /\ srv'.held = 0 .. card.pcm - 1
  /\ ~srv'.final => srv'.held = {}
  /\ srv.final => srv'.final
  /\ srv.ranges \subseteq srv'.ranges
  /\ \A q \in ChunkSeqs(srv) : q \in ChunkSeqs(srv') /\ srv'.chunks[q] = srv.chunks[q]

(* What the server said before stays true.                                 *)
LEMMA StillGood ==
  ASSUME IInv, Grown, NEW rq, NEW a, Good(rq, a)
  PROVE  Good(rq, a)'
BY DEF Grown, Good, Places

(* What a handler saw it still sees.                                       *)
LEMMA StillWorking ==
  ASSUME IInv, Grown, NEW h \in work
  PROVE  /\ h \in [rq : {h.rq}, step : {h.step}, waited : BOOLEAN, saw : {h.saw}, gap : {h.gap}, place : {h.place}]
         /\ Sound(h.rq)'
         /\ h.rq.kind = "complete" /\ h.step = "finishing" => 0 .. card.pcm - 1 \subseteq Covered(srv'.ranges)
         /\ h.rq.kind = "complete" /\ h.step = "renamed" => srv'.final
         /\ h.rq.kind = "end" /\ h.step = "ending" =>
              /\ 0 .. h.rq.seq - 1 \subseteq ChunkSeqs(srv')
              /\ Covered({srv'.chunks[q] : q \in 0 .. h.rq.seq - 1}) = 0 .. card.pcm - 1
<1>1. Working(h) BY DEF IInv, Workers
<1>2. Sound(h.rq)' BY <1>1 DEF Working, Sound, Grown, Places
<1>3. Covered(srv.ranges) \subseteq Covered(srv'.ranges) BY DEF Grown, Covered
<1>4. ASSUME 0 .. h.rq.seq - 1 \subseteq ChunkSeqs(srv)
      PROVE  /\ 0 .. h.rq.seq - 1 \subseteq ChunkSeqs(srv')
             /\ {srv'.chunks[q] : q \in 0 .. h.rq.seq - 1} = {srv.chunks[q] : q \in 0 .. h.rq.seq - 1}
  BY <1>4 DEF Grown
<1> QED BY <1>1, <1>2, <1>3, <1>4 DEF Working, Grown

(* A step of a handler keeps the invariant, and what is filed.             *)
Served == IInv' /\ card' = card /\ (srv.final => srv'.final)

LEMMA EndsInv ==
  ASSUME IInv, Grown, NEW h \in work, work' = work \ {h},
         NEW a, reply' = IF h.waited THEN a ELSE reply, Good(h.rq, a)'
  PROVE  Served
<1>1. CardOk' /\ UpOk' BY DEF IInv, Grown, CardOk, UpOk, Places
<1>2. SrvOk' /\ Filing' BY DEF IInv, Grown, Filing
<1>3. Workers'
  <2>1. ASSUME NEW g \in work' PROVE Working(g)'
    <3>1. g \in work /\ g # h OBVIOUS
    <3>2. g.waited => ~h.waited BY <3>1 DEF IInv, Workers
    <3>3. Working(g) BY <3>1 DEF IInv, Workers
    <3>4. g.waited => g.rq = call'.rq /\ reply'.class = "none" BY <3>2, <3>3 DEF Working, Grown
    <3> QED BY <3>1, <3>4, StillWorking DEF Working, Grown
  <2> QED BY <2>1 DEF IInv, Workers
<1>4. Calling'
  <2>1. (call = NoCall \/ Sound(call.rq))' BY DEF IInv, Calling, Grown, Sound, Places
  <2>2. CASE h.waited
    <3>1. h.rq = call.rq /\ Sound(h.rq) BY <2>2 DEF IInv, Workers, Working
    <3>2. call # NoCall BY <3>1 DEF Sound, NoCall, Request, Kinds
    <3>3. Good(call.rq, reply)'
      <4>1. call'.rq = h.rq /\ reply' = a BY <2>2, <3>1 DEF Grown
      <4> QED BY <4>1 DEF Good
    <3>4. call' # NoCall BY <3>2 DEF Grown
    <3> QED BY <2>1, <3>3, <3>4 DEF Calling
  <2>3. CASE ~h.waited
    <3>1. Good(call.rq, reply) /\ (call = NoCall => reply.class = "none") BY DEF IInv, Calling
    <3>2. call' = call /\ reply' = reply BY <2>3 DEF Grown
    <3>3. Good(call.rq, reply)' BY <3>1, <3>2 DEF Good, Grown, Places
    <3> QED BY <2>1, <3>1, <3>2, <3>3 DEF Calling
  <2> QED BY <2>2, <2>3
<1> QED BY <1>1, <1>2, <1>3, <1>4 DEF IInv, Served, Grown

LEMMA GoesInv ==
  ASSUME IInv, Grown, UNCHANGED reply, NEW h \in work, NEW g, work' = (work \ {h}) \union {g},
         g \in [rq : {h.rq}, step : {g.step}, waited : {h.waited}, saw : {g.saw}, gap : {g.gap}, place : {g.place}],
         h.rq.kind = "complete" /\ g.step = "finishing" => 0 .. card.pcm - 1 \subseteq Covered(srv'.ranges),
         h.rq.kind = "complete" /\ g.step = "renamed" => srv'.final,
         h.rq.kind = "end" /\ g.step = "ending" =>
            /\ 0 .. h.rq.seq - 1 \subseteq ChunkSeqs(srv')
            /\ Covered({srv'.chunks[q] : q \in 0 .. h.rq.seq - 1}) = 0 .. card.pcm - 1
  PROVE  Served
<1>1. CardOk' /\ UpOk' BY DEF IInv, Grown, CardOk, UpOk, Places
<1>2. SrvOk' /\ Filing' BY DEF IInv, Grown, Filing
<1>3. g.rq = h.rq /\ g.waited = h.waited OBVIOUS
<1>4. Workers'
  <2>1. Working(g)'
    <3>1. Working(h) BY DEF IInv, Workers
    <3>2. h.waited \in BOOLEAN BY <3>1 DEF Working
    <3>3. g \in [rq : {g.rq}, step : {g.step}, waited : BOOLEAN, saw : {g.saw}, gap : {g.gap}, place : {g.place}]
      BY <1>3, <3>2
    <3>4. Sound(g.rq)' BY <1>3, StillWorking
    <3>5. g.waited => g.rq = call'.rq /\ reply'.class = "none" BY <1>3, <3>1 DEF Working, Grown
    <3> QED BY <1>3, <3>3, <3>4, <3>5 DEF Working, Grown
  <2>2. ASSUME NEW f \in work, f # h PROVE Working(f)'
    <3>1. Working(f) BY DEF IInv, Workers
    <3> QED BY <3>1, StillWorking DEF Working, Grown
  <2>3. \A f \in work' : Working(f)' BY <2>1, <2>2
  <2>4. \A e, f \in work' : e.waited /\ f.waited => e = f BY <1>3 DEF IInv, Workers
  <2> QED BY <2>3, <2>4 DEF Workers
<1>5. Calling'
  <2>1. (call = NoCall \/ Sound(call.rq))' BY DEF IInv, Calling, Grown, Sound, Places
  <2>2. Good(call.rq, reply)' BY DEF IInv, Calling, Good, Grown, Places
  <2> QED BY <2>1, <2>2 DEF IInv, Calling, Grown
<1> QED BY <1>1, <1>2, <1>4, <1>5 DEF IInv, Served, Grown

LEMMA SameGrown == ASSUME IInv, UNCHANGED <<card, up, call, srv>> PROVE Grown
BY DEF IInv, Grown, SrvOk, Session, Filing, Good, Places, Spans, ChunkSeqs, Accepted

(* The server changes; what it would answer again it has answered already. *)
LEMMA SessionGrown ==
  ASSUME IInv, UNCHANGED <<card, up, call>>, Session(srv'),
         \A m \in srv'.stored : m \in srv.stored \/ (Good(m.key, m.answer)' /\ m.answer.class = "ok"),
         srv'.epochs \in Seq(Epochs), srv.ranges \subseteq srv'.ranges, srv'.ranges \subseteq Spans,
         \/ srv'.chunks = srv.chunks
         \/ \E q \in Nat \ ChunkSeqs(srv), p \in Spans :
               srv'.chunks = [r \in ChunkSeqs(srv) \union {q} |-> IF r = q THEN p ELSE srv.chunks[r]],
         Accepted(srv') => srv'.final, srv.final => srv'.final,
         srv'.final => card.closed /\ srv'.held = 0 .. card.pcm - 1, ~srv'.final => srv'.held = {}
  PROVE  Grown
<1>1. Spans' = Spans BY DEF Spans, Places
<1>2. \A m \in srv'.stored : Good(m.key, m.answer)' /\ m.answer.class = "ok"
  BY DEF IInv, SrvOk, Good, Places
<1>3. /\ \E n \in Nat : ChunkSeqs(srv') \subseteq 0 .. n
      /\ \A q \in ChunkSeqs(srv') : srv'.chunks[q] \in Spans
      /\ \A q \in ChunkSeqs(srv) : q \in ChunkSeqs(srv') /\ srv'.chunks[q] = srv.chunks[q]
  <2>1. PICK n \in Nat : ChunkSeqs(srv) \subseteq 0 .. n BY DEF IInv, SrvOk
  <2>2. CASE srv'.chunks = srv.chunks BY <2>1, <2>2 DEF IInv, SrvOk, ChunkSeqs
  <2>3. CASE srv'.chunks # srv.chunks
    <3>1. PICK q \in Nat \ ChunkSeqs(srv), p \in Spans :
             srv'.chunks = [r \in ChunkSeqs(srv) \union {q} |-> IF r = q THEN p ELSE srv.chunks[r]]
      BY <2>3
    <3>2. ChunkSeqs(srv') = ChunkSeqs(srv) \union {q} BY <3>1 DEF ChunkSeqs
    <3>3. ChunkSeqs(srv') \subseteq 0 .. n + q BY <2>1, <3>1, <3>2
    <3>4. \A r \in ChunkSeqs(srv') : srv'.chunks[r] = IF r = q THEN p ELSE srv.chunks[r] BY <3>1, <3>2
    <3>5. n + q \in Nat BY <3>1
    <3> QED BY <3>1, <3>2, <3>3, <3>4, <3>5 DEF IInv, SrvOk
  <2> QED BY <2>2, <2>3
<1>4. SrvOk' BY <1>1, <1>2, <1>3 DEF SrvOk, Epochs
<1> QED BY <1>3, <1>4 DEF Grown

(* Handlers that end, or go on, with nothing changed.                      *)
LEMMA RepliesInv ==
  ASSUME IInv, NEW h \in work, NEW a, Replies(h, a), Good(h.rq, a)
  PROVE  Served
<1>1. Grown BY SameGrown DEF Replies, Ends
<1>2. Good(h.rq, a)' BY <1>1, StillGood
<1> QED BY <1>1, <1>2, EndsInv DEF Replies, Ends

LEMMA RefusesGood == \A rq : Good(rq, Refused) /\ Good(rq, Failing)
BY DEF Good, Refused, Failing

LEMMA WaitsInv ==
  ASSUME IInv, Grown, NEW h \in work, NEW step, GoesOn(h, step),
         h.rq.kind = "complete" /\ step = "finishing" => 0 .. card.pcm - 1 \subseteq Covered(srv'.ranges),
         h.rq.kind = "complete" /\ step = "renamed" => srv'.final,
         h.rq.kind = "end" /\ step = "ending" =>
            /\ 0 .. h.rq.seq - 1 \subseteq ChunkSeqs(srv')
            /\ Covered({srv'.chunks[q] : q \in 0 .. h.rq.seq - 1}) = 0 .. card.pcm - 1
  PROVE  Served
<1>1. PICK saw, place, g :
         /\ g = [h EXCEPT !.step = step, !.saw = saw, !.place = place]
         /\ work' = (work \ {h}) \union {g} /\ UNCHANGED reply
  BY DEF GoesOn
<1>2. h \in [rq : {h.rq}, step : {h.step}, waited : BOOLEAN, saw : {h.saw}, gap : {h.gap}, place : {h.place}]
  BY DEF IInv, Workers, Working
<1>3. g \in [rq : {h.rq}, step : {g.step}, waited : {h.waited}, saw : {g.saw}, gap : {g.gap}, place : {g.place}]
      /\ g.step = step
  BY <1>1, <1>2
<1> QED BY <1>1, <1>3, GoesInv

LEMMA JustWaitsInv ==
  ASSUME IInv, NEW h \in work, NEW step, GoesOn(h, step), UNCHANGED srv, step \notin {"finishing", "renamed", "ending"}
  PROVE  Served
<1>1. Grown BY SameGrown DEF GoesOn
<1> QED BY <1>1, WaitsInv

(* An answer that was kept.                                                *)
LEMMA StoredGood ==
  ASSUME IInv, NEW rq, Answered(srv, rq) # {}
  PROVE  StoredAnswer(srv, rq).class = "ok" /\ Good(rq, StoredAnswer(srv, rq))
<1>1. PICK m \in Answered(srv, rq) : StoredAnswer(srv, rq) = m.answer BY DEF StoredAnswer
<1>2. m \in srv.stored /\ m.key = rq BY <1>1 DEF Answered
<1> QED BY <1>1, <1>2 DEF IInv, SrvOk

(* The answer is kept with what the session became.                        *)
LEMMA RemembersInv ==
  ASSUME IInv, UNCHANGED <<card, up, call>>, NEW h \in work, NEW s, Session(s),
         s.chunks = srv.chunks, s.ranges = srv.ranges, s.epochs = srv.epochs, s.stored = srv.stored,
         Accepted(s) => s.final, srv.final => s.final,
         s.final => card.closed /\ s.held = 0 .. card.pcm - 1, ~s.final => s.held = {},
         NEW a, a.class = "ok", srv' = Remember(s, h.rq, a), srv'.final = s.final => Good(h.rq, a)',
         work' = work \ {h}, reply' = IF h.waited THEN OnceAnswered(s, h.rq, a) ELSE reply
  PROVE  Served
<1>1. PICK n : n = [key |-> h.rq, answer |-> a] OBVIOUS
<1>2. srv' = s \/ srv' = [s EXCEPT !.stored = s.stored \union {n}] BY <1>1 DEF Remember
<1>3. /\ Session(srv') /\ srv'.final = s.final /\ srv'.held = s.held /\ srv'.chunks = s.chunks
      /\ srv'.ranges = s.ranges /\ srv'.epochs = s.epochs /\ srv'.status = s.status
      /\ srv'.stored \subseteq s.stored \union {n}
  BY <1>2 DEF Session
<1>4. n.key = h.rq /\ n.answer = a BY <1>1
<1>5. Good(h.rq, a)' BY <1>3
<1>6. \A m \in srv'.stored : m \in srv.stored \/ (Good(m.key, m.answer)' /\ m.answer.class = "ok")
  BY <1>3, <1>4, <1>5
<1>7. Grown
  <2>1. srv'.ranges \subseteq Spans /\ srv'.epochs \in Seq(Epochs) BY <1>3 DEF IInv, SrvOk
  <2>2. Accepted(srv') => srv'.final BY <1>3 DEF Accepted
  <2> QED BY <1>3, <1>6, <2>1, <2>2, SessionGrown
<1>8. PICK b \in {a, Refused} : OnceAnswered(s, h.rq, a) = b BY DEF OnceAnswered
<1>9. Good(h.rq, b)' BY <1>5, <1>8 DEF Good, Refused
<1> QED BY <1>7, <1>8, <1>9, EndsInv

-----------------------------------------------------------------------------
(* The handlers of the live lane.                                          *)

LEMMA WorkerFacts ==
  ASSUME IInv, NEW h \in work
  PROVE  /\ h \in [rq : {h.rq}, step : {h.step}, waited : BOOLEAN, saw : {h.saw}, gap : {h.gap}, place : {h.place}]
         /\ Sound(h.rq) /\ Working(h) /\ CardOk /\ UpOk /\ SrvOk /\ Filing /\ card.pcm \in Nat
         /\ Session(srv) /\ srv.ranges \subseteq Spans /\ srv.epochs \in Seq(Epochs)
BY DEF IInv, Workers, Working, CardOk, SrvOk

LEMMA CreateInv == ASSUME IInv, NEW h \in work, Create(h) PROVE Served
<1>1. PICK a : a = Ok(LiveCursor(srv)) OBVIOUS
<1>2. Ends(h, a) /\ h.rq.kind = "create"
      /\ (srv' = srv \/ srv' = [srv EXCEPT !.status = "uploading"])
  BY <1>1 DEF Create, At
<1>3. Good(h.rq, a)'
  <2>1. LiveCursor(srv) \in Cursors BY WorkerFacts, CursorType
  <2> QED BY <1>1, <1>2, <2>1 DEF Good, Ok, Cursors
<1>4. Grown
  <2>1. CASE srv' = srv BY <1>2, <2>1, SameGrown DEF Ends
  <2>2. CASE srv' = [srv EXCEPT !.status = "uploading"]
    <3>1. /\ Session(srv') /\ srv'.status = "uploading" /\ srv'.chunks = srv.chunks /\ srv'.ranges = srv.ranges
          /\ srv'.epochs = srv.epochs /\ srv'.stored = srv.stored /\ srv'.final = srv.final
          /\ srv'.held = srv.held
      BY <2>2, WorkerFacts DEF Session
    <3>2. ~Accepted(srv') BY <3>1 DEF Accepted
    <3> QED BY <1>2, <3>1, <3>2, SessionGrown, WorkerFacts DEF Ends, Filing
  <2> QED BY <1>2, <2>1, <2>2
<1> QED BY <1>2, <1>3, <1>4, EndsInv DEF Ends

(* What is told of a chunk says nothing of the recording.                  *)
LEMMA AboutParts ==
  ASSUME NEW rq, rq.kind \in {"chunk", "mark", "poll", "defer"}, NEW a, a.class # "missing"
  PROVE  Good(rq, a) /\ Good(rq, a)'
BY DEF Good

LEMMA AnswerChunkClass ==
  \A h, s : AnswerChunk(h, s).class \in {"ok", "conflict"}
BY DEF AnswerChunk, Ok, Refused

LEMMA CheckChunkInv == ASSUME IInv, NEW h \in work, CheckChunk(h) PROVE Served
<1>1. h.rq.kind = "chunk" BY DEF CheckChunk, At
<1>2. CASE GoesOn(h, "store") /\ UNCHANGED srv BY <1>2, JustWaitsInv
<1>3. CASE Replies(h, AnswerChunk(h, srv)) \/ Replies(h, Refused)
  <2>1. PICK a : Replies(h, a) /\ a.class \in {"ok", "conflict"}
    BY <1>3, AnswerChunkClass DEF Refused
  <2>2. Good(h.rq, a) BY <1>1, <2>1, AboutParts
  <2> QED BY <2>1, <2>2, RepliesInv
<1> QED BY <1>2, <1>3 DEF CheckChunk

LEMMA StoreChunkInv == ASSUME IInv, NEW h \in work, StoreChunk(h) PROVE Served
<1>1. h.rq.kind = "chunk" BY DEF StoreChunk, At
<1>2. CASE h.rq.seq \in ChunkSeqs(srv)
  <2>1. PICK a : Replies(h, a) /\ a.class \in {"ok", "conflict"}
    BY <1>2, AnswerChunkClass DEF StoreChunk
  <2>2. Good(h.rq, a) BY <1>1, <2>1, AboutParts
  <2> QED BY <2>1, <2>2, RepliesInv
<1>3. CASE h.rq.seq \notin ChunkSeqs(srv)
  <2>1. srv' = AddChunk(srv, h.rq.seq, PieceOf(h.rq)) /\ Ends(h, AnswerChunk(h, srv'))
    BY <1>3 DEF StoreChunk
  <2>2. PICK p \in Spans : p = PieceOf(h.rq)
    BY <1>1, WorkerFacts DEF Sound, PieceOf, Piece, Spans
  <2>3. PICK q \in Nat \ ChunkSeqs(srv) : q = h.rq.seq BY <1>1, <1>3, WorkerFacts DEF Sound
  <2>4. PICK c : c = [r \in ChunkSeqs(srv) \union {q} |-> IF r = q THEN p ELSE srv.chunks[r]] OBVIOUS
  <2>5. srv' = [srv EXCEPT !.chunks = c] BY <2>1, <2>2, <2>3, <2>4 DEF AddChunk
  <2>6. /\ Session(srv') /\ srv'.status = srv.status /\ srv'.chunks = c /\ srv'.ranges = srv.ranges
        /\ srv'.epochs = srv.epochs /\ srv'.stored = srv.stored /\ srv'.final = srv.final
        /\ srv'.held = srv.held
    BY <2>5, WorkerFacts DEF Session
  <2>7. Grown BY <2>1, <2>4, <2>6, SessionGrown, WorkerFacts DEF Ends, Filing, Accepted
  <2>8. PICK a : a = AnswerChunk(h, srv') OBVIOUS
  <2>9. Good(h.rq, a)' BY <1>1, <2>8, AnswerChunkClass, AboutParts
  <2> QED BY <2>1, <2>7, <2>8, <2>9, EndsInv DEF Ends
<1> QED BY <1>2, <1>3

LEMMA CheckResumeInv == ASSUME IInv, NEW h \in work, CheckResume(h) PROVE Served
<1>1. h.rq.kind = "resume" BY DEF CheckResume, At
<1>2. CASE GoesOn(h, "lock") /\ UNCHANGED srv BY <1>2, JustWaitsInv
<1>3. CASE Replies(h, Refused) BY <1>3, RefusesGood, RepliesInv
<1>4. CASE /\ Answered(srv, h.rq) # {}
           /\ Replies(h, Ok([StoredAnswer(srv, h.rq).body EXCEPT !.cursor = LiveCursor(srv)]))
  <2>1. PICK b : b = StoredAnswer(srv, h.rq).body OBVIOUS
  <2>2. b \in [pending : {b.pending}, cursor : Cursors] BY <1>1, <1>4, <2>1, StoredGood DEF Good
  <2>3. PICK c \in Cursors : c = LiveCursor(srv) BY WorkerFacts, CursorType
  <2>4. PICK d : d = [b EXCEPT !.cursor = c] OBVIOUS
  <2>5. d \in [pending : {d.pending}, cursor : Cursors] BY <2>2, <2>4
  <2>6. PICK a : a = Ok(d) OBVIOUS
  <2>7. a.class = "ok" /\ a.body = d BY <2>6 DEF Ok
  <2>8. Good(h.rq, a) BY <1>1, <2>5, <2>7 DEF Good
  <2>9. Replies(h, a) BY <1>4, <2>1, <2>3, <2>4, <2>6
  <2> QED BY <2>8, <2>9, RepliesInv
<1> QED BY <1>2, <1>3, <1>4 DEF CheckResume

LEMMA OpenEpochInv == ASSUME IInv, NEW h \in work, OpenEpoch(h) PROVE Served
<1>1. h.rq.kind = "resume" /\ h.rq.start \in Nat /\ h.rq.end \in Nat /\ h.step = "lock"
  BY WorkerFacts DEF OpenEpoch, At, Sound, Places
<1>2. PICK gap : gap = ResumeGap(srv, h.rq.start) OBVIOUS
<1>3. CASE gap > h.rq.end
  BY <1>2, <1>3, RefusesGood, RepliesInv DEF OpenEpoch
<1>4. CASE ~(gap > h.rq.end)
  <2>1. /\ srv' = IF KnownEpoch(srv, gap, h.rq.end) THEN srv ELSE AddEpoch(srv, gap, h.rq.end)
        /\ work' = (work \ {h}) \union {[h EXCEPT !.step = "resumed", !.gap = gap]}
        /\ UNCHANGED <<card, up, lane, call, reply, faults>>
    BY <1>2, <1>4 DEF OpenEpoch
  <2>2. gap \in Nat
    <3>1. LiveCursor(srv).acked \in Nat BY WorkerFacts, CursorType DEF Cursors
    <3>2. PICK acked \in Nat : acked = LiveCursor(srv).acked BY <3>1
    <3>3. PICK top \in Nat : top >= acked /\ top >= h.rq.start
      <4>1. acked >= h.rq.start \/ h.rq.start >= acked BY <1>1
      <4> QED BY <1>1, <4>1
    <3>4. {h.rq.start, acked} \in SUBSET (0 .. top) /\ {h.rq.start, acked} # {} BY <1>1, <3>3
    <3>5. Highest({h.rq.start, acked}) \in {h.rq.start, acked} BY <3>4, HighestIs
    <3> QED BY <1>1, <1>2, <3>2, <3>5 DEF ResumeGap
  <2>3. Grown
    <3>1. CASE srv' = srv BY <2>1, <3>1, SameGrown
    <3>2. CASE srv' = AddEpoch(srv, gap, h.rq.end)
      <4>1. PICK seq : seq = IF ChunkSeqs(srv) = {} THEN 0 ELSE 1 + Highest(ChunkSeqs(srv)) OBVIOUS
      <4>2. seq \in Nat
        <5>1. PICK n \in Nat : ChunkSeqs(srv) \subseteq 0 .. n BY WorkerFacts DEF SrvOk
        <5>2. ChunkSeqs(srv) # {} => Highest(ChunkSeqs(srv)) \in 0 .. n BY <5>1, HighestIs
        <5> QED BY <4>1, <5>2
      <4>3. PICK e \in Epochs : e = [seq |-> seq, start |-> h.rq.end, gap |-> gap]
        BY <1>1, <2>2, <4>2 DEF Epochs
      <4>4. srv' = [srv EXCEPT !.epochs = Append(srv.epochs, e)] BY <3>2, <4>1, <4>3 DEF AddEpoch
      <4>5. /\ Session(srv') /\ srv'.status = srv.status /\ srv'.chunks = srv.chunks
            /\ srv'.ranges = srv.ranges /\ srv'.epochs = Append(srv.epochs, e)
            /\ srv'.stored = srv.stored /\ srv'.final = srv.final /\ srv'.held = srv.held
        BY <4>4, WorkerFacts DEF Session
      <4>6. srv'.epochs \in Seq(Epochs) BY <4>5, WorkerFacts, AppendProperties
      <4> QED BY <2>1, <4>5, <4>6, SessionGrown, WorkerFacts DEF Filing, Accepted
    <3> QED BY <2>1, <3>1, <3>2
  <2>4. PICK g : g = [h EXCEPT !.step = "resumed", !.gap = gap] OBVIOUS
  <2>5. g \in [rq : {h.rq}, step : {g.step}, waited : {h.waited}, saw : {g.saw}, gap : {g.gap}, place : {g.place}]
        /\ g.step = "resumed"
    BY <2>4, WorkerFacts
  <2> QED BY <1>1, <2>1, <2>3, <2>4, <2>5, GoesInv
<1> QED BY <1>3, <1>4

LEMMA AnswerResumeInv == ASSUME IInv, NEW h \in work, AnswerResume(h) PROVE Served
<1>1. h.rq.kind = "resume" BY DEF AnswerResume, At
<1>2. PICK p : p = (h.rq.end > h.gap) OBVIOUS
<1>3. PICK c \in Cursors : c = LiveCursor(srv) BY WorkerFacts, CursorType
<1>4. PICK b : b = [pending |-> p, cursor |-> c] OBVIOUS
<1>5. PICK a : a = Ok(b) OBVIOUS
<1>6. RepliesOnce(h, srv, a) BY <1>2, <1>3, <1>4, <1>5 DEF AnswerResume
<1>7. a.class = "ok" /\ Good(h.rq, a)'
  <2>1. b.pending = p /\ b \in [pending : {p}, cursor : Cursors] BY <1>4
  <2> QED BY <1>1, <1>5, <2>1 DEF Good, Ok
<1> QED BY <1>6, <1>7, RemembersInv, WorkerFacts DEF RepliesOnce, Ends, Filing

-----------------------------------------------------------------------------
(* The handlers of ranges.  What becomes a range lies in the recording.    *)

LEMMA MaterializedFacts ==
  ASSUME IInv, NEW m, m = Materialized(srv)
  PROVE  /\ Session(m) /\ m.status = srv.status /\ m.chunks = srv.chunks
         /\ m.epochs = srv.epochs /\ m.stored = srv.stored /\ m.final = srv.final
         /\ m.held = srv.held /\ m.total = srv.total
         /\ srv.ranges \subseteq m.ranges /\ m.ranges \subseteq Spans
<1>1. PICK fitting :
         /\ fitting = {p \in Pieces(srv) : \A q \in Misfits(srv) : p.start < q.start}
         /\ m = [srv EXCEPT !.ranges = srv.ranges \union fitting,
                            !.partial = srv.partial \/ ~(fitting \subseteq srv.ranges)]
  BY DEF Materialized
<1>2. fitting \subseteq Spans BY <1>1, WorkerFacts DEF Pieces, IInv, SrvOk
<1>3. PICK p, r : p = (srv.partial \/ ~(fitting \subseteq srv.ranges)) /\ r = srv.ranges \union fitting
  OBVIOUS
<1>4. m = [srv EXCEPT !.ranges = r, !.partial = p] BY <1>1, <1>3
<1>5. Session(srv) /\ srv.ranges \subseteq Spans BY DEF IInv, SrvOk
<1>6. Session(m) /\ m.ranges = r /\ m.status = srv.status /\ m.chunks = srv.chunks
      /\ m.epochs = srv.epochs /\ m.stored = srv.stored /\ m.final = srv.final
      /\ m.held = srv.held /\ m.total = srv.total
  BY <1>4, <1>5 DEF Session
<1> QED BY <1>2, <1>3, <1>5, <1>6

LEMMA MaterializedGrown ==
  ASSUME IInv, UNCHANGED <<card, up, call>>, NEW total \in Nat,
         srv' = [Materialized(srv) EXCEPT !.total = total]
  PROVE  Grown /\ srv'.total = total
<1>1. PICK m : m = Materialized(srv) OBVIOUS
<1>2. srv' = [m EXCEPT !.total = total] BY <1>1
<1>3. Session(m) /\ Filing BY <1>1, MaterializedFacts DEF IInv
<1>4. Session(srv') /\ srv'.status = m.status /\ srv'.chunks = m.chunks /\ srv'.ranges = m.ranges
      /\ srv'.epochs = m.epochs /\ srv'.stored = m.stored /\ srv'.final = m.final
      /\ srv'.held = m.held /\ srv'.total = total
  BY <1>2, <1>3 DEF Session
<1>5. srv'.epochs \in Seq(Epochs) BY <1>1, <1>4, MaterializedFacts DEF IInv, SrvOk
<1>6. Grown BY <1>1, <1>3, <1>4, <1>5, MaterializedFacts, SessionGrown DEF Filing, Accepted
<1> QED BY <1>4, <1>6

LEMMA JustMaterializedGrown ==
  ASSUME IInv, UNCHANGED <<card, up, call>>, srv' = Materialized(srv)
  PROVE  Grown
<1>1. PICK m : m = Materialized(srv) OBVIOUS
<1>2. Session(m) /\ m.total = srv.total BY <1>1, MaterializedFacts
<1>3. m = [m EXCEPT !.total = m.total] /\ m.total \in Nat BY <1>2 DEF Session
<1> QED BY <1>1, <1>3, MaterializedGrown

LEMMA CheckDeferInv == ASSUME IInv, NEW h \in work, CheckDefer(h) PROVE Served
<1>1. h.rq.kind = "defer" BY DEF CheckDefer, At
<1>2. CASE GoesOn(h, "lock") /\ UNCHANGED srv BY <1>2, JustWaitsInv
<1>3. CASE Replies(h, Refused) BY <1>3, RefusesGood, RepliesInv
<1>4. CASE Answered(srv, h.rq) # {} /\ Replies(h, StoredAnswer(srv, h.rq))
  BY <1>4, StoredGood, RepliesInv
<1>5. CASE RepliesOnce(h, srv, Ok(<<>>))
  <2>1. PICK a : a = Ok(<<>>) OBVIOUS
  <2>2. a.class = "ok" /\ Good(h.rq, a)' BY <1>1, <2>1, AboutParts DEF Ok
  <2>3. RepliesOnce(h, srv, a) BY <1>5, <2>1
  <2> QED BY <2>2, <2>3, RemembersInv, WorkerFacts DEF RepliesOnce, Ends, Filing
<1> QED BY <1>2, <1>3, <1>4, <1>5 DEF CheckDefer

LEMMA BeginDeferInv == ASSUME IInv, NEW h \in work, BeginDefer(h) PROVE Served
<1>1. CASE Ends(h, Refused)
  <2>1. Grown BY <1>1, JustMaterializedGrown DEF BeginDefer, Ends
  <2>2. Good(h.rq, Refused)' BY DEF Good, Refused
  <2> QED BY <1>1, <2>1, <2>2, EndsInv DEF Ends
<1>2. CASE GoesOn(h, "deferring")
  <2>1. Grown BY <1>2, JustMaterializedGrown DEF BeginDefer, GoesOn
  <2> QED BY <1>2, <2>1, WaitsInv
<1> QED BY <1>1, <1>2 DEF BeginDefer

LEMMA DeferInv == ASSUME IInv, NEW h \in work, Defer(h) PROVE Served
<1>1. h.rq.kind = "defer" BY DEF Defer, At
<1>2. h.rq.end \in Nat BY <1>1, WorkerFacts DEF Sound, Places
<1>3. PICK s : s = [srv EXCEPT !.status = "awaiting_repair", !.total = h.rq.end] OBVIOUS
<1>4. PICK a : a = Ok(<<>>) OBVIOUS
<1>5. a.class = "ok" /\ Good(h.rq, a)' BY <1>1, <1>4, AboutParts DEF Ok
<1>6. RepliesOnce(h, s, a) BY <1>3, <1>4 DEF Defer
<1>7. Session(s) /\ s.status = "awaiting_repair" /\ s.chunks = srv.chunks /\ s.ranges = srv.ranges
      /\ s.epochs = srv.epochs /\ s.stored = srv.stored /\ s.final = srv.final /\ s.held = srv.held
  BY <1>2, <1>3, WorkerFacts DEF Session
<1>8. ~Accepted(s) BY <1>7 DEF Accepted
<1> QED BY <1>5, <1>6, <1>7, <1>8, RemembersInv, WorkerFacts DEF RepliesOnce, Ends, Filing

(* A plan speaks of places in the recording.                               *)
LEMMA PlanBodyType ==
  ASSUME CardOk, NEW s, NEW b, b = PlanBody(s, card.pcm)
  PROVE  /\ b \in [complete : BOOLEAN, covered : Places, next : {b.next}]
         /\ ~b.complete => b.next.start \in Nat /\ b.next.end \in Places
<1>1. card.pcm \in Nat BY DEF CardOk
<1>2. PICK n \in 0 .. card.pcm : n = Cardinality(Missing(s, card.pcm)) BY <1>1, MissingType
<1>3. card.pcm - n \in Places BY <1>1 DEF Places
<1>4. Missing(s, card.pcm) # {} =>
        /\ FirstMissing(s, card.pcm).start \in Nat
        /\ FirstMissing(s, card.pcm).end \in Places
  BY <1>1, FirstMissingType DEF Places
<1>5. PICK c \in BOOLEAN : c = (Missing(s, card.pcm) = {}) OBVIOUS
<1>6. PICK p : p = IF c THEN Piece(0, 0) ELSE FirstMissing(s, card.pcm) OBVIOUS
<1>7. PICK k \in Places : k = card.pcm - n BY <1>3
<1>8. b = [complete |-> c, covered |-> k, next |-> p]
  BY <1>2, <1>5, <1>6, <1>7 DEF PlanBody
<1>9. ~c => p.start \in Nat /\ p.end \in Places BY <1>4, <1>5, <1>6
<1>10. b \in [complete : BOOLEAN, covered : Places, next : {p}]
       /\ b.complete = c /\ b.next = p
  BY <1>8
<1> QED BY <1>9, <1>10

LEMMA CheckPlanInv == ASSUME IInv, NEW h \in work, CheckPlan(h) PROVE Served
<1>1. h.rq.kind = "plan" /\ h.rq.end = card.pcm /\ CardOk
  BY WorkerFacts DEF CheckPlan, At, Sound
<1>2. CASE GoesOn(h, "lock") /\ UNCHANGED srv BY <1>2, JustWaitsInv
<1>3. CASE Replies(h, Refused) BY <1>3, RefusesGood, RepliesInv
<1>4. CASE Replies(h, Ok([PlanBody(srv, h.rq.end) EXCEPT !.complete = TRUE]))
  <2>1. PICK b : b = PlanBody(srv, card.pcm) OBVIOUS
  <2>2. b \in [complete : BOOLEAN, covered : Places, next : {b.next}] BY <1>1, <2>1, PlanBodyType
  <2>3. PICK c : c = [b EXCEPT !.complete = TRUE] OBVIOUS
  <2>4. c.complete = TRUE /\ c.covered \in Places BY <2>2, <2>3
  <2>5. PICK a : a = Ok(c) OBVIOUS
  <2>6. Good(h.rq, a) BY <1>1, <2>4, <2>5 DEF Good, Ok
  <2>7. Replies(h, a) BY <1>1, <1>4, <2>1, <2>3, <2>5
  <2> QED BY <2>6, <2>7, RepliesInv
<1> QED BY <1>2, <1>3, <1>4 DEF CheckPlan

LEMMA PlanInv == ASSUME IInv, NEW h \in work, Plan(h) PROVE Served
<1>1. h.rq.kind = "plan" /\ h.rq.end = card.pcm /\ CardOk /\ card.pcm \in Nat
  BY WorkerFacts DEF Plan, At, Sound
<1>2. srv.total \in Nat BY WorkerFacts DEF Session
<1>3. PICK total \in Nat : srv' = [Materialized(srv) EXCEPT !.total = total]
  <2>1. PICK m : m = Materialized(srv) OBVIOUS
  <2>2. m.total \in Nat BY <1>2, <2>1, MaterializedFacts
  <2>3. srv' = [m EXCEPT !.total = IF Misfits(srv) = {} THEN h.rq.end ELSE m.total]
    BY <2>1 DEF Plan
  <2> QED BY <1>1, <2>1, <2>2, <2>3
<1>4. UNCHANGED <<card, up, call>> BY DEF Plan, Ends
<1>5. Grown BY <1>3, <1>4, MaterializedGrown
<1>6. PICK b : b = PlanBody(srv', card.pcm) OBVIOUS
<1>7. /\ b \in [complete : BOOLEAN, covered : Places, next : {b.next}]
      /\ ~b.complete => b.next.start \in Nat /\ b.next.end \in Places
  BY <1>1, <1>6, PlanBodyType
<1>8. PICK a : a = (IF Misfits(srv) # {} THEN Refused ELSE Ok(b)) OBVIOUS
<1>9. Ends(h, a) BY <1>1, <1>6, <1>8 DEF Plan
<1>10. Good(h.rq, a)' BY <1>1, <1>4, <1>7, <1>8 DEF Good, Ok, Refused, Places
<1> QED BY <1>5, <1>9, <1>10, EndsInv DEF Ends

(* The answer to a range tells how much is there.                          *)
LEMMA AnswerRangeType ==
  ASSUME NEW s, Session(s), NEW h, NEW a, a = AnswerRange(h, s)
  PROVE  a.class \in {"ok", "conflict"} /\ (a.class = "ok" => a.body \in Int)
<1>1. s.total \in Nat BY DEF Session
<1>2. PICK n \in Nat : n = Cardinality(Missing(s, s.total)) BY <1>1, MissingType
<1> QED BY <1>1, <1>2 DEF AnswerRange, Ok, Refused

LEMMA AnswersRangeInv ==
  ASSUME IInv, NEW h \in work, h.rq.kind = "range", Replies(h, AnswerRange(h, srv))
  PROVE  Served
<1>1. PICK a : a = AnswerRange(h, srv) OBVIOUS
<1>2. a.class \in {"ok", "conflict"} /\ (a.class = "ok" => a.body \in Int)
  BY <1>1, AnswerRangeType, WorkerFacts
<1>3. Good(h.rq, a) BY <1>2 DEF Good
<1> QED BY <1>1, <1>3, RepliesInv

LEMMA CheckRangeInv == ASSUME IInv, NEW h \in work, CheckRange(h) PROVE Served
<1>1. h.rq.kind = "range" BY DEF CheckRange, At
<1>2. CASE GoesOn(h, "lock") /\ UNCHANGED srv BY <1>2, JustWaitsInv
<1>3. CASE Replies(h, Refused) BY <1>3, RefusesGood, RepliesInv
<1>4. CASE Replies(h, AnswerRange(h, srv)) BY <1>1, <1>4, AnswersRangeInv
<1> QED BY <1>2, <1>3, <1>4 DEF CheckRange

LEMMA StoreRangeInv == ASSUME IInv, NEW h \in work, StoreRange(h) PROVE Served
<1>1. h.rq.kind = "range" BY DEF StoreRange, At
<1>2. CASE Replies(h, Refused) BY <1>2, RefusesGood, RepliesInv
<1>3. CASE Replies(h, AnswerRange(h, srv)) BY <1>1, <1>3, AnswersRangeInv
<1>4. CASE srv' = AddRange(srv, PieceOf(h.rq)) /\ Ends(h, AnswerRange(h, srv'))
  <2>1. PICK p \in Spans : p = PieceOf(h.rq)
    BY <1>1, WorkerFacts DEF Sound, PieceOf, Piece, Spans
  <2>2. PICK r : r = srv.ranges \union {p} OBVIOUS
  <2>3. srv' = [srv EXCEPT !.ranges = r, !.partial = TRUE] BY <1>4, <2>1, <2>2 DEF AddRange
  <2>4. /\ Session(srv') /\ srv'.status = srv.status /\ srv'.chunks = srv.chunks /\ srv'.ranges = r
        /\ srv'.epochs = srv.epochs /\ srv'.stored = srv.stored /\ srv'.final = srv.final
        /\ srv'.held = srv.held
    BY <2>3, WorkerFacts DEF Session
  <2>5. srv.ranges \subseteq r /\ r \subseteq Spans BY <2>1, <2>2, WorkerFacts
  <2>6. Grown BY <1>4, <2>4, <2>5, SessionGrown, WorkerFacts DEF Ends, Filing, Accepted
  <2>7. PICK a : a = AnswerRange(h, srv') OBVIOUS
  <2>8. a.class \in {"ok", "conflict"} /\ (a.class = "ok" => a.body \in Int)
    BY <2>4, <2>7, AnswerRangeType
  <2>9. Good(h.rq, a)' BY <1>1, <2>8 DEF Good
  <2> QED BY <1>4, <2>6, <2>7, <2>9, EndsInv DEF Ends
<1> QED BY <1>2, <1>3, <1>4 DEF StoreRange

-----------------------------------------------------------------------------
(* The end: what is filed is the whole recording.                          *)

LEMMA TakesOverInv ==
  ASSUME IInv, NEW h \in work, h.rq.kind \in {"complete", "end"}, card.closed,
         NEW kept, Session(kept), kept.chunks = srv.chunks, kept.ranges = srv.ranges,
         kept.epochs = srv.epochs, kept.stored = srv.stored,
         kept.final = TRUE, kept.held = 0 .. card.pcm - 1, TakeOver(h, kept)
  PROVE  Served
<1>1. PICK s :
         /\ \E queued \in BOOLEAN : s = TakenOver(kept, queued)
         /\ srv' = Remember(s, h.rq, Ok(s.status))
         /\ reply' = IF h.waited THEN OnceAnswered(s, h.rq, Ok(s.status)) ELSE reply
  BY DEF TakeOver
<1>2. PICK status \in {"processing", "failed"} :
         s = [kept EXCEPT !.status = status, !.cleaned = TRUE]
  BY <1>1 DEF TakenOver
<1>3. Session(s) /\ s.chunks = srv.chunks /\ s.ranges = srv.ranges /\ s.epochs = srv.epochs
      /\ s.stored = srv.stored /\ s.final = TRUE /\ s.held = 0 .. card.pcm - 1
  BY <1>2 DEF Session
<1>4. PICK a : a = Ok(s.status) OBVIOUS
<1>5. a.class = "ok" /\ (srv'.final = s.final => Good(h.rq, a)') BY <1>3, <1>4 DEF Good, Ok
<1>6. srv' = Remember(s, h.rq, a) /\ reply' = IF h.waited THEN OnceAnswered(s, h.rq, a) ELSE reply
  BY <1>1, <1>4
<1> QED BY <1>3, <1>5, <1>6, RemembersInv DEF TakeOver

LEMMA CheckCompleteInv == ASSUME IInv, NEW h \in work, CheckComplete(h) PROVE Served
<1>1. h.rq.kind = "complete" BY DEF CheckComplete, At
<1>2. CASE GoesOn(h, "lock") /\ UNCHANGED srv BY <1>2, JustWaitsInv
<1>3. CASE Answered(srv, h.rq) # {} /\ Replies(h, StoredAnswer(srv, h.rq))
  BY <1>3, StoredGood, RepliesInv
<1>4. CASE Accepted(srv) /\ RepliesOnce(h, srv, Ok(srv.status))
  <2>1. PICK a : a = Ok(srv.status) OBVIOUS
  <2>2. a.class = "ok" /\ (srv'.final = srv.final => Good(h.rq, a)')
    BY <1>1, <1>4, <2>1, WorkerFacts DEF Good, Ok, Filing
  <2>3. RepliesOnce(h, srv, a) BY <1>4, <2>1
  <2> QED BY <2>2, <2>3, RemembersInv, WorkerFacts DEF RepliesOnce, Ends, Filing
<1> QED BY <1>2, <1>3, <1>4 DEF CheckComplete

LEMMA CheckRangesInv == ASSUME IInv, NEW h \in work, CheckRanges(h) PROVE Served
<1>1. h.rq.kind = "complete" /\ h.rq.end = card.pcm
  BY WorkerFacts DEF CheckRanges, At, Sound
<1>2. srv' = Materialized(srv) BY DEF CheckRanges
<1>3. CASE Ends(h, Refused)
  <2>1. Grown BY <1>2, <1>3, JustMaterializedGrown DEF Ends
  <2>2. Good(h.rq, Refused)' BY DEF Good, Refused
  <2> QED BY <1>3, <2>1, <2>2, EndsInv DEF Ends
<1>4. CASE Missing(srv', h.rq.end) = {} /\ GoesOn(h, "finishing")
  <2>1. Grown BY <1>2, <1>4, JustMaterializedGrown DEF GoesOn
  <2>2. 0 .. card.pcm - 1 \subseteq Covered(srv'.ranges) BY <1>1, <1>4 DEF Missing
  <2> QED BY <1>4, <2>1, <2>2, WaitsInv
<1> QED BY <1>3, <1>4 DEF CheckRanges

LEMMA CoveredInside ==
  ASSUME CardOk, NEW S, S \subseteq Spans
  PROVE  Covered(S) \subseteq 0 .. card.pcm - 1
<1> SUFFICES ASSUME NEW p \in S, NEW u \in Units(p) PROVE u \in 0 .. card.pcm - 1
  BY DEF Covered
<1>1. p.start \in Nat /\ p.end \in Nat /\ p.end <= card.pcm BY DEF Spans, Places, CardOk
<1> QED BY <1>1 DEF Units, CardOk

LEMMA RenameFileInv == ASSUME IInv, NEW h \in work, RenameFile(h) PROVE Served
<1>1. h.rq.kind = "complete" /\ h.step = "finishing" /\ card.closed
      /\ 0 .. card.pcm - 1 \subseteq Covered(srv.ranges)
  BY WorkerFacts DEF RenameFile, At, Sound, Working
<1>2. PICK held : held = Covered(srv.ranges) OBVIOUS
<1>3. held = 0 .. card.pcm - 1 BY <1>1, <1>2, CoveredInside, WorkerFacts
<1>4. srv' = [srv EXCEPT !.final = TRUE, !.held = held, !.partial = FALSE]
  BY <1>2, WorkerFacts DEF RenameFile, Filed, Session
<1>5. /\ Session(srv') /\ srv'.status = srv.status /\ srv'.chunks = srv.chunks
      /\ srv'.ranges = srv.ranges /\ srv'.epochs = srv.epochs /\ srv'.stored = srv.stored
      /\ srv'.final = TRUE /\ srv'.held = held
  BY <1>4, WorkerFacts DEF Session
<1>6. GoesOn(h, "renamed") BY DEF RenameFile
<1>7. Grown BY <1>1, <1>3, <1>5, <1>6, SessionGrown, WorkerFacts DEF GoesOn
<1> QED BY <1>5, <1>6, <1>7, WaitsInv

LEMMA CompleteInv == ASSUME IInv, NEW h \in work, Complete(h) PROVE Served
<1>1. h.rq.kind = "complete" /\ srv.final /\ card.closed
  BY WorkerFacts DEF Complete, At, Sound, Working
<1> QED BY <1>1, TakesOverInv, WorkerFacts DEF Complete, Filing, Session

(* Chunks that follow each other to the end are the whole recording.       *)
LEMMA LinedIsWhole ==
  ASSUME CardOk, SrvOk, NEW n \in Nat, Lined(srv, n, card.pcm)
  PROVE  Covered({srv.chunks[q] : q \in 0 .. n - 1}) = 0 .. card.pcm - 1
<1> DEFINE C == {srv.chunks[q] : q \in 0 .. n - 1}
<1>1. \A q \in 0 .. n - 1 : srv.chunks[q] \in Spans BY DEF SrvOk, Lined
<1>2. Covered(C) \subseteq 0 .. card.pcm - 1 BY <1>1, CoveredInside
<1>3. ASSUME NEW u \in 0 .. card.pcm - 1 PROVE u \in Covered(C)
  <2>1. card.pcm \in Nat /\ u < card.pcm BY <1>3 DEF CardOk
  <2>2. n # 0 /\ srv.chunks[n - 1].end = card.pcm BY <2>1 DEF Lined
  <2> DEFINE S == {q \in 0 .. n - 1 : srv.chunks[q].end > u}
  <2>3. n - 1 \in S /\ S \subseteq 0 .. n - 1 BY <2>1, <2>2
  <2>4. Lowest(S) \in S /\ \A y \in S : Lowest(S) <= y
    <3>1. S \in SUBSET Nat /\ S # {} BY <2>3
    <3> HIDE DEF S
    <3> QED BY <3>1, LowestIs
  <2>5. PICK k \in S : \A y \in S : k <= y BY <2>4
  <2>6. srv.chunks[k].start \in Nat /\ srv.chunks[k].end \in Nat /\ srv.chunks[k].end > u
    BY <1>1, <2>5 DEF Spans, Places, CardOk
  <2>7. srv.chunks[k].start <= u
    <3>1. CASE k = 0 BY <2>5, <3>1 DEF Lined
    <3>2. CASE k # 0
      <4>1. k - 1 \in 0 .. n - 1 /\ k - 1 \notin S BY <2>5, <3>2
      <4>2. srv.chunks[k - 1].end \in Nat BY <1>1, <4>1 DEF Spans, Places, CardOk
      <4>3. srv.chunks[k - 1].end <= u BY <4>1, <4>2
      <4>4. srv.chunks[k].start = srv.chunks[k - 1].end BY <2>5, <3>2 DEF Lined
      <4> QED BY <4>3, <4>4
    <3> QED BY <3>1, <3>2
  <2>8. u \in Units(srv.chunks[k]) BY <2>6, <2>7 DEF Units
  <2> QED BY <2>5, <2>8 DEF Covered
<1> QED BY <1>2, <1>3

LEMMA CheckEndInv == ASSUME IInv, NEW h \in work, CheckEnd(h) PROVE Served
<1>1. h.rq.kind = "end" /\ h.rq.end = card.pcm /\ h.rq.seq \in Nat /\ card.closed
  BY WorkerFacts DEF CheckEnd, At, Sound
<1>2. CASE Answered(srv, h.rq) # {} /\ Replies(h, StoredAnswer(srv, h.rq))
  BY <1>2, StoredGood, RepliesInv
<1>3. CASE Replies(h, Refused) BY <1>3, RefusesGood, RepliesInv
<1>4. CASE /\ MissingSeqs(srv, h.rq.seq) # {}
           /\ Replies(h, MissingFrom(Lowest(MissingSeqs(srv, h.rq.seq))))
  <2>1. MissingSeqs(srv, h.rq.seq) \in SUBSET Nat BY <1>1 DEF MissingSeqs
  <2>2. PICK q : q = Lowest(MissingSeqs(srv, h.rq.seq)) OBVIOUS
  <2>3. q \in Nat
    <3>1. q \in MissingSeqs(srv, h.rq.seq) BY <1>4, <2>1, <2>2, LowestIs
    <3> QED BY <2>1, <3>1
  <2>4. PICK a : a = MissingFrom(q) OBVIOUS
  <2>5. Good(h.rq, a) BY <2>3, <2>4 DEF Good, MissingFrom
  <2> QED BY <1>4, <2>2, <2>4, <2>5, RepliesInv
<1>5. CASE Lined(srv, h.rq.seq, h.rq.end) /\ GoesOn(h, "ending") /\ UNCHANGED srv
  <2>1. Grown BY <1>5, SameGrown DEF GoesOn
  <2>2. 0 .. h.rq.seq - 1 \subseteq ChunkSeqs(srv') BY <1>5 DEF Lined
  <2>3. Covered({srv'.chunks[q] : q \in 0 .. h.rq.seq - 1}) = 0 .. card.pcm - 1
    <3>1. Covered({srv.chunks[q] : q \in 0 .. h.rq.seq - 1}) = 0 .. card.pcm - 1
      BY <1>1, <1>5, LinedIsWhole, WorkerFacts
    <3> QED BY <1>5, <3>1
  <2> QED BY <1>5, <2>1, <2>2, <2>3, WaitsInv
<1> QED BY <1>2, <1>3, <1>4, <1>5 DEF CheckEnd

LEMMA EndInv == ASSUME IInv, NEW h \in work, End(h) PROVE Served
<1>1. /\ h.rq.kind = "end" /\ card.closed
      /\ Covered({srv.chunks[q] : q \in 0 .. h.rq.seq - 1}) = 0 .. card.pcm - 1
  BY WorkerFacts DEF End, At, Sound, Working
<1>2. CASE RepliesOnce(h, srv, Ok(srv.status))
  <2>1. PICK a : a = Ok(srv.status) OBVIOUS
  <2>2. a.class = "ok" /\ (srv'.final = srv.final => Good(h.rq, a)')
    BY <1>1, <2>1, WorkerFacts DEF Good, Ok, Filing, Accepted
  <2>3. RepliesOnce(h, srv, a) BY <1>2, <2>1
  <2> QED BY <2>2, <2>3, RemembersInv, WorkerFacts DEF RepliesOnce, Ends, Filing
<1>3. CASE Replies(h, Failing) BY <1>3, RefusesGood, RepliesInv
<1>4. CASE TakeOver(h, Filed(srv, Covered({srv.chunks[q] : q \in 0 .. h.rq.seq - 1})))
  <2>1. PICK held : held = Covered({srv.chunks[q] : q \in 0 .. h.rq.seq - 1}) OBVIOUS
  <2>2. PICK kept : kept = [srv EXCEPT !.final = TRUE, !.held = held] OBVIOUS
  <2>3. /\ Session(kept) /\ kept.chunks = srv.chunks /\ kept.ranges = srv.ranges
        /\ kept.epochs = srv.epochs /\ kept.stored = srv.stored
        /\ kept.final = TRUE /\ kept.held = held
    BY <2>2, WorkerFacts DEF Session
  <2>4. TakeOver(h, kept) BY <1>4, <2>1, <2>2 DEF Filed
  <2> QED BY <1>1, <2>1, <2>3, <2>4, TakesOverInv
<1> QED BY <1>2, <1>3, <1>4 DEF End

LEMMA PutMarkInv == ASSUME IInv, NEW h \in work, PutMark(h) PROVE Served
<1>1. h.rq.kind = "mark" BY DEF PutMark, At
<1>2. CASE \E a \in {Ok(<<>>), Refused} : Replies(h, a)
  <2>1. PICK a : Replies(h, a) /\ a.class # "missing" BY <1>2 DEF Ok, Refused
  <2>2. Good(h.rq, a) BY <1>1, <2>1, AboutParts
  <2> QED BY <2>1, <2>2, RepliesInv
<1>3. CASE \E m : Ends(h, Ok(<<>>)) /\ srv' = [srv EXCEPT !.marks = srv.marks \union {m}]
  <2>1. PICK marks : Ends(h, Ok(<<>>)) /\ srv' = [srv EXCEPT !.marks = marks] BY <1>3
  <2>2. /\ Session(srv') /\ srv'.status = srv.status /\ srv'.chunks = srv.chunks
        /\ srv'.ranges = srv.ranges /\ srv'.epochs = srv.epochs /\ srv'.stored = srv.stored
        /\ srv'.final = srv.final /\ srv'.held = srv.held
    BY <2>1, WorkerFacts DEF Session
  <2>3. Grown BY <2>1, <2>2, SessionGrown, WorkerFacts DEF Ends, Filing, Accepted
  <2>4. PICK a : a = Ok(<<>>) OBVIOUS
  <2>5. Good(h.rq, a)' BY <1>1, <2>4, AboutParts DEF Ok
  <2> QED BY <2>1, <2>3, <2>4, <2>5, EndsInv DEF Ends
<1>4. \/ \E a \in {Ok(<<>>), Refused} : Replies(h, a)
      \/ \E m : Ends(h, Ok(<<>>)) /\ srv' = [srv EXCEPT !.marks = srv.marks \union {m}]
  <2>1. PICK known, mark :
           IF known # {} THEN Replies(h, IF known = {mark} THEN Ok(<<>>) ELSE Refused)
           ELSE IF srv.status # "uploading" THEN Replies(h, Refused)
           ELSE Ends(h, Ok(<<>>)) /\ srv' = [srv EXCEPT !.marks = srv.marks \union {mark}]
    BY ZenonT(30) DEF PutMark
  <2> QED BY <2>1
<1> QED BY <1>2, <1>3, <1>4

LEMMA PollInv == ASSUME IInv, NEW h \in work, Poll(h) PROVE Served
<1>1. h.rq.kind = "poll" BY DEF Poll, At
<1>2. PICK a : a = Ok(Contiguous(srv)) OBVIOUS
<1>3. Replies(h, a) /\ a.class # "missing" BY <1>2 DEF Poll, Ok
<1>4. Good(h.rq, a) BY <1>1, <1>3, AboutParts
<1> QED BY <1>3, <1>4, RepliesInv

LEMMA ServeInv == ASSUME IInv, NEW h \in work, Serve(h) PROVE Served
BY CreateInv, CheckChunkInv, StoreChunkInv, CheckResumeInv, OpenEpochInv, AnswerResumeInv,
   CheckDeferInv, BeginDeferInv, DeferInv, CheckPlanInv, PlanInv, CheckRangeInv, StoreRangeInv,
   CheckCompleteInv, CheckRangesInv, RenameFileInv, CompleteInv, CheckEndInv, EndInv,
   PutMarkInv, PollInv DEF Serve

-----------------------------------------------------------------------------
(* The recording grows while it is open; once the server has it whole, it  *)
(* may go.  The server does not change.                                    *)

Longer ==
  /\ card' \in [pcm : Nat, closed : BOOLEAN, here : BOOLEAN, marks : {card'.marks}]
  /\ card'.pcm >= card.pcm
  /\ card.closed => card'.closed /\ card'.pcm = card.pcm
  /\ ~card'.here => ~card.here \/ up.final
  /\ srv' = srv

LEMMA LongerPlaces == ASSUME IInv, Longer PROVE Places \subseteq Places' /\ CardOk'
BY DEF IInv, CardOk, Longer, Places

LEMMA LongerGood == ASSUME IInv, Longer, NEW rq, NEW a, Good(rq, a) PROVE Good(rq, a)'
<1>1. Places \subseteq Places' /\ srv' = srv BY LongerPlaces DEF Longer
<1> QED BY <1>1 DEF Good

LEMMA LongerSound == ASSUME IInv, Longer, NEW rq, Sound(rq) PROVE Sound(rq)'
BY LongerPlaces DEF Sound, Longer

LEMMA LongerSession == ASSUME IInv, Longer PROVE SrvOk'
<1>1. Places \subseteq Places' BY LongerPlaces
<1>2. Spans \subseteq Spans' BY <1>1 DEF Spans
<1>3. \A m \in srv.stored : Good(m.key, m.answer)' BY LongerGood DEF IInv, SrvOk
<1> QED BY <1>2, <1>3 DEF IInv, SrvOk, Longer, Session, ChunkSeqs, Epochs

LEMMA LongerFiling ==
  ASSUME IInv, Longer, up.final => up'.final, up'.final => srv.final
  PROVE  Filing'
BY DEF IInv, Filing, Longer, Accepted

LEMMA LongerWorking ==
  ASSUME IInv, Longer, NEW h \in work, NEW g, NEW waited \in BOOLEAN,
         g = [h EXCEPT !.waited = waited], waited => g.rq = call'.rq /\ reply'.class = "none"
  PROVE  Working(g)'
<1>1. Working(h) BY DEF IInv, Workers
<1>2. /\ g \in [rq : {g.rq}, step : {g.step}, waited : BOOLEAN, saw : {g.saw}, gap : {g.gap}, place : {g.place}]
      /\ g.rq = h.rq /\ g.step = h.step /\ g.waited = waited
  BY <1>1 DEF Working
<1>3. Sound(g.rq)' BY <1>1, <1>2, LongerSound DEF Working
<1>4. g.rq.kind \in {"complete", "end"} => card'.pcm = card.pcm
  BY <1>1, <1>2 DEF Working, Sound, Longer
<1> QED BY <1>1, <1>2, <1>3, <1>4 DEF Working, Longer

(* The task, or the user, or the recorder moves and no request with it.    *)
LEMMA QuietInv ==
  ASSUME IInv, Longer, UNCHANGED <<call, reply, work>>, UpOk',
         up.final => up'.final, up'.final => srv.final
  PROVE  IInv'
<1>1. CardOk' /\ SrvOk' /\ Filing' BY LongerPlaces, LongerSession, LongerFiling
<1>2. Workers'
  <2>1. ASSUME NEW h \in work PROVE Working(h)'
    <3>1. h \in [rq : {h.rq}, step : {h.step}, waited : BOOLEAN, saw : {h.saw}, gap : {h.gap}, place : {h.place}]
          /\ (h.waited => h.rq = call.rq /\ reply.class = "none")
      BY DEF IInv, Workers, Working
    <3>2. PICK waited \in BOOLEAN : waited = h.waited BY <3>1
    <3>3. h = [h EXCEPT !.waited = waited] BY <3>1, <3>2
    <3> QED BY <3>1, <3>2, <3>3, LongerWorking
  <2> QED BY <2>1 DEF IInv, Workers
<1>3. Calling'
  <2>1. (call = NoCall \/ Sound(call.rq))' BY LongerSound DEF IInv, Calling
  <2>2. Good(call.rq, reply)' BY LongerGood DEF IInv, Calling
  <2> QED BY <2>1, <2>2 DEF IInv, Calling
<1> QED BY <1>1, <1>2, <1>3 DEF IInv

(* The task does not wait any more.                                        *)
LEMMA DropsInv ==
  ASSUME IInv, Longer, Idle, UpOk', up.final => up'.final, up'.final => srv.final,
         \A g \in work' : ~g.waited /\ \E h \in work : g = h \/ g = [h EXCEPT !.waited = FALSE]
  PROVE  IInv'
<1>1. CardOk' /\ SrvOk' /\ Filing' BY LongerPlaces, LongerSession, LongerFiling
<1>2. Workers'
  <2>1. ASSUME NEW g \in work' PROVE Working(g)'
    <3>1. PICK h \in work : g = h \/ g = [h EXCEPT !.waited = FALSE] OBVIOUS
    <3>2. h \in [rq : {h.rq}, step : {h.step}, waited : BOOLEAN, saw : {h.saw}, gap : {h.gap}, place : {h.place}]
      BY DEF IInv, Workers, Working
    <3>3. g = [h EXCEPT !.waited = FALSE] BY <3>1, <3>2
    <3> QED BY <3>3, LongerWorking
  <2> QED BY <2>1 DEF Workers
<1>3. Calling' BY DEF Calling, Idle, Good, NoReply
<1> QED BY <1>1, <1>2, <1>3 DEF IInv

(* The task asks.                                                          *)
NobodyWaits == \A h \in work : ~h.waited

LEMMA SendInv ==
  ASSUME IInv, NobodyWaits, NEW rq, Sound(rq), Send(rq), UNCHANGED <<card, srv>>, reply'.class = "none",
         UpOk', up.final => up'.final, up'.final => srv.final
  PROVE  IInv'
<1>1. Longer BY DEF IInv, CardOk, Longer
<1>2. CardOk' /\ SrvOk' /\ Filing' BY <1>1, LongerPlaces, LongerSession, LongerFiling
<1>3. PICK n : n = [rq |-> rq, step |-> "begin", waited |-> TRUE, saw |-> "none", gap |-> 0, place |-> 0]
  OBVIOUS
<1>4. work' = work \union {n} /\ call'.rq = rq BY <1>3 DEF Send
<1>5. Sound(rq)' BY <1>1, LongerSound
<1>6. Working(n)' BY <1>3, <1>4, <1>5 DEF Working
<1>7. Workers'
  <2>1. ASSUME NEW h \in work PROVE Working(h)'
    <3>1. h \in [rq : {h.rq}, step : {h.step}, waited : BOOLEAN, saw : {h.saw}, gap : {h.gap}, place : {h.place}]
      BY DEF IInv, Workers, Working
    <3>2. h = [h EXCEPT !.waited = FALSE] BY <3>1 DEF NobodyWaits
    <3> QED BY <1>1, <3>2, LongerWorking
  <2> QED BY <1>4, <1>6, <2>1 DEF Workers, NobodyWaits
<1>8. Calling'
  <2>1. call' # NoCall BY <1>4 DEF Sound, NoCall, Request, Kinds
  <2>2. Good(call.rq, reply)' BY DEF Good
  <2> QED BY <1>4, <1>5, <2>1, <2>2 DEF Calling
<1> QED BY <1>2, <1>7, <1>8 DEF IInv

LEMMA IdleNobodyWaits ==
  ASSUME IInv, call = NoCall \/ reply.class # "none"
  PROVE  NobodyWaits
<1> SUFFICES ASSUME NEW h \in work, h.waited PROVE FALSE BY DEF NobodyWaits
<1>1. Sound(h.rq) /\ h.rq = call.rq /\ reply.class = "none" BY DEF IInv, Workers, Working
<1> QED BY <1>1 DEF Sound, NoCall, Request, Kinds

-----------------------------------------------------------------------------
(* The recorder, the user and the task between two requests.               *)

SameCard == card' = card /\ srv' = srv
LEMMA SameCardIs == ASSUME IInv, SameCard PROVE Longer /\ Places' = Places
BY DEF IInv, CardOk, Longer, SameCard, Places

LEMMA UpFacts ==
  ASSUME IInv
  PROVE  /\ UpOk /\ (up.final => srv.final) /\ card.pcm \in Nat
         /\ up.acked \in Places /\ up.gap \in Nat /\ up.next \in Nat
         /\ (call = NoCall => reply.class = "none")
         /\ (call = NoCall \/ Sound(call.rq)) /\ Good(call.rq, reply)
BY DEF IInv, UpOk, Filing, CardOk, Calling

LEMMA RecordingLonger ==
  ASSUME IInv, Recording
  PROVE  Longer /\ card'.here = card.here /\ UNCHANGED <<up, call, reply, work>>
<1>1. card.pcm \in Nat /\ CardOk BY DEF IInv, CardOk
<1>2. CASE Commit BY <1>1, <1>2 DEF Commit, CardOk, Longer
<1>3. CASE SetMark
  <2>1. PICK marks : card' = [card EXCEPT !.marks = marks] /\ UNCHANGED <<up, call, reply, work, srv>>
    BY <1>3 DEF SetMark
  <2> QED BY <1>1, <2>1 DEF CardOk, Longer
<1>4. CASE Close
  <2>1. PICK pcm \in card.pcm .. MaxPcm :
           /\ card' = [card EXCEPT !.closed = TRUE, !.pcm = pcm]
           /\ ~card.closed /\ UNCHANGED <<up, call, reply, work, srv>>
    BY <1>4 DEF Close
  <2>2. pcm \in Nat /\ pcm >= card.pcm BY <1>1, <2>1, UploadAssumption
  <2>3. /\ card' \in [pcm : Nat, closed : BOOLEAN, here : BOOLEAN, marks : {card'.marks}]
        /\ card'.pcm = pcm /\ card'.here = card.here
    BY <1>1, <2>1, <2>2 DEF CardOk
  <2> QED BY <2>1, <2>2, <2>3 DEF Longer
<1> QED BY <1>2, <1>3, <1>4 DEF Recording

LEMMA RecordingInv == ASSUME IInv, Recording PROVE IInv'
<1>1. Longer /\ UNCHANGED <<up, call, reply, work>> BY RecordingLonger
<1>2. UpOk' BY <1>1, LongerPlaces, UpFacts DEF UpOk, Longer
<1> QED BY <1>1, <1>2, QuietInv, UpFacts

LEMMA LaneInv ==
  ASSUME IInv, UNCHANGED <<card, up, call, reply, work, srv>>
  PROVE  IInv'
<1>1. Longer /\ Places' = Places BY SameCardIs DEF SameCard
<1>2. UpOk' BY <1>1, UpFacts DEF UpOk
<1> QED BY <1>1, <1>2, QuietInv, UpFacts

LEMMA DeleteInv == ASSUME IInv, Delete PROVE IInv'
<1>1. up.final BY DEF Delete, Stage
<1>2. card' = [card EXCEPT !.here = FALSE] /\ UNCHANGED <<up, call, reply, work, srv>> BY DEF Delete
<1>3. Longer
  <2>1. card \in [pcm : Nat, closed : BOOLEAN, here : BOOLEAN, marks : {card.marks}]
    BY DEF IInv, CardOk
  <2>2. /\ card' \in [pcm : Nat, closed : BOOLEAN, here : BOOLEAN, marks : {card'.marks}]
        /\ card'.pcm = card.pcm /\ card'.closed = card.closed
    BY <1>2, <2>1
  <2>3. card.pcm \in Nat BY <2>1
  <2> QED BY <1>1, <1>2, <2>2, <2>3 DEF Longer
<1>4. UpOk' BY <1>2, <1>3, LongerPlaces, UpFacts DEF UpOk, Longer
<1> QED BY <1>2, <1>3, <1>4, QuietInv, UpFacts

LEMMA SaveInv ==
  ASSUME IInv, NEW u, Save(u), u \in [created : {u.created}, mode : {"live", "bulk", "repair"}, next : Nat,
            acked : Places, result : {u.result}, resume : {u.resume}, gap : Nat, deferred : {u.deferred},
            deferAcked : {u.deferAcked}, marksAcked : {u.marksAcked}, final : {up.final}, stopped : {u.stopped}],
         u.mode # "live" => card.closed
  PROVE  IInv'
<1>1. Longer /\ Places' = Places BY SameCardIs DEF SameCard, Save
<1>2. up' = u /\ card' = card /\ u.final = up.final /\ up.final \in BOOLEAN
  BY UpFacts DEF Save, UpOk
<1>3. UpOk' BY <1>1, <1>2 DEF UpOk
<1> QED BY <1>1, <1>2, <1>3, QuietInv, UpFacts DEF Save

LEMMA RestageInv == ASSUME IInv, Restage PROVE IInv'
<1>1. card.closed BY DEF Restage, Stage, Settles
<1>2. CASE Save(Staged([up EXCEPT !.deferred = TRUE, !.resume = FALSE]))
  <2>1. PICK u : u = Staged([up EXCEPT !.deferred = TRUE, !.resume = FALSE]) OBVIOUS
  <2> QED BY <1>1, <1>2, <2>1, SaveInv, UpFacts DEF UpOk, Staged
<1>3. CASE \E mode \in {"repair", "bulk"} : Save(Staged([up EXCEPT !.mode = mode]))
  <2>1. PICK mode \in {"repair", "bulk"} : Save(Staged([up EXCEPT !.mode = mode])) BY <1>3
  <2>2. PICK u : u = Staged([up EXCEPT !.mode = mode]) OBVIOUS
  <2> QED BY <1>1, <2>1, <2>2, SaveInv, UpFacts DEF UpOk, Staged
<1> QED BY <1>2, <1>3 DEF Restage

LEMMA AsksInv == ASSUME IInv, call = NoCall, NEW rq, Sound(rq), Sends(rq) PROVE IInv'
<1>1. NobodyWaits BY IdleNobodyWaits
<1>2. card' = card /\ srv' = srv /\ reply'.class = "none" /\ up' = up /\ Send(rq)
  BY UpFacts DEF Sends
<1>3. UpOk' BY <1>2, SameCardIs, UpFacts DEF UpOk, SameCard
<1> QED BY <1>1, <1>2, <1>3, SendInv, UpFacts

LEMMA MarkSound == Sound(MarkRequest)
BY DEF Sound, MarkRequest, Request, Kinds

LEMMA ChunkSound == ASSUME IInv PROVE Sound(NextChunk)
<1>1. up.acked \in Nat /\ up.acked <= card.pcm /\ CHUNK \in Nat /\ up.next \in Nat /\ card.pcm \in Nat
  BY UpFacts, UploadAssumption DEF Places
<1>2. PICK end \in Places : end = IF Lag > CHUNK THEN up.acked + CHUNK ELSE card.pcm
  BY <1>1 DEF Lag, Places
<1> QED BY <1>1, <1>2 DEF Sound, NextChunk, Request, Kinds

LEMMA SendMarksInv == ASSUME IInv, SendMarks PROVE IInv'
<1>1. call = NoCall BY DEF SendMarks, Turn
<1>2. CASE Sends(MarkRequest) BY <1>1, <1>2, AsksInv, MarkSound
<1>3. CASE Save(Staged([up EXCEPT !.marksAcked = TRUE]))
  <2>1. PICK u : u = Staged([up EXCEPT !.marksAcked = TRUE]) OBVIOUS
  <2> QED BY <1>3, <2>1, SaveInv, UpFacts DEF UpOk, Staged
<1> QED BY <1>2, <1>3 DEF SendMarks

LEMMA AskInv == ASSUME IInv, Ask PROVE IInv'
<1>1. call = NoCall BY DEF Ask, AskCreate, AskResume, AskDefer, AskPlan, AskChunk, AskEnd, AskLive, Turn
<1>2. card.pcm \in Places /\ up.gap \in Nat /\ card.pcm \in Nat BY UpFacts DEF Places
<1>3. CASE AskCreate
  <2>1. Sound(Request("create", 0, 0, 0)) BY DEF Sound, Request, Kinds
  <2> QED BY <1>1, <1>3, <2>1, AsksInv DEF AskCreate
<1>4. CASE AskResume
  <2>1. Sound(Request("resume", 0, up.gap, card.pcm)) BY <1>2 DEF Sound, Request, Kinds
  <2> QED BY <1>1, <1>4, <2>1, AsksInv DEF AskResume
<1>5. CASE AskDefer
  <2>1. Sound(Request("defer", 0, 0, card.pcm)) BY <1>2 DEF Sound, Request, Kinds
  <2> QED BY <1>1, <1>5, <2>1, AsksInv DEF AskDefer
<1>6. CASE AskPlan
  <2>1. card.closed BY <1>6, UpFacts DEF AskPlan, Stage, InRanges, UpOk
  <2>2. Sound(Request("plan", 0, 0, card.pcm)) BY <1>2, <2>1 DEF Sound, Request, Kinds
  <2> QED BY <1>1, <1>6, <2>2, AsksInv DEF AskPlan
<1>7. CASE AskChunk BY <1>1, <1>7, AsksInv, ChunkSound DEF AskChunk
<1>8. CASE AskEnd
  <2>1. card.closed BY <1>8 DEF AskEnd, Stage
  <2>2. Chunks \in Nat
    <3>1. CHUNK \in Nat \ {0} /\ card.pcm + CHUNK - 1 \in Nat BY <1>2, UploadAssumption
    <3>2. PICK n \in Nat, d \in Nat \ {0} : n = card.pcm + CHUNK - 1 /\ d = CHUNK BY <3>1
    <3>3. n \div d \in Nat OBVIOUS
    <3> QED BY <3>2, <3>3 DEF Chunks
  <2>3. Sound(Request("end", Chunks, 0, card.pcm)) BY <1>2, <2>1, <2>2 DEF Sound, Request, Kinds
  <2> QED BY <1>1, <1>8, <2>3, AsksInv DEF AskEnd
<1>9. CASE AskLive
  <2>1. Sound(Request("poll", 0, 0, 0)) BY DEF Sound, Request, Kinds
  <2> QED BY <1>1, <1>9, <2>1, AsksInv, ChunkSound, MarkSound DEF AskLive
<1> QED BY <1>3, <1>4, <1>5, <1>6, <1>7, <1>8, <1>9 DEF Ask

-----------------------------------------------------------------------------
(* The task with an answer: what it makes of upload.state.                 *)

Fits(u) ==
  /\ u \in [created : {u.created}, mode : {"live", "bulk", "repair"}, next : Nat, acked : Places,
            result : {u.result}, resume : {u.resume}, gap : Nat, deferred : {u.deferred},
            deferAcked : {u.deferAcked}, marksAcked : {u.marksAcked}, final : BOOLEAN,
            stopped : {u.stopped}]
  /\ u.mode # "live" => card.closed
  /\ up.final => u.final
  /\ u.final => srv.final

LEMMA UpFits == ASSUME IInv PROVE Fits(up) BY UpFacts DEF UpOk, Fits

LEMMA StagedFits == ASSUME NEW u, Fits(u) PROVE Fits(Staged(u))
<1>1. PICK v : v = Staged(u) OBVIOUS
<1> QED BY <1>1 DEF Fits, Staged

LEMMA RetriedFits == ASSUME IInv, NEW u, Fits(u), NEW open PROVE Fits(Retried(u, open))
<1>1. CASE open /\ u.mode = "live"
  <2>1. PICK gap \in Nat : gap = IF u.resume THEN u.gap ELSE u.acked BY UpFacts DEF Fits, Places
  <2>2. PICK v : v = [u EXCEPT !.stopped = FALSE, !.resume = TRUE, !.gap = gap] OBVIOUS
  <2>3. v = Retried(u, open) BY <1>1, <2>1, <2>2 DEF Retried
  <2>4. Fits(v) BY <2>2 DEF Fits
  <2> QED BY <2>3, <2>4
<1>2. CASE ~(open /\ u.mode = "live")
  <2>1. PICK v : v = [u EXCEPT !.stopped = FALSE] OBVIOUS
  <2>2. v = Retried(u, open) BY <1>2, <2>1 DEF Retried
  <2>3. Fits(v) BY <2>1 DEF Fits
  <2> QED BY <2>2, <2>3
<1> QED BY <1>1, <1>2

LEMMA GivenUpFits == ASSUME NEW u, Fits(u) PROVE Fits(GivenUp(u))
<1>1. PICK v : v = [u EXCEPT !.stopped = TRUE] OBVIOUS
<1> QED BY <1>1 DEF Fits, GivenUp

LEMMA CheckedFits ==
  ASSUME IInv, NEW valid, NEW u, valid => Fits(u)
  PROVE  Fits(Checked(valid, u))
BY UpFits, StagedFits, RetriedFits DEF Checked

LEMMA TakenFits ==
  ASSUME IInv, reply.class = "ok", call.rq.kind # "plan"
  PROVE  Fits(Taken(call.rq, reply.body))
<1>1. PICK rq, body : rq = call.rq /\ body = reply.body OBVIOUS
<1>2. Fits(up) /\ card.pcm \in Nat /\ card.pcm \in Places /\ Sound(rq) /\ Good(rq, reply)
  BY <1>1, UpFits, UpFacts DEF Places
<1>3. CASE rq.kind = "create"
  <2>1. body.acked \in Nat /\ body.seq \in Nat BY <1>1, <1>2, <1>3 DEF Good
  <2>2. PICK acked \in Nat, seq \in Nat : acked = body.acked /\ seq = body.seq BY <2>1
  <2>3. PICK v : v = [up EXCEPT !.created = TRUE, !.next = seq, !.acked = acked] OBVIOUS
  <2>4. body.acked <= card.pcm => Fits(v)
    <3>1. body.acked <= card.pcm => acked \in Places BY <1>2, <2>2 DEF Places
    <3> QED BY <1>2, <2>2, <2>3, <3>1 DEF Fits
  <2>5. Fits(Created(body)) BY <2>2, <2>3, <2>4, CheckedFits DEF Created
  <2> QED BY <1>1, <1>3, <2>5 DEF Taken
<1>4. CASE rq.kind = "resume"
  <2>1. body.cursor.seq \in Nat /\ rq.end \in Places /\ rq.end \in Nat
    BY <1>1, <1>2, <1>4 DEF Good, Sound, Cursors, Places
  <2>2. PICK seq \in Nat, end \in Places : seq = body.cursor.seq /\ end = rq.end BY <2>1
  <2>3. PICK deferred : deferred = (up.deferred \/ body.pending) OBVIOUS
  <2>4. PICK v : v = [up EXCEPT !.next = seq, !.acked = end, !.resume = FALSE, !.gap = end,
                                !.deferred = deferred]
    OBVIOUS
  <2>5. Fits(v)
    <3>1. end \in Nat BY <2>1, <2>2
    <3> QED BY <1>2, <2>2, <2>4, <3>1 DEF Fits
  <2>6. Fits(Resumed(rq, body)) BY <2>2, <2>3, <2>4, <2>5, CheckedFits DEF Resumed
  <2> QED BY <1>1, <1>4, <2>6 DEF Taken
<1>5. CASE rq.kind = "chunk"
  <2>1. PICK seq \in Nat, end \in Places : seq = rq.seq + 1 /\ end = rq.end
    BY <1>2, <1>5 DEF Sound
  <2>2. PICK v : v = [up EXCEPT !.next = seq, !.acked = end] OBVIOUS
  <2>3. Fits(v) BY <1>2, <2>1, <2>2 DEF Fits
  <2>4. Fits(ChunkSent(rq, body)) BY <2>1, <2>2, <2>3, CheckedFits DEF ChunkSent
  <2> QED BY <1>1, <1>5, <2>4 DEF Taken
<1>6. CASE rq.kind = "range"
  <2>1. body \in Int BY <1>1, <1>2, <1>6 DEF Good
  <2>2. PICK v : v = [up EXCEPT !.acked = body] OBVIOUS
  <2>3. up.acked <= body /\ body <= card.pcm => Fits(v)
    <3>1. up.acked \in Nat BY UpFacts DEF Places
    <3>2. up.acked <= body /\ body <= card.pcm => body \in Places BY <1>2, <2>1, <3>1 DEF Places
    <3> QED BY <1>2, <2>2, <3>2 DEF Fits
  <2>4. Fits(RangeSent(body)) BY <2>2, <2>3, CheckedFits DEF RangeSent
  <2> QED BY <1>1, <1>6, <2>4 DEF Taken
<1>7. CASE rq.kind = "mark"
  <2>1. PICK v : v = [up EXCEPT !.marksAcked = TRUE] OBVIOUS
  <2>2. Fits(v) BY <1>2, <2>1 DEF Fits
  <2>3. Fits(MarkSent) BY <1>2, <2>1, <2>2, StagedFits DEF MarkSent
  <2> QED BY <1>1, <1>7, <2>3 DEF Taken
<1>8. CASE rq.kind = "poll"
  <2>1. PICK v : v = [up EXCEPT !.result = body] OBVIOUS
  <2>2. Fits(v) BY <1>2, <2>1 DEF Fits
  <2>3. Fits(ResultRead(body)) BY <1>2, <2>1, <2>2, StagedFits DEF ResultRead
  <2> QED BY <1>1, <1>8, <2>3 DEF Taken
<1>9. CASE rq.kind = "defer"
  <2>1. PICK v : v = [up EXCEPT !.deferAcked = TRUE, !.resume = FALSE] OBVIOUS
  <2>2. Fits(v) BY <1>2, <2>1 DEF Fits
  <2>3. Fits(Deferred) BY <2>1, <2>2, StagedFits DEF Deferred
  <2> QED BY <1>1, <1>9, <2>3 DEF Taken
<1>10. CASE rq.kind = "complete"
  <2>1. srv.final BY <1>1, <1>2, <1>10 DEF Good
  <2>2. PICK v : v = [up EXCEPT !.acked = card.pcm, !.final = TRUE] OBVIOUS
  <2>3. Fits(v) BY <1>2, <2>1, <2>2 DEF Fits
  <2>4. Fits(Completed) BY <2>2, <2>3, StagedFits DEF Completed
  <2> QED BY <1>1, <1>10, <2>4 DEF Taken
<1>11. CASE rq.kind = "end"
  <2>1. body \in {"processing", "failed"} => srv.final BY <1>1, <1>2, <1>11 DEF Good
  <2>2. PICK v : v = [up EXCEPT !.final = TRUE] OBVIOUS
  <2>3. body \in {"processing", "failed"} => Fits(v) BY <1>2, <2>1, <2>2 DEF Fits
  <2>4. Fits(Ended(body)) BY <2>2, <2>3, CheckedFits DEF Ended
  <2> QED BY <1>1, <1>11, <2>4 DEF Taken
<1> QED BY <1>1, <1>2, <1>3, <1>4, <1>5, <1>6, <1>7, <1>8, <1>9, <1>10, <1>11 DEF Sound, Kinds

LEMMA FitsUpOk == ASSUME IInv, SameCard, NEW u, Fits(u), up' = u PROVE UpOk'
BY SameCardIs DEF Fits, UpOk, SameCard

(* The task has its answer, or does without.                               *)
LEMMA DoneInv ==
  ASSUME IInv, SameCard, Idle, NEW u, Fits(u), up' = u,
         \A g \in work' : ~g.waited /\ \E h \in work : g = h \/ g = [h EXCEPT !.waited = FALSE]
  PROVE  IInv'
<1>1. Longer BY SameCardIs
<1>2. UpOk' BY FitsUpOk
<1>3. (up.final => up'.final) /\ (up'.final => srv.final) BY DEF Fits
<1> QED BY <1>1, <1>2, <1>3, DropsInv

LEMMA AnsweredInv ==
  ASSUME IInv, SameCard, Idle, UNCHANGED work, reply.class # "none", NEW u, Fits(u), up' = u
  PROVE  IInv'
<1>1. NobodyWaits BY IdleNobodyWaits
<1> QED BY <1>1, DoneInv DEF NobodyWaits

LEMMA ReceiveInv == ASSUME IInv, Receive PROVE IInv'
<1>1. PICK u : u = Taken(call.rq, reply.body) OBVIOUS
<1>2. Fits(u) BY <1>1, TakenFits DEF Receive
<1> QED BY <1>1, <1>2, AnsweredInv DEF Receive, SameCard

LEMMA FollowInv == ASSUME IInv, Follow PROVE IInv'
<1>1. reply.class = "ok" /\ call.rq.kind = "plan" /\ SameCard /\ reply'.class = "none"
  BY DEF Follow, SameCard, NoReply
<1>2. /\ NobodyWaits /\ card.closed /\ Fits(up) /\ reply.body.covered \in Places
      /\ ~reply.body.complete => reply.body.next.start \in Nat /\ reply.body.next.end \in Places
      /\ card.pcm \in Places
  BY <1>1, IdleNobodyWaits, UpFacts, UpFits DEF Sound, Good, NoCall, Request, Places
<1>3. PICK planned, done :
         /\ planned = Staged([up EXCEPT !.acked = reply.body.covered])
         /\ done = Staged([up EXCEPT !.acked = card.pcm])
  OBVIOUS
<1>4. Fits(planned)
  <2>1. PICK v : v = [up EXCEPT !.acked = reply.body.covered] OBVIOUS
  <2>2. Fits(v) BY <1>2, <2>1 DEF Fits
  <2> QED BY <1>3, <2>1, <2>2, StagedFits
<1>5. Fits(done)
  <2>1. PICK v : v = [up EXCEPT !.acked = card.pcm] OBVIOUS
  <2>2. Fits(v) BY <1>2, <2>1 DEF Fits
  <2> QED BY <1>3, <2>1, <2>2, StagedFits
<1>6. \/ ~reply.body.complete /\ up' = planned /\ Send(RangeRequest(reply.body.next))
      \/ up' = done /\ Send(Request("complete", 0, 0, card.pcm))
      \/ up' = [done EXCEPT !.marksAcked = TRUE] /\ call' = NoCall /\ UNCHANGED work
      \/ up' = done /\ Send(MarkRequest)
  BY <1>3 DEF Follow
<1>7. CASE \E rq : Sound(rq) /\ Send(rq) /\ up' \in {planned, done}
  <2>1. PICK rq, u : Sound(rq) /\ Send(rq) /\ up' = u /\ Fits(u) BY <1>4, <1>5, <1>7
  <2>2. UpOk' BY <1>1, <2>1, FitsUpOk
  <2>3. (up.final => up'.final) /\ (up'.final => srv.final) BY <2>1 DEF Fits
  <2> QED BY <1>1, <1>2, <2>1, <2>2, <2>3, SendInv DEF SameCard
<1>8. CASE up' = [done EXCEPT !.marksAcked = TRUE] /\ call' = NoCall /\ UNCHANGED work
  <2>1. PICK u : u = [done EXCEPT !.marksAcked = TRUE] OBVIOUS
  <2>2. Fits(u) BY <1>5, <2>1 DEF Fits
  <2>3. Idle BY <1>8 DEF Idle, Follow
  <2> QED BY <1>1, <1>8, <2>1, <2>2, <2>3, AnsweredInv
<1>9. ~reply.body.complete => Sound(RangeRequest(reply.body.next))
  BY <1>2 DEF Sound, RangeRequest, Request, Kinds
<1>10. Sound(Request("complete", 0, 0, card.pcm)) BY <1>2 DEF Sound, Request, Kinds
<1> QED BY <1>6, <1>7, <1>8, <1>9, <1>10, MarkSound

LEMMA RewindInv == ASSUME IInv, Rewind PROVE IInv'
<1>1. reply.body \in Nat /\ Fits(up) /\ card.pcm \in Nat BY UpFacts, UpFits DEF Rewind, Good
<1>2. PICK seq \in Nat, chunk \in Nat : seq = reply.body /\ chunk = CHUNK BY <1>1, UploadAssumption
<1>3. PICK to \in Nat : to = seq * chunk OBVIOUS
<1>4. PICK acked \in Places : acked = IF to > card.pcm THEN card.pcm ELSE to
  BY <1>1, <1>3 DEF Places
<1>5. PICK v : v = [up EXCEPT !.next = seq, !.acked = acked] OBVIOUS
<1>6. Fits(v) BY <1>1, <1>5 DEF Fits
<1>7. PICK u : u = Staged(v) OBVIOUS
<1>8. up' = u BY <1>2, <1>3, <1>4, <1>5, <1>7 DEF Rewind
<1>9. Fits(u) BY <1>6, <1>7, StagedFits
<1> QED BY <1>8, <1>9, AnsweredInv DEF Rewind, SameCard

LEMMA FailInv == ASSUME IInv, Fail PROVE IInv'
<1>1. PICK u : u = Fails(call.open) OBVIOUS
<1>2. Fits(u) BY <1>1, UpFits, RetriedFits, GivenUpFits DEF Fails
<1> QED BY <1>1, <1>2, AnsweredInv DEF Fail, SameCard

(* The request is lost, or nobody waits for it.                            *)
LEMMA NobodyAwaited ==
  ASSUME Lose \/ Leave \/ (Awaited = {} /\ UNCHANGED work)
  PROVE  \A g \in work' : \/ g \in work /\ ~g.waited
                          \/ \E h \in work : g = [h EXCEPT !.waited = FALSE]
BY DEF Lose, Leave, Awaited

LEMMA NotWaited ==
  ASSUME IInv, \A g \in work' : \/ g \in work /\ ~g.waited
                                \/ \E h \in work : g = [h EXCEPT !.waited = FALSE]
  PROVE  \A g \in work' : ~g.waited /\ \E h \in work : g = h \/ g = [h EXCEPT !.waited = FALSE]
<1>1. \A h \in work : h \in [rq : {h.rq}, step : {h.step}, waited : BOOLEAN, saw : {h.saw}, gap : {h.gap}, place : {h.place}]
  BY DEF IInv, Workers, Working
<1>2. \A h \in work : [h EXCEPT !.waited = FALSE].waited = FALSE BY <1>1
<1> QED BY <1>2

LEMMA GiveUpInv == ASSUME IInv, GiveUp PROVE IInv'
<1>1. PICK u : u = Retried(up, call.open) OBVIOUS
<1>2. Fits(u) /\ up' = u BY <1>1, UpFits, RetriedFits DEF GiveUp
<1>3. Lose \/ Leave BY DEF GiveUp
<1> QED BY <1>2, <1>3, NobodyAwaited, NotWaited, DoneInv DEF GiveUp, SameCard

LEMMA MarkGapInv == ASSUME IInv, MarkGap PROVE IInv'
<1>1. SameCard /\ UNCHANGED <<call, reply, work>> BY DEF MarkGap, SameCard
<1>2. PICK u : Fits(u) /\ up' = u
  <2>1. CASE up' = up BY <2>1, UpFits
  <2>2. CASE up' # up
    <3>1. PICK gap \in Nat : gap = IF up.resume THEN up.gap ELSE up.acked
      BY UpFacts DEF Places
    <3>2. PICK deferred : deferred = (up.deferred \/ (card.closed /\ card.pcm > gap)) OBVIOUS
    <3>3. up' = [up EXCEPT !.gap = gap, !.resume = TRUE, !.deferred = deferred]
      BY <2>2, <3>1, <3>2 DEF MarkGap
    <3>4. PICK v : v = [up EXCEPT !.gap = gap, !.resume = TRUE, !.deferred = deferred] OBVIOUS
    <3>5. Fits(v) BY <3>4, UpFits DEF Fits
    <3> QED BY <3>3, <3>4, <3>5
  <2> QED BY <2>1, <2>2
<1>3. UpOk' BY <1>1, <1>2, FitsUpOk
<1> QED BY <1>1, <1>2, <1>3, SameCardIs, QuietInv DEF Fits

LEMMA ResetLonger == ASSUME IInv, Reset PROVE Longer /\ card'.here = card.here
<1>1. PICK pcm \in card.pcm .. MaxPcm :
         card' = [card EXCEPT !.closed = TRUE, !.pcm = IF card.closed THEN card.pcm ELSE pcm]
  BY DEF Reset
<1>2. CardOk /\ card.pcm \in Nat BY DEF IInv, CardOk
<1>3. PICK n \in Nat : n >= card.pcm /\ (card.closed => n = card.pcm)
                       /\ card' = [card EXCEPT !.closed = TRUE, !.pcm = n]
  <2>1. pcm \in Nat /\ pcm >= card.pcm BY <1>2, UploadAssumption
  <2>2. PICK n : n = IF card.closed THEN card.pcm ELSE pcm OBVIOUS
  <2>3. n \in Nat /\ n >= card.pcm /\ (card.closed => n = card.pcm) BY <1>2, <2>1, <2>2
  <2> QED BY <1>1, <2>2, <2>3
<1>4. /\ card' \in [pcm : Nat, closed : BOOLEAN, here : BOOLEAN, marks : {card'.marks}]
      /\ card'.pcm = n /\ card'.closed = TRUE /\ card'.here = card.here
  BY <1>2, <1>3 DEF CardOk
<1> QED BY <1>3, <1>4 DEF Longer, Reset

LEMMA ResetInv == ASSUME IInv, Reset PROVE IInv'
<1>1. Longer BY ResetLonger
<1>2. up' = up /\ Idle BY DEF Reset
<1>3. UpOk' BY <1>1, <1>2, LongerPlaces, UpFacts DEF UpOk, Longer
<1>4. Lose \/ Leave \/ (Awaited = {} /\ UNCHANGED work) BY DEF Reset
<1>5. \A g \in work' : ~g.waited /\ \E h \in work : g = h \/ g = [h EXCEPT !.waited = FALSE]
  BY <1>4, NobodyAwaited, NotWaited
<1> QED BY <1>1, <1>2, <1>3, <1>5, DropsInv, UpFacts

LEMMA RestartInv == ASSUME IInv, Restart PROVE IInv'
<1>1. SameCard /\ UNCHANGED <<up, call>> /\ work' = {} BY DEF Restart, SameCard
<1>2. Longer BY <1>1, SameCardIs
<1>3. CardOk' /\ SrvOk' /\ Filing' BY <1>1, <1>2, LongerPlaces, LongerSession, LongerFiling, UpFacts
<1>4. UpOk' BY <1>1, FitsUpOk, UpFits
<1>5. Workers' BY <1>1 DEF Workers
<1>6. Calling'
  <2>1. (call = NoCall \/ Sound(call.rq))' BY <1>1, <1>2, LongerSound DEF IInv, Calling
  <2>2. CASE \E h \in work : h.waited
    <3>1. reply' = Failing BY <2>2 DEF Restart
    <3>2. call # NoCall
      <4>1. PICK h \in work : h.waited BY <2>2
      <4>2. Sound(h.rq) /\ h.rq = call.rq BY <4>1 DEF IInv, Workers, Working
      <4> QED BY <4>2 DEF Sound, NoCall, Request, Kinds
    <3>3. Good(call.rq, reply)' BY <3>1 DEF Good, Failing
    <3> QED BY <1>1, <2>1, <3>2, <3>3 DEF Calling
  <2>3. CASE ~\E h \in work : h.waited
    <3>1. reply' = reply BY <2>3 DEF Restart
    <3>2. Good(call.rq, reply)' BY <1>1, <1>2, <3>1, LongerGood, UpFacts
    <3> QED BY <1>1, <2>1, <3>1, <3>2 DEF Calling, IInv
  <2> QED BY <2>2, <2>3
<1> QED BY <1>3, <1>4, <1>5, <1>6 DEF IInv

LEMMA NextInv == ASSUME IInv, [Next]_vars PROVE IInv'
<1>1. CASE UNCHANGED vars BY <1>1, LaneInv DEF vars
<1>2. CASE Recording BY <1>2, RecordingInv
<1>3. CASE Task
  <2>1. CASE ReleaseLane \/ EndSync BY <2>1, LaneInv DEF ReleaseLane, EndSync
  <2> QED BY <1>3, <2>1, DeleteInv, RestageInv, SendMarksInv, AskInv, ReceiveInv, FollowInv,
             RewindInv, FailInv, MarkGapInv DEF Task
<1>4. CASE RequestSync BY <1>4, LaneInv DEF RequestSync
<1>5. CASE Faults
  <2>1. CASE Disconnect BY <2>1, LaneInv DEF Disconnect
  <2> QED BY <1>5, <2>1, GiveUpInv, ResetInv, RestartInv DEF Faults
<1>6. CASE \E h \in work : Serve(h) BY <1>6, ServeInv DEF Served
<1> QED BY <1>1, <1>2, <1>3, <1>4, <1>5, <1>6 DEF Next

LEMMA SpecInv == Spec => []IInv
<1>1. Init => IInv BY InitInv
<1>2. IInv /\ [Next]_vars => IInv' BY NextInv
<1> QED BY <1>1, <1>2, PTL DEF Spec

-----------------------------------------------------------------------------
(* What follows.                                                           *)

(* The card deletes a recording only when the server has the whole of it   *)
(* in its final file: process_upload_item after final_acked, whatever was  *)
(* lost, repeated or carried out late on the way there.                    *)
THEOREM NothingIsLost == Spec => []NothingLost
<1>1. IInv => NothingLost BY DEF IInv, Filing, NothingLost, Whole
<1> QED BY <1>1, SpecInv, PTL

(* Steps of the card that do not touch the server are Record, or nothing.  *)
LEMMA LongerPromise ==
  ASSUME IInv, Longer, card'.here = card.here
  PROVE  [Promise!Next]_(Promise!vars)
<1>1. /\ card.pcm \in Nat /\ card'.pcm \in Nat /\ card'.pcm >= card.pcm /\ card.here \in BOOLEAN
      /\ srv'.final = srv.final /\ srv'.held = srv.held
  BY DEF IInv, CardOk, Longer
<1>2. CASE srv.final
  <2>1. card'.pcm = card.pcm BY <1>2 DEF IInv, Filing, Longer
  <2> QED BY <1>1, <2>1 DEF Promise!vars
<1>3. CASE ~srv.final
  <2>1. card.here BY <1>3 DEF IInv, Filing
  <2> QED BY <1>1, <1>3, <2>1 DEF Promise!Next, Promise!Record
<1> QED BY <1>2, <1>3

(* Steps of the server are Take, or nothing.                               *)
LEMMA ServedPromise == ASSUME IInv, Served PROVE [Promise!Next]_(Promise!vars)
<1>1. card' = card /\ (srv.final => srv'.final) BY DEF Served
<1>2. /\ srv.final \in BOOLEAN /\ srv'.final \in BOOLEAN
      /\ srv.final => srv.held = 0 .. card.pcm - 1
      /\ srv'.final => srv'.held = 0 .. card'.pcm - 1
      /\ (~srv.final => srv.held = {}) /\ (~srv'.final => srv'.held = {})
      /\ ~card.here => srv.final
  BY DEF Served, IInv, SrvOk, Session, Filing
<1>3. CASE srv.final = srv'.final BY <1>1, <1>2, <1>3 DEF Promise!vars
<1>4. CASE ~srv.final /\ srv'.final
  BY <1>1, <1>2, <1>4 DEF Promise!Next, Promise!Take
<1> QED BY <1>1, <1>2, <1>3, <1>4

LEMMA StepPromise == ASSUME IInv, [Next]_vars PROVE [Promise!Next]_(Promise!vars)
<1>1. CASE SameCard BY <1>1 DEF SameCard, Promise!vars
<1>2. CASE UNCHANGED vars BY <1>1, <1>2 DEF vars, SameCard
<1>3. CASE Recording BY <1>3, RecordingLonger, LongerPromise
<1>4. CASE Task
  <2>1. CASE Delete
    <3>1. up.final BY <2>1 DEF Delete, Stage
    <3>2. srv.final /\ card \in [pcm : Nat, closed : BOOLEAN, here : BOOLEAN, marks : {card.marks}]
      BY <3>1 DEF IInv, Filing, CardOk
    <3>3. card' = [card EXCEPT !.here = FALSE] /\ srv' = srv /\ card.here
      BY <2>1 DEF Delete, Turn
    <3> QED BY <3>2, <3>3 DEF Promise!Next, Promise!Forget, SrvOk, Session, IInv
  <2>2. CASE ReleaseLane \/ Restage \/ SendMarks \/ Receive \/ Follow \/ Rewind \/ Fail
             \/ MarkGap \/ EndSync
    BY <1>1, <2>2 DEF ReleaseLane, Restage, SendMarks, Receive, Follow, Rewind, Fail, MarkGap,
       EndSync, Save, Sends, SameCard
  <2>3. CASE Ask
    BY <1>1, <2>3 DEF Ask, AskCreate, AskResume, AskDefer, AskPlan, AskChunk, AskEnd, AskLive,
       Sends, SameCard
  <2> QED BY <1>4, <2>1, <2>2, <2>3 DEF Task
<1>5. CASE RequestSync BY <1>1, <1>5 DEF RequestSync, SameCard
<1>6. CASE Faults
  <2>1. CASE GiveUp \/ Disconnect \/ Restart
    BY <1>1, <2>1 DEF GiveUp, Disconnect, Restart, SameCard
  <2>2. CASE Reset BY <2>2, ResetLonger, LongerPromise
  <2> QED BY <1>6, <2>1, <2>2 DEF Faults
<1>7. CASE \E h \in work : Serve(h) BY <1>7, ServeInv, ServedPromise
<1> QED BY <1>2, <1>3, <1>4, <1>5, <1>6, <1>7 DEF Next

LEMMA InitPromise == Init => Promise!Init
BY DEF Init, NoSession, Promise!Init

(* Recorder, uploader, network and server together only record, take over  *)
(* whole, and then forget; the file never changes once it is there.        *)
THEOREM Implements == Spec => HandsOver
<1>1. Spec => []IInv BY SpecInv
<1>2. IInv /\ [Next]_vars => [Promise!Next]_(Promise!vars) BY StepPromise
<1>3. Init => Promise!Init BY InitPromise
<1> QED BY <1>1, <1>2, <1>3, PTL DEF Spec, HandsOver, Promise!Spec

-----------------------------------------------------------------------------
(* What is taken stays taken.  Nothing but a late defer takes a recording  *)
(* back, and it is asked for once, before any plan; the lock of the        *)
(* session then serves it before a completion.  Only the handler of an end *)
(* does not wait for the lock: Crossing.                                   *)

DeferRequest == Request("defer", 0, 0, card.pcm)
DeferAnswered == Answered(srv, DeferRequest) # {}

(* A recording that is not to be live any more was deferred before, and    *)
(* the server has said so, as long as that request may come again.         *)
Known(rq) ==
  /\ rq.kind = "defer" => rq = DeferRequest /\ card.closed /\ up.deferred /\ up.created
  /\ rq.kind \in {"plan", "complete"} => up.mode # "live"
Deferrals ==
  /\ \A h \in work : Known(h.rq)
  /\ Known(call.rq)
  /\ up.deferAcked => card.closed /\ DeferAnswered
  /\ call.rq.kind = "defer" /\ reply.class = "ok" => DeferAnswered
  /\ up.mode # "live" /\ (\E h \in work : h.rq.kind = "defer") => DeferAnswered

(* Who defers stands before who completes.                                 *)
Placed(n) == \A h \in work : h.place \in 0 .. n
InOrder ==
  \A g, h \in work : Deferring(g) /\ h.rq.kind = "complete" =>
     /\ h.step \notin {"finishing", "renamed"}
     /\ h.step = "lock" => g.step = "deferring" \/ g.place < h.place
Untaken == (\E g \in work : Deferring(g)) => ~Accepted(srv)

DInv == Deferrals /\ (\E n \in Nat : Placed(n)) /\ InOrder /\ Untaken

LEMMA InitDefer == Init => DInv
<1> SUFFICES ASSUME Init PROVE DInv OBVIOUS
<1>1. up = Fresh /\ call = NoCall /\ work = {} BY DEF Init
<1>2. ~up.deferAcked /\ call.rq.kind = "none" /\ up.mode = "live"
  BY <1>1 DEF Fresh, NoCall, Request
<1>3. Deferrals BY <1>1, <1>2 DEF Deferrals, Known
<1>4. Placed(0) BY <1>1 DEF Placed
<1> QED BY <1>1, <1>3, <1>4 DEF DInv, InOrder, Untaken

-----------------------------------------------------------------------------
(* A step of a handler, as far as deferring and completing go.             *)

Leaves(h) ==
  /\ work' = work \ {h}
  /\ reply' # reply => /\ h.waited
                       /\ h.rq.kind = "defer" /\ reply'.class = "ok" => Answered(srv', h.rq) # {}
Moves(h, g) ==
  /\ work' = (work \ {h}) \union {g} /\ UNCHANGED reply
  /\ g.rq = h.rq /\ g.waited = h.waited
  /\ IF g.step = "lock" THEN g.place = 1 + Last(Queue) ELSE g.place \in {0, h.place}
  /\ h.rq.kind = "defer" =>
       \/ g.step = "lock" /\ srv.status = "uploading" /\ Answered(srv, h.rq) = {}
       \/ g.step = "deferring" /\ h.step = "lock"
  /\ h.rq.kind = "complete" =>
       \/ g.step = "lock" /\ h.step = "begin"
       \/ g.step = "finishing" /\ h.step = "lock" /\ GetsLock(h)
       \/ g.step = "renamed" /\ h.step = "finishing"
Handles(h) ==
  /\ UNCHANGED <<card, up, call>>
  /\ srv.stored \subseteq srv'.stored
  /\ Accepted(srv') => Accepted(srv) \/ At(h, "complete", "renamed") \/ At(h, "end", "ending")
  /\ Accepted(srv) => Accepted(srv') \/ At(h, "defer", "deferring")
  /\ Leaves(h) \/ \E g : Moves(h, g)

(* The session as it was, or with one more answer.                         *)
LEMMA RepliesHandles ==
  ASSUME NEW h \in work, NEW a, Replies(h, a), h.rq.kind = "defer" /\ a.class = "ok" => Answered(srv, h.rq) # {}
  PROVE  Handles(h)
BY DEF Replies, Ends, Handles, Leaves

LEMMA EndsHandles ==
  ASSUME NEW h \in work, NEW a, Ends(h, a), srv'.stored = srv.stored, Accepted(srv') <=> Accepted(srv),
         h.rq.kind = "defer" => a.class # "ok"
  PROVE  Handles(h)
BY DEF Ends, Handles, Leaves

LEMMA RemembersHandles ==
  ASSUME IInv, NEW h \in work, NEW s, Session(s), s.stored = srv.stored,
         Accepted(s) => Accepted(srv) \/ At(h, "complete", "renamed") \/ At(h, "end", "ending"),
         Accepted(srv) => Accepted(s) \/ At(h, "defer", "deferring"),
         NEW a, srv' = Remember(s, h.rq, a), UNCHANGED <<card, up, call>>,
         work' = work \ {h}, reply' = IF h.waited THEN OnceAnswered(s, h.rq, a) ELSE reply
  PROVE  Handles(h)
<1>1. PICK n : n = [key |-> h.rq, answer |-> a] OBVIOUS
<1>2. n.key = h.rq BY <1>1
<1>3. \/ srv' = s /\ Answered(s, h.rq) # {}
      \/ srv' = [s EXCEPT !.stored = s.stored \union {n}]
  BY <1>1 DEF Remember
<1>4. /\ srv'.status = s.status /\ srv.stored \subseteq srv'.stored
      /\ n \in srv'.stored \/ Answered(srv', h.rq) # {}
  BY <1>3 DEF Session
<1>5. Answered(srv', h.rq) # {} BY <1>2, <1>4 DEF Answered
<1>6. Accepted(srv') <=> Accepted(s) BY <1>4 DEF Accepted
<1>7. Leaves(h) BY <1>5 DEF Leaves
<1> QED BY <1>4, <1>6, <1>7 DEF Handles

LEMMA GoesHandles ==
  ASSUME IInv, NEW h \in work, NEW step, GoesOn(h, step),
         srv'.stored = srv.stored, srv'.status = srv.status,
         h.rq.kind = "defer" =>
           \/ step = "lock" /\ srv.status = "uploading" /\ Answered(srv, h.rq) = {}
           \/ step = "deferring" /\ h.step = "lock",
         h.rq.kind = "complete" =>
           \/ step = "lock" /\ h.step = "begin"
           \/ step = "finishing" /\ h.step = "lock" /\ GetsLock(h)
           \/ step = "renamed" /\ h.step = "finishing"
  PROVE  Handles(h)
<1>1. PICK saw, place, g :
         /\ place = IF step = "lock" THEN 1 + Last(Queue) ELSE 0
         /\ g = [h EXCEPT !.step = step, !.saw = saw, !.place = place]
         /\ work' = (work \ {h}) \union {g} /\ UNCHANGED <<card, up, call, reply>>
  BY DEF GoesOn
<1>2. g.rq = h.rq /\ g.waited = h.waited /\ g.step = step /\ g.place = place
  BY <1>1, WorkerFacts
<1>3. Moves(h, g) BY <1>1, <1>2 DEF Moves
<1>4. Accepted(srv') <=> Accepted(srv) BY DEF Accepted
<1> QED BY <1>1, <1>3, <1>4 DEF Handles

LEMMA CreateHandles == ASSUME IInv, NEW h \in work, Create(h) PROVE Handles(h)
<1>1. PICK a : Ends(h, a) BY DEF Create
<1>2. h.rq.kind = "create" BY DEF Create, At
<1>3. srv' = srv \/ (srv.status = "none" /\ srv' = [srv EXCEPT !.status = "uploading"]) BY DEF Create
<1>4. srv'.stored = srv.stored /\ (srv'.status = srv.status \/ (srv.status = "none" /\ srv'.status = "uploading"))
  BY <1>3, WorkerFacts DEF Session
<1>5. Accepted(srv') <=> Accepted(srv) BY <1>4 DEF Accepted
<1> QED BY <1>1, <1>2, <1>4, <1>5, EndsHandles

(* Handlers of other requests: none of them accepts or defers.             *)
LEMMA OtherGoes ==
  ASSUME IInv, NEW h \in work, h.rq.kind \notin {"defer", "complete"}, NEW step, GoesOn(h, step), UNCHANGED srv
  PROVE  Handles(h)
BY GoesHandles

LEMMA OtherReplies ==
  ASSUME NEW h \in work, h.rq.kind # "defer", NEW a, Replies(h, a)
  PROVE  Handles(h)
BY RepliesHandles

LEMMA CheckChunkHandles == ASSUME IInv, NEW h \in work, CheckChunk(h) PROVE Handles(h)
BY OtherGoes, OtherReplies DEF CheckChunk, At

LEMMA StoreChunkHandles == ASSUME IInv, NEW h \in work, StoreChunk(h) PROVE Handles(h)
<1>1. h.rq.kind = "chunk" BY DEF StoreChunk, At
<1>2. CASE \E a : Replies(h, a) BY <1>1, <1>2, OtherReplies
<1>3. CASE \E a, c : Ends(h, a) /\ srv' = [srv EXCEPT !.chunks = c]
  <2>1. PICK a, c : Ends(h, a) /\ srv' = [srv EXCEPT !.chunks = c] BY <1>3
  <2>2. srv'.stored = srv.stored /\ srv'.status = srv.status BY <2>1, WorkerFacts DEF Session
  <2> QED BY <1>1, <2>1, <2>2, EndsHandles DEF Accepted
<1> QED BY <1>2, <1>3 DEF StoreChunk, AddChunk

LEMMA CheckResumeHandles == ASSUME IInv, NEW h \in work, CheckResume(h) PROVE Handles(h)
BY OtherGoes, OtherReplies DEF CheckResume, At

LEMMA OpenEpochHandles == ASSUME IInv, NEW h \in work, OpenEpoch(h) PROVE Handles(h)
<1>1. h.rq.kind = "resume" BY DEF OpenEpoch, At
<1>2. CASE Replies(h, Refused) BY <1>1, <1>2, OtherReplies
<1>3. CASE \E gap, e : /\ srv' = srv \/ srv' = [srv EXCEPT !.epochs = e]
                       /\ work' = (work \ {h}) \union {[h EXCEPT !.step = "resumed", !.gap = gap]}
                       /\ UNCHANGED <<card, up, call, reply>>
  <2>1. PICK gap, e, g : /\ srv' = srv \/ srv' = [srv EXCEPT !.epochs = e]
                         /\ work' = (work \ {h}) \union {g}
                         /\ g = [h EXCEPT !.step = "resumed", !.gap = gap]
                         /\ UNCHANGED <<card, up, call, reply>>
    BY <1>3
  <2>2. srv'.stored = srv.stored /\ srv'.status = srv.status BY <2>1, WorkerFacts DEF Session
  <2>3. g.rq = h.rq /\ g.waited = h.waited /\ g.step = "resumed" /\ g.place = h.place
    BY <2>1, WorkerFacts
  <2>4. Moves(h, g) BY <1>1, <2>1, <2>3 DEF Moves
  <2> QED BY <2>1, <2>2, <2>4 DEF Handles, Accepted
<1> QED BY <1>2, <1>3 DEF OpenEpoch, AddEpoch

LEMMA AnswerResumeHandles == ASSUME IInv, NEW h \in work, AnswerResume(h) PROVE Handles(h)
<1>1. PICK a : RepliesOnce(h, srv, a) BY DEF AnswerResume
<1> QED BY <1>1, RemembersHandles, WorkerFacts DEF RepliesOnce, Ends

LEMMA MaterializedKeeps ==
  ASSUME IInv, srv' = Materialized(srv) \/ \E total : srv' = [Materialized(srv) EXCEPT !.total = total]
  PROVE  srv'.stored = srv.stored /\ srv'.status = srv.status /\ (Accepted(srv') <=> Accepted(srv))
<1>1. PICK m : m = Materialized(srv) OBVIOUS
<1>2. Session(m) /\ m.stored = srv.stored /\ m.status = srv.status BY <1>1, MaterializedFacts
<1>3. srv' = m \/ \E total : srv' = [m EXCEPT !.total = total] BY <1>1
<1>4. srv'.stored = srv.stored /\ srv'.status = srv.status BY <1>2, <1>3 DEF Session
<1> QED BY <1>4 DEF Accepted

LEMMA CheckDeferHandles == ASSUME IInv, NEW h \in work, CheckDefer(h) PROVE Handles(h)
<1>1. h.rq.kind = "defer" BY DEF CheckDefer, At
<1>2. CASE Answered(srv, h.rq) = {} /\ srv.status = "uploading" /\ GoesOn(h, "lock") /\ UNCHANGED srv
  BY <1>1, <1>2, GoesHandles
<1>3. CASE Replies(h, Refused) BY <1>3, RepliesHandles DEF Refused
<1>4. CASE Answered(srv, h.rq) # {} /\ Replies(h, StoredAnswer(srv, h.rq)) BY <1>4, RepliesHandles
<1>5. CASE RepliesOnce(h, srv, Ok(<<>>))
  BY <1>5, RemembersHandles, WorkerFacts DEF RepliesOnce, Ends
<1> QED BY <1>2, <1>3, <1>4, <1>5 DEF CheckDefer

LEMMA BeginDeferHandles == ASSUME IInv, NEW h \in work, BeginDefer(h) PROVE Handles(h)
<1>1. h.rq.kind = "defer" /\ h.step = "lock" BY DEF BeginDefer, At
<1>2. srv'.stored = srv.stored /\ srv'.status = srv.status /\ (Accepted(srv') <=> Accepted(srv))
  BY MaterializedKeeps DEF BeginDefer
<1>3. CASE Ends(h, Refused) BY <1>2, <1>3, EndsHandles DEF Refused
<1>4. CASE GoesOn(h, "deferring") BY <1>1, <1>2, <1>4, GoesHandles
<1> QED BY <1>3, <1>4 DEF BeginDefer

LEMMA DeferHandles == ASSUME IInv, NEW h \in work, Defer(h) PROVE Handles(h)
<1>1. At(h, "defer", "deferring") BY DEF Defer
<1>2. h.rq.end \in Nat BY <1>1, WorkerFacts DEF Sound, Places, At
<1>3. PICK s : s = [srv EXCEPT !.status = "awaiting_repair", !.total = h.rq.end] OBVIOUS
<1>4. Session(s) /\ s.status = "awaiting_repair" /\ s.stored = srv.stored
  BY <1>2, <1>3, WorkerFacts DEF Session
<1>5. ~Accepted(s) BY <1>4 DEF Accepted
<1>6. PICK a : RepliesOnce(h, s, a) BY <1>3 DEF Defer
<1> QED BY <1>1, <1>4, <1>5, <1>6, RemembersHandles DEF RepliesOnce, Ends

LEMMA CheckPlanHandles == ASSUME IInv, NEW h \in work, CheckPlan(h) PROVE Handles(h)
BY OtherGoes, OtherReplies DEF CheckPlan, At

LEMMA PlanHandles == ASSUME IInv, NEW h \in work, Plan(h) PROVE Handles(h)
<1>1. h.rq.kind = "plan" BY DEF Plan, At
<1>2. srv' = [Materialized(srv) EXCEPT !.total = IF Misfits(srv) = {} THEN h.rq.end ELSE @]
  BY DEF Plan
<1>3. srv'.stored = srv.stored /\ srv'.status = srv.status /\ (Accepted(srv') <=> Accepted(srv))
  BY <1>2, MaterializedKeeps
<1>4. PICK a : Ends(h, a) BY DEF Plan
<1> QED BY <1>1, <1>3, <1>4, EndsHandles

LEMMA CheckRangeHandles == ASSUME IInv, NEW h \in work, CheckRange(h) PROVE Handles(h)
BY OtherGoes, OtherReplies DEF CheckRange, At

LEMMA StoreRangeHandles == ASSUME IInv, NEW h \in work, StoreRange(h) PROVE Handles(h)
<1>1. h.rq.kind = "range" BY DEF StoreRange, At
<1>2. CASE \E a : Replies(h, a) BY <1>1, <1>2, OtherReplies
<1>3. CASE \E a, r : Ends(h, a) /\ srv' = [srv EXCEPT !.ranges = r, !.partial = TRUE]
  <2>1. PICK a, r : Ends(h, a) /\ srv' = [srv EXCEPT !.ranges = r, !.partial = TRUE] BY <1>3
  <2>2. srv'.stored = srv.stored /\ srv'.status = srv.status BY <2>1, WorkerFacts DEF Session
  <2> QED BY <1>1, <2>1, <2>2, EndsHandles DEF Accepted
<1> QED BY <1>2, <1>3 DEF StoreRange, AddRange

LEMMA TakesOverHandles ==
  ASSUME IInv, NEW h \in work, At(h, "complete", "renamed") \/ At(h, "end", "ending"),
         NEW kept, Session(kept), kept.stored = srv.stored, TakeOver(h, kept)
  PROVE  Handles(h)
<1>1. PICK s :
         /\ \E queued \in BOOLEAN : s = TakenOver(kept, queued)
         /\ srv' = Remember(s, h.rq, Ok(s.status))
         /\ reply' = IF h.waited THEN OnceAnswered(s, h.rq, Ok(s.status)) ELSE reply
  BY DEF TakeOver
<1>2. PICK status \in {"processing", "failed"} :
         s = [kept EXCEPT !.status = status, !.cleaned = TRUE]
  BY <1>1 DEF TakenOver
<1>3. Session(s) /\ s.status = status /\ s.stored = srv.stored BY <1>2 DEF Session
<1>4. Accepted(s) BY <1>3 DEF Accepted
<1> QED BY <1>1, <1>3, <1>4, RemembersHandles DEF TakeOver

LEMMA CheckCompleteHandles == ASSUME IInv, NEW h \in work, CheckComplete(h) PROVE Handles(h)
<1>1. h.rq.kind = "complete" /\ h.step = "begin" BY DEF CheckComplete, At
<1>2. CASE GoesOn(h, "lock") /\ UNCHANGED srv BY <1>1, <1>2, GoesHandles
<1>3. CASE Replies(h, StoredAnswer(srv, h.rq)) BY <1>1, <1>3, OtherReplies
<1>4. CASE RepliesOnce(h, srv, Ok(srv.status))
  BY <1>4, RemembersHandles, WorkerFacts DEF RepliesOnce, Ends
<1> QED BY <1>2, <1>3, <1>4 DEF CheckComplete

LEMMA CheckRangesHandles == ASSUME IInv, NEW h \in work, CheckRanges(h) PROVE Handles(h)
<1>1. h.rq.kind = "complete" /\ h.step = "lock" /\ GetsLock(h) BY DEF CheckRanges, At
<1>2. srv'.stored = srv.stored /\ srv'.status = srv.status /\ (Accepted(srv') <=> Accepted(srv))
  BY MaterializedKeeps DEF CheckRanges
<1>3. CASE Ends(h, Refused) BY <1>1, <1>2, <1>3, EndsHandles
<1>4. CASE GoesOn(h, "finishing") BY <1>1, <1>2, <1>4, GoesHandles
<1> QED BY <1>3, <1>4 DEF CheckRanges

LEMMA RenameFileHandles == ASSUME IInv, NEW h \in work, RenameFile(h) PROVE Handles(h)
<1>1. h.rq.kind = "complete" /\ h.step = "finishing" /\ GoesOn(h, "renamed") BY DEF RenameFile, At
<1>2. PICK held : srv' = [srv EXCEPT !.final = TRUE, !.held = held, !.partial = FALSE]
  BY WorkerFacts DEF RenameFile, Filed, Session
<1>3. srv'.stored = srv.stored /\ srv'.status = srv.status BY <1>2, WorkerFacts DEF Session
<1> QED BY <1>1, <1>3, GoesHandles

LEMMA CompleteHandles == ASSUME IInv, NEW h \in work, Complete(h) PROVE Handles(h)
BY TakesOverHandles, WorkerFacts DEF Complete

LEMMA CheckEndHandles == ASSUME IInv, NEW h \in work, CheckEnd(h) PROVE Handles(h)
BY OtherGoes, OtherReplies DEF CheckEnd, At

LEMMA EndHandles == ASSUME IInv, NEW h \in work, End(h) PROVE Handles(h)
<1>1. At(h, "end", "ending") BY DEF End
<1>2. CASE RepliesOnce(h, srv, Ok(srv.status))
  BY <1>2, RemembersHandles, WorkerFacts DEF RepliesOnce, Ends
<1>3. CASE Replies(h, Failing) BY <1>1, <1>3, OtherReplies DEF At
<1>4. CASE \E held : TakeOver(h, [srv EXCEPT !.final = TRUE, !.held = held])
  <2>1. PICK held, kept : kept = [srv EXCEPT !.final = TRUE, !.held = held] /\ TakeOver(h, kept)
    BY <1>4
  <2>2. Session(kept) /\ kept.stored = srv.stored BY <2>1, WorkerFacts DEF Session
  <2> QED BY <1>1, <2>1, <2>2, TakesOverHandles
<1> QED BY <1>2, <1>3, <1>4 DEF End, Filed

LEMMA PutMarkHandles == ASSUME IInv, NEW h \in work, PutMark(h) PROVE Handles(h)
<1>1. h.rq.kind = "mark" BY DEF PutMark, At
<1>2. CASE \E a : Replies(h, a) BY <1>1, <1>2, OtherReplies
<1>3. CASE \E a, m : Ends(h, a) /\ srv' = [srv EXCEPT !.marks = m]
  <2>1. PICK a, m : Ends(h, a) /\ srv' = [srv EXCEPT !.marks = m] BY <1>3
  <2>2. srv'.stored = srv.stored /\ srv'.status = srv.status BY <2>1, WorkerFacts DEF Session
  <2> QED BY <1>1, <2>1, <2>2, EndsHandles DEF Accepted
<1>4. PICK known, mark :
         IF known # {} THEN Replies(h, IF known = {mark} THEN Ok(<<>>) ELSE Refused)
         ELSE IF srv.status # "uploading" THEN Replies(h, Refused)
         ELSE Ends(h, Ok(<<>>)) /\ srv' = [srv EXCEPT !.marks = srv.marks \union {mark}]
  BY ZenonT(30) DEF PutMark
<1> QED BY <1>2, <1>3, <1>4

LEMMA PollHandles == ASSUME IInv, NEW h \in work, Poll(h) PROVE Handles(h)
BY OtherReplies DEF Poll, At

LEMMA ServeHandles == ASSUME IInv, NEW h \in work, Serve(h) PROVE Handles(h)
BY CreateHandles, CheckChunkHandles, StoreChunkHandles, CheckResumeHandles, OpenEpochHandles,
   AnswerResumeHandles, CheckDeferHandles, BeginDeferHandles, DeferHandles, CheckPlanHandles,
   PlanHandles, CheckRangeHandles, StoreRangeHandles, CheckCompleteHandles, CheckRangesHandles,
   RenameFileHandles, CompleteHandles, CheckEndHandles, EndHandles, PutMarkHandles, PollHandles
DEF Serve

-----------------------------------------------------------------------------
(* Handlers keep the order; only a crossing could break it.                *)

LEMMA LastIs ==
  ASSUME NEW n \in Nat, Placed(n)
  PROVE  Last(Queue) \in 0 .. n /\ \A g \in Queue : g.place <= Last(Queue)
<1> DEFINE S == {g.place : g \in Queue}
<1>1. S \in SUBSET (0 .. n) BY DEF Placed, Queue
<1>2. CASE Queue = {} BY <1>2 DEF Last
<1>3. CASE Queue # {}
  <2>1. S # {} /\ Last(Queue) = Highest(S) BY <1>3 DEF Last
  <2> HIDE DEF S
  <2>2. Highest(S) \in S /\ \A y \in S : Highest(S) >= y BY <1>1, <2>1, HighestIs
  <2>3. \A y \in S : y \in 0 .. n BY <1>1
  <2>4. Highest(S) \in 0 .. n /\ \A y \in S : y <= Highest(S) BY <2>2, <2>3
  <2> USE DEF S
  <2> QED BY <2>1, <2>4
<1> QED BY <1>2, <1>3

LEMMA MovesPlaced ==
  ASSUME NEW n \in Nat, Placed(n), NEW h \in work, NEW g, Moves(h, g)
  PROVE  Placed(n + 1)' /\ g.place \in 0 .. n + 1
<1>1. h.place \in 0 .. n BY DEF Placed
<1>2. Last(Queue) \in 0 .. n BY LastIs
<1>3. g.place \in 0 .. n + 1 BY <1>1, <1>2 DEF Moves
<1>4. \A f \in work : f.place \in 0 .. n + 1 BY DEF Placed
<1> QED BY <1>3, <1>4 DEF Moves, Placed

LEMMA StillAnswered == ASSUME NEW rq, srv.stored \subseteq srv'.stored, Answered(srv, rq) # {} PROVE Answered(srv', rq) # {}
BY DEF Answered

LEMMA HandlesDeferrals == ASSUME IInv, DInv, NEW h \in work, Handles(h) PROVE Deferrals'
<1>1. Deferrals /\ UNCHANGED <<card, up, call>> /\ DeferRequest' = DeferRequest
  BY DEF DInv, Handles, DeferRequest
<1>2. DeferAnswered => DeferAnswered' BY <1>1, StillAnswered DEF Handles, DeferAnswered
<1>3. \A rq : Known(rq) => Known(rq)' BY <1>1 DEF Known
<1>4. \A g \in work' : \E f \in work : g.rq = f.rq BY DEF Handles, Leaves, Moves
<1>5. (call.rq.kind = "defer" /\ reply.class = "ok" => DeferAnswered)'
  <2>1. CASE reply' = reply BY <1>1, <1>2, <2>1 DEF Deferrals
  <2>2. CASE reply' # reply
    <3>1. h.waited /\ (h.rq.kind = "defer" /\ reply'.class = "ok" => Answered(srv', h.rq) # {})
      BY <2>2 DEF Handles, Leaves, Moves
    <3>2. h.rq = call.rq /\ Known(h.rq) BY <1>1, <3>1, WorkerFacts DEF Working, Deferrals
    <3> QED BY <1>1, <3>1, <3>2 DEF Known, DeferAnswered
  <2> QED BY <2>1, <2>2
<1>6. (\A g \in work : Known(g.rq))' /\ Known(call.rq)' BY <1>1, <1>3, <1>4 DEF Deferrals
<1>7. (up.deferAcked => card.closed /\ DeferAnswered)' BY <1>1, <1>2 DEF Deferrals
<1>8. (up.mode # "live" /\ (\E g \in work : g.rq.kind = "defer") => DeferAnswered)'
  BY <1>1, <1>2, <1>4 DEF Deferrals
<1> QED BY <1>5, <1>6, <1>7, <1>8 DEF Deferrals

(* One defer comes to the lock: then nobody completes.                     *)
LEMMA NobodyCompletes ==
  ASSUME DInv, NEW g \in work, g.rq.kind = "defer", Answered(srv, g.rq) = {}, NEW h \in work
  PROVE  h.rq.kind # "complete"
BY DEF DInv, Deferrals, Known, DeferAnswered

LEMMA HandlesInOrder == ASSUME IInv, DInv, NEW h \in work, Handles(h) PROVE InOrder'
<1>1. InOrder BY DEF DInv
<1>2. CASE Leaves(h) BY <1>1, <1>2 DEF Leaves, InOrder, Deferring
<1>3. ASSUME NEW g, Moves(h, g) PROVE InOrder'
  <2>1. PICK n \in Nat : Placed(n) BY DEF DInv
  <2>2. work' = (work \ {h}) \union {g} /\ g.rq = h.rq BY <1>3 DEF Moves
  <2> SUFFICES ASSUME NEW d \in work', NEW c \in work', Deferring(d), c.rq.kind = "complete"
               PROVE  /\ c.step \notin {"finishing", "renamed"}
                      /\ c.step = "lock" => d.step = "deferring" \/ d.place < c.place
    BY DEF InOrder, Deferring
  <2>3. d.rq.kind = "defer" /\ d.step \in {"lock", "deferring"} /\ d # c BY DEF Deferring
  <2>4. CASE d \in work /\ c \in work BY <1>1, <2>4 DEF InOrder
  <2>5. CASE d = g
    <3>1. c \in work BY <2>2, <2>3, <2>5
    <3>2. CASE d.step = "lock"
      <4>1. Answered(srv, h.rq) = {} BY <1>3, <2>2, <2>3, <2>5, <3>2 DEF Moves
      <4> QED BY <2>2, <2>3, <2>5, <3>1, <4>1, NobodyCompletes
    <3>3. CASE d.step = "deferring"
      <4>1. h.step = "lock" BY <1>3, <2>2, <2>3, <2>5, <3>3 DEF Moves
      <4>2. Deferring(h) BY <2>2, <2>3, <2>5, <4>1 DEF Deferring
      <4> QED BY <1>1, <3>1, <3>3, <4>2 DEF InOrder
    <3> QED BY <2>3, <3>2, <3>3
  <2>6. CASE c = g
    <3>1. d \in work BY <2>2, <2>3, <2>6
    <3>2. h.rq.kind = "complete" BY <2>2, <2>6
    <3>3. CASE c.step = "lock" /\ h.step = "begin"
      <4>1. c.place = 1 + Last(Queue) BY <1>3, <2>6, <3>3 DEF Moves
      <4>2. Last(Queue) \in Nat /\ (d.step = "lock" => d.place <= Last(Queue) /\ d.place \in Nat)
        BY <2>1, <3>1, LastIs DEF Queue, Placed
      <4> QED BY <2>3, <3>3, <4>1, <4>2
    <3>4. CASE h.step = "lock" /\ GetsLock(h)
      <4>1. d.step = "deferring" \/ d.place < h.place BY <1>1, <3>1, <3>2, <3>4 DEF InOrder
      <4>2. d.step # "deferring" BY <3>1, <3>4 DEF GetsLock, Locked
      <4>3. d \in Queue /\ h.place <= d.place BY <2>3, <3>1, <3>4, <4>2 DEF GetsLock, Queue
      <4>4. d.place \in Nat /\ h.place \in Nat BY <2>1, <3>1 DEF Placed
      <4> QED BY <4>1, <4>2, <4>3, <4>4
    <3>5. CASE h.step = "finishing" BY <1>1, <3>1, <3>2, <3>5 DEF InOrder
    <3> QED BY <1>3, <2>6, <3>2, <3>3, <3>4, <3>5 DEF Moves
  <2> QED BY <2>2, <2>4, <2>5, <2>6
<1> QED BY <1>2, <1>3 DEF Handles

LEMMA HandlesUntaken == ASSUME DInv, ~Crossing, NEW h \in work, Handles(h) PROVE Untaken'
<1> SUFFICES ASSUME NEW d \in work', Deferring(d) PROVE ~Accepted(srv')
  BY DEF Untaken, Deferring
<1>1. \/ d \in work /\ d # h
      \/ Moves(h, d) /\ d.rq = h.rq
  BY DEF Handles, Leaves, Moves
<1>2. CASE d \in work /\ d # h
  <2>1. ~Accepted(srv) BY <1>2 DEF DInv, Untaken
  <2>2. ~At(h, "complete", "renamed") BY <1>2 DEF DInv, InOrder, At
  <2>3. ~At(h, "end", "ending") BY <1>2 DEF Crossing
  <2> QED BY <2>1, <2>2, <2>3 DEF Handles
<1>3. CASE Moves(h, d) /\ d.rq = h.rq
  <2>1. h.rq.kind = "defer" BY <1>3 DEF Deferring
  <2>2. srv.status = "uploading" \/ h.step = "lock" BY <1>3, <2>1 DEF Moves
  <2>3. ~Accepted(srv) BY <2>1, <2>2 DEF DInv, Untaken, Deferring, Accepted
  <2> QED BY <2>1, <2>3 DEF Handles, At
<1> QED BY <1>1, <1>2, <1>3

LEMMA HandlesDefer ==
  ASSUME IInv, DInv, ~Crossing, NEW h \in work, Handles(h)
  PROVE  DInv' /\ (Accepted(srv) => Accepted(srv'))
<1>1. \E n \in Nat : Placed(n)'
  <2>1. PICK n \in Nat : Placed(n) BY DEF DInv
  <2>2. CASE Leaves(h) BY <2>1, <2>2 DEF Leaves, Placed
  <2>3. CASE \E g : Moves(h, g)
    <3>1. Placed(n + 1)' BY <2>1, <2>3, MovesPlaced
    <3>2. n + 1 \in Nat OBVIOUS
    <3> QED BY <3>1, <3>2
  <2> QED BY <2>2, <2>3 DEF Handles
<1>2. DInv' BY <1>1, HandlesDeferrals, HandlesInOrder, HandlesUntaken DEF DInv
<1>3. Accepted(srv) => Accepted(srv') BY DEF Handles, DInv, Untaken, Deferring, At
<1> QED BY <1>2, <1>3

-----------------------------------------------------------------------------
(* A step of the card: what was closed, deferred or created stays so, and  *)
(* a recording stops being live only when its deferral is answered.        *)

New(rq) == Known(rq)' /\ (rq.kind = "defer" => up'.mode = "live")
AnsweredOk(kind) == call.rq.kind = kind /\ reply.class = "ok"
CardMoves ==
  /\ srv' = srv
  /\ card.closed => card'.closed /\ card'.pcm = card.pcm
  /\ (up.deferred => up'.deferred) /\ (up.created => up'.created)
  /\ up'.deferAcked => up.deferAcked \/ AnsweredOk("defer")
  /\ up.mode # "live" => up'.mode # "live"
  /\ up'.mode # "live" =>
       up.mode # "live" \/ (up.deferred /\ up.created => up.deferAcked)
  /\ call' = call \/ call' = NoCall \/ (\E rq : call'.rq = rq /\ New(rq))
  /\ reply'.class = "ok" => reply' = reply /\ call' = call
  /\ \A g \in work' :
       \/ \E h \in work : g.rq = h.rq /\ g.step = h.step /\ g.place = h.place
       \/ g.step = "begin" /\ g.place = 0 /\ New(g.rq)

LEMMA CardMovesDefer == ASSUME DInv, CardMoves PROVE DInv' /\ (Accepted(srv) => Accepted(srv'))
<1>1. card.closed /\ DeferAnswered => card'.closed /\ DeferAnswered'
  BY DEF CardMoves, DeferAnswered, DeferRequest
<1>2. \A rq : Known(rq) => Known(rq)' BY DEF Known, CardMoves, DeferRequest
<1>3. \A g \in work' : Known(g.rq)' BY <1>2 DEF DInv, Deferrals, CardMoves, New
<1>4. Known(call.rq)' BY <1>2 DEF DInv, Deferrals, CardMoves, New, NoCall, Request, Known
<1>5. AnsweredOk("defer") => card.closed /\ DeferAnswered
  BY DEF AnsweredOk, DInv, Deferrals, Known
<1>6. (up.deferAcked => card.closed /\ DeferAnswered)'
  BY <1>1, <1>5 DEF CardMoves, DInv, Deferrals
<1>7. (call.rq.kind = "defer" /\ reply.class = "ok" => DeferAnswered)'
  BY <1>1, <1>5 DEF CardMoves, AnsweredOk
<1>8. (up.mode # "live" /\ (\E h \in work : h.rq.kind = "defer") => DeferAnswered)'
  <2> SUFFICES ASSUME up'.mode # "live", NEW g \in work', g.rq.kind = "defer" PROVE DeferAnswered'
    OBVIOUS
  <2>1. PICK h \in work : g.rq = h.rq BY DEF CardMoves, New
  <2>2. Known(h.rq) /\ h.rq.kind = "defer" BY <2>1 DEF DInv, Deferrals
  <2>3. card.closed /\ DeferAnswered BY <2>2 DEF Known, CardMoves, DInv, Deferrals
  <2> QED BY <1>1, <2>3
<1>9. Deferrals' BY <1>3, <1>4, <1>6, <1>7, <1>8 DEF Deferrals
<1>10. \E n \in Nat : Placed(n)'
  <2>1. PICK n \in Nat : Placed(n) BY DEF DInv
  <2>2. Placed(n)' BY <2>1 DEF Placed, CardMoves
  <2> QED BY <2>2
<1>11. InOrder'
  <2> SUFFICES ASSUME NEW d \in work', NEW c \in work', Deferring(d), c.rq.kind = "complete"
               PROVE  /\ c.step \notin {"finishing", "renamed"}
                      /\ c.step = "lock" => d.step = "deferring" \/ d.place < c.place
    BY DEF InOrder, Deferring
  <2>1. PICK e \in work : d.rq = e.rq /\ d.step = e.step /\ d.place = e.place
    BY DEF Deferring, CardMoves
  <2>2. CASE c.step = "begin" BY <2>2
  <2>3. CASE c.step # "begin"
    <3>1. PICK f \in work : c.rq = f.rq /\ c.step = f.step /\ c.place = f.place
      BY <2>3 DEF CardMoves
    <3> QED BY <2>1, <3>1 DEF Deferring, DInv, InOrder
  <2> QED BY <2>2, <2>3
<1>12. Untaken' BY DEF Untaken, DInv, CardMoves, Deferring
<1> QED BY <1>9, <1>10, <1>11, <1>12 DEF DInv, CardMoves

(* What becomes of upload.state.                                           *)
Shape(u) ==
  u \in [created : {u.created}, mode : {u.mode}, next : {u.next}, acked : {u.acked},
         result : {u.result}, resume : {u.resume}, gap : {u.gap}, deferred : {u.deferred},
         deferAcked : {u.deferAcked}, marksAcked : {u.marksAcked}, final : {u.final},
         stopped : {u.stopped}]
Keeps(u) ==
  /\ Shape(u) /\ u.mode = up.mode
  /\ (up.deferred => u.deferred) /\ (up.created => u.created)
  /\ u.deferAcked => up.deferAcked \/ AnsweredOk("defer")

LEMMA UpKeeps == ASSUME IInv PROVE Keeps(up)
BY DEF IInv, UpOk, Keeps, Shape

LEMMA StagedKeeps == ASSUME NEW u, Keeps(u) PROVE Keeps(Staged(u))
<1>1. PICK v : v = Staged(u) OBVIOUS
<1>2. Shape(v) /\ v.mode = u.mode /\ v.deferred = u.deferred /\ v.created = u.created
      /\ v.deferAcked = u.deferAcked
  BY <1>1 DEF Keeps, Shape, Staged
<1> QED BY <1>1, <1>2 DEF Keeps

LEMMA RetriedKeeps == ASSUME NEW u, Keeps(u), NEW open PROVE Keeps(Retried(u, open))
<1>1. PICK gap, v : /\ v = Retried(u, open)
                    /\ \/ v = [u EXCEPT !.stopped = FALSE, !.resume = TRUE, !.gap = gap]
                       \/ v = [u EXCEPT !.stopped = FALSE]
  BY DEF Retried
<1>2. Shape(v) /\ v.mode = u.mode /\ v.deferred = u.deferred /\ v.created = u.created
      /\ v.deferAcked = u.deferAcked
  BY <1>1 DEF Keeps, Shape
<1> QED BY <1>1, <1>2 DEF Keeps

LEMMA GivenUpKeeps == ASSUME NEW u, Keeps(u) PROVE Keeps(GivenUp(u))
<1>1. PICK v : v = GivenUp(u) OBVIOUS
<1>2. Shape(v) /\ v.mode = u.mode /\ v.deferred = u.deferred /\ v.created = u.created
      /\ v.deferAcked = u.deferAcked
  BY <1>1 DEF Keeps, Shape, GivenUp
<1> QED BY <1>1, <1>2 DEF Keeps

LEMMA CheckedKeeps == ASSUME IInv, NEW valid, NEW u, Keeps(u) PROVE Keeps(Checked(valid, u))
BY UpKeeps, StagedKeeps, RetriedKeeps DEF Checked

LEMMA TakenKeeps ==
  ASSUME IInv, reply.class = "ok", call.rq.kind # "plan"
  PROVE  Keeps(Taken(call.rq, reply.body))
<1>1. PICK rq, body : rq = call.rq /\ body = reply.body OBVIOUS
<1>2. Keeps(up) /\ Sound(rq) BY <1>1, UpKeeps, UpFacts
<1>3. CASE rq.kind = "create"
  <2>1. PICK seq, acked, v : /\ v = [up EXCEPT !.created = TRUE, !.next = seq, !.acked = acked]
                             /\ seq = body.seq /\ acked = body.acked
    OBVIOUS
  <2>2. Keeps(v) BY <1>2, <2>1 DEF Keeps, Shape
  <2>3. Keeps(Created(body)) BY <2>1, <2>2, CheckedKeeps DEF Created
  <2> QED BY <1>1, <1>3, <2>3 DEF Taken
<1>4. CASE rq.kind = "resume"
  <2>1. PICK seq, end, deferred :
          seq = body.cursor.seq /\ end = rq.end /\ deferred = (up.deferred \/ body.pending)
    OBVIOUS
  <2>2. PICK v : v = [up EXCEPT !.next = seq, !.acked = end, !.resume = FALSE, !.gap = end,
                                !.deferred = deferred]
    OBVIOUS
  <2>3. Shape(v) /\ v.mode = up.mode /\ v.deferred = deferred /\ v.created = up.created
        /\ v.deferAcked = up.deferAcked
    BY <1>2, <2>2 DEF Keeps, Shape
  <2>4. up.deferred => deferred BY <2>1, Zenon
  <2>5. Keeps(v) BY <2>3, <2>4 DEF Keeps
  <2>6. Keeps(Resumed(rq, body)) BY <2>1, <2>2, <2>5, CheckedKeeps DEF Resumed
  <2> QED BY <1>1, <1>4, <2>6 DEF Taken
<1>5. CASE rq.kind = "chunk"
  <2>1. PICK seq, end, v : /\ seq = rq.seq + 1 /\ end = rq.end
                           /\ v = [up EXCEPT !.next = seq, !.acked = end]
    OBVIOUS
  <2>2. Keeps(v) BY <1>2, <2>1 DEF Keeps, Shape
  <2>3. Keeps(ChunkSent(rq, body)) BY <2>1, <2>2, CheckedKeeps DEF ChunkSent
  <2> QED BY <1>1, <1>5, <2>3 DEF Taken
<1>6. CASE rq.kind = "range"
  <2>1. PICK v : v = [up EXCEPT !.acked = body] OBVIOUS
  <2>2. Keeps(v) BY <1>2, <2>1 DEF Keeps, Shape
  <2>3. Keeps(RangeSent(body)) BY <2>1, <2>2, CheckedKeeps DEF RangeSent
  <2> QED BY <1>1, <1>6, <2>3 DEF Taken
<1>7. CASE rq.kind = "mark"
  <2>1. PICK v : v = [up EXCEPT !.marksAcked = TRUE] OBVIOUS
  <2>2. Keeps(v) BY <1>2, <2>1 DEF Keeps, Shape
  <2>3. Keeps(MarkSent) BY <1>2, <2>1, <2>2, StagedKeeps DEF MarkSent
  <2> QED BY <1>1, <1>7, <2>3 DEF Taken
<1>8. CASE rq.kind = "poll"
  <2>1. PICK v : v = [up EXCEPT !.result = body] OBVIOUS
  <2>2. Keeps(v) BY <1>2, <2>1 DEF Keeps, Shape
  <2>3. Keeps(ResultRead(body)) BY <1>2, <2>1, <2>2, StagedKeeps DEF ResultRead
  <2> QED BY <1>1, <1>8, <2>3 DEF Taken
<1>9. CASE rq.kind = "defer"
  <2>1. PICK v : v = [up EXCEPT !.deferAcked = TRUE, !.resume = FALSE] OBVIOUS
  <2>2. AnsweredOk("defer") BY <1>1, <1>9 DEF AnsweredOk
  <2>3. Keeps(v) BY <1>2, <2>1, <2>2 DEF Keeps, Shape
  <2>4. Keeps(Deferred) BY <2>1, <2>3, StagedKeeps DEF Deferred
  <2> QED BY <1>1, <1>9, <2>4 DEF Taken
<1>10. CASE rq.kind = "complete"
  <2>1. PICK v : v = [up EXCEPT !.acked = card.pcm, !.final = TRUE] OBVIOUS
  <2>2. Keeps(v) BY <1>2, <2>1 DEF Keeps, Shape
  <2>3. Keeps(Completed) BY <2>1, <2>2, StagedKeeps DEF Completed
  <2> QED BY <1>1, <1>10, <2>3 DEF Taken
<1>11. CASE rq.kind = "end"
  <2>1. PICK v : v = [up EXCEPT !.final = TRUE] OBVIOUS
  <2>2. Keeps(v) BY <1>2, <2>1 DEF Keeps, Shape
  <2>3. Keeps(Ended(body)) BY <2>1, <2>2, CheckedKeeps DEF Ended
  <2> QED BY <1>1, <1>11, <2>3 DEF Taken
<1> QED BY <1>1, <1>2, <1>3, <1>4, <1>5, <1>6, <1>7, <1>8, <1>9, <1>10, <1>11 DEF Sound, Kinds

(* The steps of the card, one by one.                                      *)
LEMMA QuietMoves ==
  ASSUME IInv, srv' = srv, card.closed => card'.closed /\ card'.pcm = card.pcm,
         UNCHANGED <<up, call, reply, work>>
  PROVE  CardMoves
BY DEF CardMoves

LEMMA SavesMoves ==
  ASSUME IInv, SameCard, NEW u, up' = u, Keeps(u), UNCHANGED work,
         Idle \/ UNCHANGED <<call, reply>>
  PROVE  CardMoves
BY DEF CardMoves, SameCard, Keeps, Idle, NoReply

LEMMA SendsMoves ==
  ASSUME IInv, SameCard, NEW u, up' = u, Keeps(u), reply'.class # "ok",
         NEW rq, Send(rq), New(rq)
  PROVE  CardMoves
<1>1. PICK n : /\ n = [rq |-> rq, step |-> "begin", waited |-> TRUE, saw |-> "none", gap |-> 0, place |-> 0]
               /\ work' = work \union {n} /\ call'.rq = rq
  BY DEF Send
<1>2. n.rq = rq /\ n.step = "begin" /\ n.place = 0 BY <1>1
<1> QED BY <1>1, <1>2 DEF CardMoves, SameCard, Keeps

LEMMA AsksMoves ==
  ASSUME IInv, call = NoCall, NEW rq, Sends(rq), rq.kind \notin {"defer", "plan", "complete"}
  PROVE  CardMoves
<1>1. SameCard /\ up' = up /\ reply'.class # "ok" /\ Send(rq) BY UpFacts DEF Sends, SameCard
<1>2. New(rq) BY DEF New, Known
<1> QED BY <1>1, <1>2, UpKeeps, SendsMoves

LEMMA RestageMoves == ASSUME IInv, Restage PROVE CardMoves
<1>1. CASE Save(Staged([up EXCEPT !.deferred = TRUE, !.resume = FALSE]))
  <2>1. PICK u : u = [up EXCEPT !.deferred = TRUE, !.resume = FALSE] OBVIOUS
  <2>2. Keeps(u) BY <2>1, UpKeeps DEF Keeps, Shape
  <2>3. Keeps(Staged(u)) BY <2>2, StagedKeeps
  <2> QED BY <1>1, <2>1, <2>3, SavesMoves DEF Save, SameCard
<1>2. CASE \E mode \in {"repair", "bulk"} :
             Stage \in {"to_repair", "to_bulk"} /\ Save(Staged([up EXCEPT !.mode = mode]))
  <2>1. PICK mode \in {"repair", "bulk"} :
          Stage \in {"to_repair", "to_bulk"} /\ Save(Staged([up EXCEPT !.mode = mode]))
    BY <1>2
  <2>2. PICK u, v : u = [up EXCEPT !.mode = mode] /\ v = [u EXCEPT !.stopped = FALSE] OBVIOUS
  <2>3. up' = v BY <2>1, <2>2 DEF Save, Staged
  <2>4. v.mode = mode /\ v.deferred = up.deferred /\ v.created = up.created /\ v.deferAcked = up.deferAcked
    BY <2>2, UpKeeps DEF Keeps, Shape
  <2>5. up.deferred /\ up.created => up.deferAcked
    BY <2>1, Zenon DEF Stage, Defers, Settles
  <2> QED BY <2>1, <2>3, <2>4, <2>5 DEF Save, CardMoves
<1> QED BY <1>1, <1>2 DEF Restage

LEMMA SendMarksMoves == ASSUME IInv, SendMarks PROVE CardMoves
<1>1. call = NoCall BY DEF SendMarks, Turn
<1>2. CASE Sends(MarkRequest) BY <1>1, <1>2, AsksMoves DEF MarkRequest, Request
<1>3. CASE Save(Staged([up EXCEPT !.marksAcked = TRUE]))
  <2>1. PICK u : u = [up EXCEPT !.marksAcked = TRUE] OBVIOUS
  <2>2. Keeps(u) BY <2>1, UpKeeps DEF Keeps, Shape
  <2>3. Keeps(Staged(u)) BY <2>2, StagedKeeps
  <2> QED BY <1>3, <2>1, <2>3, SavesMoves DEF Save, SameCard
<1> QED BY <1>2, <1>3 DEF SendMarks

LEMMA AskMoves == ASSUME IInv, Ask PROVE CardMoves
<1>1. call = NoCall BY DEF Ask, AskCreate, AskResume, AskDefer, AskPlan, AskChunk, AskEnd, AskLive, Turn
<1>2. CASE AskCreate \/ AskResume \/ AskChunk \/ AskEnd \/ AskLive
  BY <1>1, <1>2, AsksMoves
  DEF AskCreate, AskResume, AskChunk, AskEnd, AskLive, MarkRequest, NextChunk, Request
<1>3. CASE AskDefer
  <2>1. PICK rq : rq = DeferRequest OBVIOUS
  <2>2. Sends(rq) BY <1>3, <2>1 DEF AskDefer, DeferRequest
  <2>3. Stage = "defer" BY <1>3 DEF AskDefer
  <2>4. Settles /\ Defers BY <2>3, Zenon DEF Stage
  <2>5. SameCard /\ up' = up /\ reply'.class # "ok" /\ Send(rq)
    BY <1>1, <2>2, UpFacts DEF Sends, SameCard
  <2>6. New(rq) BY <2>1, <2>4, <2>5 DEF New, Known, DeferRequest, Request, Settles, Defers, SameCard
  <2> QED BY <2>5, <2>6, UpKeeps, SendsMoves
<1>4. CASE AskPlan
  <2>1. PICK rq : rq = Request("plan", 0, 0, card.pcm) OBVIOUS
  <2>2. Sends(rq) /\ rq.kind = "plan" BY <1>4, <2>1 DEF AskPlan, Request
  <2>3. up.mode # "live" BY <1>4 DEF AskPlan, Stage, InRanges
  <2>4. SameCard /\ up' = up /\ reply'.class # "ok" /\ Send(rq)
    BY <1>1, <2>2, UpFacts DEF Sends, SameCard
  <2>5. New(rq) BY <2>2, <2>3, <2>4 DEF New, Known
  <2> QED BY <2>4, <2>5, UpKeeps, SendsMoves
<1> QED BY <1>2, <1>3, <1>4 DEF Ask

LEMMA FollowMoves == ASSUME IInv, DInv, Follow PROVE CardMoves
<1>1. SameCard /\ call.rq.kind = "plan" /\ reply'.class # "ok" BY DEF Follow, SameCard, NoReply
<1>2. up.mode # "live" BY <1>1 DEF DInv, Deferrals, Known
<1>3. \A acked : Keeps(Staged([up EXCEPT !.acked = acked]))
  <2> TAKE acked
  <2>1. PICK u : u = [up EXCEPT !.acked = acked] OBVIOUS
  <2>2. Keeps(u) BY <2>1, UpKeeps DEF Keeps, Shape
  <2> QED BY <2>1, <2>2, StagedKeeps
<1>4. PICK planned, done :
        /\ planned = Staged([up EXCEPT !.acked = reply.body.covered]) /\ Keeps(planned)
        /\ done = Staged([up EXCEPT !.acked = card.pcm]) /\ Keeps(done)
  BY <1>3
<1>5. \/ \E u \in {planned, done} : \E rq : /\ rq.kind # "defer" /\ up' = u /\ Send(rq)
      \/ up' = [done EXCEPT !.marksAcked = TRUE] /\ call' = NoCall /\ UNCHANGED work
  BY <1>4 DEF Follow, RangeRequest, MarkRequest, Request
<1>6. CASE \E u \in {planned, done} : \E rq : /\ rq.kind # "defer" /\ up' = u /\ Send(rq)
  <2>1. PICK u, rq : rq.kind # "defer" /\ up' = u /\ Send(rq) /\ Keeps(u) BY <1>4, <1>6
  <2>2. New(rq) BY <1>2, <2>1 DEF New, Known, Keeps
  <2> QED BY <1>1, <2>1, <2>2, SendsMoves
<1>7. CASE up' = [done EXCEPT !.marksAcked = TRUE] /\ call' = NoCall /\ UNCHANGED work
  <2>1. PICK u : u = [done EXCEPT !.marksAcked = TRUE] OBVIOUS
  <2>2. Keeps(u) BY <1>4, <2>1 DEF Keeps, Shape
  <2>3. Idle BY <1>7 DEF Idle, Follow
  <2> QED BY <1>1, <1>7, <2>1, <2>2, <2>3, SavesMoves
<1> QED BY <1>5, <1>6, <1>7

LEMMA AnswerMoves == ASSUME IInv, Receive \/ Rewind \/ Fail PROVE CardMoves
<1>1. SameCard /\ Idle /\ UNCHANGED work BY DEF Receive, Rewind, Fail, SameCard
<1>2. PICK u : Keeps(u) /\ up' = u
  <2>1. CASE Receive BY <2>1, TakenKeeps DEF Receive
  <2>2. CASE Rewind
    <3>1. PICK next, acked : up' = Staged([up EXCEPT !.next = next, !.acked = acked])
      BY <2>2 DEF Rewind
    <3>2. PICK v : v = [up EXCEPT !.next = next, !.acked = acked] OBVIOUS
    <3>3. Keeps(v) BY <3>2, UpKeeps DEF Keeps, Shape
    <3> QED BY <3>1, <3>2, <3>3, StagedKeeps
  <2>3. CASE Fail BY <2>3, UpKeeps, RetriedKeeps, GivenUpKeeps DEF Fail, Fails
  <2> QED BY <2>1, <2>2, <2>3
<1> QED BY <1>1, <1>2, SavesMoves

LEMMA MarkGapMoves == ASSUME IInv, MarkGap PROVE CardMoves
<1>1. SameCard /\ UNCHANGED <<call, reply, work>> BY DEF MarkGap, SameCard
<1>2. PICK u : Keeps(u) /\ up' = u
  <2>1. CASE up' = up BY <2>1, UpKeeps
  <2>2. CASE up' # up
    <3>1. PICK gap, deferred : /\ deferred = (up.deferred \/ (card.closed /\ card.pcm > gap))
                               /\ up' = [up EXCEPT !.gap = gap, !.resume = TRUE, !.deferred = deferred]
      BY <2>2 DEF MarkGap
    <3>2. up.deferred => deferred BY <3>1, Zenon
    <3>3. PICK v : v = [up EXCEPT !.gap = gap, !.resume = TRUE, !.deferred = deferred] OBVIOUS
    <3>4. Shape(v) /\ v.mode = up.mode /\ v.deferred = deferred /\ v.created = up.created
          /\ v.deferAcked = up.deferAcked
      BY <3>3, UpKeeps DEF Keeps, Shape
    <3>5. Keeps(v) BY <3>2, <3>4 DEF Keeps
    <3> QED BY <3>1, <3>3, <3>5
  <2> QED BY <2>1, <2>2
<1> QED BY <1>1, <1>2, SavesMoves

LEMMA LosesMoves ==
  ASSUME IInv, Lose \/ Leave \/ UNCHANGED work, Idle, srv' = srv,
         card.closed => card'.closed /\ card'.pcm = card.pcm,
         NEW u, up' = u, Keeps(u)
  PROVE  CardMoves
<1>1. ASSUME NEW g \in work'
      PROVE  \E h \in work : g.rq = h.rq /\ g.step = h.step /\ g.place = h.place
  <2>1. PICK h \in work : g = h \/ g = [h EXCEPT !.waited = FALSE] BY DEF Lose, Leave, Awaited
  <2>2. g.rq = h.rq /\ g.step = h.step /\ g.place = h.place BY <2>1, WorkerFacts
  <2> QED BY <2>2
<1> QED BY <1>1 DEF CardMoves, Keeps, Idle, NoReply

LEMMA FaultsMoves == ASSUME IInv, Faults PROVE CardMoves
<1>1. CASE GiveUp
  BY <1>1, LosesMoves, UpKeeps, RetriedKeeps DEF GiveUp
<1>2. CASE Disconnect BY <1>2, QuietMoves DEF Disconnect
<1>3. CASE Reset
  <2>1. Longer BY <1>3, ResetLonger
  <2> QED BY <1>3, <2>1, LosesMoves, UpKeeps DEF Reset, Longer
<1>4. CASE Restart
  BY <1>4, UpKeeps DEF Restart, CardMoves, Keeps, Failing
<1> QED BY <1>1, <1>2, <1>3, <1>4 DEF Faults

LEMMA RecordingMoves == ASSUME IInv, Recording PROVE CardMoves
<1>1. Longer BY RecordingLonger
<1>2. UNCHANGED <<up, call, reply, work>> BY DEF Recording, Commit, SetMark, Close
<1> QED BY <1>1, <1>2, QuietMoves DEF Longer

LEMMA DeleteMoves == ASSUME IInv, Delete PROVE CardMoves
<1>1. card' = [card EXCEPT !.here = FALSE] /\ UNCHANGED <<up, call, reply, work, srv>> BY DEF Delete
<1>2. card'.closed = card.closed /\ card'.pcm = card.pcm BY <1>1 DEF IInv, CardOk
<1> QED BY <1>1, <1>2, QuietMoves

LEMMA NextDefer ==
  ASSUME IInv, DInv, ~Crossing, [Next]_vars
  PROVE  DInv' /\ (Accepted(srv) => Accepted(srv'))
<1>1. CASE \E h \in work : Serve(h) BY <1>1, ServeHandles, HandlesDefer
<1>2. CASE CardMoves BY <1>2, CardMovesDefer
<1>3. CASE UNCHANGED vars BY <1>2, <1>3, QuietMoves DEF vars
<1>4. CASE Recording BY <1>2, <1>4, RecordingMoves
<1>5. CASE Task
  <2>1. CASE ReleaseLane \/ EndSync BY <1>2, <2>1, QuietMoves DEF ReleaseLane, EndSync
  <2> QED BY <1>2, <1>5, <2>1, DeleteMoves, RestageMoves, SendMarksMoves, AskMoves, AnswerMoves,
             FollowMoves, MarkGapMoves DEF Task
<1>6. CASE RequestSync BY <1>2, <1>6, QuietMoves DEF RequestSync
<1>7. CASE Faults BY <1>2, <1>7, FaultsMoves
<1> QED BY <1>1, <1>3, <1>4, <1>5, <1>6, <1>7 DEF Next

(* A recording the server has taken over is not taken back as long as no   *)
(* end crosses a defer: the only handler that overwrites the status        *)
(* without looking at it, defer_session, holds the lock, or waits for it,  *)
(* from a time when the recording was not taken on, complete_session       *)
(* comes to the lock behind it, and end_session is the one that does not   *)
(* come to the lock.                                                       *)
THEOREM NoCrossingStaysTaken == Spec /\ []~Crossing => StaysTaken
<1>1. Spec => []IInv BY SpecInv
<1>2. Init => DInv BY InitDefer
<1>3. IInv /\ DInv /\ ~Crossing /\ [Next]_vars => DInv' BY NextDefer
<1>4. IInv /\ DInv /\ ~Crossing /\ [Next]_vars => [Accepted(srv) => Accepted(srv')]_vars
  BY NextDefer
<1> QED BY <1>1, <1>2, <1>3, <1>4, PTL DEF Spec, StaysTaken

-----------------------------------------------------------------------------
(* Types.  Beyond the invariant: no place lies behind the longest          *)
(* recording, no piece is empty, and no answer is half an answer.          *)

Statuses == {"none", "uploading", "awaiting_repair", "processing", "failed"}
Asked(rq) == rq \in Requests /\ (rq.kind \in {"chunk", "range"} => rq.start < rq.end)
Said(rq, a) ==
  /\ a.class \in {"none", "ok", "conflict", "retry", "missing"}
  /\ a.class = "none" => a = NoReply
  /\ a.class = "ok" =>
       /\ rq.kind = "poll" => a.body \in Nat
       /\ rq.kind = "plan" /\ ~a.body.complete => a.body.next.start < a.body.next.end

CardTyped == card.pcm \in Positions /\ card.marks \subseteq Positions
UpTyped(u) ==
  u \in [created : BOOLEAN, mode : {u.mode}, next : {u.next}, acked : {u.acked}, result : Positions,
         resume : BOOLEAN, gap : Positions, deferred : BOOLEAN, deferAcked : BOOLEAN,
         marksAcked : BOOLEAN, final : {u.final}, stopped : BOOLEAN]
LaneTyped == lane \in [live : BOOLEAN, sync : BOOLEAN, gap : BOOLEAN, marksSent : SUBSET card.marks]
SrvTyped ==
  /\ srv.status \in Statuses
  /\ \A p \in Pieces(srv) \union srv.ranges : p.start < p.end
  /\ \A m \in srv.stored : Said(m.key, m.answer)
CallTyped ==
  /\ call = NoCall \/ Asked(call.rq)
  /\ call.open \in BOOLEAN /\ Said(call.rq, reply)
  /\ \A h \in work : Asked(h.rq)
FaultsTyped == faults \in [count : 0 .. MaxFaults, kinds : SUBSET FaultKinds]

TInv == CardTyped /\ UpTyped(up) /\ LaneTyped /\ SrvTyped /\ CallTyped /\ FaultsTyped

LEMMA InitTyped == Init => TInv
<1> SUFFICES ASSUME Init PROVE TInv OBVIOUS
<1>1. /\ card = [pcm |-> 0, closed |-> FALSE, here |-> TRUE, marks |-> {}]
      /\ up = Fresh /\ call = NoCall /\ reply = NoReply /\ work = {} /\ srv = NoSession
      /\ lane \in [live : {TRUE}, sync : {FALSE}, gap : BOOLEAN, marksSent : {{}}]
      /\ faults = [count |-> 0, kinds |-> {}]
  BY DEF Init
<1>2. 0 \in Positions BY UploadAssumption DEF Positions
<1>3. CardTyped BY <1>1, <1>2 DEF CardTyped
<1>4. UpTyped(up) BY <1>1, <1>2 DEF UpTyped, Fresh
<1>5. LaneTyped BY <1>1 DEF LaneTyped
<1>6. SrvTyped BY <1>1 DEF SrvTyped, NoSession, Statuses, Pieces, ChunkSeqs
<1>7. CallTyped BY <1>1 DEF CallTyped, NoCall, NoReply, Said
<1>8. FaultsTyped BY <1>1, UploadAssumption DEF FaultsTyped
<1> QED BY <1>3, <1>4, <1>5, <1>6, <1>7, <1>8 DEF TInv

(* What TypeOK says follows from the two invariants together.              *)
LEMMA TypedIsTypeOK == ASSUME IInv, TInv PROVE TypeOK
<1>1. CardOk /\ UpOk /\ SrvOk /\ card.pcm \in Nat /\ card.pcm <= MaxPcm /\ card.marks \subseteq Positions
  BY DEF IInv, TInv, CardTyped, CardOk, Positions
<1>2. Places \subseteq Positions BY <1>1, UploadAssumption DEF Places, Positions
<1>3. card \in [pcm : Positions, closed : BOOLEAN, here : BOOLEAN, marks : SUBSET Positions]
  BY <1>1 DEF CardOk, TInv, CardTyped
<1>4. up \in [created : BOOLEAN, mode : {"live", "bulk", "repair"}, next : Nat,
              acked : Positions, result : Positions, resume : BOOLEAN,
              gap : Positions, deferred : BOOLEAN, deferAcked : BOOLEAN,
              marksAcked : BOOLEAN, final : BOOLEAN, stopped : BOOLEAN]
  <2>1. up.mode \in {"live", "bulk", "repair"} /\ up.next \in Nat /\ up.acked \in Positions /\ up.final \in BOOLEAN
    BY <1>1, <1>2 DEF UpOk
  <2> QED BY <2>1 DEF TInv, UpTyped
<1>5. lane \in [live : BOOLEAN, sync : BOOLEAN, gap : BOOLEAN, marksSent : SUBSET Positions]
  BY <1>1 DEF TInv, LaneTyped
<1>6. call.rq \in Requests \union {NoCall.rq} /\ call.open \in BOOLEAN
  BY DEF TInv, CallTyped, Asked
<1>7. reply.class \in {"none", "ok", "conflict", "retry", "missing"}
  BY DEF TInv, CallTyped, Said
<1>8. \A h \in work : h.rq \in Requests /\ (h.waited => h.rq = call.rq /\ reply = NoReply)
  <2> TAKE h \in work
  <2>1. Working(h) BY DEF IInv, Workers
  <2>2. h.waited => h.rq = call.rq /\ reply.class = "none" BY <2>1 DEF Working
  <2> QED BY <2>2 DEF TInv, CallTyped, Asked, Said
<1>9. srv.status \in Statuses BY DEF TInv, SrvTyped
<1>10. \A p \in Pieces(srv) \union srv.ranges : p.start < p.end /\ p.end <= card.pcm
  <2> TAKE p \in Pieces(srv) \union srv.ranges
  <2>1. p \in Spans BY <1>1 DEF SrvOk, Pieces
  <2>2. p.end <= card.pcm BY <1>1, <2>1 DEF Spans, Places
  <2> QED BY <2>2 DEF TInv, SrvTyped
<1> QED BY <1>3, <1>4, <1>5, <1>6, <1>7, <1>8, <1>9, <1>10 DEF TypeOK, Statuses, TInv, FaultsTyped

-----------------------------------------------------------------------------
(* A step of a handler, beyond what Handles says.                          *)

ServesTyped(h) ==
  UNCHANGED lane /\ FaultsTyped' /\ SrvTyped' /\ (reply' # reply => Said(h.rq, reply'))

LEMMA PlainSaid ==
  ASSUME NEW rq
  PROVE  /\ Said(rq, Refused) /\ Said(rq, Failing) /\ \A seq : Said(rq, MissingFrom(seq))
         /\ rq.kind \notin {"poll", "plan"} => \A body : Said(rq, Ok(body))
BY DEF Said, Refused, Failing, MissingFrom, Ok

LEMMA SameTyped == ASSUME TInv, UNCHANGED <<srv, faults>> PROVE SrvTyped' /\ FaultsTyped'
BY DEF TInv, SrvTyped, FaultsTyped, Pieces, ChunkSeqs

LEMMA RepliesTyped ==
  ASSUME TInv, NEW h \in work, NEW a, Replies(h, a), Said(h.rq, a)
  PROVE  ServesTyped(h)
BY SameTyped DEF Replies, Ends, ServesTyped

LEMMA EndsTyped ==
  ASSUME TInv, NEW h \in work, NEW a, Ends(h, a), Said(h.rq, a), SrvTyped'
  PROVE  ServesTyped(h)
BY DEF Ends, ServesTyped, TInv, FaultsTyped

LEMMA GoesTyped ==
  ASSUME TInv, NEW h \in work, NEW step, GoesOn(h, step), SrvTyped' \/ UNCHANGED srv
  PROVE  ServesTyped(h)
<1>1. UNCHANGED <<lane, reply, faults>> BY DEF GoesOn
<1>2. FaultsTyped' BY <1>1 DEF TInv, FaultsTyped
<1>3. SrvTyped' BY <1>1, SameTyped
<1> QED BY <1>1, <1>2, <1>3 DEF ServesTyped

(* The session keeps its pieces, or has more of them.                      *)
LEMMA SessionTyped ==
  ASSUME IInv, TInv, NEW s, s.status \in Statuses, s.stored = srv.stored, s.chunks = srv.chunks,
         \A p \in s.ranges : p \in srv.ranges \/ p.start < p.end
  PROVE  /\ s.status \in Statuses
         /\ \A p \in Pieces(s) \union s.ranges : p.start < p.end
         /\ \A m \in s.stored : Said(m.key, m.answer)
BY DEF TInv, SrvTyped, Pieces, ChunkSeqs

LEMMA RemembersTyped ==
  ASSUME IInv, TInv, NEW h \in work, NEW s, Session(s), s.status \in Statuses,
         s.stored = srv.stored, s.chunks = srv.chunks, s.ranges = srv.ranges,
         NEW a, Said(h.rq, a), srv' = Remember(s, h.rq, a), UNCHANGED lane, FaultsTyped',
         reply' = IF h.waited THEN OnceAnswered(s, h.rq, a) ELSE reply
  PROVE  ServesTyped(h)
<1>1. PICK n : n = [key |-> h.rq, answer |-> a] OBVIOUS
<1>2. n.key = h.rq /\ n.answer = a BY <1>1
<1>3. srv' = s \/ srv' = [s EXCEPT !.stored = s.stored \union {n}] BY <1>1 DEF Remember
<1>4. /\ srv'.status = s.status /\ srv'.chunks = s.chunks /\ srv'.ranges = s.ranges
      /\ srv'.stored \subseteq s.stored \union {n}
  BY <1>3 DEF Session
<1>5. SrvTyped' BY <1>2, <1>4 DEF SrvTyped, TInv, Pieces, ChunkSeqs
<1>6. reply' # reply => Said(h.rq, reply') BY PlainSaid DEF OnceAnswered
<1> QED BY <1>5, <1>6 DEF ServesTyped

LEMMA RepliesOnceTyped ==
  ASSUME IInv, TInv, NEW h \in work, NEW a, Said(h.rq, a), RepliesOnce(h, srv, a)
  PROVE  ServesTyped(h)
<1>1. Session(srv) /\ srv.status \in Statuses BY WorkerFacts DEF TInv, SrvTyped
<1>2. UNCHANGED <<lane, faults>> BY DEF RepliesOnce, Ends
<1>3. FaultsTyped' BY <1>2 DEF TInv, FaultsTyped
<1> QED BY <1>1, <1>2, <1>3, RemembersTyped DEF RepliesOnce, Ends

LEMMA StoredSaid ==
  ASSUME TInv, NEW rq, Answered(srv, rq) # {}
  PROVE  Said(rq, StoredAnswer(srv, rq))
BY DEF TInv, SrvTyped, Answered, StoredAnswer

(* There is room for a fault as long as it may happen.                     *)
LEMMA FaultTyped == ASSUME TInv, NEW kind, Fault(kind) PROVE FaultsTyped'
<1>1. faults.count \in 0 .. MaxFaults /\ MaxFaults \in Nat BY UploadAssumption DEF TInv, FaultsTyped
<1>2. Cardinality(card.marks) \in Nat
  <2>1. IsFiniteSet(Positions) BY UploadAssumption, FS_Interval DEF Positions
  <2>2. IsFiniteSet(card.marks) BY <2>1, FS_Subset DEF TInv, CardTyped
  <2> QED BY <2>2, FS_CardinalityType
<1>3. PICK n \in Nat : n = Cardinality(card.marks) BY <1>2
<1>4. faults.count + 1 \in 0 .. MaxFaults BY <1>1, <1>3 DEF Fault
<1> QED BY <1>4 DEF Fault, FaultsTyped, TInv

LEMMA CreateTyped == ASSUME IInv, TInv, NEW h \in work, Create(h) PROVE ServesTyped(h)
<1>1. PICK a : Ends(h, a) /\ Said(h.rq, a) BY PlainSaid DEF Create, At
<1>2. srv' = srv \/ srv' = [srv EXCEPT !.status = "uploading"] BY DEF Create
<1>3. CASE srv' = srv BY <1>1, <1>3, SameTyped, EndsTyped DEF Ends
<1>4. CASE srv' = [srv EXCEPT !.status = "uploading"]
  <2>1. /\ srv'.status = "uploading" /\ srv'.stored = srv.stored
        /\ srv'.chunks = srv.chunks /\ srv'.ranges = srv.ranges
    BY <1>4, WorkerFacts DEF Session
  <2>2. SrvTyped' BY <2>1, SessionTyped DEF SrvTyped, Statuses, Pieces, ChunkSeqs
  <2> QED BY <1>1, <2>2, EndsTyped
<1> QED BY <1>2, <1>3, <1>4

LEMMA CheckChunkTyped == ASSUME IInv, TInv, NEW h \in work, CheckChunk(h) PROVE ServesTyped(h)
<1>1. h.rq.kind = "chunk" BY DEF CheckChunk, At
<1>2. Said(h.rq, AnswerChunk(h, srv)) BY <1>1, PlainSaid DEF AnswerChunk
<1> QED BY <1>2, PlainSaid, RepliesTyped, GoesTyped DEF CheckChunk

LEMMA StoreChunkTyped == ASSUME IInv, TInv, NEW h \in work, StoreChunk(h) PROVE ServesTyped(h)
<1>1. h.rq.kind = "chunk" BY DEF StoreChunk, At
<1>2. \A s : Said(h.rq, AnswerChunk(h, s)) BY <1>1, PlainSaid DEF AnswerChunk
<1>3. CASE Replies(h, AnswerChunk(h, srv)) BY <1>2, <1>3, RepliesTyped
<1>4. CASE srv' = AddChunk(srv, h.rq.seq, PieceOf(h.rq)) /\ Ends(h, AnswerChunk(h, srv'))
  <2>1. PICK p : p = PieceOf(h.rq) OBVIOUS
  <2>2. p.start < p.end BY <1>1, <2>1 DEF PieceOf, Piece, TInv, CallTyped, Asked
  <2>3. PICK c : /\ c = [q \in ChunkSeqs(srv) \union {h.rq.seq} |-> IF q = h.rq.seq THEN p ELSE srv.chunks[q]]
                 /\ srv' = [srv EXCEPT !.chunks = c]
    BY <1>4, <2>1 DEF AddChunk
  <2>4. /\ srv'.chunks = c /\ srv'.status = srv.status /\ srv'.stored = srv.stored
        /\ srv'.ranges = srv.ranges
    BY <2>3, WorkerFacts DEF Session
  <2>5. \A q \in DOMAIN c : c[q] = p \/ c[q] \in Pieces(srv) BY <2>3 DEF Pieces
  <2>6. SrvTyped' BY <2>2, <2>4, <2>5 DEF TInv, SrvTyped, Pieces, ChunkSeqs
  <2> QED BY <1>2, <1>4, <2>6, EndsTyped
<1> QED BY <1>3, <1>4 DEF StoreChunk

LEMMA CheckResumeTyped == ASSUME IInv, TInv, NEW h \in work, CheckResume(h) PROVE ServesTyped(h)
<1>1. h.rq.kind = "resume" BY DEF CheckResume, At
<1> QED BY <1>1, PlainSaid, RepliesTyped, GoesTyped DEF CheckResume

LEMMA OpenEpochTyped == ASSUME IInv, TInv, NEW h \in work, OpenEpoch(h) PROVE ServesTyped(h)
<1>1. CASE Replies(h, Refused) BY <1>1, PlainSaid, RepliesTyped
<1>2. CASE /\ srv' = srv \/ \E e : srv' = [srv EXCEPT !.epochs = e]
           /\ UNCHANGED <<lane, reply, faults>>
  <2>1. /\ srv'.status = srv.status /\ srv'.stored = srv.stored
        /\ srv'.chunks = srv.chunks /\ srv'.ranges = srv.ranges
    BY <1>2, WorkerFacts DEF Session
  <2>2. SrvTyped' /\ FaultsTyped' BY <1>2, <2>1 DEF TInv, SrvTyped, FaultsTyped, Pieces, ChunkSeqs
  <2> QED BY <1>2, <2>2 DEF ServesTyped
<1> QED BY <1>1, <1>2 DEF OpenEpoch, AddEpoch

LEMMA AnswerResumeTyped == ASSUME IInv, TInv, NEW h \in work, AnswerResume(h) PROVE ServesTyped(h)
<1>1. h.rq.kind = "resume" BY DEF AnswerResume, At
<1> QED BY <1>1, PlainSaid, RepliesOnceTyped DEF AnswerResume

LEMMA CheckDeferTyped == ASSUME IInv, TInv, NEW h \in work, CheckDefer(h) PROVE ServesTyped(h)
<1>1. h.rq.kind = "defer" BY DEF CheckDefer, At
<1> QED BY <1>1, PlainSaid, StoredSaid, RepliesTyped, RepliesOnceTyped, GoesTyped DEF CheckDefer

(* What becomes a range was a piece.                                       *)
LEMMA MaterializedTyped ==
  ASSUME IInv, TInv, srv' = Materialized(srv) \/ \E total : srv' = [Materialized(srv) EXCEPT !.total = total]
  PROVE  SrvTyped'
<1>1. PICK m : m = Materialized(srv) OBVIOUS
<1>2. /\ Session(m) /\ m.status = srv.status /\ m.stored = srv.stored /\ m.chunks = srv.chunks
      /\ \A p \in m.ranges : p \in srv.ranges \/ p \in Pieces(srv)
  <2>1. PICK fitting, ranges, partial :
           /\ fitting = {p \in Pieces(srv) : \A q \in Misfits(srv) : p.start < q.start}
           /\ ranges = srv.ranges \union fitting
           /\ partial = (srv.partial \/ ~(fitting \subseteq srv.ranges))
    OBVIOUS
  <2>2. m = [srv EXCEPT !.ranges = ranges, !.partial = partial] BY <1>1, <2>1 DEF Materialized
  <2>3. Session(srv) BY DEF IInv, SrvOk
  <2>4. m.ranges = ranges BY <2>2, <2>3 DEF Session
  <2> QED BY <1>1, <2>1, <2>4, MaterializedFacts
<1>3. srv' = m \/ \E total : srv' = [m EXCEPT !.total = total] BY <1>1
<1>4. /\ srv'.status = m.status /\ srv'.stored = m.stored
      /\ srv'.chunks = m.chunks /\ srv'.ranges = m.ranges
  BY <1>2, <1>3 DEF Session
<1> QED BY <1>2, <1>4 DEF TInv, SrvTyped, Pieces, ChunkSeqs

LEMMA BeginDeferTyped == ASSUME IInv, TInv, NEW h \in work, BeginDefer(h) PROVE ServesTyped(h)
<1>1. SrvTyped' BY MaterializedTyped DEF BeginDefer
<1> QED BY <1>1, PlainSaid, EndsTyped, GoesTyped DEF BeginDefer

LEMMA DeferTyped == ASSUME IInv, TInv, NEW h \in work, Defer(h) PROVE ServesTyped(h)
<1>1. h.rq.kind = "defer" /\ h.rq.end \in Nat BY WorkerFacts DEF Defer, At, Sound, Places
<1>2. PICK s : s = [srv EXCEPT !.status = "awaiting_repair", !.total = h.rq.end] OBVIOUS
<1>3. /\ Session(s) /\ s.status \in Statuses /\ s.stored = srv.stored
      /\ s.chunks = srv.chunks /\ s.ranges = srv.ranges
  BY <1>1, <1>2, WorkerFacts DEF Session, Statuses
<1>4. RepliesOnce(h, s, Ok(<<>>)) BY <1>2 DEF Defer
<1>5. UNCHANGED lane /\ FaultsTyped' BY <1>4 DEF RepliesOnce, Ends, TInv, FaultsTyped
<1> QED BY <1>1, <1>3, <1>4, <1>5, PlainSaid, RemembersTyped DEF RepliesOnce, Ends

(* The block to ask for is not empty.                                      *)
LEMMA FirstMissingFull ==
  ASSUME NEW s, NEW total \in Nat, Missing(s, total) # {}
  PROVE  FirstMissing(s, total).start < FirstMissing(s, total).end
<1> DEFINE M == Missing(s, total)
           from == Lowest(M)
           E == {e \in from + 1 .. from + BLOCK : from .. e - 1 \subseteq M}
<1>1. M \subseteq 0 .. total - 1 /\ M # {} BY MissingType
<1> HIDE DEF M
<1>2. from \in M /\ from \in Nat
  <2>1. M \in SUBSET Nat /\ M # {} BY <1>1
  <2> QED BY <2>1, LowestIs
<1>3. BLOCK \in Nat \ {0} BY BlockAssumption
<1> HIDE DEF from
<1>4. from + 1 \in E
  <2>1. from .. (from + 1) - 1 = {from} BY <1>2
  <2> QED BY <1>2, <1>3, <2>1
<1>5. E \in SUBSET (0 .. from + BLOCK) /\ from + BLOCK \in Nat BY <1>2, <1>3
<1>6. Highest(E) \in E
  <2> HIDE DEF E
  <2> QED BY <1>4, <1>5, HighestIs
<1>7. Highest(E) \in from + 1 .. from + BLOCK BY <1>6
<1>8. FirstMissing(s, total) = Piece(from, Highest(E)) BY DEF FirstMissing, from, M
<1> HIDE DEF E
<1> QED BY <1>2, <1>3, <1>7, <1>8 DEF Piece

LEMMA PlanSaid ==
  ASSUME IInv, NEW rq, NEW s
  PROVE  /\ Said(rq, Ok(PlanBody(s, card.pcm))) \/ rq.kind # "plan"
         /\ rq.kind = "plan" => Said(rq, Ok([PlanBody(s, card.pcm) EXCEPT !.complete = TRUE]))
<1>1. CardOk /\ card.pcm \in Nat BY DEF IInv, CardOk
<1>2. PICK b : b = PlanBody(s, card.pcm) OBVIOUS
<1>3. b \in [complete : BOOLEAN, covered : Places, next : {b.next}] BY <1>1, <1>2, PlanBodyType
<1>4. ~b.complete => b.next.start < b.next.end
  <2>1. PICK c, k, p : /\ c = (Missing(s, card.pcm) = {})
                       /\ p = IF c THEN Piece(0, 0) ELSE FirstMissing(s, card.pcm)
                       /\ b = [complete |-> c, covered |-> k, next |-> p]
    BY <1>2 DEF PlanBody
  <2>2. b.complete = c /\ b.next = p BY <2>1
  <2>3. ~c => p.start < p.end BY <1>1, <2>1, FirstMissingFull
  <2> QED BY <2>2, <2>3
<1>5. PICK d : d = [b EXCEPT !.complete = TRUE] OBVIOUS
<1>6. d.complete = TRUE BY <1>3, <1>5
<1>7. PICK a, e : a = Ok(b) /\ e = Ok(d) OBVIOUS
<1>8. a.class = "ok" /\ a.body = b /\ e.class = "ok" /\ e.body = d BY <1>7 DEF Ok
<1> QED BY <1>2, <1>4, <1>5, <1>6, <1>7, <1>8 DEF Said

LEMMA CheckPlanTyped == ASSUME IInv, TInv, NEW h \in work, CheckPlan(h) PROVE ServesTyped(h)
<1>1. h.rq.kind = "plan" /\ h.rq.end = card.pcm BY WorkerFacts DEF CheckPlan, At, Sound
<1> QED BY <1>1, PlanSaid, PlainSaid, RepliesTyped, GoesTyped DEF CheckPlan

LEMMA PlanTyped == ASSUME IInv, TInv, NEW h \in work, Plan(h) PROVE ServesTyped(h)
<1>1. h.rq.kind = "plan" /\ h.rq.end = card.pcm BY WorkerFacts DEF Plan, At, Sound
<1>2. SrvTyped' BY MaterializedTyped DEF Plan
<1>3. PICK a : Ends(h, a) /\ Said(h.rq, a) BY <1>1, PlanSaid, PlainSaid DEF Plan
<1> QED BY <1>2, <1>3, EndsTyped

LEMMA CheckRangeTyped == ASSUME IInv, TInv, NEW h \in work, CheckRange(h) PROVE ServesTyped(h)
<1>1. h.rq.kind = "range" BY DEF CheckRange, At
<1>2. Said(h.rq, AnswerRange(h, srv)) BY <1>1, PlainSaid DEF AnswerRange
<1> QED BY <1>2, PlainSaid, RepliesTyped, GoesTyped DEF CheckRange

LEMMA StoreRangeTyped == ASSUME IInv, TInv, NEW h \in work, StoreRange(h) PROVE ServesTyped(h)
<1>1. h.rq.kind = "range" BY DEF StoreRange, At
<1>2. \A s : Said(h.rq, AnswerRange(h, s)) BY <1>1, PlainSaid DEF AnswerRange
<1>3. CASE Replies(h, Refused) \/ Replies(h, AnswerRange(h, srv))
  BY <1>2, <1>3, PlainSaid, RepliesTyped
<1>4. CASE srv' = AddRange(srv, PieceOf(h.rq)) /\ Ends(h, AnswerRange(h, srv'))
  <2>1. PICK p, r : /\ p = PieceOf(h.rq) /\ r = srv.ranges \union {p}
                    /\ srv' = [srv EXCEPT !.ranges = r, !.partial = TRUE]
    BY <1>4 DEF AddRange
  <2>2. p.start < p.end BY <1>1, <2>1 DEF PieceOf, Piece, TInv, CallTyped, Asked
  <2>3. /\ srv'.status = srv.status /\ srv'.stored = srv.stored
        /\ srv'.chunks = srv.chunks /\ srv'.ranges = r
    BY <2>1, WorkerFacts DEF Session
  <2>4. SrvTyped' BY <2>1, <2>2, <2>3 DEF TInv, SrvTyped, Pieces, ChunkSeqs
  <2> QED BY <1>2, <1>4, <2>4, EndsTyped
<1> QED BY <1>3, <1>4 DEF StoreRange

(* The recording is taken over.                                            *)
LEMMA TakesOverTyped ==
  ASSUME IInv, TInv, NEW h \in work, h.rq.kind \in {"complete", "end"}, NEW kept, TakeOver(h, kept),
         Session(kept), kept.stored = srv.stored, kept.chunks = srv.chunks, kept.ranges = srv.ranges
  PROVE  ServesTyped(h)
<1>1. PICK queued \in BOOLEAN :
         /\ IF queued THEN UNCHANGED faults ELSE Fault("refused")
         /\ LET s == TakenOver(kept, queued)
            IN  /\ srv' = Remember(s, h.rq, Ok(s.status))
                /\ reply' = IF h.waited THEN OnceAnswered(s, h.rq, Ok(s.status)) ELSE reply
  BY DEF TakeOver
<1>2. PICK s :
         /\ s = TakenOver(kept, queued)
         /\ srv' = Remember(s, h.rq, Ok(s.status))
         /\ reply' = IF h.waited THEN OnceAnswered(s, h.rq, Ok(s.status)) ELSE reply
  BY <1>1
<1>3. PICK status \in {"processing", "failed"} :
         s = [kept EXCEPT !.status = status, !.cleaned = TRUE]
  BY <1>2 DEF TakenOver
<1>4. /\ Session(s) /\ s.status \in Statuses /\ s.stored = srv.stored
      /\ s.chunks = srv.chunks /\ s.ranges = srv.ranges
  BY <1>3 DEF Session, Statuses
<1>5. FaultsTyped' BY <1>1, FaultTyped DEF TInv, FaultsTyped
<1>6. Said(h.rq, Ok(s.status)) BY PlainSaid
<1> QED BY <1>2, <1>4, <1>5, <1>6, RemembersTyped DEF TakeOver

LEMMA CheckCompleteTyped == ASSUME IInv, TInv, NEW h \in work, CheckComplete(h) PROVE ServesTyped(h)
<1>1. h.rq.kind = "complete" BY DEF CheckComplete, At
<1> QED BY <1>1, PlainSaid, StoredSaid, RepliesTyped, RepliesOnceTyped, GoesTyped DEF CheckComplete

LEMMA CheckRangesTyped == ASSUME IInv, TInv, NEW h \in work, CheckRanges(h) PROVE ServesTyped(h)
<1>1. SrvTyped' BY MaterializedTyped DEF CheckRanges
<1> QED BY <1>1, PlainSaid, EndsTyped, GoesTyped DEF CheckRanges

LEMMA RenameFileTyped == ASSUME IInv, TInv, NEW h \in work, RenameFile(h) PROVE ServesTyped(h)
<1>1. PICK held : srv' = [srv EXCEPT !.final = TRUE, !.held = held, !.partial = FALSE]
  BY WorkerFacts DEF RenameFile, Filed, Session
<1>2. /\ srv'.status = srv.status /\ srv'.stored = srv.stored
      /\ srv'.chunks = srv.chunks /\ srv'.ranges = srv.ranges
  BY <1>1, WorkerFacts DEF Session
<1>3. SrvTyped' BY <1>2 DEF TInv, SrvTyped, Pieces, ChunkSeqs
<1> QED BY <1>3, GoesTyped DEF RenameFile

LEMMA CompleteTyped == ASSUME IInv, TInv, NEW h \in work, Complete(h) PROVE ServesTyped(h)
BY TakesOverTyped, WorkerFacts DEF Complete, At

LEMMA CheckEndTyped == ASSUME IInv, TInv, NEW h \in work, CheckEnd(h) PROVE ServesTyped(h)
<1>1. h.rq.kind = "end" BY DEF CheckEnd, At
<1> QED BY <1>1, PlainSaid, StoredSaid, RepliesTyped, GoesTyped DEF CheckEnd

LEMMA EndTyped == ASSUME IInv, TInv, NEW h \in work, End(h) PROVE ServesTyped(h)
<1>1. h.rq.kind = "end" BY DEF End, At
<1>2. CASE RepliesOnce(h, srv, Ok(srv.status)) BY <1>1, <1>2, PlainSaid, RepliesOnceTyped
<1>3. CASE Replies(h, Failing) BY <1>3, PlainSaid, RepliesTyped
<1>4. CASE \E held : TakeOver(h, [srv EXCEPT !.final = TRUE, !.held = held])
  <2>1. PICK held, kept : kept = [srv EXCEPT !.final = TRUE, !.held = held] /\ TakeOver(h, kept)
    BY <1>4
  <2>2. /\ Session(kept) /\ kept.stored = srv.stored /\ kept.chunks = srv.chunks
        /\ kept.ranges = srv.ranges
    BY <2>1, WorkerFacts DEF Session
  <2> QED BY <1>1, <2>1, <2>2, TakesOverTyped
<1> QED BY <1>2, <1>3, <1>4 DEF End, Filed

LEMMA PutMarkTyped == ASSUME IInv, TInv, NEW h \in work, PutMark(h) PROVE ServesTyped(h)
<1>1. h.rq.kind = "mark" BY DEF PutMark, At
<1>2. CASE \E a : Replies(h, a) /\ Said(h.rq, a) BY <1>2, RepliesTyped
<1>3. CASE \E marks : Ends(h, Ok(<<>>)) /\ srv' = [srv EXCEPT !.marks = marks]
  <2>1. /\ srv'.status = srv.status /\ srv'.stored = srv.stored
        /\ srv'.chunks = srv.chunks /\ srv'.ranges = srv.ranges
    BY <1>3, WorkerFacts DEF Session
  <2>2. SrvTyped' BY <2>1 DEF TInv, SrvTyped, Pieces, ChunkSeqs
  <2> QED BY <1>1, <1>3, <2>2, PlainSaid, EndsTyped
<1> QED BY <1>1, <1>2, <1>3, PlainSaid DEF PutMark

LEMMA PollTyped == ASSUME IInv, TInv, NEW h \in work, Poll(h) PROVE ServesTyped(h)
<1>1. h.rq.kind = "poll" BY DEF Poll, At
<1>2. PICK a, n : n = Contiguous(srv) /\ a = Ok(n) OBVIOUS
<1>3. n \in Nat BY <1>2, RunType, WorkerFacts DEF Contiguous, Cursors
<1>4. a.class = "ok" /\ a.body = n BY <1>2 DEF Ok
<1>5. Said(h.rq, a) BY <1>1, <1>3, <1>4 DEF Said
<1> QED BY <1>2, <1>5, RepliesTyped DEF Poll

LEMMA ServeTyped == ASSUME IInv, TInv, NEW h \in work, Serve(h) PROVE ServesTyped(h)
BY CreateTyped, CheckChunkTyped, StoreChunkTyped, CheckResumeTyped, OpenEpochTyped, AnswerResumeTyped,
   CheckDeferTyped, BeginDeferTyped, DeferTyped, CheckPlanTyped, PlanTyped, CheckRangeTyped,
   StoreRangeTyped, CheckCompleteTyped, CheckRangesTyped, RenameFileTyped, CompleteTyped,
   CheckEndTyped, EndTyped, PutMarkTyped, PollTyped DEF Serve

(* All handlers at once: together with Handles.                            *)
LEMMA HandlesTyped ==
  ASSUME IInv, TInv, NEW h \in work, Handles(h), ServesTyped(h)
  PROVE  TInv'
<1>1. UNCHANGED <<card, up, call, lane>> BY DEF Handles, ServesTyped
<1>2. CardTyped' /\ UpTyped(up)' /\ LaneTyped' BY <1>1 DEF TInv, CardTyped, UpTyped, LaneTyped
<1>3. SrvTyped' /\ FaultsTyped' BY DEF ServesTyped
<1>4. \A g \in work' : Asked(g.rq)
  <2>1. \A g \in work' : \E f \in work : g.rq = f.rq BY DEF Handles, Leaves, Moves
  <2> QED BY <2>1 DEF TInv, CallTyped
<1>5. Said(call.rq, reply)'
  <2>1. CASE reply' = reply BY <1>1, <2>1 DEF TInv, CallTyped
  <2>2. CASE reply' # reply
    <3>1. h.waited BY <2>2 DEF Handles, Leaves, Moves
    <3>2. h.rq = call.rq BY <3>1, WorkerFacts DEF Working
    <3> QED BY <1>1, <2>2, <3>2 DEF ServesTyped
  <2> QED BY <2>1, <2>2
<1>6. CallTyped' BY <1>1, <1>4, <1>5 DEF TInv, CallTyped
<1> QED BY <1>2, <1>3, <1>6 DEF TInv

-----------------------------------------------------------------------------
(* A step of the card: it goes on, it asks, or it does not wait any more.  *)

LEMMA TypedFacts ==
  ASSUME IInv, TInv
  PROVE  /\ card.pcm \in Nat /\ card.pcm \in Positions /\ card.marks \subseteq Positions /\ MaxPcm \in Nat
         /\ Places \subseteq Positions /\ UpTyped(up) /\ up.acked \in Positions /\ up.gap \in Positions
         /\ UpOk /\ Said(call.rq, reply) /\ (call = NoCall => reply = NoReply)
         /\ lane \in [live : BOOLEAN, sync : BOOLEAN, gap : BOOLEAN, marksSent : SUBSET card.marks]
<1>1. card.pcm \in Nat /\ card.pcm \in Positions /\ card.marks \subseteq Positions /\ MaxPcm \in Nat
  BY UploadAssumption DEF IInv, CardOk, TInv, CardTyped
<1>2. Places \subseteq Positions BY <1>1 DEF Places, Positions
<1>3. UpTyped(up) /\ up.acked \in Positions /\ up.gap \in Positions
  BY <1>2, UpFacts DEF TInv, UpTyped
<1>4. Said(call.rq, reply) /\ (call = NoCall => reply = NoReply)
  BY UpFacts DEF TInv, CallTyped, Said
<1> QED BY <1>1, <1>2, <1>3, <1>4, UpFacts DEF TInv, LaneTyped

LEMMA QuietTyped ==
  ASSUME TInv, UNCHANGED <<call, reply, work, srv>>, CardTyped', UpTyped(up'), LaneTyped', FaultsTyped'
  PROVE  TInv'
BY DEF TInv, CallTyped, SrvTyped, Pieces, ChunkSeqs, UpTyped

LEMMA SendsTyped ==
  ASSUME TInv, NEW rq, Asked(rq), Send(rq), UNCHANGED <<card, lane, srv, faults>>,
         reply' = NoReply, UpTyped(up')
  PROVE  TInv'
<1>1. CardTyped' /\ LaneTyped' /\ SrvTyped' /\ FaultsTyped'
  BY SameTyped DEF TInv, CardTyped, LaneTyped
<1>2. PICK n, open :
         /\ n = [rq |-> rq, step |-> "begin", waited |-> TRUE, saw |-> "none", gap |-> 0, place |-> 0]
         /\ work' = work \union {n} /\ open = ~card.closed /\ call' = [rq |-> rq, open |-> open]
  BY DEF Send
<1>3. n.rq = rq /\ call'.rq = rq /\ call'.open \in BOOLEAN BY <1>2
<1>4. Said(call'.rq, reply') BY DEF Said, NoReply
<1>5. CallTyped' BY <1>2, <1>3, <1>4 DEF TInv, CallTyped
<1> QED BY <1>1, <1>5 DEF TInv, UpTyped

LEMMA IdleTyped ==
  ASSUME TInv, Idle, UNCHANGED srv, CardTyped', UpTyped(up'), LaneTyped', FaultsTyped',
         \A g \in work' : \E h \in work : g.rq = h.rq
  PROVE  TInv'
<1>1. SrvTyped' BY DEF TInv, SrvTyped, Pieces, ChunkSeqs
<1>2. Said(call'.rq, reply') BY DEF Said, Idle, NoReply
<1>3. call' = NoCall /\ call'.open \in BOOLEAN BY DEF Idle, NoCall
<1>4. CallTyped' BY <1>2, <1>3 DEF TInv, CallTyped
<1> QED BY <1>1, <1>4 DEF TInv, UpTyped

LEMMA SameCardTyped == ASSUME TInv, UNCHANGED card PROVE CardTyped'
BY DEF TInv, CardTyped

LEMMA SameLaneTyped == ASSUME TInv, UNCHANGED <<card, lane>> PROVE LaneTyped'
BY DEF TInv, LaneTyped

LEMMA SameFaultsTyped == ASSUME TInv, UNCHANGED faults PROVE FaultsTyped'
BY DEF TInv, FaultsTyped

-----------------------------------------------------------------------------
(* The recorder, the user and the task between two requests.               *)

LEMMA RecordingTyped == ASSUME IInv, TInv, Recording PROVE TInv'
<1>1. /\ card \in [pcm : Nat, closed : BOOLEAN, here : BOOLEAN, marks : {card.marks}]
      /\ card.pcm \in Nat /\ card.pcm <= MaxPcm /\ MaxPcm \in Nat
  BY TypedFacts DEF IInv, CardOk, Positions
<1>2. UNCHANGED <<up, lane, call, reply, work, srv, faults>>
  BY DEF Recording, Commit, SetMark, Close
<1>3. CardTyped' /\ card.marks \subseteq card'.marks
  <2>1. CASE Commit
    <3>1. card'.pcm = card.pcm + 1 /\ card'.marks = card.marks BY <1>1, <2>1 DEF Commit
    <3>2. card.pcm + 1 \in Positions BY <1>1, <2>1 DEF Commit, Positions
    <3> QED BY <3>1, <3>2, TypedFacts DEF CardTyped
  <2>2. CASE SetMark
    <3>1. PICK at \in card.pcm .. MaxPcm : \E marks :
             marks = card.marks \union {at} /\ card' = [card EXCEPT !.marks = marks]
      BY <2>2 DEF SetMark
    <3>2. card'.pcm = card.pcm /\ card'.marks = card.marks \union {at} BY <1>1, <3>1
    <3>3. at \in Positions BY <1>1 DEF Positions
    <3> QED BY <3>1, <3>2, <3>3, TypedFacts DEF CardTyped
  <2>3. CASE Close
    <3>1. PICK pcm \in card.pcm .. MaxPcm : card' = [card EXCEPT !.closed = TRUE, !.pcm = pcm]
      BY <2>3 DEF Close
    <3>2. card'.pcm = pcm /\ card'.marks = card.marks BY <1>1, <3>1
    <3>3. pcm \in Positions BY <1>1 DEF Positions
    <3> QED BY <3>2, <3>3, TypedFacts DEF CardTyped
  <2> QED BY <2>1, <2>2, <2>3 DEF Recording
<1>4. LaneTyped' BY <1>2, <1>3 DEF TInv, LaneTyped
<1> QED BY <1>2, <1>3, <1>4, TypedFacts, SameFaultsTyped, QuietTyped

LEMMA LaneStepTyped ==
  ASSUME IInv, TInv, UNCHANGED <<card, up, call, reply, work, srv>>, FaultsTyped',
         \/ lane' = lane
         \/ \E b \in BOOLEAN : \/ lane' = [lane EXCEPT !.live = b]
                               \/ lane' = [lane EXCEPT !.sync = b]
                               \/ lane' = [lane EXCEPT !.gap = b]
  PROVE  TInv'
<1>1. LaneTyped' BY TypedFacts DEF LaneTyped
<1> QED BY <1>1, TypedFacts, SameCardTyped, QuietTyped

LEMMA DeleteTyped == ASSUME IInv, TInv, Delete PROVE TInv'
<1>1. card' = [card EXCEPT !.here = FALSE] /\ UNCHANGED <<up, lane, call, reply, work, srv, faults>>
  BY DEF Delete
<1>2. card'.pcm = card.pcm /\ card'.marks = card.marks BY <1>1 DEF IInv, CardOk
<1>3. CardTyped' /\ LaneTyped' BY <1>1, <1>2 DEF TInv, CardTyped, LaneTyped
<1> QED BY <1>1, <1>3, TypedFacts, SameFaultsTyped, QuietTyped

LEMMA StagedTyped == ASSUME NEW u, UpTyped(u) PROVE UpTyped(Staged(u))
<1>1. PICK v : v = Staged(u) OBVIOUS
<1> QED BY <1>1 DEF UpTyped, Staged

LEMMA SaveTyped == ASSUME IInv, TInv, NEW u, UpTyped(u), Save(u) PROVE TInv'
BY SameCardTyped, SameLaneTyped, SameFaultsTyped, QuietTyped DEF Save

LEMMA RestageTyped == ASSUME IInv, TInv, Restage PROVE TInv'
<1>1. PICK u : UpTyped(u) /\ Save(Staged(u))
  <2>1. \A mode : \E u : u = [up EXCEPT !.mode = mode] /\ UpTyped(u)
    <3> TAKE mode
    <3>1. PICK u : u = [up EXCEPT !.mode = mode] OBVIOUS
    <3>2. UpTyped(u) BY <3>1, TypedFacts DEF UpTyped
    <3> QED BY <3>1, <3>2
  <2>2. \E u : u = [up EXCEPT !.deferred = TRUE, !.resume = FALSE] /\ UpTyped(u)
    <3>1. PICK u : u = [up EXCEPT !.deferred = TRUE, !.resume = FALSE] OBVIOUS
    <3>2. UpTyped(u) BY <3>1, TypedFacts DEF UpTyped
    <3> QED BY <3>1, <3>2
  <2> QED BY <2>1, <2>2 DEF Restage
<1> QED BY <1>1, StagedTyped, SaveTyped

LEMMA AsksTyped == ASSUME IInv, TInv, call = NoCall, NEW rq, Asked(rq), Sends(rq) PROVE TInv'
BY TypedFacts, SendsTyped DEF Sends

LEMMA MarkAsked == ASSUME IInv, TInv, card.marks # {} PROVE Asked(MarkRequest)
<1>1. PICK at \in card.marks : at = CHOOSE m \in card.marks : TRUE OBVIOUS
<1>2. at \in Positions /\ card.pcm \in Positions BY TypedFacts
<1>3. PICK end \in Positions : end = IF at > card.pcm THEN card.pcm ELSE at BY <1>2
<1>4. MarkRequest = Request("mark", 0, at, end) BY <1>1, <1>3 DEF MarkRequest
<1> QED BY <1>2, <1>4 DEF Asked, Request, Requests, Kinds

LEMMA ChunkAsked == ASSUME IInv, TInv, Lag > 0 PROVE Asked(NextChunk)
<1>1. /\ up.acked \in Nat /\ up.acked < card.pcm /\ CHUNK \in Nat \ {0} /\ up.next \in Nat /\ card.pcm \in Nat
      /\ card.pcm \in Positions /\ up.acked \in Positions
  BY TypedFacts, UpFacts, UploadAssumption DEF Places, Lag
<1>2. PICK end : end = IF Lag > CHUNK THEN up.acked + CHUNK ELSE card.pcm OBVIOUS
<1>3. end \in Positions /\ up.acked < end
  BY <1>1, <1>2, TypedFacts DEF Lag, Positions
<1>4. NextChunk = Request("chunk", up.next, up.acked, end) BY <1>2 DEF NextChunk
<1> QED BY <1>1, <1>3, <1>4 DEF Asked, Request, Requests, Kinds

LEMMA SendMarksTyped == ASSUME IInv, TInv, SendMarks PROVE TInv'
<1>1. CASE card.marks # {}
  <2>1. call = NoCall /\ Sends(MarkRequest) BY <1>1 DEF SendMarks, Turn
  <2> QED BY <1>1, <2>1, MarkAsked, AsksTyped
<1>2. CASE card.marks = {}
  <2>1. PICK u : u = [up EXCEPT !.marksAcked = TRUE] OBVIOUS
  <2>2. UpTyped(u) BY <2>1, TypedFacts DEF UpTyped
  <2>3. Save(Staged(u)) BY <1>2, <2>1 DEF SendMarks
  <2> QED BY <2>2, <2>3, StagedTyped, SaveTyped
<1> QED BY <1>1, <1>2

LEMMA AskTyped == ASSUME IInv, TInv, Ask PROVE TInv'
<1>1. call = NoCall BY DEF Ask, AskCreate, AskResume, AskDefer, AskPlan, AskChunk, AskEnd, AskLive, Turn
<1>2. 0 \in Positions /\ card.pcm \in Positions /\ up.gap \in Positions /\ card.pcm \in Nat
  BY TypedFacts DEF Positions
<1>3. \A kind \in Kinds \ {"chunk", "range"}, seq \in Nat, start, end \in Positions :
         Asked(Request(kind, seq, start, end))
  BY DEF Asked, Request, Requests, Kinds
<1>4. CASE AskCreate \/ AskResume \/ AskDefer \/ AskPlan
  BY <1>1, <1>2, <1>3, <1>4, AsksTyped DEF AskCreate, AskResume, AskDefer, AskPlan, Kinds
<1>5. CASE AskChunk
  <2>1. Lag > 0 BY <1>5, Zenon DEF AskChunk, Stage
  <2> QED BY <1>1, <1>5, <2>1, ChunkAsked, AsksTyped DEF AskChunk
<1>6. CASE AskEnd
  <2>1. Chunks \in Nat
    <3>1. CHUNK \in Nat \ {0} /\ card.pcm + CHUNK - 1 \in Nat BY <1>2, UploadAssumption
    <3>2. PICK n \in Nat, d \in Nat \ {0} : n = card.pcm + CHUNK - 1 /\ d = CHUNK BY <3>1
    <3>3. n \div d \in Nat OBVIOUS
    <3> QED BY <3>2, <3>3 DEF Chunks
  <2> QED BY <1>1, <1>2, <1>3, <1>6, <2>1, AsksTyped DEF AskEnd, Kinds
<1>7. CASE AskLive
  <2>1. CASE Sends(Request("poll", 0, 0, 0)) BY <1>1, <1>2, <1>3, <2>1, AsksTyped DEF Kinds
  <2>2. CASE card.marks # lane.marksSent /\ Sends(MarkRequest)
    <3>1. card.marks # {} BY <2>2, TypedFacts
    <3> QED BY <1>1, <2>2, <3>1, MarkAsked, AsksTyped
  <2>3. CASE Lag >= CHUNK /\ Sends(NextChunk)
    <3>1. Lag > 0
      <4>1. up.acked \in Nat /\ card.pcm \in Nat /\ CHUNK \in Nat \ {0}
        BY <1>2, UpFacts, UploadAssumption DEF Places
      <4> QED BY <2>3, <4>1 DEF Lag
    <3> QED BY <1>1, <2>3, <3>1, ChunkAsked, AsksTyped
  <2> QED BY <1>7, <2>1, <2>2, <2>3 DEF AskLive
<1> QED BY <1>4, <1>5, <1>6, <1>7 DEF Ask

-----------------------------------------------------------------------------
(* The task with an answer.                                                *)

LEMMA RetriedTyped == ASSUME IInv, TInv, NEW open PROVE UpTyped(Retried(up, open))
<1>1. PICK gap \in Positions : gap = IF up.resume THEN up.gap ELSE up.acked BY TypedFacts
<1>2. PICK v, w : /\ v = [up EXCEPT !.stopped = FALSE, !.resume = TRUE, !.gap = gap]
                  /\ w = [up EXCEPT !.stopped = FALSE]
  OBVIOUS
<1>3. UpTyped(v) /\ UpTyped(w) BY <1>2, TypedFacts DEF UpTyped
<1>4. Retried(up, open) = v \/ Retried(up, open) = w BY <1>1, <1>2 DEF Retried
<1> QED BY <1>3, <1>4

LEMMA CheckedTyped ==
  ASSUME IInv, TInv, NEW valid, NEW u, UpTyped(u)
  PROVE  UpTyped(Checked(valid, u))
BY StagedTyped, RetriedTyped DEF Checked

LEMMA TakenTyped ==
  ASSUME IInv, TInv, reply.class = "ok", call.rq.kind # "plan"
  PROVE  UpTyped(Taken(call.rq, reply.body))
<1>1. PICK rq, body : rq = call.rq /\ body = reply.body OBVIOUS
<1>2. UpTyped(up) /\ Sound(rq) /\ Said(rq, reply) BY <1>1, TypedFacts, UpFacts
<1>3. \A seq, acked : UpTyped([up EXCEPT !.next = seq, !.acked = acked])
  <2> TAKE seq, acked
  <2>1. PICK v : v = [up EXCEPT !.next = seq, !.acked = acked] OBVIOUS
  <2>2. UpTyped(v) BY <1>2, <2>1 DEF UpTyped
  <2> QED BY <2>1, <2>2
<1>4. \A acked : UpTyped([up EXCEPT !.acked = acked, !.final = TRUE])
  <2> TAKE acked
  <2>1. PICK v : v = [up EXCEPT !.acked = acked, !.final = TRUE] OBVIOUS
  <2>2. UpTyped(v) BY <1>2, <2>1 DEF UpTyped
  <2> QED BY <2>1, <2>2
<1>5. CASE rq.kind = "create"
  <2>1. PICK v : v = [up EXCEPT !.created = TRUE, !.next = body.seq, !.acked = body.acked] OBVIOUS
  <2>2. UpTyped(v) BY <1>2, <2>1 DEF UpTyped
  <2> QED BY <1>1, <1>5, <2>1, <2>2, CheckedTyped DEF Taken, Created
<1>6. CASE rq.kind = "resume"
  <2>1. rq.end \in Positions BY <1>2, <1>6, TypedFacts DEF Sound
  <2>2. PICK deferred \in BOOLEAN : deferred = (up.deferred \/ body.pending) OBVIOUS
  <2>3. PICK seq, end : seq = body.cursor.seq /\ end = rq.end OBVIOUS
  <2>4. PICK v : v = [up EXCEPT !.next = seq, !.acked = end, !.resume = FALSE, !.gap = end,
                                !.deferred = deferred]
    OBVIOUS
  <2>5. UpTyped(v) BY <1>2, <2>1, <2>2, <2>3, <2>4 DEF UpTyped
  <2> QED BY <1>1, <1>6, <2>2, <2>3, <2>4, <2>5, CheckedTyped DEF Taken, Resumed
<1>7. CASE rq.kind = "chunk"
  <2>1. UpTyped([up EXCEPT !.next = rq.seq + 1, !.acked = rq.end]) BY <1>3
  <2> QED BY <1>1, <1>7, <2>1, CheckedTyped DEF Taken, ChunkSent
<1>8. CASE rq.kind = "range"
  <2>1. PICK v : v = [up EXCEPT !.acked = body] OBVIOUS
  <2>2. UpTyped(v) BY <1>2, <2>1 DEF UpTyped
  <2> QED BY <1>1, <1>8, <2>1, <2>2, CheckedTyped DEF Taken, RangeSent
<1>9. CASE rq.kind = "mark"
  <2>1. PICK v : v = [up EXCEPT !.marksAcked = TRUE] OBVIOUS
  <2>2. UpTyped(v) BY <1>2, <2>1 DEF UpTyped
  <2> QED BY <1>1, <1>2, <1>9, <2>1, <2>2, StagedTyped DEF Taken, MarkSent
<1>10. CASE rq.kind = "poll"
  <2>1. body \in Nat BY <1>1, <1>2, <1>10 DEF Said
  <2>2. PICK n, v : n = body /\ v = [up EXCEPT !.result = n] OBVIOUS
  <2>3. body <= up.acked => UpTyped(v)
    <3>1. body <= up.acked => n \in Positions BY <2>1, <2>2, TypedFacts DEF Positions
    <3> QED BY <1>2, <2>2, <3>1 DEF UpTyped
  <2>4. UpTyped(ResultRead(body)) BY <1>2, <2>2, <2>3, StagedTyped DEF ResultRead
  <2> QED BY <1>1, <1>10, <2>4 DEF Taken
<1>11. CASE rq.kind = "defer"
  <2>1. PICK v : v = [up EXCEPT !.deferAcked = TRUE, !.resume = FALSE] OBVIOUS
  <2>2. UpTyped(v) BY <1>2, <2>1 DEF UpTyped
  <2> QED BY <1>1, <1>11, <2>1, <2>2, StagedTyped DEF Taken, Deferred
<1>12. CASE rq.kind = "complete"
  <2>1. UpTyped([up EXCEPT !.acked = card.pcm, !.final = TRUE]) BY <1>4
  <2> QED BY <1>1, <1>12, <2>1, StagedTyped DEF Taken, Completed
<1>13. CASE rq.kind = "end"
  <2>1. PICK v : v = [up EXCEPT !.final = TRUE] OBVIOUS
  <2>2. UpTyped(v) BY <1>2, <2>1 DEF UpTyped
  <2> QED BY <1>1, <1>13, <2>1, <2>2, CheckedTyped DEF Taken, Ended
<1> QED BY <1>1, <1>2, <1>5, <1>6, <1>7, <1>8, <1>9, <1>10, <1>11, <1>12, <1>13 DEF Sound, Kinds

LEMMA AnswerTyped == ASSUME IInv, TInv, Receive \/ Rewind \/ Fail PROVE TInv'
<1>1. Idle /\ UNCHANGED <<card, work, srv, faults>> BY DEF Receive, Rewind, Fail
<1>2. UpTyped(up')
  <2>1. CASE Receive BY <2>1, TakenTyped DEF Receive
  <2>2. CASE Rewind
    <3>1. PICK next, acked : up' = Staged([up EXCEPT !.next = next, !.acked = acked])
      BY <2>2 DEF Rewind
    <3>2. PICK v : v = [up EXCEPT !.next = next, !.acked = acked] OBVIOUS
    <3>3. UpTyped(v) BY <3>2, TypedFacts DEF UpTyped
    <3> QED BY <3>1, <3>2, <3>3, StagedTyped
  <2>3. CASE Fail
    <3>1. PICK v : v = [up EXCEPT !.stopped = TRUE] OBVIOUS
    <3>2. UpTyped(v) BY <3>1, TypedFacts DEF UpTyped
    <3>3. up' = v \/ up' = Retried(up, call.open) BY <2>3, <3>1 DEF Fail, Fails, GivenUp
    <3> QED BY <3>2, <3>3, RetriedTyped
  <2> QED BY <2>1, <2>2, <2>3
<1>3. LaneTyped'
  <2>1. lane' = lane \/ lane' = [lane EXCEPT !.marksSent = card.marks] BY DEF Receive, Rewind, Fail
  <2> QED BY <1>1, <2>1, TypedFacts DEF LaneTyped
<1> QED BY <1>1, <1>2, <1>3, SameCardTyped, SameFaultsTyped, IdleTyped

LEMMA FollowTyped == ASSUME IInv, TInv, Follow PROVE TInv'
<1>1. /\ reply.class = "ok" /\ call.rq.kind = "plan" /\ reply' = NoReply
      /\ UNCHANGED <<card, lane, srv, faults>>
  BY DEF Follow
<1>2. \A acked : UpTyped(Staged([up EXCEPT !.acked = acked]))
  <2> TAKE acked
  <2>1. PICK v : v = [up EXCEPT !.acked = acked] OBVIOUS
  <2>2. UpTyped(v) BY <2>1, TypedFacts DEF UpTyped
  <2> QED BY <2>1, <2>2, StagedTyped
<1>3. PICK planned, done :
        /\ planned = Staged([up EXCEPT !.acked = reply.body.covered]) /\ UpTyped(planned)
        /\ done = Staged([up EXCEPT !.acked = card.pcm]) /\ UpTyped(done)
  BY <1>2
<1>4. ~reply.body.complete => Asked(RangeRequest(reply.body.next))
  <2> SUFFICES ASSUME ~reply.body.complete PROVE Asked(RangeRequest(reply.body.next)) OBVIOUS
  <2>1. PICK p : p = reply.body.next OBVIOUS
  <2>2. p.start \in Nat /\ p.end \in Places /\ p.start < p.end
    BY <1>1, <2>1, TypedFacts, UpFacts DEF Good, Said
  <2>3. p.start \in Positions /\ p.end \in Positions
    BY <2>2, TypedFacts DEF Positions, Places
  <2> QED BY <2>1, <2>2, <2>3 DEF RangeRequest, Request, Asked, Requests, Kinds
<1>5. Asked(Request("complete", 0, 0, card.pcm))
  <2>1. 0 \in Positions /\ card.pcm \in Positions BY TypedFacts DEF Positions
  <2> QED BY <2>1 DEF Asked, Request, Requests, Kinds
<1>6. \/ ~reply.body.complete /\ up' = planned /\ Send(RangeRequest(reply.body.next))
      \/ up' = done /\ Send(Request("complete", 0, 0, card.pcm))
      \/ up' = [done EXCEPT !.marksAcked = TRUE] /\ call' = NoCall /\ UNCHANGED work
      \/ card.marks # {} /\ up' = done /\ Send(MarkRequest)
  BY <1>3 DEF Follow
<1>7. CASE up' = [done EXCEPT !.marksAcked = TRUE] /\ call' = NoCall /\ UNCHANGED work
  <2>1. PICK u : u = [done EXCEPT !.marksAcked = TRUE] OBVIOUS
  <2>2. UpTyped(u) BY <1>3, <2>1 DEF UpTyped
  <2>3. Idle BY <1>1, <1>7 DEF Idle
  <2> QED BY <1>1, <1>7, <2>1, <2>2, <2>3, SameCardTyped, SameLaneTyped, SameFaultsTyped, IdleTyped
<1>8. CASE \E rq : Asked(rq) /\ Send(rq) /\ up' \in {planned, done} BY <1>1, <1>3, <1>8, SendsTyped
<1> QED BY <1>4, <1>5, <1>6, <1>7, <1>8, MarkAsked

LEMMA MarkGapTyped == ASSUME IInv, TInv, MarkGap PROVE TInv'
<1>1. UNCHANGED <<card, call, reply, work, srv, faults>> /\ lane' = [lane EXCEPT !.gap = FALSE]
  BY DEF MarkGap
<1>2. LaneTyped' BY <1>1, TypedFacts DEF LaneTyped
<1>3. UpTyped(up')
  <2>1. CASE up' = up BY <2>1, TypedFacts
  <2>2. CASE up' # up
    <3>1. PICK gap \in Positions : gap = IF up.resume THEN up.gap ELSE up.acked BY TypedFacts
    <3>2. PICK deferred \in BOOLEAN : deferred = (up.deferred \/ (card.closed /\ card.pcm > gap))
      OBVIOUS
    <3>3. up' = [up EXCEPT !.gap = gap, !.resume = TRUE, !.deferred = deferred]
      BY <2>2, <3>1, <3>2 DEF MarkGap
    <3>4. PICK v : v = [up EXCEPT !.gap = gap, !.resume = TRUE, !.deferred = deferred] OBVIOUS
    <3>5. UpTyped(v) BY <3>4, TypedFacts DEF UpTyped
    <3> QED BY <3>3, <3>4, <3>5
  <2> QED BY <2>1, <2>2
<1> QED BY <1>1, <1>2, <1>3, SameCardTyped, SameFaultsTyped, QuietTyped

LEMMA LeftTyped ==
  ASSUME IInv, Lose \/ Leave \/ UNCHANGED work
  PROVE  \A g \in work' : \E h \in work : g.rq = h.rq
<1> SUFFICES ASSUME NEW g \in work' PROVE \E h \in work : g.rq = h.rq OBVIOUS
<1>1. PICK h \in work : g = h \/ g = [h EXCEPT !.waited = FALSE] BY DEF Lose, Leave, Awaited
<1>2. g.rq = h.rq BY <1>1, WorkerFacts
<1> QED BY <1>2

LEMMA GiveUpTyped == ASSUME IInv, TInv, GiveUp PROVE TInv'
<1>1. FaultsTyped' BY FaultTyped DEF GiveUp
<1>2. UpTyped(up') BY RetriedTyped DEF GiveUp
<1> QED BY <1>1, <1>2, LeftTyped, SameCardTyped, SameLaneTyped, IdleTyped DEF GiveUp

LEMMA ResetTyped == ASSUME IInv, TInv, Reset PROVE TInv'
<1>1. FaultsTyped' BY FaultTyped DEF Reset
<1>2. PICK pcm \in card.pcm .. MaxPcm :
         card' = [card EXCEPT !.closed = TRUE, !.pcm = IF card.closed THEN card.pcm ELSE pcm]
  BY DEF Reset
<1>3. PICK n \in Positions : n = IF card.closed THEN card.pcm ELSE pcm
  BY TypedFacts DEF Positions
<1>4. card' = [card EXCEPT !.closed = TRUE, !.pcm = n] BY <1>2, <1>3
<1>5. card'.pcm = n /\ card'.marks = card.marks BY <1>4 DEF IInv, CardOk
<1>6. CardTyped' BY <1>5, TypedFacts DEF CardTyped
<1>7. LaneTyped' BY DEF Reset, LaneTyped
<1>8. UpTyped(up') BY TypedFacts DEF Reset
<1> QED BY <1>1, <1>6, <1>7, <1>8, LeftTyped, IdleTyped DEF Reset

LEMMA RestartTyped == ASSUME IInv, TInv, Restart PROVE TInv'
<1>1. UNCHANGED <<card, up, lane, call, srv>> /\ work' = {} BY DEF Restart
<1>2. FaultsTyped' BY FaultTyped DEF Restart
<1>3. SrvTyped' BY <1>1 DEF TInv, SrvTyped, Pieces, ChunkSeqs
<1>4. Said(call.rq, reply')
  <2>1. reply' = Failing \/ reply' = reply BY DEF Restart
  <2> QED BY <2>1, PlainSaid, TypedFacts
<1>5. CallTyped' BY <1>1, <1>4 DEF TInv, CallTyped
<1>6. CardTyped' /\ UpTyped(up)' /\ LaneTyped' BY <1>1, SameCardTyped, SameLaneTyped DEF TInv, UpTyped
<1> QED BY <1>2, <1>3, <1>5, <1>6 DEF TInv

LEMMA NextTyped == ASSUME IInv, TInv, [Next]_vars PROVE TInv'
<1>1. CASE UNCHANGED vars BY <1>1, SameFaultsTyped, LaneStepTyped DEF vars
<1>2. CASE Recording BY <1>2, RecordingTyped
<1>3. CASE Task
  <2>1. CASE ReleaseLane \/ EndSync
    BY <2>1, SameFaultsTyped, LaneStepTyped DEF ReleaseLane, EndSync
  <2> QED BY <1>3, <2>1, DeleteTyped, RestageTyped, SendMarksTyped, AskTyped, AnswerTyped,
             FollowTyped, MarkGapTyped DEF Task
<1>4. CASE RequestSync BY <1>4, SameFaultsTyped, LaneStepTyped DEF RequestSync
<1>5. CASE Faults
  <2>1. CASE Disconnect BY <2>1, FaultTyped, LaneStepTyped DEF Disconnect
  <2> QED BY <1>5, <2>1, GiveUpTyped, ResetTyped, RestartTyped DEF Faults
<1>6. CASE \E h \in work : Serve(h) BY <1>6, ServeHandles, ServeTyped, HandlesTyped
<1> QED BY <1>1, <1>2, <1>3, <1>4, <1>5, <1>6 DEF Next

(* Every place stays within the recording, no piece on the server is empty *)
(* and the card waits for one request, whose answer fits it: the types of  *)
(* upload.state (upload_store.c), of the session (device_api_v1.py) and of *)
(* what passes between them.                                               *)
THEOREM TypeCorrect == Spec => []TypeOK
<1>1. Spec => []IInv BY SpecInv
<1>2. Init => TInv BY InitTyped
<1>3. IInv /\ TInv /\ [Next]_vars => TInv' BY NextTyped
<1>4. IInv /\ TInv => TypeOK BY TypedIsTypeOK
<1> QED BY <1>1, <1>2, <1>3, <1>4, PTL DEF Spec
=============================================================================
