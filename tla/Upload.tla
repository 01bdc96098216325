------------------------------- MODULE Upload -------------------------------
(***************************************************************************)
(* One recording on its way from the card to the server: the uploader task *)
(* of the card (net_uploader.c), the upload.state it keeps beside the      *)
(* recording (upload_store.c), the session the server keeps of it          *)
(* (device_api_v1.py, UploadSession), and a network that loses requests    *)
(* and replies.                                                            *)
(*                                                                         *)
(* The card waits for one request at a time.  The server does not cancel a *)
(* handler whose client is gone, so a request the card has given up may    *)
(* still be at work beside the ones that follow.  A handler is a coroutine *)
(* and runs until it awaits; what it read before may have changed when it  *)
(* goes on.                                                                *)
(***************************************************************************)
EXTENDS UploadSession

CONSTANTS
    MaxPcm,      \* longest recording, in units of half a chunk
    CHUNK,       \* CHUNK_BYTES
    MaxMarks,    \* marks the user sets: at most one
    FaultKinds,  \* what may go wrong: "lost" (a request or its answer), "late" (the
                 \* answer), "offline", "reset" (of the card), "crash" (of the
                 \* server), "refused" (its job queue does not take a job)
    MaxFaults    \* bound on faults and marks together

ASSUME UploadAssumption ==
    /\ MaxPcm \in Nat \ {0} /\ CHUNK \in Nat \ {0}
    /\ MaxMarks \in {0, 1}
    /\ FaultKinds \subseteq {"lost", "late", "offline", "reset", "crash", "refused"}
    /\ MaxFaults \in Nat

VARIABLES
    card,     \* the recording: committed audio, closed, still there, its marks
    up,       \* upload.state
    lane,     \* memory of the task: live lane, manual sync, gap signal, marks sent
    call,     \* the request the task waits for, if any
    reply,    \* its answer on the way back, if any
    work,     \* the requests at the server
    srv,      \* the session on the server
    faults    \* how many faults there were, and of what kinds

vars == <<card, up, lane, call, reply, work, srv, faults>>

Request(kind, seq, start, end) ==
    [kind |-> kind, seq |-> seq, start |-> start, end |-> end]
NoCall == [rq |-> Request("none", 0, 0, 0), open |-> FALSE]
NoReply == [class |-> "none", body |-> <<>>]
Fault(kind) ==
    /\ kind \in FaultKinds /\ faults.count + Cardinality(card.marks) < MaxFaults
    /\ faults' = [count |-> faults.count + 1, kinds |-> faults.kinds \union {kind}]

-----------------------------------------------------------------------------
(* The handlers of the server.  A handler has its request, the await it    *)
(* stands at, whether the card still waits for it, the status it read and  *)
(* its place in the queue for the lock of the session.                     *)

Queue == {h \in work : h.step = "lock"}
Locked == \E h \in work : h.step \in {"resumed", "deferring", "finishing", "renamed"}
(* Wrong variant of GetsLock: waiting handlers may overtake each other.     *)
GetsLockAnyhow(h) == ~Locked /\ h \in Queue
GetsLock(h) == ~Locked /\ \A g \in Queue : h.place <= g.place

Ends(h, a) ==
    /\ work' = work \ {h}
    /\ reply' = IF h.waited THEN a ELSE reply
    /\ UNCHANGED <<card, up, lane, call, faults>>
Replies(h, a) == Ends(h, a) /\ UNCHANGED srv
RepliesOnce(h, s, a) ==
    /\ Ends(h, OnceAnswered(s, h.rq, a))
    /\ srv' = Remember(s, h.rq, a)
Last(queue) == IF queue = {} THEN 0 ELSE Highest({g.place : g \in queue})
GoesOn(h, step) ==
    /\ work' = (work \ {h}) \union
          {[h EXCEPT !.step = step, !.saw = srv.status,
              !.place = IF step = "lock" THEN 1 + Last(Queue) ELSE 0]}
    /\ UNCHANGED <<card, up, lane, call, reply, faults>>
At(h, kind, step) == h.rq.kind = kind /\ h.step = step
PieceOf(rq) == Piece(rq.start, rq.end)

Create(h) ==
    /\ At(h, "create", "begin")
    /\ Ends(h, Ok(LiveCursor(srv)))
    /\ srv' = IF srv.status = "none" THEN [srv EXCEPT !.status = "uploading"] ELSE srv

(* A chunk that is known is answered; a new one must fit, then awaits the  *)
(* start of the recogniser and is stored without a second look at the      *)
(* status or at what it overlaps: only its number is unique.               *)
AnswerChunk(h, s) ==
    IF s.chunks[h.rq.seq] = PieceOf(h.rq)
    THEN Ok([at |-> h.rq.seq, cursor |-> LiveCursor(s)]) ELSE Refused
CheckChunk(h) ==
    /\ At(h, "chunk", "begin")
    /\ IF h.rq.seq \in ChunkSeqs(srv) THEN Replies(h, AnswerChunk(h, srv))
       ELSE IF \/ srv.status # "uploading"
               \/ \E p \in Pieces(srv) : Overlap(p, PieceOf(h.rq))
       THEN Replies(h, Refused)
       ELSE GoesOn(h, "store") /\ UNCHANGED srv
StoreChunk(h) ==
    /\ At(h, "chunk", "store")
    /\ IF h.rq.seq \in ChunkSeqs(srv) THEN Replies(h, AnswerChunk(h, srv))
       ELSE /\ srv' = AddChunk(srv, h.rq.seq, PieceOf(h.rq))
            /\ Ends(h, AnswerChunk(h, srv'))

(* The answer of a resume is put together when the recogniser of the new   *)
(* epoch has been started, which is awaited under the lock of the session. *)
CheckResume(h) ==
    /\ At(h, "resume", "begin")
    /\ IF srv.status # "uploading" THEN Replies(h, Refused)
       ELSE IF Answered(srv, h.rq) # {}
       THEN Replies(h, Ok([StoredAnswer(srv, h.rq).body EXCEPT !.cursor = LiveCursor(srv)]))
       ELSE GoesOn(h, "lock") /\ UNCHANGED srv
OpenEpoch(h) ==
    /\ At(h, "resume", "lock") /\ GetsLock(h)
    /\ LET gap == ResumeGap(srv, h.rq.start)
       IN  IF gap > h.rq.end THEN Replies(h, Refused)
           ELSE /\ srv' = IF KnownEpoch(srv, gap, h.rq.end) THEN srv
                          ELSE AddEpoch(srv, gap, h.rq.end)
                /\ work' = (work \ {h}) \union {[h EXCEPT !.step = "resumed", !.gap = gap]}
                /\ UNCHANGED <<card, up, lane, call, reply, faults>>
AnswerResume(h) ==
    /\ At(h, "resume", "resumed")
    /\ RepliesOnce(h, srv, Ok([pending |-> h.rq.end > h.gap, cursor |-> LiveCursor(srv)]))

CheckDefer(h) ==
    /\ At(h, "defer", "begin")
    /\ IF Answered(srv, h.rq) # {} THEN Replies(h, StoredAnswer(srv, h.rq))
       ELSE IF srv.status = "awaiting_repair" THEN RepliesOnce(h, srv, Ok(<<>>))
       ELSE IF srv.status # "uploading" THEN Replies(h, Refused)
       ELSE GoesOn(h, "lock") /\ UNCHANGED srv
BeginDefer(h) ==
    /\ At(h, "defer", "lock") /\ GetsLock(h)
    /\ srv' = Materialized(srv)
    /\ IF Misfits(srv) # {} THEN Ends(h, Refused) ELSE GoesOn(h, "deferring")
Defer(h) ==
    /\ At(h, "defer", "deferring")
    /\ RepliesOnce(h, [srv EXCEPT !.status = "awaiting_repair", !.total = h.rq.end], Ok(<<>>))

PlanBody(s, total) ==
    [complete |-> Missing(s, total) = {},
     covered |-> total - Cardinality(Missing(s, total)),
     next |-> IF Missing(s, total) = {} THEN Piece(0, 0) ELSE FirstMissing(s, total)]
CheckPlan(h) ==
    /\ At(h, "plan", "begin")
    /\ IF srv.status = "processing"
       THEN Replies(h, Ok([PlanBody(srv, h.rq.end) EXCEPT !.complete = TRUE]))
       ELSE IF ~Uploading(srv) \/ srv.total \notin {0, h.rq.end} THEN Replies(h, Refused)
       ELSE GoesOn(h, "lock") /\ UNCHANGED srv
Plan(h) ==
    /\ At(h, "plan", "lock") /\ GetsLock(h)
    /\ srv' = [Materialized(srv) EXCEPT
                  !.total = IF Misfits(srv) = {} THEN h.rq.end ELSE @]
    /\ Ends(h, IF Misfits(srv) # {} THEN Refused ELSE Ok(PlanBody(srv', h.rq.end)))

(* A range that is there already is answered; a new one is received, and   *)
(* looked at again under the lock.                                         *)
Beginning(s, p) == {r \in s.ranges : r.start = p.start}
AnswerRange(h, s) ==
    IF Beginning(s, PieceOf(h.rq)) = {PieceOf(h.rq)}
    THEN Ok(s.total - Cardinality(Missing(s, s.total))) ELSE Refused
CheckRange(h) ==
    /\ At(h, "range", "begin")
    /\ IF ~Uploading(srv) \/ srv.total = 0 \/ h.rq.end > srv.total THEN Replies(h, Refused)
       ELSE IF Beginning(srv, PieceOf(h.rq)) # {} THEN Replies(h, AnswerRange(h, srv))
       ELSE GoesOn(h, "lock") /\ UNCHANGED srv
StoreRange(h) ==
    /\ At(h, "range", "lock") /\ GetsLock(h)
    /\ IF ~Uploading(srv) THEN Replies(h, Refused)
       ELSE IF Beginning(srv, PieceOf(h.rq)) # {} THEN Replies(h, AnswerRange(h, srv))
       ELSE IF \E r \in srv.ranges : Overlap(r, PieceOf(h.rq)) THEN Replies(h, Refused)
       ELSE /\ srv' = AddRange(srv, PieceOf(h.rq))
            /\ Ends(h, AnswerRange(h, srv'))

(* The recording is the server's; the job that processes it is queued, or  *)
(* cannot be.                                                              *)
TakeOver(h, kept) ==
    \E queued \in BOOLEAN :
       /\ IF queued THEN UNCHANGED faults ELSE Fault("refused")
       /\ LET s == TakenOver(kept, queued)
          IN  /\ srv' = Remember(s, h.rq, Ok(s.status))
              /\ reply' = IF h.waited THEN OnceAnswered(s, h.rq, Ok(s.status)) ELSE reply
       /\ work' = work \ {h}
       /\ UNCHANGED <<card, up, lane, call>>

(* Taking a recording over from its ranges: every unit must be covered and *)
(* the partial file be there.  The file is renamed before the database     *)
(* learns of it, and a restart may come in between.                        *)
CheckComplete(h) ==
    /\ At(h, "complete", "begin")
    /\ IF Answered(srv, h.rq) # {} THEN Replies(h, StoredAnswer(srv, h.rq))
       ELSE IF Accepted(srv) THEN RepliesOnce(h, srv, Ok(srv.status))
       ELSE GoesOn(h, "lock") /\ UNCHANGED srv
CheckRanges(h) ==
    /\ At(h, "complete", "lock") /\ GetsLock(h)
    /\ srv' = Materialized(srv)
    /\ IF Misfits(srv) # {} \/ Missing(srv', h.rq.end) # {} \/ ~srv'.partial
       THEN Ends(h, Refused) ELSE GoesOn(h, "finishing")
RenameFile(h) ==
    /\ At(h, "complete", "finishing")
    /\ srv' = [Filed(srv, Covered(srv.ranges)) EXCEPT !.partial = FALSE]
    /\ GoesOn(h, "renamed")
Complete(h) ==
    /\ At(h, "complete", "renamed")
    /\ TakeOver(h, srv)

(* Taking a recording over from its chunks.                                *)
CheckEnd(h) ==
    /\ At(h, "end", "begin")
    /\ IF Answered(srv, h.rq) # {} THEN Replies(h, StoredAnswer(srv, h.rq))
       ELSE IF \E q \in ChunkSeqs(srv) : q >= h.rq.seq THEN Replies(h, Refused)
       ELSE IF MissingSeqs(srv, h.rq.seq) # {}
       THEN Replies(h, MissingFrom(Lowest(MissingSeqs(srv, h.rq.seq))))
       ELSE IF ~Lined(srv, h.rq.seq, h.rq.end) THEN Replies(h, Refused)
       ELSE GoesOn(h, "ending") /\ UNCHANGED srv
End(h) ==
    /\ At(h, "end", "ending")
    /\ IF h.saw # "uploading" THEN RepliesOnce(h, srv, Ok(srv.status))
       ELSE IF srv.cleaned THEN Replies(h, Failing)
       ELSE TakeOver(h, Filed(srv, Covered({srv.chunks[q] : q \in 0 .. h.rq.seq - 1})))

(* start is the line of the mark, end the place it was clipped to. *)
PutMark(h) ==
    /\ At(h, "mark", "begin")
    /\ LET known == {m \in srv.marks : m.at = h.rq.start}
           mark == [at |-> h.rq.start, offset |-> h.rq.end]
       IN  IF known # {} THEN Replies(h, IF known = {mark} THEN Ok(<<>>) ELSE Refused)
           ELSE IF srv.status # "uploading" THEN Replies(h, Refused)
           ELSE Ends(h, Ok(<<>>)) /\ srv' = [srv EXCEPT !.marks = @ \union {mark}]
Poll(h) ==
    /\ At(h, "poll", "begin")
    /\ Replies(h, Ok(Contiguous(srv)))

Serve(h) ==
    \/ Create(h) \/ CheckChunk(h) \/ StoreChunk(h)
    \/ CheckResume(h) \/ OpenEpoch(h) \/ AnswerResume(h)
    \/ CheckDefer(h) \/ BeginDefer(h) \/ Defer(h)
    \/ CheckPlan(h) \/ Plan(h) \/ CheckRange(h) \/ StoreRange(h)
    \/ CheckComplete(h) \/ CheckRanges(h) \/ RenameFile(h) \/ Complete(h)
    \/ CheckEnd(h) \/ End(h) \/ PutMark(h) \/ Poll(h)

Restart ==
    /\ Fault("crash") /\ work # {}
    /\ work' = {}
    /\ reply' = IF \E h \in work : h.waited THEN Failing ELSE reply
    /\ UNCHANGED <<card, up, lane, call, srv>>

-----------------------------------------------------------------------------
(* The recording on the card. *)

Commit ==
    /\ ~card.closed /\ card.pcm < MaxPcm
    /\ card' = [card EXCEPT !.pcm = @ + 1]
    /\ UNCHANGED <<up, lane, call, reply, work, srv, faults>>
(* The user marks a moment; the audio up to it may not be committed yet. *)
SetMark ==
    /\ ~card.closed /\ Cardinality(card.marks) < MaxMarks
    /\ faults.count < MaxFaults
    /\ \E at \in card.pcm .. MaxPcm : card' = [card EXCEPT !.marks = @ \union {at}]
    /\ UNCHANGED <<up, lane, call, reply, work, srv, faults>>
Close ==
    /\ ~card.closed
    /\ \E pcm \in card.pcm .. MaxPcm : card' = [card EXCEPT !.closed = TRUE, !.pcm = pcm]
    /\ UNCHANGED <<up, lane, call, reply, work, srv, faults>>

-----------------------------------------------------------------------------
(* The uploader task between two requests. *)

Lag == card.pcm - up.acked
InRanges == up.mode # "live"

(* The live lane has the recording in progress, and goes on with it after  *)
(* it is closed; a manual sync takes what is closed and not given up.      *)
Released ==
    \/ ~card.here
    \/ ~card.closed /\ up.stopped
    \/ card.closed /\ up.deferred /\ ~lane.sync /\ (~up.created \/ up.deferAcked)
ReleaseLane ==
    /\ call = NoCall /\ lane.live /\ Released
    /\ lane' = [lane EXCEPT !.live = FALSE]
    /\ UNCHANGED <<card, up, call, reply, work, srv, faults>>

Turn ==
    /\ call = NoCall /\ card.here
    /\ \/ ~card.closed /\ ~up.stopped
       \/ card.closed /\ lane.live /\ ~Released
       \/ card.closed /\ ~lane.live /\ lane.sync /\ ~up.stopped

Send(rq) ==
    /\ call' = [rq |-> rq, open |-> ~card.closed]
    /\ work' = work \union
        {[rq |-> rq, step |-> "begin", waited |-> TRUE, saw |-> "none", gap |-> 0, place |-> 0]}
Sends(rq) == Send(rq) /\ UNCHANGED <<card, up, lane, reply, srv, faults>>
Save(u) == up' = u /\ UNCHANGED <<card, lane, call, reply, work, srv, faults>>
Staged(u) == [u EXCEPT !.stopped = FALSE]

(* The stage the item is at: the order of process_upload_item.             *)
Resumes == up.resume /\ ~card.closed
Settles == card.closed /\ up.mode = "live"
Defers == up.deferred /\ up.created
Stage ==
    IF up.final THEN "delete"
    ELSE IF Resumes THEN IF up.created THEN "resume" ELSE "create"
    ELSE IF Settles /\ up.resume /\ Lag > 0 THEN "to_deferred"
    ELSE IF Settles /\ Defers THEN
         IF ~up.marksAcked THEN "marks" ELSE IF ~up.deferAcked THEN "defer"
         ELSE IF lane.sync THEN "to_repair" ELSE "wait"
    ELSE IF Settles /\ (~up.created \/ up.acked = 0) THEN
         IF up.deferred /\ ~lane.sync THEN "wait" ELSE "to_bulk"
    ELSE IF Settles /\ Lag >= CHUNK THEN "to_repair"
    ELSE IF ~up.created THEN "create"
    ELSE IF InRanges THEN "plan"
    ELSE IF ~card.closed THEN "live"
    ELSE IF Lag > 0 THEN "chunk"
    ELSE IF ~up.marksAcked THEN "marks"
    ELSE "end"

MarkRequest ==
    LET at == CHOOSE m \in card.marks : TRUE
    IN  Request("mark", 0, at, IF at > card.pcm THEN card.pcm ELSE at)
NextChunk ==
    Request("chunk", up.next, up.acked, IF Lag > CHUNK THEN up.acked + CHUNK ELSE card.pcm)
RangeRequest(p) == Request("range", 0, p.start, p.end)
Chunks == (card.pcm + CHUNK - 1) \div CHUNK

Delete ==
    /\ Turn /\ Stage = "delete"
    /\ card' = [card EXCEPT !.here = FALSE]
    /\ UNCHANGED <<up, lane, call, reply, work, srv, faults>>
(* Wrong variant of Restage: a live recording is never turned to repair.    *)
RestageOnce ==
    /\ Turn
    /\ \/ /\ Stage = "to_deferred"
          /\ Save(Staged([up EXCEPT !.deferred = TRUE, !.resume = FALSE]))
       \/ /\ Stage = "to_bulk"
          /\ Save(Staged([up EXCEPT !.mode = "bulk"]))
Restage ==
    /\ Turn
    /\ \/ /\ Stage = "to_deferred"
          /\ Save(Staged([up EXCEPT !.deferred = TRUE, !.resume = FALSE]))
       \/ /\ Stage = "to_repair"
          /\ Save(Staged([up EXCEPT !.mode = "repair"]))
       \/ /\ Stage = "to_bulk"
          /\ Save(Staged([up EXCEPT !.mode = "bulk"]))
SendMarks ==
    /\ Turn /\ Stage = "marks"
    /\ IF card.marks = {} THEN Save(Staged([up EXCEPT !.marksAcked = TRUE]))
       ELSE Sends(MarkRequest)
AskCreate == Turn /\ Stage = "create" /\ Sends(Request("create", 0, 0, 0))
AskResume == Turn /\ Stage = "resume" /\ Sends(Request("resume", 0, up.gap, card.pcm))
AskDefer == Turn /\ Stage = "defer" /\ Sends(Request("defer", 0, 0, card.pcm))
AskPlan == Turn /\ Stage = "plan" /\ Sends(Request("plan", 0, 0, card.pcm))
AskChunk == Turn /\ Stage = "chunk" /\ Sends(NextChunk)
AskEnd == Turn /\ Stage = "end" /\ Sends(Request("end", Chunks, 0, card.pcm))
(* While it records: a poll now and then, then marks, then whole chunks.   *)
AskLive ==
    /\ Turn /\ Stage = "live"
    /\ \/ Sends(Request("poll", 0, 0, 0))
       \/ card.marks # lane.marksSent /\ Sends(MarkRequest)
       \/ card.marks = lane.marksSent /\ Lag >= CHUNK /\ Sends(NextChunk)
Ask == \/ AskCreate \/ AskResume \/ AskDefer \/ AskPlan
       \/ AskChunk \/ AskEnd \/ AskLive

-----------------------------------------------------------------------------
(* The uploader task with an answer. *)

(* retry_item: what the network did wrong is tried again, and a recording  *)
(* in progress then goes on from where it is; what was refused is given up. *)
Retried(u, open) ==
    IF open /\ u.mode = "live"
    THEN [u EXCEPT !.stopped = FALSE, !.resume = TRUE,
                   !.gap = IF u.resume THEN @ ELSE u.acked]
    ELSE [u EXCEPT !.stopped = FALSE]
GivenUp(u) == [u EXCEPT !.stopped = TRUE]

Fails(open) == IF reply.class = "retry" THEN Retried(up, open) ELSE GivenUp(up)

(* What the task makes of a good answer; an answer that does not fit the   *)
(* request is tried again.                                                 *)
Checked(valid, u) == IF valid THEN Staged(u) ELSE Retried(up, call.open)
Created(body) ==
    Checked(body.acked <= card.pcm,
            [up EXCEPT !.created = TRUE, !.next = body.seq, !.acked = body.acked])
Resumed(rq, body) ==
    Checked(body.cursor.acked = rq.end,
            [up EXCEPT !.next = body.cursor.seq, !.acked = rq.end, !.resume = FALSE,
                       !.gap = rq.end, !.deferred = @ \/ body.pending])
ChunkSent(rq, body) ==
    Checked(body.at = rq.seq /\ body.cursor = [seq |-> rq.seq + 1, acked |-> rq.end],
            [up EXCEPT !.next = rq.seq + 1, !.acked = rq.end])
RangeSent(covered) ==
    Checked(up.acked <= covered /\ covered <= card.pcm, [up EXCEPT !.acked = covered])
MarkSent == IF call.open THEN up ELSE Staged([up EXCEPT !.marksAcked = TRUE])
(* A result that goes back, or beyond what was sent, is ignored.           *)
ResultRead(pcm) ==
    IF up.result <= pcm /\ pcm <= up.acked THEN Staged([up EXCEPT !.result = pcm]) ELSE up
Deferred == Staged([up EXCEPT !.deferAcked = TRUE, !.resume = FALSE])
Completed == Staged([up EXCEPT !.acked = card.pcm, !.final = TRUE])
Ended(status) == Checked(status \in {"processing", "failed"}, [up EXCEPT !.final = TRUE])
Taken(rq, body) ==
    CASE rq.kind = "create" -> Created(body)
      [] rq.kind = "resume" -> Resumed(rq, body)
      [] rq.kind = "chunk" -> ChunkSent(rq, body)
      [] rq.kind = "range" -> RangeSent(body)
      [] rq.kind = "mark" -> MarkSent
      [] rq.kind = "poll" -> ResultRead(body)
      [] rq.kind = "defer" -> Deferred
      [] rq.kind = "complete" -> Completed
      [] rq.kind = "end" -> Ended(body)

Idle == call' = NoCall /\ reply' = NoReply
Receive ==
    /\ reply.class = "ok" /\ call.rq.kind # "plan"
    /\ up' = Taken(call.rq, reply.body) /\ Idle
    /\ lane' = IF call.rq.kind = "mark" /\ call.open
               THEN [lane EXCEPT !.marksSent = card.marks] ELSE lane
    /\ UNCHANGED <<card, work, srv, faults>>
(* The plan is followed at once: the first missing range, or the end.      *)
Follow ==
    /\ reply.class = "ok" /\ call.rq.kind = "plan"
    /\ reply' = NoReply
    /\ LET planned == Staged([up EXCEPT !.acked = reply.body.covered])
           done == Staged([up EXCEPT !.acked = card.pcm])
       IN  IF ~reply.body.complete
           THEN up' = planned /\ Send(RangeRequest(reply.body.next))
           ELSE IF up.marksAcked
           THEN up' = done /\ Send(Request("complete", 0, 0, card.pcm))
           ELSE IF card.marks = {}
           THEN up' = [done EXCEPT !.marksAcked = TRUE] /\ call' = NoCall /\ UNCHANGED work
           ELSE up' = done /\ Send(MarkRequest)
    /\ UNCHANGED <<card, lane, srv, faults>>
Rewind ==
    /\ reply.class = "missing"
    /\ up' = LET to == reply.body * CHUNK
             IN  Staged([up EXCEPT !.next = reply.body,
                                   !.acked = IF to > card.pcm THEN card.pcm ELSE to])
    /\ Idle /\ UNCHANGED <<card, lane, work, srv, faults>>
Fail ==
    /\ reply.class \in {"retry", "conflict"}
    /\ up' = Fails(call.open)
    /\ Idle /\ UNCHANGED <<card, lane, work, srv, faults>>

(* The request is lost before the server begins with it, or the answer is. *)
Awaited == {h \in work : h.waited}
Lose ==
    /\ call # NoCall
    /\ \A h \in Awaited : h.step = "begin"
    /\ work' = work \ Awaited
(* The task does not wait any longer; the server does not notice.          *)
Leave ==
    /\ Awaited # {}
    /\ work' = (work \ Awaited) \union {[h EXCEPT !.waited = FALSE] : h \in Awaited}
GiveUp ==
    /\ (Fault("lost") /\ Lose) \/ (Fault("late") /\ Leave)
    /\ up' = Retried(up, call.open)
    /\ Idle /\ UNCHANGED <<card, lane, srv>>
Disconnect ==
    /\ Fault("offline") /\ lane.live /\ ~lane.gap
    /\ lane' = [lane EXCEPT !.gap = TRUE]
    /\ UNCHANGED <<card, up, call, reply, work, srv>>
MarkGap ==
    /\ call = NoCall /\ lane.gap
    /\ lane.live /\ card.here /\ (card.closed \/ ~up.stopped)
    /\ lane' = [lane EXCEPT !.gap = FALSE]
    /\ up' = IF up.final \/ InRanges THEN up
             ELSE LET gap == IF up.resume THEN up.gap ELSE up.acked
                  IN  [up EXCEPT !.gap = gap, !.resume = TRUE,
                                 !.deferred = @ \/ (card.closed /\ card.pcm > gap)]
    /\ UNCHANGED <<card, call, reply, work, srv, faults>>

(* The card is reset: recovery closes the recording with the audio that    *)
(* reached the card, which is at least what was offered to the uploader.   *)
Reset ==
    /\ \/ Fault("reset") /\ IF Awaited = {} THEN UNCHANGED work ELSE Lose
       \/ Fault("late") /\ Leave
    /\ \E pcm \in card.pcm .. MaxPcm :
          card' = [card EXCEPT !.closed = TRUE, !.pcm = IF card.closed THEN @ ELSE pcm]
    /\ lane' = [live |-> FALSE, sync |-> FALSE, gap |-> FALSE, marksSent |-> {}]
    /\ Idle /\ UNCHANGED <<up, srv>>

(* The user asks for a manual sync; it ends when nothing is left to send.  *)
RequestSync ==
    /\ card.closed /\ ~lane.sync
    /\ lane' = [lane EXCEPT !.sync = TRUE]
    /\ UNCHANGED <<card, up, call, reply, work, srv, faults>>
EndSync ==
    /\ call = NoCall /\ lane.sync /\ ~lane.live /\ (~card.here \/ up.stopped)
    /\ lane' = [lane EXCEPT !.sync = FALSE]
    /\ UNCHANGED <<card, up, call, reply, work, srv, faults>>

-----------------------------------------------------------------------------

Fresh ==
    [created |-> FALSE, mode |-> "live", next |-> 0, acked |-> 0, result |-> 0,
     resume |-> FALSE, gap |-> 0, deferred |-> FALSE, deferAcked |-> FALSE,
     marksAcked |-> FALSE, final |-> FALSE, stopped |-> FALSE]
Init ==
    /\ card = [pcm |-> 0, closed |-> FALSE, here |-> TRUE, marks |-> {}]
    /\ up = Fresh
    /\ lane \in [live : {TRUE}, sync : {FALSE}, gap : BOOLEAN, marksSent : {{}}]
    /\ call = NoCall /\ reply = NoReply /\ work = {}
    /\ srv = NoSession
    /\ faults = [count |-> 0, kinds |-> {}]

Recording == Commit \/ SetMark \/ Close
Task == \/ ReleaseLane \/ Delete \/ Restage \/ SendMarks \/ Ask
        \/ Receive \/ Follow \/ Rewind \/ Fail \/ MarkGap \/ EndSync
Faults == GiveUp \/ Disconnect \/ Reset \/ Restart
Next == \/ Recording \/ Task \/ RequestSync \/ Faults
        \/ \E h \in work : Serve(h)

Spec == Init /\ [][Next]_vars

(* The card goes on, the server answers, recordings end and the user comes *)
(* back for a manual sync while something is left.  Faults need not happen. *)
Fairness ==
    /\ WF_vars(Task) /\ WF_vars(\E h \in work : Serve(h))
    /\ WF_vars(Close) /\ WF_vars(RequestSync)
FairSpec == Spec /\ Fairness

-----------------------------------------------------------------------------
Positions == 0 .. MaxPcm
Kinds == {"create", "chunk", "resume", "defer", "plan", "range", "complete", "end",
          "mark", "poll"}
Requests == [kind : Kinds, seq : Nat, start : Positions, end : Positions]

(* Every place stays within the recording, and a request that is awaited   *)
(* is the one the task waits for.                                          *)
TypeOK ==
    /\ card \in [pcm : Positions, closed : BOOLEAN, here : BOOLEAN,
                 marks : SUBSET Positions]
    /\ up \in [created : BOOLEAN, mode : {"live", "bulk", "repair"}, next : Nat,
               acked : Positions, result : Positions, resume : BOOLEAN,
               gap : Positions, deferred : BOOLEAN, deferAcked : BOOLEAN,
               marksAcked : BOOLEAN, final : BOOLEAN, stopped : BOOLEAN]
    /\ lane \in [live : BOOLEAN, sync : BOOLEAN, gap : BOOLEAN,
                 marksSent : SUBSET Positions]
    /\ call.rq \in Requests \union {NoCall.rq} /\ call.open \in BOOLEAN
    /\ reply.class \in {"none", "ok", "conflict", "retry", "missing"}
    /\ \A h \in work : h.rq \in Requests /\ (h.waited => h.rq = call.rq /\ reply = NoReply)
    /\ srv.status \in {"none", "uploading", "awaiting_repair", "processing", "failed"}
    /\ \A p \in Pieces(srv) \union srv.ranges : p.start < p.end /\ p.end <= card.pcm
    /\ faults \in [count : 0 .. MaxFaults, kinds : SUBSET FaultKinds]

(* The card deletes a recording only when the server has the whole of it   *)
(* in its final file (delete_cloud_accepted after final_acked).            *)
Whole == srv.final /\ srv.held = 0 .. card.pcm - 1
NothingLost == ~card.here => Whole

(* A recording the server has taken over is not taken back to the state of *)
(* an upload (defer_session checks the status before it waits for the lock *)
(* and sets it whatever it is by then).                                    *)
StaysTaken == [][Accepted(srv) => Accepted(srv')]_vars

(* What keeps it so is the lock, and end_session takes none: an end that   *)
(* is carried out late while a defer waits for the end of the live session *)
(* is the one way to lose it.  That takes five faults (MCUpload).          *)
Deferring(h) == h.rq.kind = "defer" /\ h.step \in {"lock", "deferring"}
Crossing == \E d, e \in work : Deferring(d) /\ At(e, "end", "ending")

(* The protocol keeps the promise of Handover: card, server and network    *)
(* together only record, take over whole, and then forget.                 *)
Promise == INSTANCE Handover WITH
    length <- card.pcm, here <- card.here, taken <- srv.final, file <- srv.held
HandsOver == Promise!Spec

(* Faults after which nothing should ever end in permanent_error: lost     *)
(* requests, lost answers, lost Wi-Fi and resets of the card.  A restart   *)
(* of the server, a request it carries out late or an answer that a queue  *)
(* was not ready may make a request a conflict (Upload_replay.cfg).  Two   *)
(* kinds of recordings are never taken: one without audio, and one with a  *)
(* mark that was sent, clipped, while its audio was not committed yet and  *)
(* is sent again, with its own place, when the recording is closed.        *)
Mild == faults.kinds \subseteq {"lost", "offline", "reset"}
Clipped == \E m \in srv.marks : m.offset < m.at
Hopeless == card.pcm = 0 \/ Clipped

(* Every recording reaches the server, whatever is lost on the way, and    *)
(* then leaves the card (process_upload_item, retry_item).                 *)
Uploaded == <>(~card.here \/ (card.closed /\ (Hopeless \/ ~Mild)))

(* What docs and comments say of every request: that it can be repeated,   *)
(* and that a restart keeps the progress (device_api_v1.py, resume_live).  *)
Replayable == up.stopped => card.pcm = 0
=============================================================================
