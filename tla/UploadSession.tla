---------------------------- MODULE UploadSession ----------------------------
(***************************************************************************)
(* What the server keeps of one recording and how each request changes it  *)
(* (device_api_v1.py, DeviceService): the chunks of the live lane, the     *)
(* live epochs, the ranges of bulk and repair uploads, the marks, the file *)
(* put together from them and the answers kept under idempotency keys.     *)
(* The operators take the session apart and have no variables; Upload      *)
(* turns them into the steps of the handlers.                              *)
(*                                                                         *)
(* Positions count units of half a live chunk.  The bytes at a position    *)
(* are the same on both sides, so hashes are left out: two pieces conflict *)
(* when they lie differently.                                              *)
(***************************************************************************)
EXTENDS Naturals, Sequences, FiniteSets

CONSTANT BLOCK   \* RANGE_BLOCK_BYTES

ASSUME BlockAssumption == BLOCK \in Nat \ {0}

Lowest(S) == CHOOSE x \in S : \A y \in S : x <= y
Highest(S) == CHOOSE x \in S : \A y \in S : x >= y
Piece(from, to) == [start |-> from, end |-> to]
Units(p) == p.start .. p.end - 1
Overlap(p, q) == p.start < q.end /\ q.start < p.end
Covered(pieces) == UNION {Units(p) : p \in pieces}

(* chunks maps a sequence number to its piece.  partial and final are the  *)
(* two files of the recording, held is what the final one holds; cleaned   *)
(* when the files of the chunks are removed; stored are the answers kept   *)
(* for replays.                                                            *)
NoSession ==
    [status |-> "none", total |-> 0, chunks |-> <<>>, cleaned |-> FALSE,
     ranges |-> {}, epochs |-> <<>>, marks |-> {}, partial |-> FALSE,
     final |-> FALSE, held |-> {}, stored |-> {}]

Accepted(s) == s.status \in {"processing", "failed"}
Uploading(s) == s.status \in {"uploading", "awaiting_repair"}
ChunkSeqs(s) == DOMAIN s.chunks
Pieces(s) == {s.chunks[q] : q \in ChunkSeqs(s)}

-----------------------------------------------------------------------------
(* The live lane. *)

NewestEpoch(s) ==
    IF s.epochs = <<>> THEN [seq |-> 0, start |-> 0, gap |-> 0]
    ELSE s.epochs[Len(s.epochs)]

(* Where the chunks that follow each other from a place on end.            *)
RunFrom(s, seq, start) ==
    LET Begins(q) == IF q = seq THEN start ELSE s.chunks[q - 1].end
        Runs(n) == \A q \in seq .. n - 1 :
                      q \in ChunkSeqs(s) /\ s.chunks[q].start = Begins(q)
        next == Highest({n \in seq .. seq + Cardinality(ChunkSeqs(s)) : Runs(n)})
    IN  [seq |-> next, acked |-> Begins(next)]
Contiguous(s) == RunFrom(s, 0, 0).acked
LiveCursor(s) == RunFrom(s, NewestEpoch(s).seq, NewestEpoch(s).start)

AddChunk(s, seq, p) ==
    [s EXCEPT !.chunks = [q \in ChunkSeqs(s) \union {seq} |->
                             IF q = seq THEN p ELSE s.chunks[q]]]

(* A new epoch starts behind every chunk there is.  The gap before it      *)
(* starts where the card says, but not before what the server has.         *)
ResumeGap(s, gap) == Highest({gap, LiveCursor(s).acked})
KnownEpoch(s, gap, offset) ==
    \E i \in 1 .. Len(s.epochs) : s.epochs[i].start = offset /\ s.epochs[i].gap = gap
AddEpoch(s, gap, offset) ==
    [s EXCEPT !.epochs = Append(@,
        [seq |-> IF ChunkSeqs(s) = {} THEN 0 ELSE 1 + Highest(ChunkSeqs(s)),
         start |-> offset, gap |-> gap])]

-----------------------------------------------------------------------------
(* The ranges. *)

(* The live chunks are copied into the file and become ranges, in the      *)
(* order of the audio, up to the first that lies across a range there is   *)
(* or whose own file is gone.                                              *)
Misfits(s) ==
    {p \in Pieces(s) \ s.ranges : s.cleaned \/ \E r \in s.ranges : Overlap(p, r)}
Materialized(s) ==
    LET fitting == {p \in Pieces(s) : \A m \in Misfits(s) : p.start < m.start}
    IN  [s EXCEPT !.ranges = @ \union fitting,
                  !.partial = @ \/ ~(fitting \subseteq s.ranges)]

(* Wrong variants of Missing: the last unit is forgotten; whatever lies     *)
(* before the highest end counts as covered.                               *)
MissingShort(s, total) == (0 .. total - 2) \ Covered(s.ranges)
MissingFromHighest(s, total) == {u \in 0 .. total - 1 : \A r \in s.ranges : r.end <= u}
Missing(s, total) == (0 .. total - 1) \ Covered(s.ranges)
(* The first block to ask for: at most BLOCK, and nothing that is there.   *)
FirstMissing(s, total) ==
    LET from == Lowest(Missing(s, total))
    IN  Piece(from, Highest({e \in from + 1 .. from + BLOCK :
                                from .. e - 1 \subseteq Missing(s, total)}))

AddRange(s, p) == [s EXCEPT !.ranges = @ \union {p}, !.partial = TRUE]

-----------------------------------------------------------------------------
(* The end.  Chunks make a recording when they follow each other from the  *)
(* first unit to the last, and there are none beside them.                 *)

MissingSeqs(s, count) == (0 .. count - 1) \ ChunkSeqs(s)
Lined(s, count, total) ==
    /\ ChunkSeqs(s) = 0 .. count - 1
    /\ \A q \in 0 .. count - 1 :
          s.chunks[q].start = IF q = 0 THEN 0 ELSE s.chunks[q - 1].end
    /\ total = IF count = 0 THEN 0 ELSE s.chunks[count - 1].end

(* The final file is there with what it holds.                             *)
Filed(s, held) == [s EXCEPT !.final = TRUE, !.held = held]
(* The recording is taken over: the chunks are removed, the job is queued  *)
(* (or, if it cannot be, the session ends failed).                         *)
TakenOver(s, queued) ==
    [s EXCEPT !.status = IF queued THEN "processing" ELSE "failed", !.cleaned = TRUE]

-----------------------------------------------------------------------------
(* Answers.  A finished request leaves its answer under its key; another   *)
(* answer for the same key is refused.                                     *)

Ok(body) == [class |-> "ok", body |-> body]
Refused == [class |-> "conflict", body |-> <<>>]    \* 409 and 4xx
Failing == [class |-> "retry", body |-> <<>>]       \* 5xx
MissingFrom(seq) == [class |-> "missing", body |-> seq]

Answered(s, rq) == {m \in s.stored : m.key = rq}
StoredAnswer(s, rq) == (CHOOSE m \in Answered(s, rq) : TRUE).answer
Remember(s, rq, a) ==
    IF Answered(s, rq) # {} THEN s
    ELSE [s EXCEPT !.stored = @ \union {[key |-> rq, answer |-> a]}]
OnceAnswered(s, rq, a) ==
    IF Answered(s, rq) \subseteq {[key |-> rq, answer |-> a]} THEN a ELSE Refused
=============================================================================
