--------------------------- MODULE RecorderProofs ---------------------------
(***************************************************************************)
(* For every number of sessions, frames and faults and every size of the   *)
(* ring, the block and the sync interval: the safety of the recording path *)
(* (SessionWriter), then of the application that runs it (Recorder), for   *)
(* every number of polls, with and without the uploader.                   *)
(***************************************************************************)
EXTENDS Recorder, TLAPS

-----------------------------------------------------------------------------
(* The inductive invariant.                                                *)

(* Frames the writer holds in its buffer.                                  *)
Inflight == IF w.pc = "write" THEN w.got ELSE 0

(* Every frame in the file, the buffer and the ring was queued, and as     *)
(* long as the session is not given up none is missing.                    *)
Pipeline ==
  /\ audio.flying => audio.queued < MaxFrames
  /\ sess.data + Inflight + audio.ring <= audio.queued
  /\ sess.open /\ ~sess.error /\ (w.pc = "retire" => w.result = "ok") =>
       sess.data + Inflight + audio.ring = audio.queued
  /\ w.since <= sess.data

(* Where the writer may be, and that the open file is as long as it thinks.*)
Active == {"read", "write", "commit", "finish", "close", "manifest", "retire"}
Turn ==
  /\ w.pc \in Active => sess.open
  /\ sess.open => /\ w.pc \in Active \cup {"loop"}
                  /\ cur \in Sessions /\ card[cur].file = sess.data
                  /\ ~sess.closed
  /\ w.pc \in {"closed", "report", "settle"} => cur \in Sessions
  /\ w.pc = "loop" /\ ~sess.open => w.since = 0
  /\ w.pc = "boot" => sess = Fresh

(* What was offered is on the card for good.                               *)
Kept ==
  /\ \A s \in Sessions : seen[s] <= card[s].synced /\ card[s].synced <= card[s].file
  /\ \A s \in Sessions : s > cur => seen[s] = 0

(* A closing that went well so far had nothing left to write.              *)
GoingWell ==
  \/ w.pc \in {"finish", "close"} /\ ~sess.error
  \/ w.pc \in {"manifest", "retire", "closed", "report"} /\ w.result = "ok"
Drained ==
  /\ sess.closeReq /\ ~sess.error => audio.mic = "off"
  /\ GoingWell => /\ audio.mic = "off" /\ audio.ring = 0 /\ ~audio.flying
                  /\ sess.closeReq /\ ~sess.error

(* The manifest is closed last, over a file that is synced to its end.     *)
Whole ==
  /\ SealedIsWhole
  /\ sess.open /\ card[cur].man \in Sealed => w.pc = "retire"
  /\ w.pc \in {"close", "manifest"} /\ w.result = "ok" =>
       sess.committed = sess.data /\ card[cur].synced = card[cur].file
  /\ w.pc = "retire" /\ w.result = "ok" => card[cur].man = "closed"
  /\ w.pc \in {"closed", "report"} /\ w.result = "ok" =>
       card[cur].man = "closed" /\ card[cur].synced = audio.queued

(* What the application has been told so far.                              *)
Told ==
  /\ sess.posted => sess.error
  /\ w.pc \in {"report", "settle"} => sess.closed
  /\ w.pc = "settle" => sess.posted
  /\ ~sess.open /\ ~sess.error /\ (sess.closed \/ w.pc = "closed") =>
       cur \in Sessions /\ card[cur].man = "closed"

Inv == TypeOK /\ Pipeline /\ Turn /\ Kept /\ Drained /\ Whole /\ Told /\ DoneIsWhole

-----------------------------------------------------------------------------
(* What TypeOK says of the fields.                                         *)
LEMMA Types ==
  ASSUME TypeOK
  PROVE  /\ audio.mic \in {"off", "on", "muted"} /\ audio.flying \in BOOLEAN
         /\ audio.ring \in Nat /\ audio.queued \in Nat
         /\ audio.queued <= MaxFrames /\ audio.ring <= RingFrames
         /\ sess.open \in BOOLEAN /\ sess.closeReq \in BOOLEAN /\ sess.closed \in BOOLEAN
         /\ sess.error \in BOOLEAN /\ sess.posted \in BOOLEAN
         /\ sess.data \in Nat /\ sess.committed \in Nat /\ sess.data <= MaxFrames
         /\ w.pc \in Step /\ w.got \in Nat /\ w.since \in Nat
         /\ w.got <= BlockFrames /\ w.since <= MaxFrames
         /\ w.result \in {"ok", "bad", "fault"}
         /\ cur \in Nat /\ faults \in Nat /\ fault \in BOOLEAN
<1>1. audio \in Audio /\ sess \in Session /\ w \in Writer
  BY DEF TypeOK
<1>2. cur \in Nat /\ faults \in Nat /\ fault \in BOOLEAN
  BY SizeAssumption DEF TypeOK
<1>3. /\ audio.mic \in {"off", "on", "muted"} /\ audio.flying \in BOOLEAN
      /\ audio.ring \in Nat /\ audio.queued \in Nat
      /\ audio.queued <= MaxFrames /\ audio.ring <= RingFrames
  BY <1>1, SizeAssumption DEF Audio, Frames
<1>4. /\ sess.open \in BOOLEAN /\ sess.closeReq \in BOOLEAN /\ sess.closed \in BOOLEAN
      /\ sess.error \in BOOLEAN /\ sess.posted \in BOOLEAN
      /\ sess.data \in Nat /\ sess.committed \in Nat /\ sess.data <= MaxFrames
  BY <1>1, SizeAssumption DEF Session, Frames
<1>5. /\ w.pc \in Step /\ w.got \in Nat /\ w.since \in Nat
      /\ w.got <= BlockFrames /\ w.since <= MaxFrames
      /\ w.result \in {"ok", "bad", "fault"}
  BY <1>1, SizeAssumption DEF Writer, Frames
<1>. QED BY <1>2, <1>3, <1>4, <1>5

(* The same for a directory and what was offered of it.                    *)
LEMMA CardTypes ==
  ASSUME TypeOK, NEW s \in Sessions
  PROVE  /\ card[s] \in Directory
         /\ card[s].file \in Nat /\ card[s].synced \in Nat /\ card[s].count \in Nat
         /\ seen[s] \in Nat
<1>1. card[s] \in Directory /\ seen[s] \in Frames
  BY DEF TypeOK
<1>2. card[s].file \in Frames /\ card[s].synced \in Frames /\ card[s].count \in Frames
  BY <1>1 DEF Directory
<1>. QED BY <1>1, <1>2, SizeAssumption DEF Frames

(* A post of STORAGE_ERROR, and none, is neither of the other two events.  *)
LEMMA Events ==
  /\ <<>> \in Seq(Event) /\ <<"STORAGE_ERROR">> \in Seq(Event)
  /\ <<"CLOSE_DONE">> \in Seq(Event) /\ <<"SETTLED">> \in Seq(Event)
  /\ <<>> # <<"CLOSE_DONE">> /\ <<"STORAGE_ERROR">> # <<"CLOSE_DONE">>
  /\ <<"SETTLED">> # <<"CLOSE_DONE">>
  BY DEF Event

(* What post_storage_error does to the session.                            *)
LEMMA ErrorFields ==
  ASSUME NEW s \in Session, PostError(s)
  PROVE  /\ sess' \in Session
         /\ sess'.error /\ sess'.closeReq /\ sess'.posted
         /\ sess'.open = s.open /\ sess'.closed = s.closed
         /\ sess'.data = s.data /\ sess'.committed = s.committed
         /\ posts' \in Seq(Event) /\ posts' # <<"CLOSE_DONE">>
<1>1. /\ sess' \in Session
      /\ sess'.error /\ sess'.closeReq /\ sess'.posted
      /\ sess'.open = s.open /\ sess'.closed = s.closed
      /\ sess'.data = s.data /\ sess'.committed = s.committed
  BY DEF PostError, Session
<1>2. posts' \in {<<>>, <<"STORAGE_ERROR">>}
  BY DEF PostError
<1>. QED BY <1>1, <1>2, Events

(* The writer goes on to another step, or to the end of the session.       *)
LEMMA GoFields ==
  ASSUME TypeOK, NEW p \in Step, Go(p)
  PROVE  /\ w' \in Writer /\ w'.pc = p /\ w'.got = w.got
         /\ w'.since = w.since /\ w'.result = w.result
  BY DEF TypeOK, Go, Writer
(* The end of the session, with the result that led to it.                 *)
LEMMA EndsFields ==
  ASSUME TypeOK, NEW r \in {"bad", "fault"}, Ends(r)
  PROVE  /\ w' \in Writer /\ w'.pc = "retire" /\ w'.got = w.got
         /\ w'.since = w.since /\ w'.result = r
  BY DEF TypeOK, Ends, Writer, Step

(* One directory changes.                                                  *)
LEMMA CardFields ==
  ASSUME TypeOK, cur \in Sessions, NEW d \in Directory, OnCard(d)
  PROVE  /\ card' \in [Sessions -> Directory] /\ card'[cur] = d
         /\ \A s \in Sessions : s # cur => card'[s] = card[s]
  BY DEF TypeOK, OnCard

(* The session is given up: at any look at the fault flag, or after a      *)
(* fault of the card.                                                      *)
LEMMA GivenUp ==
  ASSUME Inv, sess.open, w.pc \in Active \cup {"loop"}, w.pc # "retire",
         w' \in Writer, w'.pc = "retire", w'.result # "ok", w'.since = w.since,
         UNCHANGED <<audio, sess, cur, torn, card, seen>>, posts' = <<>>,
         fault' \in BOOLEAN, faults' \in 0..MaxFaults
  PROVE  Inv'
<1>. TypeOK
  BY DEF Inv
<1>1. TypeOK'
  BY Events DEF TypeOK
<1>2. Pipeline'
  BY Types DEF Inv, Pipeline, Inflight
<1>3. Turn'
  BY DEF Inv, Turn, Active
<1>4. Kept'
  BY DEF Inv, Kept
<1>5. Drained'
  BY DEF Inv, Drained, GoingWell
<1>6. Whole'
  BY DEF Inv, Whole, SealedIsWhole, Turn
<1>7. Told' /\ DoneIsWhole'
  BY Events DEF Inv, Told, DoneIsWhole, Turn
<1>. QED BY <1>1, <1>2, <1>3, <1>4, <1>5, <1>6, <1>7 DEF Inv

(* The writer goes round its loop without touching anything.               *)
LEMMA Passes ==
  ASSUME Inv, sess.open, w' \in Writer, w'.since = w.since,
         \/ w.pc = "loop" /\ w'.pc = "read"
         \/ w.pc \in {"read", "commit"} /\ w'.pc = "loop"
         \/ w.pc = "write" /\ sess.error /\ w'.pc = "loop"
         \/ w.pc = "read" /\ w'.pc = "finish" /\ sess.closeReq
              /\ audio.ring = 0 /\ ~audio.flying,
         UNCHANGED <<audio, sess, cur, torn, card, seen>>, posts' = <<>>,
         UNCHANGED <<fault, faults>>
  PROVE  Inv'
<1>. TypeOK
  BY DEF Inv
<1>1. TypeOK'
  BY Events DEF TypeOK
<1>2. Pipeline'
  BY Types DEF Inv, Pipeline, Inflight
<1>3. Turn'
  BY DEF Inv, Turn, Active
<1>4. Kept'
  BY DEF Inv, Kept
<1>5. Drained'
  BY DEF Inv, Drained, GoingWell
<1>6. Whole'
  BY DEF Inv, Whole, SealedIsWhole, Turn
<1>7. Told' /\ DoneIsWhole'
  BY Events DEF Inv, Told, DoneIsWhole, Turn
<1>. QED BY <1>1, <1>2, <1>3, <1>4, <1>5, <1>6, <1>7 DEF Inv

-----------------------------------------------------------------------------
(* One lemma per operation.                                                *)

(* The invariant holds on an empty card.                                   *)
LEMMA InitInv == Init => Inv
<1> SUFFICES ASSUME Init PROVE Inv
  OBVIOUS
<1>. USE SizeAssumption DEF Init
<1>1. TypeOK
  <2>1. audio \in Audio
    BY DEF Silent, Audio, Frames
  <2>2. sess \in Session
    BY DEF Fresh, Session, Frames
  <2>3. w \in Writer
    BY DEF Resting, Writer, Step, Frames
  <2>4. card \in [Sessions -> Directory]
    BY DEF Made, Directory, Sealed, Frames
  <2>5. seen \in [Sessions -> Frames] /\ cur \in 0..MaxSessions /\ faults \in 0..MaxFaults
    BY DEF Frames
  <2>. QED BY <2>1, <2>2, <2>3, <2>4, <2>5, Events, Zenon DEF TypeOK
<1>2. Pipeline /\ Turn /\ Drained
  BY DEF Pipeline, Turn, Drained, GoingWell, Inflight, Active, Silent, Fresh, Resting
<1>3. Kept /\ Whole /\ Told /\ DoneIsWhole
  BY DEF Kept, Whole, Told, DoneIsWhole, SealedIsWhole, Sealed, Fresh, Resting, Made
<1>. QED BY <1>1, <1>2, <1>3 DEF Inv

(* A frame is read or queued: only with the microphone on or a frame in    *)
(* flight, so never after a closing that went well has begun.              *)
LEMMA CaptureKeeps == Inv /\ Capture => Inv'
<1> SUFFICES ASSUME Inv, Capture PROVE Inv'
  OBVIOUS
<1>1. UNCHANGED <<sess, w, fault, card, cur, seen, torn, faults>> /\ posts' = <<>>
  BY DEF Capture, Quiet
<1>2. /\ audio \in Audio /\ audio' \in Audio
      /\ audio'.flying => audio'.queued < MaxFrames
      /\ audio'.queued - audio'.ring = audio.queued - audio.ring
      /\ audio'.mic = audio.mic
      /\ audio.mic = "on" \/ audio.flying
  <2>. audio \in Audio /\ (audio.flying => audio.queued < MaxFrames)
    BY DEF Inv, TypeOK, Pipeline
  <2>1. CASE TakeFrame
    BY <2>1 DEF TakeFrame, Audio, Frames
  <2>2. CASE QueueFrame /\ audio.ring < RingFrames
    <3>1. audio.queued + 1 \in Frames /\ audio.ring + 1 \in 0..RingFrames
      BY <2>2, SizeAssumption DEF QueueFrame, Audio, Frames
    <3>2. /\ audio' = [audio EXCEPT !.flying = FALSE, !.ring = audio.ring + 1,
                                    !.queued = audio.queued + 1]
          /\ audio.ring \in Nat /\ audio.queued \in Nat /\ audio.flying
      BY <2>2, SizeAssumption DEF QueueFrame, Audio, Frames
    <3>3. audio' \in Audio
      BY <3>1, <3>2 DEF Audio
    <3>4. /\ audio'.queued = audio.queued + 1 /\ audio'.ring = audio.ring + 1
          /\ ~audio'.flying /\ audio'.mic = audio.mic
      BY <3>2 DEF Audio
    <3>. QED BY <3>2, <3>3, <3>4
  <2>3. CASE QueueFrame /\ ~(audio.ring < RingFrames)
    BY <2>3 DEF QueueFrame, Audio, Frames
  <2>. QED BY <2>1, <2>2, <2>3 DEF Capture
<1>3. TypeOK'
  BY <1>1, <1>2, Events DEF Inv, TypeOK
<1>4. Pipeline'
  <2>1. sess.data \in Nat /\ Inflight \in Nat /\ Inflight' = Inflight
    BY <1>1, SizeAssumption DEF Inv, TypeOK, Session, Writer, Frames, Inflight
  <2>. QED BY <1>1, <1>2, <2>1 DEF Inv, Pipeline, Audio, Frames
<1>5. Turn' /\ Kept'
  BY <1>1 DEF Inv, Turn, Kept
<1>6. Drained'
  BY <1>1, <1>2 DEF Inv, Drained, GoingWell, TypeOK, Audio
<1>7. Whole' /\ Told' /\ DoneIsWhole'
  BY <1>1, <1>2 DEF Inv, Whole, Told, DoneIsWhole, SealedIsWhole, Drained, GoingWell, TypeOK, Audio
<1>. QED BY <1>3, <1>4, <1>5, <1>6, <1>7 DEF Inv

(* A failure counts, and may leave the card faulted.                       *)
LEMMA FailCounts == ASSUME TypeOK, Fails PROVE faults' \in 0..MaxFaults
<1>1. faults \in 0..MaxFaults
  BY DEF TypeOK
<1>. QED BY <1>1, SizeAssumption DEF Fails
(* The same for a failed call, which may leave the card faulted.           *)
LEMMA FailFields ==
  ASSUME TypeOK, IoFails
  PROVE  fault' \in BOOLEAN /\ faults' \in 0..MaxFaults
  BY FailCounts DEF IoFails, TypeOK

(* Every look at the fault flag.                                           *)
LEMMA GivesUpKeeps ==
  ASSUME Inv, GivesUp, UNCHANGED <<cur, torn>>,
         sess.open, w.pc \in Active \cup {"loop"}, w.pc # "retire"
  PROVE  Inv'
<1>. TypeOK
  BY DEF Inv
<1>1. Ends("fault") /\ posts' = <<>> /\ UNCHANGED <<fault, faults, card, seen, audio, sess>>
  BY DEF GivesUp, Quiet, Works, Disk
<1>2. fault' \in BOOLEAN /\ faults' \in 0..MaxFaults
  BY <1>1 DEF TypeOK
<1>. QED BY <1>1, <1>2, EndsFields, GivenUp

(* writer_task looks at the fault flag before it reads.                    *)
LEMMA LoopKeeps == Inv /\ Loop /\ UNCHANGED <<cur, torn>> => Inv'
<1> SUFFICES ASSUME Inv, Loop, UNCHANGED <<cur, torn>> PROVE Inv'
  OBVIOUS
<1>. TypeOK /\ w.pc = "loop" /\ sess.open
  BY DEF Inv, Loop
<1>1. CASE GivesUp
  BY <1>1, GivesUpKeeps DEF Active
<1>2. CASE ~GivesUp
  <2>1. Go("read") /\ posts' = <<>> /\ UNCHANGED <<fault, faults, card, seen, audio, sess>>
    BY <1>2 DEF Loop, Quiet, Works, Disk
  <2>. QED BY <2>1, GoFields, Passes DEF Step
<1>. QED BY <1>1, <1>2

(* The read times out: an empty ring lets a requested close begin.         *)
LEMMA ReadEmptyKeeps == Inv /\ ReadEmpty /\ UNCHANGED <<cur, torn>> => Inv'
<1> SUFFICES ASSUME Inv, ReadEmpty, UNCHANGED <<cur, torn>> PROVE Inv'
  OBVIOUS
<1>. TypeOK /\ w.pc = "read" /\ sess.open /\ audio.ring = 0 /\ ~audio.flying
  BY DEF Inv, ReadEmpty, Turn, Active
<1>1. CASE GivesUp
  BY <1>1, GivesUpKeeps DEF Active
<1>2. CASE ~GivesUp
  <2>1. /\ Go(IF sess.closeReq THEN "finish" ELSE "loop") /\ posts' = <<>>
        /\ UNCHANGED <<fault, faults, card, seen, audio, sess>>
    BY <1>2 DEF ReadEmpty, Quiet, Works, Disk
  <2>. QED BY <2>1, GoFields, Passes DEF Step
<1>. QED BY <1>1, <1>2

(* The writer takes frames from the ring into its buffer.                  *)
LEMMA ReadKeeps == Inv /\ Read /\ UNCHANGED <<cur, torn>> => Inv'
<1> SUFFICES ASSUME Inv, Read, UNCHANGED <<cur, torn>> PROVE Inv'
  OBVIOUS
<1>. DEFINE got == Least(audio.ring, BlockFrames)
<1>. TypeOK /\ w.pc = "read" /\ sess.open /\ audio.ring > 0
  BY DEF Inv, Read, Turn, Active
<1>1. /\ UNCHANGED <<fault, faults, card, cur, torn, seen, sess>> /\ posts' = <<>>
      /\ audio' = [audio EXCEPT !.ring = @ - got]
      /\ w' = [w EXCEPT !.pc = "write", !.got = got]
  BY DEF Read, Quiet, Works, Disk
<1>2. got \in 0..BlockFrames /\ got \in Nat /\ audio.ring - got \in 0..RingFrames
  BY Types, SizeAssumption DEF Least
<1>. HIDE DEF got
<1>3. /\ audio' \in Audio /\ audio'.ring = audio.ring - got
      /\ audio'.mic = audio.mic /\ audio'.flying = audio.flying
      /\ audio'.queued = audio.queued
  BY <1>1, <1>2 DEF TypeOK, Audio
<1>4. w' \in Writer /\ w'.pc = "write" /\ w'.got = got /\ w'.since = w.since
  BY <1>1, <1>2 DEF TypeOK, Writer, Step
<1>5. TypeOK'
  BY <1>1, <1>3, <1>4, Events DEF TypeOK
<1>6. Pipeline'
  BY <1>1, <1>2, <1>3, <1>4, Types DEF Inv, Pipeline, Inflight
<1>7. Turn' /\ Kept' /\ Drained'
  BY <1>1, <1>3, <1>4 DEF Inv, Turn, Active, Kept, Drained, GoingWell
<1>8. Whole' /\ Told' /\ DoneIsWhole'
  BY <1>1, <1>3, <1>4, Events DEF Inv, Whole, SealedIsWhole, Told, DoneIsWhole, Turn
<1>. QED BY <1>5, <1>6, <1>7, <1>8 DEF Inv

(* A write of n frames that are still in the buffer, whole or in part; a   *)
(* partial one is an error.                                                *)
LEMMA WroteKeeps ==
  ASSUME Inv, UNCHANGED <<cur, torn, audio, seen>>, w.pc = "write", ~sess.error,
         NEW n \in 0..w.got, NEW p \in {"loop", "commit"}, Wrote(n, p),
         sess' \in Session, sess'.open = sess.open, sess'.closed = sess.closed,
         sess'.data = sess.data + n, sess'.error \/ n = w.got,
         sess'.error => sess'.closeReq, sess'.posted => sess'.error,
         ~sess'.error => sess'.closeReq = sess.closeReq,
         posts' \in Seq(Event), posts' # <<"CLOSE_DONE">>,
         fault' \in BOOLEAN, faults' \in 0..MaxFaults
  PROVE  Inv'
<1>. TypeOK /\ sess.open /\ cur \in Sessions /\ ~sess.closed
     /\ card[cur].file = sess.data
  BY DEF Inv, Turn, Active
<1>1. n \in Nat /\ n <= w.got /\ sess.data + n \in Frames /\ w.since + n \in Frames
  <2>1. sess.data + w.got <= audio.queued /\ w.since <= sess.data
    <3>1. Inflight = w.got
      BY DEF Inflight
    <3>. QED BY <3>1, Types DEF Inv, Pipeline
  <2>2. /\ n \in Nat /\ n <= w.got /\ w.got \in Nat /\ w.since \in Nat
        /\ sess.data \in Nat /\ audio.queued \in Nat /\ audio.queued <= MaxFrames
        /\ MaxFrames \in Nat
    BY Types, SizeAssumption
  <2>3. sess.data + n \in Frames /\ w.since + n \in Frames
    BY <2>1, <2>2 DEF Frames
  <2>. QED BY <2>2, <2>3
<1>2. /\ card'[cur].file = sess.data + n /\ card'[cur].synced = card[cur].synced
      /\ card'[cur].man = card[cur].man /\ card'[cur].count = card[cur].count
      /\ card' \in [Sessions -> Directory]
      /\ \A s \in Sessions : s # cur => card'[s] = card[s]
  <2>. DEFINE d == [card[cur] EXCEPT !.file = @ + n]
  <2>1. /\ d \in Directory /\ d.file = sess.data + n /\ d.synced = card[cur].synced
        /\ d.man = card[cur].man /\ d.count = card[cur].count
    BY <1>1, CardTypes DEF Directory
  <2>. QED BY <2>1, CardFields DEF Wrote
<1>3. w' \in Writer /\ w'.pc = p /\ w'.since = w.since + n
  BY <1>1 DEF Wrote, TypeOK, Writer, Step
<1>4. TypeOK'
  BY <1>2, <1>3 DEF TypeOK
<1>5. Pipeline'
  <2>1. Inflight = w.got /\ Inflight' = 0
    BY <1>3 DEF Inflight
  <2>2. sess.data + w.got + audio.ring <= audio.queued /\ w.since <= sess.data
    BY <2>1 DEF Inv, Pipeline
  <2>3. sess.data + w.got + audio.ring = audio.queued
    BY <2>1 DEF Inv, Pipeline
  <2>4. /\ sess.data + n + audio.ring <= audio.queued
        /\ n = w.got => sess.data + n + audio.ring = audio.queued
        /\ w.since + n <= sess.data + n
    BY <1>1, <2>2, <2>3, Types
  <2>5. sess'.data + Inflight' + audio.ring = sess.data + n + audio.ring
    BY <1>1, <2>1, Types
  <2>. QED BY <1>3, <2>4, <2>5 DEF Inv, Pipeline
<1>6. Turn'
  BY <1>2, <1>3 DEF Inv, Turn, Active
<1>7. Kept'
  <2>1. ASSUME NEW s \in Sessions
        PROVE  seen'[s] <= card'[s].synced /\ card'[s].synced <= card'[s].file
    <3>1. CASE s = cur
      BY <3>1, <1>1, <1>2, CardTypes, Types DEF Inv, Kept
    <3>. QED BY <3>1, <1>2 DEF Inv, Kept
  <2>. QED BY <2>1 DEF Inv, Kept
<1>8. Drained'
  BY <1>3 DEF Inv, Drained, GoingWell
<1>9. Whole'
  <2>1. card[cur].man \notin Sealed
    BY DEF Inv, Whole
  <2>2. SealedIsWhole'
    BY <1>2, <2>1 DEF Inv, Whole, SealedIsWhole
  <2>. QED BY <1>2, <1>3, <2>1, <2>2 DEF Inv, Whole
<1>10. Told' /\ DoneIsWhole'
  BY <1>3 DEF Inv, Told, DoneIsWhole
<1>. QED BY <1>4, <1>5, <1>6, <1>7, <1>8, <1>9, <1>10 DEF Inv

(* fwrite: given up, dropped after an error, whole, or short.              *)
LEMMA WriteKeeps == Inv /\ Write /\ UNCHANGED <<cur, torn>> => Inv'
<1> SUFFICES ASSUME Inv, Write, UNCHANGED <<cur, torn>> PROVE Inv'
  OBVIOUS
<1>. TypeOK /\ w.pc = "write" /\ sess.open /\ sess \in Session
  BY DEF Inv, Write, Turn, Active, TypeOK
<1>1. CASE GivesUp
  BY <1>1, GivesUpKeeps DEF Active
<1>2. CASE sess.error /\ Go("loop") /\ Quiet /\ Works /\ Disk /\ UNCHANGED <<audio, sess>>
  BY <1>2, GoFields, Passes DEF Step, Quiet, Works, Disk
<1>3. CASE /\ ~sess.error /\ Wrote(w.got, "commit")
           /\ sess' = [sess EXCEPT !.data = @ + w.got] /\ Quiet /\ Works
  <2>1. w.got \in 0..w.got /\ sess.data + w.got \in Frames
    BY Types, SizeAssumption DEF Inv, Pipeline, Inflight, Frames
  <2>2. /\ sess' \in Session /\ sess'.open = sess.open /\ sess'.closed = sess.closed
        /\ sess'.data = sess.data + w.got /\ sess'.error = sess.error
        /\ sess'.closeReq = sess.closeReq /\ sess'.posted = sess.posted
    BY <1>3, <2>1 DEF Session
  <2>3. UNCHANGED <<audio, seen, fault, faults>> /\ posts' = <<>>
    BY <1>3 DEF Wrote, Quiet, Works
  <2>4. ~sess'.posted
    BY <1>3, <2>2 DEF Inv, Told
  <2>. QED BY <1>3, <2>1, <2>2, <2>3, <2>4, Events, WroteKeeps DEF TypeOK
<1>4. ASSUME NEW n \in 0..(w.got - 1), ~sess.error, IoFails,
             Wrote(n, "loop"), PostError([sess EXCEPT !.data = @ + n])
      PROVE  Inv'
  <2>. DEFINE s == [sess EXCEPT !.data = @ + n]
  <2>1. n \in 0..w.got /\ sess.data + n \in Frames
    BY Types, SizeAssumption DEF Inv, Pipeline, Inflight, Frames
  <2>2. /\ s \in Session /\ s.open = sess.open /\ s.closed = sess.closed
        /\ s.data = sess.data + n
    BY <2>1 DEF Session
  <2>3. UNCHANGED <<audio, seen>>
    BY <1>4 DEF Wrote
  <2>4. fault' \in BOOLEAN /\ faults' \in 0..MaxFaults
    BY <1>4, FailFields
  <2>. HIDE DEF s
  <2>5. PostError(s)
    BY <1>4 DEF s
  <2>6. /\ sess' \in Session /\ sess'.error /\ sess'.closeReq /\ sess'.posted
        /\ sess'.open = sess.open /\ sess'.closed = sess.closed
        /\ sess'.data = sess.data + n
        /\ posts' \in Seq(Event) /\ posts' # <<"CLOSE_DONE">>
    BY <2>2, <2>5, ErrorFields
  <2>. QED BY <1>4, <2>1, <2>3, <2>4, <2>6, WroteKeeps
<1>. QED BY <1>1, <1>2, <1>3, <1>4 DEF Write

(* A commit that works, or fails before or after the sync: the periodic    *)
(* one and the one of finish_session.                                      *)
LEMMA SyncKeeps ==
  ASSUME Inv, UNCHANGED <<cur, torn, audio>>, sess.open, cur \in Sessions,
         NEW d \in {card[cur], Synced}, OnCard(d),
         seen' = seen \/ (Offer(sess.data) /\ d = Synced),
         w' \in Writer, w'.since <= w.since,
         \/ w.pc = "commit" /\ w'.pc = "loop"
         \/ w.pc = "finish" /\ w'.pc = "retire" /\ w'.result # "ok"
         \/ /\ w.pc = "finish" /\ w'.pc = "close"
            /\ w'.result = "ok" => sess'.committed = sess.data /\ d = Synced,
         sess' \in Session, sess'.open, sess'.closed = sess.closed, sess'.data = sess.data,
         \/ sess'.error /\ sess'.closeReq
         \/ /\ sess'.error = sess.error /\ sess'.closeReq = sess.closeReq
            /\ sess'.posted = sess.posted,
         posts' \in Seq(Event), posts' # <<"CLOSE_DONE">>,
         fault' \in BOOLEAN, faults' \in 0..MaxFaults
  PROVE  Inv'
<1>. TypeOK /\ ~sess.closed /\ card[cur].file = sess.data /\ card[cur].man \notin Sealed
  BY DEF Inv, Turn, Whole
<1>1. /\ d \in Directory /\ d.file = sess.data /\ d.man = card[cur].man
      /\ d.count = card[cur].count /\ card[cur].synced <= d.synced
      /\ d.synced \in Nat /\ d.synced <= sess.data
      /\ d = Synced => d.synced = sess.data
  BY CardTypes, Types DEF Synced, Directory, Inv, Kept
<1>2. /\ card' \in [Sessions -> Directory] /\ card'[cur] = d
      /\ \A s \in Sessions : s # cur => card'[s] = card[s]
  BY <1>1, CardFields
<1>3. /\ seen' \in [Sessions -> Frames] /\ seen'[cur] <= d.synced
      /\ \A s \in Sessions : s # cur => seen'[s] = seen[s]
  <2>1. CASE seen' = seen
    <3>1. seen[cur] <= card[cur].synced
      BY DEF Inv, Kept
    <3>. QED BY <2>1, <3>1, <1>1, CardTypes DEF TypeOK
  <2>2. CASE Offer(sess.data) /\ d = Synced
    <3>1. sess.data \in Frames
      BY DEF TypeOK, Session
    <3>2. /\ seen' \in [Sessions -> Frames] /\ seen'[cur] = sess.data
          /\ \A s \in Sessions : s # cur => seen'[s] = seen[s]
      BY <2>2, <3>1 DEF Offer, TypeOK
    <3>. QED BY <2>2, <3>2, <1>1, Types
  <2>. QED BY <2>1, <2>2
<1>4. TypeOK'
  BY <1>2, <1>3 DEF TypeOK
<1>5. Pipeline'
  <2>1. Inflight = 0 /\ Inflight' = 0
    BY DEF Inflight
  <2>2. w'.since \in Nat
    BY SizeAssumption DEF Writer, Frames
  <2>. QED BY <2>1, <2>2, Types DEF Inv, Pipeline
<1>6. Turn'
  BY <1>1, <1>2 DEF Inv, Turn, Active
<1>7. Kept'
  <2>1. ASSUME NEW s \in Sessions
        PROVE  seen'[s] <= card'[s].synced /\ card'[s].synced <= card'[s].file
    <3>1. CASE s = cur
      BY <3>1, <1>1, <1>2, <1>3
    <3>. QED BY <3>1, <1>2, <1>3 DEF Inv, Kept
  <2>2. ASSUME NEW s \in Sessions, s > cur PROVE seen'[s] = 0
    BY <2>2, <1>3, Types DEF Inv, Kept
  <2>. QED BY <2>1, <2>2 DEF Kept
<1>8. Drained'
  BY DEF Inv, Drained, GoingWell
<1>9. Whole'
  <2>1. SealedIsWhole'
    BY <1>1, <1>2 DEF Inv, Whole, SealedIsWhole
  <2>. QED BY <1>1, <1>2, <2>1 DEF Inv, Whole
<1>10. Told' /\ DoneIsWhole'
  BY DEF Inv, Told, DoneIsWhole, Session
<1>. QED BY <1>4, <1>5, <1>6, <1>7, <1>8, <1>9, <1>10 DEF Inv

(* A periodic commit sets committed_bytes.                                 *)
LEMMA CommittedFields ==
  ASSUME TypeOK
  PROVE  /\ Committed \in Session /\ Committed.committed = sess.data
         /\ Committed.open = sess.open /\ Committed.closed = sess.closed
         /\ Committed.data = sess.data /\ Committed.error = sess.error
         /\ Committed.closeReq = sess.closeReq /\ Committed.posted = sess.posted
  BY DEF TypeOK, Committed, Session

(* The periodic commit, skipped, failed or done.                           *)
LEMMA CommitKeeps == Inv /\ Commit /\ UNCHANGED <<cur, torn>> => Inv'
<1> SUFFICES ASSUME Inv, Commit, UNCHANGED <<cur, torn>> PROVE Inv'
  OBVIOUS
<1>. TypeOK /\ w.pc = "commit" /\ sess.open /\ cur \in Sessions /\ sess \in Session
  BY DEF Inv, Commit, Turn, Active, TypeOK
<1>. UNCHANGED audio
  BY DEF Commit
<1>1. CASE GivesUp
  BY <1>1, GivesUpKeeps DEF Active
<1>2. CASE Go("loop") /\ Quiet /\ Works /\ Disk /\ UNCHANGED sess
  BY <1>2, GoFields, Passes DEF Step, Quiet, Works, Disk
<1>3. CASE Go("loop") /\ CommitFails /\ PostError(sess) /\ UNCHANGED seen
  <2>1. PICK d \in {card[cur], Synced} : OnCard(d)
    BY <1>3 DEF CommitFails
  <2>2. fault' \in BOOLEAN /\ faults' \in 0..MaxFaults
    BY <1>3, FailFields DEF CommitFails
  <2>3. w' \in Writer /\ w'.pc = "loop" /\ w'.since <= w.since
    BY <1>3, GoFields, Types DEF Step
  <2>. QED BY <1>3, <2>1, <2>2, <2>3, ErrorFields, SyncKeeps
<1>4. ASSUME OnCard(Synced), Offer(sess.data), w' = [w EXCEPT !.pc = "loop", !.since = 0],
             \/ sess' = Committed /\ Quiet /\ Works
             \/ PostError(Committed) /\ Fails /\ fault' = TRUE
      PROVE  Inv'
  <2>1. w' \in Writer /\ w'.pc = "loop" /\ w'.since <= w.since
    <3>1. 0 \in Frames
      BY SizeAssumption DEF Frames
    <3>2. w' \in Writer /\ w'.pc = "loop" /\ w'.since = 0
      BY <1>4, <3>1 DEF TypeOK, Writer, Step
    <3>. QED BY <3>2, Types
  <2>2. CASE sess' = Committed /\ Quiet /\ Works
    <3>1. fault' \in BOOLEAN /\ faults' \in 0..MaxFaults /\ posts' = <<>>
      BY <2>2 DEF Works, Quiet, TypeOK
    <3>. QED BY <1>4, <2>1, <2>2, <3>1, Events, CommittedFields, SyncKeeps
  <2>3. CASE PostError(Committed) /\ Fails /\ fault' = TRUE
    <3>1. fault' \in BOOLEAN /\ faults' \in 0..MaxFaults
      BY <2>3, FailFields DEF IoFails
    <3>. QED BY <1>4, <2>1, <2>3, <3>1, ErrorFields, CommittedFields, SyncKeeps
  <2>. QED BY <1>4, <2>2, <2>3
<1>. QED BY <1>1, <1>2, <1>3, <1>4 DEF Commit

(* The commit of finish_session.                                           *)
LEMMA FinishKeeps == Inv /\ Finish /\ UNCHANGED <<cur, torn>> => Inv'
<1> SUFFICES ASSUME Inv, Finish, UNCHANGED <<cur, torn>> PROVE Inv'
  OBVIOUS
<1>. TypeOK /\ w.pc = "finish" /\ sess.open /\ cur \in Sessions /\ sess \in Session
  BY DEF Inv, Finish, Turn, Active, TypeOK
<1>. UNCHANGED audio /\ posts' = <<>>
  BY DEF Finish, Quiet
<1>1. CASE GivesUp
  BY <1>1, GivesUpKeeps DEF Active
<1>2. ASSUME OnCard(Synced), Offer(sess.data), sess' = Committed,
             \/ w' = [w EXCEPT !.pc = "close", !.result = "ok"] /\ Works
             \/ Ends("fault") /\ Fails /\ fault' = TRUE
      PROVE  Inv'
  <2>1. /\ w' \in Writer /\ w'.since <= w.since
        /\ w'.pc = "close" \/ (w'.pc = "retire" /\ w'.result # "ok")
    <3>1. CASE w' = [w EXCEPT !.pc = "close", !.result = "ok"]
      <4>1. w' \in Writer /\ w'.since = w.since /\ w'.pc = "close"
        BY <3>1 DEF TypeOK, Writer, Step
      <4>. QED BY <4>1, Types
    <3>2. CASE Ends("fault")
      BY <3>2, EndsFields, Types
    <3>. QED BY <1>2, <3>1, <3>2
  <2>2. fault' \in BOOLEAN /\ faults' \in 0..MaxFaults
    BY <1>2, FailFields DEF IoFails, Works, TypeOK
  <2>. QED BY <1>2, <2>1, <2>2, Events, CommittedFields, SyncKeeps
<1>3. ASSUME CommitFails, UNCHANGED <<sess, seen>>,
             IF fault' THEN Ends("fault") ELSE w' = [w EXCEPT !.pc = "close", !.result = "bad"]
      PROVE  Inv'
  <2>1. PICK d \in {card[cur], Synced} : OnCard(d)
    BY <1>3 DEF CommitFails
  <2>2. fault' \in BOOLEAN /\ faults' \in 0..MaxFaults
    BY <1>3, FailFields DEF CommitFails
  <2>3. /\ w' \in Writer /\ w'.since <= w.since /\ w'.result # "ok"
        /\ w'.pc = "close" \/ w'.pc = "retire"
    <3>1. CASE w' = [w EXCEPT !.pc = "close", !.result = "bad"]
      <4>1. /\ w' \in Writer /\ w'.since = w.since /\ w'.pc = "close"
            /\ w'.result = "bad"
        BY <3>1 DEF TypeOK, Writer, Step
      <4>. QED BY <4>1, Types
    <3>2. CASE Ends("fault")
      BY <3>2, EndsFields, Types
    <3>. QED BY <1>3, <3>1, <3>2
  <2>. QED BY <1>3, <2>1, <2>2, <2>3, Events, SyncKeeps
<1>. QED BY <1>1, <1>2, <1>3 DEF Finish

(* finish_session closes the file; an error of the session is its          *)
(* result.                                                                 *)
LEMMA CloseFileKeeps == Inv /\ CloseFile /\ UNCHANGED <<cur, torn>> => Inv'
<1> SUFFICES ASSUME Inv, CloseFile, UNCHANGED <<cur, torn>> PROVE Inv'
  OBVIOUS
<1>. TypeOK /\ w.pc = "close" /\ sess.open
  BY DEF Inv, CloseFile, Turn, Active
<1>1. UNCHANGED <<audio, sess, card, seen>> /\ posts' = <<>>
  BY DEF CloseFile, Quiet, Disk, GivesUp
<1>2. CASE GivesUp
  BY <1>2, GivesUpKeeps DEF Active
<1>3. CASE ~GivesUp
  <2>1. fault' \in BOOLEAN /\ faults' \in 0..MaxFaults
    BY <1>3, FailFields DEF CloseFile, Works, TypeOK
  <2>2. CASE Ends("fault")
    BY <2>1, <2>2, <1>1, EndsFields, GivenUp DEF Active
  <2>3. CASE \/ w' = [w EXCEPT !.pc = "manifest", !.result = IF sess.error THEN "bad" ELSE @]
             \/ w' = [w EXCEPT !.pc = "manifest", !.result = "bad"]
    <3>1. /\ w' \in Writer /\ w'.pc = "manifest" /\ w'.since = w.since
          /\ w'.result = "ok" => w.result = "ok" /\ ~sess.error
      BY <2>3 DEF TypeOK, Writer, Step
    <3>2. TypeOK'
      BY <1>1, <2>1, <3>1, Events DEF TypeOK
    <3>3. Pipeline' /\ Turn' /\ Kept'
      BY <1>1, <3>1 DEF Inv, Pipeline, Inflight, Turn, Active, Kept
    <3>4. Drained'
      BY <1>1, <3>1 DEF Inv, Drained, GoingWell
    <3>5. Whole'
      BY <1>1, <3>1 DEF Inv, Whole, SealedIsWhole
    <3>6. Told' /\ DoneIsWhole'
      BY <1>1, <3>1, Events DEF Inv, Told, DoneIsWhole
    <3>. QED BY <3>2, <3>3, <3>4, <3>5, <3>6 DEF Inv
  <2>. QED BY <1>3, <2>2, <2>3 DEF CloseFile
<1>. QED BY <1>2, <1>3

(* finish_session writes the manifest: closed only if all went well.       *)
LEMMA ManifestKeeps == Inv /\ Manifest /\ UNCHANGED <<cur, torn>> => Inv'
<1> SUFFICES ASSUME Inv, Manifest, UNCHANGED <<cur, torn>> PROVE Inv'
  OBVIOUS
<1>. TypeOK /\ w.pc = "manifest" /\ sess.open /\ cur \in Sessions /\ card[cur].man \notin Sealed
  BY DEF Inv, Manifest, Turn, Active, Whole
<1>1. UNCHANGED <<audio, sess, seen>> /\ posts' = <<>>
  BY DEF Manifest, Quiet, Disk, GivesUp
<1>2. CASE GivesUp
  BY <1>2, GivesUpKeeps DEF Active
<1>3. CASE ~GivesUp
  <2>1. fault' \in BOOLEAN /\ faults' \in 0..MaxFaults
    BY <1>3, FailFields DEF Manifest, Works, TypeOK
  <2>2. w' \in Writer /\ w'.pc = "retire" /\ w'.since = w.since
    BY <1>3, GoFields, EndsFields DEF Manifest, Step
  <2>3. \E d \in Directory :
           /\ OnCard(d) /\ d.file = card[cur].file /\ d.synced = card[cur].synced
           /\ \/ /\ w'.result = w.result /\ d.count = sess.committed
                 /\ w.result = "ok" => d.man = "closed"
                 /\ w.result # "ok" => d.man = "error"
              \/ w'.result # "ok" /\ d.man \notin Sealed
    <3>1. CASE OnCard(Final) /\ Go("retire")
      <4>1. /\ Final \in Directory /\ Final.file = card[cur].file
            /\ Final.synced = card[cur].synced /\ Final.count = sess.committed
            /\ w.result = "ok" => Final.man = "closed"
            /\ w.result # "ok" => Final.man = "error"
        BY CardTypes DEF Final, Directory, TypeOK, Session, Sealed
      <4>. QED BY <3>1, <4>1, GoFields DEF Step
    <3>2. ASSUME NEW m \in {card[cur].man, "none"}, OnCard([card[cur] EXCEPT !.man = m]),
                 Ends(IF fault' THEN "fault" ELSE "bad")
          PROVE  \E d \in Directory :
                    /\ OnCard(d) /\ d.file = card[cur].file /\ d.synced = card[cur].synced
                    /\ w'.result # "ok" /\ d.man \notin Sealed
      <4>. DEFINE d == [card[cur] EXCEPT !.man = m]
      <4>1. /\ d \in Directory /\ d.file = card[cur].file
            /\ d.synced = card[cur].synced /\ d.man \notin Sealed
        BY CardTypes DEF Directory, Sealed
      <4>2. w'.result # "ok"
        BY <3>2, EndsFields
      <4>. QED BY <3>2, <4>1, <4>2
    <3>. QED BY <1>3, <3>1, <3>2 DEF Manifest
  <2>4. PICK d \in Directory :
           /\ OnCard(d) /\ d.file = card[cur].file /\ d.synced = card[cur].synced
           /\ \/ /\ w'.result = w.result /\ d.count = sess.committed
                 /\ w.result = "ok" => d.man = "closed"
                 /\ w.result # "ok" => d.man = "error"
              \/ w'.result # "ok" /\ d.man \notin Sealed
    BY <2>3
  <2>5. /\ card' \in [Sessions -> Directory] /\ card'[cur] = d
        /\ \A s \in Sessions : s # cur => card'[s] = card[s]
    BY <2>4, CardFields
  <2>6. TypeOK'
    BY <1>1, <2>1, <2>2, <2>5, Events DEF TypeOK
  <2>7. Pipeline' /\ Turn'
    BY <1>1, <2>2, <2>4, <2>5 DEF Inv, Pipeline, Inflight, Turn, Active
  <2>8. Kept'
    BY <1>1, <2>4, <2>5 DEF Inv, Kept
  <2>9. Drained'
    BY <1>1, <2>2, <2>4 DEF Inv, Drained, GoingWell
  <2>10. Whole'
    <3>1. d.man \in Sealed => d.count = d.file /\ d.synced = d.file
      BY <2>4 DEF Inv, Whole, Turn, Sealed
    <3>2. SealedIsWhole'
      BY <2>5, <3>1 DEF Inv, Whole, SealedIsWhole
    <3>. QED BY <1>1, <2>2, <2>4, <2>5, <3>2 DEF Inv, Whole
  <2>11. Told' /\ DoneIsWhole'
    BY <1>1, <2>2, Events DEF Inv, Told, DoneIsWhole
  <2>. QED BY <2>6, <2>7, <2>8, <2>9, <2>10, <2>11 DEF Inv
<1>. QED BY <1>2, <1>3

(* finish_session clears open, and keeps what went wrong as an error.      *)
(* All that was queued is in the file if nothing did.                      *)
LEMMA RetiresKeeps == Inv /\ Retires /\ UNCHANGED <<cur, torn>> => Inv'
<1> SUFFICES ASSUME Inv, Retires, UNCHANGED <<cur, torn>> PROVE Inv'
  OBVIOUS
<1>. TypeOK /\ w.pc = "retire" /\ sess.open /\ cur \in Sessions /\ sess \in Session
  BY DEF Inv, Retires, Turn, Active, TypeOK
<1>1. UNCHANGED <<audio, card, seen, fault, faults>> /\ posts' = <<>>
  BY DEF Retires, Quiet, Works, Disk
<1>2. w' \in Writer /\ w'.pc = "closed" /\ w'.since = w.since /\ w'.result = w.result
  BY GoFields DEF Retires, Step
<1>3. /\ sess' \in Session /\ ~sess'.open /\ sess'.error = (sess.error \/ w.result # "ok")
      /\ sess'.data = sess.data /\ sess'.closeReq = sess.closeReq
      /\ sess'.posted = sess.posted /\ sess'.closed = sess.closed
  BY DEF Retires, Session
<1>4. TypeOK'
  BY <1>1, <1>2, <1>3, Events DEF TypeOK
<1>5. Pipeline' /\ Turn' /\ Kept'
  BY <1>1, <1>2, <1>3, Types DEF Inv, Pipeline, Inflight, Turn, Active, Kept
<1>6. Drained'
  BY <1>1, <1>2, <1>3 DEF Inv, Drained, GoingWell
<1>7. Whole'
  <2>1. w.result = "ok" => card[cur].man = "closed" /\ card[cur].synced = audio.queued
    <3>1. ASSUME w.result = "ok" PROVE sess.data = audio.queued
      <4>1. Inflight = 0 /\ audio.ring = 0 /\ ~sess.error
        BY <3>1 DEF Inv, Drained, GoingWell, Inflight
      <4>. QED BY <3>1, <4>1, Types DEF Inv, Pipeline
    <3>. QED BY <3>1 DEF Inv, Whole, SealedIsWhole, Sealed, Turn
  <2>. QED BY <1>1, <1>2, <1>3, <2>1 DEF Inv, Whole, SealedIsWhole
<1>8. Told' /\ DoneIsWhole'
  BY <1>1, <1>2, <1>3, Events DEF Inv, Told, DoneIsWhole, Turn, Whole
<1>. QED BY <1>4, <1>5, <1>6, <1>7, <1>8 DEF Inv

(* finish_session sets closed.                                             *)
LEMMA MarksClosedKeeps == Inv /\ MarksClosed /\ UNCHANGED <<cur, torn>> => Inv'
<1> SUFFICES ASSUME Inv, MarksClosed, UNCHANGED <<cur, torn>> PROVE Inv'
  OBVIOUS
<1>. TypeOK /\ w.pc = "closed" /\ ~sess.open /\ cur \in Sessions /\ sess \in Session
  BY DEF Inv, MarksClosed, Turn, Active, TypeOK
<1>1. UNCHANGED <<audio, card, seen, fault, faults>> /\ posts' = <<>>
  BY DEF MarksClosed, Quiet, Works, Disk
<1>2. w' \in Writer /\ w'.pc = "report" /\ w'.since = w.since /\ w'.result = w.result
  BY GoFields DEF MarksClosed, Step
<1>3. /\ sess' \in Session /\ sess'.closed /\ sess'.open = sess.open
      /\ sess'.error = sess.error /\ sess'.data = sess.data
      /\ sess'.closeReq = sess.closeReq /\ sess'.posted = sess.posted
  BY DEF MarksClosed, Session
<1>4. TypeOK'
  BY <1>1, <1>2, <1>3, Events DEF TypeOK
<1>5. Pipeline' /\ Turn' /\ Kept'
  BY <1>1, <1>2, <1>3, Types DEF Inv, Pipeline, Inflight, Turn, Active, Kept
<1>6. Drained' /\ Whole'
  BY <1>1, <1>2, <1>3 DEF Inv, Drained, GoingWell, Whole, SealedIsWhole
<1>7. Told' /\ DoneIsWhole'
  BY <1>1, <1>2, <1>3, Events DEF Inv, Told, DoneIsWhole, Turn
<1>. QED BY <1>4, <1>5, <1>6, <1>7 DEF Inv

(* The writer waits for the next session.                                  *)
LEMMA RestingFields ==
  /\ Resting \in Writer /\ Resting.pc = "loop" /\ Resting.since = 0 /\ Resting.got = 0
  /\ Resting.result = "ok"
  BY SizeAssumption DEF Resting, Writer, Step, Frames

(* finish_session posts CLOSE_DONE, or the error if it is the first.       *)
LEMMA ReportsKeeps == Inv /\ Reports /\ UNCHANGED <<cur, torn>> => Inv'
<1> SUFFICES ASSUME Inv, Reports, UNCHANGED <<cur, torn>> PROVE Inv'
  OBVIOUS
<1>. TypeOK /\ w.pc = "report" /\ ~sess.open /\ cur \in Sessions /\ sess \in Session /\ sess.closed
  BY DEF Inv, Reports, Turn, Active, TypeOK, Told
<1>1. UNCHANGED <<audio, card, seen, fault, faults>>
  BY DEF Reports, Works, Disk
<1>2. CASE w.result = "ok"
  <2>1. w' = Resting /\ posts' = <<"CLOSE_DONE">> /\ UNCHANGED sess
    BY <1>2 DEF Reports
  <2>2. TypeOK'
    BY <1>1, <2>1, RestingFields, Events DEF TypeOK
  <2>3. Pipeline' /\ Turn' /\ Kept'
    BY <1>1, <2>1, RestingFields, Types DEF Inv, Pipeline, Inflight, Turn, Active, Kept
  <2>4. Drained' /\ Whole'
    BY <1>1, <2>1, RestingFields DEF Inv, Drained, GoingWell, Whole, SealedIsWhole
  <2>5. Told'
    BY <1>1, <2>1, RestingFields DEF Inv, Told
  <2>6. DoneIsWhole'
    BY <1>1, <1>2, <2>1 DEF Inv, DoneIsWhole, Whole, Drained, GoingWell
  <2>. QED BY <2>2, <2>3, <2>4, <2>5, <2>6 DEF Inv
<1>3. CASE w.result # "ok"
  <2>1. Go("settle") /\ PostError(sess)
    BY <1>3 DEF Reports
  <2>2. w' \in Writer /\ w'.pc = "settle" /\ w'.since = w.since /\ w'.result = w.result
    BY <2>1, GoFields DEF Step
  <2>3. /\ sess' \in Session /\ sess'.error /\ sess'.closeReq /\ sess'.posted
        /\ sess'.open = sess.open /\ sess'.closed = sess.closed /\ sess'.data = sess.data
        /\ posts' \in Seq(Event) /\ posts' # <<"CLOSE_DONE">>
    BY <2>1, ErrorFields
  <2>4. TypeOK'
    BY <1>1, <2>2, <2>3 DEF TypeOK
  <2>5. Pipeline' /\ Turn' /\ Kept'
    BY <1>1, <2>2, <2>3, Types DEF Inv, Pipeline, Inflight, Turn, Active, Kept
  <2>6. Drained' /\ Whole'
    BY <1>1, <2>2, <2>3 DEF Inv, Drained, GoingWell, Whole, SealedIsWhole
  <2>7. Told' /\ DoneIsWhole'
    BY <1>1, <2>2, <2>3 DEF Inv, Told, DoneIsWhole
  <2>. QED BY <2>4, <2>5, <2>6, <2>7 DEF Inv
<1>. QED BY <1>2, <1>3

(* finish_session posts SETTLED.                                           *)
LEMMA SettlesKeeps == Inv /\ Settles /\ UNCHANGED <<cur, torn>> => Inv'
<1> SUFFICES ASSUME Inv, Settles, UNCHANGED <<cur, torn>> PROVE Inv'
  OBVIOUS
<1>. TypeOK /\ w.pc = "settle" /\ ~sess.open /\ sess.posted
  BY DEF Inv, Settles, Turn, Active, Told
<1>1. UNCHANGED <<audio, sess, card, seen, fault, faults>> /\ w' = Resting
      /\ posts' = <<"SETTLED">>
  BY DEF Settles, Works, Disk
<1>2. TypeOK'
  BY <1>1, RestingFields, Events DEF TypeOK
<1>3. Pipeline' /\ Turn' /\ Kept'
  BY <1>1, RestingFields, Types DEF Inv, Pipeline, Inflight, Turn, Active, Kept
<1>4. Drained' /\ Whole'
  BY <1>1, RestingFields DEF Inv, Drained, GoingWell, Whole, SealedIsWhole
<1>5. Told' /\ DoneIsWhole'
  BY <1>1, RestingFields, Events DEF Inv, Told, DoneIsWhole
<1>. QED BY <1>2, <1>3, <1>4, <1>5 DEF Inv

(* The state of a session and of the microphone after a start.             *)
LEMMA FreshFields ==
  /\ Fresh \in Session /\ ~Fresh.open /\ ~Fresh.closeReq /\ ~Fresh.closed
  /\ ~Fresh.error /\ ~Fresh.posted /\ Fresh.data = 0
  /\ [Fresh EXCEPT !.open = TRUE] \in Session
  /\ Silent \in Audio /\ Silent.mic = "off" /\ ~Silent.flying /\ Silent.ring = 0
  /\ Silent.queued = 0 /\ [Silent EXCEPT !.mic = "on"] \in Audio
<1>1. 0 \in Frames /\ 0 \in 0..RingFrames
  BY SizeAssumption DEF Frames
<1>2. Fresh \in Session /\ [Fresh EXCEPT !.open = TRUE] \in Session
  BY <1>1 DEF Fresh, Session
<1>3. Silent \in Audio /\ [Silent EXCEPT !.mic = "on"] \in Audio
  BY <1>1 DEF Silent, Audio
<1>. QED BY <1>2, <1>3 DEF Fresh, Silent

(* A directory is made, empty and not sealed.                              *)
LEMMA StartKeeps ==
  ASSUME Inv, CanOpen, cur' = cur + 1, w' = w, UNCHANGED <<seen, torn>>, posts' = <<>>,
         audio' \in Audio, audio'.ring = 0, audio'.queued = 0, ~audio'.flying,
         sess' \in Session, ~sess'.closeReq, ~sess'.closed, ~sess'.error, ~sess'.posted,
         sess'.data = 0,
         NEW m \in {"absent", "none", "recording"}, card' = [card EXCEPT ![cur'] = Made(m)],
         fault' \in BOOLEAN, faults' \in 0..MaxFaults
  PROVE  Inv'
<1>. TypeOK /\ w.pc = "loop" /\ ~sess.open /\ w.since = 0
  BY DEF Inv, CanOpen, Turn
<1>1. cur' \in Sessions /\ cur' \in 0..MaxSessions /\ \A s \in Sessions : s > cur' => s > cur
  BY Types, SizeAssumption DEF CanOpen, TypeOK, Sessions
<1>2. /\ card' \in [Sessions -> Directory]
      /\ card'[cur'].man = m /\ card'[cur'].file = 0 /\ card'[cur'].synced = 0
      /\ \A s \in Sessions : s # cur' => card'[s] = card[s]
  <2>1. /\ Made(m) \in Directory /\ Made(m).man = m /\ Made(m).file = 0
        /\ Made(m).synced = 0
    BY SizeAssumption DEF Made, Directory, Frames
  <2>. QED BY <1>1, <2>1 DEF TypeOK
<1>3. seen[cur'] = 0
  BY <1>1, Types DEF Inv, Kept
<1>4. TypeOK'
  BY <1>1, <1>2, Events DEF TypeOK
<1>5. Pipeline'
  <2>1. Inflight' = 0
    BY DEF Inflight
  <2>. QED BY <2>1, SizeAssumption DEF Pipeline
<1>6. Turn'
  BY <1>1, <1>2 DEF Turn, Active
<1>7. Kept'
  BY <1>1, <1>2, <1>3 DEF Inv, Kept
<1>8. Drained' /\ Told' /\ DoneIsWhole'
  BY Events DEF Drained, GoingWell, Told, DoneIsWhole
<1>9. Whole'
  BY <1>1, <1>2 DEF Inv, Whole, SealedIsWhole, Sealed
<1>. QED BY <1>4, <1>5, <1>6, <1>7, <1>8, <1>9 DEF Inv

(* sd_session_open succeeds.                                               *)
LEMMA StartOkKeeps == Inv /\ StartOk => Inv'
<1> SUFFICES ASSUME Inv, StartOk PROVE Inv'
  OBVIOUS
<1>1. fault' \in BOOLEAN /\ faults' \in 0..MaxFaults
  BY DEF Inv, TypeOK, StartOk, Works
<1>2. /\ audio' \in Audio /\ audio'.ring = 0 /\ audio'.queued = 0 /\ ~audio'.flying
      /\ sess' \in Session /\ ~sess'.closeReq /\ ~sess'.closed /\ ~sess'.error
      /\ ~sess'.posted /\ sess'.data = 0
  BY FreshFields DEF StartOk, Silent, Fresh
<1>. QED BY <1>1, <1>2, StartKeeps DEF StartOk, Quiet

(* sd_session_open fails and leaves part of a directory or none.           *)
LEMMA StartFailsKeeps == Inv /\ StartFails => Inv'
<1> SUFFICES ASSUME Inv, StartFails PROVE Inv'
  OBVIOUS
<1>1. fault' \in BOOLEAN /\ faults' \in 0..MaxFaults
  BY FailFields DEF Inv, StartFails
<1>2. PICK m \in {"absent", "none", "recording"} : card' = [card EXCEPT ![cur'] = Made(m)]
  BY DEF StartFails
<1>. QED BY <1>1, <1>2, FreshFields, StartKeeps DEF StartFails, Quiet

(* Mute, pause and stop: only the microphone and the request to close.     *)
LEMMA MicKeeps ==
  ASSUME Inv, audio.mic # "off", UNCHANGED <<w, card, cur, seen, torn, fault, faults>>,
         posts' = <<>>, audio' \in Audio, audio'.ring = audio.ring,
         audio'.queued = audio.queued, audio'.flying = audio.flying,
         sess' \in Session, sess'.open = sess.open, sess'.closed = sess.closed,
         sess'.error = sess.error, sess'.posted = sess.posted, sess'.data = sess.data,
         sess'.committed = sess.committed,
         audio'.mic = "off" \/ sess'.closeReq = sess.closeReq,
         w.pc = "boot" => sess' = sess
  PROVE  Inv'
<1>. TypeOK
  BY DEF Inv
<1>1. TypeOK'
  BY Events DEF TypeOK
<1>2. Pipeline'
  BY Types DEF Inv, Pipeline, Inflight
<1>3. Turn' /\ Kept'
  BY DEF Inv, Turn, Active, Kept
<1>4. Drained' /\ Whole'
  BY DEF Inv, Drained, GoingWell, Whole, SealedIsWhole
<1>5. Told' /\ DoneIsWhole'
  BY Events DEF Inv, Told, DoneIsWhole
<1>. QED BY <1>1, <1>2, <1>3, <1>4, <1>5 DEF Inv

(* hook_stop_recording.                                                    *)
LEMMA StopKeeps == Inv /\ Stop /\ audio.mic # "off" => Inv'
<1> SUFFICES ASSUME Inv, Stop, audio.mic # "off" PROVE Inv'
  OBVIOUS
<1>. sess \in Session /\ audio \in Audio /\ (w.pc = "boot" => ~sess.open)
  BY DEF Inv, TypeOK, Turn, Fresh
<1>1. /\ audio' \in Audio /\ audio'.mic = "off" /\ audio'.ring = audio.ring
      /\ audio'.queued = audio.queued /\ audio'.flying = audio.flying
  BY DEF Stop, Audio
<1>2. /\ sess' \in Session /\ sess'.open = sess.open /\ sess'.closed = sess.closed
      /\ sess'.error = sess.error /\ sess'.posted = sess.posted /\ sess'.data = sess.data
      /\ sess'.committed = sess.committed
      /\ w.pc = "boot" => sess' = sess
  BY DEF Stop, Session
<1>. QED BY <1>1, <1>2, MicKeeps DEF Stop, Quiet, Works

(* audio_pdm_set_muted.                                                    *)
LEMMA SetMutedKeeps ==
  ASSUME NEW muted \in BOOLEAN PROVE Inv /\ SetMuted(muted) => Inv'
<1> SUFFICES ASSUME Inv, SetMuted(muted) PROVE Inv'
  OBVIOUS
<1>. sess \in Session /\ audio \in Audio
  BY DEF Inv, TypeOK
<1>1. /\ audio' \in Audio /\ audio'.ring = audio.ring
      /\ audio'.queued = audio.queued /\ audio'.flying = audio.flying
  BY DEF SetMuted, Audio
<1>. QED BY <1>1, MicKeeps DEF SetMuted, Quiet, Works

(* sd_session_mark fails; with the microphone on no closing that goes      *)
(* well is under way.                                                      *)
LEMMA MarkFailsKeeps == Inv /\ MarkFails /\ audio.mic # "off" => Inv'
<1> SUFFICES ASSUME Inv, MarkFails, audio.mic # "off" PROVE Inv'
  OBVIOUS
<1>. TypeOK /\ sess \in Session /\ sess.open
  BY DEF Inv, TypeOK, MarkFails
<1>1. UNCHANGED <<audio, w, card, cur, seen, torn>> /\ PostError(sess)
  BY DEF MarkFails
<1>2. fault' \in BOOLEAN /\ faults' \in 0..MaxFaults
  BY FailFields DEF MarkFails
<1>3. /\ sess' \in Session /\ sess'.error /\ sess'.closeReq /\ sess'.posted
      /\ sess'.open = sess.open /\ sess'.closed = sess.closed /\ sess'.data = sess.data
      /\ sess'.committed = sess.committed
      /\ posts' \in Seq(Event) /\ posts' # <<"CLOSE_DONE">>
  BY <1>1, ErrorFields
<1>4. TypeOK'
  BY <1>1, <1>2, <1>3 DEF TypeOK
<1>5. Pipeline' /\ Turn' /\ Kept'
  BY <1>1, <1>3, Types DEF Inv, Pipeline, Inflight, Turn, Active, Fresh, Kept
<1>6. Drained' /\ Whole'
  BY <1>1, <1>3 DEF Inv, Drained, GoingWell, Whole, SealedIsWhole
<1>7. Told' /\ DoneIsWhole'
  BY <1>1, <1>3 DEF Inv, Told, DoneIsWhole, Turn
<1>. QED BY <1>4, <1>5, <1>6, <1>7 DEF Inv

(* A step that no part of the invariant depends on.                        *)
LEMMA ReportFaultKeeps == Inv /\ ReportFault => Inv'
<1> SUFFICES ASSUME Inv, ReportFault PROVE Inv'
  OBVIOUS
<1>1. UNCHANGED <<audio, sess, w, card, cur, seen, torn>> /\ posts' = <<>>
  BY DEF ReportFault, Quiet
<1>2. fault' \in BOOLEAN /\ faults' \in 0..MaxFaults
  BY FailFields DEF Inv, ReportFault, IoFails
<1>3. TypeOK'
  BY <1>1, <1>2, Events DEF Inv, TypeOK
<1>4. Pipeline' /\ Turn' /\ Kept' /\ Drained' /\ Whole' /\ Told' /\ DoneIsWhole'
  BY <1>1, Events
     DEF Inv, Pipeline, Inflight, Turn, Kept, Drained, GoingWell, Whole, SealedIsWhole,
         Told, DoneIsWhole
<1>. QED BY <1>3, <1>4 DEF Inv

-----------------------------------------------------------------------------
(* Power losses and recovery.                                              *)

(* While the power is off and during the start nobody has a session.       *)
LEMMA OffKeeps ==
  ASSUME Inv, audio' = Silent, sess' = Fresh, w' \in Writer, w'.pc \in {"boot", "loop"},
         w'.since = 0, UNCHANGED <<cur, seen>>, posts' = <<>>,
         card' \in [Sessions -> Directory], torn' \subseteq Sessions,
         fault' \in BOOLEAN, faults' \in 0..MaxFaults,
         \A s \in Sessions : /\ seen[s] <= card'[s].synced
                             /\ card'[s].synced <= card'[s].file
                             /\ card'[s].man \in Sealed =>
                                  /\ card'[s].count = card'[s].file
                                  /\ card'[s].synced = card'[s].file
  PROVE  Inv'
<1>1. TypeOK'
  BY FreshFields, Events DEF Inv, TypeOK
<1>2. Pipeline'
  BY FreshFields, SizeAssumption DEF Pipeline, Inflight
<1>3. Turn'
  BY FreshFields DEF Turn, Active
<1>4. Kept'
  BY DEF Inv, Kept
<1>5. Drained' /\ Told' /\ DoneIsWhole'
  BY FreshFields, Events DEF Drained, GoingWell, Told, DoneIsWhole
<1>6. Whole'
  BY FreshFields DEF Whole, SealedIsWhole
<1>. QED BY <1>1, <1>2, <1>3, <1>4, <1>5, <1>6 DEF Inv

(* Whatever a power loss leaves of a directory holds what was offered, and *)
(* is whole if its manifest says so.                                       *)
LEMMA SurvivorsHold ==
  ASSUME Inv, NEW s \in Sessions, NEW d \in Survivors(s)
  PROVE  /\ d \in Directory /\ seen[s] <= d.synced /\ d.synced = d.file
         /\ d.man \in Sealed => d.count = d.file
<1>. TypeOK
  BY DEF Inv
<1>1. PICK e \in Manifests(s), n \in card[s].synced..card[s].file :
         d = Cut(e, n)
  BY DEF Survivors
<1>2. n \in Frames /\ seen[s] <= n
  <2>1. seen[s] <= card[s].synced /\ card[s].file <= MaxFrames
    BY CardTypes, SizeAssumption DEF Inv, Kept, Directory, Frames
  <2>2. n \in Nat /\ card[s].synced <= n /\ n <= card[s].file
    BY CardTypes
  <2>. QED BY <2>1, <2>2, CardTypes, SizeAssumption DEF Frames
<1>3. e \in Directory /\ (e.man \in Sealed => e.count = n)
  <2>1. CASE e = card[s]
    <3>1. card[s].man \in Sealed => n = card[s].file /\ card[s].count = card[s].file
      BY CardTypes DEF Inv, Whole, SealedIsWhole
    <3>. QED BY <2>1, <3>1, CardTypes
  <2>2. CASE e = [card[s] EXCEPT !.man = "none"]
    BY <2>2, CardTypes DEF Directory, Sealed
  <2>3. CASE s = cur /\ w.pc = "manifest" /\ e = Final
    <3>1. /\ Final \in Directory /\ Final.count = sess.committed
          /\ w.result # "ok" => Final.man = "error"
      BY <2>3, CardTypes DEF Final, Directory, Sealed, TypeOK, Session
    <3>2. w.result = "ok" => sess.committed = n
      BY <2>3, CardTypes DEF Inv, Whole, Turn, Active
    <3>. QED BY <2>3, <3>1, <3>2 DEF Sealed
  <2>. QED BY <2>1, <2>2, <2>3 DEF Manifests
<1>4. d \in Directory /\ d.synced = n /\ d.file = n /\ d.man = e.man /\ d.count = e.count
  BY <1>1, <1>2, <1>3 DEF Cut, Directory
<1>. QED BY <1>2, <1>3, <1>4

(* A power loss, at any step of the writer.                                *)
LEMMA PowerLossKeeps == Inv /\ PowerLoss => Inv'
<1> SUFFICES ASSUME Inv, PowerLoss PROVE Inv'
  OBVIOUS
<1>1. /\ audio' = Silent /\ sess' = Fresh /\ w' = [Resting EXCEPT !.pc = "boot"]
      /\ UNCHANGED <<cur, seen>> /\ posts' = <<>> /\ torn' \subseteq Sessions
  BY DEF PowerLoss, Quiet
<1>2. w' \in Writer /\ w'.pc = "boot" /\ w'.since = 0
  BY <1>1, RestingFields DEF Resting, Writer, Step
<1>3. fault' \in BOOLEAN /\ faults' \in 0..MaxFaults
  BY FailCounts DEF Inv, PowerLoss
<1>4. PICK f \in [Sessions -> UNION {Survivors(s) : s \in Sessions}] :
         card' = f /\ \A s \in Sessions : f[s] \in Survivors(s)
  BY DEF PowerLoss
<1>5. card' \in [Sessions -> Directory]
  BY <1>4, SurvivorsHold
<1>6. \A s \in Sessions : /\ seen[s] <= card'[s].synced
                          /\ card'[s].synced <= card'[s].file
                          /\ card'[s].man \in Sealed =>
                               /\ card'[s].count = card'[s].file
                               /\ card'[s].synced = card'[s].file
  <2>1. ASSUME NEW s \in Sessions
        PROVE  /\ seen[s] <= card'[s].synced
               /\ card'[s].synced <= card'[s].file
               /\ card'[s].man \in Sealed =>
                    /\ card'[s].count = card'[s].file
                    /\ card'[s].synced = card'[s].file
    <3>1. card'[s] \in Survivors(s)
      BY <1>4
    <3>2. /\ card'[s] \in Directory /\ seen[s] <= card'[s].synced
          /\ card'[s].synced = card'[s].file
          /\ card'[s].man \in Sealed => card'[s].count = card'[s].file
      BY <3>1, SurvivorsHold
    <3>3. card'[s].file \in Nat
      BY <3>2, SizeAssumption DEF Directory, Frames
    <3>. QED BY <3>2, <3>3
  <2>. QED BY <2>1
<1>. QED BY <1>1, <1>2, <1>3, <1>5, <1>6, OffKeeps

(* recover_session, done, failed or skipped on a faulted card.             *)
LEMMA RecoverKeeps == ASSUME NEW s \in Sessions PROVE Inv /\ Recover(s) => Inv'
<1> SUFFICES ASSUME Inv, Recover(s) PROVE Inv'
  OBVIOUS
<1>. TypeOK /\ w.pc = "boot" /\ sess = Fresh /\ card[s] \in Directory
  BY CardTypes DEF Inv, Turn, Recover
<1>1. UNCHANGED <<audio, sess, cur, seen>> /\ posts' = <<>> /\ torn' \subseteq Sessions
  BY DEF Recover, Quiet, TypeOK
<1>2. fault' \in BOOLEAN /\ faults' \in 0..MaxFaults
  BY FailFields DEF Recover, Works, TypeOK
<1>3. w' \in Writer /\ w'.pc = "boot" /\ w'.since = w.since
  BY DEF Recover, TypeOK, Writer
<1>4. PICK d \in Directory :
         /\ card' = [card EXCEPT ![s] = d]
         /\ d.file = card[s].file /\ card[s].synced <= d.synced /\ d.synced <= d.file
         /\ d.man \in Sealed => d.count = d.file /\ d.synced = d.file
  <2>. seen[s] <= card[s].synced /\ card[s].synced <= card[s].file
    BY DEF Inv, Kept
  <2>1. CASE card' = [card EXCEPT ![s] = Repaired(@)]
    <3>1. /\ Repaired(card[s]) \in Directory
          /\ Repaired(card[s]).file = card[s].file
          /\ Repaired(card[s]).synced = card[s].file
          /\ Repaired(card[s]).count = card[s].file
      BY DEF Repaired, Directory, Sealed
    <3>2. card' = [card EXCEPT ![s] = Repaired(card[s])]
      BY <2>1
    <3>3. card[s].synced <= Repaired(card[s]).synced
          /\ Repaired(card[s]).synced <= Repaired(card[s]).file
      BY <3>1, CardTypes
    <3>. QED BY <3>1, <3>2, <3>3
  <2>2. ASSUME NEW m \in {card[s].man, "none"}, card' = [card EXCEPT ![s].man = m]
        PROVE  \E d \in Directory :
                 /\ card' = [card EXCEPT ![s] = d]
                 /\ d.file = card[s].file /\ card[s].synced <= d.synced /\ d.synced <= d.file
                 /\ d.man \in Sealed => d.count = d.file /\ d.synced = d.file
    <3>. DEFINE d == [card[s] EXCEPT !.man = m]
    <3>1. /\ d \in Directory /\ d.man = m /\ d.file = card[s].file
          /\ d.synced = card[s].synced /\ d.count = card[s].count
      BY DEF Directory
    <3>2. d.man \in Sealed => d.count = d.file /\ d.synced = d.file
      BY <3>1 DEF Inv, Whole, SealedIsWhole, Sealed
    <3>3. card' = [card EXCEPT ![s] = d]
      BY <2>2 DEF TypeOK
    <3>4. card[s].synced <= d.synced /\ d.synced <= d.file
      BY <3>1, CardTypes
    <3>. HIDE DEF d
    <3>. QED BY <3>1, <3>2, <3>3, <3>4
  <2>3. CASE UNCHANGED card
    <3>1. card' = [card EXCEPT ![s] = card[s]]
      BY <2>3 DEF TypeOK
    <3>2. card[s].man \in Sealed => card[s].count = card[s].file /\ card[s].synced = card[s].file
      BY DEF Inv, Whole, SealedIsWhole
    <3>3. card[s].synced <= card[s].synced
      BY CardTypes
    <3>. QED BY <3>1, <3>2, <3>3
  <2>. QED BY <2>1, <2>2, <2>3 DEF Recover
<1>5. /\ card' \in [Sessions -> Directory] /\ card'[s] = d
      /\ \A t \in Sessions : t # s => card'[t] = card[t]
  BY <1>4 DEF TypeOK
<1>6. seen[s] <= d.synced
  BY <1>4, CardTypes, SizeAssumption DEF Inv, Kept, Directory, Frames
<1>7. TypeOK'
  BY <1>1, <1>2, <1>3, <1>5, Events DEF TypeOK
<1>8. Pipeline' /\ Turn' /\ Drained' /\ Told' /\ DoneIsWhole'
  BY <1>1, <1>3, FreshFields, Events
     DEF Inv, Pipeline, Inflight, Turn, Active, Drained, GoingWell, Told, DoneIsWhole
<1>9. Kept'
  BY <1>1, <1>4, <1>5, <1>6 DEF Inv, Kept
<1>10. Whole'
  BY <1>1, <1>3, <1>4, <1>5, FreshFields DEF Inv, Whole, SealedIsWhole
<1>. QED BY <1>7, <1>8, <1>9, <1>10 DEF Inv

(* storage_sd_init ends.                                                   *)
LEMMA BootsKeeps == Inv /\ Boots => Inv'
<1> SUFFICES ASSUME Inv, Boots PROVE Inv'
  OBVIOUS
<1>. TypeOK /\ sess = Fresh
  BY DEF Inv, Turn, Boots
<1>1. /\ UNCHANGED <<audio, sess, card, cur, seen, torn, faults>> /\ posts' = <<>>
      /\ w' = Resting /\ fault' \in BOOLEAN
  BY DEF Boots, Quiet, TypeOK
<1>2. TypeOK'
  BY <1>1, RestingFields, Events DEF TypeOK
<1>3. Pipeline' /\ Turn' /\ Kept'
  BY <1>1, RestingFields, FreshFields, Types
     DEF Inv, Pipeline, Inflight, Turn, Active, Kept, Boots
<1>4. Drained' /\ Whole'
  BY <1>1, RestingFields, FreshFields DEF Inv, Drained, GoingWell, Whole, SealedIsWhole
<1>5. Told' /\ DoneIsWhole'
  BY <1>1, RestingFields, FreshFields, Events DEF Inv, Told, DoneIsWhole
<1>. QED BY <1>2, <1>3, <1>4, <1>5 DEF Inv

-----------------------------------------------------------------------------
(* The invariant.                                                          *)

(* Nothing happens.                                                        *)
LEMMA StutterKeeps == Inv /\ UNCHANGED vars => Inv'
  BY DEF vars, Inv, TypeOK, Pipeline, Inflight, Turn, Kept, Drained, GoingWell, Whole,
         SealedIsWhole, Told, DoneIsWhole, Final

(* The steps of writer_task and finish_session together.                   *)
LEMMA WriterKeeps == Inv /\ WriterStep => Inv'
  BY LoopKeeps, ReadKeeps, ReadEmptyKeeps, WriteKeeps, CommitKeeps, FinishKeeps,
     CloseFileKeeps, ManifestKeeps, RetiresKeeps, MarksClosedKeeps, ReportsKeeps,
     SettlesKeeps DEF WriterStep

(* The calls of the application together.                                  *)
LEMMA ApplicationKeeps == Inv /\ Application => Inv'
  BY StartOkKeeps, StartFailsKeeps, StopKeeps, SetMutedKeeps, MarkFailsKeeps
     DEF Application

(* Every operation keeps the inductive invariant.                          *)
LEMMA StepKeeps == Inv /\ [Next]_vars => Inv'
  BY CaptureKeeps, WriterKeeps, ApplicationKeeps, ReportFaultKeeps, PowerLossKeeps,
     RecoverKeeps, BootsKeeps, StutterKeeps DEF Next

(* The recording path keeps the inductive invariant for every number of    *)
(* sessions, frames and faults and every size of its buffers.              *)
THEOREM InvAlways == Spec => []Inv
  BY InitInv, StepKeeps, PTL DEF Spec

(* The state of the recording path has its types: the ring never overflows *)
(* and no counter runs ahead of the frames delivered.                      *)
THEOREM TypeCorrect == Spec => []TypeOK
<1>1. Inv => TypeOK
  BY DEF Inv
<1>. QED BY <1>1, InvAlways, PTL

(* wav_commit before committed_bytes: what a reader was offered survives   *)
(* every power loss and every recovery.                                    *)
THEOREM NoOfferLost == Spec => []OfferedSurvives
<1>1. Inv => OfferedSurvives
  BY DEF Inv, Kept, OfferedSurvives
<1>. QED BY <1>1, InvAlways, PTL

(* finish_session, recover_session: a manifest that calls a session whole  *)
(* tells the exact length of a file that is on the card for good.          *)
THEOREM SealedAreWhole == Spec => []SealedIsWhole
<1>1. Inv => SealedIsWhole
  BY DEF Inv, Whole
<1>. QED BY <1>1, InvAlways, PTL

(* CLOSE_DONE is only posted when every frame that was queued is on the    *)
(* card and the manifest is closed.                                        *)
THEOREM DoneMeansWhole == Spec => []DoneIsWhole
<1>1. Inv => DoneIsWhole
  BY DEF Inv
<1>. QED BY <1>1, InvAlways, PTL

(* A poll that reads closed without an error finds a closed manifest.      *)
THEOREM ClosedMeansSealed == Spec => []ClosedIsSealed
<1>1. Inv => ClosedIsSealed
  BY DEF Inv, Told, ClosedIsSealed
<1>. QED BY <1>1, InvAlways, PTL

(* What a step may post.                                                   *)
LEMMA WriterPosts ==
  ASSUME Inv, WriterStep
  PROVE  \/ posts' = <<>>
         \/ posts' = <<"STORAGE_ERROR">> /\ ~sess.posted
         \/ posts' = <<"CLOSE_DONE">> /\ w.pc = "report" /\ w.result = "ok"
         \/ posts' = <<"SETTLED">> /\ w.pc = "settle"
<1>1. ASSUME NEW s \in Session, PostError(s), s.posted = sess.posted
      PROVE  posts' = <<>> \/ (posts' = <<"STORAGE_ERROR">> /\ ~sess.posted)
  BY <1>1 DEF PostError
<1>2. sess \in Session /\ Committed \in Session /\ Committed.posted = sess.posted
  BY CommittedFields DEF Inv, TypeOK
<1>3. CASE Write
  <2>1. CASE Quiet
    BY <2>1 DEF Quiet
  <2>2. CASE ~Quiet
    <3>1. PICK n \in 0..(w.got - 1) : PostError([sess EXCEPT !.data = @ + n])
      BY <1>3, <2>2 DEF Write, GivesUp
    <3>. QED BY <3>1 DEF PostError, Inv, TypeOK, Session
  <2>. QED BY <2>1, <2>2
<1>4. CASE Commit
  BY <1>1, <1>2, <1>4 DEF Commit, GivesUp, Quiet
<1>5. CASE Reports
  BY <1>1, <1>2, <1>5 DEF Reports
<1>6. CASE Settles
  BY <1>6 DEF Settles
<1>7. CASE Loop \/ Read \/ ReadEmpty \/ Finish \/ CloseFile \/ Manifest \/ Retires \/ MarksClosed
  BY <1>7 DEF Loop, Read, ReadEmpty, Finish, CloseFile, Manifest, Retires, MarksClosed,
             GivesUp, Quiet
<1>. QED BY <1>3, <1>4, <1>5, <1>6, <1>7 DEF WriterStep

(* Outside the writer only a failed mark posts.                            *)
LEMMA OtherPosts ==
  ASSUME Inv, Next, ~WriterStep
  PROVE  posts' = <<>> \/ (posts' = <<"STORAGE_ERROR">> /\ ~sess.posted)
<1>1. CASE MarkFails
  BY <1>1 DEF MarkFails, PostError
<1>2. CASE Capture \/ ReportFault \/ PowerLoss \/ Boots \/ \E s \in Sessions : Recover(s)
  BY <1>2 DEF Capture, ReportFault, PowerLoss, Boots, Recover, Quiet
<1>3. CASE StartOk \/ StartFails \/ Stop \/ \E muted \in BOOLEAN : SetMuted(muted)
  BY <1>3 DEF StartOk, StartFails, Stop, SetMuted, Quiet
<1>. QED BY <1>1, <1>2, <1>3 DEF Next, Application

(* The application hears of an error once, before it hears that the        *)
(* session is settled, and never that a session in error is done.          *)
THEOREM ErrorsTold == Spec => ErrorTold
<1>1. Inv /\ [Next]_vars =>
        [/\ posts' = <<"SETTLED">> => sess.posted /\ sess.closed
         /\ posts' = <<"CLOSE_DONE">> => ~sess.posted
         /\ posts' = <<"STORAGE_ERROR">> => ~sess.posted]_vars
  <2>1. ASSUME Inv, Next
        PROVE  /\ posts' = <<"SETTLED">> => sess.posted /\ sess.closed
               /\ posts' = <<"CLOSE_DONE">> => ~sess.posted
               /\ posts' = <<"STORAGE_ERROR">> => ~sess.posted
    <3>1. w.pc = "settle" => sess.posted /\ sess.closed
      BY <2>1 DEF Inv, Told
    <3>2. w.pc = "report" /\ w.result = "ok" => ~sess.posted
      BY <2>1 DEF Inv, Told, Drained, GoingWell
    <3>3. \/ posts' = <<>>
          \/ posts' = <<"STORAGE_ERROR">> /\ ~sess.posted
          \/ posts' = <<"CLOSE_DONE">> /\ w.pc = "report" /\ w.result = "ok"
          \/ posts' = <<"SETTLED">> /\ w.pc = "settle"
      BY <2>1, WriterPosts, OtherPosts
    <3>. QED BY <3>1, <3>2, <3>3
  <2>. QED BY <2>1
<1>. QED BY <1>1, InvAlways, PTL DEF Spec, ErrorTold

-----------------------------------------------------------------------------
(***************************************************************************)
(* The recording path implements RecordingStore, for every value of the    *)
(* constants.                                                              *)
(***************************************************************************)

(* What the mapping needs to know besides Inv: directories that were not   *)
(* made are empty, an open session has the manifest it was given at the    *)
(* start until it gets its last one, a closing that goes well has offered  *)
(* everything, and recovery visits what it may repair.                     *)
Unmade ==
  /\ \A s \in Sessions : s > cur => card[s].man = "absent"
  /\ \A s \in Sessions : card[s].man = "absent" => card[s].file = 0 /\ card[s].synced = 0
Opened == sess.open /\ w.pc # "retire" => card[cur].man = "recording"
AllOffered == w.pc \in {"close", "manifest"} /\ w.result = "ok" => seen[cur] = sess.data
Repairable == w.pc = "boot" => \A s \in torn : card[s].man \notin Sealed \cup {"absent"}

Mapped == Unmade /\ Opened /\ AllOffered /\ Repairable

-----------------------------------------------------------------------------
(* The steps of the store, told by the phase of one session.               *)

(* Nothing a reader could see changes.                                     *)
LEMMA MapStutter ==
  ASSUME seen' = seen,
         \A s \in Sessions : Phase(s)' = Phase(s) /\ card'[s].synced = card[s].synced
  PROVE  UNCHANGED Store!vars
<1>1. [s \in Sessions |-> Phase(s)]' = [s \in Sessions |-> Phase(s)]
  OBVIOUS
<1>2. [s \in Sessions |-> card[s].synced]' = [s \in Sessions |-> card[s].synced]
  OBVIOUS
<1>. QED BY <1>1, <1>2 DEF Store!vars

(* One session goes to another phase, no frame is offered or synced.       *)
LEMMA PhaseStep ==
  ASSUME NEW s \in Sessions, NEW p, Phase(s)' = p,
         \A t \in Sessions : t # s => Phase(t)' = Phase(t)
  PROVE  [t \in Sessions |-> Phase(t)]' = Store!At([t \in Sessions |-> Phase(t)], s, p)
  BY DEF Store!At

(* No frame is synced.                                                     *)
LEMMA KeptSame ==
  ASSUME \A s \in Sessions : card'[s].synced = card[s].synced
  PROVE  [s \in Sessions |-> card[s].synced]' = [s \in Sessions |-> card[s].synced]
  OBVIOUS

(* A directory is made.                                                    *)
LEMMA MapBegin ==
  ASSUME NEW s \in Sessions, NEW p \in {"open", "torn"},
         Phase(s) = "absent", \A t \in Sessions : Phase(t) # "open",
         Phase(s)' = p, \A t \in Sessions : t # s => Phase(t)' = Phase(t),
         seen' = seen, \A t \in Sessions : card'[t].synced = card[t].synced
  PROVE  Store!Next
<1>1. Store!Begin(s, p)
  BY PhaseStep, KeptSame DEF Store!Begin
<1>. QED BY <1>1 DEF Store!Next

(* The open session is sealed or given up.                                 *)
LEMMA MapSeal ==
  ASSUME NEW s \in Sessions, NEW p \in {"torn", "sealed"}, Phase(s) = "open",
         p = "sealed" => seen[s] = card[s].synced,
         Phase(s)' = p, \A t \in Sessions : t # s => Phase(t)' = Phase(t),
         seen' = seen, \A t \in Sessions : card'[t].synced = card[t].synced
  PROVE  Store!Next
<1>1. p = "torn" => Store!Tear(s)
  BY PhaseStep, KeptSame DEF Store!Tear
<1>2. p = "sealed" => Store!Seal(s)
  BY PhaseStep, KeptSame DEF Store!Seal
<1>. QED BY <1>1, <1>2 DEF Store!Next

(* More of the open session is synced, and some of it offered.             *)
LEMMA MapSync ==
  ASSUME NEW s \in Sessions, Phase(s) = "open", seen \in [Sessions -> Frames],
         \A t \in Sessions : Phase(t)' = Phase(t),
         NEW n \in Frames, card'[s].synced = n, card[s].synced <= n,
         \A t \in Sessions : t # s => card'[t].synced = card[t].synced,
         NEW o \in Frames, seen[s] <= o, o <= n, seen' = [seen EXCEPT ![s] = o]
  PROVE  Store!Next
<1>1. [t \in Sessions |-> Phase(t)]' = [t \in Sessions |-> Phase(t)]
  OBVIOUS
<1>2. [t \in Sessions |-> card[t].synced]'
        = Store!At([t \in Sessions |-> card[t].synced], s, n)
  BY DEF Store!At
<1>3. o >= seen[s] /\ n >= card[s].synced
  BY SizeAssumption DEF Frames
<1>4. Store!Sync(s, n)
  BY <1>1, <1>2, <1>3 DEF Store!Sync, Store!At, Store!Frames, Frames
<1>. QED BY <1>4 DEF Store!Next, Store!Frames, Frames

(* A torn session is repaired.                                             *)
LEMMA MapRepair ==
  ASSUME NEW s \in Sessions, NEW p \in {"torn", "sealed"}, Phase(s) = "torn",
         Phase(s)' = p, \A t \in Sessions : t # s => Phase(t)' = Phase(t),
         NEW n \in Frames, card'[s].synced = n, card[s].synced <= n,
         \A t \in Sessions : t # s => card'[t].synced = card[t].synced,
         seen' = seen
  PROVE  Store!Next
<1>1. [t \in Sessions |-> card[t].synced]'
        = Store!At([t \in Sessions |-> card[t].synced], s, n)
  BY DEF Store!At
<1>2. n >= card[s].synced
  OBVIOUS
<1>3. Store!Repair(s, n, p)
  BY <1>1, <1>2, PhaseStep DEF Store!Repair
<1>. QED BY <1>3 DEF Store!Next, Store!Frames, Frames

-----------------------------------------------------------------------------
(* Each operation is a step of the store or none.                          *)

Simulates == Mapped' /\ (Store!Next \/ UNCHANGED Store!vars)

(* A step that leaves the card and what was offered alone and closes no    *)
(* session.                                                                *)
LEMMA NoCard ==
  ASSUME Inv, Mapped, UNCHANGED <<card, seen, cur>>, sess'.open = sess.open,
         sess.open /\ w'.pc # "retire" => w.pc # "retire",
         w'.pc \in {"close", "manifest"} /\ w'.result = "ok" =>
           w.pc \in {"close", "manifest"} /\ w.result = "ok" /\ sess'.data = sess.data,
         w'.pc = "boot" => w.pc = "boot" /\ torn' = torn
  PROVE  Simulates
<1>1. Mapped'
  BY DEF Mapped, Unmade, Opened, AllOffered, Repairable
<1>2. \A s \in Sessions : Phase(s)' = Phase(s) /\ card'[s].synced = card[s].synced
  BY DEF Phase
<1>. QED BY <1>1, <1>2, MapStutter DEF Simulates

(* The calls of the other tasks that only touch the session's flags.       *)
LEMMA CallsSimulate ==
  ASSUME Inv, Mapped,
         \/ Capture \/ ReportFault \/ Stop \/ MarkFails
         \/ \E muted \in BOOLEAN : SetMuted(muted)
  PROVE  Simulates
<1>. sess \in Session
  BY DEF Inv, TypeOK
<1>1. UNCHANGED <<card, seen, cur, w, torn>>
  BY DEF Capture, ReportFault, Stop, MarkFails, SetMuted
<1>2. sess'.open = sess.open /\ sess'.data = sess.data
  <2>1. CASE MarkFails
    BY <2>1, ErrorFields DEF MarkFails
  <2>2. CASE Stop
    BY <2>2 DEF Stop, Session
  <2>3. CASE Capture \/ ReportFault \/ \E muted \in BOOLEAN : SetMuted(muted)
    BY <2>3 DEF Capture, ReportFault, SetMuted
  <2>. QED BY <2>1, <2>2, <2>3
<1>. QED BY <1>1, <1>2, NoCard

(* The session is given up at a look at the fault flag.                    *)
LEMMA GivesUpSimulates ==
  ASSUME Inv, Mapped, GivesUp, UNCHANGED <<cur, torn>>
  PROVE  Simulates
<1>1. UNCHANGED <<card, seen, sess>> /\ w'.pc = "retire"
  BY EndsFields DEF GivesUp, Disk, Inv
<1>. QED BY <1>1, NoCard

(* The steps of the writer that touch neither the card nor open.           *)
LEMMA QuietSimulates ==
  ASSUME Inv, Mapped, UNCHANGED <<cur, torn>>,
         Loop \/ Read \/ ReadEmpty \/ CloseFile \/ MarksClosed \/ Reports \/ Settles
  PROVE  Simulates
<1>. TypeOK /\ sess \in Session /\ w \in Writer
  BY DEF Inv, TypeOK
<1>1. CASE GivesUp
  BY <1>1, GivesUpSimulates
<1>2. CASE ~GivesUp
  <2>1. UNCHANGED <<card, seen>>
    BY <1>2 DEF Loop, Read, ReadEmpty, CloseFile, MarksClosed, Reports, Settles, Disk
  <2>2. sess'.open = sess.open /\ sess'.data = sess.data
    <3>1. CASE Reports
      BY <3>1, ErrorFields DEF Reports
    <3>2. CASE MarksClosed
      BY <3>2 DEF MarksClosed, Session
    <3>3. CASE Loop \/ Read \/ ReadEmpty \/ CloseFile \/ Settles
      BY <1>2, <3>3 DEF Loop, Read, ReadEmpty, CloseFile, Settles
    <3>. QED BY <3>1, <3>2, <3>3
  <2>3. /\ w'.pc # "boot" /\ w.pc # "retire"
        /\ w'.pc \in {"close", "manifest"} /\ w'.result = "ok" =>
             w.pc \in {"close", "manifest"} /\ w.result = "ok"
    <3>1. CASE Loop \/ ReadEmpty \/ MarksClosed
      BY <1>2, <3>1, GoFields DEF Loop, ReadEmpty, MarksClosed, Step
    <3>2. CASE Read
      BY <3>2 DEF Read, Writer
    <3>3. CASE CloseFile
      BY <1>2, <3>3, EndsFields DEF CloseFile, Writer
    <3>4. CASE Reports \/ Settles
      BY <3>4, GoFields, RestingFields DEF Reports, Settles, Step
    <3>. QED BY <3>1, <3>2, <3>3, <3>4
  <2>. QED BY <2>1, <2>2, <2>3, NoCard
<1>. QED BY <1>1, <1>2

(* fwrite adds to the file what is not synced yet.                         *)
LEMMA WriteSimulates ==
  ASSUME Inv, Mapped, UNCHANGED <<cur, torn>>, Write
  PROVE  Simulates
<1>. TypeOK /\ sess \in Session /\ w \in Writer /\ w.pc = "write" /\ sess.open /\ cur \in Sessions
  BY DEF Inv, TypeOK, Turn, Active, Write
<1>1. CASE GivesUp
  BY <1>1, GivesUpSimulates
<1>2. CASE Disk /\ Go("loop") /\ UNCHANGED sess
  <2>1. UNCHANGED <<card, seen>> /\ w'.pc = "loop"
    BY <1>2, GoFields DEF Disk, Step
  <2>. QED BY <2>1, <1>2, NoCard
<1>3. ASSUME NEW n \in 0..w.got, NEW p \in {"loop", "commit"}, Wrote(n, p),
             sess'.open = sess.open
      PROVE  Simulates
  <2>1. seen' = seen /\ w'.pc = p /\ w.pc # "retire"
    BY <1>3 DEF Wrote, Writer
  <2>2. /\ card'[cur].man = card[cur].man /\ card'[cur].synced = card[cur].synced
        /\ \A s \in Sessions : s # cur => card'[s] = card[s]
    BY <1>3, CardTypes DEF Wrote, OnCard, Directory, TypeOK
  <2>3. card[cur].man = "recording"
    BY DEF Mapped, Opened
  <2>4. Mapped'
    BY <1>3, <2>1, <2>2, <2>3 DEF Mapped, Unmade, Opened, AllOffered, Repairable
  <2>5. \A s \in Sessions : Phase(s)' = Phase(s) /\ card'[s].synced = card[s].synced
    BY <1>3, <2>2 DEF Phase
  <2>. QED BY <2>1, <2>4, <2>5, MapStutter DEF Simulates
<1>4. w.got \in 0..w.got
  BY Types
<1>5. CASE Wrote(w.got, "commit") /\ sess' = [sess EXCEPT !.data = @ + w.got]
  <2>1. sess'.open = sess.open
    BY <1>5 DEF Session
  <2>. QED BY <1>3, <1>4, <1>5, <2>1
<1>6. ASSUME NEW n \in 0..(w.got - 1), Wrote(n, "loop"), PostError([sess EXCEPT !.data = @ + n])
      PROVE  Simulates
  <2>1. n \in 0..w.got
    BY Types
  <2>2. sess'.open = sess.open
    BY <1>6 DEF PostError, Session
  <2>. QED BY <1>3, <1>6, <2>1, <2>2
<1>. QED BY <1>1, <1>2, <1>5, <1>6 DEF Write

(* What a commit, periodic or final, does to the card.                     *)
LEMMA CommitEffect ==
  ASSUME Inv, Commit, ~GivesUp, UNCHANGED <<cur, torn>>
  PROVE  /\ sess'.open = sess.open /\ w'.pc = "loop"
         /\ \/ UNCHANGED <<card, seen>>
            \/ OnCard(Synced) /\ seen' = seen
            \/ OnCard(Synced) /\ Offer(sess.data)
<1>. TypeOK /\ sess \in Session /\ w \in Writer
  BY DEF Inv, TypeOK
<1>1. CASE Go("loop") /\ Disk /\ UNCHANGED sess
  BY <1>1, GoFields DEF Disk, Step
<1>2. CASE Go("loop") /\ CommitFails /\ PostError(sess) /\ UNCHANGED seen
  <2>1. UNCHANGED card \/ OnCard(Synced)
    BY <1>2 DEF CommitFails, OnCard, TypeOK
  <2>. QED BY <1>2, <2>1, GoFields, ErrorFields DEF Step
<1>3. CASE /\ OnCard(Synced) /\ Offer(sess.data)
           /\ w' = [w EXCEPT !.pc = "loop", !.since = 0]
           /\ sess' = Committed \/ PostError(Committed)
  <2>1. sess'.open = sess.open
    BY <1>3, CommittedFields, ErrorFields
  <2>2. w'.pc = "loop"
    BY <1>3 DEF Writer
  <2>. QED BY <1>3, <2>1, <2>2
<1>. QED BY <1>1, <1>2, <1>3 DEF Commit

(* What the last commit does to it.                                        *)
LEMMA FinishEffect ==
  ASSUME Inv, Finish, ~GivesUp, UNCHANGED <<cur, torn>>
  PROVE  /\ sess'.open = sess.open /\ sess'.data = sess.data
         /\ w'.pc \in {"close", "retire"}
         /\ \/ UNCHANGED <<card, seen>> /\ w'.result # "ok"
            \/ OnCard(Synced) /\ seen' = seen /\ w'.result # "ok"
            \/ OnCard(Synced) /\ Offer(sess.data)
<1>. TypeOK /\ sess \in Session /\ w \in Writer
  BY DEF Inv, TypeOK
<1>1. CASE /\ OnCard(Synced) /\ Offer(sess.data) /\ sess' = Committed
           /\ w' = [w EXCEPT !.pc = "close", !.result = "ok"] \/ Ends("fault")
  <2>1. w'.pc \in {"close", "retire"}
    BY <1>1, EndsFields DEF Writer
  <2>. QED BY <1>1, <2>1, CommittedFields
<1>2. CASE /\ CommitFails /\ UNCHANGED <<sess, seen>>
           /\ w' = [w EXCEPT !.pc = "close", !.result = "bad"] \/ Ends("fault")
  <2>1. UNCHANGED card \/ OnCard(Synced)
    BY <1>2 DEF CommitFails, OnCard, TypeOK
  <2>2. w'.pc \in {"close", "retire"} /\ w'.result # "ok"
    BY <1>2, EndsFields DEF Writer
  <2>. QED BY <1>2, <2>1, <2>2
<1>. QED BY <1>1, <1>2 DEF Finish

(* A commit is a sync of the store.                                        *)
LEMMA SyncSimulates ==
  ASSUME Inv, Mapped, UNCHANGED <<cur, torn>>, w.pc \in {"commit", "finish"},
         sess'.open = sess.open, w'.pc \in {"loop", "close", "retire"},
         w'.pc = "close" /\ w'.result = "ok" => Offer(sess.data) /\ sess'.data = sess.data,
         OnCard(Synced), seen' = seen \/ Offer(sess.data)
  PROVE  Simulates
<1>. TypeOK /\ sess.open /\ cur \in Sessions /\ card[cur].file = sess.data
     /\ card[cur].man = "recording"
  BY DEF Inv, Turn, Active, Mapped, Opened
<1>1. /\ Synced \in Directory /\ Synced.file = sess.data /\ Synced.synced = sess.data
      /\ Synced.man = "recording" /\ sess.data \in Frames
  BY CardTypes DEF Synced, Directory, TypeOK, Session
<1>2. /\ card'[cur] = Synced /\ \A s \in Sessions : s # cur => card'[s] = card[s]
  BY <1>1, CardFields
<1>3. seen[cur] <= card[cur].synced /\ card[cur].synced <= sess.data /\ seen[cur] \in Frames
  BY DEF Inv, Kept, TypeOK
<1>4. seen[cur] <= sess.data
  BY <1>3, CardTypes, Types
<1>5. Mapped'
  <2>1. Unmade' /\ Opened' /\ Repairable'
    BY <1>1, <1>2 DEF Mapped, Unmade, Opened, Repairable
  <2>2. AllOffered'
    BY DEF AllOffered, Offer, TypeOK
  <2>. QED BY <2>1, <2>2 DEF Mapped
<1>6. \A s \in Sessions : Phase(s)' = Phase(s)
  BY <1>1, <1>2 DEF Phase
<1>7. Phase(cur) = "open"
  BY DEF Phase, Sealed
<1>8. \E o \in Frames : seen[cur] <= o /\ o <= sess.data /\ seen' = [seen EXCEPT ![cur] = o]
  <2>1. CASE seen' = seen
    <3>1. seen' = [seen EXCEPT ![cur] = seen[cur]]
      BY <2>1 DEF TypeOK
    <3>2. seen[cur] <= seen[cur]
      BY CardTypes
    <3>. QED BY <3>1, <3>2, <1>3, <1>4
  <2>2. CASE Offer(sess.data)
    <3>1. sess.data <= sess.data
      BY Types
    <3>. QED BY <2>2, <3>1, <1>1, <1>4 DEF Offer
  <2>. QED BY <2>1, <2>2
<1>. QED BY <1>1, <1>2, <1>3, <1>5, <1>6, <1>7, <1>8, MapSync DEF Simulates, TypeOK

(* A periodic commit, the last one, or no commit at all.                   *)
LEMMA CommitSimulates ==
  ASSUME Inv, Mapped, UNCHANGED <<cur, torn>>, Commit \/ Finish
  PROVE  Simulates
<1>1. CASE GivesUp
  BY <1>1, GivesUpSimulates
<1>2. CASE Commit /\ ~GivesUp
  <2>. w.pc = "commit"
    BY <1>2 DEF Commit
  <2>. QED BY <1>2, CommitEffect, NoCard, SyncSimulates
<1>3. CASE Finish /\ ~GivesUp
  <2>. w.pc = "finish"
    BY <1>3 DEF Finish
  <2>. QED BY <1>3, FinishEffect, NoCard, SyncSimulates
<1>. QED BY <1>1, <1>2, <1>3

(* The last manifest seals the session or tears it.                        *)
LEMMA ManifestSimulates ==
  ASSUME Inv, Mapped, UNCHANGED <<cur, torn>>, Manifest
  PROVE  Simulates
<1>. TypeOK /\ w \in Writer /\ w.pc = "manifest" /\ sess.open /\ cur \in Sessions
     /\ card[cur].man = "recording"
  BY DEF Inv, TypeOK, Turn, Active, Manifest, Mapped, Opened
<1>1. CASE GivesUp
  BY <1>1, GivesUpSimulates
<1>2. CASE ~GivesUp
  <2>1. UNCHANGED <<seen, sess>> /\ w'.pc = "retire"
    BY <1>2, GoFields, EndsFields DEF Manifest, Step
  <2>2. /\ card'[cur].synced = card[cur].synced
        /\ card'[cur].man \in {"recording", "none", "closed", "error"}
        /\ card'[cur].man = "closed" => w.result = "ok"
        /\ \A s \in Sessions : s # cur => card'[s] = card[s]
    <3>1. CASE OnCard(Final)
      BY <3>1, CardTypes DEF OnCard, Final, Directory, TypeOK
    <3>2. CASE \E m \in {card[cur].man, "none"} : OnCard([card[cur] EXCEPT !.man = m])
      BY <3>2, CardTypes DEF OnCard, Directory, TypeOK
    <3>. QED BY <1>2, <3>1, <3>2 DEF Manifest
  <2>3. Mapped'
    BY <2>1, <2>2 DEF Mapped, Unmade, Opened, AllOffered, Repairable
  <2>4. /\ \A s \in Sessions : card'[s].synced = card[s].synced
        /\ \A s \in Sessions : s # cur => Phase(s)' = Phase(s)
    BY <2>1, <2>2 DEF Phase
  <2>5. Phase(cur) = "open"
    BY DEF Phase, Sealed
  <2>6. CASE card'[cur].man = "recording"
    <3>1. Phase(cur)' = "open"
      BY <2>1, <2>6 DEF Phase, Sealed
    <3>. QED BY <2>1, <2>3, <2>4, <2>5, <3>1, MapStutter DEF Simulates
  <2>7. CASE card'[cur].man = "closed"
    <3>1. Phase(cur)' = "sealed"
      BY <2>1, <2>7 DEF Phase, Sealed
    <3>2. seen[cur] = card[cur].synced
      BY <2>2, <2>7 DEF Inv, Whole, Turn, Mapped, AllOffered
    <3>. QED BY <2>1, <2>3, <2>4, <2>5, <3>1, <3>2, MapSeal DEF Simulates
  <2>8. CASE card'[cur].man \in {"none", "error"}
    <3>1. Phase(cur)' = "torn"
      BY <2>1, <2>8 DEF Phase, Sealed
    <3>. QED BY <2>1, <2>3, <2>4, <2>5, <3>1, MapSeal DEF Simulates
  <2>. QED BY <2>2, <2>6, <2>7, <2>8
<1>. QED BY <1>1, <1>2

(* The session is no longer open: without its last manifest it is torn.    *)
LEMMA RetiresSimulates ==
  ASSUME Inv, Mapped, UNCHANGED <<cur, torn>>, Retires
  PROVE  Simulates
<1>. TypeOK /\ sess \in Session /\ w.pc = "retire" /\ sess.open /\ cur \in Sessions
  BY DEF Inv, TypeOK, Turn, Active, Retires
<1>1. UNCHANGED <<card, seen>> /\ ~sess'.open /\ w'.pc = "closed"
  BY GoFields DEF Retires, Disk, Session, Step
<1>2. Mapped'
  BY <1>1 DEF Mapped, Unmade, Opened, AllOffered, Repairable
<1>3. /\ \A s \in Sessions : card'[s].synced = card[s].synced
      /\ \A s \in Sessions : s # cur => Phase(s)' = Phase(s)
  BY <1>1 DEF Phase
<1>4. CASE card[cur].man = "recording"
  <2>1. Phase(cur) = "open" /\ Phase(cur)' = "torn"
    BY <1>1, <1>4 DEF Phase, Sealed
  <2>. QED BY <1>1, <1>2, <1>3, <2>1, MapSeal DEF Simulates
<1>5. CASE card[cur].man # "recording"
  <2>1. Phase(cur)' = Phase(cur)
    BY <1>1, <1>5 DEF Phase
  <2>. QED BY <1>1, <1>2, <1>3, <2>1, MapStutter DEF Simulates
<1>. QED BY <1>4, <1>5

(* A start begins a session, or leaves one torn, or nothing.               *)
LEMMA StartSimulates ==
  ASSUME Inv, Mapped, StartOk \/ StartFails
  PROVE  Simulates
<1>. TypeOK /\ w.pc = "loop" /\ ~sess.open
  BY DEF Inv, CanOpen, StartOk, StartFails
<1>1. PICK c \in Sessions :
         /\ c = cur' /\ c > cur /\ UNCHANGED <<seen, w, torn>>
         /\ \A s \in Sessions : s > c => s > cur /\ s # c
  BY Types, SizeAssumption DEF StartOk, StartFails, CanOpen, TypeOK, Sessions
<1>2. PICK m \in {"absent", "none", "recording"} :
         card' = [card EXCEPT ![c] = Made(m)] /\ (sess'.open => m = "recording")
  BY <1>1, FreshFields DEF StartOk, StartFails, Fresh
<1>3. /\ card'[c].man = m /\ card'[c].file = 0 /\ card'[c].synced = 0
      /\ \A s \in Sessions : s # c => card'[s] = card[s]
  BY <1>1, <1>2 DEF Made, TypeOK
<1>4. card[c].man = "absent" /\ card[c].synced = 0
  BY <1>1 DEF Mapped, Unmade
<1>5. Mapped'
  <2>1. Unmade'
    BY <1>1, <1>3 DEF Mapped, Unmade
  <2>. QED BY <1>1, <1>2, <1>3, <2>1 DEF Mapped, Opened, AllOffered, Repairable
<1>6. \A s \in Sessions : card'[s].synced = card[s].synced
  BY <1>3, <1>4
<1>7. \A s \in Sessions : s # c => Phase(s)' = Phase(s)
  BY <1>1, <1>3 DEF Phase
<1>8. Phase(c) = "absent" /\ \A s \in Sessions : Phase(s) # "open"
  <2>1. Phase(c) = "absent"
    BY <1>4 DEF Phase, Sealed
  <2>2. ASSUME NEW s \in Sessions PROVE Phase(s) # "open"
    BY DEF Phase, Sealed
  <2>. QED BY <2>1, <2>2
<1>9. CASE m = "absent"
  <2>1. Phase(c)' = Phase(c)
    BY <1>3, <1>8, <1>9 DEF Phase
  <2>. QED BY <1>1, <1>5, <1>6, <1>7, <2>1, MapStutter DEF Simulates
<1>10. CASE m # "absent"
  <2>1. Phase(c)' \in {"open", "torn"}
    BY <1>3, <1>10 DEF Phase, Sealed
  <2>. QED BY <1>1, <1>5, <1>6, <1>7, <1>8, <2>1, MapBegin DEF Simulates
<1>. QED BY <1>9, <1>10

-----------------------------------------------------------------------------
(* What a power loss may make of a directory, in the terms of the store.   *)
LEMMA SurvivorPhase ==
  ASSUME Inv, Mapped, NEW s \in Sessions, NEW d \in Survivors(s)
  PROVE  /\ d.synced \in Frames /\ card[s].synced <= d.synced
         /\ card[s].man = "absent" => d.man = "absent" /\ d.file = 0 /\ d.synced = 0
         /\ card[s].man # "absent" => d.man # "absent"
         /\ card[s].man \in Sealed => d.man = card[s].man /\ d.synced = card[s].synced
         /\ d.man \in Sealed /\ card[s].man \notin Sealed =>
              /\ Phase(s) = "open" /\ seen[s] = card[s].synced
              /\ d.synced = card[s].synced
<1>. TypeOK
  BY DEF Inv
<1>1. PICK e \in Manifests(s), n \in card[s].synced..card[s].file : d = Cut(e, n)
  BY DEF Survivors
<1>2. n \in Nat /\ card[s].synced <= n /\ n <= card[s].file
  BY <1>1, CardTypes
<1>3. d \in Directory
  BY SurvivorsHold
<1>4. d.synced = n /\ d.file = n /\ d.man = e.man
  <2>1. e \in Directory
    <3>1. CASE e = card[s]
      BY <3>1, CardTypes
    <3>2. CASE e = [card[s] EXCEPT !.man = "none"]
      BY <3>2, CardTypes DEF Directory, Sealed
    <3>3. CASE s = cur /\ w.pc = "manifest" /\ e = Final
      BY <3>3, CardTypes DEF Final, Directory, Sealed, TypeOK, Session
    <3>. QED BY <1>1, <3>1, <3>2, <3>3 DEF Manifests
  <2>. QED BY <1>1, <2>1 DEF Cut, Directory
<1>5. d.synced \in Frames /\ card[s].synced <= d.synced
  BY <1>2, <1>3, <1>4 DEF Directory
<1>6. card[s].man \in Sealed \cup {"absent"} => n = card[s].synced
  <2>1. card[s].man \in Sealed => card[s].synced = card[s].file
    BY DEF Inv, Whole, SealedIsWhole
  <2>2. card[s].man = "absent" => card[s].synced = 0 /\ card[s].file = 0
    BY DEF Mapped, Unmade
  <2>. QED BY <1>2, <2>1, <2>2, CardTypes
<1>7. CASE e = card[s]
  BY <1>4, <1>5, <1>6, <1>7 DEF Mapped, Unmade, Sealed
<1>8. CASE e # card[s]
  <2>1. /\ s = cur /\ w.pc = "manifest" /\ sess.open /\ card[s].man = "recording"
        /\ e = Final \/ e = [card[s] EXCEPT !.man = "none"]
    BY <1>1, <1>8 DEF Manifests, Inv, Turn, Active, Mapped, Opened
  <2>2. CASE e = [card[s] EXCEPT !.man = "none"]
    BY <1>4, <1>5, <2>1, <2>2, CardTypes DEF Sealed, Directory
  <2>3. CASE e = Final
    <3>1. e.man = IF w.result = "ok" THEN "closed" ELSE "error"
      BY <2>1, <2>3, CardTypes DEF Final, Directory
    <3>2. w.result = "ok" => /\ card[s].synced = card[s].file /\ card[s].file = sess.data
                             /\ seen[s] = sess.data
      BY <2>1 DEF Inv, Whole, Turn, Active, Mapped, AllOffered
    <3>3. w.result = "ok" => n = card[s].synced
      BY <1>2, <3>2, CardTypes
    <3>4. Phase(s) = "open"
      BY <2>1 DEF Phase, Sealed
    <3>. QED BY <1>4, <1>5, <2>1, <3>1, <3>2, <3>3, <3>4 DEF Sealed
  <2>. QED BY <2>1, <2>2, <2>3
<1>. QED BY <1>7, <1>8

(* A power loss is one of the store.                                       *)
LEMMA PowerLossSimulates ==
  ASSUME Inv, Mapped, PowerLoss
  PROVE  Simulates
<1>. TypeOK
  BY DEF Inv
<1>1. /\ UNCHANGED <<cur, seen>> /\ ~sess'.open /\ w'.pc = "boot"
      /\ torn' = {s \in Sessions : card'[s].man \notin Sealed \cup {"absent"}}
  BY FreshFields DEF PowerLoss, Resting
<1>2. \A s \in Sessions : card'[s] \in Survivors(s)
  BY DEF PowerLoss
<1>3. \A s \in Sessions :
         /\ card'[s].synced \in Frames /\ card[s].synced <= card'[s].synced
         /\ card[s].man = "absent" =>
              card'[s].man = "absent" /\ card'[s].file = 0 /\ card'[s].synced = 0
         /\ card[s].man # "absent" => card'[s].man # "absent"
         /\ card[s].man \in Sealed =>
              card'[s].man = card[s].man /\ card'[s].synced = card[s].synced
         /\ card'[s].man \in Sealed /\ card[s].man \notin Sealed =>
              /\ Phase(s) = "open" /\ seen[s] = card[s].synced
              /\ card'[s].synced = card[s].synced
  BY <1>2, SurvivorPhase
<1>4. Mapped'
  BY <1>1, <1>3 DEF Mapped, Unmade, Opened, AllOffered, Repairable
<1>5. ASSUME NEW s \in Sessions
      PROVE  /\ \/ Phase(s)' = Phase(s) /\ Phase(s) # "open"
                \/ Phase(s) = "open" /\ Phase(s)' = "torn"
                \/ Phase(s) = "open" /\ Phase(s)' = "sealed" /\ seen[s] = card[s].synced
             /\ IF Phase(s)' = "torn" THEN card'[s].synced >= card[s].synced
                ELSE card'[s].synced = card[s].synced
  <2>1. CASE card[s].man = "absent"
    <3>1. Phase(s) = "absent"
      BY <2>1 DEF Phase, Sealed
    <3>2. card'[s].man = "absent" /\ card'[s].synced = 0
      BY <1>3, <2>1
    <3>3. Phase(s)' = "absent"
      BY <3>2 DEF Phase, Sealed
    <3>. QED BY <2>1, <3>1, <3>2, <3>3 DEF Mapped, Unmade
  <2>2. CASE card[s].man \in Sealed
    <3>1. Phase(s) = "sealed" /\ Phase(s)' = "sealed"
      BY <1>3, <2>2 DEF Phase, Sealed
    <3>. QED BY <1>3, <2>2, <3>1
  <2>3. CASE card[s].man \notin Sealed \cup {"absent"} /\ card'[s].man \in Sealed
    <3>1. Phase(s)' = "sealed"
      BY <2>3 DEF Phase, Sealed
    <3>. QED BY <1>3, <2>3, <3>1
  <2>4. CASE card[s].man \notin Sealed \cup {"absent"} /\ card'[s].man \notin Sealed
    <3>1. Phase(s)' = "torn" /\ Phase(s) \in {"open", "torn"}
      BY <1>1, <1>3, <2>4 DEF Phase
    <3>2. card'[s].synced >= card[s].synced
      BY <1>3, CardTypes
    <3>. QED BY <3>1, <3>2
  <2>. QED BY <2>1, <2>2, <2>3, <2>4
<1>6. Store!PowerLoss
  BY <1>1, <1>5 DEF Store!PowerLoss
<1>7. \E s \in Sessions : TRUE
  BY SizeAssumption DEF Sessions
<1>. QED BY <1>4, <1>6, <1>7 DEF Simulates, Store!Next

(* A repair, or the attempt at one.                                        *)
LEMMA RecoverSimulates ==
  ASSUME Inv, Mapped, NEW s \in Sessions, Recover(s)
  PROVE  Simulates
<1>. TypeOK /\ w \in Writer /\ w.pc = "boot" /\ ~sess.open /\ s \in torn
     /\ card[s].man \notin Sealed \cup {"absent"} /\ card[s] \in Directory
  BY CardTypes, FreshFields DEF Inv, TypeOK, Turn, Recover, Mapped, Repairable
<1>1. /\ UNCHANGED <<sess, cur, seen>> /\ torn' = torn \ {s} /\ w'.pc = "boot"
  BY DEF Recover, Writer
<1>2. /\ card'[s].synced \in Frames /\ card[s].synced <= card'[s].synced
      /\ card'[s].man # "absent"
      /\ \A t \in Sessions : t # s => card'[t] = card[t]
  <2>1. CASE card' = [card EXCEPT ![s] = Repaired(@)]
    <3>1. card[s].file \in Frames /\ card[s].synced <= card[s].file
      BY DEF Inv, Kept, Directory
    <3>. QED BY <2>1, <3>1 DEF Repaired, TypeOK
  <2>2. CASE \E m \in {card[s].man, "none"} : card' = [card EXCEPT ![s].man = m]
    <3>1. card[s].synced \in Frames /\ card[s].synced <= card[s].synced
      BY CardTypes DEF Directory
    <3>2. card'[s].synced = card[s].synced /\ card'[s].man # "absent"
      BY <2>2 DEF TypeOK, Directory
    <3>. QED BY <2>2, <3>1, <3>2 DEF TypeOK
  <2>3. CASE UNCHANGED card
    <3>1. card[s].synced \in Frames /\ card[s].synced <= card[s].synced
      BY CardTypes DEF Directory
    <3>. QED BY <2>3, <3>1
  <2>. QED BY <2>1, <2>2, <2>3 DEF Recover
<1>3. Mapped'
  <2>1. card[s].man # "absent" /\ s <= cur
    BY Types DEF Mapped, Unmade, Sessions, TypeOK
  <2>2. ASSUME NEW t \in Sessions
        PROVE  /\ t > cur => card'[t].man = "absent"
               /\ card'[t].man = "absent" => card'[t].file = 0 /\ card'[t].synced = 0
    <3>1. CASE t = s
      BY <1>2, <2>1, <3>1, Types DEF Sessions, TypeOK
    <3>2. CASE t # s
      BY <1>2, <3>2 DEF Mapped, Unmade
    <3>. QED BY <3>1, <3>2
  <2>3. Unmade'
    BY <1>1, <2>2 DEF Unmade
  <2>4. Opened' /\ AllOffered'
    BY <1>1 DEF Opened, AllOffered
  <2>5. Repairable'
    BY <1>1, <1>2 DEF Mapped, Repairable, TypeOK
  <2>. QED BY <2>3, <2>4, <2>5 DEF Mapped
<1>4. Phase(s) = "torn" /\ Phase(s)' \in {"torn", "sealed"}
  BY <1>1, <1>2 DEF Phase
<1>5. \A t \in Sessions : t # s => Phase(t)' = Phase(t) /\ card'[t].synced = card[t].synced
  BY <1>1, <1>2 DEF Phase
<1>. QED BY <1>1, <1>2, <1>3, <1>4, <1>5, MapRepair DEF Simulates

(* The end of storage_sd_init is invisible.                                *)
LEMMA BootsSimulates ==
  ASSUME Inv, Mapped, Boots
  PROVE  Simulates
<1>1. UNCHANGED <<card, seen, cur, sess>> /\ w'.pc = "loop" /\ w.pc = "boot"
  BY RestingFields DEF Boots
<1>. QED BY <1>1, NoCard

-----------------------------------------------------------------------------
(* Every step of the recording path is one of the store or leaves it alone.*)
LEMMA StepSimulates ==
  ASSUME Inv, Mapped, [Next]_vars
  PROVE  Simulates
<1>1. CASE WriterStep
  BY <1>1, QuietSimulates, WriteSimulates, CommitSimulates, ManifestSimulates,
     RetiresSimulates DEF WriterStep
<1>2. CASE Capture \/ Application \/ ReportFault
  BY <1>2, CallsSimulate, StartSimulates DEF Application
<1>3. CASE PowerLoss \/ (\E s \in Sessions : Recover(s)) \/ Boots
  BY <1>3, PowerLossSimulates, RecoverSimulates, BootsSimulates
<1>4. CASE UNCHANGED vars
  <2>1. UNCHANGED <<card, seen, cur, sess, w, torn>>
    BY <1>4 DEF vars
  <2>. QED BY <2>1, NoCard
<1>. QED BY <1>1, <1>2, <1>3, <1>4 DEF Next

(* The first state is the first one of the store.                          *)
LEMMA InitSimulates == Init => Mapped /\ Store!Init
<1> SUFFICES ASSUME Init PROVE Mapped /\ Store!Init
  OBVIOUS
<1>1. \A s \in Sessions : card[s].man = "absent" /\ card[s].file = 0 /\ card[s].synced = 0
  BY DEF Init, Made
<1>2. ~sess.open /\ w.pc = "loop"
  BY DEF Init, Fresh, Resting
<1>3. Mapped
  BY <1>1, <1>2 DEF Mapped, Unmade, Opened, AllOffered, Repairable
<1>4. [s \in Sessions |-> Phase(s)] = [s \in Sessions |-> "absent"]
  <2>1. ASSUME NEW s \in Sessions PROVE Phase(s) = "absent"
    BY <1>1 DEF Phase, Sealed
  <2>. QED BY <2>1
<1>5. [s \in Sessions |-> card[s].synced] = [s \in Sessions |-> 0]
  BY <1>1
<1>6. seen = [s \in Sessions |-> 0]
  BY DEF Init
<1>. QED BY <1>3, <1>4, <1>5, <1>6 DEF Store!Init

(* Writer, capture, application, power losses and recovery together keep   *)
(* what RecordingStore promises: at most one recording is open, what a     *)
(* reader was offered stays, a sealed recording never changes.             *)
THEOREM Implements == Spec => KeepsRecordings
<1>1. Spec => []Inv
  BY InvAlways
<1>2. Inv /\ Mapped /\ [Next]_vars => Mapped'
  BY StepSimulates DEF Simulates
<1>3. Inv /\ Mapped /\ [Next]_vars => [Store!Next]_(Store!vars)
  BY StepSimulates DEF Simulates
<1>4. Init => Mapped /\ Store!Init
  BY InitSimulates
<1>. QED BY <1>1, <1>2, <1>3, <1>4, PTL DEF Spec, KeepsRecordings, Store!Spec

-----------------------------------------------------------------------------
(* The application on its way from the key to the card: what a handler     *)
(* may do with the pages and keys Recorder has.                            *)

Pages == [mode : Mode \ {"PAIRING"},
          overlay : {"NONE", "LOCKED_HINT", "SYNC_CONFIRM", "SYNC_PROGRESS", "SYNC_FAILED"},
          error : {"NONE", "TIMEOUT", "OTHER"}, settled : BOOLEAN, paused : BOOLEAN,
          locked : BOOLEAN, polls : 0..ClosePollLimit, pairing : {"IDLE"},
          reminder : {FALSE}, todo : {"NONE"}]
Shape == {u \in Pages : u.mode = "CLOSING" => u.polls < ClosePollLimit}

SettledPage == ui.mode = "STORAGE_ERROR" /\ ui.settled
Unsettled(error) == ui.mode = "STORAGE_ERROR" /\ ~ui.settled /\ ui.error = error

(* A handler that moves to no other page mutes, marks, polls or syncs.     *)
Stays ==
  /\ ui'.mode = ui.mode /\ ui'.settled = ui.settled /\ ui'.error \in {ui.error, "OTHER"}
  /\ \/ calls' \in {{}, {<<"close_status", "busy">>},
                    {<<"sync_request", "ok">>}, {<<"sync_request", "fail">>}}
     \/ ui.mode = "RECORDING" /\ calls' \in {Did("set_paused"), Did("mark_point")}

Starts(e) ==
  /\ ui.mode = "STANDBY" /\ e = <<"SHORT", "R">>
  /\ \/ calls' = Did("start_recording") /\ ui'.mode = "RECORDING"
     \/ calls' = {<<"start_recording", "fail">>} /\ SettledPage' /\ ui'.error = "OTHER"

Stops ==
  /\ ui.mode = "RECORDING" /\ calls' = Did("stop_recording")
  /\ ui'.mode = "CLOSING" \/ Unsettled("OTHER")'

Closes(e) ==
  /\ ui.mode = "CLOSING"
  /\ \/ calls' = Did("close_status") /\ ui'.mode = "ENDING"
     \/ calls' = {<<"close_status", "fail">>} /\ SettledPage' /\ ui'.error = "OTHER"
     \/ calls' = {<<"close_status", "busy">>} /\ Unsettled("TIMEOUT")'
     \/ calls' = {} /\ Unsettled("OTHER")'
     \/ calls' = {} /\ e[1] = "CLOSE_DONE" /\ ui'.mode = "ENDING"

Leaves(e) ==
  /\ calls' = {}
  /\ \/ /\ ui.mode = "STORAGE_ERROR" /\ ui.error = "TIMEOUT"
        /\ e[1] = "CLOSE_DONE" /\ ui'.mode = "ENDING"
     \/ /\ ui.mode = "STORAGE_ERROR" /\ e[1] = "SETTLED"
        /\ SettledPage' /\ ui'.error = ui.error
     \/ (SettledPage \/ ui.mode = "ENDING") /\ ui'.mode = "STANDBY"

Turns(e) == /\ ui' \in Shape /\ armed' \subseteq Timer
            /\ Stays \/ Starts(e) \/ Stops \/ Closes(e) \/ Leaves(e)

LEMMA ScreenIs ==
  ASSUME ui \in Shape
  PROVE  /\ Screen \in {"BUSY", "ERROR", "SYNC_CONFIRM", "SYNC_PROGRESS", "SYNC_FAILED",
                        "LOCKED", "STANDBY", "RECORDING"}
         /\ Screen = "ERROR" => SettledPage
         /\ Screen \in {"STANDBY", "RECORDING"} => ui.mode = Screen
  BY DEF Screen, Pages, Shape, Mode, SettledPage

(* Only what a handler shows changes.                                      *)
LEMMA ShownIs ==
  ASSUME ui \in Shape, NEW v \in Shape, Show(v), armed \subseteq Timer,
         v.mode = ui.mode, v.settled = ui.settled, v.error \in {ui.error, "OTHER"}, NEW e
  PROVE  Turns(e)
  BY DEF Show, Become, Turns, Stays

LEMMA IgnoreTurns == ASSUME ui \in Shape, armed \subseteq Timer, Ignore, NEW e PROVE Turns(e)
  BY ShownIs DEF Ignore, Pages, Shape

LEMMA NothingWaits == ASSUME NEW u \in Shape PROVE ShowTodo(u) = u /\ ShowWaiting(u) = u
  BY DEF ShowTodo, ShowWaiting, Pages, Shape

LEMMA NoPolls == 0 \in 0..ClosePollLimit /\ 0 < ClosePollLimit BY PollAssumption

LEMMA ErroredIs ==
  ASSUME NEW u \in Pages, NEW error \in {"TIMEOUT", "OTHER"}, NEW settled \in BOOLEAN,
         NEW v, v = Errored(u, error, settled)
  PROVE  v \in Shape /\ v.mode = "STORAGE_ERROR" /\ v.settled = settled /\ v.error = error
  BY DEF Errored, Pages, Shape, Mode

LEMMA StartTurns ==
  ASSUME ui \in Shape, armed \subseteq Timer, ui.mode = "STANDBY", StartRec(ui, {})
  PROVE  Turns(<<"SHORT", "R">>)
<1> DEFINE s == [ui EXCEPT !.error = "NONE", !.overlay = "NONE", !.paused = FALSE,
                           !.locked = FALSE, !.settled = FALSE, !.polls = 0]
           r == [s EXCEPT !.mode = "RECORDING"]
<1>1. s \in Pages /\ s.polls = 0 BY NoPolls DEF Pages, Shape
<1>5. s \in Shape BY <1>1, NoPolls DEF Shape
<1>2. r \in Shape /\ r.mode = "RECORDING"
  <2> HIDE DEF s
  <2> QED BY <1>1 DEF Pages, Shape, Mode
<1>3. CASE Become(ShowTodo(r), {} \cup {<<"start_recording", "ok">>}, armed)
  <2> HIDE DEF r
  <2>1. ui' = r /\ calls' = Did("start_recording") /\ armed' = armed
    BY <1>2, <1>3, NothingWaits DEF Become, Did
  <2> QED BY <1>2, <2>1 DEF Turns, Starts
<1>4. CASE Become(Errored(s, "OTHER", TRUE), {} \cup {<<"start_recording", "fail">>},
                  armed \ {"CLOSE_POLL"})
  <2> HIDE DEF s
  <2>1. ui' \in Shape /\ SettledPage' /\ ui'.error = "OTHER"
    BY <1>1, <1>4, ErroredIs DEF Become, SettledPage
  <2>2. calls' = {<<"start_recording", "fail">>} /\ armed' \subseteq Timer
    BY <1>4 DEF Become
  <2> QED BY <2>1, <2>2 DEF Turns, Starts
<1> QED BY <1>3, <1>4 DEF StartRec

LEMMA BeginCloseTurns ==
  ASSUME ui \in Shape, armed \subseteq Timer, ui.mode = "RECORDING", BeginClose, NEW e
  PROVE  Turns(e)
<1>1. ui' = [ui EXCEPT !.mode = "CLOSING", !.overlay = "NONE", !.locked = FALSE,
                      !.paused = FALSE, !.polls = 0]
  BY DEF BeginClose, Become
<1>4. ui' \in Pages /\ ui'.mode = "CLOSING" /\ ui'.polls = 0
  BY <1>1, NoPolls DEF Pages, Shape, Mode
<1>2. ui' \in Shape /\ ui'.mode = "CLOSING" BY <1>4, NoPolls DEF Shape
<1>3. calls' = Did("stop_recording") /\ armed' \subseteq Timer
  BY DEF BeginClose, Become, Timer
<1> QED BY <1>2, <1>3 DEF Turns, Stops

(* The keys.                                                               *)
LEMMA PageKeyTurns ==
  ASSUME ui \in Shape, armed \subseteq Timer, NEW k, NEW e,
         LeaveError \/ SyncConfirmKey(k) \/ DismissPage
  PROVE  Turns(e)
<1>1. CASE LeaveError
  <2> DEFINE v == [ui EXCEPT !.mode = "STANDBY", !.error = "NONE"]
  <2>1. Home(ui) = "STANDBY" BY DEF Home, Pages, Shape
  <2>2. v \in Shape /\ v.mode = "STANDBY" BY DEF Pages, Shape, Mode
  <2>3. Show(ShowTodo(v)) BY <1>1, <2>1 DEF LeaveError
  <2> HIDE DEF v
  <2>4. ui' = v /\ calls' = {} /\ armed' = armed BY <2>2, <2>3, NothingWaits DEF Show, Become
  <2>5. SettledPage BY <1>1, ScreenIs DEF LeaveError
  <2> QED BY <2>2, <2>4, <2>5 DEF Turns, Leaves
<1>2. CASE SyncConfirmKey(k)
  <2>1. PICK o \in {"SYNC_PROGRESS", "SYNC_FAILED", "NONE"} : ui' = [ui EXCEPT !.overlay = o]
    BY <1>2, Zenon DEF SyncConfirmKey, Become, Show
  <2>2. ui' \in Shape /\ ui'.mode = ui.mode /\ ui'.settled = ui.settled /\ ui'.error = ui.error
    BY <2>1 DEF Pages, Shape
  <2>3. /\ calls' \in {{}, {<<"sync_request", "ok">>}, {<<"sync_request", "fail">>}}
        /\ armed' = armed
    BY <1>2 DEF SyncConfirmKey, Become, Show
  <2> QED BY <2>2, <2>3 DEF Turns, Stays
<1>3. CASE DismissPage
  <2>1. PICK v : v = [ui EXCEPT !.overlay = "NONE"] /\ Show(v) BY <1>3 DEF DismissPage
  <2>2. v \in Shape /\ v.mode = ui.mode /\ v.settled = ui.settled /\ v.error = ui.error
    BY <2>1 DEF Pages, Shape
  <2> QED BY <2>1, <2>2, ShownIs
<1> QED BY <1>1, <1>2, <1>3

LEMMA LockedHintTurns ==
  ASSUME ui \in Shape, armed \subseteq Timer, NEW e, ShowTimed(ui, "LOCKED_HINT", {})
  PROVE  Turns(e)
<1>1. /\ ui' = [ui EXCEPT !.overlay = "LOCKED_HINT"] /\ calls' = {}
      /\ armed' = armed \cup {"OVERLAY"}
  BY DEF ShowTimed, Timed, Become
<1>2. ui' \in Shape /\ ui'.mode = ui.mode /\ ui'.settled = ui.settled /\ ui'.error = ui.error
  BY <1>1 DEF Pages, Shape
<1> QED BY <1>1, <1>2 DEF Turns, Stays, Timer

LEMMA RecordingShortTurns ==
  ASSUME ui \in Shape, armed \subseteq Timer, NEW k, NEW e, RecordingShort(k)
  PROVE  Turns(e)
<1>1. ui.mode = "RECORDING" /\ armed' = armed /\ calls' \in {Did("set_paused"), Did("mark_point")}
  BY ScreenIs DEF RecordingShort, Become
<1>2. ui' = ui \/ ui' = [ui EXCEPT !.paused = ~ui.paused]
  BY DEF RecordingShort, Become
<1>3. ui' \in Shape /\ ui'.mode = ui.mode /\ ui'.settled = ui.settled /\ ui'.error = ui.error
  BY <1>2 DEF Pages, Shape
<1> QED BY <1>1, <1>3 DEF Turns, Stays

LEMMA ShortPressTurns ==
  ASSUME ui \in Shape, armed \subseteq Timer, NEW k \in {"R", "M", "B"}, ShortPress(k)
  PROVE  Turns(<<"SHORT", k>>)
<1>1. CASE Screen \notin ShortActs[k] BY <1>1, IgnoreTurns DEF ShortPress
<1>2. CASE Screen \in ShortActs[k]
  <2>1. ~TodoConfirmKey /\ ~ReminderShort(k) /\ ~LeavePairing
    BY ScreenIs DEF TodoConfirmKey, ReminderShort, LeavePairing
  <2>2. \/ LeaveError \/ SyncConfirmKey(k) \/ DismissPage
        \/ ShowLockedHint \/ (k = "R" /\ StandbyRec) \/ RecordingShort(k)
    BY <1>2, <2>1 DEF ShortPress
  <2>3. CASE ShowLockedHint BY <2>3, LockedHintTurns DEF ShowLockedHint
  <2>4. CASE k = "R" /\ StandbyRec BY <2>4, ScreenIs, StartTurns DEF StandbyRec
  <2> QED BY <2>2, <2>3, <2>4, PageKeyTurns, RecordingShortTurns
<1> QED BY <1>1, <1>2

LEMMA LongPressTurns ==
  ASSUME ui \in Shape, armed \subseteq Timer, NEW e, LongPress("R")
  PROVE  Turns(e)
<1>1. CASE Screen \notin LongActs["R"] BY <1>1, IgnoreTurns DEF LongPress
<1>2. CASE Screen \in LongActs["R"]
  <2>1. ~Snooze BY ScreenIs DEF Snooze
  <2>2. CASE LockedLong("R") BY <2>2, LockedHintTurns DEF LockedLong
  <2>3. CASE StandbyLong("R")
    <3>1. PICK v : v = [ui EXCEPT !.overlay = "SYNC_CONFIRM"] /\ Show(v)
      BY <2>3 DEF StandbyLong
    <3>2. v \in Shape /\ v.mode = ui.mode /\ v.settled = ui.settled /\ v.error = ui.error
      BY <3>1 DEF Pages, Shape
    <3> QED BY <3>1, <3>2, ShownIs
  <2>4. CASE RecordingLong("R")
    <3>1. ui.mode = "RECORDING" /\ BeginClose BY <2>4, ScreenIs DEF RecordingLong
    <3> QED BY <3>1, BeginCloseTurns
  <2> QED BY <1>2, <2>1, <2>2, <2>3, <2>4 DEF LongPress
<1> QED BY <1>1, <1>2

(* The timers and the events of the session.                               *)
LEMMA CloseDoneTurns ==
  ASSUME ui \in Shape, armed \subseteq Timer, NEW hooks, CloseDone(hooks)
  PROVE  ui' \in Shape /\ ui'.mode = "ENDING" /\ calls' = hooks /\ armed' \subseteq Timer
<1>1. ui' = [ui EXCEPT !.mode = "ENDING", !.error = "NONE", !.settled = TRUE]
  BY DEF CloseDone, Become
<1>2. ui' \in Shape /\ ui'.mode = "ENDING" BY <1>1 DEF Pages, Shape, Mode
<1> QED BY <1>2 DEF CloseDone, Become, Timer

LEMMA EnterErrorTurns ==
  ASSUME ui \in Shape, armed \subseteq Timer, NEW settled \in BOOLEAN, NEW hooks,
         EnterError("OTHER", settled, hooks)
  PROVE  /\ ui' \in Shape /\ ui'.mode = "STORAGE_ERROR" /\ ui'.settled = settled
         /\ ui'.error = "OTHER" /\ calls' = hooks /\ armed' \subseteq Timer
<1>1. ui' = Errored(ui, "OTHER", settled) BY DEF EnterError, Become
<1> QED BY <1>1, ErroredIs DEF EnterError, Become, Shape

LEMMA OnClosePollTurns ==
  ASSUME ui \in Shape, armed \subseteq Timer, NEW e, OnClosePoll
  PROVE  Turns(e)
<1>1. CASE ui.mode # "CLOSING" BY <1>1, IgnoreTurns DEF OnClosePoll
<1>2. CASE ui.mode = "CLOSING"
  <2>1. CASE CloseDone({<<"close_status", "ok">>})
    BY <1>2, <2>1, CloseDoneTurns DEF Turns, Closes, Did
  <2>2. CASE EnterError("OTHER", TRUE, {<<"close_status", "fail">>})
    BY <1>2, <2>2, EnterErrorTurns DEF Turns, Closes, SettledPage
  <2>3. PICK n \in 0..ClosePollLimit : n = ui.polls + 1
    BY <1>2, PollAssumption DEF Pages, Shape
  <2> DEFINE p == [ui EXCEPT !.polls = n]
  <2>4. /\ p \in Pages /\ p.mode = "CLOSING" /\ p.settled = ui.settled /\ p.error = ui.error
        /\ p.polls = n
    BY <1>2 DEF Pages, Shape
  <2>7. [ui EXCEPT !.polls = @ + 1] = p BY <2>3
  <2> HIDE DEF p
  <2>5. CASE Become(Errored(p, "TIMEOUT", FALSE), {<<"close_status", "busy">>},
                    armed \ {"CLOSE_POLL"})
    <3>1. /\ ui' \in Shape /\ ui'.mode = "STORAGE_ERROR" /\ ~ui'.settled
          /\ ui'.error = "TIMEOUT"
      BY <2>4, <2>5, ErroredIs DEF Become
    <3>2. calls' = {<<"close_status", "busy">>} /\ armed' \subseteq Timer BY <2>5 DEF Become
    <3> QED BY <1>2, <3>1, <3>2 DEF Turns, Closes, Unsettled
  <2>6. CASE /\ p.polls < ClosePollLimit
             /\ Become(p, {<<"close_status", "busy">>}, armed \cup {"CLOSE_POLL"})
    <3>1. ui' = p /\ calls' = {<<"close_status", "busy">>} /\ armed' \subseteq Timer
      BY <2>6 DEF Become, Timer
    <3>2. p \in Shape BY <2>4, <2>6 DEF Shape
    <3> QED BY <1>2, <2>4, <3>1, <3>2 DEF Turns, Stays
  <2>8. p.polls >= ClosePollLimit \/ p.polls < ClosePollLimit BY <2>4, PollAssumption
  <2>9. Become(Errored(p, "TIMEOUT", FALSE), {<<"close_status", "busy">>}, armed \ {"CLOSE_POLL"})
        \/ (p.polls < ClosePollLimit /\
              Become(p, {<<"close_status", "busy">>}, armed \cup {"CLOSE_POLL"}))
        \/ CloseDone({<<"close_status", "ok">>})
        \/ EnterError("OTHER", TRUE, {<<"close_status", "fail">>})
    BY <1>2, <2>7, <2>8, Zenon DEF OnClosePoll
  <2> QED BY <2>1, <2>2, <2>5, <2>6, <2>9
<1> QED BY <1>1, <1>2

LEMMA OnTimerTurns ==
  ASSUME ui \in Shape, armed \subseteq Timer, NEW t, NEW e, OnTimer(t)
  PROVE  Turns(e)
<1>1. CASE OnPairing
  <2>1. ui.mode # "PAIRING" BY DEF Pages, Shape
  <2> QED BY <1>1, <2>1, IgnoreTurns DEF OnPairing
<1>2. CASE OnEnding
  <2>1. CASE ui.mode = "ENDING"
    <3> DEFINE v == [ui EXCEPT !.mode = "STANDBY"]
    <3>1. Home(ui) = "STANDBY" BY DEF Home, Pages, Shape
    <3>2. v \in Shape /\ v.mode = "STANDBY" BY DEF Pages, Shape, Mode
    <3>3. Show(ShowWaiting(v)) BY <1>2, <2>1, <3>1 DEF OnEnding
    <3> HIDE DEF v
    <3>4. ui' = v /\ calls' = {} /\ armed' = armed BY <3>2, <3>3, NothingWaits DEF Show, Become
    <3> QED BY <2>1, <3>2, <3>4 DEF Turns, Leaves
  <2> QED BY <1>2, <2>1, IgnoreTurns DEF OnEnding
<1>3. CASE OnOverlay
  <2>1. ui.overlay \notin {"SNOOZED", "TODO_OK"} BY DEF Pages, Shape
  <2>2. PICK v : v = [ui EXCEPT !.overlay = "NONE"] OBVIOUS
  <2>3. v \in Shape /\ v.mode = ui.mode /\ v.settled = ui.settled /\ v.error = ui.error
    BY <2>2 DEF Pages, Shape
  <2>4. Show(v) \/ Ignore BY <1>3, <2>1, <2>2 DEF OnOverlay
  <2> QED BY <2>3, <2>4, ShownIs, IgnoreTurns
<1> QED BY <1>1, <1>2, <1>3, OnClosePollTurns DEF OnTimer

LEMMA SessionCloseDoneTurns ==
  ASSUME ui \in Shape, armed \subseteq Timer, NEW e, e[1] = "CLOSE_DONE", SessionCloseDone
  PROVE  Turns(e)
<1>1. CASE ui.mode = "CLOSING"
  <2>1. CloseDone({}) BY <1>1 DEF SessionCloseDone
  <2> QED BY <1>1, <2>1, CloseDoneTurns DEF Turns, Closes
<1>2. CASE ui.mode = "STORAGE_ERROR" /\ ui.error = "TIMEOUT"
  <2>1. /\ ui' = [ui EXCEPT !.mode = "ENDING", !.error = "NONE", !.settled = TRUE]
        /\ calls' = {} /\ armed' = armed \cup {"ENDING"}
    BY <1>2 DEF SessionCloseDone, Become
  <2>2. ui' \in Shape /\ ui'.mode = "ENDING" BY <2>1 DEF Pages, Shape, Mode
  <2> QED BY <1>2, <2>1, <2>2 DEF Turns, Leaves, Timer
<1> QED BY <1>1, <1>2, IgnoreTurns DEF SessionCloseDone

LEMMA SessionSettledTurns ==
  ASSUME ui \in Shape, armed \subseteq Timer, NEW e, e[1] = "SETTLED", SessionSettled
  PROVE  Turns(e)
<1>1. CASE ui.mode = "STORAGE_ERROR"
  <2>1. ui' = [ui EXCEPT !.settled = TRUE] /\ calls' = {} /\ armed' = armed
    BY <1>1 DEF SessionSettled, Show, Become
  <2>2. ui' \in Shape /\ SettledPage' /\ ui'.error = ui.error
    BY <1>1, <2>1 DEF Pages, Shape, SettledPage
  <2> QED BY <1>1, <2>1, <2>2 DEF Turns, Leaves
<1> QED BY <1>1, IgnoreTurns DEF SessionSettled

LEMMA StorageErrorTurns ==
  ASSUME ui \in Shape, armed \subseteq Timer, NEW e, StorageError
  PROVE  Turns(e)
<1>1. CASE ui.mode = "RECORDING"
  <2>1. EnterError("OTHER", FALSE, Did("stop_recording")) BY <1>1 DEF StorageError
  <2> QED BY <1>1, <2>1, EnterErrorTurns DEF Turns, Stops, Unsettled
<1>2. CASE ui.mode = "CLOSING"
  <2>1. EnterError("OTHER", FALSE, {}) BY <1>2 DEF StorageError
  <2> QED BY <1>2, <2>1, EnterErrorTurns DEF Turns, Closes, Unsettled
<1>3. CASE ui.mode = "STORAGE_ERROR" /\ ~ui.settled
  <2>1. PICK v : v = [ui EXCEPT !.error = "OTHER"] /\ Show(v) BY <1>3 DEF StorageError
  <2>2. v \in Shape /\ v.mode = ui.mode /\ v.settled = ui.settled /\ v.error = "OTHER"
    BY <2>1 DEF Pages, Shape
  <2> QED BY <2>1, <2>2, ShownIs
<1> QED BY <1>1, <1>2, <1>3, IgnoreTurns DEF StorageError

LEMMA HandleTurns ==
  ASSUME ui \in Shape, armed \subseteq Timer, NEW e \in Waiting, Handle(e)
  PROVE  Turns(e)
<1>1. CASE e \in Key
  <2>1. CASE e = <<"LONG", "R">> BY <2>1, LongPressTurns DEF Handle
  <2>2. CASE e = <<"BATTERY_CRITICAL", "-">>
    <3>1. BatteryCritical BY <2>2 DEF Handle
    <3> QED BY <3>1, BeginCloseTurns, IgnoreTurns DEF BatteryCritical
  <2>3. CASE e \in {"SHORT"} \X {"R", "M", "B"}
    <3>1. PICK k \in {"R", "M", "B"} : e = <<"SHORT", k>> BY <2>3
    <3>2. ShortPress(k) BY <3>1 DEF Handle
    <3> QED BY <3>1, <3>2, ShortPressTurns
  <2> QED BY <1>1, <2>1, <2>2, <2>3 DEF Key
<1>2. CASE e \in {"TIMER"} \X Timer
  <2>1. OnTimer(e[2]) BY <1>2 DEF Handle
  <2> QED BY <2>1, OnTimerTurns
<1>3. CASE e \in Event \X {"-"}
  <2>1. \/ e[1] = "CLOSE_DONE" /\ SessionCloseDone
        \/ e[1] = "SETTLED" /\ SessionSettled
        \/ StorageError
    BY <1>3 DEF Handle, Event
  <2> QED BY <2>1, SessionCloseDoneTurns, SessionSettledTurns, StorageErrorTurns
<1> QED BY <1>1, <1>2, <1>3 DEF Waiting

-----------------------------------------------------------------------------
(* What the writer does to the session, as far as the pages go.            *)

Ending == {"closed", "report", "settle"}

(* A call of another hook, or none.                                        *)
LEMMA NothingKeeps == ASSUME Inv, Nothing PROVE Inv'
<1>1. UNCHANGED <<audio, sess, w, fault, card, cur, seen, torn, faults>> /\ posts' = <<>>
  BY DEF Nothing, session
<1>2. TypeOK' BY <1>1, Events DEF Inv, TypeOK
<1>3. Pipeline' /\ Turn' /\ Kept' /\ Drained' /\ Whole' /\ Told' /\ DoneIsWhole'
  BY <1>1, Events
     DEF Inv, Pipeline, Inflight, Turn, Kept, Drained, GoingWell, Whole, SealedIsWhole,
         Told, DoneIsWhole
<1> QED BY <1>2, <1>3 DEF Inv

LEMMA WritesOpen ==
  ASSUME Inv, WriterStep, w.pc \notin {"retire"} \cup Ending
  PROVE  /\ sess.open /\ sess'.open /\ audio'.mic = audio.mic
         /\ posts' \in {<<>>, <<"STORAGE_ERROR">>}
<1>1. sess \in Session /\ audio \in Audio /\ Turn BY DEF Inv, TypeOK
<1>2. Loop \/ Read \/ ReadEmpty \/ Write \/ Commit \/ Finish \/ CloseFile \/ Manifest
  BY DEF WriterStep, Retires, MarksClosed, Reports, Settles, Ending
<1>3. sess.open
  BY <1>1, <1>2 DEF Turn, Active, Loop, Read, ReadEmpty, Write, Commit, Finish, CloseFile, Manifest
<1>4. posts' \in {<<>>, <<"STORAGE_ERROR">>} BY WriterPosts DEF Ending
<1>5. audio' = audio \/ \E n : audio' = [audio EXCEPT !.ring = n]
  BY <1>2 DEF Loop, Read, ReadEmpty, Write, Wrote, Commit, Finish, CloseFile, Manifest, GivesUp
<1>6. audio'.mic = audio.mic BY <1>1, <1>5 DEF Audio
<1>7. sess'.open = sess.open
  <2>2. CASE Write
    <3>1. \/ UNCHANGED sess
          \/ sess' = [sess EXCEPT !.data = @ + w.got]
          \/ \E n : PostError([sess EXCEPT !.data = @ + n])
      BY <2>2 DEF Write, GivesUp
    <3> QED BY <1>1, <3>1 DEF PostError, Session
  <2>3. CASE Commit \/ Finish
    <3>1. UNCHANGED sess \/ sess' = Committed \/ PostError(sess) \/ PostError(Committed)
      BY <2>3 DEF Commit, Finish, GivesUp
    <3> QED BY <1>1, <3>1 DEF PostError, Committed, Session
  <2>4. CASE Loop \/ Read \/ ReadEmpty \/ CloseFile \/ Manifest
    BY <2>4 DEF Loop, Read, ReadEmpty, CloseFile, Manifest, GivesUp
  <2> QED BY <1>2, <2>2, <2>3, <2>4
<1> QED BY <1>3, <1>4, <1>6, <1>7

(* The steps from the manifest to the last post.                           *)
EndsSession ==
  \/ /\ w.pc = "retire" /\ sess.open /\ ~sess'.open /\ w'.pc = "closed"
     /\ w'.result = w.result /\ (~sess'.error => w.result = "ok") /\ posts' = <<>>
  \/ w.pc = "closed" /\ w'.pc = "report" /\ sess'.error = sess.error /\ posts' = <<>>
  \/ /\ w.pc = "report" /\ w.result = "ok" /\ w'.pc = "loop" /\ UNCHANGED sess
     /\ posts' = <<"CLOSE_DONE">>
  \/ /\ w.pc = "report" /\ w'.pc = "settle" /\ sess'.error
     /\ posts' \in {<<>>, <<"STORAGE_ERROR">>}
  \/ w.pc = "settle" /\ w'.pc = "loop" /\ UNCHANGED sess /\ posts' = <<"SETTLED">>

LEMMA EndsAre ==
  ASSUME Inv, WriterStep, w.pc \in {"retire"} \cup Ending
  PROVE  /\ UNCHANGED <<audio, card, cur>> /\ ~sess'.open
         /\ w.pc # "retire" => ~sess.open
         /\ EndsSession
<1>1. sess \in Session /\ w \in Writer /\ Turn /\ TypeOK BY DEF Inv, TypeOK
<1>2. Retires \/ MarksClosed \/ Reports \/ Settles
  BY DEF WriterStep, Loop, Read, ReadEmpty, Write, Commit, Finish, CloseFile, Manifest, Ending
<1>3. UNCHANGED <<audio, card, cur>>
  BY <1>2 DEF WriterStep, Retires, MarksClosed, Reports, Settles, Disk
<1>4. w.pc # "retire" => ~sess.open BY <1>1 DEF Turn, Active, Ending
<1>5. CASE Retires
  <2>1. w.pc = "retire" /\ w'.pc = "closed" /\ w'.result = w.result
    BY <1>1, <1>5, GoFields DEF Retires, Step
  <2>2. sess'.open = FALSE /\ sess'.error = (sess.error \/ w.result # "ok") /\ posts' = <<>>
    BY <1>1, <1>5 DEF Retires, Session, Quiet
  <2>3. sess.open BY <1>1, <2>1 DEF Turn, Active
  <2> QED BY <1>3, <2>1, <2>2, <2>3 DEF EndsSession
<1>6. CASE MarksClosed
  <2>1. w.pc = "closed" /\ w'.pc = "report" BY <1>1, <1>6, GoFields DEF MarksClosed, Step
  <2>2. sess'.open = sess.open /\ sess'.error = sess.error /\ posts' = <<>>
    BY <1>1, <1>6 DEF MarksClosed, Session, Quiet
  <2> QED BY <1>3, <1>4, <2>1, <2>2 DEF EndsSession
<1>7. CASE Reports /\ w.result = "ok"
  BY <1>3, <1>4, <1>7, RestingFields DEF Reports, EndsSession
<1>8. CASE Reports /\ w.result # "ok"
  <2>1. w.pc = "report" /\ Go("settle") /\ PostError(sess) BY <1>8 DEF Reports
  <2>2. w'.pc = "settle" BY <1>1, <2>1, GoFields DEF Step
  <2>3. sess'.open = sess.open /\ sess'.error BY <1>1, <2>1, ErrorFields
  <2>4. posts' \in {<<>>, <<"STORAGE_ERROR">>} BY <2>1 DEF PostError
  <2> QED BY <1>3, <1>4, <2>1, <2>2, <2>3, <2>4 DEF EndsSession
<1>9. CASE Settles BY <1>3, <1>4, <1>9, RestingFields DEF Settles, EndsSession
<1> QED BY <1>2, <1>5, <1>6, <1>7, <1>8, <1>9

(* Each hook is called alone, so its result is the only one there is.      *)
LEMMA OneCall ==
  ASSUME NEW h, NEW r, calls' = {<<h, r>>}
  PROVE  /\ calls' # {}
         /\ \A g, s : Called(g, s) <=> g = h /\ s = r
BY DEF Called

LEMMA HooksDo ==
  ASSUME Hooks
  PROVE  /\ calls' = {<<"start_recording", "ok">>} => StartOk
         /\ calls' = {<<"start_recording", "fail">>} => StartFails \/ Nothing
         /\ calls' = {<<"stop_recording", "ok">>} => Stop
         /\ calls' = {<<"set_paused", "ok">>} => SetMuted(ui'.paused)
         /\ calls' = {<<"mark_point", "ok">>} => MarkFails \/ Nothing
         /\ \A r : calls' = {<<"close_status", r>>} => r = CloseStatus /\ Nothing
         /\ \A r : calls' = {<<"sync_request", r>>} => Nothing
         /\ calls' = {} => Nothing
<1>1. CASE calls' = {}
  BY <1>1 DEF Hooks, Called
<1>2. ASSUME NEW h, NEW r, calls' = {<<h, r>>}
      PROVE  /\ h = "start_recording" /\ r = "ok" => StartOk
             /\ h = "start_recording" /\ r = "fail" => StartFails \/ Nothing
             /\ h = "stop_recording" /\ r = "ok" => Stop
             /\ h = "set_paused" /\ r = "ok" => SetMuted(ui'.paused)
             /\ h = "mark_point" /\ r = "ok" => MarkFails \/ Nothing
             /\ h = "close_status" => r = CloseStatus /\ Nothing
             /\ h = "sync_request" => Nothing
  <2>1. calls' # {} /\ \A g, s : Called(g, s) <=> g = h /\ s = r BY <1>2, OneCall
  <2> QED BY <2>1 DEF Hooks, Refused
<1>3. calls' = {} => \A h, r : calls' # {<<h, r>>} BY OneCall
<1> QED BY <1>1, <1>2, <1>3

-----------------------------------------------------------------------------
(* The invariant of the whole.  The microphone is on where the page says   *)
(* so, whatever happens.                                                   *)
MicFollowsPage == ui.mode = "RECORDING" <=> audio.mic # "off"
Steady == /\ Inv /\ ui \in Shape /\ armed \subseteq Timer /\ queue \in Seq(Waiting)
          /\ MicFollowsPage

(* As long as there is no old news: a page one can leave, or that says it  *)
(* was saved, has no session behind it, and what tells that it was saved,  *)
(* a poll or an event that waits, tells it of the session as it is now.    *)
Busy == ui.mode \in {"RECORDING", "CLOSING"} \/ (ui.mode = "STORAGE_ERROR" /\ ~ui.settled)
IsSaved == /\ ~sess.open /\ audio.mic = "off" /\ ~audio.flying
           /\ card[cur].man = "closed" /\ card[cur].synced = audio.queued
Held == sess.open \/ w.pc \in Ending => Busy
Shown == ui.mode = "ENDING" => IsSaved
Polled == (sess.closed \/ w.pc = "closed") /\ ~sess.open /\ ~sess.error => IsSaved
Awaited == ui.mode = "CLOSING" \/ (ui.mode = "STORAGE_ERROR" /\ ui.error = "TIMEOUT")
DoneNews == \A i \in 1..Len(queue) : queue[i][1] = "CLOSE_DONE" =>
           ui.mode # "RECORDING" /\ (Awaited => IsSaved)
Heard == Held /\ Shown /\ Polled /\ DoneNews

LEMMA InitSteady == RecorderInit => Steady /\ Heard
<1> SUFFICES ASSUME RecorderInit PROVE Steady /\ Heard OBVIOUS
<1>1. Inv BY InitInv DEF RecorderInit
<1>2. /\ ui = [mode |-> "STANDBY", overlay |-> "NONE", error |-> "NONE",
               settled |-> FALSE, paused |-> FALSE, locked |-> FALSE,
               polls |-> 0, pairing |-> "IDLE", reminder |-> FALSE, todo |-> "NONE"]
      /\ armed = {} /\ queue = <<>>
  BY DEF RecorderInit, UiInit
<1>3. ui \in Shape /\ ui.mode = "STANDBY" BY <1>2, PollAssumption DEF Pages, Shape, Mode
<1>4. /\ audio.mic = "off" /\ ~sess.open /\ ~sess.closed /\ w.pc = "loop"
  BY DEF RecorderInit, Init, Silent, Fresh, Resting
<1> QED BY <1>1, <1>2, <1>3, <1>4
        DEF Steady, Heard, MicFollowsPage, Held, Shown, Polled, DoneNews, Ending

-----------------------------------------------------------------------------
(* The application takes an event.                                         *)

(* What the turn and the hooks do together.                                *)
Does(e) ==
  \/ Stays /\ (Nothing \/ (ui.mode = "RECORDING" /\ (MarkFails \/ \E b \in BOOLEAN : SetMuted(b))))
  \/ ui.mode = "STANDBY" /\ e = <<"SHORT", "R">> /\ ui'.mode = "RECORDING" /\ StartOk
  \/ /\ ui.mode = "STANDBY" /\ SettledPage' /\ ui'.error = "OTHER"
     /\ StartFails \/ Nothing
  \/ Stops /\ Stop
  \/ /\ Closes(e) /\ Nothing
     /\ calls' = Did("close_status") => CloseStatus = "ok"
     /\ calls' = {<<"close_status", "fail">>} => CloseStatus = "fail"
  \/ Leaves(e) /\ Nothing

LEMMA DeliverDoes ==
  ASSUME Steady, Deliver
  PROVE  /\ ui' \in Shape /\ armed' \subseteq Timer /\ Does(Head(queue))
         /\ Head(queue) \in Waiting
<1>1. Head(queue) \in Waiting BY DEF Steady, Deliver
<1>2. PICK e \in Waiting : e = Head(queue) BY <1>1
<1>3. Turns(e) BY <1>2, HandleTurns DEF Steady, Deliver
<1>4. Hooks BY DEF Deliver
<1> SUFFICES Does(e) BY <1>2, <1>3 DEF Turns
<1>5. CASE Stays
  <2>1. CASE calls' = {<<"set_paused", "ok">>} /\ ui.mode = "RECORDING"
    <3>1. ui'.paused \in BOOLEAN BY <1>3 DEF Turns, Pages, Shape
    <3>2. SetMuted(ui'.paused) BY <1>4, <2>1, HooksDo
    <3> QED BY <1>5, <2>1, <3>1, <3>2, Zenon DEF Does
  <2>2. CASE calls' = {<<"mark_point", "ok">>} /\ ui.mode = "RECORDING"
    BY <1>4, <1>5, <2>2, HooksDo, Zenon DEF Does
  <2>3. CASE calls' \in {{}, {<<"close_status", "busy">>},
                         {<<"sync_request", "ok">>}, {<<"sync_request", "fail">>}}
    BY <1>4, <1>5, <2>3, HooksDo, Zenon DEF Does
  <2> QED BY <1>5, <2>1, <2>2, <2>3 DEF Stays, Did
<1>6. CASE Starts(e) BY <1>4, <1>6, HooksDo, Zenon DEF Does, Starts, Did
<1>7. CASE Stops BY <1>4, <1>7, HooksDo, Zenon DEF Does, Stops, Did
<1>8. CASE Closes(e)
  <2>1. calls' \in {{}, {<<"close_status", "ok">>}, {<<"close_status", "fail">>},
                    {<<"close_status", "busy">>}}
    BY <1>8 DEF Closes, Did
  <2>2. /\ Nothing
        /\ calls' = {<<"close_status", "ok">>} => CloseStatus = "ok"
        /\ calls' = {<<"close_status", "fail">>} => CloseStatus = "fail"
    BY <1>4, <2>1, HooksDo, Zenon
  <2> QED BY <1>8, <2>2, Zenon DEF Does, Did
<1>9. CASE Leaves(e) BY <1>4, <1>9, HooksDo, Zenon DEF Does, Leaves
<1> QED BY <1>3, <1>5, <1>6, <1>7, <1>8, <1>9 DEF Turns

(* What a step adds to the queue is at its end.                            *)
LEMMA PostedIs ==
  ASSUME NEW q \in Seq(Waiting), NEW p, p = <<>> \/ \E x \in Event : p = <<x>>,
         posts' = p, queue' = Posted(q)
  PROVE  /\ queue' \in Seq(Waiting) /\ Len(q) <= Len(queue')
         /\ \A i \in 1..Len(queue') : \/ i \in 1..Len(q) /\ queue'[i] = q[i]
                                      \/ i = Len(q) + 1 /\ p = <<queue'[i][1]>>
<1>1. CASE p = <<>>
  <2>1. queue' = q BY <1>1 DEF Posted
  <2> QED BY <2>1
<1>2. CASE \E x \in Event : p = <<x>>
  <2>1. PICK x \in Event : p = <<x>> BY <1>2
  <2>2. p # <<>> /\ p[1] = x BY <2>1
  <2>3. PICK e : e = <<x, "-">> OBVIOUS
  <2>a. e \in Event \X {"-"} /\ e[1] = x BY <2>3
  <2>b. e \in Waiting BY <2>a DEF Waiting
  <2>4. queue' = Append(q, e) BY <2>2, <2>3 DEF Posted
  <2> QED BY <2>1, <2>a, <2>b, <2>4
<1> QED BY <1>1, <1>2

LEMMA TakenIs ==
  ASSUME queue \in Seq(Waiting), queue # <<>>
  PROVE  /\ Len(queue) \in Nat \ {0} /\ queue[1] = Head(queue)
         /\ Tail(queue) \in Seq(Waiting) /\ Len(Tail(queue)) = Len(queue) - 1
         /\ \A i \in 1..Len(Tail(queue)) :
              i + 1 \in 1..Len(queue) /\ Tail(queue)[i] = queue[i + 1]
OBVIOUS

LEMMA MarkPosts ==
  ASSUME Inv, MarkFails
  PROVE  /\ posts' \in {<<>>, <<"STORAGE_ERROR">>} /\ sess'.error /\ sess'.open = sess.open
         /\ sess'.closed = sess.closed /\ UNCHANGED <<audio, w, card, cur>> /\ sess.open
  BY ErrorFields DEF MarkFails, PostError, Inv, TypeOK

LEMMA MicSet ==
  ASSUME Inv, NEW b \in BOOLEAN, SetMuted(b)
  PROVE  /\ audio.mic # "off" /\ audio'.mic # "off" /\ UNCHANGED <<sess, w, card, cur>>
         /\ posts' = <<>>
<1>1. audio \in Audio BY DEF Inv, TypeOK
<1> QED BY <1>1 DEF SetMuted, Audio, Quiet

LEMMA MicStopped ==
  ASSUME Inv, Stop
  PROVE  /\ audio'.mic = "off" /\ UNCHANGED <<w, card, cur>> /\ posts' = <<>>
         /\ sess'.open = sess.open /\ sess'.closed = sess.closed /\ sess'.error = sess.error
<1>1. audio \in Audio /\ sess \in Session BY DEF Inv, TypeOK
<1> QED BY <1>1 DEF Stop, Audio, Session, Quiet

LEMMA SessionStarted ==
  ASSUME StartOk
  PROVE  /\ audio'.mic = "on" /\ sess'.open /\ ~sess.open /\ UNCHANGED w /\ w.pc = "loop"
         /\ posts' = <<>>
  BY DEF StartOk, CanOpen, Silent, Fresh, Quiet

LEMMA SessionNotStarted ==
  ASSUME StartFails
  PROVE  /\ audio'.mic = "off" /\ ~sess'.open /\ ~sess'.closed /\ UNCHANGED w /\ w.pc = "loop"
         /\ posts' = <<>>
  BY DEF StartFails, CanOpen, Silent, Fresh, Quiet

LEMMA NothingIs ==
  ASSUME Nothing
  PROVE  UNCHANGED <<audio, sess, w, card, cur>> /\ posts' = <<>>
  BY DEF Nothing, session

(* An event that was in the queue before, or was posted.                   *)
LEMMA DeliverQueue ==
  ASSUME Steady, Deliver
  PROVE  /\ posts' \in {<<>>, <<"STORAGE_ERROR">>} /\ queue' \in Seq(Waiting)
         /\ Len(queue) \in Nat \ {0} /\ queue[1] = Head(queue)
         /\ Len(queue') >= Len(queue) - 1
         /\ \A i \in 1..Len(queue') :
              \/ i + 1 \in 1..Len(queue) /\ queue'[i] = queue[i + 1]
              \/ i = Len(queue) /\ queue'[i][1] = "STORAGE_ERROR"
<1>1. posts' \in {<<>>, <<"STORAGE_ERROR">>}
  BY DeliverDoes, MarkPosts, MicSet, MicStopped, SessionStarted, SessionNotStarted, NothingIs
     DEF Does, Steady
<1>2. queue # <<>> /\ queue' = Posted(Tail(queue)) /\ queue \in Seq(Waiting)
  BY DEF Deliver, Steady
<1> DEFINE q == Tail(queue)
<1>3. /\ Len(queue) \in Nat \ {0} /\ queue[1] = Head(queue)
      /\ q \in Seq(Waiting) /\ Len(q) = Len(queue) - 1
      /\ \A i \in 1..Len(q) : i + 1 \in 1..Len(queue) /\ q[i] = queue[i + 1]
  BY <1>2, TakenIs
<1>4. queue' = Posted(q) BY <1>2
<1> HIDE DEF q
<1>5. PICK p : p = posts' OBVIOUS
<1>6. /\ queue' \in Seq(Waiting) /\ Len(q) <= Len(queue')
      /\ \A i \in 1..Len(queue') : \/ i \in 1..Len(q) /\ queue'[i] = q[i]
                                   \/ i = Len(q) + 1 /\ p = <<queue'[i][1]>>
  <2>1. p = <<>> \/ \E x \in Event : p = <<x>> BY <1>1, <1>5 DEF Event
  <2> QED BY <1>3, <1>4, <1>5, <2>1, PostedIs
<1>7. ASSUME NEW i \in 1..Len(queue'), i = Len(q) + 1, p = <<queue'[i][1]>>
      PROVE  queue'[i][1] = "STORAGE_ERROR"
  BY <1>1, <1>5, <1>7
<1> QED BY <1>1, <1>3, <1>6, <1>7

LEMMA DeliverSteady == ASSUME Steady, Deliver PROVE Steady'
<1>1. Inv /\ MicFollowsPage BY DEF Steady
<1>2. PICK e \in Waiting : Does(e) BY DeliverDoes
<1>3. ui' \in Shape /\ armed' \subseteq Timer /\ queue' \in Seq(Waiting)
  BY DeliverDoes, DeliverQueue
<1>4. Inv' /\ MicFollowsPage'
  <2>1. CASE Stays /\ (Nothing \/ (ui.mode = "RECORDING" /\ (MarkFails \/ \E b \in BOOLEAN : SetMuted(b))))
    <3>1. ui'.mode = ui.mode BY <2>1 DEF Stays
    <3>2. CASE Nothing BY <1>1, <3>1, <3>2, NothingKeeps, NothingIs DEF MicFollowsPage
    <3>3. CASE ui.mode = "RECORDING" /\ MarkFails
      BY <1>1, <3>1, <3>3, MarkFailsKeeps, MarkPosts DEF MicFollowsPage
    <3>4. CASE \E b \in BOOLEAN : SetMuted(b)
      BY <1>1, <3>1, <3>4, SetMutedKeeps, MicSet DEF MicFollowsPage
    <3> QED BY <2>1, <3>2, <3>3, <3>4
  <2>2. CASE ui'.mode = "RECORDING" /\ StartOk
    BY <1>1, <2>2, StartOkKeeps, SessionStarted DEF MicFollowsPage
  <2>3. CASE ui.mode = "STANDBY" /\ SettledPage' /\ (StartFails \/ Nothing)
    BY <1>1, <2>3, StartFailsKeeps, SessionNotStarted, NothingKeeps, NothingIs
       DEF MicFollowsPage, SettledPage
  <2>4. CASE Stops /\ Stop
    BY <1>1, <2>4, StopKeeps, MicStopped DEF MicFollowsPage, Stops, Unsettled
  <2>5. CASE (Closes(e) \/ Leaves(e)) /\ Nothing
    BY <1>1, <2>5, NothingKeeps, NothingIs
       DEF MicFollowsPage, Closes, Leaves, SettledPage, Unsettled
  <2> QED BY <1>2, <2>1, <2>2, <2>3, <2>4, <2>5 DEF Does
<1> QED BY <1>3, <1>4 DEF Steady

LEMMA SavedStays ==
  ASSUME IsSaved, UNCHANGED <<audio, sess, card, cur>>
  PROVE  IsSaved'
BY DEF IsSaved

(* Each case says where the event leads and what the hook did.             *)
LEMMA DeliverHeard == ASSUME Steady, Heard, ~OldNews, ~OldNews', Deliver PROVE Heard'
<1>1. /\ Inv /\ MicFollowsPage /\ queue \in Seq(Waiting) /\ ui \in Shape
      /\ Held /\ Shown /\ Polled /\ DoneNews
  BY DEF Steady, Heard
<1>2. /\ queue' \in Seq(Waiting) /\ Len(queue) \in Nat \ {0} /\ queue[1] = Head(queue)
      /\ \A i \in 1..Len(queue') :
           \/ i + 1 \in 1..Len(queue) /\ queue'[i] = queue[i + 1]
           \/ i = Len(queue) /\ queue'[i][1] = "STORAGE_ERROR"
  BY DeliverQueue
<1>3. w.pc \notin Ending BY DEF Deliver, Through, Ending
<1>4. PICK e : e = queue[1] /\ Does(e) BY <1>2, DeliverDoes
<1>5. e[1] \in Ended => ~sess.open BY <1>1, <1>2, <1>4 DEF OldNews
<1>6. ASSUME NEW i \in 1..Len(queue'), queue'[i][1] = "CLOSE_DONE"
      PROVE  ui.mode # "RECORDING" /\ (Awaited => IsSaved)
  <2>1. i + 1 \in 1..Len(queue) /\ queue[i + 1][1] = "CLOSE_DONE" BY <1>2, <1>6
  <2> QED BY <1>1, <2>1 DEF DoneNews
<1>7. e[1] = "CLOSE_DONE" => (Awaited => IsSaved) BY <1>1, <1>2, <1>4 DEF DoneNews
<1>8. CASE Stays /\ Nothing
  <2>1. UNCHANGED <<audio, sess, w, card, cur>> BY <1>8, NothingIs
  <2>2. ui'.mode = ui.mode /\ (Busy' <=> Busy) /\ (Awaited' => Awaited)
    BY <1>8 DEF Stays, Awaited, Busy
  <2>0. IsSaved => IsSaved' BY <2>1, SavedStays
  <2>3. Held' /\ Shown' /\ Polled'
    BY <1>1, <2>0, <2>1, <2>2 DEF Held, Shown, Polled, Ending
  <2>4. DoneNews' BY <1>6, <2>0, <2>2 DEF DoneNews
  <2> QED BY <2>3, <2>4 DEF Heard
<1>9. CASE Stays /\ ui.mode = "RECORDING" /\ (MarkFails \/ \E b \in BOOLEAN : SetMuted(b))
  <2>1. ui'.mode = "RECORDING" /\ w' = w /\ sess'.open = sess.open
    BY <1>1, <1>9, MarkPosts, MicSet DEF Stays
  <2>2. sess'.error \/ sess' = sess BY <1>1, <1>9, MarkPosts, MicSet
  <2>3. ~IsSaved BY <1>1, <1>9 DEF IsSaved, MicFollowsPage
  <2>4. Polled' BY <1>1, <2>1, <2>2, <2>3 DEF Polled
  <2>5. DoneNews' BY <1>6, <1>9 DEF DoneNews
  <2> QED BY <2>1, <2>4, <2>5 DEF Heard, Held, Shown, Busy
<1>10. CASE ui'.mode = "RECORDING" /\ StartOk
  <2>1. sess'.open BY <1>10, SessionStarted
  <2>2. \A i \in 1..Len(queue') : queue'[i][1] # "CLOSE_DONE" BY <1>2, <2>1 DEF OldNews, Ended
  <2> QED BY <1>10, <2>1, <2>2 DEF Heard, Held, Shown, Polled, DoneNews, Busy
<1>11. CASE /\ ui.mode = "STANDBY" /\ SettledPage' /\ ui'.error = "OTHER"
            /\ StartFails \/ Nothing
  <2>1. ~Busy BY <1>11 DEF Busy
  <2>2. ~sess'.open /\ w'.pc \notin Ending
    <3>1. CASE StartFails BY <3>1, SessionNotStarted DEF Ending
    <3>2. CASE Nothing BY <1>1, <2>1, <3>2, NothingIs DEF Held
    <3> QED BY <1>11, <3>1, <3>2
  <2>3. Polled'
    <3>1. CASE StartFails BY <3>1, SessionNotStarted DEF Polled
    <3>2. CASE Nothing BY <1>1, <3>2, NothingIs, SavedStays DEF Polled
    <3> QED BY <1>11, <3>1, <3>2
  <2>4. Shown' /\ DoneNews' BY <1>11 DEF Shown, DoneNews, Awaited, SettledPage
  <2> QED BY <2>2, <2>3, <2>4 DEF Heard, Held
<1>12. CASE Stops /\ Stop
  <2>1. /\ UNCHANGED w /\ sess'.open = sess.open /\ sess'.closed = sess.closed
        /\ sess'.error = sess.error
    BY <1>1, <1>12, MicStopped
  <2>2. ~IsSaved BY <1>1, <1>12 DEF IsSaved, MicFollowsPage, Stops
  <2>3. Polled' BY <1>1, <2>1, <2>2 DEF Polled
  <2>4. DoneNews' BY <1>6, <1>12 DEF DoneNews, Stops
  <2>5. Busy' /\ Shown' BY <1>12 DEF Stops, Busy, Shown, Unsettled
  <2> QED BY <2>3, <2>4, <2>5 DEF Heard, Held
<1>13. CASE /\ Closes(e) /\ Nothing
            /\ calls' = Did("close_status") => CloseStatus = "ok"
            /\ calls' = {<<"close_status", "fail">>} => CloseStatus = "fail"
  <2>1. UNCHANGED <<audio, sess, w, card, cur>> /\ Awaited
    BY <1>13, NothingIs DEF Closes, Awaited
  <2>2. Polled' BY <1>1, <2>1, SavedStays DEF Polled
  <2>3. DoneNews' BY <1>6, <1>13, <2>1, SavedStays
        DEF DoneNews, Closes, SettledPage, Unsettled, Awaited
  <2>4. CASE ui'.mode = "ENDING"
    <3>1. IsSaved
      BY <1>1, <1>7, <1>13, <2>1, <2>4 DEF Closes, SettledPage, Unsettled, CloseStatus, Polled
    <3> QED BY <1>3, <2>1, <2>2, <2>3, <2>4, <3>1, SavedStays DEF Heard, Held, Shown, IsSaved
  <2>5. CASE calls' = {<<"close_status", "fail">>} /\ SettledPage'
    <3>1. ~sess.open BY <1>13, <2>5 DEF CloseStatus
    <3> QED BY <1>3, <2>1, <2>2, <2>3, <2>5, <3>1 DEF Heard, Held, Shown, SettledPage
  <2>6. CASE ui'.mode = "STORAGE_ERROR" /\ ~ui'.settled
    BY <2>2, <2>3, <2>6 DEF Heard, Held, Shown, Busy
  <2> QED BY <1>13, <2>4, <2>5, <2>6 DEF Closes, Unsettled
<1>14. CASE Leaves(e) /\ Nothing
  <2>1. UNCHANGED <<audio, sess, w, card, cur>> BY <1>14, NothingIs
  <2>2. Polled' BY <1>1, <2>1, SavedStays DEF Polled
  <2>3. DoneNews' BY <1>6, <1>14, <2>1, SavedStays DEF DoneNews, Leaves, SettledPage, Awaited
  <2>4. CASE e[1] = "CLOSE_DONE" /\ Awaited /\ ui'.mode = "ENDING"
    BY <1>3, <1>7, <2>1, <2>2, <2>3, <2>4, SavedStays DEF Heard, Held, Shown, IsSaved
  <2>5. CASE e[1] = "SETTLED" /\ SettledPage'
    BY <1>3, <1>5, <2>1, <2>2, <2>3, <2>5 DEF Heard, Held, Shown, SettledPage, Ended
  <2>6. CASE (SettledPage \/ ui.mode = "ENDING") /\ ui'.mode = "STANDBY"
    <3>1. ~sess.open BY <1>1, <2>6 DEF Held, Busy, SettledPage
    <3> QED BY <1>3, <2>1, <2>2, <2>3, <2>6, <3>1 DEF Heard, Held, Shown
  <2> QED BY <1>14, <2>4, <2>5, <2>6 DEF Leaves, Awaited
<1> QED BY <1>4, <1>8, <1>9, <1>10, <1>11, <1>12, <1>13, <1>14 DEF Does

-----------------------------------------------------------------------------
(* The steps of the others: the page stays as it is.                       *)
LEMMA AppendIs ==
  ASSUME queue \in Seq(Waiting), NEW e \in Waiting, queue' = Append(queue, e)
  PROVE  /\ queue' \in Seq(Waiting) /\ Len(queue') = Len(queue) + 1
         /\ \A i \in 1..Len(queue') : \/ i \in 1..Len(queue) /\ queue'[i] = queue[i]
                                      \/ i = Len(queue) + 1 /\ queue'[i] = e
OBVIOUS

LEMMA StillHeard ==
  ASSUME Heard, UNCHANGED <<ui, audio, sess, w, card, cur>>,
         \A i \in 1..Len(queue') : queue'[i][1] = "CLOSE_DONE" =>
           i \in 1..Len(queue) /\ queue'[i] = queue[i]
  PROVE  Heard'
<1>1. IsSaved => IsSaved' BY SavedStays
<1>2. (Busy' <=> Busy) /\ (Awaited' <=> Awaited) BY DEF Busy, Awaited
<1>3. Held' /\ Shown' /\ Polled' BY <1>1, <1>2 DEF Heard, Held, Shown, Polled, Ending
<1>4. DoneNews' BY <1>1, <1>2 DEF Heard, DoneNews
<1> QED BY <1>3, <1>4 DEF Heard

LEMMA CallerKeeps ==
  ASSUME Steady, Press \/ (\E t \in Timer : Expire(t)) \/ Uploads \/ UploaderTells
  PROVE  Steady' /\ (Heard => Heard')
<1>1. UNCHANGED <<ui, audio, sess, w, card, cur>> /\ Inv' /\ armed' \subseteq Timer
  <2>1. Inv /\ armed \subseteq Timer BY DEF Steady
  <2>2. CASE Nothing
    <3>1. ui' = ui /\ armed' \subseteq armed
      BY DEF Press, Expire, Uploads, UploaderTells, AppRests
    <3> QED BY <2>1, <2>2, <3>1, NothingKeeps, NothingIs
  <2>3. CASE Uploads /\ ReportFault
    <3>1. UNCHANGED <<ui, audio, sess, w, card, cur, armed>>
      BY <2>3 DEF Uploads, ReportFault, AppRests
    <3> QED BY <2>1, <2>3, <3>1, ReportFaultKeeps
  <2> QED BY <2>2, <2>3 DEF Press, Expire, Uploads, UploaderTells
<1>2. \/ queue' = queue
      \/ \E e \in Waiting : e[1] # "CLOSE_DONE" /\ queue' = Append(queue, e)
  <2>1. CASE Press
    <3>1. PICK e \in Key : Post(e) BY <2>1 DEF Press
    <3>2. e \in Waiting /\ e[1] # "CLOSE_DONE" BY DEF Key, Waiting
    <3> QED BY <3>1, <3>2 DEF Post
  <2>2. CASE \E t \in Timer : Expire(t)
    <3>1. PICK t \in Timer : Expire(t) BY <2>2
    <3>2. PICK e : e = <<"TIMER", t>> OBVIOUS
    <3>3. e \in {"TIMER"} \X Timer /\ e[1] # "CLOSE_DONE" BY <3>2
    <3>4. e \in Waiting BY <3>3 DEF Waiting
    <3> QED BY <3>1, <3>2, <3>3, <3>4 DEF Expire, Post
  <2>3. CASE Uploads BY <2>3 DEF Uploads
  <2>4. CASE UploaderTells
    <3>1. PICK e : e = <<"STORAGE_ERROR", "-">> OBVIOUS
    <3>2. e \in Event \X {"-"} /\ e[1] # "CLOSE_DONE" BY <3>1 DEF Event
    <3>3. e \in Waiting BY <3>2 DEF Waiting
    <3> QED BY <2>4, <3>1, <3>2, <3>3 DEF UploaderTells, Post
  <2> QED BY <2>1, <2>2, <2>3, <2>4
<1>3. /\ queue' \in Seq(Waiting)
      /\ \A i \in 1..Len(queue') : queue'[i][1] = "CLOSE_DONE" =>
           i \in 1..Len(queue) /\ queue'[i] = queue[i]
  <2>1. queue \in Seq(Waiting) BY DEF Steady
  <2>2. CASE queue' = queue BY <2>1, <2>2
  <2>3. CASE \E e \in Waiting : e[1] # "CLOSE_DONE" /\ queue' = Append(queue, e)
    BY <2>1, <2>3, AppendIs
  <2> QED BY <1>2, <2>2, <2>3
<1>4. Steady' BY <1>1, <1>3 DEF Steady, MicFollowsPage
<1> QED BY <1>1, <1>3, <1>4, StillHeard

LEMMA CapturesKeeps ==
  ASSUME Steady, Captures
  PROVE  Steady' /\ (Heard => Heard')
<1>1. UNCHANGED <<ui, armed, sess, w, card, cur, queue>>
  BY DEF Captures, Capture, AppRests
<1>2. Inv' BY CaptureKeeps DEF Steady, Captures
<1>3. audio'.mic = audio.mic
  <2>1. audio \in Audio BY DEF Steady, Inv, TypeOK
  <2> QED BY <2>1 DEF Captures, Capture, TakeFrame, QueueFrame, Audio
<1>4. Steady' BY <1>1, <1>2, <1>3 DEF Steady, MicFollowsPage
<1>5. ~IsSaved BY DEF Captures, Capture, TakeFrame, QueueFrame, IsSaved
<1>6. Heard => Heard'
  BY <1>1, <1>5 DEF Heard, Held, Shown, Polled, DoneNews, Busy, Awaited, Ending
<1> QED BY <1>4, <1>6

LEMMA WritesSteady ==
  ASSUME Steady, Writes
  PROVE  /\ Steady' /\ ui' = ui /\ Len(queue) <= Len(queue')
         /\ posts' \in {<<>>, <<"STORAGE_ERROR">>, <<"CLOSE_DONE">>, <<"SETTLED">>}
         /\ \A i \in 1..Len(queue') : \/ i \in 1..Len(queue) /\ queue'[i] = queue[i]
                                      \/ i = Len(queue) + 1 /\ posts' = <<queue'[i][1]>>
<1>1. Inv /\ WriterStep /\ queue \in Seq(Waiting) /\ queue' = Posted(queue)
  BY DEF Steady, Writes
<1>2. UNCHANGED <<ui, armed>> BY DEF Writes, AppRests
<1>3. /\ audio'.mic = audio.mic
      /\ posts' \in {<<>>, <<"STORAGE_ERROR">>, <<"CLOSE_DONE">>, <<"SETTLED">>}
  <2>1. CASE w.pc \in {"retire"} \cup Ending BY <1>1, <2>1, EndsAre DEF EndsSession
  <2>2. CASE w.pc \notin {"retire"} \cup Ending BY <1>1, <2>2, WritesOpen
  <2> QED BY <2>1, <2>2
<1>4. Inv' BY <1>1, WriterKeeps
<1>5. PICK p : p = posts' OBVIOUS
<1>6. /\ queue' \in Seq(Waiting) /\ Len(queue) <= Len(queue')
      /\ \A i \in 1..Len(queue') : \/ i \in 1..Len(queue) /\ queue'[i] = queue[i]
                                   \/ i = Len(queue) + 1 /\ p = <<queue'[i][1]>>
  <2>1. p = <<>> \/ \E x \in Event : p = <<x>> BY <1>3, <1>5 DEF Event
  <2> QED BY <1>1, <1>5, <2>1, PostedIs
<1>7. Steady' BY <1>2, <1>3, <1>4, <1>6 DEF Steady, MicFollowsPage
<1> QED BY <1>2, <1>3, <1>5, <1>6, <1>7

(* The page waits for the writer as long as it is at work, so that nothing *)
(* that says the session is saved can be there before it is.               *)
LEMMA WritesHeard == ASSUME Steady, Heard, Writes PROVE Heard'
<1>1. /\ Inv /\ WriterStep /\ MicFollowsPage /\ Held /\ Shown /\ Polled /\ DoneNews
  BY DEF Steady, Heard, Writes
<1>2. /\ Inv' /\ ui' = ui
      /\ \A i \in 1..Len(queue') : \/ i \in 1..Len(queue) /\ queue'[i] = queue[i]
                                   \/ i = Len(queue) + 1 /\ posts' = <<queue'[i][1]>>
  BY WritesSteady DEF Steady
<1>3. (Busy' <=> Busy) /\ (Awaited' <=> Awaited) BY <1>2 DEF Busy, Awaited
<1>4. Busy => ui.mode # "ENDING" BY DEF Busy
<1>5. ASSUME NEW i \in 1..Len(queue'), queue'[i][1] = "CLOSE_DONE",
             posts' \in {<<>>, <<"STORAGE_ERROR">>, <<"SETTLED">>}
      PROVE  ui.mode # "RECORDING" /\ (Awaited => IsSaved)
  <2>1. posts' # <<queue'[i][1]>> BY <1>5, Events
  <2>2. i \in 1..Len(queue) /\ queue'[i] = queue[i] BY <1>2, <1>5, <2>1
  <2> QED BY <1>1, <1>5, <2>2 DEF DoneNews
<1>6. CASE w.pc \notin {"retire"} \cup Ending
  <2>1. sess.open /\ sess'.open /\ posts' \in {<<>>, <<"STORAGE_ERROR">>}
    BY <1>1, <1>6, WritesOpen
  <2>2. Busy /\ ~IsSaved BY <1>1, <2>1 DEF Held, IsSaved
  <2>3. Held' /\ Shown' /\ Polled' BY <1>2, <1>3, <1>4, <2>1, <2>2 DEF Held, Shown, Polled
  <2>4. DoneNews' BY <1>2, <1>3, <1>5, <2>1, <2>2 DEF DoneNews
  <2> QED BY <2>3, <2>4 DEF Heard
<1>7. CASE w.pc \in {"retire"} \cup Ending
  <2>1. UNCHANGED <<audio, card, cur>> /\ ~sess'.open /\ EndsSession
        /\ (w.pc # "retire" => ~sess.open)
    BY <1>1, <1>7, EndsAre
  <2>2. IsSaved => IsSaved' BY <2>1 DEF IsSaved
  <2>3. Busy
    <3>1. w.pc = "retire" => sess.open BY <1>1 DEF Inv, Turn, Active
    <3> QED BY <1>1, <1>7, <3>1 DEF Held
  <2>4. Held' /\ Shown' BY <1>2, <1>3, <1>4, <2>3 DEF Held, Shown
  <2>5. Polled'
    <3> SUFFICES ASSUME sess'.closed \/ w'.pc = "closed", ~sess'.error PROVE IsSaved'
      BY DEF Polled
    <3>1. CASE w.pc = "retire"
      <4>1. w'.pc = "closed" /\ w'.result = "ok" BY <2>1, <3>1 DEF EndsSession
      <4>2. /\ audio'.mic = "off" /\ ~audio'.flying
            /\ card'[cur'].man = "closed" /\ card'[cur'].synced = audio'.queued
        BY <1>2, <4>1 DEF Inv, Drained, GoingWell, Whole
      <4> QED BY <2>1, <4>2 DEF IsSaved
    <3>2. CASE w.pc # "retire"
      <4>1. ~sess.error /\ (sess.closed \/ w.pc = "closed")
        <5>1. w.pc = "closed" \/ UNCHANGED sess BY <2>1, <3>2 DEF EndsSession
        <5>2. w.pc # "closed" => w'.pc # "closed" BY <2>1, <3>2 DEF EndsSession
        <5>3. w.pc = "closed" => sess'.error = sess.error BY <2>1 DEF EndsSession
        <5> QED BY <5>1, <5>2, <5>3
      <4> QED BY <1>1, <2>1, <2>2, <3>2, <4>1 DEF Polled
    <3> QED BY <3>1, <3>2
  <2>6. DoneNews'
    <3>1. CASE posts' \in {<<>>, <<"STORAGE_ERROR">>, <<"SETTLED">>}
      BY <1>2, <1>3, <1>5, <2>2, <3>1 DEF DoneNews
    <3>2. CASE w.pc = "report" /\ w.result = "ok"
      <4>1. /\ audio.mic = "off" /\ ~sess.error /\ sess.closed
        BY <1>1, <3>2 DEF Inv, Drained, GoingWell, Told
      <4>2. ui.mode # "RECORDING" /\ IsSaved
        BY <1>1, <2>1, <3>2, <4>1 DEF MicFollowsPage, Polled
      <4> QED BY <1>2, <2>2, <4>2 DEF DoneNews
    <3> QED BY <2>1, <3>1, <3>2 DEF EndsSession
  <2> QED BY <2>4, <2>5, <2>6 DEF Heard
<1> QED BY <1>6, <1>7

-----------------------------------------------------------------------------
(* As long as a key or a timer posts only while fewer than two events wait *)
(* there is no old news: keys and timers wait in the first two places, and *)
(* news of the end comes while the page is busy, so what is ahead of it    *)
(* may end that, or start the next recording, but not both.                *)
PostsNear ==
  \A e \in Waiting : queue' = Append(queue, e) /\ e[1] \notin Event => Len(queue) < 2
Slots == \A i \in 1..Len(queue) : i > 2 => queue[i][1] \in Event
Ahead == \A i \in 1..Len(queue), j \in 1..Len(queue) :
           j < i /\ queue[i][1] \in Ended /\ queue[j][1] \notin Event =>
             Busy \/ (j = 1 /\ ui.mode # "STANDBY")
Prompt == ~OldNews /\ Slots /\ Ahead

LEMMA EndedIs == Ended \subseteq Event /\ "STORAGE_ERROR" \in Event \ Ended BY DEF Ended, Event

LEMMA NoNews ==
  ASSUME NEW x \in Ended, NEW p \in {<<>>, <<"STORAGE_ERROR">>}
  PROVE  p # <<x>>
<1>1. CASE p = <<>> BY <1>1
<1>2. CASE p = <<"STORAGE_ERROR">>
  <2>1. p[1] = "STORAGE_ERROR" BY <1>2
  <2> QED BY <2>1 DEF Ended
<1> QED BY <1>1, <1>2

LEMMA NewsIs ==
  ASSUME queue \in Seq(Waiting)
  PROVE  OldNews <=> sess.open /\ \E i \in 1..Len(queue) : queue[i][1] \in Ended
BY DEF OldNews

LEMMA NewsIsNext ==
  ASSUME queue' \in Seq(Waiting)
  PROVE  OldNews' <=> sess'.open /\ \E i \in 1..Len(queue') : queue'[i][1] \in Ended
BY DEF OldNews, Ended

LEMMA OpensOnStart ==
  ASSUME Steady, NEW e, Does(e), ~sess.open, sess'.open
  PROVE  ui.mode = "STANDBY" /\ e = <<"SHORT", "R">>
BY MarkPosts, MicSet, MicStopped, SessionNotStarted, NothingIs DEF Does, Steady

(* What a busy page turns to.                                              *)
LEMMA BusyTurns ==
  ASSUME NEW e, Does(e), Busy
  PROVE  Busy' \/ ui'.mode # "STANDBY"
BY DEF Does, Stays, Stops, Closes, Leaves, Busy, SettledPage, Unsettled

LEMMA DeliverPrompt == ASSUME Steady, Heard, Prompt, Deliver PROVE Prompt'
<1>1. /\ queue \in Seq(Waiting) /\ ~OldNews /\ Slots /\ Ahead BY DEF Steady, Prompt
<1>2. /\ queue' \in Seq(Waiting) /\ Len(queue) \in Nat \ {0} /\ queue[1] = Head(queue)
      /\ \A i \in 1..Len(queue') :
           \/ i + 1 \in 1..Len(queue) /\ queue'[i] = queue[i + 1]
           \/ i = Len(queue) /\ queue'[i][1] = "STORAGE_ERROR"
  BY DeliverQueue
<1>3. PICK e : e = queue[1] /\ Does(e) BY <1>2, DeliverDoes
<1>4. ~OldNews'
  <2> SUFFICES ASSUME sess'.open, NEW i \in 1..Len(queue'), queue'[i][1] \in Ended
               PROVE  FALSE
    BY <1>2, NewsIsNext
  <2>1. i + 1 \in 1..Len(queue) /\ queue[i + 1][1] \in Ended BY <1>2, EndedIs
  <2>2. ~sess.open BY <1>1, <2>1, NewsIs
  <2>3. ui.mode = "STANDBY" /\ e = <<"SHORT", "R">> BY <1>3, <2>2, OpensOnStart
  <2>4. queue[1][1] \notin Event BY <1>3, <2>3 DEF Event
  <2>5. 1 \in 1..Len(queue) /\ 1 < i + 1 BY <1>2
  <2> QED BY <1>1, <2>1, <2>3, <2>4, <2>5 DEF Ahead, Busy
<1>5. Slots'
  <2>1. ASSUME NEW i \in 1..Len(queue'), i > 2 PROVE queue'[i][1] \in Event
    <3>1. CASE i + 1 \in 1..Len(queue) /\ queue'[i] = queue[i + 1]
      BY <1>1, <2>1, <3>1 DEF Slots
    <3> QED BY <1>2, <3>1, EndedIs
  <2> QED BY <2>1 DEF Slots, Event
<1>6. Ahead'
  <2>1. ASSUME NEW i \in 1..Len(queue'), NEW j \in 1..Len(queue'),
               j < i, queue'[i][1] \in Ended, queue'[j][1] \notin Event
        PROVE  Busy' \/ (j = 1 /\ ui'.mode # "STANDBY")
    <3>1. i + 1 \in 1..Len(queue) /\ queue[i + 1][1] \in Ended BY <1>2, <2>1, EndedIs
    <3>2. j + 1 \in 1..Len(queue) /\ queue[j + 1][1] \notin Event BY <1>2, <2>1, EndedIs
    <3>3. Busy BY <1>1, <2>1, <3>1, <3>2 DEF Ahead
    <3>4. j = 1 BY <1>1, <3>2 DEF Slots
    <3> QED BY <1>3, <3>3, <3>4, BusyTurns
  <2> QED BY <2>1 DEF Ahead, Ended, Event
<1> QED BY <1>4, <1>5, <1>6 DEF Prompt

(* A step that adds no news of the end leaves the page as it is.           *)
LEMMA CallerPrompt ==
  ASSUME Steady, Prompt, PostsNear,
         Press \/ (\E t \in Timer : Expire(t)) \/ Uploads \/ UploaderTells \/ Captures
  PROVE  Prompt'
<1>1. UNCHANGED <<ui, sess>>
  <2>1. CASE Captures BY <2>1 DEF Captures, Capture, AppRests
  <2>2. CASE Nothing
    BY <2>2, NothingIs DEF Press, Expire, Uploads, UploaderTells, AppRests, Captures, Capture
  <2>3. CASE Uploads /\ ReportFault BY <2>3 DEF Uploads, ReportFault, AppRests
  <2> QED BY <2>1, <2>2, <2>3 DEF Press, Expire, Uploads, UploaderTells
<1>2. \/ queue' = queue
      \/ \E e \in Waiting : /\ e[1] \notin Ended /\ queue' = Append(queue, e)
                            /\ e[1] \in Event \/ Len(queue) < 2
  <2>1. CASE Press
    <3>1. PICK e \in Key : Post(e) BY <2>1 DEF Press
    <3>2. e \in Waiting /\ e[1] \notin Ended BY DEF Key, Waiting, Ended
    <3> QED BY <3>1, <3>2 DEF Post, PostsNear
  <2>2. CASE \E t \in Timer : Expire(t)
    <3>1. PICK t \in Timer : Expire(t) BY <2>2
    <3>2. PICK e : e = <<"TIMER", t>> OBVIOUS
    <3>3. e \in {"TIMER"} \X Timer /\ e[1] \notin Ended BY <3>2 DEF Ended
    <3>4. e \in Waiting BY <3>3 DEF Waiting
    <3> QED BY <3>1, <3>2, <3>3, <3>4 DEF Expire, Post, PostsNear
  <2>3. CASE Uploads \/ Captures BY <2>3 DEF Uploads, Captures
  <2>4. CASE UploaderTells
    <3>1. PICK e : e = <<"STORAGE_ERROR", "-">> OBVIOUS
    <3>2. e \in Event \X {"-"} /\ e[1] \in Event \ Ended BY <3>1 DEF Event, Ended
    <3>3. e \in Waiting BY <3>2 DEF Waiting
    <3> QED BY <2>4, <3>1, <3>2, <3>3 DEF UploaderTells, Post
  <2> QED BY <2>1, <2>2, <2>3, <2>4
<1>3. CASE queue' = queue
  <2>1. ~OldNews' BY <1>1, <1>3 DEF Prompt, OldNews, Ended
  <2>2. Slots' /\ Ahead' BY <1>1, <1>3 DEF Prompt, Slots, Ahead, Busy, Ended, Event
  <2> QED BY <2>1, <2>2 DEF Prompt
<1>4. ASSUME NEW e \in Waiting, e[1] \notin Ended, queue' = Append(queue, e),
             e[1] \in Event \/ Len(queue) < 2
      PROVE  Prompt'
  <2>1. queue \in Seq(Waiting) /\ ~OldNews /\ Slots /\ Ahead BY DEF Steady, Prompt
  <2>2. /\ queue' \in Seq(Waiting) /\ Len(queue') = Len(queue) + 1
        /\ \A i \in 1..Len(queue') : \/ i \in 1..Len(queue) /\ queue'[i] = queue[i]
                                     \/ i = Len(queue) + 1 /\ queue'[i] = e
    BY <1>4, <2>1, AppendIs
  <2>3. ~OldNews'
    <3>1. ASSUME NEW i \in 1..Len(queue'), queue'[i][1] \in Ended PROVE ~sess.open
      BY <1>4, <2>1, <2>2, <3>1, NewsIs
    <3> QED BY <1>1, <2>2, <3>1, NewsIsNext
  <2>4. Slots'
    <3>1. ASSUME NEW i \in 1..Len(queue'), i > 2 PROVE queue'[i][1] \in Event
      BY <1>4, <2>1, <2>2, <3>1 DEF Slots
    <3> QED BY <3>1 DEF Slots, Event
  <2>5. Ahead'
    <3>1. ASSUME NEW i \in 1..Len(queue'), NEW j \in 1..Len(queue'),
                 j < i, queue'[i][1] \in Ended, queue'[j][1] \notin Event
          PROVE  Busy \/ (j = 1 /\ ui.mode # "STANDBY")
      <4>1. i \in 1..Len(queue) /\ queue'[i] = queue[i] BY <1>4, <2>2, <3>1
      <4>2. Len(queue) \in Nat BY <2>1
      <4>3. j \in 1..Len(queue) /\ queue'[j] = queue[j] BY <2>2, <3>1, <4>1, <4>2
      <4> QED BY <2>1, <3>1, <4>1, <4>3 DEF Ahead
    <3>2. Busy' <=> Busy BY <1>1 DEF Busy
    <3> QED BY <1>1, <3>1, <3>2 DEF Ahead, Ended, Event
  <2> QED BY <2>3, <2>4, <2>5 DEF Prompt
<1> QED BY <1>2, <1>3, <1>4

LEMMA WritesPrompt == ASSUME Steady, Heard, Prompt, Writes PROVE Prompt'
<1>1. /\ queue \in Seq(Waiting) /\ ~OldNews /\ Slots /\ Ahead /\ Inv /\ WriterStep /\ Held
  BY DEF Steady, Heard, Prompt, Writes
<1>2. /\ queue' \in Seq(Waiting) /\ ui' = ui /\ Len(queue) <= Len(queue')
      /\ posts' \in {<<>>, <<"STORAGE_ERROR">>, <<"CLOSE_DONE">>, <<"SETTLED">>}
      /\ \A i \in 1..Len(queue') : \/ i \in 1..Len(queue) /\ queue'[i] = queue[i]
                                   \/ i = Len(queue) + 1 /\ posts' = <<queue'[i][1]>>
  BY WritesSteady DEF Steady
<1>3. Busy' <=> Busy BY <1>2 DEF Busy
<1>4. \/ sess.open /\ posts' \in {<<>>, <<"STORAGE_ERROR">>}
      \/ ~sess'.open /\ Busy
  <2>1. CASE w.pc \in {"retire"} \cup Ending
    <3>1. w.pc = "retire" => sess.open BY <1>1 DEF Inv, Turn, Active
    <3> QED BY <1>1, <2>1, <3>1, EndsAre DEF Held
  <2>2. CASE w.pc \notin {"retire"} \cup Ending BY <1>1, <2>2, WritesOpen
  <2> QED BY <2>1, <2>2
<1>5. ~OldNews'
  <2>1. ASSUME NEW i \in 1..Len(queue'), queue'[i][1] \in Ended, sess'.open PROVE FALSE
    <3>1. sess.open /\ posts' \in {<<>>, <<"STORAGE_ERROR">>} BY <1>4, <2>1
    <3>2. posts' # <<queue'[i][1]>> BY <2>1, <3>1, NoNews
    <3>3. i \in 1..Len(queue) /\ queue[i][1] \in Ended BY <1>2, <2>1, <3>2
    <3> QED BY <1>1, <3>1, <3>3, NewsIs
  <2> QED BY <1>2, <2>1, NewsIsNext
<1>6. Slots'
  <2>1. ASSUME NEW i \in 1..Len(queue'), i > 2 PROVE queue'[i][1] \in Event
    <3>1. CASE i \in 1..Len(queue) /\ queue'[i] = queue[i] BY <1>1, <2>1, <3>1 DEF Slots
    <3>2. CASE posts' = <<queue'[i][1]>>
      <4>1. PICK x : x = queue'[i][1] /\ posts' = <<x>> BY <3>2
      <4> QED BY <1>2, <4>1 DEF Event
    <3> QED BY <1>2, <3>1, <3>2
  <2> QED BY <2>1 DEF Slots, Event
<1>7. Ahead'
  <2>1. ASSUME NEW i \in 1..Len(queue'), NEW j \in 1..Len(queue'),
               j < i, queue'[i][1] \in Ended, queue'[j][1] \notin Event
        PROVE  Busy \/ (j = 1 /\ ui.mode # "STANDBY")
    <3> SUFFICES ASSUME ~Busy
                 PROVE  j = 1 /\ ui.mode # "STANDBY"
      OBVIOUS
    <3>1. posts' \in {<<>>, <<"STORAGE_ERROR">>} BY <1>4
    <3>2. posts' # <<queue'[i][1]>> BY <2>1, <3>1, NoNews
    <3>3. i \in 1..Len(queue) /\ queue'[i] = queue[i] /\ Len(queue) \in Nat
      BY <1>1, <1>2, <2>1, <3>2
    <3>4. j \in 1..Len(queue) /\ queue'[j] = queue[j] BY <1>2, <2>1, <3>3
    <3> QED BY <1>1, <2>1, <3>3, <3>4 DEF Ahead
  <2> QED BY <1>2, <1>3, <2>1 DEF Ahead, Ended, Event
<1> QED BY <1>5, <1>6, <1>7 DEF Prompt

-----------------------------------------------------------------------------
(* The theorems.                                                           *)
LEMMA RecorderStepSteady == Steady /\ [RecorderNext]_everything => Steady'
<1> SUFFICES ASSUME Steady, [RecorderNext]_everything PROVE Steady' OBVIOUS
<1>1. CASE Deliver BY <1>1, DeliverSteady
<1>2. CASE Writes BY <1>2, WritesSteady
<1>3. CASE Captures BY <1>3, CapturesKeeps
<1>4. CASE Press \/ (\E t \in Timer : Expire(t)) \/ Uploads \/ UploaderTells
  BY <1>4, CallerKeeps
<1>5. CASE UNCHANGED everything
  <2>1. UNCHANGED <<ui, armed, queue, audio>> /\ UNCHANGED vars
    BY <1>5 DEF everything, uivars, session, vars
  <2> QED BY <2>1, StutterKeeps DEF Steady, MicFollowsPage
<1> QED BY <1>1, <1>2, <1>3, <1>4, <1>5 DEF RecorderNext

LEMMA RecorderStepHeard ==
  Steady /\ Heard /\ ~OldNews /\ ~OldNews' /\ [RecorderNext]_everything => Heard'
<1> SUFFICES ASSUME Steady, Heard, ~OldNews, ~OldNews', [RecorderNext]_everything PROVE Heard'
  OBVIOUS
<1>1. CASE Deliver BY <1>1, DeliverHeard
<1>2. CASE Writes BY <1>2, WritesHeard
<1>3. CASE Captures BY <1>3, CapturesKeeps
<1>4. CASE Press \/ (\E t \in Timer : Expire(t)) \/ Uploads \/ UploaderTells
  BY <1>4, CallerKeeps
<1>5. CASE UNCHANGED everything
  <2>1. UNCHANGED <<ui, queue, audio, sess, w, card, cur>>
    BY <1>5 DEF everything, uivars, session
  <2>2. queue \in Seq(Waiting) BY DEF Steady
  <2> QED BY <2>1, <2>2, StillHeard
<1> QED BY <1>1, <1>2, <1>3, <1>4, <1>5 DEF RecorderNext

LEMMA RecorderStepPrompt ==
  Steady /\ Heard /\ Prompt /\ [RecorderNext]_everything /\ [PostsNear]_everything => Prompt'
<1> SUFFICES ASSUME Steady, Heard, Prompt, [RecorderNext]_everything, [PostsNear]_everything
             PROVE  Prompt'
  OBVIOUS
<1>1. CASE Deliver BY <1>1, DeliverPrompt
<1>2. CASE Writes BY <1>2, WritesPrompt
<1>3. CASE /\ Press \/ (\E t \in Timer : Expire(t)) \/ Uploads \/ UploaderTells \/ Captures
           /\ PostsNear
  BY <1>3, CallerPrompt
<1>4. CASE UNCHANGED everything
  <2>1. UNCHANGED <<ui, queue, sess>> BY <1>4 DEF everything, uivars, session
  <2>2. ~OldNews' BY <2>1 DEF Prompt, OldNews, Ended
  <2>3. Slots' /\ Ahead' BY <2>1 DEF Prompt, Slots, Ahead, Busy, Ended, Event
  <2> QED BY <2>2, <2>3 DEF Prompt
<1> QED BY <1>1, <1>2, <1>3, <1>4 DEF RecorderNext

LEMMA InitPrompt == RecorderInit => Prompt
<1> SUFFICES ASSUME RecorderInit PROVE Prompt OBVIOUS
<1>1. queue = <<>> BY DEF RecorderInit
<1> QED BY <1>1 DEF Prompt, OldNews, Slots, Ahead

LEMMA SteadyAlways == RecorderSpec => []Steady
<1>1. RecorderInit => Steady BY InitSteady
<1> QED BY <1>1, RecorderStepSteady, PTL DEF RecorderSpec

LEMMA HeardWhenPrompt == RecorderSpec /\ []~OldNews => []Heard
<1>1. RecorderInit => Heard BY InitSteady
<1> QED BY <1>1, SteadyAlways, RecorderStepHeard, PTL DEF RecorderSpec

LEMMA AlwaysPrompt == RecorderSpec /\ [][PostsNear]_everything => []~OldNews
<1>1. RecorderInit => Heard /\ Prompt BY InitSteady, InitPrompt
<1>2. Prompt => ~OldNews BY DEF Prompt
<1>3. Steady /\ Heard /\ Prompt /\ [RecorderNext]_everything /\ [PostsNear]_everything => Prompt'
  BY RecorderStepPrompt
<1> QED BY <1>1, <1>2, <1>3, SteadyAlways, RecorderStepHeard, PTL DEF RecorderSpec

LEMMA HeardSaved == Heard => SavedIsSaved
BY DEF Heard, Shown, IsSaved, SavedIsSaved

LEMMA HeardHome == Steady /\ Heard => HomeCanRecord
BY DEF Steady, Heard, MicFollowsPage, Held, Busy, HomeCanRecord

CallsTyped == calls \subseteq Hook \X {"ok", "fail", "busy"}

LEMMA DeliverTypes == ASSUME Steady, Deliver PROVE CallsTyped'
<1>1. PICK e : Turns(e) BY HandleTurns DEF Steady, Deliver
<1>2. \/ calls' = {}
      \/ \E h \in Hook, r \in {"ok", "fail", "busy"} : calls' = {<<h, r>>}
  BY <1>1 DEF Turns, Stays, Starts, Stops, Closes, Leaves, Did, Hook
<1> QED BY <1>2 DEF CallsTyped

LEMMA SteadyTypes == Steady => ui \in Ui /\ armed \subseteq Timer /\ TypeOK /\ queue \in Seq(Waiting)
<1>1. ui \in Shape => ui \in Pages BY DEF Shape
<1>2. ui \in Pages => ui \in Ui BY DEF Pages, Ui, Mode, Overlay, TimedPage, TodoPage, Pairing
<1> QED BY <1>1, <1>2 DEF Steady, Inv

(* The state has its types; the polls of a closing session never pass      *)
(* their limit, and its page is left when they reach it.                   *)
THEOREM RecorderTypeCorrect == RecorderSpec => []RecorderTypeOK
<1> DEFINE I == CallsTyped /\ scan \in {"reads", "met", "told"}
<1>1. RecorderInit => I BY DEF RecorderInit, UiInit, CallsTyped
<1>2. Steady /\ I /\ [RecorderNext]_everything => I'
  <2> SUFFICES ASSUME Steady, I, [RecorderNext]_everything PROVE I' OBVIOUS
  <2>1. CASE Deliver BY <2>1, DeliverTypes DEF Deliver
  <2>2. CASE RecorderNext /\ ~Deliver
    <3>1. calls' = {} /\ scan' \in {scan, "met", "told"}
      BY <2>2 DEF RecorderNext, Press, Expire, Writes, Captures, Uploads, UploaderTells, AppRests
    <3> QED BY <3>1 DEF CallsTyped
  <2>3. CASE UNCHANGED everything
    BY <2>3 DEF everything, uivars, CallsTyped, Hook
  <2> QED BY <2>1, <2>2, <2>3
<1>3. Steady /\ I => RecorderTypeOK BY SteadyTypes DEF RecorderTypeOK, UiTypeOK, CallsTyped
<1> QED BY <1>1, <1>2, <1>3, SteadyAlways, PTL DEF RecorderSpec

(* The microphone is on on the recording page, muted or not, and on no     *)
(* other, however far the application is behind and whatever fails.        *)
THEOREM MicAlwaysFollows == RecorderSpec => []MicFollowsPage
<1>1. Steady => MicFollowsPage BY DEF Steady
<1> QED BY <1>1, SteadyAlways, PTL

(* As long as the application has heard how a session ended before it      *)
(* starts the next, it shows "saved" only for one that is closed, whole    *)
(* and on the card: after any number of sessions and faults.               *)
THEOREM SavedWhenPrompt == RecorderSpec /\ []~OldNews => []SavedIsSaved
BY HeardWhenPrompt, HeardSaved, PTL

(* And the home page is only reached with the microphone off and nothing   *)
(* left open, so that the next recording can start.                        *)
THEOREM HomeWhenPrompt == RecorderSpec /\ []~OldNews => []HomeCanRecord
BY SteadyAlways, HeardWhenPrompt, HeardHome, PTL

(* That condition follows from one on how far the application is behind,   *)
(* however long its queue may get: in every behaviour in which a key or a  *)
(* timer posts only while fewer than two events wait, "saved" is true.     *)
(* With two waiting, the third place, it fails (Recorder_saved.cfg).       *)
THEOREM SavedWhenNear == RecorderSpec /\ [][PostsNear]_everything => []SavedIsSaved
BY AlwaysPrompt, SavedWhenPrompt, PTL

(* And in those behaviours the next recording can start from the home page *)
(* (Recorder_race.cfg shows the third place).                              *)
THEOREM HomeWhenNear == RecorderSpec /\ [][PostsNear]_everything => []HomeCanRecord
BY AlwaysPrompt, HomeWhenPrompt, PTL

-----------------------------------------------------------------------------
(* The recording path in the whole.  SessionWriter lets the application    *)
(* call in any order it could: the state machine calls in no other.        *)
LEMMA SessionSteps == Steady /\ [RecorderNext]_everything => [Next]_session
<1> SUFFICES ASSUME Steady, [RecorderNext]_everything PROVE Next \/ UNCHANGED session
  OBVIOUS
<1>1. CASE Nothing \/ UNCHANGED everything BY <1>1 DEF Nothing, everything
<1>2. CASE Deliver /\ ~Nothing
  <2>1. PICK e : Does(e) BY <1>2, DeliverDoes
  <2>2. \/ ui.mode = "RECORDING" /\ (MarkFails \/ Stop)
        \/ \E b \in BOOLEAN : SetMuted(b)
        \/ StartOk \/ StartFails
    BY <1>2, <2>1 DEF Does, Stops
  <2>3. Application BY <2>2 DEF Application, Steady, MicFollowsPage
  <2> QED BY <2>3 DEF Next
<1>3. CASE Writes BY <1>3 DEF Writes, Next
<1>4. CASE Captures BY <1>4 DEF Captures, Next
<1>5. CASE Uploads /\ ReportFault BY <1>5 DEF Next
<1> QED BY <1>1, <1>2, <1>3, <1>4, <1>5
        DEF RecorderNext, Press, Expire, Uploads, UploaderTells

LEMMA SessionSimulates ==
  ASSUME Steady, Mapped, [RecorderNext]_everything
  PROVE  Simulates
<1>1. Inv BY DEF Steady
<1>2. CASE Next BY <1>1, <1>2, StepSimulates
<1>3. CASE UNCHANGED session
  <2>1. UNCHANGED <<card, seen, cur, sess, w, torn>> BY <1>3 DEF session
  <2> QED BY <1>1, <2>1, NoCard
<1> QED BY <1>2, <1>3, SessionSteps

(* What SessionWriter assumes of the application is so: it marks, mutes    *)
(* and stops only what it has started and not stopped.                     *)
THEOREM CallsAsAssumed == RecorderSpec => Init /\ [][Next]_session
<1>1. RecorderInit => Init BY DEF RecorderInit
<1> QED BY <1>1, SteadyAlways, SessionSteps, PTL DEF RecorderSpec

(* Behind the state machine too the card keeps what RecordingStore         *)
(* promises.                                                               *)
THEOREM StoreKept == RecorderSpec => KeepsRecordings
<1>1. Steady /\ Mapped /\ [RecorderNext]_everything =>
        Mapped' /\ [Store!Next]_(Store!vars)
  BY SessionSimulates DEF Simulates
<1>2. RecorderInit => Mapped /\ Store!Init BY InitSimulates DEF RecorderInit
<1> QED BY <1>1, <1>2, SteadyAlways, PTL DEF RecorderSpec, KeepsRecordings, Store!Spec
=============================================================================
