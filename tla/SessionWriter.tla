---------------------------- MODULE SessionWriter ----------------------------
(***************************************************************************)
(* The path of a recording to the card: the microphone task (audio_pdm.c), *)
(* its ring, the writer task of storage_sd.c and the calls other tasks     *)
(* make into it, power losses, and the recovery at the next start.         *)
(*                                                                         *)
(* A frame is one block of the microphone.  A card access of the writer,   *)
(* with what follows it up to the next look at shared state, is one step;  *)
(* it may fail, as a physical fault (the card is then left alone until a   *)
(* restart) or otherwise (a full card, a short write).  A post that has to *)
(* wait for room in the event queue is delayed with its step.  Marks,      *)
(* titles, times, close reasons and the hashes of upload ranges are left   *)
(* out; that a mark or the saving of a hash fails is not.                  *)
(*                                                                         *)
(* Timing the code relies on, assumed here: a frame in flight reaches the  *)
(* ring before an empty ring makes the writer's 100 ms read time out, the  *)
(* writer looks at close_req right after that, and it is through with a    *)
(* closed session by the time the user can start the next one.             *)
(***************************************************************************)
EXTENDS Naturals, Sequences

CONSTANTS
  MaxSessions,   \* bound: sessions ever started
  MaxFrames,     \* bound: frames the microphone delivers for one session
  RingFrames,    \* capacity of the ring
  BlockFrames,   \* WRITE_SAMPLES
  SyncFrames,    \* SYNC_INTERVAL_BYTES
  MaxFaults      \* bound: failures and power losses
ASSUME SizeAssumption ==
  /\ MaxSessions \in Nat \ {0} /\ MaxFrames \in Nat \ {0}
  /\ RingFrames \in Nat \ {0} /\ BlockFrames \in Nat \ {0} /\ SyncFrames \in Nat \ {0}
  /\ MaxFaults \in Nat

VARIABLES
  audio,    \* the microphone and its ring
  sess,     \* s_sess, as far as control depends on it
  w,        \* the locals of the writer task
  fault,    \* STORAGE_RUNTIME_FAULTED
  card,     \* the directory of each session
  cur,      \* the session s_sess is about, 0 for none
  seen,     \* committed_bytes of each session, the most a reader was offered
  torn,     \* during a start: directories recovery has not visited
  posts,    \* events the last step posted to the application
  faults    \* failures and power losses so far

vars == <<audio, sess, w, fault, card, cur, seen, torn, posts, faults>>

Sessions == 1..MaxSessions
Frames == 0..MaxFrames

(* mic is s_running and s_muted; flying: capture_task holds a frame it has *)
(* not queued yet; queued is s_stats.queued_samples.                       *)
Audio == [mic : {"off", "on", "muted"}, flying : BOOLEAN,
          ring : 0..RingFrames, queued : Frames]
Silent == [mic |-> "off", flying |-> FALSE, ring |-> 0, queued |-> 0]

Session == [open : BOOLEAN, closeReq : BOOLEAN, closed : BOOLEAN, error : BOOLEAN,
            posted : BOOLEAN, data : Frames, committed : Frames]
Fresh == [open |-> FALSE, closeReq |-> FALSE, closed |-> FALSE, error |-> FALSE,
          posted |-> FALSE, data |-> 0, committed |-> 0]

(* pc is where the writer is, "boot" while storage_sd_init still runs; got *)
(* the frames in its buffer, result that of finish_session.                *)
Step == {"boot", "loop", "read", "write", "commit", "finish", "close", "manifest",
         "retire", "closed", "report", "settle"}
Writer == [pc : Step, got : 0..BlockFrames, since : Frames,
           result : {"ok", "bad", "fault"}]
Resting == [pc |-> "loop", got |-> 0, since |-> 0, result |-> "ok"]

(* man is the state in session.json ("none": no readable manifest), file   *)
(* the length of audio.wav, synced the part of it that is on the card for  *)
(* good, count pcm_bytes_committed of the manifest.                        *)
Sealed == {"closed", "recovered"}
Directory == [man : Sealed \cup {"absent", "none", "recording", "error"},
              file : Frames, synced : Frames, count : Frames]
Made(m) == [man |-> m, file |-> 0, synced |-> 0, count |-> 0]

Event == {"CLOSE_DONE", "SETTLED", "STORAGE_ERROR"}

TypeOK ==
  /\ audio \in Audio /\ sess \in Session /\ w \in Writer
  /\ fault \in BOOLEAN
  /\ card \in [Sessions -> Directory] /\ cur \in 0..MaxSessions
  /\ seen \in [Sessions -> Frames] /\ torn \subseteq Sessions
  /\ posts \in Seq(Event) /\ faults \in 0..MaxFaults

Init ==
  /\ audio = Silent /\ sess = Fresh /\ w = Resting /\ fault = FALSE
  /\ card = [s \in Sessions |-> Made("absent")] /\ cur = 0
  /\ seen = [s \in Sessions |-> 0] /\ torn = {}
  /\ posts = <<>> /\ faults = 0

Least(a, b) == IF a < b THEN a ELSE b
Quiet == posts' = <<>>
Fails == faults < MaxFaults /\ faults' = faults + 1
Works == UNCHANGED <<fault, faults>>

(* A call fails: as a physical fault of the card, or for another reason.   *)
IoFails == Fails /\ fault' \in {fault, TRUE}

-----------------------------------------------------------------------------
(* The microphone.  A frame is read while it runs, and queued later, also  *)
(* after it was stopped; a full ring loses it.                             *)
TakeFrame ==
  /\ audio.mic = "on" /\ ~audio.flying /\ audio.queued < MaxFrames
  /\ audio' = [audio EXCEPT !.flying = TRUE]

QueueFrame ==
  /\ audio.flying
  /\ IF audio.ring < RingFrames
       THEN audio' = [audio EXCEPT !.flying = FALSE, !.ring = @ + 1, !.queued = @ + 1]
       ELSE audio' = [audio EXCEPT !.flying = FALSE]

Capture ==
  /\ TakeFrame \/ QueueFrame
  /\ Quiet /\ UNCHANGED <<sess, w, fault, card, cur, seen, torn, faults>>

-----------------------------------------------------------------------------
(* The calls of the other tasks.                                           *)

(* hook_start_recording: the microphone is started, then sd_session_open   *)
(* makes the directory with all its files, or fails: before the first file,*)
(* before the manifest or after it.                                        *)
CanOpen ==
  /\ w.pc = "loop" /\ ~sess.open /\ ~fault
  /\ audio.mic = "off" /\ cur < MaxSessions

StartOk ==
  /\ CanOpen /\ Works
  /\ audio' = [Silent EXCEPT !.mic = "on"]
  /\ sess' = [Fresh EXCEPT !.open = TRUE]
  /\ cur' = cur + 1
  /\ card' = [card EXCEPT ![cur'] = Made("recording")]
  /\ Quiet /\ UNCHANGED <<w, seen, torn>>

StartFails ==
  /\ CanOpen /\ IoFails
  /\ audio' = Silent /\ sess' = Fresh
  /\ cur' = cur + 1
  /\ \E m \in {"absent", "none", "recording"} : card' = [card EXCEPT ![cur'] = Made(m)]
  /\ Quiet /\ UNCHANGED <<w, seen, torn>>

(* Wrong variant: the session is not asked to close.                       *)
StopMicOnly ==
  /\ audio' = [audio EXCEPT !.mic = "off"]
  /\ Quiet /\ Works /\ UNCHANGED <<sess, w, card, cur, seen, torn>>

(* hook_stop_recording: audio_pdm_stop, sd_session_request_close.          *)
Stop ==
  /\ audio' = [audio EXCEPT !.mic = "off"]
  /\ sess' = IF sess.open THEN [sess EXCEPT !.closeReq = TRUE] ELSE sess
  /\ Quiet /\ Works /\ UNCHANGED <<w, card, cur, seen, torn>>

SetMuted(muted) ==
  /\ audio.mic # "off"
  /\ audio' = [audio EXCEPT !.mic = IF muted THEN "muted" ELSE "on"]
  /\ Quiet /\ Works /\ UNCHANGED <<sess, w, card, cur, seen, torn>>

(* Wrong variant: every error is told.                                     *)
PostErrorAgain(s) ==
  /\ sess' = [s EXCEPT !.error = TRUE, !.closeReq = TRUE, !.posted = TRUE]
  /\ posts' = <<"STORAGE_ERROR">>
(* post_storage_error.  Only the first error of a session is told.         *)
PostError(s) ==
  /\ sess' = [s EXCEPT !.error = TRUE, !.closeReq = TRUE, !.posted = TRUE]
  /\ posts' = IF s.posted THEN <<>> ELSE <<"STORAGE_ERROR">>

(* sd_session_mark fails, on the application task.                         *)
MarkFails ==
  /\ sess.open /\ ~fault /\ IoFails /\ PostError(sess)
  /\ UNCHANGED <<audio, w, card, cur, seen, torn>>

(* Another task, the uploader, meets a fault of the card.                  *)
ReportFault ==
  /\ w.pc # "boot" /\ ~fault
  /\ Fails /\ fault' = TRUE /\ Quiet
  /\ UNCHANGED <<audio, sess, w, card, cur, seen, torn>>

-----------------------------------------------------------------------------
(* The writer task.                                                        *)
Go(step) == w' = [w EXCEPT !.pc = step]
Ends(how) == w' = [w EXCEPT !.pc = "retire", !.result = how]
OnCard(d) == card' = [card EXCEPT ![cur] = d]
Offer(n) == seen' = [seen EXCEPT ![cur] = n]
Disk == UNCHANGED <<card, seen>>

(* Every look at the fault flag: the session is given up.                  *)
GivesUp == fault /\ Ends("fault") /\ Quiet /\ Works /\ Disk /\ UNCHANGED <<audio, sess>>

(* Wrong variant: the file is not synced.                                  *)
SyncedForgotten == card[cur]

(* wav_commit: the header is rewritten and the file synced.  A failure may *)
(* come after the sync.                                                    *)
Synced == [card[cur] EXCEPT !.synced = card[cur].file]
CommitFails == IoFails /\ \E d \in {card[cur], Synced} : OnCard(d)

(* Wrong variant: a requested close does not wait for the ring to drain.   *)
LoopUndrained ==
  /\ w.pc = "loop" /\ sess.open
  /\ \/ GivesUp
     \/ /\ ~fault /\ Go(IF sess.closeReq THEN "finish" ELSE "read")
        /\ Quiet /\ Works /\ Disk /\ UNCHANGED <<audio, sess>>

Loop ==
  /\ w.pc = "loop" /\ sess.open
  /\ \/ GivesUp
     \/ ~fault /\ Go("read") /\ Quiet /\ Works /\ Disk /\ UNCHANGED <<audio, sess>>

Read ==
  /\ w.pc = "read" /\ audio.ring > 0
  /\ LET got == Least(audio.ring, BlockFrames) IN
       /\ audio' = [audio EXCEPT !.ring = @ - got]
       /\ w' = [w EXCEPT !.pc = "write", !.got = got]
  /\ Quiet /\ Works /\ Disk /\ UNCHANGED sess

(* The read times out.                                                     *)
ReadEmpty ==
  /\ w.pc = "read" /\ audio.ring = 0 /\ ~audio.flying
  /\ \/ GivesUp
     \/ /\ ~fault /\ Go(IF sess.closeReq THEN "finish" ELSE "loop")
        /\ Quiet /\ Works /\ Disk /\ UNCHANGED <<audio, sess>>

(* fwrite of n frames of the buffer.  After an error they are dropped.     *)
Wrote(n, step) ==
  /\ OnCard([card[cur] EXCEPT !.file = @ + n])
  /\ w' = [w EXCEPT !.pc = step, !.since = @ + n]
  /\ UNCHANGED <<audio, seen>>

Write ==
  /\ w.pc = "write"
  /\ \/ GivesUp
     \/ /\ ~fault /\ sess.error
        /\ Go("loop") /\ Quiet /\ Works /\ Disk /\ UNCHANGED <<audio, sess>>
     \/ /\ ~fault /\ ~sess.error
        /\ Wrote(w.got, "commit") /\ sess' = [sess EXCEPT !.data = @ + w.got]
        /\ Quiet /\ Works
     \/ /\ ~fault /\ ~sess.error
        /\ \E n \in 0..(w.got - 1) :
             Wrote(n, "loop") /\ PostError([sess EXCEPT !.data = @ + n])
        /\ IoFails

(* fflush, and every SyncFrames a commit.  The last disjunct is a fault    *)
(* after it, while the hash of a range is saved.                           *)
Committed == [sess EXCEPT !.committed = sess.data]
Commit ==
  /\ w.pc = "commit"
  /\ \/ GivesUp
     \/ /\ ~fault /\ w.since < SyncFrames
        /\ Go("loop") /\ Quiet /\ Works /\ Disk /\ UNCHANGED sess
     \/ ~fault /\ Go("loop") /\ CommitFails /\ PostError(sess) /\ UNCHANGED seen
     \/ /\ ~fault /\ w.since >= SyncFrames
        /\ OnCard(Synced) /\ Offer(sess.data)
        /\ w' = [w EXCEPT !.pc = "loop", !.since = 0]
        /\ \/ sess' = Committed /\ Quiet /\ Works
           \/ PostError(Committed) /\ Fails /\ fault' = TRUE
  /\ UNCHANGED audio

(* finish_session, one step per access of the card.                        *)
Finish ==
  /\ w.pc = "finish"
  /\ \/ GivesUp
     \/ /\ ~fault /\ OnCard(Synced) /\ Offer(sess.data) /\ sess' = Committed
        /\ \/ w' = [w EXCEPT !.pc = "close", !.result = "ok"] /\ Works
           \/ Ends("fault") /\ Fails /\ fault' = TRUE
     \/ /\ ~fault /\ CommitFails /\ UNCHANGED <<sess, seen>>
        /\ IF fault' THEN Ends("fault") ELSE w' = [w EXCEPT !.pc = "close", !.result = "bad"]
  /\ Quiet /\ UNCHANGED audio

CloseFile ==
  /\ w.pc = "close"
  /\ \/ GivesUp
     \/ /\ ~fault /\ Works
        /\ w' = [w EXCEPT !.pc = "manifest", !.result = IF sess.error THEN "bad" ELSE @]
     \/ /\ ~fault /\ IoFails
        /\ IF fault' THEN Ends("fault")
           ELSE w' = [w EXCEPT !.pc = "manifest", !.result = "bad"]
  /\ Quiet /\ Disk /\ UNCHANGED <<audio, sess>>

(* write_session_manifest.  A failure leaves the old manifest or none that *)
(* can be read (AtomicJson.tla).                                           *)
Final == [card[cur] EXCEPT !.man = IF w.result = "ok" THEN "closed" ELSE "error",
                           !.count = sess.committed]
Manifest ==
  /\ w.pc = "manifest"
  /\ \/ GivesUp
     \/ ~fault /\ OnCard(Final) /\ Go("retire") /\ Works /\ UNCHANGED seen
     \/ /\ ~fault /\ IoFails
        /\ \E m \in {card[cur].man, "none"} : OnCard([card[cur] EXCEPT !.man = m])
        /\ Ends(IF fault' THEN "fault" ELSE "bad") /\ UNCHANGED seen
  /\ Quiet /\ UNCHANGED <<audio, sess>>

Retires ==
  /\ w.pc = "retire" /\ Go("closed")
  /\ sess' = [sess EXCEPT !.open = FALSE, !.error = @ \/ w.result # "ok"]
  /\ Quiet /\ Works /\ Disk /\ UNCHANGED audio

MarksClosed ==
  /\ w.pc = "closed" /\ Go("report")
  /\ sess' = [sess EXCEPT !.closed = TRUE]
  /\ Quiet /\ Works /\ Disk /\ UNCHANGED audio

Reports ==
  /\ w.pc = "report"
  /\ IF w.result = "ok"
       THEN w' = Resting /\ posts' = <<"CLOSE_DONE">> /\ UNCHANGED sess
       ELSE Go("settle") /\ PostError(sess)
  /\ Works /\ Disk /\ UNCHANGED audio

Settles ==
  /\ w.pc = "settle" /\ w' = Resting /\ posts' = <<"SETTLED">>
  /\ Works /\ Disk /\ UNCHANGED <<audio, sess>>

WriterStep ==
  /\ \/ Loop \/ Read \/ ReadEmpty \/ Write \/ Commit
     \/ Finish \/ CloseFile \/ Manifest
     \/ Retires \/ MarksClosed \/ Reports \/ Settles
  /\ UNCHANGED <<cur, torn>>

-----------------------------------------------------------------------------
(* The power fails: what was not synced may be lost, a manifest that is    *)
(* just written may be the new one, the old one or none.                   *)
Manifests(s) ==
  IF s = cur /\ w.pc = "manifest"
    THEN {card[s], Final, [card[s] EXCEPT !.man = "none"]} ELSE {card[s]}
Cut(d, n) == [d EXCEPT !.file = n, !.synced = n]
Survivors(s) == {Cut(d, n) : d \in Manifests(s), n \in card[s].synced..card[s].file}

PowerLoss ==
  /\ Fails /\ fault' = FALSE
  /\ card' \in {f \in [Sessions -> UNION {Survivors(s) : s \in Sessions}] :
                \A s \in Sessions : f[s] \in Survivors(s)}
  /\ audio' = Silent /\ sess' = Fresh /\ w' = [Resting EXCEPT !.pc = "boot"]
  /\ torn' = {s \in Sessions : card'[s].man \notin Sealed \cup {"absent"}}
  /\ Quiet /\ UNCHANGED <<cur, seen>>

(* repair_wav, and the manifest of a repaired session.  Wrong variant: the *)
(* length is taken from the manifest instead of the file.                  *)
RepairedByManifest(d) ==
  [man |-> "recovered", file |-> d.count, synced |-> d.count, count |-> d.count]
Repaired(d) ==
  [man |-> "recovered", file |-> d.file, synced |-> d.file, count |-> d.file]

(* recover_session: the file is repaired to its length, then the manifest  *)
(* is written.  A failure leaves the directory for a later start, and the  *)
(* card faulted for this one.                                              *)
Recover(s) ==
  /\ w.pc = "boot" /\ s \in torn /\ torn' = torn \ {s}
  /\ \/ /\ ~fault /\ Works /\ UNCHANGED w
        /\ card' = [card EXCEPT ![s] = Repaired(@)]
     \/ /\ ~fault /\ IoFails /\ w' = [w EXCEPT !.result = "bad"]
        /\ \E m \in {card[s].man, "none"} : card' = [card EXCEPT ![s].man = m]
     \/ fault /\ Works /\ w' = [w EXCEPT !.result = "bad"] /\ UNCHANGED card
  /\ Quiet /\ UNCHANGED <<audio, sess, cur, seen>>

Boots ==
  /\ w.pc = "boot" /\ torn = {}
  /\ w' = Resting /\ fault' = (fault \/ w.result = "bad")
  /\ Quiet /\ UNCHANGED <<audio, sess, card, cur, seen, torn, faults>>

-----------------------------------------------------------------------------
(* The application makes its calls in any order it could: it marks, mutes  *)
(* and stops what it has started and not stopped.                          *)
Application ==
  \/ StartOk \/ StartFails
  \/ audio.mic # "off" /\ (MarkFails \/ Stop)
  \/ \E muted \in BOOLEAN : SetMuted(muted)

Next ==
  \/ Capture \/ WriterStep \/ Application \/ ReportFault
  \/ PowerLoss \/ (\E s \in Sessions : Recover(s)) \/ Boots

Spec == Init /\ [][Next]_vars

(* The writer and the capture task have the highest priorities and never   *)
(* wait for each other, storage_sd_init runs to its end.                   *)
Fairness ==
  /\ WF_vars(Capture) /\ WF_vars(WriterStep)
  /\ WF_vars((\E s \in Sessions : Recover(s)) \/ Boots)

FairSpec == Spec /\ Fairness

-----------------------------------------------------------------------------
(* What a reader was offered survives: at every moment a power loss would  *)
(* leave at least committed_bytes of the session, and what recovery makes  *)
(* of it holds them too (STORAGE_SAFETY_DESIGN.md:10).                     *)
OfferedSurvives == \A s \in Sessions : seen[s] <= card[s].synced

(* A manifest that calls a session whole tells the exact length of a file  *)
(* that is on the card for good.                                           *)
SealedIsWhole ==
  \A s \in Sessions : card[s].man \in Sealed =>
    card[s].count = card[s].file /\ card[s].synced = card[s].file

(* CLOSE_DONE is only posted for a session all of whose frames, those      *)
(* still queued when it was stopped included, are on the card, and whose   *)
(* manifest says so.                                                       *)
DoneIsWhole ==
  posts = <<"CLOSE_DONE">> =>
    /\ card[cur].man = "closed" /\ ~sess.error
    /\ card[cur].synced = audio.queued

(* A poll that finds the session closed without an error finds it sealed.  *)
ClosedIsSealed ==
  sess.closed /\ ~sess.open /\ ~sess.error => card[cur].man = "closed"

(* The application hears of an error before it hears that it is settled,   *)
(* once, and a session is never both in error and done.                    *)
ErrorTold ==
  [][/\ posts' = <<"SETTLED">> => sess.posted /\ sess.closed
     /\ posts' = <<"CLOSE_DONE">> => ~sess.posted
     /\ posts' = <<"STORAGE_ERROR">> => ~sess.posted]_vars

(* A stopped session is closed, and one in error too once it is stopped.   *)
StopCloses == (sess.open /\ audio.mic = "off") ~> ~sess.open

(* The writer and the recovery implement the store of recordings.          *)
Phase(s) ==
  CASE card[s].man = "absent" -> "absent"
    [] card[s].man \in Sealed -> "sealed"
    [] card[s].man = "recording" /\ s = cur /\ sess.open -> "open"
    [] OTHER -> "torn"

Store == INSTANCE RecordingStore WITH
           phase <- [s \in Sessions |-> Phase(s)],
           offered <- seen,
           kept <- [s \in Sessions |-> card[s].synced]
KeepsRecordings == Store!Spec
=============================================================================
