-------------------------------- MODULE Jobs ---------------------------------
(***************************************************************************)
(* What the server does with a recording of the card while it arrives and  *)
(* afterwards: the persistent queue of transcription jobs                  *)
(* (offline_jobs.py), the windows that are queued as their audio comes in  *)
(* (main.py), the text they write (ws_gateway.py, storage.py), the         *)
(* deletion of the meeting and the scan for unfinished meetings after a    *)
(* restart (lifecycle.py).                                                 *)
(*                                                                         *)
(* One recording, cut into Windows; the last window is the short tail.     *)
(* The event loop runs one handler at a time and only an await lets        *)
(* another in, so a step here reaches from one await to the next.  Backoff *)
(* has no clock: a job that failed before may be passed over.              *)
(***************************************************************************)
EXTENDS Naturals, FiniteSets

CONSTANTS Windows,       \* number of windows of the recording
          Workers,       \* the worker tasks
          MaxRetries,    \* max_retries
          MaxRestarts,   \* bound: restarts of the server
          MaxExpiries    \* bound: leases that run out under a live worker

ASSUME JobsAssumption ==
    /\ Windows \in Nat \ {0} /\ MaxRetries \in Nat
    /\ MaxRestarts \in Nat /\ MaxExpiries \in Nat

VARIABLES session,   \* the rows device_sessions and meetings
          jobs,      \* the rows offline_asr_jobs
          text,      \* the rows segments: by window, or of the whole
          work,      \* what each worker holds
          told,      \* the card has been told that the recording is complete
          scan,      \* the scan for unfinished meetings is still to come
          rushed,    \* the scan took a recording that was still arriving
          left       \* restarts and expiries left

vars == <<session, jobs, text, work, told, scan, rushed, left>>

Window == 1 .. Windows
CANONICAL == Windows + 1
PUBLISH == Windows + 2
Job == 1 .. PUBLISH          \* in the order of chunk_index
WHOLE == 0                   \* the text of the canonical run

Active == {"queued", "running"}
Idle == [job |-> 0, tries |-> 0, fits |-> FALSE, stage |-> "idle"]

TypeOK ==
    /\ session \in [status: {"uploading", "processing", "done", "failed", "cancelled"},
                    meeting: {"recording", "finalizing", "transcript_ready", "done", "none"},
                    covered: SUBSET Window]
    /\ jobs \in [Job -> [state: {"none", "queued", "running", "done", "failed", "cancelled"},
                         tries: 0 .. MaxRetries + 1]]
    /\ text \subseteq Window \union {WHOLE}
    /\ work \in [Workers -> [job: 0 .. PUBLISH, tries: 0 .. MaxRetries,
                             fits: BOOLEAN, stage: {"idle", "asked", "matching"}]]
    /\ told \in BOOLEAN /\ scan \in BOOLEAN /\ rushed \in BOOLEAN
    /\ left \in [restarts: 0 .. MaxRestarts, expiries: 0 .. MaxExpiries]

Init ==
    /\ session = [status |-> "uploading", meeting |-> "recording", covered |-> {}]
    /\ jobs = [j \in Job |-> [state |-> "none", tries |-> 0]]
    /\ text = {}
    /\ work = [w \in Workers |-> Idle]
    /\ told = FALSE /\ scan = FALSE /\ rushed = FALSE
    /\ left = [restarts |-> MaxRestarts, expiries |-> MaxExpiries]

-----------------------------------------------------------------------------
(* The queue. *)

(* INSERT OR IGNORE: a row that is there stays as it is.                   *)
Enqueue(rows, new) ==
    [j \in Job |-> IF j \in new /\ rows[j].state = "none"
                   THEN [state |-> "queued", tries |-> 0] ELSE rows[j]]

(* The windows whose audio is there; the short tail only behind the end.   *)
Ready(covered, sealed) == {i \in covered : sealed \/ i # Windows}

Sealed(rows) == Enqueue(rows, Ready(Window, TRUE) \union {CANONICAL, PUBLISH})

(* Wrong variant of Open: a window that runs is no longer waited for.      *)
OpenQueuedOnly(rows, among) == {j \in among : rows[j].state = "queued"}
Open(rows, among) == {j \in among : rows[j].state \in Active}

(* The barrier: the canonical run waits for the windows, publication for   *)
(* both.                                                                   *)
Claimable(rows) ==
    {j \in Job : /\ rows[j].state = "queued"
                 /\ j = CANONICAL => Open(rows, Window) = {}
                 /\ j = PUBLISH => Open(rows, Window \union {CANONICAL}) = {}}
First(rows) ==
    {j \in Claimable(rows) : \A k \in Claimable(rows) : k < j => rows[k].tries > 0}

(* A lease outlasts a window; it does not outlast the canonical run, whose *)
(* own timeout is as long.                                                 *)
Expirable == IF left.expiries > 0 THEN {j \in {CANONICAL} : jobs[j].state = "running"} ELSE {}

(* The end of a job, for the worker that holds it.                         *)
Free(w) == work' = [work EXCEPT ![w] = Idle]
Done(rows, j) ==
    IF rows[j].state = "running" THEN [rows EXCEPT ![j].state = "done"] ELSE rows

Retry(j, tries) == [jobs EXCEPT ![j] = [state |-> "queued", tries |-> tries]]
GiveUp(j, tries) ==
    [jobs EXCEPT ![j] = [state |-> "failed", tries |-> tries],
                 ![PUBLISH].state = IF @ = "queued" THEN "cancelled" ELSE @]
(* The session fails, and its meeting, if it is still there, is published. *)
FailedSession ==
    IF session.status \in {"done", "failed"} THEN session
    ELSE [session EXCEPT !.status = "failed", !.meeting = IF @ = "none" THEN @ ELSE "done"]

(* Wrong variant of Failed: it does not look whether the job was cancelled. *)
FailedBlind(j, tries) ==
    IF tries > MaxRetries
    THEN jobs' = GiveUp(j, tries) /\ session' = FailedSession
    ELSE jobs' = Retry(j, tries) /\ UNCHANGED session
(* A failed try: again later, or for good.                                 *)
Failed(j, tries) ==
    IF jobs[j].state = "cancelled" THEN UNCHANGED <<jobs, session>>
    ELSE IF tries > MaxRetries
    THEN jobs' = GiveUp(j, tries) /\ session' = FailedSession
    ELSE jobs' = Retry(j, tries) /\ UNCHANGED session

-----------------------------------------------------------------------------
(* The worker. *)

(* A window only fills what nothing lies over, in the text there is when it *)
(* is claimed: text that comes while the service works is not seen.        *)
Fitting(j) == j \in Window /\ text \intersect {j, WHOLE} = {}
Asked(j, tries) == [job |-> j, tries |-> tries, fits |-> Fitting(j), stage |-> "asked"]
Claim(w) ==
    /\ work[w] = Idle
    /\ \E late \in SUBSET Expirable :
          LET rows == [j \in Job |-> IF j \in late THEN [jobs[j] EXCEPT !.state = "queued"]
                                     ELSE jobs[j]]
          IN  \E j \in First(rows) \ {PUBLISH} :
                 /\ jobs' = [rows EXCEPT ![j].state = "running"]
                 /\ work' = [work EXCEPT ![w] = Asked(j, rows[j].tries)]
                 /\ left' = [left EXCEPT !.expiries = @ - Cardinality(late)]
    /\ UNCHANGED <<session, text, told, scan, rushed>>

(* The text of a window is there, and is written without a look whether    *)
(* the meeting still is.                                                   *)
Written(new) == text \union new
Applied(w) == text' = IF work[w].fits THEN Written({work[w].job}) ELSE text
Transcribed(w) ==
    /\ work[w].stage = "asked" /\ work[w].job \in Window
    /\ Applied(w)
    /\ jobs' = Done(jobs, work[w].job)
    /\ Free(w)
    /\ UNCHANGED <<session, told, scan, rushed, left>>

(* Everything there was is replaced in one transaction.                    *)
Replaced == {WHOLE}
Finalized(w) ==
    /\ work[w].stage = "asked" /\ work[w].job = CANONICAL /\ session.meeting # "none"
    /\ text' = Replaced
    /\ work' = [work EXCEPT ![w].stage = "matching"]
    /\ UNCHANGED <<session, jobs, told, scan, rushed, left>>
(* The speakers are matched with the people known.                         *)
Matched(w) ==
    /\ work[w].stage = "matching"
    /\ jobs' = Done(jobs, work[w].job)
    /\ Free(w)
    /\ UNCHANGED <<session, text, told, scan, rushed, left>>

(* The service fails, or there is no meeting for the whole.                *)
Fail(w) ==
    /\ work[w] # Idle
    /\ Failed(work[w].job, work[w].tries + 1)
    /\ Free(w)
    /\ UNCHANGED <<text, told, scan, rushed, left>>

Published(s) ==
    [s EXCEPT !.meeting = "transcript_ready",
              !.status = IF @ \in {"done", "failed"} THEN @ ELSE "done"]
(* Publication has no await: it is claimed, done and marked in one step,   *)
(* and only while there is a meeting, for its deletion cancels the job.    *)
Publish(w) ==
    /\ work[w] = Idle /\ PUBLISH \in First(jobs)
    /\ session' = Published(session)
    /\ jobs' = [jobs EXCEPT ![PUBLISH].state = "done"]
    /\ UNCHANGED <<text, work, told, scan, rushed, left>>

-----------------------------------------------------------------------------
(* The card and the user. *)

Received(i) ==
    /\ session.status = "uploading" /\ i \notin session.covered
    /\ session' = [session EXCEPT !.covered = @ \union {i}]
    /\ jobs' = Enqueue(jobs, Ready(session.covered \union {i}, FALSE))
    /\ UNCHANGED <<text, work, told, scan, rushed, left>>

(* The card asks about a recording the server no longer takes audio for: a *)
(* plan (refused when it failed), or the end behind the last range.        *)
AskAgain ==
    /\ \/ session.status \in {"processing", "done"}
       \/ session.status = "failed" /\ session.covered = Window
    /\ told' = TRUE
    /\ UNCHANGED <<session, jobs, text, work, scan, rushed, left>>

Cancelled(rows) ==
    [j \in Job |-> IF rows[j].state \in Active THEN [rows[j] EXCEPT !.state = "cancelled"]
                   ELSE rows[j]]
DeleteMeeting ==
    /\ session.meeting # "none"
    /\ session' = [session EXCEPT !.meeting = "none",
                      !.status = IF @ \in {"done", "failed"} THEN @ ELSE "cancelled"]
    /\ jobs' = Cancelled(jobs)
    /\ text' = {}
    /\ UNCHANGED <<work, told, scan, rushed, left>>

-----------------------------------------------------------------------------
(* A restart, and the end of the recording, which a restart can cut. *)

(* What ran is queued again, and what the session should have is queued.   *)
Requeued(rows) ==
    [j \in Job |-> IF rows[j].state = "running" THEN [rows[j] EXCEPT !.state = "queued"]
                   ELSE rows[j]]
(* Wrong variant of Rescheduled: a recording that was received is left.     *)
RescheduledArriving(rows, s) ==
    IF s.status = "uploading" THEN Enqueue(rows, Ready(s.covered, FALSE)) ELSE rows
Rescheduled(rows, s) ==
    CASE s.status = "uploading" -> Enqueue(rows, Ready(s.covered, FALSE))
      [] s.status = "processing" -> Sealed(rows)
      [] OTHER -> rows
Boot(s) ==
    /\ left.restarts > 0
    /\ left' = [left EXCEPT !.restarts = @ - 1]
    /\ work' = [w \in Workers |-> Idle]
    /\ jobs' = Rescheduled(Requeued(jobs), s)
    /\ scan' = TRUE
Restart == Boot(session) /\ UNCHANGED <<session, text, told, rushed>>

(* The end is committed first, then the jobs are queued; the server may    *)
(* stop in between, or the answer may be lost.                             *)
Complete ==
    /\ session.status = "uploading" /\ session.covered = Window
    /\ session' = [session EXCEPT !.status = "processing", !.meeting = "finalizing"]
    /\ \/ /\ jobs' = Sealed(jobs)
          /\ told' \in {told, TRUE}
          /\ UNCHANGED <<work, scan, left>>
       \/ Boot(session') /\ UNCHANGED told
    /\ UNCHANGED <<text, rushed>>

(* Some time after a restart every meeting that is not done and has been   *)
(* quiet for minutes is taken for unfinished: not one that has just ended, *)
(* but one whose recording still arrives.                                  *)
Unfinished(s) == s.meeting \notin {"none", "done"}
Recover ==
    /\ scan /\ scan' = FALSE
    /\ \/ /\ Unfinished(session)
          /\ jobs' = Enqueue(jobs, {PUBLISH})
          /\ session' = [session EXCEPT !.meeting = "finalizing"]
          /\ rushed' = (rushed \/ session.status = "uploading")
       \/ UNCHANGED <<jobs, session, rushed>>
    /\ UNCHANGED <<text, work, told, left>>

-----------------------------------------------------------------------------

Work(w) == Claim(w) \/ Transcribed(w) \/ Finalized(w) \/ Matched(w) \/ Fail(w) \/ Publish(w)
Next ==
    \/ \E w \in Workers : Work(w)
    \/ \E i \in Window : Received(i)
    \/ Complete \/ AskAgain \/ DeleteMeeting \/ Restart \/ Recover

Spec == Init /\ [][Next]_vars
(* The workers are always served, and a request to the service ends, with  *)
(* an answer or with its timeout.                                          *)
FairSpec == Spec /\ \A w \in Workers : WF_vars(Work(w))

-----------------------------------------------------------------------------
(* The barrier of the queue, over retries, restarts and leases that ran    *)
(* out: once the text of the whole recording is there, no window writes    *)
(* into it any more (offline_jobs.py:233-247).                             *)
WholeIsLast == [][(WHOLE \in text) => text' \in {text, {}}]_vars

(* A session that is reported done has the text of the whole, whatever     *)
(* failed, was tried again or was restarted on the way; except one that    *)
(* the scan after a restart published while it was still arriving          *)
(* (ws_gateway.py:581-601, DEPLOYMENT-V0.21.0.md:66-67).                   *)
DoneIsWhole ==
    session.status = "done" /\ session.meeting # "none" /\ ~rushed => text = {WHOLE}

(* A job that was cancelled is never queued again, by a late failure, by a *)
(* lease or by a restart (offline_jobs.py:262-267).                        *)
CancelledStays ==
    [][\A j \in Job : jobs[j].state = "cancelled" => jobs'[j].state = "cancelled"]_vars

(* A recording that was received ends: done, failed or deleted; no crash,  *)
(* give-up or lost lease leaves it in processing for ever                  *)
(* (main.py:172-178).                                                      *)
Settles == session.status = "processing" ~> session.status # "processing"

(* The card is told that a recording is complete, and removes its own copy, *)
(* only when the server has all of it (test_device_api_v1.py:168-173).     *)
Kept == told => session.covered = Window
=============================================================================
