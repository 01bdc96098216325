------------------------------ MODULE JobsProofs ------------------------------
(***************************************************************************)
(* For every number of windows, workers, retries, restarts and leases that *)
(* run out: the barrier of the queue and what a finished session holds.    *)
(***************************************************************************)
EXTENDS Jobs, FiniteSetTheorems, TLAPS

-----------------------------------------------------------------------------
(* The inductive invariant.                                                *)

Canonical == jobs[CANONICAL].state
Publication == jobs[PUBLISH].state
Ended == {"done", "failed", "cancelled"}

(* What waits or runs can still be tried; publication never runs.          *)
Tries ==
  /\ \A j \in Job : jobs[j].state \in Active => jobs[j].tries <= MaxRetries
  /\ Publication # "running"

(* What a worker holds.  A window is held by one worker only, for its lease *)
(* cannot run out; it runs, or it was cancelled with the whole meeting.    *)
Held ==
  \A w \in Workers :
     /\ work[w] # Idle => work[w].job \in Window \union {CANONICAL}
     /\ work[w].job \in Window => work[w].stage = "asked"
     /\ work[w].job = CANONICAL => Canonical # "none"
     /\ work[w].job \in Window =>
           /\ \A v \in Workers : work[v].job = work[w].job => v = w
           /\ \/ jobs[work[w].job].state = "running"
              \/ /\ jobs[work[w].job].state = "cancelled"
                 /\ Canonical \in {"none", "cancelled"}
                 /\ session.status # "uploading"

(* The canonical run is queued behind all windows, with the publication.   *)
Queued ==
  /\ Canonical # "none" => \A i \in Window : jobs[i].state # "none"
  /\ session.status = "uploading" => Canonical = "none"
  /\ session.status = "processing" => Canonical # "none" /\ Publication # "none"

(* Once the canonical run has begun the windows are over, for good: this   *)
(* survives its failures, and the meeting's deletion.                      *)
Over ==
  /\ \A i \in Window : jobs[i].state \in Ended
  /\ \A w \in Workers : work[w].job \notin Window
Begun ==
  \/ Canonical \in {"running", "done", "failed"}
  \/ \E w \in Workers : work[w].job = CANONICAL
  \/ WHOLE \in text
Barrier ==
  /\ Begun => Over
  /\ WHOLE \in text => text = {WHOLE}

(* While the publication waits the canonical run is still to come or has   *)
(* left the text of the whole, and nothing has deleted the meeting.        *)
Awaited ==
  /\ Publication = "queued" =>
        /\ session.status \notin {"failed", "cancelled"}
        /\ ~rushed =>
             /\ Canonical \in {"queued", "running", "done"}
             /\ Canonical = "done" => text = {WHOLE}
             /\ \A w \in Workers : work[w].stage = "matching" => text = {WHOLE}
  /\ session.status = "done" => Publication # "none"
  /\ session.status \in {"failed", "cancelled"} => session.meeting \in {"done", "none"}

IInv ==
  /\ TypeOK /\ Tries /\ Held /\ Queued /\ Barrier /\ Awaited
  /\ DoneIsWhole

(* What every step does, besides keeping it.                               *)
Stays ==
  \A k \in Job : jobs[k].state = "cancelled" => jobs'[k].state = "cancelled"

-----------------------------------------------------------------------------
(* Numbers. *)

LEMMA Places ==
  /\ Windows \in Nat \ {0}
  /\ Window \subseteq Job /\ CANONICAL \in Job /\ PUBLISH \in Job
  /\ CANONICAL \notin Window /\ PUBLISH \notin Window /\ PUBLISH # CANONICAL
  /\ WHOLE = 0 /\ 0 \notin Job /\ 0 \notin Window /\ CANONICAL # 0 /\ Job = Window \union {CANONICAL, PUBLISH}
  /\ CANONICAL > 0 /\ PUBLISH > 0
BY JobsAssumption DEF Window, CANONICAL, PUBLISH, Job, WHOLE

(* The rows, and what the operators of the queue make of them.             *)
State == {"none", "queued", "running", "done", "failed", "cancelled"}
Row == [state: State, tries: 0 .. MaxRetries + 1]
Rows == [Job -> Row]

LEMMA EnqueuedRows ==
  ASSUME NEW f \in Rows, NEW New
  PROVE  /\ Enqueue(f, New) \in Rows
         /\ \A k \in Job : IF k \in New /\ f[k].state = "none"
                           THEN Enqueue(f, New)[k] = [state |-> "queued", tries |-> 0]
                           ELSE Enqueue(f, New)[k] = f[k]
BY JobsAssumption DEF Enqueue, Rows, Row, State

LEMMA Typed == TypeOK => jobs \in Rows
BY DEF TypeOK, Rows, Row, State

LEMMA DoneRows ==
  ASSUME NEW f \in Rows, NEW j \in Job
  PROVE  /\ Done(f, j) \in Rows
         /\ \A k \in Job :
              /\ Done(f, j)[k].tries = f[k].tries
              /\ Done(f, j)[k].state =
                   IF k = j /\ f[k].state = "running" THEN "done" ELSE f[k].state
<1>1. f[j] \in Row BY DEF Rows
<1>2. [f[j] EXCEPT !.state = "done"] \in Row BY <1>1 DEF Row, State
<1> QED BY <1>1, <1>2 DEF Done, Rows, Row, State

(* What one worker takes or lays down.                                     *)
Hold == [job: 0 .. PUBLISH, tries: 0 .. MaxRetries,
         fits: BOOLEAN, stage: {"idle", "asked", "matching"}]
LEMMA OneWorker ==
  ASSUME TypeOK, NEW w \in Workers, NEW h \in Hold, work' = [work EXCEPT ![w] = h]
  PROVE  /\ work' \in [Workers -> Hold]
         /\ \A v \in Workers : work'[v] = IF v = w THEN h ELSE work[v]
BY DEF TypeOK, Hold
LEMMA IdleHolds == Idle \in Hold /\ Idle.job = 0 /\ Idle.stage = "idle"
BY Places, JobsAssumption DEF Idle, Hold, PUBLISH

LEMMA InitInv == Init => IInv
<1> SUFFICES ASSUME Init PROVE IInv OBVIOUS
<1>1. TypeOK
  <2>1. work \in [Workers -> Hold] BY IdleHolds DEF Init
  <2>2. jobs \in Rows BY JobsAssumption DEF Init, Rows, Row, State
  <2>3. /\ session \in [status: {"uploading", "processing", "done", "failed", "cancelled"},
                          meeting: {"recording", "finalizing", "transcript_ready", "done", "none"},
                          covered: SUBSET Window]
        /\ left \in [restarts: 0 .. MaxRestarts, expiries: 0 .. MaxExpiries]
        /\ text = {} /\ told \in BOOLEAN /\ scan \in BOOLEAN /\ rushed \in BOOLEAN
    <3>1. left \in [restarts: 0 .. MaxRestarts, expiries: 0 .. MaxExpiries]
      BY JobsAssumption DEF Init
    <3> QED BY <3>1 DEF Init
  <2> QED BY <2>1, <2>2, <2>3 DEF TypeOK, Hold, Rows, Row, State
<1>2. Tries /\ Queued /\ Barrier /\ Awaited /\ DoneIsWhole
  BY Places, IdleHolds DEF Init, Tries, Queued, Barrier, Begun, Awaited,
     DoneIsWhole, Canonical, Publication, Active
<1>3. Held BY Places, IdleHolds DEF Init, Held, Window
<1> QED BY <1>1, <1>2, <1>3 DEF IInv

LEMMA TranscribedInv == ASSUME IInv, NEW w \in Workers, Transcribed(w) PROVE IInv' /\ Stays
<1> USE DEF IInv
<1> DEFINE j == work[w].job
<1>0. /\ jobs \in Rows /\ j \in Window /\ text' \in {text, text \union {j}}
      /\ work' = [work EXCEPT ![w] = Idle]
      /\ jobs' = Done(jobs, j)
      /\ UNCHANGED <<session, told, scan, rushed, left>>
      BY Typed DEF Transcribed, Applied, Written, Free
<1>1. /\ jobs' \in Rows 
      /\ \A k \in Job :
              /\ jobs'[k].tries = jobs[k].tries
              /\ jobs'[k].state =
                   IF k = j /\ jobs[k].state = "running" THEN "done" ELSE jobs[k].state
  BY <1>0, DoneRows, Places
<1>w. /\ work' \in [Workers -> Hold]
      /\ \A v \in Workers : work'[v] = IF v = w THEN Idle ELSE work[v]
  BY <1>0, OneWorker, IdleHolds
<1> HIDE DEF j
<1>11. TypeOK' BY <1>0, <1>1, <1>w DEF TypeOK, Rows, Row, State, Hold
<1>2. Tries' BY <1>0, <1>1, Places DEF Tries, Active, Publication
<1>3. Held'
  <2>1. ASSUME NEW v \in Workers, work'[v] # Idle
        PROVE  /\ v # w /\ work'[v] = work[v]
               /\ work[v].job # j /\ work[v].job \in Window \union {CANONICAL}
               /\ jobs'[work[v].job].state = jobs[work[v].job].state
    BY <2>1, <1>0, <1>1, <1>w, Places DEF Held, j
  <2>2. jobs'[CANONICAL].state = jobs[CANONICAL].state BY <1>0, <1>1, Places
  <2>3. \A v \in Workers : work'[v] = Idle => work'[v].job = 0 BY IdleHolds
  <2> QED BY <2>1, <2>2, <2>3, <1>0, Places DEF Held, Canonical
<1>4. Queued' BY <1>0, <1>1, Places DEF Queued, Canonical, Publication
<1>5. Barrier' BY <1>0, <1>1, <1>w, Places, IdleHolds DEF Barrier, Begun, Over, Canonical, Ended, Held, j
<1>6. Awaited' BY <1>0, <1>1, <1>w, Places, IdleHolds DEF Awaited, Canonical, Publication, Begun, Over, Barrier, j
<1>7. DoneIsWhole' BY <1>0, <1>1, <1>w, Places, IdleHolds DEF DoneIsWhole, Begun, Over, Barrier, j
<1>20. Stays BY <1>1 DEF Stays
<1> QED BY <1>20, <1>11, <1>2, <1>3, <1>4, <1>5, <1>6, <1>7

LEMMA FinalizedInv == ASSUME IInv, NEW w \in Workers, Finalized(w) PROVE IInv' /\ Stays
<1> USE DEF IInv
<1> DEFINE h == [work[w] EXCEPT !.stage = "matching"]
<1>0. /\ text' = {WHOLE} /\ work[w].job = CANONICAL /\ work[w].stage = "asked"
      /\ UNCHANGED <<session, jobs, told, scan, rushed, left>>
  BY DEF Finalized, Replaced
<1>1. h \in Hold /\ h.job = CANONICAL /\ h.stage = "matching"
  BY <1>0 DEF TypeOK, Hold
<1>2. work' = [work EXCEPT ![w] = h] BY DEF Finalized, TypeOK
<1> HIDE DEF h
<1>3. /\ work' \in [Workers -> Hold]
      /\ \A v \in Workers : work'[v] = IF v = w THEN h ELSE work[v]
  BY <1>1, <1>2, OneWorker
<1>4. \A v \in Workers : work'[v].job = work[v].job
  BY <1>0, <1>1, <1>3
<1>11. TypeOK' BY <1>0, <1>3 DEF TypeOK, Hold
<1>12. Tries' /\ Queued' BY <1>0 DEF Tries, Queued, Canonical, Publication
<1>13. Held'
  <2>1. \A v \in Workers : work[v].job # CANONICAL => work'[v] = work[v]
    BY <1>0, <1>3
  <2>2. \A v \in Workers : work[v].job = 0 => work[v] = Idle
    BY Places DEF Held
  <2> QED BY <1>0, <1>4, <2>1, <2>2, Places, IdleHolds DEF Held, Canonical
<1>14. Barrier' BY <1>0, <1>4 DEF Barrier, Begun, Over, Canonical
<1>15. Awaited' BY <1>0 DEF Awaited, Canonical, Publication
<1>16. DoneIsWhole' BY <1>0 DEF DoneIsWhole
<1>20. Stays BY <1>0 DEF Stays
<1> QED BY <1>20, <1>11, <1>12, <1>13, <1>14, <1>15, <1>16

LEMMA MatchedInv == ASSUME IInv, NEW w \in Workers, Matched(w) PROVE IInv' /\ Stays
<1> USE DEF IInv
<1>0. /\ jobs \in Rows /\ work[w].job = CANONICAL /\ work[w].stage = "matching"
      /\ work' = [work EXCEPT ![w] = Idle]
      /\ jobs' = Done(jobs, CANONICAL)
      /\ UNCHANGED <<session, text, told, scan, rushed, left>>
  BY Typed, Places, IdleHolds DEF Matched, Free, Held
<1>1. /\ jobs' \in Rows
      /\ \A k \in Job :
              /\ jobs'[k].tries = jobs[k].tries
              /\ jobs'[k].state =
                   IF k = CANONICAL /\ jobs[k].state = "running" THEN "done" ELSE jobs[k].state
  BY <1>0, DoneRows, Places
<1>2. /\ work' \in [Workers -> Hold]
      /\ \A v \in Workers : work'[v] = IF v = w THEN Idle ELSE work[v]
  BY <1>0, OneWorker, IdleHolds
<1>3. Over BY <1>0 DEF Barrier, Begun
<1>11. TypeOK' BY <1>0, <1>1, <1>2 DEF TypeOK, Rows, Row, State, Hold
<1>12. Tries' BY <1>0, <1>1, Places DEF Tries, Active, Publication
<1>13. Held'
  <2>1. \A v \in Workers : work'[v] = Idle => work'[v].job = 0 BY IdleHolds
  <2> QED BY <2>1, <1>0, <1>1, <1>2, <1>3, Places DEF Held, Canonical, Over
<1>14. Queued' BY <1>0, <1>1, Places DEF Queued, Canonical, Publication
<1>15. Barrier' BY <1>0, <1>1, <1>2, <1>3, Places, IdleHolds DEF Barrier, Begun, Over, Canonical, Ended
<1>16. Awaited' BY <1>0, <1>1, <1>2, Places, IdleHolds DEF Awaited, Canonical, Publication
<1>17. DoneIsWhole' BY <1>0 DEF DoneIsWhole
<1>20. Stays BY <1>1 DEF Stays
<1> QED BY <1>20, <1>11, <1>12, <1>13, <1>14, <1>15, <1>16, <1>17

(* A failed try puts the job back or ends it; with the last try of a job   *)
(* the publication goes as well.                                           *)
LEMMA FailInv == ASSUME IInv, NEW w \in Workers, Fail(w) PROVE IInv' /\ Stays
<1> USE DEF IInv
<1> DEFINE j == work[w].job
           n == work[w].tries + 1
<1>0. /\ jobs \in Rows /\ j \in Window \union {CANONICAL} /\ j \in Job
      /\ n \in 0 .. MaxRetries + 1
      /\ work' = [work EXCEPT ![w] = Idle]
      /\ Failed(j, n)
      /\ UNCHANGED <<text, told, scan, rushed, left>>
  BY Typed, Places, JobsAssumption DEF Fail, Free, Held, TypeOK
<1>2. /\ work' \in [Workers -> Hold]
      /\ \A v \in Workers : work'[v] = IF v = w THEN Idle ELSE work[v]
  BY <1>0, OneWorker, IdleHolds
<1>3. \A v \in Workers : work'[v] = Idle => work'[v].job = 0 BY IdleHolds
<1>4. j = CANONICAL => Over BY <1>0 DEF Barrier, Begun
<1>5. \A v \in Workers : v # w /\ work[v].job \in Window => work[v].job # j
  BY DEF Held
<1> HIDE DEF n
<1>a. CASE UNCHANGED <<jobs, session>> /\ jobs[j].state = "cancelled"
  <2> HIDE DEF j
  <2>11. TypeOK' BY <1>a, <1>0, <1>2 DEF TypeOK, Hold
  <2>12. Tries' /\ Queued' BY <1>a DEF Tries, Queued, Canonical, Publication
  <2>13. Held' BY <1>a, <1>2, <1>3, Places DEF Held, Canonical
  <2>14. Barrier' BY <1>a, <1>0, <1>2, <1>3, Places DEF Barrier, Begun, Over, Canonical
  <2>15. Awaited' BY <1>a, <1>0, <1>2, IdleHolds DEF Awaited, Canonical, Publication
  <2>16. DoneIsWhole' BY <1>a, <1>0 DEF DoneIsWhole
  <2>20. Stays BY <1>a DEF Stays
  <2> QED BY <2>20, <2>11, <2>12, <2>13, <2>14, <2>15, <2>16
<1>b. CASE jobs' = Retry(j, n) /\ UNCHANGED session /\ n <= MaxRetries /\ jobs[j].state # "cancelled"
  <2>1. /\ jobs' \in Rows
        /\ jobs'[j] = [state |-> "queued", tries |-> n]
        /\ \A k \in Job \ {j} : jobs'[k] = jobs[k]
    BY <1>b, <1>0 DEF Retry, Rows, Row, State
  <2> HIDE DEF j
  <2>11. TypeOK' BY <1>b, <1>0, <1>2, <2>1 DEF TypeOK, Hold, Rows, Row, State
  <2>12. Tries' BY <1>b, <1>0, <2>1, Places DEF Tries, Active, Publication
  <2>13. Held' BY <1>b, <1>0, <1>2, <1>3, <1>4, <1>5, <2>1, Places DEF Held, Canonical, Over
  <2>14. Queued' BY <1>b, <1>0, <2>1, Places DEF Queued, Canonical, Publication, Held, j
  <2>15. Barrier'
    <3>1. CASE j \in Window
      <4>1. ~Begun BY <3>1 DEF Barrier, Over, j
      <4> QED BY <3>1, <4>1, <1>0, <1>2, <1>3, <2>1, Places DEF Barrier, Begun, Canonical
    <3>2. CASE j = CANONICAL
      BY <3>2, <1>0, <1>2, <1>3, <1>4, <2>1, Places DEF Barrier, Over, Ended
    <3> QED BY <3>1, <3>2, <1>0
  <2>16. Awaited' BY <1>b, <1>0, <1>2, <2>1, Places, IdleHolds DEF Awaited, Canonical, Publication
  <2>17. DoneIsWhole' BY <1>b, <1>0 DEF DoneIsWhole
  <2>20. Stays BY <1>b, <2>1 DEF Stays
  <2> QED BY <2>20, <2>11, <2>12, <2>13, <2>14, <2>15, <2>16, <2>17
<1>c. CASE jobs' = GiveUp(j, n) /\ session' = FailedSession /\ jobs[j].state # "cancelled"
  <2>1. /\ jobs' \in Rows
        /\ jobs'[j].state = "failed"
        /\ jobs'[PUBLISH].state = IF jobs[PUBLISH].state = "queued" THEN "cancelled"
                                  ELSE jobs[PUBLISH].state
        /\ jobs'[PUBLISH].tries = jobs[PUBLISH].tries
        /\ \A k \in Job \ {j, PUBLISH} : jobs'[k] = jobs[k]
    <3>1. jobs[PUBLISH] \in Row BY <1>0, Places DEF Rows
    <3>2. \A x \in State : [jobs[PUBLISH] EXCEPT !.state = x] \in Row
      BY <3>1 DEF Row
    <3> QED BY <1>c, <1>0, <3>1, <3>2, Places DEF GiveUp, Rows, Row, State
  <2>2. /\ session' \in [status: {"uploading", "processing", "done", "failed", "cancelled"},
                         meeting: {"recording", "finalizing", "transcript_ready", "done", "none"},
                         covered: SUBSET Window]
        /\ session'.status = IF session.status = "done" THEN "done" ELSE "failed"
        /\ session.status \in {"done", "failed"} => session' = session
        /\ session.status \notin {"done", "failed"} => session'.meeting \in {"done", "none"}
    BY <1>c DEF FailedSession, TypeOK
  <2> HIDE DEF j
  <2>11. TypeOK' BY <1>0, <1>2, <2>1, <2>2 DEF TypeOK, Hold, Rows, Row, State
  <2>12. Tries' BY <1>0, <2>1, Places DEF Tries, Active, Publication
  <2>13. Held' BY <1>0, <1>2, <1>3, <1>4, <1>5, <2>1, <2>2, Places DEF Held, Canonical, Over
  <2>14. Queued' BY <1>0, <2>1, <2>2, Places DEF Queued, Canonical, Publication, Held, j
  <2>15. Barrier'
    <3>1. CASE j \in Window
      <4>1. ~Begun BY <3>1 DEF Barrier, Over, j
      <4> QED BY <3>1, <4>1, <1>0, <1>2, <1>3, <2>1, Places DEF Barrier, Begun, Canonical
    <3>2. CASE j = CANONICAL
      BY <3>2, <1>0, <1>2, <1>3, <1>4, <2>1, Places DEF Barrier, Over, Ended
    <3> QED BY <3>1, <3>2, <1>0
  <2>16. Awaited' BY <1>0, <1>2, <2>1, <2>2, Places DEF Awaited, Canonical, Publication
  <2>17. DoneIsWhole' BY <1>0, <2>2 DEF DoneIsWhole
  <2>20. Stays BY <1>c, <2>1, Places DEF Stays
  <2> QED BY <2>20, <2>11, <2>12, <2>13, <2>14, <2>15, <2>16, <2>17
<1> QED BY <1>0, <1>a, <1>b, <1>c, JobsAssumption DEF Failed

LEMMA ReceivedInv == ASSUME IInv, NEW i \in Window, Received(i) PROVE IInv' /\ Stays
<1> USE DEF IInv
<1> DEFINE New == Ready(session.covered \union {i}, FALSE)
<1>0. /\ jobs \in Rows /\ session.status = "uploading" /\ jobs' = Enqueue(jobs, New)
      /\ session'.status = "uploading" /\ session'.meeting = session.meeting
      /\ session' \in [status: {"uploading", "processing", "done", "failed", "cancelled"},
                         meeting: {"recording", "finalizing", "transcript_ready", "done", "none"},
                         covered: SUBSET Window]
      /\ New \subseteq Window
      /\ UNCHANGED <<text, work, told, scan, rushed, left>>
  BY Typed DEF Received, TypeOK, Ready
<1> HIDE DEF New
<1>1. /\ jobs' \in Rows
      /\ \A k \in Job : IF k \in New /\ jobs[k].state = "none"
                        THEN jobs'[k] = [state |-> "queued", tries |-> 0]
                        ELSE jobs'[k] = jobs[k]
  BY <1>0, EnqueuedRows
<1>2. /\ jobs'[CANONICAL] = jobs[CANONICAL] /\ jobs'[PUBLISH] = jobs[PUBLISH]
      /\ Canonical = "none"
  BY <1>0, <1>1, Places DEF Queued
<1>11. TypeOK' BY <1>0, <1>1 DEF TypeOK, Rows, Row, State
<1>12. Tries' BY <1>0, <1>1, <1>2, JobsAssumption DEF Tries, Active, Publication
<1>13. Held' BY <1>0, <1>1, <1>2, Places DEF Held, Canonical
<1>14. Queued' BY <1>0, <1>1, <1>2, Places DEF Queued, Canonical, Publication
<1>15. Barrier' BY <1>0, <1>1, <1>2, Places DEF Barrier, Begun, Over, Canonical, Ended
<1>16. Awaited' BY <1>0, <1>2 DEF Awaited, Canonical, Publication
<1>17. DoneIsWhole' BY <1>0 DEF DoneIsWhole
<1>20. Stays BY <1>1 DEF Stays
<1> QED BY <1>20, <1>11, <1>12, <1>13, <1>14, <1>15, <1>16, <1>17

(* Publication waits for all: what it finds is the text of the whole.      *)
LEMMA PublishInv == ASSUME IInv, NEW w \in Workers, Publish(w) PROVE IInv' /\ Stays
<1> USE DEF IInv
<1>0. /\ jobs \in Rows /\ Publication = "queued"
      /\ Canonical \notin Active
      /\ session' = Published(session)
      /\ jobs' = [jobs EXCEPT ![PUBLISH].state = "done"]
      /\ UNCHANGED <<text, work, told, scan, rushed, left>>
  <2>1. PUBLISH \in Claimable(jobs) BY DEF Publish, First
  <2>2. Publication = "queued" /\ Open(jobs, Window \union {CANONICAL}) = {}
    BY <2>1 DEF Claimable, Publication
  <2>3. Canonical \notin Active BY <2>2 DEF Open, Canonical
  <2>4. jobs \in Rows BY Typed
  <2>5. /\ session' = Published(session)
        /\ jobs' = [jobs EXCEPT ![PUBLISH].state = "done"]
        /\ UNCHANGED <<text, work, told, scan, rushed, left>>
    BY Zenon DEF Publish
  <2> QED BY <2>2, <2>3, <2>4, <2>5, Zenon
<1>1. /\ jobs' \in Rows
      /\ \A k \in Job : /\ jobs'[k].tries = jobs[k].tries
                        /\ jobs'[k].state = IF k = PUBLISH THEN "done" ELSE jobs[k].state
  <2>1. jobs[PUBLISH] \in Row BY <1>0, Places DEF Rows
  <2>2. [jobs[PUBLISH] EXCEPT !.state = "done"] \in Row BY <2>1 DEF Row, State
  <2> QED BY <1>0, <2>1, <2>2, Places DEF Rows, Row, State
<1>2. /\ session' \in [status: {"uploading", "processing", "done", "failed", "cancelled"},
                       meeting: {"recording", "finalizing", "transcript_ready", "done", "none"},
                       covered: SUBSET Window]
      /\ session'.status = "done"
  BY <1>0 DEF TypeOK, Published, Awaited
<1>3. ~rushed => text = {WHOLE} BY <1>0 DEF Awaited, Active
<1>11. TypeOK' BY <1>0, <1>1, <1>2 DEF TypeOK, Rows, Row, State
<1>12. Tries' BY <1>0, <1>1, Places DEF Tries, Active, Publication
<1>13. Held' BY <1>0, <1>1, <1>2, Places DEF Held, Canonical
<1>14. Queued' BY <1>0, <1>1, <1>2, Places DEF Queued, Canonical, Publication
<1>15. Barrier' BY <1>0, <1>1, Places DEF Barrier, Begun, Over, Canonical, Ended
<1>16. Awaited' BY <1>0, <1>1, <1>2, Places DEF Awaited, Canonical, Publication
<1>17. DoneIsWhole' BY <1>0, <1>3 DEF DoneIsWhole
<1>20. Stays BY <1>0, <1>1 DEF Stays, Publication
<1> QED BY <1>20, <1>11, <1>12, <1>13, <1>14, <1>15, <1>16, <1>17

LEMMA AskAgainInv == ASSUME IInv, AskAgain PROVE IInv' /\ Stays
<1>1. /\ told' = TRUE /\ UNCHANGED <<session, jobs, text, work, scan, rushed, left>>
  BY DEF AskAgain
<1> QED BY <1>1 DEF IInv, TypeOK, Tries, Held, Queued, Barrier, Begun, Over, Awaited,
        DoneIsWhole, Canonical, Publication, Stays

(* With the meeting go all jobs that wait or run: a window that runs on    *)
(* shows that the canonical run had not begun.                             *)
LEMMA DeleteMeetingInv == ASSUME IInv, DeleteMeeting PROVE IInv' /\ Stays
<1> USE DEF IInv
<1>0. /\ jobs \in Rows /\ jobs' = Cancelled(jobs) /\ text' = {}
      /\ UNCHANGED <<work, told, scan, rushed, left>>
  BY Typed DEF DeleteMeeting
<1>1. /\ jobs' \in Rows
      /\ \A k \in Job : /\ jobs'[k].tries = jobs[k].tries
                        /\ jobs'[k].state = IF jobs[k].state \in Active THEN "cancelled"
                                            ELSE jobs[k].state
  <2>1. ASSUME NEW k \in Job
        PROVE  /\ [jobs[k] EXCEPT !.state = "cancelled"] \in Row
               /\ [jobs[k] EXCEPT !.state = "cancelled"].state = "cancelled"
               /\ [jobs[k] EXCEPT !.state = "cancelled"].tries = jobs[k].tries
    <3>1. jobs[k] \in Row BY <1>0 DEF Rows
    <3> QED BY <3>1 DEF Row, State
  <2> QED BY <1>0, <2>1 DEF Cancelled, Rows
<1>2. /\ session' \in [status: {"uploading", "processing", "done", "failed", "cancelled"},
                       meeting: {"recording", "finalizing", "transcript_ready", "done", "none"},
                       covered: SUBSET Window]
      /\ session'.meeting = "none"
      /\ session'.status = IF session.status \in {"done", "failed"} THEN session.status
                           ELSE "cancelled"
  BY DEF DeleteMeeting, TypeOK
<1>11. TypeOK' BY <1>0, <1>1, <1>2 DEF TypeOK, Rows, Row, State
<1>12. Tries' BY <1>0, <1>1, Places DEF Tries, Active, Publication
<1>13. Held'
  <2>1. ASSUME NEW v \in Workers, work[v].job \in Window
        PROVE  Canonical \notin {"running", "done", "failed"}
    BY <2>1 DEF Barrier, Begun, Over
  <2>2. Canonical \in State BY <1>0, Places DEF Rows, Row, Canonical
  <2> QED BY <1>0, <1>1, <1>2, <2>1, <2>2, Places DEF Held, Canonical, Active, State
<1>14. Queued' BY <1>0, <1>1, <1>2, Places DEF Queued, Canonical, Publication, Active
<1>15. Barrier' BY <1>0, <1>1, Places DEF Barrier, Begun, Over, Canonical, Ended, Active
<1>16. Awaited' BY <1>0, <1>1, <1>2, Places DEF Awaited, Canonical, Publication, Active
<1>17. DoneIsWhole' BY <1>0, <1>2 DEF DoneIsWhole
<1>20. Stays BY <1>1 DEF Stays, Active
<1> QED BY <1>20, <1>11, <1>12, <1>13, <1>14, <1>15, <1>16, <1>17

LEMMA RecoverInv == ASSUME IInv, Recover PROVE IInv' /\ Stays
<1> USE DEF IInv
<1>0. /\ jobs \in Rows /\ scan' \in BOOLEAN
      /\ UNCHANGED <<text, work, told, left>>
  BY Typed DEF Recover
<1>a. CASE UNCHANGED <<jobs, session, rushed>>
  BY <1>0, <1>a DEF TypeOK, Tries, Held, Queued, Barrier, Begun, Over, Awaited,
     DoneIsWhole, Canonical, Publication, Stays
<1>b. CASE /\ Unfinished(session)
           /\ jobs' = Enqueue(jobs, {PUBLISH})
           /\ session' = [session EXCEPT !.meeting = "finalizing"]
           /\ rushed' = (rushed \/ session.status = "uploading")
  <2>1. /\ jobs' \in Rows
        /\ \A k \in Job : IF k \in {PUBLISH} /\ jobs[k].state = "none"
                          THEN jobs'[k] = [state |-> "queued", tries |-> 0]
                          ELSE jobs'[k] = jobs[k]
    BY <1>0, <1>b, EnqueuedRows
  <2>2. /\ session' \in [status: {"uploading", "processing", "done", "failed", "cancelled"},
                         meeting: {"recording", "finalizing", "transcript_ready", "done", "none"},
                         covered: SUBSET Window]
        /\ session'.status = session.status
        /\ session.meeting \notin {"none", "done"}
        /\ rushed' \in BOOLEAN
    BY <1>b DEF TypeOK, Unfinished
  <2>3. \A k \in Job \ {PUBLISH} : jobs'[k] = jobs[k] BY <2>1
  <2>4. session.status \notin {"failed", "cancelled"} BY <2>2 DEF Awaited
  <2>5. Publication = "none" => session.status = "uploading"
    BY <2>2, <2>4 DEF Awaited, Queued, TypeOK
  <2>11. TypeOK' BY <1>0, <2>1, <2>2 DEF TypeOK, Rows, Row, State
  <2>12. Tries' BY <1>0, <2>1, JobsAssumption, Places DEF Tries, Active, Publication
  <2>13. Held' BY <1>0, <2>2, <2>3, Places DEF Held, Canonical
  <2>14. Queued' BY <1>0, <2>1, <2>2, <2>3, Places DEF Queued, Canonical, Publication
  <2>15. Barrier' BY <1>0, <2>3, Places DEF Barrier, Begun, Over, Canonical
  <2>16. Awaited' BY <1>0, <1>b, <2>1, <2>2, <2>3, <2>4, <2>5, Places DEF Awaited, Canonical, Publication
  <2>17. DoneIsWhole' BY <1>0, <1>b, <2>2 DEF DoneIsWhole
  <2>20. Stays BY <2>1 DEF Stays
  <2> QED BY <2>20, <2>11, <2>12, <2>13, <2>14, <2>15, <2>16, <2>17
<1> QED BY <1>a, <1>b DEF Recover

(* A claim, with the lease of the canonical run out or not.  The canonical *)
(* run is claimed when the windows are over; a window is claimed before.   *)
LEMMA ClaimInv == ASSUME IInv, NEW w \in Workers, Claim(w) PROVE IInv' /\ Stays
<1> USE DEF IInv
<1>1. PICK late \in SUBSET Expirable, j \in Job :
        LET rows == [k \in Job |-> IF k \in late THEN [jobs[k] EXCEPT !.state = "queued"]
                                   ELSE jobs[k]]
        IN  /\ j \in First(rows) \ {PUBLISH}
            /\ jobs' = [rows EXCEPT ![j].state = "running"]
            /\ work' = [work EXCEPT ![w] = Asked(j, rows[j].tries)]
            /\ left' = [left EXCEPT !.expiries = @ - Cardinality(late)]
  BY DEF Claim, First, Claimable
<1>2. work[w] = Idle /\ UNCHANGED <<session, text, told, scan, rushed>>
  BY DEF Claim
<1> DEFINE rows == [k \in Job |-> IF k \in late THEN [jobs[k] EXCEPT !.state = "queued"]
                                  ELSE jobs[k]]
           h == Asked(j, rows[j].tries)
<1>3. /\ \A k \in late : k = CANONICAL /\ jobs[k].state = "running"
      /\ left' \in [restarts: 0 .. MaxRestarts, expiries: 0 .. MaxExpiries]
  <2>1. CASE late = {}
    <3>1. Cardinality(late) = 0 BY <2>1, FS_EmptySet
    <3> QED BY <3>1, <2>1, <1>1 DEF TypeOK
  <2>2. CASE late # {}
    <3>1. late = {CANONICAL} /\ jobs[CANONICAL].state = "running" /\ left.expiries > 0
      BY <2>2 DEF Expirable
    <3>2. Cardinality(late) = 1 BY <3>1, FS_Singleton
    <3>3. left' = [left EXCEPT !.expiries = left.expiries - 1] BY <1>1, <3>2
    <3> QED BY <3>1, <3>3, JobsAssumption DEF TypeOK
  <2> QED BY <2>1, <2>2
<1>4. /\ rows \in Rows
      /\ \A k \in Job : /\ rows[k].tries = jobs[k].tries
                        /\ rows[k].state = IF k \in late THEN "queued" ELSE jobs[k].state
  <2>0. jobs \in Rows BY Typed
  <2>1. ASSUME NEW k \in Job
        PROVE  /\ [jobs[k] EXCEPT !.state = "queued"] \in Row
               /\ [jobs[k] EXCEPT !.state = "queued"].state = "queued"
               /\ [jobs[k] EXCEPT !.state = "queued"].tries = jobs[k].tries
    <3>1. jobs[k] \in Row BY <2>0 DEF Rows
    <3> QED BY <3>1 DEF Row, State
  <2> QED BY <2>0, <2>1 DEF Rows
<1>5. /\ j \in Claimable(rows) /\ j # PUBLISH
      /\ jobs' = [rows EXCEPT ![j].state = "running"]
      /\ work' = [work EXCEPT ![w] = h]
  BY <1>1 DEF First
<1> HIDE DEF rows
<1>6. /\ rows[j].state = "queued"
      /\ j = CANONICAL => \A i \in Window : rows[i].state \notin Active
  BY <1>5, Places DEF Claimable, Open
<1>7. /\ jobs' \in Rows
      /\ \A k \in Job : /\ jobs'[k].tries = rows[k].tries
                        /\ jobs'[k].state = IF k = j THEN "running" ELSE rows[k].state
  <2>1. rows[j] \in Row BY <1>4 DEF Rows
  <2>2. [rows[j] EXCEPT !.state = "running"] \in Row BY <2>1 DEF Row, State
  <2> QED BY <1>4, <1>5, <2>1, <2>2 DEF Rows, Row, State
<1>8. jobs[j].tries <= MaxRetries /\ rows[j].tries = jobs[j].tries
  BY <1>3, <1>4, <1>6 DEF Tries, Active
<1>9. h \in Hold /\ h.job = j /\ h.stage = "asked"
  <2>1. rows[j].tries \in 0 .. MaxRetries
    BY <1>4, <1>8, JobsAssumption DEF Rows, Row
  <2>2. j \in 0 .. PUBLISH BY Places, JobsAssumption DEF Job, PUBLISH
  <2> QED BY <2>1, <2>2 DEF Asked, Hold, Fitting
<1> HIDE DEF h
<1>10. /\ work' \in [Workers -> Hold]
       /\ \A v \in Workers : work'[v] = IF v = w THEN h ELSE work[v]
  BY <1>5, <1>9, OneWorker
<1>11. TypeOK' BY <1>2, <1>3, <1>7, <1>10 DEF TypeOK, Rows, Row, State, Hold
<1>12. \A k \in Job \ {CANONICAL, j} :
         jobs'[k].state = jobs[k].state /\ jobs'[k].tries = jobs[k].tries
  BY <1>3, <1>4, <1>7
<1>13. Tries'
  <2>1. \A k \in Job : jobs'[k].tries = jobs[k].tries BY <1>4, <1>7
  <2>2. \A k \in Job : jobs'[k].state \in Active => jobs[k].state \in Active
    BY <1>3, <1>4, <1>6, <1>7 DEF Active
  <2> QED BY <1>5, <1>12, <2>1, <2>2, Places DEF Tries, Publication
<1>14. jobs'[PUBLISH].state = jobs[PUBLISH].state BY <1>5, <1>12, Places
<1>20. Stays BY <1>3, <1>4, <1>6, <1>7 DEF Stays
<1>a. CASE j \in Window
  <2>1. jobs[j].state = "queued" /\ jobs'[j].state = "running"
    BY <1>a, <1>3, <1>4, <1>6, <1>7, Places
  <2>2. ~Over /\ ~Begun BY <1>a, <2>1 DEF Barrier, Over, Ended
  <2>3. late = {} BY <2>2, <1>3 DEF Begun, Canonical
  <2>4. jobs'[CANONICAL].state = jobs[CANONICAL].state
    BY <1>a, <2>3, <1>4, <1>7, Places
  <2>5. \A v \in Workers : work[v].job # j BY <1>a, <2>1 DEF Held
  <2>6. Held'
    BY <1>a, <2>1, <2>4, <2>5, <1>2, <1>9, <1>10, <1>12, Places DEF Held, Canonical
  <2>7. Queued' BY <1>a, <2>1, <2>4, <1>2, <1>12, <1>14, Places DEF Queued, Canonical, Publication
  <2>8. Barrier'
    BY <1>a, <2>2, <2>4, <1>2, <1>9, <1>10, Places DEF Barrier, Begun, Canonical
  <2>9. Awaited' BY <2>4, <1>2, <1>9, <1>10, <1>14 DEF Awaited, Canonical, Publication
  <2> QED BY <1>2, <2>6, <2>7, <2>8, <2>9, <1>11, <1>13, <1>20 DEF DoneIsWhole
<1>b. CASE j = CANONICAL
  <2>1. Canonical \in {"queued", "running"} /\ jobs'[CANONICAL].state = "running"
    BY <1>b, <1>3, <1>4, <1>6, <1>7 DEF Canonical
  <2>2. \A i \in Window : jobs[i].state \in Ended
    <3>1. ASSUME NEW i \in Window PROVE jobs[i].state \in Ended
      <4>1. i \in Job /\ i # CANONICAL BY Places
      <4>2. jobs[i].state = rows[i].state BY <4>1, <1>3, <1>4
      <4>3. jobs[i].state \in State BY <4>1, Typed DEF Rows, Row
      <4> QED BY <1>b, <4>2, <4>3, <2>1, <1>6 DEF Queued, Active, Ended, State
    <3> QED BY <3>1
  <2>3. Over BY <2>1, <2>2 DEF Over, Held, Ended
  <2>4. \A i \in Window : jobs'[i].state = jobs[i].state BY <1>b, <1>12, Places
  <2>5. Held' BY <1>b, <2>1, <2>3, <1>9, <1>10, Places DEF Held, Over, Canonical
  <2>6. Queued' BY <2>1, <2>4, <1>2, <1>14, Places DEF Queued, Canonical, Publication
  <2>7. Barrier' BY <1>b, <2>3, <2>4, <1>2, <1>9, <1>10, Places DEF Barrier, Over
  <2>8. Awaited' BY <2>1, <1>2, <1>9, <1>10, <1>14 DEF Awaited, Canonical, Publication
  <2> QED BY <1>2, <2>5, <2>6, <2>7, <2>8, <1>11, <1>13, <1>20 DEF DoneIsWhole
<1> QED BY <1>a, <1>b, <1>5, Places

-----------------------------------------------------------------------------
(* The end of the recording and the restart.                               *)

Sessions == [status: {"uploading", "processing", "done", "failed", "cancelled"},
             meeting: {"recording", "finalizing", "transcript_ready", "done", "none"},
             covered: SUBSET Window]

(* The session s a restart finds: the one there was, or one that has just  *)
(* been received whole.                                                    *)
LEMMA BootInv ==
  ASSUME IInv, NEW s, s \in Sessions, session' = s,
         \/ s = session
         \/ session.status = "uploading" /\ s.status = "processing" /\ s.meeting = "finalizing",
         Boot(s), UNCHANGED <<text, told, rushed>>
  PROVE  IInv' /\ Stays
<1> USE DEF IInv
<1> DEFINE mid == Requeued(jobs)
<1>0. /\ jobs \in Rows /\ jobs' = Rescheduled(mid, s) /\ scan' = TRUE
      /\ work' = [w \in Workers |-> Idle]
      /\ left' = [left EXCEPT !.restarts = @ - 1] /\ left.restarts > 0
  BY Typed DEF Boot
<1>1. /\ mid \in Rows
      /\ \A k \in Job : /\ mid[k].tries = jobs[k].tries
                        /\ mid[k].state = IF jobs[k].state = "running" THEN "queued"
                                          ELSE jobs[k].state
  <2>1. ASSUME NEW k \in Job
        PROVE  /\ [jobs[k] EXCEPT !.state = "queued"] \in Row
               /\ [jobs[k] EXCEPT !.state = "queued"].state = "queued"
               /\ [jobs[k] EXCEPT !.state = "queued"].tries = jobs[k].tries
    <3>1. jobs[k] \in Row BY <1>0 DEF Rows
    <3> QED BY <3>1 DEF Row, State
  <2> QED BY <1>0, <2>1 DEF Requeued, Rows
<1> HIDE DEF mid
<1>2. /\ jobs' \in Rows
      /\ \A k \in Job : \/ jobs'[k] = mid[k]
                        \/ mid[k].state = "none" /\ jobs'[k] = [state |-> "queued", tries |-> 0]
      /\ s.status # "processing" => \A k \in Job \ Window : jobs'[k] = mid[k]
      /\ s.status = "processing" => \A k \in Job : jobs'[k].state # "none"
  <2>1. CASE s.status = "uploading"
    <3>1. jobs' = Enqueue(mid, Ready(s.covered, FALSE)) BY <2>1, <1>0 DEF Rescheduled
    <3>2. Ready(s.covered, FALSE) \subseteq Window BY DEF Ready, Sessions
    <3>3. PICK New \in SUBSET Window : jobs' = Enqueue(mid, New) BY <3>1, <3>2
    <3>4. /\ jobs' \in Rows
          /\ \A k \in Job : IF k \in New /\ mid[k].state = "none"
                            THEN jobs'[k] = [state |-> "queued", tries |-> 0]
                            ELSE jobs'[k] = mid[k]
      BY <3>3, <1>1, EnqueuedRows
    <3> QED BY <2>1, <3>4
  <2>2. CASE s.status = "processing"
    <3>1. jobs' = Enqueue(mid, Ready(Window, TRUE) \union {CANONICAL, PUBLISH})
      BY <2>2, <1>0 DEF Rescheduled, Sealed
    <3>2. Ready(Window, TRUE) \union {CANONICAL, PUBLISH} = Job BY Places DEF Ready
    <3>3. /\ jobs' \in Rows
          /\ \A k \in Job : IF k \in Job /\ mid[k].state = "none"
                            THEN jobs'[k] = [state |-> "queued", tries |-> 0]
                            ELSE jobs'[k] = mid[k]
      BY <3>1, <3>2, <1>1, EnqueuedRows
    <3> QED BY <2>2, <3>3
  <2>3. CASE s.status \notin {"uploading", "processing"}
    BY <2>3, <1>0, <1>1 DEF Rescheduled
  <2> QED BY <2>1, <2>2, <2>3
<1>3. \A k \in Job :
        /\ jobs'[k].state \in Active => jobs'[k].tries <= MaxRetries
        /\ jobs[k].state # "none" => jobs'[k].state # "none"
        /\ jobs[k].state \in Ended => jobs'[k].state = jobs[k].state
        /\ jobs'[k].state # "running"
        /\ jobs'[k].state \in Ended => jobs'[k].state = jobs[k].state
        /\ jobs'[k].state = "queued" => jobs[k].state \in {"none", "queued", "running"}
  BY <1>1, <1>2, JobsAssumption DEF Tries, Active, Ended
<1>4. \A k \in {CANONICAL, PUBLISH} :
        s.status # "processing" /\ jobs[k].state = "none" => jobs'[k].state = "none"
  BY <1>1, <1>2, Places
<1>5. \A v \in Workers : work'[v] = Idle /\ work'[v].job = 0 /\ work'[v].stage = "idle"
  BY <1>0, IdleHolds
<1>11. TypeOK'
  <2>1. left' \in [restarts: 0 .. MaxRestarts, expiries: 0 .. MaxExpiries]
    BY <1>0, JobsAssumption DEF TypeOK
  <2>2. work' \in [Workers -> Hold] BY <1>0, IdleHolds
  <2> QED BY <1>0, <1>2, <2>1, <2>2 DEF TypeOK, Rows, Row, State, Hold, Sessions
<1>12. Tries' BY <1>3, Places DEF Tries, Publication
<1>13. Held' BY <1>5, Places DEF Held
<1>14. Queued' BY <1>2, <1>3, <1>4, Places DEF Queued, Canonical, Publication
<1>15. Barrier' BY <1>3, <1>5, Places DEF Barrier, Begun, Over, Canonical, Ended
<1>16. Awaited'
  <2>1. CASE s = session
    <3>1. Publication' = "queued" => Publication = "queued"
      BY <2>1, <1>3, <1>4, Places DEF Publication, Tries, Queued
    <3>2. Canonical \in {"queued", "running", "done"} =>
            /\ Canonical' \in {"queued", "done"}
            /\ Canonical' = "done" => Canonical = "done"
      BY <1>1, <1>2, Places DEF Canonical
    <3>3. s.status = "done" => Publication' # "none" BY <2>1, <1>3, Places DEF Awaited, Publication
    <3> QED BY <2>1, <3>1, <3>2, <3>3, <1>5 DEF Awaited
  <2>2. CASE s # session
    <3>1. session.status = "uploading" /\ s.status = "processing" BY <2>2
    <3>2. Canonical = "none" BY <3>1 DEF Queued
    <3>3. Canonical' = "queued" BY <3>2, <1>1, <1>2, <3>1, Places DEF Canonical
    <3> QED BY <3>1, <3>3, <1>5 DEF Awaited
  <2> QED BY <2>1, <2>2
<1>17. DoneIsWhole' BY DEF DoneIsWhole
<1>20. Stays BY <1>3 DEF Stays, Ended
<1> QED BY <1>20, <1>11, <1>12, <1>13, <1>14, <1>15, <1>16, <1>17

(* The whole recording is there: every job is queued that was not.         *)
LEMMA CompleteInv == ASSUME IInv, Complete PROVE IInv' /\ Stays
<1> USE DEF IInv
<1>0. /\ session.status = "uploading" /\ session' \in Sessions
      /\ session'.status = "processing" /\ session'.meeting = "finalizing"
      /\ UNCHANGED <<text, rushed>>
  BY DEF Complete, TypeOK, Sessions
<1>a. CASE Boot(session') /\ UNCHANGED told
  BY <1>a, <1>0, BootInv
<1>b. CASE jobs' = Sealed(jobs) /\ told' \in {told, TRUE} /\ UNCHANGED <<work, scan, left>>
  <2>1. /\ jobs' \in Rows
        /\ \A k \in Job : IF jobs[k].state = "none"
                          THEN jobs'[k] = [state |-> "queued", tries |-> 0]
                          ELSE jobs'[k] = jobs[k]
    <3>1. Ready(Window, TRUE) \union {CANONICAL, PUBLISH} = Job BY Places DEF Ready
    <3>2. jobs \in Rows BY Typed
    <3>3. jobs' = Enqueue(jobs, Job) BY <1>b, <3>1 DEF Sealed
    <3> QED BY <3>2, <3>3, EnqueuedRows
  <2>2. Canonical = "none" /\ jobs'[CANONICAL].state = "queued"
    BY <1>0, <2>1, Places DEF Queued, Canonical
  <2>3. ~Begun \/ WHOLE \in text BY <2>2 DEF Begun, Held
  <2>11. TypeOK' BY <1>b, <1>0, <2>1 DEF TypeOK, Rows, Row, State, Sessions
  <2>12. Tries' BY <2>1, JobsAssumption, Places DEF Tries, Active, Publication
  <2>13. Held'
    <3>1. \A v \in Workers : work[v].job \in Window => jobs[work[v].job].state = "running"
      BY <1>0 DEF Held
    <3> QED BY <1>b, <2>1, <2>2, <3>1, Places DEF Held, Canonical
  <2>14. Queued' BY <1>0, <2>1, Places DEF Queued, Canonical, Publication
  <2>15. Barrier' BY <1>0, <1>b, <2>1, <2>2, <2>3, Places DEF Barrier, Begun, Over, Canonical, Ended
  <2>16. Awaited'
    <3>1. \A v \in Workers : work[v].stage # "matching"
      BY <2>2, Places, IdleHolds DEF Held
    <3> QED BY <1>0, <1>b, <2>2, <3>1 DEF Awaited, Canonical
  <2>17. DoneIsWhole' BY <1>0 DEF DoneIsWhole
  <2>20. Stays BY <2>1 DEF Stays
  <2> QED BY <2>20, <2>11, <2>12, <2>13, <2>14, <2>15, <2>16, <2>17
<1> QED BY <1>a, <1>b DEF Complete

LEMMA NextInv == IInv /\ [Next]_vars => IInv' /\ Stays
<1> SUFFICES ASSUME IInv, [Next]_vars PROVE IInv' /\ Stays OBVIOUS
<1>1. CASE UNCHANGED vars
  BY <1>1 DEF vars, IInv, TypeOK, Tries, Held, Queued, Barrier, Begun, Over, Awaited,
     DoneIsWhole, Canonical, Publication, Stays
<1>2. ASSUME NEW w \in Workers, Work(w) PROVE IInv' /\ Stays
  BY <1>2, ClaimInv, TranscribedInv, FinalizedInv, MatchedInv, FailInv, PublishInv DEF Work
<1>3. ASSUME NEW i \in Window, Received(i) PROVE IInv' /\ Stays
  BY <1>3, ReceivedInv
<1>4. CASE Restart
  <2>1. session \in Sessions BY DEF IInv, TypeOK, Sessions
  <2> QED BY <1>4, <2>1, BootInv DEF Restart
<1>5. CASE Complete \/ AskAgain \/ DeleteMeeting \/ Recover
  BY <1>5, CompleteInv, AskAgainInv, DeleteMeetingInv, RecoverInv
<1> QED BY <1>1, <1>2, <1>3, <1>4, <1>5 DEF Next

LEMMA SpecInv == Spec => []IInv
<1>1. IInv /\ [Next]_vars => IInv' BY NextInv
<1> QED BY InitInv, <1>1, PTL DEF Spec

-----------------------------------------------------------------------------
(* What follows from it.                                                   *)

(* Every variable keeps its type; no job is tried oftener than the retries *)
(* allow (offline_jobs.py:283-300).                                        *)
THEOREM TypeCorrect == Spec => []TypeOK
<1>1. IInv => TypeOK BY DEF IInv
<1> QED BY <1>1, SpecInv, PTL

(* A session that is reported done has the text of the whole, for every    *)
(* number of retries, restarts and lost leases (ws_gateway.py:581-601).    *)
THEOREM DoneHasTheWhole == Spec => []DoneIsWhole
<1>1. IInv => DoneIsWhole BY DEF IInv
<1> QED BY <1>1, SpecInv, PTL

(* No window writes into the text of the whole (offline_jobs.py:233-247).  *)
THEOREM NothingAfterTheWhole == Spec => WholeIsLast
<1>1. ASSUME IInv, [Next]_vars, WHOLE \in text PROVE text' \in {text, {}}
  <2>1. Over /\ text = {WHOLE} BY <1>1 DEF IInv, Barrier, Begun
  <2>2. ASSUME NEW w \in Workers, Work(w) PROVE text' \in {text, {}}
    BY <2>1, <2>2 DEF Work, Claim, Transcribed, Finalized, Replaced, Matched, Fail, Publish, Over
  <2>3. CASE UNCHANGED vars BY <2>3 DEF vars
  <2>4. ASSUME NEW i \in Window, Received(i) PROVE text' \in {text, {}}
    BY <2>4 DEF Received
  <2>5. CASE Complete \/ AskAgain \/ DeleteMeeting \/ Restart \/ Recover
    BY <2>5 DEF Complete, AskAgain, DeleteMeeting, Restart, Recover
  <2> QED BY <1>1, <2>2, <2>3, <2>4, <2>5 DEF Next
<1>2. IInv /\ [Next]_vars => [(WHOLE \in text) => text' \in {text, {}}]_vars
  BY <1>1
<1> QED BY <1>2, SpecInv, PTL DEF Spec, WholeIsLast

(* A cancelled job is never queued again, by whatever worker, restart or   *)
(* lease (offline_jobs.py:262-267).                                        *)
THEOREM CancelledForGood == Spec => CancelledStays
<1>1. IInv /\ [Next]_vars =>
        [\A j \in Job : jobs[j].state = "cancelled" => jobs'[j].state = "cancelled"]_vars
  BY NextInv DEF Stays
<1> QED BY <1>1, SpecInv, PTL DEF Spec, CancelledStays
=============================================================================
