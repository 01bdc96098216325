# A TLA+ model of the recorder card

The repository holds a pocket recorder (`firmware/`, an ESP32 with a microphone,
an SD card, three keys and an e-paper display) and the server that transcribes
what it uploads (`server/`). This directory holds TLA+ modules of the parts
whose correctness depends on the order in which things happen, the TLC
configurations that check them, and proofs.

Line numbers in the modules and below refer to the sources of this commit;
`PROJECT.json` maps each definition to the lines it translates.

## 1. The system

| component | state it keeps | operations | interacts with |
|---|---|---|---|
| application state machine `main/app_state.c` | the struct `S`: mode, overlay, pause, lock, error, close polls, what waits to be shown | `app_state_handle`, for 25 kinds of events | calls hooks, sets timers |
| event loop `main/app_main.c` | the queue `s_q` (32 slots), four one-shot timers, light sleep | `app_post`, the hooks, the loop | every task posts into it |
| keys `main/input_keys.c` | debounce counters | short, long, release | posts |
| microphone `audio_pdm.c` | `s_running`, `s_muted`, the ring of frames, the ring of the to-do tap | start, stop, mute, read; `capture_task` | read by the writer task and the to-do writer |
| recording storage `storage_sd.c` | the session `s_sess`, the fault flag, one directory per session with `audio.wav`, `session.json`, `marks.jsonl` | open, mark, request close, close status, current; `writer_task`; recovery at start | posts `STORAGE_ERROR`, `CLOSE_DONE`, `SETTLED`; read by the uploader |
| upload store `upload_store.c` | `upload.state` of each session, the marker `delete.safe` | next item, inventory page, delete, recover | uploader, recovery |
| uploader `net_uploader.c` | live lane, manual sync, marks sent, the request it waits for | create, chunk, resume, defer, plan, range, complete, end, mark; inventory and orders; to-dos; agenda | upload store, agenda, device API |
| agenda and voice to-do `agenda_todo.c` | `agenda.json`, reminders, the alarm, the capture `s_capture`, one `todo.json` per to-do | begin, end, alarms, snooze, results | event loop, network task |
| pairing task `net_uploader.c` | challenge (code and nonce), binding in NVS, Wi-Fi profiles, the repair of a dead token | enter, exit, register, poll, adopt | user, account, device API |
| Wi-Fi and standby `net_uploader.c` | suspended, resuming, maintenance, online; selector task | suspend, resume, maintenance, events of the stack | event loop, all lanes |
| power `power_mgr.c` | charge, wake-up alarm | samples, sleep | event loop |
| device API of the server `device_api_v1.py` | rows of devices, challenges, tokens, sessions, chunks, epochs, ranges, marks, to-dos, storage lists, orders; answers kept under idempotency keys | one coroutine per request | the card, the jobs, the owner's browser |
| offline jobs of the server `offline_jobs.py` | job rows with leases and attempts, text segments | claim, renew, fail, finish, publish | workers, sessions, meetings |
| live sessions of the server | session manager, segments | start, merge, close | web clients, speech service |
| agenda of the server `agenda.py` | events and a revision per owner | upsert, snapshot, confirm | the card, web clients |

What connects them on the card: every task posts events into one queue that the
application task drains; the application calls the other components through
hooks, synchronously; the writer task, the uploader and the application share
`s_sess` and the fault flag; the microphone hands frames to the writer through a
ring; one network task waits for one request at a time and writes what it learns
into the files the other tasks also write; and the card's file system is shared
by everything, with a power loss or a card fault possible at any access.

On the server each request is a coroutine of one event loop: it runs alone until
it awaits. It is not cancelled when its client is gone, so requests the card has
given up run beside the ones that follow. Locks are per session and per device,
and only where the code takes them.

What is hard, and is the reason for these models:

- *A recording is closed by three parties.* The application stops the microphone
  and asks for the close, the writer drains the ring, syncs, closes and writes
  the manifest, and its news (`CLOSE_DONE`, `STORAGE_ERROR`, `SETTLED`) travels
  through a queue while a poll timer reads the shared flags directly.
- *Power can go at any card access*, and files are replaced by two renames.
- *An I/O fault stops all card access until a restart*, whoever meets it first:
  the writer, the application (a mark), or the uploader.
- *Pages, timers and keys overlap*: an alarm, a sync result or a to-do result
  may come while another page waits for its key or its timer.
- *A recording reaches the server in three ways* (live chunks, bulk ranges,
  repair ranges), which replace each other half-way, while requests and answers
  are lost, late or repeated, and the card deletes its only copy in the end.
- *One `todo.json`, three writers*: application, writer task and network task
  each write the whole file from a copy of their own.
- *A binding ends behind the card's back*: tokens, challenges and accounts change
  on the server while the card works with what it read before.
- *A queue with a barrier*: text of windows and text of the whole are written by
  workers that fail, lose their lease or are restarted.
- *Standby is a handful of flags* that four tasks read and write without a lock.

What makes each part correct:

- storage: frames a reader was offered are never lost, a session that is
  called whole is whole, one that is stopped gets closed, an error is told once;
- JSON files: what was stored is found again, never an older generation;
- state machine: the microphone runs exactly while something is recorded, no
  page waits for a timer that does not run, the key lock protects a recording, a
  reminder is not lost;
- together: "saved" means saved, the home page means the next recording can
  start, an error page can be left in the end;
- upload: nothing is deleted here that is not there as a whole, what was taken
  over is never reopened, everything gets there in the end;
- card storage: what is told deleted is gone, the list in the browser becomes
  what is on the card, every order ends;
- voice to-do: of what was called saved all that the ring took is kept, one entry per to-do and only a
  confirmed one, a queued to-do is resolved;
- agenda: nobody sees another owner's events, a revision means one agenda, the
  alarm rings in time, changes arrive;
- pairing: a recording never reaches another account, a challenge ends, a dead
  token is noticed;
- jobs: done means the text of the whole, nothing is written over it, what was
  cancelled stays so, a received recording ends;
- standby: a key opens the network, the agenda keeps coming, the card goes back
  to sleep.

`PROJECT.json` lists under `hazards` the places where this can go wrong, with
the properties that would show it, and those nothing covers yet, with the reason.

## 2. The modules

| module | models | composes |
|---|---|---|
| `AtomicJson` | `write_json_atomic` of `storage_sd.c` and its twin in `agenda_todo.c`, and their readers | |
| `SessionWriter` | microphone, ring, writer task, calls of other tasks, power loss, recovery | implements `RecordingStore` |
| `RecordingStore` | abstract: what the card promises for a recording | |
| `AppState` | the state machine, one operator per handler | |
| `CardUi` | the state machine with queue, keys, timers, microphone; card, sync, pairing and agenda seen from outside | `AppState` |
| `Recorder` | the state machine, queue and timers with the real writer and the uploader | `AppState`, `SessionWriter` |
| `UploadSession` | one recording at the server: chunks, epochs, ranges, marks, files, kept answers (operators only) | |
| `Upload` | the uploader task, `upload.state`, the network and the handlers of the server | `UploadSession`; implements `Handover` |
| `Handover` | abstract: what the upload of a recording promises | |
| `CardStorage` | recordings on the card as their owner manages them from a browser | |
| `VoiceTodo` | a spoken to-do from the held key to the entry in the agenda | |
| `Agenda` | the agenda on both sides, reminders, the alarm of the clock, rebinding | |
| `Pairing` | challenge, claim, token, rotation, repair, unbinding, Wi-Fi | |
| `Jobs` | the server's queue of transcription jobs and the life of a meeting | |
| `Standby` | suspend, resume, maintenance, selector, events of the Wi-Fi stack, lanes | |
| `CardUiProofs`, `RecorderProofs` (and, in the same module, those of `SessionWriter`), `UploadProofs`, `CardStorageProofs` (and, in the same module, those of `AtomicJson`), `VoiceTodoProofs`, `AgendaProofs`, `PairingProofs`, `JobsProofs` | theorems | |

Definitions marked *wrong variant* are no part of the system: each is a
plausible mistake in the definition below it, and `PROJECT.json` names the
property that TLC then finds violated. They show that the properties depend on
the code they are about.

The modules with a fault model share one form of it: `Fault(kind)` needs the kind
in `FaultKinds` and the count below `MaxFaults`, so that one constant says which
things go wrong and another how many of them.

### AtomicJson

Variables `path`, `tmp`, `bak` are the three directory entries, `pc` the card
operation that comes next. A file holds a document, which is a generation number
and whether it still has what only it knew (title, scene, start time), or it is
torn, or it is missing. Each card operation is an action with its failure
actions, the clean-up after a failure included. Two switches tell the two
copies of the routine apart: `ReadsBackup` (only `agenda_todo.c` looks at
`.bak`) and `ChecksUnlink` (only `storage_sd.c` stops when `.bak` cannot be
removed). `exposed` is history: an update began while the file itself was
missing. The routine then removes the only copy before it has written the next;
`Survives` and `NeverOlder` exclude that case by name, the hazard list says so.

### SessionWriter and RecordingStore

`sess` is `s_sess`, `w` the locals of the writer, `audio` the microphone with
its ring, `card` one directory per session, `seen` the `committed_bytes` a
reader was offered. A step of the writer is one card access with everything up
to the next look at shared state: looking at the fault flag (`Loop`), reading
the ring (`Read`, `ReadEmpty`), `fwrite` (`Write`), the periodic commit
(`Commit`), and the seven parts of `finish_session` (`Finish` to `Settles`).
Every access may fail, either as a physical fault, after which the code leaves
the card alone, or otherwise (a full card, a short write). The other tasks act
between any two steps: capture queues a frame, the application marks, mutes and
stops, the uploader reports a fault. `PowerLoss` may come at any point: a file
keeps what was synced and any part of the rest, a manifest just being written
is the old one, the new one or none. `Recover` and `Boots` are
`recover_incomplete` at the next start, itself interruptible.

Amounts are in frames, one block of the microphone. Byte counts, hashes, marks,
titles, times and close reasons are left out; that a mark or the saving of a
hash fails is not.

`RecordingStore` is the promise: at most one recording is open, what readers
were offered is kept, a sealed recording never changes again. The mapping is in
`SessionWriter` (`Phase`, `Store`): a directory is absent, open, sealed or torn,
`offered` is `seen`, `kept` is the synced length.

Timing the code relies on and the model assumes, stated here because nothing in
the code enforces it: a frame in flight reaches the ring before an empty ring
makes the writer's 100 ms read time out; the writer looks at `close_req` right
after that; it is through with a closed session before the user starts the next.

### AppState, CardUi, Recorder

An action of the state machine is one call of `app_state_handle`: `ui` is the
struct `S` as far as control depends on it, `armed` the timers it set, `calls`
the hooks it called with their results. The early returns of `short_press` and
`long_press` come in a fixed order (busy modes, overlays, pairing page, key
lock, mode): `Screen` is that order, and a handler's guard is the screen it
acts on. What is only drawn is left out, with the events that change nothing
else.

`CardUi` closes the state machine with everything around it, the session on the
card reduced to what others see of it (`store`). `Recorder` extends both the
state machine and `SessionWriter`: each hook of the recording is a call of the
session (`Hooks`), each event the writer posts goes into the queue (`Posted`).
It leaves out the other overlays. A result of a hook is chosen by the
component that answers (`StartRecordingHook`, `CloseStatus` and so on), never
freely where the code determines it.

In `Recorder` the application takes no event between the writer's closing of the
session and its last post (`Through`): these are a few instructions of the
highest-priority task of its core. `ClosedIsSealed`, in `SessionWriter`, checks
what a poll would read there.

### UploadSession, Upload and Handover

`card` is the recording itself (committed audio, closed, still there, marks),
`up` its `upload.state`, `lane` what the task keeps in memory only, `call` the one
request it waits for, `reply` the answer on its way, `work` the requests at the
server, `srv` the session the server keeps. `Stage` is the order in which
`process_upload_item` looks for what to do next, `Ask` sends that request,
`Receive` and `Follow` are what it makes of the answer,
with `Rewind`, `Fail` and `MarkGap` for the refusals it understands.


Every handler of `DeviceService` is cut at its awaits: a check up to the first
await, then the part under the lock of the session, with a first-come queue for
that lock (`GetsLock`), and once more between renaming the file and committing
the status. A request the card gives up stays in `work` with `waited` false and
is carried out whenever it likes. A restart of the server drops every handler and
keeps what was committed.

Positions count units of half a chunk. The bytes at a position are the same on
both sides, so hashes are left out and two pieces conflict when they lie
differently. What is left out: quotas, several recordings at once, the results
of the live lane that the card displays.

`Handover` is the promise: the recording is here until it is taken as a whole,
and what was taken never changes. It is mapped by `length <- card.pcm`,
`here <- card.here`, `taken <- srv.final`, `file <- srv.held`.

### CardStorage

`files` and `dirs` are the card, `scan` the report under way, `doing` the
deletion under way, `srv` the list and the orders on the server. A deletion
removes one file per step, in the order of `delete_session_locked`: the marker
is written first and goes last, behind the manifest, and power may fail after
any of them. `Snapshot`,
`ReceivePage` and `Serve` are the pages of the inventory, `Choose` to `Done` an
order, `DeleteAccepted` the end of an upload, which shares the deletion. A
request that was given up may still reach the server, later (`late`). The
upload itself is reduced to its acknowledgement (`Accept`); what that takes is
the subject of `Upload`.

### VoiceTodo

`disk` is `todo.json` of every to-do, `latest` the copy in memory, `capture`,
`ring`, `token` and `waiting` are the meeting of microphone, writer and
application, `call` the request of the network task *with its copy of the item*,
`rows` and `task` the server. A piece of sound goes through three hands: `Hear`
is the tap's look at `s_capture.active`, `Send` its `xStreamBufferSend` without
a wait, which a full ring refuses without anybody noticing, `Write` the writer.
Between `Hear` and `Send` the writer may close the capture, and another may
begin. `heard` counts what the tap was called with, `taken` what the ring took
before the writer closed, `wav` what is in the file. `Turn` and `Receive` are
`process_todo`: which request an item needs follows from its state, and the
whole item is written back from the copy. `Serve` answers with the stored answer
when the action was done before. The texts of the items and the pages that show
them are left out.

### Agenda

`srv` has a calendar and a revision per owner; `agenda` and `disk` are the
card's copy in memory and in the file (with its `.bak`), `alarm` the one alarm
of the clock, `rung` the posted event, `active` the reminder whose page is up.
`Apply` is `agenda_apply_server_json` with all it calls: keep local actions,
save, plan the next alarm. Every step that ends in `agenda_schedule_next` does
so here too; `unplanned` is history and says that one ended before, for a failed
write. A binding generation stands for an owner.

### Pairing

`device`, `rows` and `tokens` are the server; `card` and `nvs` the card's binding
in memory and in flash, `link` its Wi-Fi, `ask` the exchange of the pairing task,
`call` the authenticated request of the uploader, `stamped` which account every
recording was begun for. `save_binding` writes several keys and commits them
once; here that is one step (`Save`), with a power failure before or after it but
not within; adopting the new binding in memory is a step of its own (`Adopt`). A
network from the form that cannot be saved is used all the same and stays a
candidate (`CandidateUp`).

### Jobs

A recording of `Windows` windows, a job per window, one for the canonical run
and one for the publication, `work` what each worker holds. A step of a worker
reaches from one await to the next: claim, the answer of the service, and, for
the canonical run, the matching of speakers. `text` says which windows have text
of their own or whether the text of the whole is there. `Restart` puts running
jobs back and runs the scan for unfinished meetings (`Recover`) at some later
time; `Expirable` is the one lease that can run out under a live worker. `rushed`
is history: the scan took a recording that was still arriving.

### Standby

`net` holds the flags of `net_uploader.c` that the tasks share, `app` where the
event loop is, `selector`, `radio` and `events` the Wi-Fi side, `lane` and
`exchange` the two requests that may be under way. A request has a gate and, a
moment later, a busy flag (`Begin`), and a flag may change in between. The
handlers of the Wi-Fi events are atomic: they run in one task and block nowhere.

## 3. The runs

| run | properties | what it shows |
|---|---|---|
| `AtomicJson_backup` | `Survives`, `NeverOlder` | Replacing a JSON file with the fallback to .bak (agenda_todo.c), through up to three failures: what was stored is found again, never an older generation. |
| `CardUi_keys` | `MicHasUser`, `NoDeadPage`, `CaptureFollowsPage` | Keys, alarms, to-do captures, pairing, card failures and a critical battery in every order: microphone, pages and timers stay consistent. |
| `CardUi_live` | `LockedKeepsRecording`, `ReminderAfterClose` | With manual sync, to-do results, alarms and card failures: the key lock protects the recording, a reminder that waited for its closing is shown. |
| `SessionWriter` | `OfferedSurvives`, `DoneIsWhole`, `StopCloses`, `ErrorTold`, `KeepsRecordings` | Microphone, writer, faults, power losses and recovery: what readers were offered survives, what is told done is whole, errors are told once, and the whole implements RecordingStore. |
| `Recorder` | `SavedIsSaved`, `HomeCanRecord`, `CloseSettles` | State machine, queue, timers, writer and uploader over two recordings: the saved page tells the truth, the home page means the next recording can start, closing ends. |
| `Upload` | `NothingLost`, `StaysTaken`, `HandsOver`, `Uploaded` | Card, server and network with six kinds of faults: the card only deletes what the server has whole, what is taken over stays so with these two faults, the protocol implements Handover, and what is merely lost on the way never keeps a recording on the card. |
| `CardStorage` | `DoneIsGone`, `ListSettles`, `OrdersEnd` | Recordings on the card, the list of them on the server and the orders of the owner, with lost and late requests, unlink errors and power loss after any file operation: what is told deleted is gone, the list settles and orders end. |
| `VoiceTodo` | `SavedIsKept`, `OneOwner`, `OneEntry`, `Resolved` | Two spoken to-dos from the key to the agenda with two faults of any kind, a ring that may be full and sound that comes late: of a to-do told saved all that the ring took in time is kept and it ends in a question or an outcome, a to-do has at most one agenda entry and only when confirmed, nobody overwrites the item another task works on. |
| `Agenda` | `Isolated`, `SameRevision`, `Armed`, `CatchesUp` | Two events of two owners, moved and deleted while the card fetches, reminds, loses power or fails to write: the agenda on the card is the bound owner's, of its revision, its next reminder is programmed, and every change arrives. |
| `Pairing` | `NotHandedOver`, `Pairs`, `Notices` | Pairing page, provisioning, claims, unbinding, token rotation and repair with one lost exchange, expiry, dropped Wi-Fi, power loss or flash error: recordings never reach another account, a challenge ends, a dead token is noticed. |
| `Jobs` | `DoneIsWhole`, `WholeIsLast`, `CancelledStays`, `Settles` | A recording of three windows, two workers, one retry, two restarts of the server, one lease that runs out under a live worker, the deletion of the meeting at any time: the barrier holds, a received recording ends, what was cancelled stays so. |
| `Standby` | `Reopens`, `AgendaComes`, `SleepsAgain` | One key press and one of: an access point out of reach, a radio that does not start, a wait that runs out, an odd wake-up, a reminder; at any point of standby: a key opens the network, the agenda keeps coming, the card goes back to sleep. |

All of them pass. The type invariants of the modules (`TypeOK`) are in no run.
All but one are theorems (section 5); that of `Standby` holds under the constants
of its run, with `INVARIANT TypeOK` in the place of the properties.

### Bounds, and why they are enough

- `AtomicJson`: 4 generations and 3 failures. The routine distinguishes current,
  backup and temporary file, so three generations meet and the fourth shows that
  nothing depends on the first; two failures reach the failed undo of a failed
  commit, the third one hits its repair. The theorems need no bound.
- `SessionWriter`: 2 sessions, 4 frames each, ring, block and sync interval of 2,
  2 faults. The ring overflows and drains in two reads, there are frames synced,
  written, in the buffer, queued and in flight at once, a fault follows a fault
  or interrupts the recovery of the first, and the second session meets a torn
  directory of the first. The safety theorems need no bound.
- `CardUi`: a queue of 2 and a poll limit of 2. Two pending events are what a
  race needs: an expired timer behind the event that cancels it, or two events
  of one failure. `Sources` lets a run have only the outside parties its
  question is about; each of them acts without limit. The parties of
  `CardUi_keys` leave out manual sync, whose effect on a capture is the subject
  of `CardUi_capture.cfg` (section 4). `MicHasUser` holds with this queue and
  with any that never has more than four events waiting; with five it is false in
  the model (section 5), and the code has 32 slots.
- `Recorder`: 2 recordings of 2 frames, 1 fault, 1 pending key or timer, the
  uploader included. Two recordings are what a late event of the first needs to
  hit the second. The run does not reach the race at `app_state.c:545`, which
  needs three pending events: there `HomeCanRecord` fails (`Recorder_race.cfg`,
  section 4), and with three recordings `SavedIsSaved` too
  (`Recorder_saved.cfg`). That both hold wherever a key or a timer posts behind
  fewer than two events is a theorem, for any number of recordings, frames,
  polls and faults (section 5).
- `Upload`: a recording of up to 3 units with chunks and blocks of 2, one mark,
  two faults of six kinds. The last chunk and the last range are short, a live
  gap can begin and end inside a chunk, a repair needs two ranges. Two faults
  are a lost answer and a late request, or a reset on top of a lost answer. The
  safety theorems need no bound. `StaysTaken` holds with two faults, which do not
  reach the crossing of an end and a defer: that takes five, and breaks it
  (`Upload_taken_back.cfg`); section 5 says exactly when it holds.
- `CardStorage`: 2 recordings, pages of 1, one order (of one recording or of
  all), one fault of four kinds, so that a scan has two pages, a deletion falls
  between them, and a late page or acknowledgement meets a new scan.
- `VoiceTodo`: 2 to-dos, 2 pieces of sound with room for one in the ring and one
  in the file, 2 faults of seven kinds: a second piece meets a full ring, a late
  one the next capture, the token of the first capture meets the end of the
  second, a lost answer is followed by a restart.
- `Agenda`: 2 events, 2 owners, 4 ticks with a window of 3, 2 changes, 1 fault:
  an event enters the window, moves, leaves it or is deleted; the card has two
  reminders and one alarm; a second owner comes while an answer is under way.
- `Pairing`: 2 accounts, 1 visit to the page, 1 unbinding, 1 fault. The unbinding
  starts a second challenge by itself, so late requests of the first meet it.
- `Jobs`: 3 windows (with the short tail), 2 workers, 1 retry, 2 restarts, 1
  lease. The deletion of the meeting may come at any time. Two restarts reach the
  scan of the second over what the scan of the first left.
- `Standby`: 1 key press and 1 disturbance; suspends, half hours and wake-ups are
  unlimited. Two presses (737,491 states) show nothing else.

`CHECK_DEADLOCK FALSE` appears where the system really may stop: no file is
updated any more, no session left to start, the recording uploaded, the clock of
the model at its horizon, no fault left.

### Fairness

- `SessionWriter`: weak fairness of the capture task, of the writer and of the
  recovery. They are tasks of the highest priorities that wait for nothing but
  the card and the ring, and `storage_sd_init` is a sequential function. Nothing
  is assumed of the user, of faults or of power.
- `CardUi`, `Recorder`: weak fairness of the loop that takes events, strong
  fairness of a timer getting its event into the queue: the timer task has a
  higher priority than the loop and retries for 250 ms, while keys may fill a
  slot any number of times in between. In the models a poster waits for room
  instead of dropping its event, which a queue of 32 slots justifies; `app_post`
  does drop after a timeout, and the hazard list says what then fails.
- `Upload`: the uploader goes on and the server answers; a recording is closed
  at some time, and while something is left the user comes back for a manual
  sync (a recording that was deferred waits for one). Faults need not happen and
  are bounded, which is the statement "if the network works for long enough".
  `Uploaded` excepts faults after which the code itself gives up (section 4).
- `CardStorage`: the task goes on, requests are served in the end, those that
  were given up included. That the owner stops recording is a hypothesis of the
  properties, not of the specification: scans wait while something is recorded.
- `VoiceTodo`: application, writer, network task and server run, the card is
  switched on again, the owner lets go of the key and answers when asked.
- `Agenda`: the network task polls again and again, the clock rings, the
  application takes what was posted. Nothing is assumed of the owner.
- `Pairing`: the two tasks run, the server answers, Wi-Fi is found where it is
  looked for, and the account types the code shown; strong fairness of the
  claim, because a code that is replaced while someone types it is typed again.
  Nobody has to open or leave the page. That Wi-Fi stays in the end is a
  hypothesis of the properties.
- `Jobs`: weak fairness of each worker: a request to the speech service ends,
  with an answer or by its timeout.
- `Standby`: every task is served and every request ends, as above. Strong
  fairness of `Suspend` and `HalfHour`: the loop tests once a second and the
  lanes are free most of the time, and of the minutes the card is woken for
  every thirtieth is a half hour. Strong fairness of a request that begins while
  online: the milliseconds between a gate and its busy flag are not hit every
  time. The deadline of a maintenance runs out when there is no way to an
  address; while there is one, running out is a fault ("slow"). A half hour
  comes only after the events before it are handled.

## 4. Known disagreements

While the models were written some statements of the documents, comments and
tests turned out not to hold of the code. Each has a configuration of its own
that shows it; they are no part of the runs above. To see the counterexample:
`tlc -config X.cfg M`.

| configuration | module | property | what the code does |
|---|---|---|---|
| `AtomicJson_nobak.cfg` | `AtomicJson` | `MetadataWhole` | `session.json` is read without a look at `.bak` (`storage_sd.c:866`, against `SESSION_MANIFEST_SCHEMA.md:94`): one power loss between the renames, and recovery writes a default manifest |
| `CardUi_capture.cfg` | `CardUi` | `CaptureFollowsPage` | the end of a manual sync replaces the page of a running to-do capture and the release of the key is ignored (`app_state.c:660`, against `V0_9_0_THREE_KEY_BASELINE.md:43`) |
| `CardUi_pairing.cfg` | `CardUi` | `BoundReturnsHome` | `exit_pairing` posts `IDLE` inside the handler of `BOUND`, and the timer that should bring the card home finds no `BOUND` (`net_uploader.c:1042`, against `test_app_state.c:304`) |
| `Recorder_uploader.cfg` | `Recorder` | `Salvaging` | a fault the uploader meets after the writer's last look at the flag is never settled: the error page stays (`net_uploader.c:288`, against `test_app_state.c:212`) |
| `Recorder_race.cfg` | `Recorder` | `HomeCanRecord` | with the application three events behind, `STORAGE_ERROR` and `SETTLED` of a closed session reach the next one (`app_state.c:545`) |
| `Recorder_saved.cfg` | `Recorder` | `SavedIsSaved` | the same race over three recordings: the user leaves the second while its session is still open, starts and stops the third, and the `CLOSE_DONE` of the second shows the third as saved while it is open (`app_state.c:466`, events carry no session, against `STORAGE_SAFETY_DESIGN.md:7`) |
| `Upload_replay.cfg` | `Upload` | `Replayable` | a restart between opening a live epoch and storing the answer makes the repeated resume open another, and the recording is refused for ever (`device_api_v1.py:1762`, against `LUOYE_DEVICE_API_V2.md:15`) |
| `Upload_taken_back.cfg` | `MCUpload` | `StaysTaken` | `end_session` takes no lock and decides by the status it read before it awaited the end of the live session; `defer_session` checks the status before it waits for the lock and then overwrites it. An end and a defer that cross make a recording that was taken over wait for a repair (`device_api_v1.py:1808`, against its own check at 1798) |
| `CardStorage_half.cfg` | `CardStorage` | `TakenUp` | the remains of a deletion that nobody ordered are never taken up again (`upload_store.c:957`, against `SESSION_MANIFEST_SCHEMA.md:114`) |
| `VoiceTodo_answered.cfg` | `VoiceTodo` | `Answered` | only the latest to-do can be answered: one whose result comes while another is spoken is never confirmed (`agenda_todo.c:751`) |
| `VoiceTodo_ring.cfg` | `VoiceTodo` | `RingTakesAll` | the tap sends into a ring of two seconds without waiting and without a look at the result: while the writer stalls, on a slow card for instance, sound is lost and the to-do is told saved all the same (`agenda_todo.c:510`; `AGENDA_TODO_DESIGN.md:90` has a page "saved locally", which here says less than it seems to) |
| `VoiceTodo_late.cfg` | `VoiceTodo` | `AllHeardIsKept` | the tap looks at `s_capture.active` before it sends: its piece may come when the writer has closed the file, and is lost or becomes part of the next to-do (`agenda_todo.c:507` and `510`, against `602`) |
| `Agenda_cache.cfg` | `Agenda` | `ReadBack` | a file with a snooze past its event is refused at start-up, and the cached agenda with it (`agenda_todo.c:238`, against `FIRMWARE_ROADMAP.md:210`) |
| `Pairing_rotation.cfg` | `Pairing` | `OldTokenLives` | a card that rotates its token loses the old one when the server hands out the new one, before it is stored (`net_uploader.c:1012` says it stays usable) |
| `Pairing_offline.cfg` | `Pairing` | `BackOnline` | without Wi-Fi a card that repairs its token never looks for a network again (`net_uploader.c:597`, against `V0_8_1_TODO_WIFI.md:9`) |
| `Jobs_early.cfg` | `Jobs` | `Kept` | a restart while a recording arrives publishes it, and the card is told it is complete (`storage.py:681`, against `test_device_api_v1.py:168`) |

One more was found by reading and has no configuration: the microphone calls the
to-do tap only while it is not muted (`audio_pdm.c:53-67`), although its own
comment at line 92 and `AGENDA_TODO_DESIGN.md:64` say that a to-do can be
recorded while the recording pauses. The models leave it open whether the tap is
called.

Where a run's property would meet one of these, it excepts the case by name:
`taken` instead of `heard` in `SavedIsKept`, `exposed` in `AtomicJson`, `scan =
"told"` in `CloseSettles`, `Mild` and `Hopeless` in `Uploaded`, `rushed` in
`DoneIsWhole`.

## 5. What is proved

TLAPS proves these theorems for every value of the constants, from the named
assumptions of the modules.

`AtomicJson`, in `CardStorageProofs`, from `MarkerAssumption` and
`BoundAssumption`:

- `JsonTypeCorrect`: only the temporary file is ever torn;
- `StoredSurvives`: what was stored survives any number of failures;
- `NothingOlder`: no undo and no reboot brings an older generation back (the
  action property `NeverOlder`).

The invariant `WhereStored` says at each operation under which name the stored
generation is: under the file's name before the first rename, under `.bak` and
nowhere else between the renames. `Survives` alone is not inductive, it does not
say that `.bak` holds the *current* generation when the first rename is done.
`NeverOlder` follows from `Survives` on both sides of a step, once `Rising` says
that generations only go up.

`CardUiProofs`, from `PollAssumption` and `QueueAssumption`:

- `TypeCorrect`, `PagesEnd` (`NoDeadPage`), `LockHolds` (`LockedKeepsRecording`);
- `CaptureLostToSyncOnly`: `CaptureFollowsPage` in every behaviour in which no
  change of the manual sync is handled while the page of a capture is up
  (`SyncSpares`);
- `MicUsed`: `MicHasUser` in every behaviour in which a session fails while at
  most four events wait, its own included (`FailsSoon`), however long the queue
  may otherwise get.

Both premises are the exact edge of a finding of section 4. Without `SyncSpares`
`CardUi_capture.cfg` shows the counterexample. Without `FailsSoon` the race of
`Recorder_race.cfg` exists in `CardUi` too: a poll of the closing session, the
key that leaves its error page and the one that starts the next session wait
before the fault and the `SETTLED` of the closed one, so that five places are
needed; the theorem says that nothing shorter does it.

The proofs go in two stages. `HandleDoes` says of any handler, whatever event it
takes, what it may do to the modes (`Moves`), the timers (`Timers`), the capture
(`Captures`) and the lock (`Locks`); there is one lemma per handler. The theorems
then speak of the queue. A page's timer is armed or its expiry waits: `Waits` is
kept by a handler of another event and by whoever posts. `MicInv` is the
invariant of the microphone. `Phases` relates the page to the session, because
`start_recording` only looks at the session; `FaultTold`: the fault of a broken
session waits while the page does not show it; `EndsOnce` and `ClosedFirst`: the
end page has one timer, and a `CLOSE_DONE` is taken before that timer's event,
so never by the page of another session; `SettledSoon` counts, for each page,
how many events a waiting `SETTLED` may still have before it; `Owns`: the capture
switches off the microphone only if it switched it on.

`SessionWriter`, in `RecorderProofs`, from `SizeAssumption`:

- `TypeCorrect`, `NoOfferLost`, `SealedAreWhole`, `DoneMeansWhole`,
  `ClosedMeansSealed`, `ErrorsTold`: the safety of the recording path for any
  number of sessions, frames and faults and any size of ring, block and sync
  interval. `ErrorsTold` is an action property.

The inductive invariant `Inv` has these parts beside the types. `Pipeline`: the
frames in the file, in the writer's buffer and in the ring are the frames that
were queued, as long as nothing failed; without it "the ring is empty" would say
nothing about the file. `Turn`: where the writer may be while a session is open,
and that the file is as long as `s_sess` believes. `Kept`: offered ≤ synced ≤
written. `Drained`: once a closing that went well has begun, the microphone is
off, nothing is in flight and the ring is empty, because a requested close
without an error implies a stopped microphone. `Whole`: the manifest is closed
last, over a synced file. `Told`: what was posted matches what is recorded as
posted. There is one lemma per operation, and shared ones for what several
operations do (giving up, a commit, a start, an interrupted start).

In the second part of the module, from the same assumption and on top of `Inv`:

- `Implements`: `Spec => KeepsRecordings`. The refinement mapping reads the phase
  of a session from its manifest and from whether `s_sess` is still about it;
  what is offered is `seen`, what is kept is `synced`. Most operations are
  invisible to the store; a start, a commit, the last manifest, giving up, a
  power loss and a repair are one step of it each.

The mapping needs four facts beside `Inv`, together `Mapped`. `Unmade`:
directories not made yet are empty. `Opened`: the manifest of an open session
says `recording` until it gets its last one. `AllOffered`: a closing that went
well has offered the whole file, so the store may seal it. `Repairable`: what
recovery visits is neither sealed nor absent.

`Recorder`, in the third part of the module, with `RecorderAssumption` too:

- `SavedWhenPrompt` and `HomeWhenPrompt`: `SavedIsSaved` and `HomeCanRecord` in
  every behaviour in which the end of a session, `CLOSE_DONE` or `SETTLED`, never
  waits while the next session is open (`OldNews`);
- `SavedWhenNear`, `HomeWhenNear`: the same in every behaviour in which a key or a
  timer posts only while fewer than two events wait (`PostsNear`), however long
  the queue may get;
- `RecorderTypeCorrect`: among the rest, that the polls of a closing session stay
  below their limit;
- `MicAlwaysFollows`: the microphone is on on the recording page and on no other,
  with no premise at all;
- `CallsAsAssumed`: every step of `Recorder` is one of `SessionWriter` or leaves
  the session alone, and `StoreKept`: `RecorderSpec => KeepsRecordings`.

`SessionWriter` lets the application mark, mute and stop only what it has started
and not stopped; `CallsAsAssumed` is where that assumption is discharged, from
`MicFollowsPage` and the turns of the state machine.

Nothing in the code enforces either premise: events carry no session, and with
three waiting events both properties fail (`Recorder_race.cfg`,
`Recorder_saved.cfg`). `HandleTurns` says which of six turns a handler may take
(it stays, starts, stops, closes, leaves, with the hooks it calls),
`DeliverDoes` what the session then does. On top of `Inv` of the writer,
`Steady` ties the microphone to the page. `Heard` relates the page to the
session: `Held`, a page that can be left has no session behind it; `Polled`,
once the session is closed without an error, or about to be called so, it is
whole on the card, which is `Drained` and `Whole` at the moment the writer
retires it; `DoneNews`, a `CLOSE_DONE` that waits is about the session as it is
now. `SavedIsSaved` alone says nothing of what will bring the page up. `Prompt`
derives the first premise from the second: keys and timers wait in the first two
places (`Slots`), and ahead of the news of an end they find a busy page, or only
one of them is left and it cannot start a session (`Ahead`).

`UploadProofs`, from `BlockAssumption` and `UploadAssumption`:

- `NothingIsLost`: the card forgets a recording only when the server's final
  file has the whole of it; `Implements`: `Spec => HandsOver`.
- `NoCrossingStaysTaken`: `Spec /\ []~Crossing => StaysTaken`.
- `TypeCorrect`: places stay within the recording, no piece on the server is
  empty, an answer fits the request it is for, whoever gave it first.

The inductive invariant is about what everybody may rely on. `Filing`: what is
taken is filed, what is filed is whole, only what is filed is forgotten.
`Workers`: a handler past its checks relies on what it saw there; this survives
the other handlers because chunks and ranges only grow (`Grown`, `Longer`) and a
recording that is sent in ranges is closed. `Calling` and the stored answers in
`SrvOk`: an "ok" to a complete or end request, whoever got it first and whenever
it is repeated, implies the file. That chunks which line up cover everything, and
that the lowest and highest of a set exist, are lemmas; the latter go through the
well-founded ordering of finite subsets, for want of induction over data.

`StaysTaken` needs a premise, and the attempt to prove it without one is how the
counterexample of section 4 was found. `defer_session` is the only handler that
overwrites the status without another look at it. `Deferrals`: the card asks for
anything but an end only after a defer was answered, so a defer that still runs
then was asked before. `InOrder`: it therefore stands before every completion in
the queue for the session's lock, and while it holds the lock nobody completes.
`Untaken`: as long as somebody defers, the recording is not taken. `end_session`
does not come to the lock, and only it breaks this: `Crossing` says that it ends
a live session while a defer waits or runs. A step of each handler is summed up
once (`Handles`), a step of the card likewise (`CardMoves`).

The types rest on the same two stages (`ServesTyped` for a handler). What is not
plain in them: the block a plan asks for is not empty (`FirstMissingFull`), the
result a poll brings is a place the card has sent, and the marks the live lane
has sent are marks of the recording, so a mark that is asked for exists.

`CardStorageProofs`, from `StorageAssumption`:

- `TypeCorrect`, `DoneLeavesNothing` (`DoneIsGone`) and `RemainsNeverGrow`
  (the action property `NeverGrows`).

`Remains` says what a directory can hold: a whole recording, or what the fixed
order of deletion leaves of one. `Reported`: the server only ever hears of closed
recordings, so nobody orders one that is being written. `Carried`: what an order
has not deleted is still to do, and an acknowledgement under way, late ones
included, says "completed" only when everything is gone. `Asked`: what travels is a
request. The types need that late requests are finite, because each cost a fault.

`VoiceTodoProofs`, from `TodoAssumption`:

- `TypeCorrect`, `SavedStaysKept` (`SavedIsKept`), `CopiesAreCurrent`
  (`OneOwner`), `OneEntryEach` (`OneEntry`).

None of the three properties is inductive. `Capturing`: what the ring took in
the running capture is in the file or still in the ring unless a piece failed;
that is what makes "queued" mean "all that was taken" at its end. What the ring
refuses or takes after the close is in neither (section 4). `Kept` is
`SavedIsKept` for what is going to be told saved as well, because the owner
hears of it a step after the writer is done. `Agreed` relates the state on the
card to the row at the server and to the answer the owner gave: not asked yet,
asked, or carried out exactly once. `Travelling` says of a request that was
given up and may still arrive that it asks for nothing the card would not ask
again or has not been told, and `Calling` that the network task's copy is the
file's item and that what it was answered is still so when the answer is read.
The steps of the server go through one lemma (`Advances`: a row stays, a
recording is new, the answer is carried out, or `process_todo` goes on).

`AgendaProofs`, from `AgendaAssumption`:

- `TypeCorrect`, `OwnersAreIsolated` (`Isolated`), `RevisionMeansAgenda`
  (`SameRevision`), `RemindersAreArmed` (`Armed`), and `DismissedForGood` for the
  action property `DismissedStays`.

`Told` says of every document on the card, in memory, in the file and in its
backup, that it tells of a past revision of its owner or exactly of the present
one; `Answers` the same of an answer on its way. Without the files `SameRevision`
would not survive a power failure. `Planned` is `Armed` with the case that the
event whose page is up is gone.

`PairingProofs`, from `PairingAssumption`:

- `TypeCorrect`, `NeverHandedOver` (`NotHandedOver`).

`Ties`: every binding, in memory, in flash and on its way, names the owner of its
generation and, if its token is good, the generation of that token; `Stamps`: a
generation has one owner. `Owned` and `Asking` say what a challenge can be good
for, and that only challenges that were drawn are asked for.

`JobsProofs`, from `JobsAssumption`:

- `TypeCorrect`, `DoneHasTheWhole` (`DoneIsWhole`), `NothingAfterTheWhole`
  (`WholeIsLast`), `CancelledForGood` (`CancelledStays`).

`Barrier`: once the canonical run has begun, in any sense (it runs, a worker
holds it, its text is there), every window is over and no worker holds one. That
this is inductive needs `Held` (a window is held by one worker, since its lease
cannot run out) and `Queued` (the canonical job is queued behind all windows).
`Awaited` is the same argument for the publication.

Model-checked only: liveness (TLAPS has no `ENABLED` here), which is all that the
runs ask of `Standby`, and the types of `Standby`. Every invariant and every
safety property of the runs is a theorem. Five have a premise, named above with what
happens without it: `MicHasUser`, `CaptureFollowsPage`, `StaysTaken`,
`SavedIsSaved` and `HomeCanRecord`.

## 6. What is left

In the order of what it would add:

1. *Proofs*: the types of `Standby`; `OldNews` discharged from a
   bound on how long the application is behind instead of on how far.
2. *Live sessions of the server*: session manager and merging of segments, with
   web clients that come back.
3. *Two recordings in `Upload`*, with the one in progress changing under
   `sd_session_current`.
4. *Pure algorithms*: the repair plan of a WAV header, the longest valid prefix
   of a JSON-lines file, the merging of segments, as operators against reference
   definitions.
5. *A bounded queue that drops*, for the hazards at `storage_sd.c:1009` and
   `app_main.c:73`.

## 7. Not modelled

Drawing, fonts, LED and diagnostics (nothing reads them back), the signal
processing of the microphones (floating point without control), charge
estimation, the choice of a network by signal strength, the time service, boot
order, the parsing of the provisioning form, patched third-party drivers, the
web socket protocol of browsers, the uploads and edits of browsers, the server's
calls of speech and language models and the shaping of their text, the web
client, drawings and scripts. `PROJECT.json` lists every component with its
status, and what a component that is modelled in part leaves out.
