----------------------------- MODULE AtomicJson -----------------------------
(***************************************************************************)
(* One small JSON file on the FAT card and the routine that replaces it:   *)
(* write_json_atomic in storage_sd.c (session.json) and its twin in        *)
(* agenda_todo.c (agenda.json, manifest.json of a voice to-do).            *)
(*                                                                         *)
(* A replacement is five card operations, each an action: write <f>.tmp,   *)
(* sync it, unlink <f>.bak, rename <f> to <f>.bak, rename <f>.tmp to <f>.  *)
(* Power can be lost between any two of them and each of them can fail,    *)
(* softly (the routine cleans up and returns an error) or with an I/O      *)
(* fault (no more card access until the next boot).                        *)
(*                                                                         *)
(* Assumed of the card: an operation that returned took effect, one that   *)
(* power loss interrupted did or did not, a rename onto a name that is in  *)
(* use fails (FatFs FR_EXIST).                                             *)
(***************************************************************************)
EXTENDS Naturals

CONSTANTS
  None,          \* no such file
  Torn,          \* a file whose content was not synced
  ReadsBackup,   \* does the reader fall back to .bak (agenda_todo: yes)
  ChecksUnlink,  \* does a failed unlink of .bak end the routine (storage_sd: yes)
  MaxGen,        \* bound: generations written
  MaxFailures    \* bound: power losses and failed operations

Document == [gen : 1..MaxGen, whole : BOOLEAN]

ASSUME MarkerAssumption ==
  /\ None # Torn
  /\ None \notin Document
  /\ Torn \notin Document
ASSUME SwitchAssumption == ReadsBackup \in BOOLEAN /\ ChecksUnlink \in BOOLEAN
ASSUME BoundAssumption == MaxGen \in Nat \ {0} /\ MaxFailures \in Nat

VARIABLES
  path, tmp, bak,  \* what the three directory entries hold
  pc,              \* the next card operation of the routine, or "idle"
  doc,             \* the document being written
  had,             \* had_current: there was a file to move away
  stored,          \* the last generation a call reported as stored, 0 before
  failures,        \* failures so far
  exposed          \* history: an update began while <f> itself was missing

jsonvars == <<path, tmp, bak, pc, doc, had, stored, failures, exposed>>

Readable(file) == file \notin {None, Torn}

(* What the owner of the file finds: <f>, else <f>.bak if it looks there.  *)
Loaded == IF Readable(path) THEN path
          ELSE IF ReadsBackup /\ Readable(bak) THEN bak
          ELSE None

(* The same with the fallback the documents ask for.                       *)
Recoverable == IF Readable(path) THEN path
               ELSE IF Readable(bak) THEN bak ELSE None

JsonTypeOK ==
  /\ path \in Document \cup {None}   \* only tmp is ever torn
  /\ tmp \in Document \cup {None, Torn}
  /\ bak \in Document \cup {None}
  /\ pc \in {"idle", "sync", "unlink", "keep", "commit", "faulted"}
  /\ doc \in Document \cup {None}
  /\ had \in BOOLEAN
  /\ stored \in 0..MaxGen
  /\ failures \in 0..MaxFailures
  /\ exposed \in BOOLEAN

JsonInit ==
  /\ path = None /\ tmp = None /\ bak = None
  /\ pc = "idle" /\ doc = None /\ had = FALSE
  /\ stored = 0 /\ failures = 0 /\ exposed = FALSE

Cleaned == {None, tmp}   \* unlink(temp), whose own result is not looked at

-----------------------------------------------------------------------------
(* An update reads the document, changes it and starts to write it to tmp. *)
(* The first one creates it; a later one that finds nothing to read        *)
(* rebuilds a default, so what only the file knew (title, scene, start     *)
(* time) is gone: whole = FALSE.                                           *)
Begin ==
  /\ pc = "idle"
  /\ \E g \in 1..MaxGen :
       /\ g = (IF doc = None THEN 1 ELSE doc.gen + 1)
       /\ doc' = [gen |-> g,
                  whole |-> g = 1 \/ stored = 0 \/ (Loaded # None /\ Loaded.whole)]
  /\ tmp' = Torn
  /\ exposed' = (exposed \/ (stored # 0 /\ path = None))
  /\ pc' = "sync"
  /\ UNCHANGED <<path, bak, had, stored, failures>>

SyncTmp ==
  /\ pc = "sync"
  /\ tmp' = doc
  /\ pc' = "unlink"
  /\ UNCHANGED <<path, bak, doc, had, stored, failures, exposed>>

UnlinkBak ==
  /\ pc = "unlink"
  /\ bak' = None
  /\ pc' = "keep"
  /\ UNCHANGED <<path, tmp, doc, had, stored, failures, exposed>>

(* Wrong variants: the current file is removed instead of kept; it is      *)
(* removed when .bak is in the way.                                        *)
KeepCurrentRemoves ==
  /\ pc = "keep"
  /\ path' = None
  /\ had' = (path # None)
  /\ pc' = "commit"
  /\ UNCHANGED <<tmp, bak, doc, stored, failures, exposed>>
KeepCurrentOlder ==
  /\ pc = "keep"
  /\ bak' = IF bak = None THEN path ELSE bak
  /\ path' = None
  /\ had' = (path # None)
  /\ pc' = "commit"
  /\ UNCHANGED <<tmp, doc, stored, failures, exposed>>

(* rename(path, backup), when there is a current file.                     *)
KeepCurrent ==
  /\ pc = "keep"
  /\ path # None => bak = None
  /\ bak' = IF path = None THEN bak ELSE path
  /\ path' = None
  /\ had' = (path # None)
  /\ pc' = "commit"
  /\ UNCHANGED <<tmp, doc, stored, failures, exposed>>

(* rename(temp, path), the call returns success.                           *)
Commit ==
  /\ pc = "commit"
  /\ path' = tmp /\ tmp' = None
  /\ stored' = doc.gen
  /\ exposed' = FALSE
  /\ pc' = "idle"
  /\ UNCHANGED <<bak, doc, had, failures>>

-----------------------------------------------------------------------------
(* Soft failures: the routine undoes what it can and returns an error.     *)
Failure == failures < MaxFailures /\ failures' = failures + 1

SyncFails ==
  /\ pc = "sync"
  /\ Failure
  /\ tmp' \in Cleaned
  /\ pc' = "idle"
  /\ UNCHANGED <<path, bak, doc, had, stored, exposed>>

(* agenda_todo does not look at the result and goes on.                    *)
UnlinkFails ==
  /\ pc = "unlink"
  /\ Failure
  /\ bak # None
  /\ IF ChecksUnlink
       THEN pc' = "idle" /\ tmp' \in Cleaned
       ELSE pc' = "keep" /\ tmp' = tmp
  /\ UNCHANGED <<path, bak, doc, had, stored, exposed>>

(* Either the card fails it, or .bak is still in the way.                  *)
KeepFails ==
  /\ pc = "keep"
  /\ path # None
  /\ IF bak = None THEN Failure ELSE UNCHANGED failures
  /\ tmp' \in Cleaned
  /\ pc' = "idle"
  /\ UNCHANGED <<path, bak, doc, had, stored, exposed>>

(* The undo rename is not checked: it may fail as the commit did.          *)
CommitFails ==
  /\ pc = "commit"
  /\ Failure
  /\ \/ had /\ path' = bak /\ bak' = None
     \/ UNCHANGED <<path, bak>>
  /\ tmp' \in Cleaned
  /\ pc' = "idle"
  /\ UNCHANGED <<doc, had, stored, exposed>>

(* An operation hits a physical fault: it has no effect and no later one   *)
(* is tried before the next boot.                                          *)
IoFault ==
  /\ pc \in {"sync", "unlink", "keep", "commit"}
  /\ Failure
  /\ pc' = "faulted"
  /\ UNCHANGED <<path, tmp, bak, doc, had, stored, exposed>>

PowerFails ==
  /\ pc \in {"sync", "unlink", "keep", "commit"}
  /\ Failure
  /\ pc' = "idle"
  /\ UNCHANGED <<path, tmp, bak, doc, had, stored, exposed>>

Reboot ==
  /\ pc = "faulted"
  /\ pc' = "idle"
  /\ UNCHANGED <<path, tmp, bak, doc, had, stored, failures, exposed>>

JsonNext ==
  \/ Begin \/ SyncTmp \/ UnlinkBak \/ KeepCurrent \/ Commit
  \/ SyncFails \/ UnlinkFails \/ KeepFails \/ CommitFails
  \/ IoFault \/ PowerFails \/ Reboot

JsonSpec == JsonInit /\ [][JsonNext]_jsonvars

-----------------------------------------------------------------------------
(* Whatever was reported as stored can still be found, under the name or   *)
(* under .bak, through every failure, as long as no update began while the *)
(* file itself was missing (write_json_atomic keeps one of the two names   *)
(* occupied by a synced document at every step).                           *)
Survives ==
  stored # 0 /\ ~exposed =>
    Recoverable # None /\ Recoverable.gen = stored

(* No failure, undo or reboot brings an older generation back.             *)
NeverOlder ==
  [][stored # 0 /\ ~exposed' /\ Recoverable # None =>
       Recoverable' # None /\ Recoverable'.gen >= Recoverable.gen]_jsonvars

(* The inductive strengthening of Survives: where the stored generation is *)
(* at each operation of the routine.                                       *)
WhereStored ==
  /\ pc \in {"sync", "unlink", "keep", "commit"} => doc # None
  /\ pc \in {"unlink", "keep", "commit"} => tmp = doc
  /\ path # None => path.gen = stored
  /\ pc = "commit" /\ had => bak # None /\ bak.gen = stored
  /\ stored # 0 /\ ~exposed =>
       /\ path = None => bak # None /\ bak.gen = stored
       /\ pc \in {"sync", "unlink", "keep"} => path # None
       /\ pc = "commit" => had

(* What only the document knew is not replaced by defaults after a single  *)
(* failure.  With the fallback to .bak that holds, without it (read_json   *)
(* in storage_sd.c) one power loss between the renames is enough:          *)
(* SESSION_MANIFEST_SCHEMA.md:94.                                          *)
MetadataWhole == failures <= 1 /\ Readable(path) => path.whole
=============================================================================
