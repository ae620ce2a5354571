------------------------------ MODULE AtomicFile ------------------------------
(***************************************************************************)
(* What internal/server/job_persistence.go promises of the job file: a     *)
(* save replaces the whole content, in one step that can be seen, and a    *)
(* save that succeeded has left nothing else for a power loss to bring     *)
(* back.  The name-by-name protocol that keeps the promise (temporary      *)
(* file, fsync, rollback link, rename, directory fsync) is SnapshotFile,   *)
(* which is checked to implement this module.                              *)
(***************************************************************************)
CONSTANTS
  Contents,     \* the snapshots a save may be given
  NoContent     \* in Contents: an absent file, for which load() finds no jobs

VARIABLES
  live,         \* what a load() of the running system would return
  durable,      \* what a load() after a power loss may return
  incoming,     \* the content being saved
  previous,     \* the content when that save began
  phase         \* how far that save has come, see FileTypeOK

fileVars == <<live, durable, incoming, previous, phase>>

FileInit ==
  /\ live = NoContent
  /\ durable = {NoContent}
  /\ incoming = NoContent
  /\ previous = NoContent
  /\ phase = "idle"

SettleSave ==
  /\ phase' = "idle"
  /\ incoming' = NoContent
  /\ previous' = NoContent

(* save() is called; until the rename the job file is untouched. *)
BeginSave(s) ==
  /\ phase = "idle"
  /\ phase' = "writing"
  /\ incoming' = s
  /\ previous' = live
  /\ UNCHANGED <<live, durable>>

(* The rename: loads now see the new content, a power loss either one. *)
Replace ==
  /\ phase = "writing"
  /\ phase' = "replaced"
  /\ live' = incoming
  /\ durable' = durable \cup {incoming}
  /\ UNCHANGED <<incoming, previous>>

(* save() returns nil: the directory fsync succeeded. *)
SaveOk ==
  /\ phase = "replaced"
  /\ durable' = {live}
  /\ UNCHANGED live
  /\ SettleSave

(* save() fails before or in the rename. *)
FailBeforeReplace ==
  /\ phase = "writing"
  /\ UNCHANGED <<live, durable>>
  /\ SettleSave

(* The directory fsync failed and the rollback rename succeeded. *)
Retract ==
  /\ phase = "replaced"
  /\ phase' = "retracted"
  /\ live' = previous
  /\ UNCHANGED <<durable, incoming, previous>>

(* save() fails after the rename, rolled back or not.  Whether the second  *)
(* directory fsync succeeded decides if a power loss can still tell.       *)
FailAfterReplace ==
  /\ phase \in {"replaced", "retracted"}
  /\ durable' \in {durable, {live}}
  /\ UNCHANGED live
  /\ SettleSave

SaveErr == FailBeforeReplace \/ FailAfterReplace

(* The process dies; the operating system keeps what it has. *)
Kill ==
  /\ UNCHANGED <<live, durable>>
  /\ SettleSave

(* The machine dies. *)
PowerLoss ==
  /\ live' \in durable
  /\ durable' = {live'}
  /\ SettleSave

FileNext ==
  \/ \E s \in Contents : BeginSave(s)
  \/ Replace
  \/ Retract
  \/ SaveOk
  \/ SaveErr
  \/ Kill
  \/ PowerLoss

FileSpec == FileInit /\ [][FileNext]_fileVars

FileTypeOK ==
  /\ live \in Contents
  /\ durable \in SUBSET Contents
  /\ incoming \in Contents
  /\ previous \in Contents
  /\ phase \in {"idle", "writing", "replaced", "retracted"}
===============================================================================
