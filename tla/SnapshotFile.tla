----------------------------- MODULE SnapshotFile -----------------------------
(***************************************************************************)
(* internal/server/job_persistence.go, directory entry by directory entry: *)
(* save() writes and fsyncs a temporary file, keeps a rollback link to the *)
(* old content, renames the temporary file over the job file and fsyncs    *)
(* the directory; when that fsync fails it renames the rollback link back. *)
(* Any call may fail, the process may be killed between two calls, and a   *)
(* power loss leaves the job file's directory entry at a value it had      *)
(* since the last directory fsync, with the data of a file never fsynced   *)
(* torn; the two auxiliary names may then be left with anything.           *)
(*                                                                         *)
(* dir and onDisk are the file system's, not the program's.                *)
(***************************************************************************)
EXTENDS Naturals

CONSTANTS Contents, NoContent, NoFile

Names == {"path", "tmp", "bak"}
File == [data : Contents, synced : BOOLEAN]

ASSUME ContentsAssumption == NoContent \in Contents /\ NoFile \notin File

VARIABLES
  dir,          \* what each name refers to now
  onDisk,       \* what "path" may refer to after a power loss
  step,         \* where save() stands, "idle" outside it
  saving,       \* its argument
  hadPrevious   \* its variable of that name

sfVars == <<dir, onDisk, step, saving, hadPrevious>>

Steps == {"idle", "write", "sync", "backup", "rename",
          "syncDir", "undo", "syncUndone", "syncStuck"}

(* load(): an absent file and a corrupt one both yield no jobs. *)
Load(f) == IF f = NoFile THEN NoContent
           ELSE IF f.synced THEN f.data ELSE NoContent

(* The running system reads its own writes, fsynced or not. *)
ReadNow(f) == IF f = NoFile THEN NoContent ELSE f.data

SfInit ==
  /\ dir = [n \in Names |-> NoFile]
  /\ onDisk = {NoFile}
  /\ step = "idle"
  /\ saving = NoContent
  /\ hadPrevious = FALSE

(* Directory updates: seen at once, durable at the next directory fsync. *)
SetDir(d) ==
  /\ dir' = d
  /\ onDisk' = onDisk \cup {d["path"]}

Return ==
  /\ step' = "idle"
  /\ saving' = NoContent
  /\ hadPrevious' = FALSE

(* A removal whose error the code ignores. *)
Removed(d, n) == {d, [d EXCEPT ![n] = NoFile]}

SaveCall(s) ==
  /\ step = "idle"
  /\ step' = "write"
  /\ saving' = s
  /\ UNCHANGED <<dir, onDisk, hadPrevious>>

(* Wrong variant: opened without O_TRUNC, over a leftover of an earlier    *)
(* save that could not be removed: what is read back is neither snapshot.  *)
WriteTempOverLeftover ==
  /\ step = "write"
  /\ \E d \in Removed(dir, "tmp") :
       SetDir([d EXCEPT !["tmp"] =
         [data |-> IF d["tmp"] = NoFile THEN saving ELSE NoContent, synced |-> FALSE]])
  /\ step' = "sync"
  /\ UNCHANGED <<saving, hadPrevious>>

(* Remove the stale temporary file, open, chmod, write: when the leftover  *)
(* could not be removed it is truncated.                                   *)
WriteTemp ==
  /\ step = "write"
  /\ SetDir([dir EXCEPT !["tmp"] = [data |-> saving, synced |-> FALSE]])
  /\ step' = "sync"
  /\ UNCHANGED <<saving, hadPrevious>>

(* Wrong variant: closed, but not fsynced. *)
CloseTemp ==
  /\ step = "sync"
  /\ step' = "backup"
  /\ UNCHANGED <<dir, onDisk, saving, hadPrevious>>

(* fsync and close it. *)
SyncTemp ==
  /\ step = "sync"
  /\ dir' = [dir EXCEPT !["tmp"].synced = TRUE]
  /\ step' = "backup"
  /\ UNCHANGED <<onDisk, saving, hadPrevious>>

(* A leftover that nothing reads: a torn file, a copy that failed. *)
PartialCopy == [data |-> NoContent, synced |-> FALSE]

(* An error before the rename or in it: the deferred removal of the        *)
(* temporary file, after what was done to the backup until then.           *)
FailEarly ==
  /\ step \in {"write", "sync", "backup", "rename"}
  /\ \E backup \in CASE step \in {"write", "sync"} -> {dir}
                     [] step = "rename" -> Removed(dir, "bak")
                     [] OTHER -> Removed(dir, "bak") \cup
                          {[dir EXCEPT !["bak"] = PartialCopy]} :
       \E d \in Removed(backup, "tmp") : SetDir(d)
  /\ Return

(* Wrong variant: the rollback copy is not fsynced. *)
CreateRollbackUnsynced ==
  /\ step = "backup"
  /\ \E d \in Removed(dir, "bak") :
       IF d["path"] = NoFile
       THEN SetDir(d)
       ELSE /\ d["bak"] = NoFile
            /\ SetDir([d EXCEPT !["bak"] = [d["path"] EXCEPT !.synced = FALSE]])
  /\ hadPrevious' = (dir["path"] # NoFile)
  /\ step' = "rename"
  /\ UNCHANGED saving

(* createRollbackFile: a hard link, or a fsynced copy when linking fails; *)
(* neither works while a stale backup could not be removed.               *)
CreateRollback ==
  /\ step = "backup"
  /\ \E d \in Removed(dir, "bak") :
       IF d["path"] = NoFile
       THEN SetDir(d)
       ELSE /\ d["bak"] = NoFile
            /\ SetDir([d EXCEPT !["bak"] = d["path"]])
  /\ hadPrevious' = (dir["path"] # NoFile)
  /\ step' = "rename"
  /\ UNCHANGED saving

RenameTemp ==
  /\ step = "rename"
  /\ SetDir([dir EXCEPT !["path"] = dir["tmp"], !["tmp"] = NoFile])
  /\ step' = "syncDir"
  /\ UNCHANGED <<saving, hadPrevious>>

(* The directory fsync succeeds; the backup is no longer needed. *)
ConfirmRename ==
  /\ step = "syncDir"
  /\ dir' \in Removed(dir, "bak")
  /\ onDisk' = {dir["path"]}
  /\ Return

FailDirSync ==
  /\ step = "syncDir"
  /\ step' = "undo"
  /\ UNCHANGED <<dir, onDisk, saving, hadPrevious>>

(* rollbackPersistenceRename *)
UndoRename ==
  /\ step = "undo"
  /\ SetDir(IF hadPrevious
            THEN [dir EXCEPT !["path"] = dir["bak"], !["bak"] = NoFile]
            ELSE [dir EXCEPT !["path"] = NoFile])
  /\ step' = "syncUndone"
  /\ UNCHANGED <<saving, hadPrevious>>

FailUndo ==
  /\ step = "undo"
  /\ step' = "syncStuck"
  /\ UNCHANGED <<dir, onDisk, saving, hadPrevious>>

(* The second directory fsync, whose failure is only reported. *)
SyncUndo ==
  /\ step \in {"syncUndone", "syncStuck"}
  /\ UNCHANGED dir
  /\ onDisk' \in {{dir["path"]}, onDisk}
  /\ Return

Kill ==
  /\ UNCHANGED <<dir, onDisk>>
  /\ Return

(* What was never fsynced is torn. *)
PowerLoss ==
  /\ \E p \in onDisk, tmp, bak \in {NoFile, PartialCopy} :
       /\ dir' = [path |-> p, tmp |-> tmp, bak |-> bak]
       /\ onDisk' = {p}
  /\ Return

SfNext ==
  \/ \E s \in Contents : SaveCall(s)
  \/ WriteTemp
  \/ SyncTemp
  \/ FailEarly
  \/ CreateRollback
  \/ RenameTemp
  \/ ConfirmRename
  \/ FailDirSync
  \/ UndoRename
  \/ FailUndo
  \/ SyncUndo
  \/ Kill
  \/ PowerLoss

SfSpec == SfInit /\ [][SfNext]_sfVars

SfTypeOK ==
  /\ dir \in [Names -> File \cup {NoFile}]
  /\ onDisk \in SUBSET (File \cup {NoFile})
  /\ step \in Steps
  /\ saving \in Contents
  /\ hadPrevious \in BOOLEAN

(* Whatever earlier saves, kills and power losses left under the temporary *)
(* name, what save() is about to rename over the job file is the snapshot  *)
(* it was called with, whole and fsynced; so no power loss ever leaves a   *)
(* torn file under the name of the job file.                               *)
RenamedIsWhole ==
  /\ step = "rename" => dir["tmp"] = [data |-> saving, synced |-> TRUE]
  /\ \A f \in onDisk : f # NoFile => f.synced

-------------------------------------------------------------------------------
(* The job file as the rest of the server sees it. *)
PreviousContent ==
  CASE step \in {"write", "sync", "backup", "rename"} -> ReadNow(dir["path"])
    [] step \in {"syncDir", "undo", "syncStuck"} ->
         IF hadPrevious THEN ReadNow(dir["bak"]) ELSE NoContent
    [] step = "syncUndone" -> ReadNow(dir["path"])
    [] OTHER -> NoContent

SavePhase ==
  CASE step \in {"write", "sync", "backup", "rename"} -> "writing"
    [] step \in {"syncDir", "undo", "syncStuck"} -> "replaced"
    [] step = "syncUndone" -> "retracted"
    [] OTHER -> "idle"

Contract == INSTANCE AtomicFile WITH
  live <- ReadNow(dir["path"]),
  durable <- {Load(f) : f \in onDisk},
  incoming <- saving,
  previous <- PreviousContent,
  phase <- SavePhase

(* save() keeps the promise of AtomicFile through failures of any of its   *)
(* calls, kills and power losses: a load finds the old content or the new  *)
(* one, whole, and only the new one once save() returned nil.              *)
ImplementsAtomicFile == Contract!FileSpec

(* Until the rename is known to be durable it can be taken back: while     *)
(* save() may still need it the rollback file is whole, fsynced, and holds *)
(* a content that a power loss could bring back anyway.                    *)
RollbackPointHeld ==
  (step \in {"rename", "syncDir", "undo"} /\ hadPrevious)
     => /\ dir["bak"] # NoFile
        /\ dir["bak"].synced
        /\ Load(dir["bak"]) \in {Load(f) : f \in onDisk}
===============================================================================
