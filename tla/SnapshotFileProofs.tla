-------------------------- MODULE SnapshotFileProofs --------------------------
(* save() of SnapshotFile keeps the contract of AtomicFile, for any set of *)
(* contents and any number of failures, kills and power losses.            *)
EXTENDS SnapshotFile, TLAPS

(* Nothing torn is ever reachable under the name of the job file, and what *)
(* it refers to now is among what a power loss may leave.                  *)
PathInv ==
  /\ dir["path"] \in onDisk
  /\ \A f \in onDisk : f # NoFile => f.synced

(* The temporary file holds the argument until the rename, fsynced after   *)
(* the fsync; from the rename on the job file does.                        *)
TempInv ==
  /\ step = "sync" => dir["tmp"] = [data |-> saving, synced |-> FALSE]
  /\ step \in {"backup", "rename"} => dir["tmp"] = [data |-> saving, synced |-> TRUE]
  /\ step \in {"syncDir", "undo", "syncStuck"} => dir["path"] = [data |-> saving, synced |-> TRUE]

(* The rollback name holds what the job file was, which until the second   *)
(* fsync a power loss may bring back.                                      *)
BackupInv ==
  /\ step = "idle" => saving = NoContent
  /\ step = "rename" => /\ hadPrevious = (dir["path"] # NoFile)
                        /\ hadPrevious => dir["bak"] = dir["path"]
  /\ step \in {"syncDir", "undo", "syncStuck"} =>
       /\ hadPrevious => dir["bak"] # NoFile /\ dir["bak"] \in onDisk
       /\ ~hadPrevious => NoFile \in onDisk

SfIInv == SfTypeOK /\ PathInv /\ TempInv /\ BackupInv

-------------------------------------------------------------------------------
USE ContentsAssumption DEF ContentsAssumption

(* A directory is told by its three entries.                               *)
LEMMA DirEntries ==
  ASSUME NEW d \in [Names -> File \cup {NoFile}]
  PROVE  /\ d["path"] \in File \cup {NoFile}
         /\ d["tmp"] \in File \cup {NoFile}
         /\ d["bak"] \in File \cup {NoFile}
BY DEF Names

(* A removal leaves the other names alone.                                 *)
LEMMA RemovedEntries ==
  ASSUME NEW d \in [Names -> File \cup {NoFile}], NEW n \in Names, NEW e \in Removed(d, n)
  PROVE  /\ e \in [Names -> File \cup {NoFile}]
         /\ e[n] \in {d[n], NoFile}
         /\ \A m \in Names \ {n} : e[m] = d[m]
BY DEF Removed

(* A file that nobody has replaced yet.                                    *)
LEMMA InitSfIInv == SfInit => SfIInv
BY DEF SfInit, SfIInv, SfTypeOK, PathInv, TempInv, BackupInv, Names, Steps

(* A directory update keeps what a power loss may leave whole when the job *)
(* file does not change, or changes to an fsynced file.                    *)
LEMMA SetDirPath ==
  ASSUME SfIInv, NEW d \in [Names -> File \cup {NoFile}], SetDir(d),
         d["path"] # NoFile => d["path"].synced
  PROVE  /\ dir' = d
         /\ dir' \in [Names -> File \cup {NoFile}]
         /\ onDisk' \in SUBSET (File \cup {NoFile})
         /\ onDisk \subseteq onDisk'
         /\ PathInv'
BY DirEntries DEF SfIInv, SfTypeOK, PathInv, SetDir

(* The invariant does not look at the auxiliary names outside save().      *)
LEMMA ReturnSfIInv ==
  ASSUME Return, PathInv', dir' \in [Names -> File \cup {NoFile}],
         onDisk' \in SUBSET (File \cup {NoFile})
  PROVE  SfIInv'
BY DEF Return, SfIInv, SfTypeOK, TempInv, BackupInv, Steps

(* Every call of save(), every failure and every crash preserves it.       *)
LEMMA NextSfIInv == SfIInv /\ [SfNext]_sfVars => SfIInv'
<1> SUFFICES ASSUME SfIInv, [SfNext]_sfVars PROVE SfIInv'
  OBVIOUS
<1>0. /\ dir \in [Names -> File \cup {NoFile}]
      /\ dir["path"] \in onDisk
      /\ dir["path"] # NoFile => dir["path"].synced
      /\ saving \in Contents
  BY DEF SfIInv, SfTypeOK, PathInv
<1>1. ASSUME NEW s \in Contents, SaveCall(s) PROVE SfIInv'
  BY <1>1 DEF SaveCall, SfIInv, SfTypeOK, PathInv, TempInv, BackupInv, Steps
<1>2. CASE WriteTemp
  <2> DEFINE f == [data |-> saving, synced |-> FALSE]
             d == [dir EXCEPT !["tmp"] = f]
  <2>1. f \in File
    BY <1>0 DEF File
  <2>2. d \in [Names -> File \cup {NoFile}] /\ d["tmp"] = f /\ d["path"] = dir["path"]
    BY <1>0, <2>1 DEF Names
  <2>3. SetDir(d) /\ step' = "sync" /\ UNCHANGED <<saving, hadPrevious>>
    BY <1>2 DEF WriteTemp
  <2> HIDE DEF d
  <2>4. /\ dir' = d /\ dir' \in [Names -> File \cup {NoFile}]
        /\ onDisk' \in SUBSET (File \cup {NoFile}) /\ PathInv'
    BY <1>0, <2>2, <2>3, SetDirPath
  <2> QED
    BY <2>2, <2>3, <2>4 DEF SfIInv, SfTypeOK, TempInv, BackupInv, Steps
<1>3. CASE SyncTemp
  <2>1. /\ dir' = [dir EXCEPT !["tmp"].synced = TRUE]
        /\ step = "sync" /\ step' = "backup" /\ UNCHANGED <<onDisk, saving, hadPrevious>>
    BY <1>3 DEF SyncTemp
  <2>2. dir["tmp"] = [data |-> saving, synced |-> FALSE]
    BY <2>1 DEF SfIInv, TempInv
  <2>3. dir' = [dir EXCEPT !["tmp"] = [data |-> saving, synced |-> TRUE]]
    <3>1. dir' = [dir EXCEPT !["tmp"] = [dir["tmp"] EXCEPT !.synced = TRUE]]
      BY <2>1
    <3>2. [[data |-> saving, synced |-> FALSE] EXCEPT !.synced = TRUE]
            = [data |-> saving, synced |-> TRUE]
      <4>1. \A b, c : [[data |-> saving, synced |-> b] EXCEPT !.synced = c]
                        = [data |-> saving, synced |-> c]
        BY SMT
      <4> QED
        BY <4>1, Zenon
    <3> QED
      BY <2>2, <3>1, <3>2
  <2>4. [data |-> saving, synced |-> TRUE] \in File
    BY <1>0 DEF File
  <2>5. /\ dir' \in [Names -> File \cup {NoFile}]
        /\ dir'["tmp"] = [data |-> saving, synced |-> TRUE]
        /\ dir'["path"] = dir["path"]
    BY <1>0, <2>3, <2>4 DEF Names
  <2> QED
    BY <2>1, <2>5 DEF SfIInv, SfTypeOK, PathInv, TempInv, BackupInv, Steps
<1>4. CASE FailEarly
  <2> USE DEF Names
  <2>1. PICK backup \in (CASE step \in {"write", "sync"} -> {dir}
                     [] step = "rename" -> Removed(dir, "bak")
                     [] OTHER -> Removed(dir, "bak") \cup
                          {[dir EXCEPT !["bak"] = PartialCopy]}) :
                 \E d \in Removed(backup, "tmp") : SetDir(d)
    BY <1>4 DEF FailEarly
  <2>6. PICK d \in Removed(backup, "tmp") : SetDir(d)
    BY <2>1
  <2>2. PartialCopy \in File
    BY DEF PartialCopy, File
  <2>3. backup \in {dir} \cup Removed(dir, "bak") \cup {[dir EXCEPT !["bak"] = PartialCopy]}
    BY <2>1
  <2>4. backup \in [Names -> File \cup {NoFile}] /\ backup["path"] = dir["path"]
    BY <1>0, <2>2, <2>3, RemovedEntries
  <2>5. d \in [Names -> File \cup {NoFile}] /\ d["path"] = dir["path"]
    BY <2>6, <2>4, RemovedEntries
  <2> QED
    BY <1>0, <1>4, <2>6, <2>5, SetDirPath, ReturnSfIInv DEF FailEarly
<1>5. CASE CreateRollback
  <2> USE DEF Names
  <2>1. PICK d \in Removed(dir, "bak") :
          IF d["path"] = NoFile THEN SetDir(d)
          ELSE d["bak"] = NoFile /\ SetDir([d EXCEPT !["bak"] = d["path"]])
    BY <1>5 DEF CreateRollback
  <2>2. /\ d \in [Names -> File \cup {NoFile}]
        /\ d["path"] = dir["path"] /\ d["tmp"] = dir["tmp"]
    BY <1>0, <2>1, RemovedEntries
  <2>3. PICK e \in [Names -> File \cup {NoFile}] :
          /\ SetDir(e) /\ e["path"] = dir["path"] /\ e["tmp"] = dir["tmp"]
          /\ e["path"] # NoFile => e["bak"] = e["path"]
    <3>1. CASE d["path"] = NoFile
      BY <2>1, <2>2, <3>1
    <3>2. CASE d["path"] # NoFile
      <4>1. [d EXCEPT !["bak"] = d["path"]] \in [Names -> File \cup {NoFile}]
        BY <2>2
      <4> QED
        BY <2>1, <2>2, <3>2, <4>1
    <3> QED
      BY <3>1, <3>2
  <2>4. /\ dir' = e /\ dir' \in [Names -> File \cup {NoFile}]
        /\ onDisk' \in SUBSET (File \cup {NoFile}) /\ PathInv'
    BY <1>0, <2>3, SetDirPath
  <2>5. /\ step = "backup" /\ step' = "rename" /\ saving' = saving
        /\ hadPrevious' = (dir["path"] # NoFile)
    BY <1>5 DEF CreateRollback
  <2> QED
    BY <2>3, <2>4, <2>5 DEF SfIInv, SfTypeOK, TempInv, BackupInv, Steps
<1>6. CASE RenameTemp
  <2> USE DEF Names
  <2> DEFINE d == [dir EXCEPT !["path"] = dir["tmp"], !["tmp"] = NoFile]
             f == [data |-> saving, synced |-> TRUE]
  <2>1. step = "rename" /\ SetDir(d) /\ step' = "syncDir" /\ UNCHANGED <<saving, hadPrevious>>
    BY <1>6 DEF RenameTemp
  <2>2. dir["tmp"] = f /\ f \in File /\ f.synced
    BY <1>0, <2>1 DEF SfIInv, TempInv, File
  <2>3. d \in [Names -> File \cup {NoFile}] /\ d["path"] = f /\ d["bak"] = dir["bak"]
    BY <1>0, <2>2
  <2> HIDE DEF d, f
  <2>4. /\ dir' = d /\ dir' \in [Names -> File \cup {NoFile}]
        /\ onDisk' \in SUBSET (File \cup {NoFile}) /\ PathInv'
        /\ onDisk \subseteq onDisk'
    BY <2>1, <2>2, <2>3, SetDirPath
  <2> QED
    BY <1>0, <2>1, <2>3, <2>4 DEF SfIInv, SfTypeOK, TempInv, BackupInv, Steps, f
<1>7. CASE ConfirmRename
  <2>1. dir' \in Removed(dir, "bak") /\ onDisk' = {dir["path"]} /\ Return
    BY <1>7 DEF ConfirmRename
  <2>2. dir' \in [Names -> File \cup {NoFile}] /\ dir'["path"] = dir["path"]
    BY <1>0, <2>1, RemovedEntries DEF Names
  <2>3. onDisk' \in SUBSET (File \cup {NoFile}) /\ PathInv'
    BY <1>0, <2>1, <2>2, DirEntries DEF PathInv
  <2> QED
    BY <2>1, <2>2, <2>3, ReturnSfIInv
<1>8. CASE FailDirSync \/ FailUndo
  <2>1. /\ step \in {"syncDir", "undo"} /\ step' \in {"undo", "syncStuck"}
        /\ UNCHANGED <<dir, onDisk, saving, hadPrevious>>
    BY <1>8 DEF FailDirSync, FailUndo
  <2>2. SfTypeOK' /\ PathInv'
    BY <2>1 DEF SfIInv, SfTypeOK, PathInv, Steps
  <2>3. TempInv' /\ BackupInv'
    BY <2>1 DEF SfIInv, TempInv, BackupInv
  <2> QED
    BY <2>2, <2>3 DEF SfIInv
<1>9. CASE UndoRename
  <2> USE DEF Names
  <2> DEFINE d == IF hadPrevious
                  THEN [dir EXCEPT !["path"] = dir["bak"], !["bak"] = NoFile]
                  ELSE [dir EXCEPT !["path"] = NoFile]
  <2>1. step = "undo" /\ SetDir(d) /\ step' = "syncUndone" /\ UNCHANGED <<saving, hadPrevious>>
    BY <1>9 DEF UndoRename
  <2>2. d \in [Names -> File \cup {NoFile}] /\ (d["path"] # NoFile => d["path"].synced)
    BY <1>0, <2>1, DirEntries DEF SfIInv, PathInv, BackupInv
  <2> HIDE DEF d
  <2>3. /\ dir' \in [Names -> File \cup {NoFile}]
        /\ onDisk' \in SUBSET (File \cup {NoFile}) /\ PathInv'
    BY <2>1, <2>2, SetDirPath
  <2> QED
    BY <2>1, <2>3 DEF SfIInv, SfTypeOK, TempInv, BackupInv, Steps
<1>10. CASE SyncUndo
  <2>1. dir' = dir /\ onDisk' \in {{dir["path"]}, onDisk} /\ Return
    BY <1>10 DEF SyncUndo
  <2>2. onDisk' \in SUBSET (File \cup {NoFile}) /\ PathInv'
    BY <1>0, <2>1, DirEntries DEF SfIInv, SfTypeOK, PathInv
  <2> QED
    BY <1>0, <2>1, <2>2, ReturnSfIInv
<1>11. CASE Kill
  BY <1>11, ReturnSfIInv DEF Kill, SfIInv, SfTypeOK, PathInv
<1>12. CASE PowerLoss
  <2>1. PICK p \in onDisk, tmp \in {NoFile, PartialCopy}, bak \in {NoFile, PartialCopy} :
          /\ dir' = [path |-> p, tmp |-> tmp, bak |-> bak]
          /\ onDisk' = {p}
    BY <1>12 DEF PowerLoss
  <2>2. PartialCopy \in File
    BY DEF PartialCopy, File
  <2>3. p \in File \cup {NoFile} /\ (p # NoFile => p.synced)
    BY DEF SfIInv, SfTypeOK, PathInv
  <2>4. dir' \in [Names -> File \cup {NoFile}] /\ dir'["path"] = p
    BY <2>1, <2>2, <2>3 DEF Names
  <2>5. onDisk' \in SUBSET (File \cup {NoFile}) /\ PathInv'
    BY <2>1, <2>3, <2>4 DEF PathInv
  <2> QED
    BY <1>12, <2>4, <2>5, ReturnSfIInv DEF PowerLoss
<1>13. CASE UNCHANGED sfVars
  BY <1>13 DEF sfVars, SfIInv, SfTypeOK, PathInv, TempInv, BackupInv
<1> QED
  BY <1>1, <1>2, <1>3, <1>4, <1>5, <1>6, <1>7, <1>8, <1>9, <1>10, <1>11, <1>12, <1>13 DEF SfNext
(* The invariant holds of every state of the file system and of save().    *)
LEMMA SfInvariance == SfSpec => []SfIInv
BY InitSfIInv, NextSfIInv, PTL DEF SfSpec

(* Every variable keeps to its type.                                       *)
THEOREM SfTypeCorrect == SfSpec => []SfTypeOK
<1>1. SfIInv => SfTypeOK
  BY DEF SfIInv
<1> QED
  BY <1>1, SfInvariance, PTL

(* Whatever earlier saves left under the temporary name, what save()       *)
(* renames over the job file is its snapshot, whole and fsynced; nothing   *)
(* torn is ever reachable under the name of the job file.                  *)
THEOREM SfRenamedIsWhole == SfSpec => []RenamedIsWhole
<1>1. SfIInv => RenamedIsWhole
  BY DEF SfIInv, PathInv, TempInv, RenamedIsWhole
<1> QED
  BY <1>1, SfInvariance, PTL

(* Whatever fails, and wherever the process or the machine dies, save()    *)
(* finds under the rollback name, as long as it may need it, a fsynced     *)
(* copy of a content that a power loss could bring back anyway.            *)
THEOREM SfRollbackPointHeld == SfSpec => []RollbackPointHeld
<1>1. SfIInv => RollbackPointHeld
  BY DEF SfIInv, PathInv, BackupInv, RollbackPointHeld
<1> QED
  BY <1>1, SfInvariance, PTL

-------------------------------------------------------------------------------
(* A file a power loss may leave reads the same before and after it.       *)
LEMMA DurableReads ==
  ASSUME SfIInv
  PROVE  /\ \A f \in onDisk : Load(f) = ReadNow(f)
         /\ Load(dir["path"]) = ReadNow(dir["path"])
         /\ onDisk \cup {dir["path"]} = onDisk
BY DEF SfIInv, PathInv, Load, ReadNow

(* Outside save() the barred variables of a save are those of no save.     *)
LEMMA ReturnSettles ==
  ASSUME Return
  PROVE  Contract!SettleSave
BY DEF Return, Contract!SettleSave, SavePhase, PreviousContent

(* A step that leaves the job file's entry, what may be left of it and the *)
(* phase alone is none the contract sees.                                  *)
LEMMA Unseen ==
  ASSUME dir'["path"] = dir["path"], onDisk' = onDisk,
         SavePhase' = SavePhase, PreviousContent' = PreviousContent,
         saving' = saving
  PROVE  UNCHANGED Contract!fileVars
BY DEF Contract!fileVars, ReadNow, Load

(* The initial directory, empty, is an absent file.                        *)
LEMMA InitContract == SfInit => Contract!FileInit
BY DEF SfInit, Contract!FileInit, SavePhase, PreviousContent, ReadNow, Load, Names

(* Every step of save(), every failure and every crash is one of the       *)
(* contract's, or one it does not see.                                     *)
LEMMA NextContract ==
  SfIInv /\ SfIInv' /\ [SfNext]_sfVars => [Contract!FileNext]_(Contract!fileVars)
<1> SUFFICES ASSUME SfIInv, SfIInv', [SfNext]_sfVars
             PROVE  Contract!FileNext \/ UNCHANGED Contract!fileVars
  OBVIOUS
<1>0. /\ dir \in [Names -> File \cup {NoFile}]
      /\ dir["path"] \in onDisk
      /\ dir["path"] # NoFile => dir["path"].synced
      /\ saving \in Contents
  BY DEF SfIInv, SfTypeOK, PathInv
<1>1. ASSUME NEW s \in Contents, SaveCall(s) PROVE Contract!FileNext
  <2>1. Contract!BeginSave(s)
    BY <1>1 DEF SaveCall, Contract!BeginSave, SavePhase, PreviousContent, ReadNow, Load
  <2> QED
    BY <2>1 DEF Contract!FileNext
<1>2. CASE WriteTemp
  <2>1. /\ dir' = [dir EXCEPT !["tmp"] = [data |-> saving, synced |-> FALSE]]
        /\ onDisk' = onDisk \cup {dir'["path"]}
        /\ step = "write" /\ step' = "sync" /\ saving' = saving
    BY <1>2 DEF WriteTemp, SetDir
  <2>2. dir'["path"] = dir["path"]
    BY <1>0, <2>1 DEF Names
  <2>3. onDisk' = onDisk
    BY <2>1, <2>2, DurableReads
  <2> QED
    BY <2>1, <2>2, <2>3, Unseen DEF SavePhase, PreviousContent, ReadNow
<1>3. CASE SyncTemp
  <2>1. /\ dir' = [dir EXCEPT !["tmp"].synced = TRUE] /\ onDisk' = onDisk
        /\ step = "sync" /\ step' = "backup" /\ saving' = saving
    BY <1>3 DEF SyncTemp
  <2>2. dir'["path"] = dir["path"]
    BY <1>0, <2>1 DEF Names
  <2> QED
    BY <2>1, <2>2, Unseen DEF SavePhase, PreviousContent, ReadNow
<1>4. CASE FailEarly
  <2> USE DEF Names
  <2>1. PICK backup \in (CASE step \in {"write", "sync"} -> {dir}
                     [] step = "rename" -> Removed(dir, "bak")
                     [] OTHER -> Removed(dir, "bak") \cup
                          {[dir EXCEPT !["bak"] = PartialCopy]}) :
                 \E d \in Removed(backup, "tmp") : SetDir(d)
    BY <1>4 DEF FailEarly
  <2>2. PICK d \in Removed(backup, "tmp") : SetDir(d)
    BY <2>1
  <2>3. PartialCopy \in File
    BY DEF PartialCopy, File
  <2>4. backup \in {dir} \cup Removed(dir, "bak") \cup {[dir EXCEPT !["bak"] = PartialCopy]}
    BY <2>1
  <2>5. backup \in [Names -> File \cup {NoFile}] /\ backup["path"] = dir["path"]
    BY <1>0, <2>3, <2>4, RemovedEntries
  <2>6. d["path"] = dir["path"]
    BY <2>2, <2>5, RemovedEntries
  <2>7. dir'["path"] = dir["path"] /\ onDisk' = onDisk
    BY <2>2, <2>6, DurableReads DEF SetDir
  <2>8. Contract!SettleSave /\ SavePhase = "writing"
    BY <1>4, ReturnSettles DEF FailEarly, SavePhase
  <2>9. Contract!FailBeforeReplace
    BY <2>7, <2>8 DEF Contract!FailBeforeReplace, ReadNow, Load
  <2> QED
    BY <2>9 DEF Contract!FileNext, Contract!SaveErr
<1>5. CASE CreateRollback
  <2> USE DEF Names
  <2>1. PICK d \in Removed(dir, "bak") :
          IF d["path"] = NoFile THEN SetDir(d)
          ELSE d["bak"] = NoFile /\ SetDir([d EXCEPT !["bak"] = d["path"]])
    BY <1>5 DEF CreateRollback
  <2>2. d \in [Names -> File \cup {NoFile}] /\ d["path"] = dir["path"]
    BY <1>0, <2>1, RemovedEntries
  <2>3. dir'["path"] = dir["path"] /\ onDisk' = onDisk \cup {dir'["path"]}
    BY <2>1, <2>2 DEF SetDir
  <2>4. onDisk' = onDisk
    BY <2>3, DurableReads
  <2>5. step = "backup" /\ step' = "rename" /\ saving' = saving
    BY <1>5 DEF CreateRollback
  <2> QED
    BY <2>3, <2>4, <2>5, Unseen DEF SavePhase, PreviousContent, ReadNow
<1>6. CASE RenameTemp
  <2> DEFINE f == [data |-> saving, synced |-> TRUE]
  <2>1. /\ step = "rename" /\ step' = "syncDir" /\ UNCHANGED <<saving, hadPrevious>>
        /\ dir' = [dir EXCEPT !["path"] = dir["tmp"], !["tmp"] = NoFile]
        /\ onDisk' = onDisk \cup {dir'["path"]}
    BY <1>6 DEF RenameTemp, SetDir
  <2>2. dir["tmp"] = f /\ f # NoFile /\ ReadNow(f) = saving /\ Load(f) = saving
    <3>1. f \in File
      BY <1>0 DEF File
    <3> QED
      BY <2>1, <3>1 DEF SfIInv, TempInv, ReadNow, Load
  <2>3. dir'["path"] = f /\ dir'["bak"] = dir["bak"] /\ onDisk' = onDisk \cup {f}
    BY <1>0, <2>1, <2>2 DEF Names
  <2> HIDE DEF f
  <2>4. PreviousContent' = PreviousContent
    <3>1. PreviousContent = ReadNow(dir["path"])
      BY <2>1 DEF PreviousContent
    <3>2. PreviousContent' = IF hadPrevious THEN ReadNow(dir["bak"]) ELSE NoContent
      BY <2>1, <2>3 DEF PreviousContent, ReadNow
    <3>3. IF hadPrevious THEN dir["bak"] = dir["path"] ELSE dir["path"] = NoFile
      BY <2>1 DEF SfIInv, BackupInv
    <3> QED
      BY <3>1, <3>2, <3>3 DEF ReadNow
  <2>5. SavePhase = "writing" /\ SavePhase' = "replaced"
    BY <2>1 DEF SavePhase
  <2>6. {Load(g) : g \in onDisk}' = {Load(g) : g \in onDisk} \cup {saving}
    BY <2>2, <2>3 DEF Load
  <2>7. Contract!Replace
    BY <2>1, <2>2, <2>3, <2>4, <2>5, <2>6 DEF Contract!Replace, ReadNow
  <2> QED
    BY <2>7 DEF Contract!FileNext
<1>7. CASE ConfirmRename
  <2>1. dir' \in Removed(dir, "bak") /\ onDisk' = {dir["path"]} /\ Return /\ step = "syncDir"
    BY <1>7 DEF ConfirmRename
  <2>2. dir'["path"] = dir["path"]
    BY <1>0, <2>1, RemovedEntries DEF Names
  <2>3. Contract!SettleSave /\ SavePhase = "replaced"
    BY <2>1, ReturnSettles DEF SavePhase
  <2>4. {Load(g) : g \in onDisk}' = {ReadNow(dir["path"])}
    BY <2>1, DurableReads DEF Load
  <2>5. Contract!SaveOk
    BY <2>2, <2>3, <2>4 DEF Contract!SaveOk, ReadNow
  <2> QED
    BY <2>5 DEF Contract!FileNext
<1>8. CASE FailDirSync \/ FailUndo
  BY <1>8, Unseen DEF FailDirSync, FailUndo, SavePhase, PreviousContent, ReadNow
<1>9. CASE UndoRename
  <2> USE DEF Names
  <2>1. /\ step = "undo" /\ step' = "syncUndone" /\ UNCHANGED <<saving, hadPrevious>>
        /\ dir' = IF hadPrevious
                  THEN [dir EXCEPT !["path"] = dir["bak"], !["bak"] = NoFile]
                  ELSE [dir EXCEPT !["path"] = NoFile]
        /\ onDisk' = onDisk \cup {dir'["path"]}
    BY <1>9 DEF UndoRename, SetDir
  <2>2. /\ dir'["path"] = IF hadPrevious THEN dir["bak"] ELSE NoFile
        /\ dir'["path"] \in onDisk
    BY <1>0, <2>1 DEF SfIInv, BackupInv
  <2>3. onDisk' = onDisk
    BY <2>1, <2>2
  <2>4. ReadNow(dir["path"])' = PreviousContent /\ PreviousContent' = PreviousContent
    BY <2>1, <2>2 DEF PreviousContent, ReadNow
  <2>5. SavePhase = "replaced" /\ SavePhase' = "retracted"
    BY <2>1 DEF SavePhase
  <2>6. Contract!Retract
    BY <2>1, <2>3, <2>4, <2>5 DEF Contract!Retract, Load
  <2> QED
    BY <2>6 DEF Contract!FileNext
<1>10. CASE SyncUndo
  <2>1. /\ dir' = dir /\ onDisk' \in {{dir["path"]}, onDisk} /\ Return
        /\ step \in {"syncUndone", "syncStuck"}
    BY <1>10 DEF SyncUndo
  <2>2. Contract!SettleSave /\ SavePhase \in {"replaced", "retracted"}
    BY <2>1, ReturnSettles DEF SavePhase
  <2>3. {Load(g) : g \in onDisk}' \in {{Load(g) : g \in onDisk}, {ReadNow(dir["path"])}}
    BY <2>1, DurableReads DEF Load
  <2>4. Contract!FailAfterReplace
    BY <2>1, <2>2, <2>3 DEF Contract!FailAfterReplace, ReadNow
  <2> QED
    BY <2>4 DEF Contract!FileNext, Contract!SaveErr
<1>11. CASE Kill
  <2>1. Contract!Kill
    BY <1>11, ReturnSettles DEF Kill, Contract!Kill, ReadNow, Load
  <2> QED
    BY <2>1 DEF Contract!FileNext
<1>12. CASE PowerLoss
  <2>1. PICK p \in onDisk, tmp \in {NoFile, PartialCopy}, bak \in {NoFile, PartialCopy} :
          /\ dir' = [path |-> p, tmp |-> tmp, bak |-> bak]
          /\ onDisk' = {p}
    BY <1>12 DEF PowerLoss
  <2>2. dir'["path"] = p
    BY <2>1
  <2>3. Load(p) = ReadNow(p) /\ Contract!SettleSave
    BY <1>12, DurableReads, ReturnSettles DEF PowerLoss
  <2>4. ReadNow(dir["path"])' = Load(p) /\ {Load(g) : g \in onDisk}' = {Load(p)}
    BY <2>1, <2>2, <2>3 DEF ReadNow, Load
  <2>5. Contract!PowerLoss
    BY <2>3, <2>4 DEF Contract!PowerLoss
  <2> QED
    BY <2>5 DEF Contract!FileNext
<1>13. CASE UNCHANGED sfVars
  BY <1>13, Unseen DEF sfVars, SavePhase, PreviousContent, ReadNow
<1> QED
  BY <1>1, <1>2, <1>3, <1>4, <1>5, <1>6, <1>7, <1>8, <1>9, <1>10, <1>11, <1>12, <1>13 DEF SfNext

(* A load after any number of failed saves, kills and power losses finds a *)
(* whole content that was saved, the old one or the new one of the save    *)
(* that was cut short, and only the new one once save() returned nil.      *)
THEOREM SfImplementsAtomicFile == SfSpec => ImplementsAtomicFile
BY InitContract, NextContract, SfInvariance, PTL
   DEF SfSpec, ImplementsAtomicFile, Contract!FileSpec
===============================================================================
