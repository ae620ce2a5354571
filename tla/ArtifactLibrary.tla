-------------------------- MODULE ArtifactLibrary --------------------------
(***************************************************************************)
(* One output file of an artifact and its row in the library: recordings   *)
(* (RecordManifests) and verifications (VerifyArtifact) by several         *)
(* processes, while the file is replaced, rewritten in place or removed.   *)
(* A file is its inode, the version of its bytes and their number; equal   *)
(* versions are equal bytes with the same modification time, and a version *)
(* stands for its SHA-256 as well.                                         *)
(***************************************************************************)
EXTENDS Integers, FiniteSets

CONSTANTS
  MaxLibraryCalls,   \* bound: recordings and verifications
  MaxMediaChanges,   \* bound: changes of the file
  MediaBytes         \* the sizes it may have

ASSUME MediaAssumption == {MaxLibraryCalls, MaxMediaChanges} \subseteq Nat /\ MediaBytes \subseteq Nat

Calls == 1..MaxLibraryCalls
NoMedia == [inode |-> 0, version |-> 0, bytes |-> 0]
NoDigest == 0
TornDigest == -1
NoRow == [bytes |-> 0, digest |-> NoDigest, present |-> FALSE]

VARIABLES
  media,      \* the file under the path, or NoMedia
  everMedia,  \* history: <<bytes, version>> of every file there was
  known,      \* the library has the artifact
  row,        \* artifact_files
  storedManifest, \* manifest_json: bytes and digest
  call        \* each call: what it is, where it stands, what it has read and found

alVars == <<media, everMedia, known, row, storedManifest, call>>
storeVars == <<known, row, storedManifest>>
mediaVars == <<media, everMedia>>

NoCall == [kind |-> "none", hash |-> FALSE, at |-> "idle", read |-> NoRow, seen |-> NoMedia,
           digest |-> NoDigest, found |-> "none"]

(* A library of an earlier release may know the artifact without a digest. *)
AlInit ==
  /\ media = [inode |-> 1, version |-> 1, bytes |-> 1] /\ everMedia = {<<1, 1>>}
  /\ \/ known = FALSE /\ row = NoRow
     \/ known = TRUE /\ row = [bytes |-> 1, digest |-> NoDigest, present |-> TRUE]
  /\ storedManifest = [bytes |-> row.bytes, digest |-> row.digest]
  /\ call = [l \in Calls |-> NoCall]

CallAt(l, kind, at) == call[l].kind = kind /\ call[l].at = at
EndCall(l, how) == call' = [call EXCEPT ![l] = [NoCall EXCEPT !.at = how]]
LibraryFails(l) == EndCall(l, "failed")
NextCall(l) == call[l].at = "idle" /\ \A m \in 1..(l - 1) : call[m].at # "idle"

---------------------------------------------------------------------------
(* RecordManifests: Build checks the file as it is now and takes its size, *)
BuildManifest(l) ==
  /\ NextCall(l) /\ media # NoMedia
  /\ call' = [call EXCEPT ![l] = [@ EXCEPT !.kind = "record", !.hash = TRUE, !.at = "opening", !.read.bytes = media.bytes]]
  /\ UNCHANGED <<mediaVars, storeVars>>

(* VerifyArtifact: the manifest, then the rows; an unknown artifact is an error. *)
GetArtifact(l) ==
  /\ NextCall(l) /\ known
  /\ \E h \in BOOLEAN :
       call' = [call EXCEPT ![l] = [@ EXCEPT !.kind = "verify", !.hash = h, !.at = "opening", !.read = row, !.digest = row.digest]]
  /\ UNCHANGED <<mediaVars, storeVars>>

Found(l, status) == call' = [call EXCEPT ![l].at = "committing", ![l].found = status]

(* hashStoredFile and verifyArtifactFile open the file: it must be there with
   the expected size. *)
OpenMedia(l) ==
  /\ call[l].at = "opening"
  /\ IF media # NoMedia /\ media.bytes = call[l].read.bytes
     THEN call' = [call EXCEPT ![l].at = IF call[l].hash THEN "hashing" ELSE "confirming", ![l].seen = media]
     ELSE IF call[l].kind = "record" THEN LibraryFails(l)
     ELSE Found(l, IF media = NoMedia THEN "missing" ELSE "size")
  /\ UNCHANGED <<mediaVars, storeVars>>

(* hashFile reads the opened file; what changes meanwhile may be read in part. *)
HashMedia(l) ==
  /\ call[l].at = "hashing"
  /\ \E d \in {call[l].seen.version} \union (IF media = call[l].seen THEN {} ELSE {TornDigest}) :
       IF call[l].kind = "verify" /\ call[l].read.digest \notin {NoDigest, d} THEN Found(l, "hash")
       ELSE call' = [call EXCEPT ![l].at = "confirming", ![l].digest = d]
  /\ UNCHANGED <<mediaVars, storeVars>>

(* Wrong variant: the digest is taken without looking at the file again. *)
TrustHash(l) ==
  /\ call[l].at = "confirming" /\ Found(l, "present")
  /\ UNCHANGED <<mediaVars, storeVars>>

(* validateStableCompletedFile: the path must still name the file that was
   read, with the same size and modification time. *)
ConfirmStable(l) ==
  /\ call[l].at = "confirming"
  /\ IF media = call[l].seen THEN Found(l, "present")
     ELSE IF call[l].kind = "record" THEN LibraryFails(l)
     ELSE call' = [call EXCEPT ![l].at = "committing", ![l].found = "notRegular", ![l].digest = call[l].read.digest]
  /\ UNCHANGED <<mediaVars, storeVars>>

(* recordManifestTx: manifest and rows in one transaction. *)
CommitManifest(l) ==
  /\ CallAt(l, "record", "committing")
  /\ \/ /\ known' = TRUE /\ row' = [bytes |-> call[l].read.bytes, digest |-> call[l].digest, present |-> TRUE]
        /\ storedManifest' = [bytes |-> call[l].read.bytes, digest |-> call[l].digest]
        /\ EndCall(l, "done")
     \/ LibraryFails(l) /\ UNCHANGED storeVars
  /\ UNCHANGED mediaVars

(* Wrong variant: a verification stores the digest it found over any other. *)
StoreFoundDigest(l) ==
  /\ CallAt(l, "verify", "committing") /\ EndCall(l, "done")
  /\ row' = [row EXCEPT !.present = (call[l].found = "present"),
                        !.digest = IF call[l].found = "present" THEN call[l].digest ELSE @]
  /\ UNCHANGED <<mediaVars, known, storedManifest>>

(* recordVerification: presence is stored, and a digest only where there is
   none. *)
RecordVerification(l) ==
  /\ CallAt(l, "verify", "committing")
  /\ \/ /\ EndCall(l, "done")
        /\ row' = [row EXCEPT !.present = (call[l].found = "present"),
                              !.digest = IF call[l].found = "present" /\ @ = NoDigest THEN call[l].digest ELSE @]
        /\ UNCHANGED <<known, storedManifest>>
     \/ LibraryFails(l) /\ UNCHANGED storeVars
  /\ UNCHANGED mediaVars

---------------------------------------------------------------------------
Changes == Cardinality(everMedia) - 1
Put(file) == Changes < MaxMediaChanges /\ media' = file /\ everMedia' = everMedia \union {<<file.bytes, file.version>>}

(* The file is replaced by a download or the user, or written in place. *)
ReplaceMedia ==
  /\ \E n \in MediaBytes : \E i \in {media.inode, Changes + 2} :
       i # 0 /\ Put([inode |-> i, version |-> Changes + 2, bytes |-> n])
  /\ UNCHANGED <<storeVars, call>>

RemoveMedia == media # NoMedia /\ media' = NoMedia /\ UNCHANGED <<everMedia, storeVars, call>>

AlProgress == \E l \in Calls : OpenMedia(l) \/ HashMedia(l) \/ ConfirmStable(l) \/ CommitManifest(l) \/ RecordVerification(l)
AlNext == AlProgress \/ ReplaceMedia \/ RemoveMedia \/ \E l \in Calls : BuildManifest(l) \/ GetArtifact(l)

---------------------------------------------------------------------------
(* Whatever happens to the file meanwhile, the digest in the library is that
   of a file of the recorded size that was there under this path ... *)
RowDescribesMedia == row.digest # NoDigest => <<row.bytes, row.digest>> \in everMedia

(* ... and that of the manifest that was recorded last, which a verification
   never contradicts. *)
ManifestKept == known => storedManifest.bytes = row.bytes /\ storedManifest.digest \in {NoDigest, row.digest}

AlSafe == RowDescribesMedia /\ ManifestKept
AlEnded == \A l \in Calls : call[l].at \in {"idle", "done", "failed"}
=============================================================================
