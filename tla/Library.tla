------------------------------- MODULE Library -------------------------------
(***************************************************************************)
(* internal/library: the durable jobs and artifact manifests that the      *)
(* watcher, the TUI and one-shot downloads share through one SQLite        *)
(* database, and the media files they describe.                            *)
(*                                                                         *)
(* Each database call is one step with three answers: it was applied, its  *)
(* WHERE clause or lifecycle check refused it, or it failed and the caller *)
(* cannot tell whether it was applied (ErrDurableState).  A job's index is *)
(* its id and its age.  Files are told apart by the download that wrote    *)
(* them, a job j as j and the s-th one-shot download, which has no job, as *)
(* -s: every download is assumed to have its own sizes, so a manifest      *)
(* (whose entries are sizes) names exactly the files it was validated      *)
(* against.                                                                *)
(* Error summaries, attempts, times and presence marks, which no guard     *)
(* reads, are left out.                                                    *)
(***************************************************************************)
EXTENDS Integers, Sequences, FiniteSets

CONSTANTS
  Artifacts,      \* the logical artifacts: a lecture in a selection
  Plans,          \* the sets of output paths a lecture may be planned for
  Outputs,        \* how many files a plan has
  MaxTroubles,    \* bounds: failed calls, crashes and removed files together,
  MaxOneShots     \* and one-shot downloads

ASSUME LibraryAssumption ==
  /\ Artifacts # {}
  /\ Outputs \in Nat \ {0}
  /\ MaxTroubles \in Nat /\ MaxOneShots \in Nat

VARIABLES
  jobs,           \* table jobs, oldest first
  latest,         \* the latest manifest of each artifact, and its job or 0
  files,          \* of each path, the download that wrote its file, or 0
  intact,         \* history: jobs whose outputs were all there when the last
                  \* one was published, and that nobody touched since
  oneShot,        \* impartus download, which publishes media without a job
  troubles

media == <<files, intact, oneShot>>
library == <<jobs, latest, media, troubles>>

Open == {"pending", "running", "recoverable"}
Terminal == {"completed", "failed", "canceled"}
NoFiles == [o \in 1..Outputs |-> 0]
SomeOf(S) == CHOOSE x \in S : TRUE

NoOneShot == [at |-> "off", serial |-> 0, art |-> SomeOf(Artifacts),
              plan |-> SomeOf(Plans), published |-> 0, seen |-> NoFiles]

LibraryInit ==
  /\ jobs = <<>>
  /\ latest = [a \in Artifacts |-> [job |-> 0, plan |-> SomeOf(Plans), bytes |-> NoFiles]]
  /\ files = [a \in Artifacts |-> [p \in Plans |-> NoFiles]]
  /\ intact = {}
  /\ oneShot = NoOneShot
  /\ troubles = 0

JobIds == DOMAIN jobs
OfKind(kind) == {j \in JobIds : jobs[j].kind = kind}
WithStatus(kind, statuses) == {j \in OfKind(kind) : jobs[j].status \in statuses}

(* artifact.Build: every expected file is there and is a whole file, as    *)
(* files reach their final paths only by an atomic rename.                 *)
Media(j) == files[jobs[j].art][jobs[j].plan]
Whole(outputs) == \A o \in 1..Outputs : outputs[o] # 0

(* The files of the latest manifest are present with the recorded sizes.   *)
Committed(a) ==
  /\ latest[a].bytes # NoFiles
  /\ latest[a].bytes = files[a][latest[a].plan]

-------------------------------------------------------------------------------
(* Calls of the store; the caller goes on with done, refused or broken.    *)

Trouble == troubles < MaxTroubles /\ troubles' = troubles + 1

CreateJob(kind, a, p, done, broken) ==
  LET created == Append(jobs, [kind |-> kind, art |-> a, plan |-> p, status |-> "pending"])
  IN /\ UNCHANGED <<latest, media>>
     /\ \/ UNCHANGED troubles /\ jobs' = created /\ done
        \/ Trouble /\ jobs' \in {jobs, created} /\ broken

Moved(j, from, to) ==
  IF jobs[j].status \in from THEN [jobs EXCEPT ![j].status = to] ELSE jobs

Transition(j, from, to, done, broken) ==
  /\ UNCHANGED <<latest, media>>
  /\ \/ /\ UNCHANGED troubles
        /\ jobs' = Moved(j, from, to)
        /\ IF jobs[j].status \in from THEN done ELSE broken
     \/ Trouble /\ jobs' \in {jobs, Moved(j, from, to)} /\ broken

Startable == {"pending", "recoverable"}
StartJob(j, done, broken) == Transition(j, Startable, "running", done, broken)

(* Wrong variant: an ended job can be ended again. *)
FinishJobEnded(j, outcome, done, broken) ==
  Transition(j, Open \cup Terminal, outcome, done, broken)
FinishJob(j, outcome, done, broken) == Transition(j, Open, outcome, done, broken)

(* completeValidatedJob's transaction: the manifest of the validated files *)
(* becomes the latest one together with the job's completion.              *)
Completable == {"running", "recoverable"}

Recorded(j, bytes) ==
  [latest EXCEPT ![jobs[j].art] = [job |-> j, plan |-> jobs[j].plan, bytes |-> bytes]]

CompleteJob(j, bytes, done, refused, broken) ==
  LET commits == /\ jobs' = Moved(j, Completable, "completed")
                 /\ latest' = IF jobs[j].status \in Completable
                              THEN Recorded(j, bytes) ELSE latest
  IN /\ UNCHANGED media
     /\ \/ /\ UNCHANGED troubles
           /\ commits
           /\ IF jobs[j].status \in Completable \cup {"completed"} THEN done ELSE refused
        \/ Trouble /\ (commits \/ UNCHANGED <<jobs, latest>>) /\ broken

(* The first statement of RecoverInterruptedJobs.                          *)
(* Wrong variant: recovery claims running jobs of every kind. *)
InterruptedAny(kind) == {j \in JobIds : jobs[j].status = "running"}
Interrupted(kind) == WithStatus(kind, {"running"})

MarkInterrupted(kind, done, broken) ==
  LET marked == [j \in JobIds |-> IF j \in Interrupted(kind)
                                  THEN [jobs[j] EXCEPT !.status = "recoverable"]
                                  ELSE jobs[j]]
  IN /\ UNCHANGED <<latest, media>>
     /\ \/ UNCHANGED troubles /\ jobs' = marked /\ done
        \/ Trouble /\ jobs' \in {jobs, marked} /\ broken

-------------------------------------------------------------------------------
(* The files.                                                              *)

Untouched(a, p) == {j \in intact : jobs[j].art # a \/ jobs[j].plan # p}

Publish(j, o) ==
  /\ files' = [files EXCEPT ![jobs[j].art][jobs[j].plan][o] = j]
  /\ intact' = Untouched(jobs[j].art, jobs[j].plan)
                 \cup {i \in {j} : /\ o = Outputs
                                   /\ \A q \in 1..(o - 1) : Media(j)[q] # 0}
  /\ UNCHANGED <<jobs, latest, oneShot, troubles>>

RemoveFile(a, p, o) ==
  /\ files[a][p][o] # 0
  /\ Trouble
  /\ files' = [files EXCEPT ![a][p][o] = 0]
  /\ intact' = Untouched(a, p)
  /\ UNCHANGED <<jobs, latest, oneShot>>

-------------------------------------------------------------------------------
(* impartus download: it publishes its outputs wherever its configuration  *)
(* says, whoever else downloads the lecture, and records their manifest    *)
(* without a job.  A failed record is a warning.                           *)

OneShotOver == oneShot' = [NoOneShot EXCEPT !.serial = oneShot.serial]

OneShotStart(a, p) ==
  /\ oneShot.at = "off" /\ oneShot.serial < MaxOneShots
  /\ oneShot' = [NoOneShot EXCEPT !.at = "download", !.serial = oneShot.serial + 1,
                                  !.art = a, !.plan = p]
  /\ UNCHANGED <<jobs, latest, files, intact, troubles>>

OneShotPublish ==
  /\ oneShot.at = "download" /\ oneShot.published < Outputs
  /\ files' = [files EXCEPT
       ![oneShot.art][oneShot.plan][oneShot.published + 1] = 0 - oneShot.serial]
  /\ intact' = Untouched(oneShot.art, oneShot.plan)
  /\ oneShot' = [oneShot EXCEPT !.published = @ + 1]
  /\ UNCHANGED <<jobs, latest, troubles>>

OneShotFails ==
  /\ oneShot.at = "download" /\ oneShot.published < Outputs
  /\ OneShotOver
  /\ UNCHANGED <<jobs, latest, files, intact, troubles>>

(* RecordManifests validates and digests the files before it commits.      *)
OneShotDigest ==
  /\ oneShot.at = "download" /\ oneShot.published = Outputs
  /\ LET outputs == files[oneShot.art][oneShot.plan]
     IN IF Whole(outputs)
        THEN oneShot' = [oneShot EXCEPT !.at = "record", !.seen = outputs]
        ELSE OneShotOver
  /\ UNCHANGED <<jobs, latest, files, intact, troubles>>

OneShotRecord ==
  /\ oneShot.at = "record"
  /\ LET commits == latest' = [latest EXCEPT ![oneShot.art] =
                      [job |-> 0, plan |-> oneShot.plan, bytes |-> oneShot.seen]]
     IN \/ UNCHANGED troubles /\ commits
        \/ Trouble /\ (commits \/ UNCHANGED latest)
  /\ OneShotOver
  /\ UNCHANGED <<jobs, files, intact>>

OneShotDies ==
  /\ oneShot.at # "off"
  /\ Trouble
  /\ OneShotOver
  /\ UNCHANGED <<jobs, latest, files, intact>>

OneShot ==
  \/ \E a \in Artifacts, p \in Plans : OneShotStart(a, p)
  \/ OneShotPublish \/ OneShotFails \/ OneShotDigest \/ OneShotRecord \/ OneShotDies
==============================================================================
