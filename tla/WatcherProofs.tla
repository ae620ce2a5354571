--------------------------- MODULE WatcherProofs ---------------------------
(***************************************************************************)
(* Proofs about the watchers and the library they share with the TUI.      *)
(*                                                                         *)
(* The lock makes all but one watcher idle, so what a run relies on is     *)
(* said of its record alone (RunInv), in terms of where it is: the job it  *)
(* works on, that no other watch job runs, that it knows every open one,   *)
(* that media published completely belong to a completed job or will be    *)
(* looked at, and that there is room for the job it is about to create.    *)
(* The rest is said of the library: types, one open watch job per lecture, *)
(* and that files a job published are there while nobody touched them.     *)
(***************************************************************************)
EXTENDS Watcher, FiniteSetTheorems, WellFoundedInduction, TLAPS

Watched(statuses) == WithStatus("watch", statuses)

(* Where a run works on no job, where it produces one, where it does not   *)
(* own the lock.                                                           *)
Resting == {"off", "terminal"}
Handless == {"off", "open", "mark", "recover", "load", "greet", "cycle", "next",
  "resolve", "wait", "abort", "close", "terminal"}
Producing == {"hello", "unheard", "download", "giveup", "reject", "build",
  "digest", "record"}
Validating == {"build", "digest", "record"}

Run == [at : Places, mode : {"poll", "once", "force"}, plan : WatchPlans,
        told : BOOLEAN, cause : {"none", "canceled", "error"}, fatal : BOOLEAN,
        recovering : SUBSET JobIds, owed : SUBSET JobIds, retryable : SUBSET JobIds,
        rest : SUBSET Artifacts, left : 0..Budget, art : Artifacts \cup {None},
        job : Numbered, attempt : 1..MaxRetries, published : 0..(Outputs - 1),
        seen : Bytes]

(* In a cycle, or between cycles, with the library in a known state.       *)
InCycle(r) ==
  \/ r.at \in {"greet", "cycle", "next", "resolve", "claim", "wait", "tell"} \cup Producing
  \/ r.at = "report" /\ ~r.fatal

HandInv(r) ==
  /\ r.at \in Handless => r.job = 0
  /\ r.at \in {"resolve", "claim"} => r.art \in Artifacts
  /\ r.at = "claim" => r.job = 0 \/ r.job \in Watched(Startable)
  /\ r.at \in Producing => r.job \in Watched({"running"})
  /\ r.at = "tell" => r.job \in Watched({"completed"})
  /\ r.at = "report" /\ ~r.fatal => r.job \notin Watched(Open)
  /\ r.at = "rerecord" => r.job \in r.recovering

QuietInv(r) ==
  /\ r.at \in {"recover", "rerecord"} => r.recovering \subseteq Watched({"recoverable"})
  /\ \/ r.at \in {"recover", "rerecord", "load"}
     \/ r.at = "close" /\ Verdict(r) # "failed"
     => Watched({"running"}) = {}

KnownInv(r) ==
  InCycle(r) => /\ r.retryable \subseteq Watched(Startable) \ {r.job}
                /\ Watched(Open) \subseteq r.retryable \cup {r.job}

MediaInv(r) ==
  LET unrecorded == intact \cap Watched(Open \cup {"failed", "canceled"})
  IN /\ r.at \in {"recover", "rerecord"} => unrecorded \subseteq r.recovering
     /\ InCycle(r) \/ r.at = "load" =>
          unrecorded \subseteq {j \in {r.job} : r.at \in Validating}

RoomInv(r) ==
  r.at \in {"resolve", "claim"} /\ r.job = 0 =>
    \/ Cardinality(OfKind("watch")) < MaxWatchJobs
    \/ \E j \in r.retryable : jobs[j].art = r.art /\ jobs[j].plan = r.plan

RunInv(r) ==
  /\ r \in Run
  /\ r.owed \subseteq Watched({"completed"})
  /\ HandInv(r) /\ QuietInv(r) /\ KnownInv(r) /\ MediaInv(r) /\ RoomInv(r)

JobsInv ==
  /\ jobs \in Seq(Job)
  /\ Cardinality(OfKind("watch")) <= MaxWatchJobs
  /\ Cardinality(OfKind("download")) <= MaxDownloads
  /\ OneOpenJob

RecordsInv ==
  /\ latest \in [Artifacts -> [job : Numbered, plan : Plans, bytes : Bytes]]
  /\ files \in [Artifacts -> [Plans -> Bytes]]
  /\ oneShot \in OneShots
  /\ troubles \in 0..MaxTroubles

IntactInv ==
  \A j \in intact :
    /\ j \in JobIds /\ Whole(Media(j))
    /\ j \notin Watched({"pending", "failed", "canceled"})

LockInv ==
  /\ lock \in Watchers \cup {None}
  /\ \A w \in Watchers : run[w].at \notin Resting <=> lock = w

TuiRun ==
  [at : {"off", "start", "download", "record", "finish"}, job : Numbered,
   published : 0..Outputs, seen : Bytes, outcome : {"failed", "canceled"}]

TuiInv ==
  /\ tui \in TuiRun
  /\ tui.at # "off" => tui.job \in OfKind("download")

(* The inductive invariant.                                                *)
WatcherIInv ==
  /\ JobsInv /\ RecordsInv /\ IntactInv /\ LockInv /\ TuiInv
  /\ run = [w \in Watchers |-> run[w]]
  /\ \A w \in Watchers : RunInv(run[w])
  /\ announced \subseteq Watched({"completed"})

-------------------------------------------------------------------------------
(* The table of jobs.                                                      *)

(* The jobs are numbered from 1, and there are no more of them than the    *)
(* bounds of both kinds together.                                          *)
LEMMA JobCount ==
  ASSUME JobsInv
  PROVE  /\ JobIds = 1..Len(jobs) /\ Len(jobs) \in Numbered
         /\ JobIds \subseteq Numbered \ {0}
         /\ \A j \in JobIds : jobs[j] \in Job
         /\ \A kind : IsFiniteSet(OfKind(kind)) /\ Cardinality(OfKind(kind)) \in Nat
         /\ Len(jobs) = Cardinality(OfKind("watch")) + Cardinality(OfKind("download"))
<1>1. JobIds = 1..Len(jobs) /\ Len(jobs) \in Nat /\ \A j \in JobIds : jobs[j] \in Job
  BY DEF JobsInv, JobIds
<1>2. IsFiniteSet(JobIds) /\ Cardinality(JobIds) = Len(jobs)
  <2>1. \A n \in Nat : IsFiniteSet(1..n) /\ Cardinality(1..n) = n
    <3> TAKE n \in Nat
    <3>1. IsFiniteSet(1..n) /\ Cardinality(1..n) = IF 1 > n THEN 0 ELSE n - 1 + 1
      BY FS_Interval
    <3> QED
      BY <3>1
  <2> QED
    BY <1>1, <2>1
<1>3. \A kind : IsFiniteSet(OfKind(kind)) /\ Cardinality(OfKind(kind)) \in Nat
  <2> TAKE kind
  <2>1. OfKind(kind) \subseteq JobIds
    BY DEF OfKind
  <2>2. IsFiniteSet(OfKind(kind))
    BY <1>2, <2>1, FS_Subset
  <2> QED
    BY <2>2, FS_CardinalityType
<1>4. JobIds = OfKind("watch") \cup OfKind("download")
  BY <1>1 DEF OfKind, Job
<1>5. OfKind("watch") \cap OfKind("download") = {}
  BY DEF OfKind
<1>6. Cardinality(JobIds) = Cardinality(OfKind("watch")) + Cardinality(OfKind("download"))
  <2>1. Cardinality(OfKind("watch") \cap OfKind("download")) = 0
    BY <1>5, FS_EmptySet
  <2>2. Cardinality(OfKind("watch") \cup OfKind("download"))
          = Cardinality(OfKind("watch")) + Cardinality(OfKind("download"))
              - Cardinality(OfKind("watch") \cap OfKind("download"))
    BY <1>3, FS_Union
  <2> HIDE DEF OfKind, JobIds
  <2> QED
    BY <2>1, <2>2, <1>3, <1>4
<1>7. Len(jobs) \in Numbered
  <2> HIDE DEF OfKind, JobIds
  <2> QED
    BY <1>1, <1>2, <1>3, <1>6, WatcherAssumption DEF JobsInv, Numbered
<1>8. Len(jobs) = Cardinality(OfKind("watch")) + Cardinality(OfKind("download"))
  BY <1>2, <1>6
<1> QED
  BY <1>1, <1>3, <1>7, <1>8, WatcherAssumption DEF Numbered

(* A job is added: it is the next one, pending, and the others stay.       *)
LEMMA JobAdded ==
  ASSUME JobsInv,
         NEW kind \in {"watch", "download"}, NEW a \in Artifacts, NEW p \in Plans,
         jobs' = Append(jobs, [kind |-> kind, art |-> a, plan |-> p, status |-> "pending"])
  PROVE  /\ jobs' \in Seq(Job)
         /\ Len(jobs) + 1 \notin JobIds
         /\ JobIds' = JobIds \cup {Len(jobs) + 1}
         /\ \A j \in JobIds : jobs'[j] = jobs[j]
         /\ jobs'[Len(jobs) + 1]
              = [kind |-> kind, art |-> a, plan |-> p, status |-> "pending"]
         /\ OfKind(kind)' = OfKind(kind) \cup {Len(jobs) + 1}
         /\ \A k : k # kind => OfKind(k)' = OfKind(k)
         /\ Cardinality(OfKind(kind)') = Cardinality(OfKind(kind)) + 1
<1> DEFINE new == [kind |-> kind, art |-> a, plan |-> p, status |-> "pending"]
<1>1. new \in Job
  BY DEF Job, Open
<1>2. new.kind = kind
  OBVIOUS
<1> HIDE DEF new
<1>3. /\ jobs' \in Seq(Job)
      /\ Len(jobs') = Len(jobs) + 1 /\ Len(jobs) \in Nat
      /\ \A j \in 1..Len(jobs) : jobs'[j] = jobs[j]
      /\ jobs'[Len(jobs) + 1] = new
  BY <1>1 DEF JobsInv, new
<1>4. JobIds = 1..Len(jobs) /\ JobIds' = 1..(Len(jobs) + 1)
  BY <1>3 DEF JobsInv, JobIds
<1>5. /\ Len(jobs) + 1 \notin JobIds
      /\ JobIds' = JobIds \cup {Len(jobs) + 1}
      /\ \A j \in JobIds : jobs'[j] = jobs[j]
  BY <1>3, <1>4
<1>6. OfKind(kind)' = OfKind(kind) \cup {Len(jobs) + 1}
  BY <1>2, <1>3, <1>5 DEF OfKind
<1>7. \A k : k # kind => OfKind(k)' = OfKind(k)
  BY <1>2, <1>3, <1>5 DEF OfKind
<1>8. Cardinality(OfKind(kind)') = Cardinality(OfKind(kind)) + 1
  <2>1. IsFiniteSet(OfKind(kind)) /\ Len(jobs) + 1 \notin OfKind(kind)
    BY <1>5, JobCount DEF OfKind
  <2> QED
    BY <2>1, <1>6, FS_AddElement
<1> QED
  BY <1>3, <1>5, <1>6, <1>7, <1>8 DEF new

(* Jobs keep their kind, lecture and plan; a closed one stays closed.      *)
Reclassified ==
  /\ jobs' \in Seq(Job)
  /\ JobIds' = JobIds
  /\ \A j \in JobIds : /\ jobs'[j].kind = jobs[j].kind
                       /\ jobs'[j].art = jobs[j].art
                       /\ jobs'[j].plan = jobs[j].plan
                       /\ jobs'[j].status \in Open => jobs[j].status \in Open
                       /\ jobs[j].status = "completed" => jobs'[j].status = "completed"

(* Such a step keeps what is said of the table, and the kinds of jobs.     *)
LEMMA ReclassifiedJobs ==
  ASSUME JobsInv, Reclassified
  PROVE  JobsInv' /\ \A kind : OfKind(kind)' = OfKind(kind)
<1>1. \A kind : OfKind(kind)' = OfKind(kind)
  BY DEF Reclassified, OfKind
<1>2. OneOpenJob'
  <2>1. Watched(Open)' \subseteq Watched(Open)
    BY DEF Reclassified, Watched, WithStatus, OfKind
  <2>2. Watched(Open) \subseteq JobIds
    BY DEF Watched, WithStatus, OfKind
  <2> QED
    BY <2>1, <2>2 DEF Reclassified, JobsInv, OneOpenJob, Watched
<1> QED
  BY <1>1, <1>2 DEF JobsInv, Reclassified

(* A change of one job's status.                                           *)
LEMMA JobMoved ==
  ASSUME JobsInv, NEW j \in JobIds, NEW from, NEW to \in Open \cup Terminal,
         from \subseteq Open, jobs' = Moved(j, from, to)
  PROVE  /\ Reclassified
         /\ \A i \in JobIds \ {j} : jobs'[i] = jobs[i]
         /\ jobs'[j].status = IF jobs[j].status \in from THEN to ELSE jobs[j].status
<1>1. jobs \in Seq(Job) /\ JobIds = 1..Len(jobs) /\ Len(jobs) \in Nat
      /\ \A i \in JobIds : jobs[i] \in Job
  BY JobCount DEF JobsInv
<1>2. CASE jobs[j].status \in from
  <2>1. jobs' = [jobs EXCEPT ![j].status = to]
    BY <1>2 DEF Moved
  <2> DEFINE moved == [jobs[j] EXCEPT !.status = to]
  <2>2. /\ moved \in Job
        /\ moved.kind = jobs[j].kind /\ moved.art = jobs[j].art
        /\ moved.plan = jobs[j].plan /\ moved.status = to
    BY <1>1 DEF Job
  <2>3. jobs' = [jobs EXCEPT ![j] = moved]
    BY <2>1
  <2> HIDE DEF moved
  <2>4. jobs' \in Seq(Job) /\ JobIds' = JobIds /\ jobs'[j] = moved
        /\ \A i \in JobIds \ {j} : jobs'[i] = jobs[i]
    BY <1>1, <2>2, <2>3 DEF JobIds
  <2>5. jobs[j].status # "completed" /\ jobs[j].status \in Open
    BY <1>2 DEF Open
  <2> QED
    BY <1>2, <2>2, <2>4, <2>5 DEF Reclassified
<1>3. CASE jobs[j].status \notin from
  BY <1>1, <1>3 DEF Moved, Reclassified, JobIds
<1> QED
  BY <1>2, <1>3

-------------------------------------------------------------------------------
(* What a run does not notice.                                             *)

(* Nothing a watcher relies on changes.                                    *)
Unnoticed ==
  /\ JobIds \subseteq JobIds'
  /\ OfKind("watch")' = OfKind("watch")
  /\ \A j \in OfKind("watch") : jobs'[j] = jobs[j]
  /\ intact' \cap OfKind("watch") \subseteq intact

(* Completed jobs are not lost.                                            *)
Lasting ==
  /\ JobIds \subseteq JobIds'
  /\ Watched({"completed"}) \subseteq Watched({"completed"})'

(* Every set of watch jobs with a given status stays as it is.             *)
LEMMA UnnoticedStatus ==
  ASSUME Unnoticed
  PROVE  \A S : Watched(S)' = Watched(S)
BY DEF Unnoticed, Watched, WithStatus

(* In particular completed jobs last.                                      *)
LEMMA UnnoticedLasts ==
  ASSUME Unnoticed
  PROVE  Lasting
BY UnnoticedStatus DEF Unnoticed, Lasting

(* A record stays one when jobs are only ever added.                       *)
LEMMA LastingRecord ==
  ASSUME JobIds \subseteq JobIds', NEW r \in Run
  PROVE  (r \in Run)'
<1>1. r = [at |-> r.at, mode |-> r.mode, plan |-> r.plan, told |-> r.told,
           cause |-> r.cause, fatal |-> r.fatal, recovering |-> r.recovering,
           owed |-> r.owed, retryable |-> r.retryable, rest |-> r.rest,
           left |-> r.left, art |-> r.art, job |-> r.job, attempt |-> r.attempt,
           published |-> r.published, seen |-> r.seen]
  BY DEF Run
<1>2. /\ r.recovering \in SUBSET JobIds /\ r.owed \in SUBSET JobIds
      /\ r.retryable \in SUBSET JobIds
  BY DEF Run
<1>3. /\ r.recovering \in SUBSET JobIds' /\ r.owed \in SUBSET JobIds'
      /\ r.retryable \in SUBSET JobIds'
  BY <1>2
<1> QED
  BY <1>1, <1>3 DEF Run

(* A run that owns no lock relies on nothing but what lasts.               *)
LEMMA RestingKept ==
  ASSUME NEW r, RunInv(r), r.at \in Resting, Lasting
  PROVE  RunInv(r)'
<1>1. (r \in Run)'
  BY LastingRecord DEF RunInv, Lasting
<1>2. /\ HandInv(r)' /\ QuietInv(r)' /\ KnownInv(r)' /\ MediaInv(r)' /\ RoomInv(r)'
  BY DEF RunInv, Resting, HandInv, QuietInv, KnownInv, MediaInv, RoomInv, InCycle,
         Handless, Producing
<1> QED
  BY <1>1, <1>2 DEF RunInv, Lasting

(* What is said of a record stays true when its run notices nothing.       *)
LEMMA UnnoticedKept ==
  ASSUME NEW r, RunInv(r), Unnoticed
  PROVE  RunInv(r)'
<1>1. (r \in Run)'
  BY LastingRecord DEF RunInv, Unnoticed
<1>2. \A S : Watched(S)' = Watched(S)
  BY UnnoticedStatus
<1>3. HandInv(r)' /\ QuietInv(r)' /\ KnownInv(r)' /\ (r.owed \subseteq Watched({"completed"}))'
  BY <1>2 DEF RunInv, HandInv, QuietInv, KnownInv
<1>4. MediaInv(r)'
  <2>1. (intact \cap Watched(Open \cup {"failed", "canceled"}))'
          \subseteq intact \cap Watched(Open \cup {"failed", "canceled"})
    BY <1>2 DEF Unnoticed, Watched, WithStatus
  <2> QED
    BY <2>1 DEF RunInv, MediaInv
<1>5. RoomInv(r)'
  <2> SUFFICES ASSUME r.at \in {"resolve", "claim"}, r.job = 0,
                      NEW j \in r.retryable, jobs[j].art = r.art, jobs[j].plan = r.plan
               PROVE  jobs'[j].art = r.art /\ jobs'[j].plan = r.plan
    BY DEF RunInv, RoomInv, Unnoticed
  <2>1. j \in OfKind("watch")
    BY DEF RunInv, KnownInv, InCycle, Watched, WithStatus
  <2> QED
    BY <2>1 DEF Unnoticed
<1> QED
  BY <1>1, <1>3, <1>4, <1>5 DEF RunInv

(* What a step leaves behind besides the records of the runs.              *)
Sane ==
  /\ JobsInv' /\ RecordsInv' /\ IntactInv' /\ TuiInv' /\ Lasting
  /\ (announced \subseteq Watched({"completed"}))'

(* The lock holder moves.                                                  *)
LEMMA HolderMoves ==
  ASSUME WatcherIInv, NEW w \in Watchers, run[w].at \notin Resting,
         NEW r, RunInv(r)', run' = [run EXCEPT ![w] = r],
         lock' = IF r.at \in Resting THEN None ELSE lock,
         Sane
  PROVE  WatcherIInv'
<1>1. lock = w /\ w # None
  BY WatcherAssumption DEF WatcherIInv, LockInv
<1>2. \A v \in Watchers : run'[v] = IF v = w THEN r ELSE run[v]
  BY DEF WatcherIInv
<1>3. \A v \in Watchers : RunInv(run[v])'
  <2> SUFFICES ASSUME NEW v \in Watchers PROVE RunInv(run[v])'
    OBVIOUS
  <2>1. CASE v = w
    <3>1. run'[v] = r
      BY <1>2, <2>1
    <3> QED
      BY <3>1
  <2>2. CASE v # w
    <3>1. run[v].at \in Resting /\ RunInv(run[v])
      BY <1>1, <2>2 DEF WatcherIInv, LockInv
    <3>2. run'[v] = run[v]
      BY <1>2, <2>2
    <3> DEFINE q == run[v]
    <3> HIDE DEF q
    <3>3. RunInv(q)'
      BY <3>1, RestingKept DEF q, Sane
    <3> QED
      BY <3>2, <3>3 DEF q
  <2> QED
    BY <2>1, <2>2
<1>4. LockInv'
  <2>1. None \notin Watchers
    BY WatcherAssumption
  <2> QED
    BY <1>1, <1>2, <2>1 DEF WatcherIInv, LockInv
<1>5. (run = [v \in Watchers |-> run[v]])'
  BY DEF WatcherIInv
<1> QED
  BY <1>3, <1>4, <1>5 DEF WatcherIInv, Sane

(* Any process moves while the library stays as it is for the watchers.    *)
LEMMA AnyMoves ==
  ASSUME WatcherIInv, NEW w \in Watchers, NEW r, RunInv(r),
         run' = [run EXCEPT ![w] = r], LockInv', Unnoticed, Sane
  PROVE  WatcherIInv'
<1>1. \A v \in Watchers : run'[v] = IF v = w THEN r ELSE run[v]
  BY DEF WatcherIInv
<1>2. RunInv(r)'
  BY UnnoticedKept
<1>3. \A v \in Watchers : RunInv(run[v])'
  <2> SUFFICES ASSUME NEW v \in Watchers PROVE RunInv(run[v])'
    OBVIOUS
  <2>1. CASE v = w
    <3>1. run'[v] = r
      BY <1>1, <2>1
    <3> QED
      BY <1>2, <3>1
  <2>2. CASE v # w
    <3>1. RunInv(run[v]) /\ run'[v] = run[v]
      BY <1>1, <2>2 DEF WatcherIInv
    <3> DEFINE q == run[v]
    <3> HIDE DEF q
    <3>2. RunInv(q)'
      BY <3>1, UnnoticedKept DEF q
    <3> QED
      BY <3>1, <3>2 DEF q
  <2> QED
    BY <2>1, <2>2
<1>4. (run = [v \in Watchers |-> run[v]])'
  BY DEF WatcherIInv
<1> QED
  BY <1>3, <1>4 DEF WatcherIInv, Sane

(* No process moves.                                                       *)
LEMMA NobodyMoves ==
  ASSUME WatcherIInv, UNCHANGED <<run, lock>>, Unnoticed, Sane
  PROVE  WatcherIInv'
<1>1. \A v \in Watchers : RunInv(run[v])'
  <2> SUFFICES ASSUME NEW v \in Watchers PROVE RunInv(run[v])'
    OBVIOUS
  <2>1. RunInv(run[v]) /\ run'[v] = run[v]
    BY DEF WatcherIInv
  <2> DEFINE q == run[v]
  <2> HIDE DEF q
  <2>2. RunInv(q)'
    BY <2>1, UnnoticedKept DEF q
  <2> QED
    BY <2>1, <2>2 DEF q
<1> QED
  BY <1>1 DEF WatcherIInv, Sane, LockInv

-------------------------------------------------------------------------------
(* What the calls of the library leave behind.                             *)

Spent == troubles' \in 0..MaxTroubles

(* The budget of troubles is never exceeded.                               *)
LEMMA SpentTroubles ==
  ASSUME WatcherIInv, UNCHANGED troubles \/ Trouble
  PROVE  Spent
BY LibraryAssumption DEF WatcherIInv, RecordsInv, Trouble, Spent

(* The library stays as it is.                                             *)
LEMMA Steady ==
  ASSUME WatcherIInv, UNCHANGED <<jobs, latest, media>>, UNCHANGED tui \/ TuiInv', Spent,
         announced' \subseteq Watched({"completed"})
  PROVE  Sane /\ Unnoticed
<1>1. JobIds' = JobIds /\ \A k : OfKind(k)' = OfKind(k)
  BY DEF JobIds, OfKind
<1>2. \A S : Watched(S)' = Watched(S)
  BY <1>1 DEF Watched, WithStatus
<1>3. Unnoticed /\ Lasting
  BY <1>1, UnnoticedLasts DEF Unnoticed, media
<1>4. JobsInv'
  BY <1>1 DEF WatcherIInv, JobsInv, OneOpenJob, WithStatus
<1>5. RecordsInv'
  BY DEF WatcherIInv, RecordsInv, media, Spent
<1>6. IntactInv'
  BY <1>1, <1>2 DEF WatcherIInv, IntactInv, Media, media
<1>7. TuiInv'
  BY <1>1 DEF WatcherIInv, TuiInv
<1> QED
  BY <1>2, <1>3, <1>4, <1>5, <1>6, <1>7 DEF Sane

(* Jobs are reclassified, and their media kept or not touched.             *)
LEMMA ReclassifiedSane ==
  ASSUME WatcherIInv, Reclassified, RecordsInv', UNCHANGED <<media, announced>>, UNCHANGED tui \/ TuiInv',
         \A j \in intact : j \notin Watched({"pending", "failed", "canceled"})'
  PROVE  Sane
<1>1. JobsInv' /\ \A kind : OfKind(kind)' = OfKind(kind)
  BY ReclassifiedJobs DEF WatcherIInv
<1>2. Lasting
  BY DEF Reclassified, Lasting, Watched, WithStatus, OfKind
<1>3. IntactInv'
  BY DEF WatcherIInv, IntactInv, Media, media, Reclassified
<1>4. TuiInv'
  BY <1>1 DEF WatcherIInv, TuiInv
<1>5. (announced \subseteq Watched({"completed"}))'
  BY <1>2 DEF WatcherIInv, Lasting
<1> QED
  BY <1>1, <1>2, <1>3, <1>4, <1>5 DEF Sane

(* One job changes its status, or the call had no effect.                  *)
LEMMA MovedSane ==
  ASSUME WatcherIInv, NEW j \in JobIds, NEW from, NEW to \in Open \cup Terminal,
         from \subseteq Open, jobs' \in {jobs, Moved(j, from, to)},
         UNCHANGED <<media, announced>>, UNCHANGED tui \/ TuiInv', RecordsInv',
         to \in {"pending", "failed", "canceled"} => j \notin intact \cap OfKind("watch")
  PROVE  /\ Sane /\ Reclassified
         /\ \A i \in JobIds \ {j} : jobs'[i] = jobs[i]
         /\ jobs'[j].status \in {jobs[j].status, to}
         /\ jobs' = Moved(j, from, to) /\ jobs[j].status \in from => jobs'[j].status = to
<1>1. /\ Reclassified
      /\ \A i \in JobIds \ {j} : jobs'[i] = jobs[i]
      /\ jobs'[j].status \in {jobs[j].status, to}
      /\ jobs' = Moved(j, from, to) /\ jobs[j].status \in from => jobs'[j].status = to
  <2>1. CASE jobs' = jobs /\ jobs' # Moved(j, from, to)
    BY <2>1 DEF Reclassified, WatcherIInv, JobsInv, JobIds
  <2>2. CASE jobs' = Moved(j, from, to)
    <3> HIDE DEF JobIds
    <3> QED
      BY <2>2, JobMoved DEF WatcherIInv
  <2> QED
    BY <2>1, <2>2
<1>2. \A i \in intact : i \notin Watched({"pending", "failed", "canceled"})'
  <2> SUFFICES ASSUME NEW i \in intact, i \in Watched({"pending", "failed", "canceled"})'
               PROVE  FALSE
    OBVIOUS
  <2>1. i \in OfKind("watch") /\ jobs'[i].status \in {"pending", "failed", "canceled"}
    BY <1>1 DEF Reclassified, Watched, WithStatus, OfKind
  <2>2. jobs[i].status \notin {"pending", "failed", "canceled"}
    BY <2>1 DEF WatcherIInv, IntactInv, Watched, WithStatus
  <2>3. i = j
    BY <1>1, <2>1, <2>2 DEF OfKind
  <2> QED
    BY <1>1, <2>1, <2>2, <2>3
<1>3. Sane
  BY <1>1, <1>2, ReclassifiedSane
<1> QED
  BY <1>1, <1>3

(* Running jobs of the watchers become recoverable, or nothing changes.    *)
LEMMA MarkedSane ==
  ASSUME WatcherIInv, UNCHANGED <<latest, media, announced>>, UNCHANGED tui \/ TuiInv', Spent,
         \/ UNCHANGED jobs
         \/ jobs' = [j \in JobIds |-> IF j \in Interrupted("watch")
                                      THEN [jobs[j] EXCEPT !.status = "recoverable"]
                                      ELSE jobs[j]]
  PROVE  /\ Sane /\ Reclassified
         /\ \A j \in JobIds : jobs'[j].status \in {jobs[j].status, "recoverable"}
<1>1. JobIds = 1..Len(jobs) /\ Len(jobs) \in Nat /\ \A j \in JobIds : jobs[j] \in Job
  BY JobCount DEF WatcherIInv, JobsInv
<1>2. /\ Reclassified
      /\ \A j \in JobIds : jobs'[j].status \in {jobs[j].status, "recoverable"}
      /\ \A j \in JobIds : jobs'[j].status # jobs[j].status => jobs[j].status = "running"
  <2>1. CASE UNCHANGED jobs
    BY <2>1 DEF Reclassified, WatcherIInv, JobsInv, JobIds
  <2>2. CASE ~UNCHANGED jobs
    <3> DEFINE marked(j) == [jobs[j] EXCEPT !.status = "recoverable"]
               next(j) == IF j \in Interrupted("watch") THEN marked(j) ELSE jobs[j]
    <3>1. \A j \in JobIds : /\ marked(j) \in Job
                            /\ marked(j).kind = jobs[j].kind
                            /\ marked(j).art = jobs[j].art
                            /\ marked(j).plan = jobs[j].plan
                            /\ marked(j).status = "recoverable"
      BY <1>1 DEF Job, Open
    <3>2. jobs' = [j \in JobIds |-> next(j)]
      BY <2>2
    <3> HIDE DEF marked
    <3>3. \A j \in JobIds : next(j) \in Job
      BY <1>1, <3>1
    <3>4. \A j \in Interrupted("watch") : jobs[j].status = "running"
      BY DEF Interrupted, WithStatus
    <3> HIDE DEF next
    <3>5. jobs' \in Seq(Job) /\ JobIds' = JobIds
      BY <1>1, <3>2, <3>3 DEF JobIds
    <3>6. \A j \in JobIds : jobs'[j] = next(j)
      BY <3>2
    <3>7. \A j \in JobIds : next(j) = jobs[j] \/ (jobs[j].status = "running" /\ next(j) = marked(j))
      BY <3>4 DEF next
    <3> QED
      BY <3>1, <3>5, <3>6, <3>7 DEF Reclassified, Open
  <2> QED
    BY <2>1, <2>2
<1>3. RecordsInv'
  BY DEF WatcherIInv, RecordsInv, media, Spent
<1>4. \A j \in intact : j \notin Watched({"pending", "failed", "canceled"})'
  BY <1>2 DEF WatcherIInv, IntactInv, Watched, WithStatus, OfKind, Reclassified
<1> QED
  BY <1>2, <1>3, <1>4, ReclassifiedSane

(* A job is completed together with its manifest, or nothing changes.      *)
LEMMA CompletedSane ==
  ASSUME WatcherIInv, NEW j \in JobIds, NEW bytes \in Bytes,
         UNCHANGED <<media, announced>>, UNCHANGED tui \/ TuiInv', Spent,
         \/ UNCHANGED <<jobs, latest>>
         \/ /\ jobs' = Moved(j, Completable, "completed")
            /\ latest' = IF jobs[j].status \in Completable THEN Recorded(j, bytes) ELSE latest
  PROVE  /\ Sane /\ Reclassified
         /\ \A i \in JobIds \ {j} : jobs'[i] = jobs[i]
         /\ jobs'[j].status \in {jobs[j].status, "completed"}
         /\ /\ jobs' = Moved(j, Completable, "completed")
            /\ jobs[j].status \in Completable
            => jobs'[j].status = "completed"
<1>1. jobs[j] \in Job /\ j \in Numbered
  BY JobCount DEF WatcherIInv
<1>2. latest' \in [Artifacts -> [job : Numbered, plan : Plans, bytes : Bytes]]
  BY <1>1 DEF WatcherIInv, RecordsInv, Recorded, Job
<1>3. RecordsInv'
  BY <1>2 DEF WatcherIInv, RecordsInv, media, Spent
<1>4. Completable \subseteq Open /\ "completed" \in Open \cup Terminal
      /\ jobs' \in {jobs, Moved(j, Completable, "completed")}
  BY DEF Completable, Open, Terminal
<1> QED
  BY <1>3, <1>4, MovedSane

(* A watch job is added for a lecture that has no open one, or nothing     *)
(* changes.                                                                *)
LEMMA CreatedSane ==
  ASSUME WatcherIInv, NEW kind \in {"watch", "download"},
         NEW a \in Artifacts, NEW p \in Plans,
         UNCHANGED <<latest, media, announced>>, UNCHANGED tui \/ TuiInv', Spent,
         \/ UNCHANGED jobs
         \/ jobs' = Append(jobs, [kind |-> kind, art |-> a, plan |-> p, status |-> "pending"]),
         kind = "watch" => /\ Cardinality(OfKind(kind)) < MaxWatchJobs
                           /\ \A j \in Watched(Open) : jobs[j].art # a,
         kind = "download" => Cardinality(OfKind(kind)) < MaxDownloads
  PROVE  Sane
<1>1. CASE UNCHANGED jobs
  <2>1. announced' \subseteq Watched({"completed"})
    BY DEF WatcherIInv
  <2> QED
    BY <1>1, <2>1, Steady
<1>2. CASE jobs' = Append(jobs, [kind |-> kind, art |-> a, plan |-> p, status |-> "pending"])
  <2> DEFINE new == Len(jobs) + 1
  <2>1. /\ jobs' \in Seq(Job) /\ new \notin JobIds /\ JobIds' = JobIds \cup {new}
        /\ \A j \in JobIds : jobs'[j] = jobs[j]
        /\ jobs'[new] = [kind |-> kind, art |-> a, plan |-> p, status |-> "pending"]
        /\ OfKind(kind)' = OfKind(kind) \cup {new}
        /\ \A k : k # kind => OfKind(k)' = OfKind(k)
        /\ Cardinality(OfKind(kind)') = Cardinality(OfKind(kind)) + 1
    BY <1>2, JobAdded DEF WatcherIInv
  <2> HIDE DEF new, OfKind, JobIds
  <2>2. jobs'[new].kind = kind /\ jobs'[new].art = a /\ jobs'[new].status = "pending"
    BY <2>1
  <2>3. \A k : OfKind(k) \subseteq JobIds
    BY DEF OfKind
  <2>4. \A S : /\ Watched(S) \subseteq Watched(S)'
               /\ Watched(S)' \subseteq Watched(S) \cup {i \in {new} : kind = "watch"}
    BY <2>1, <2>3 DEF Watched, WithStatus
  <2>5. OneOpenJob'
    <3>1. \A i \in Watched(Open)' : i \in Watched(Open) \/ (i = new /\ kind = "watch")
      BY <2>4
    <3>2. \A i \in Watched(Open) : jobs'[i] = jobs[i]
      BY <2>1, <2>3 DEF Watched, WithStatus
    <3> QED
      BY <2>2, <3>1, <3>2 DEF OneOpenJob, WatcherIInv, JobsInv, Watched
  <2>6. JobsInv'
    <3>1. \A k : Cardinality(OfKind(k)) \in Nat
      BY JobCount DEF WatcherIInv
    <3>2. CASE kind = "watch"
      <4>1. Cardinality(OfKind("watch")') = Cardinality(OfKind("watch")) + 1
        BY <2>1, <3>2
      <4>2. OfKind("download")' = OfKind("download")
        BY <2>1, <3>2
      <4>3. Cardinality(OfKind("watch")) < MaxWatchJobs /\ MaxWatchJobs \in Nat
        BY <3>2, WatcherAssumption
      <4>4. Cardinality(OfKind("watch")') <= MaxWatchJobs
        BY <3>1, <4>1, <4>3
      <4> QED
        BY <2>1, <2>5, <4>2, <4>4 DEF WatcherIInv, JobsInv
    <3>3. CASE kind = "download"
      <4>1. Cardinality(OfKind("download")') = Cardinality(OfKind("download")) + 1
        BY <2>1, <3>3
      <4>2. OfKind("watch")' = OfKind("watch")
        BY <2>1, <3>3
      <4>3. Cardinality(OfKind("download")) < MaxDownloads /\ MaxDownloads \in Nat
        BY <3>3, WatcherAssumption
      <4>4. Cardinality(OfKind("download")') <= MaxDownloads
        BY <3>1, <4>1, <4>3
      <4> QED
        BY <2>1, <2>5, <4>2, <4>4 DEF WatcherIInv, JobsInv
    <3> QED
      BY <3>2, <3>3
  <2>7. RecordsInv'
    BY DEF WatcherIInv, RecordsInv, media, Spent
  <2>8. IntactInv'
    <3> SUFFICES ASSUME NEW j \in intact
                 PROVE  /\ j \in JobIds' /\ Whole(Media(j))'
                        /\ j \notin Watched({"pending", "failed", "canceled"})'
      BY DEF IntactInv, media
    <3>1. j \in JobIds /\ Whole(Media(j)) /\ j \notin Watched({"pending", "failed", "canceled"})
      BY DEF WatcherIInv, IntactInv
    <3>2. j # new /\ jobs'[j] = jobs[j]
      BY <2>1, <3>1
    <3> QED
      BY <2>1, <2>4, <3>1, <3>2 DEF Media, Whole, media
  <2>9. TuiInv'
    BY <2>1 DEF WatcherIInv, TuiInv
  <2>10. Lasting
    BY <2>1, <2>4 DEF Lasting
  <2> QED
    BY <2>6, <2>7, <2>8, <2>9, <2>10 DEF Sane, WatcherIInv, Lasting
<1> QED
  BY <1>1, <1>2

-------------------------------------------------------------------------------
(* The files.                                                              *)

(* Every job and every one-shot download names what it writes.             *)
LEMMA WriterNames ==
  /\ 0 \in Writers /\ 0 \in Numbered /\ Numbered \subseteq Writers
  /\ \A s \in 1..MaxOneShots : 0 - s \in Writers
BY LibraryAssumption, WatcherAssumption DEF Writers, Numbered

(* The file of one path changes; who wrote the others is known as before.  *)
Replaced(a, p, o, n) == [files EXCEPT ![a][p][o] = n]

(* The table of files keeps its type, and only that path changes.          *)
LEMMA FileReplaced ==
  ASSUME RecordsInv, NEW a \in Artifacts, NEW p \in Plans, NEW o \in 1..Outputs,
         NEW n \in Writers, files' = Replaced(a, p, o, n)
  PROVE  /\ files' \in [Artifacts -> [Plans -> Bytes]]
         /\ \A b \in Artifacts, q \in Plans : b # a \/ q # p => files'[b][q] = files[b][q]
         /\ \A i \in 1..Outputs : files'[a][p][i] = IF i = o THEN n ELSE files[a][p][i]
<1> DEFINE row == [files[a][p] EXCEPT ![o] = n]
           shelf == [files[a] EXCEPT ![p] = row]
<1>1. files \in [Artifacts -> [Plans -> Bytes]]
  BY DEF RecordsInv
<1>2. files[a][p] \in Bytes
  BY <1>1
<1>3. row \in Bytes /\ \A i \in 1..Outputs : row[i] = IF i = o THEN n ELSE files[a][p][i]
  BY <1>2 DEF Bytes
<1>4. files' = [files EXCEPT ![a] = shelf]
  BY DEF Replaced
<1> HIDE DEF row
<1>5. shelf \in [Plans -> Bytes] /\ shelf[p] = row
      /\ \A q \in Plans : q # p => shelf[q] = files[a][q]
  BY <1>1, <1>3
<1> HIDE DEF shelf
<1>6. files' \in [Artifacts -> [Plans -> Bytes]] /\ files'[a] = shelf
      /\ \A b \in Artifacts : b # a => files'[b] = files[b]
  BY <1>1, <1>4, <1>5
<1> QED
  BY <1>3, <1>5, <1>6

(* A job's next output reaches its path.                                   *)
LEMMA PublishedSane ==
  ASSUME WatcherIInv, NEW j \in JobIds, NEW o \in 1..Outputs, Publish(j, o),
         UNCHANGED announced, UNCHANGED tui \/ TuiInv',
         jobs[j].kind = "watch" => jobs[j].status \in {"running", "recoverable", "completed"}
  PROVE  /\ Sane /\ UNCHANGED jobs
         /\ intact' \subseteq intact \cup {j}
         /\ o < Outputs => intact' \subseteq intact \ {j}
<1>1. jobs[j] \in Job /\ j \in Numbered \ {0}
  BY JobCount DEF WatcherIInv
<1>2. UNCHANGED <<jobs, latest, oneShot, troubles>>
  BY DEF Publish
<1> DEFINE a == jobs[j].art
           p == jobs[j].plan
<1>3. a \in Artifacts /\ p \in Plans
  BY <1>1 DEF Job
<1>4. /\ files' \in [Artifacts -> [Plans -> Bytes]]
      /\ \A b \in Artifacts, q \in Plans : b # a \/ q # p => files'[b][q] = files[b][q]
      /\ \A i \in 1..Outputs : files'[a][p][i] = IF i = o THEN j ELSE files[a][p][i]
  <2>1. files' = Replaced(a, p, o, j)
    BY DEF Publish, Replaced
  <2>2. RecordsInv
    BY DEF WatcherIInv
  <2>3. j \in Writers
    BY <1>1, WriterNames
  <2> HIDE DEF a, p
  <2> QED
    BY <1>3, <2>1, <2>2, <2>3, FileReplaced
<1>5. intact' = Untouched(a, p) \cup {i \in {j} : /\ o = Outputs
                                                  /\ \A q \in 1..(o - 1) : Media(j)[q] # 0}
  BY DEF Publish
<1>6. Untouched(a, p) \subseteq intact \ {j}
  BY DEF Untouched
<1>7. JobIds' = JobIds /\ (\A k : OfKind(k)' = OfKind(k)) /\ \A S : Watched(S)' = Watched(S)
  BY <1>2 DEF JobIds, OfKind, Watched, WithStatus
<1>8. IntactInv'
  <2> SUFFICES ASSUME NEW i \in intact'
               PROVE  /\ i \in JobIds /\ Whole(Media(i))'
                      /\ i \notin Watched({"pending", "failed", "canceled"})
    BY <1>7 DEF IntactInv
  <2>1. CASE i \in Untouched(a, p)
    <3>1. i \in intact /\ (jobs[i].art # a \/ jobs[i].plan # p)
      BY <2>1 DEF Untouched
    <3>2. /\ i \in JobIds /\ Whole(Media(i))
          /\ i \notin Watched({"pending", "failed", "canceled"})
      BY <3>1 DEF WatcherIInv, IntactInv
    <3>3. jobs[i].art \in Artifacts /\ jobs[i].plan \in Plans
      BY <3>2, JobCount DEF WatcherIInv, Job
    <3>4. Media(i)' = Media(i)
      BY <1>2, <1>4, <3>1, <3>3 DEF Media
    <3> QED
      BY <3>2, <3>4 DEF Whole
  <2>2. CASE i \notin Untouched(a, p)
    <3>1. i = j /\ o = Outputs /\ \A q \in 1..(o - 1) : Media(j)[q] # 0
      BY <1>5, <2>2
    <3>2. \A q \in 1..Outputs : files'[a][p][q] # 0
      <4>1. \A q \in 1..Outputs : q # o => q \in 1..(o - 1)
        BY <3>1, LibraryAssumption
      <4>2. \A q \in 1..(o - 1) : files[a][p][q] # 0
        BY <3>1 DEF Media
      <4> HIDE DEF a, p
      <4> QED
        BY <1>1, <1>4, <4>1, <4>2
    <3>3. Whole(Media(j))'
      BY <1>2, <3>2 DEF Whole, Media
    <3>4. j \notin Watched({"pending", "failed", "canceled"})
      BY DEF Watched, WithStatus, OfKind
    <3> QED
      BY <3>1, <3>3, <3>4
  <2> QED
    BY <2>1, <2>2
<1>9. JobsInv'
  BY <1>2, <1>7 DEF WatcherIInv, JobsInv, OneOpenJob, WithStatus
<1>10. RecordsInv'
  BY <1>2, <1>4 DEF WatcherIInv, RecordsInv
<1>11. TuiInv'
  BY <1>7 DEF WatcherIInv, TuiInv
<1>12. Lasting /\ (announced \subseteq Watched({"completed"}))'
  BY <1>7 DEF Lasting, WatcherIInv
<1>13. o < Outputs => intact' \subseteq intact \ {j}
  BY <1>5, <1>6
<1> QED
  BY <1>2, <1>5, <1>6, <1>8, <1>9, <1>10, <1>11, <1>12, <1>13 DEF Sane

(* A file is removed, or overwritten by a download without a job: what was *)
(* published under that plan is no longer intact.                          *)
LEMMA OverwrittenSane ==
  ASSUME WatcherIInv, NEW a \in Artifacts, NEW p \in Plans, NEW o \in 1..Outputs,
         NEW n \in Writers, files' = Replaced(a, p, o, n), intact' = Untouched(a, p),
         oneShot' \in OneShots, UNCHANGED <<jobs, latest, tui, announced>>, Spent
  PROVE  Sane /\ Unnoticed
<1>1. UNCHANGED <<jobs, latest>> /\ Spent
  OBVIOUS
<1>2. /\ files' \in [Artifacts -> [Plans -> Bytes]]
      /\ \A b \in Artifacts, q \in Plans : b # a \/ q # p => files'[b][q] = files[b][q]
  BY FileReplaced DEF WatcherIInv
<1>3. intact' = {j \in intact : jobs[j].art # a \/ jobs[j].plan # p}
  BY DEF Untouched
<1>4. JobIds' = JobIds /\ (\A k : OfKind(k)' = OfKind(k)) /\ \A S : Watched(S)' = Watched(S)
  BY <1>1 DEF JobIds, OfKind, Watched, WithStatus
<1>5. IntactInv'
  <2> SUFFICES ASSUME NEW i \in intact'
               PROVE  /\ i \in JobIds /\ Whole(Media(i))'
                      /\ i \notin Watched({"pending", "failed", "canceled"})
    BY <1>4 DEF IntactInv
  <2>1. i \in intact /\ (jobs[i].art # a \/ jobs[i].plan # p)
    BY <1>3
  <2>2. /\ i \in JobIds /\ Whole(Media(i))
        /\ i \notin Watched({"pending", "failed", "canceled"})
    BY <2>1 DEF WatcherIInv, IntactInv
  <2>3. jobs[i].art \in Artifacts /\ jobs[i].plan \in Plans
    BY <2>2, JobCount DEF WatcherIInv, Job
  <2>4. Media(i)' = Media(i)
    BY <1>1, <1>2, <2>1, <2>3 DEF Media
  <2> QED
    BY <2>2, <2>4 DEF Whole
<1>6. JobsInv'
  BY <1>1, <1>4 DEF WatcherIInv, JobsInv, OneOpenJob, WithStatus
<1>7. RecordsInv'
  BY <1>1, <1>2 DEF WatcherIInv, RecordsInv, Spent
<1>8. TuiInv'
  BY <1>4 DEF WatcherIInv, TuiInv
<1>9. Unnoticed
  BY <1>1, <1>3, <1>4 DEF Unnoticed
<1> QED
  BY <1>4, <1>5, <1>6, <1>7, <1>8, <1>9, UnnoticedLasts DEF Sane, WatcherIInv

(* A file disappears.                                                      *)
LEMMA RemovedSane ==
  ASSUME WatcherIInv, NEW a \in Artifacts, NEW p \in Plans, NEW o \in 1..Outputs,
         RemoveFile(a, p, o), UNCHANGED <<tui, announced>>
  PROVE  Sane /\ Unnoticed
<1>1. /\ UNCHANGED <<jobs, latest, tui, announced>> /\ Spent
      /\ intact' = Untouched(a, p)
  BY SpentTroubles DEF RemoveFile
<1>2. files' = Replaced(a, p, o, 0) /\ oneShot' \in OneShots
  BY DEF RemoveFile, Replaced, WatcherIInv, RecordsInv
<1> QED
  BY <1>1, <1>2, WriterNames, OverwrittenSane

(* A one-shot download moves on, and may record its manifest.              *)
LEMMA RecordedSane ==
  ASSUME WatcherIInv, UNCHANGED <<jobs, files, intact, tui, announced>>, Spent,
         oneShot' \in OneShots,
         latest' \in [Artifacts -> [job : Numbered, plan : Plans, bytes : Bytes]]
  PROVE  Sane /\ Unnoticed
<1>1. JobIds' = JobIds /\ (\A k : OfKind(k)' = OfKind(k)) /\ \A S : Watched(S)' = Watched(S)
  BY DEF JobIds, OfKind, Watched, WithStatus
<1>2. JobsInv'
  BY <1>1 DEF WatcherIInv, JobsInv, OneOpenJob, WithStatus
<1>3. RecordsInv'
  BY DEF WatcherIInv, RecordsInv, Spent
<1>4. IntactInv'
  BY <1>1 DEF WatcherIInv, IntactInv, Media
<1>5. TuiInv'
  BY <1>1 DEF WatcherIInv, TuiInv
<1>6. Unnoticed
  BY <1>1 DEF Unnoticed
<1> QED
  BY <1>1, <1>2, <1>3, <1>4, <1>5, <1>6, UnnoticedLasts DEF Sane, WatcherIInv

-------------------------------------------------------------------------------
(* Where many steps of a run lead.                                         *)

Returned(q, place, cause, fatal) ==
  [Idle EXCEPT !.at = place, !.mode = q.mode, !.told = q.told, !.cause = cause,
               !.fatal = fatal, !.owed = q.owed]

(* A record that begins a run is one.                                      *)
LEMMA IdleRun ==
  /\ Idle \in Run /\ Idle.at = "off" /\ Idle.job = 0 /\ Idle.owed = {}
  /\ Idle.recovering = {} /\ Idle.retryable = {}
<1>1. SomeOf(WatchPlans) \in WatchPlans
  BY WatcherAssumption DEF SomeOf
<1>2. NoFiles \in Bytes /\ 0 \in Numbered
  BY WriterNames DEF NoFiles, Bytes
<1>3. 0 \in 0..(Outputs - 1) /\ 1 \in 1..MaxRetries /\ Budget \in 0..Budget
  BY WatcherAssumption, LibraryAssumption
<1> QED
  BY <1>1, <1>2, <1>3 DEF Idle, Run, Places

(* A run is spared the verdict failed if it met nothing, or was canceled   *)
(* and met nothing fatal.                                                  *)
LEMMA VerdictIs ==
  ASSUME NEW r
  PROVE  Verdict(r) # "failed" <=> r.cause = "none" \/ (r.cause = "canceled" /\ ~r.fatal)
<1>1. CASE r.cause = "none"
  BY <1>1 DEF Verdict
<1>2. CASE r.cause = "canceled" /\ ~r.fatal
  BY <1>2 DEF Verdict
<1>3. CASE r.cause # "none" /\ ~(r.cause = "canceled" /\ ~r.fatal)
  BY <1>3 DEF Verdict
<1> QED
  BY <1>1, <1>2, <1>3

(* A run or its preparation gives up.                                      *)
LEMMA HolderReturns ==
  ASSUME WatcherIInv, NEW w \in Watchers, run[w].at \notin Resting,
         NEW place \in {"abort", "close"},
         NEW cause \in {"none", "canceled", "error"}, NEW fatal \in BOOLEAN,
         Return(w, place, cause, fatal), UNCHANGED lock, Sane,
         place = "close" /\ (cause = "none" \/ (cause = "canceled" /\ ~fatal))
           => Watched({"running"})' = {}
  PROVE  WatcherIInv'
<1> PICK q : q = run[w]
  OBVIOUS
<1>1. q \in Run /\ RunInv(q)
  BY DEF WatcherIInv, RunInv
<1>2. PICK r \in Run : /\ r = Returned(q, place, cause, fatal)
                       /\ r.at = place /\ r.job = 0 /\ r.cause = cause
                       /\ r.fatal = fatal /\ r.owed = q.owed
  <2>1. /\ q.mode \in {"poll", "once", "force"} /\ q.told \in BOOLEAN
        /\ q.owed \in SUBSET JobIds
    BY <1>1 DEF Run
  <2>2. place \in Places
    BY DEF Places
  <2>3. PICK i \in Run : i = Idle /\ i.job = 0
    BY IdleRun
  <2> PICK r : r = Returned(q, place, cause, fatal)
    OBVIOUS
  <2>4. r = [at |-> place, mode |-> q.mode, plan |-> i.plan, told |-> q.told,
             cause |-> cause, fatal |-> fatal, recovering |-> i.recovering,
             owed |-> q.owed, retryable |-> i.retryable, rest |-> i.rest,
             left |-> i.left, art |-> i.art, job |-> i.job, attempt |-> i.attempt,
             published |-> i.published, seen |-> i.seen]
    <3>1. r = [i EXCEPT !.at = place, !.mode = q.mode, !.told = q.told, !.cause = cause,
                        !.fatal = fatal, !.owed = q.owed]
      BY <2>3 DEF Returned
    <3> QED
      BY <3>1 DEF Run
  <2>5. /\ i.plan \in WatchPlans /\ i.recovering \in SUBSET JobIds
        /\ i.retryable \in SUBSET JobIds /\ i.rest \in SUBSET Artifacts
        /\ i.left \in 0..Budget /\ i.art \in Artifacts \cup {None} /\ i.job \in Numbered
        /\ i.attempt \in 1..MaxRetries /\ i.published \in 0..(Outputs - 1)
        /\ i.seen \in Bytes
    BY <2>3 DEF Run
  <2> QED
    BY <2>1, <2>2, <2>3, <2>4, <2>5 DEF Run
<1>3. run' = [run EXCEPT ![w] = r]
  BY <1>2 DEF Return, Goto, Returned
<1>4. (r \in Run)'
  BY <1>2, LastingRecord DEF Sane, Lasting
<1>5. (r.owed \subseteq Watched({"completed"}))'
  BY <1>1, <1>2 DEF RunInv, Sane, Lasting
<1>6. HandInv(r)' /\ KnownInv(r)' /\ MediaInv(r)' /\ RoomInv(r)'
  BY <1>2 DEF HandInv, KnownInv, MediaInv, RoomInv, InCycle, Producing
<1>7. QuietInv(r)'
  BY <1>2, VerdictIs DEF QuietInv
<1>8. RunInv(r)'
  BY <1>4, <1>5, <1>6, <1>7 DEF RunInv
<1>9. r.at \notin Resting
  BY <1>2 DEF Resting
<1> QED
  BY <1>3, <1>8, <1>9, HolderMoves

(* Every open watch job waits to be retried, and media published           *)
(* completely are recorded.                                                *)
Tidy(retryable) ==
  /\ retryable \subseteq Watched(Startable)
  /\ Watched(Open) \subseteq retryable
  /\ intact \cap Watched(Open \cup {"failed", "canceled"}) = {}

(* Between lectures nothing runs.                                          *)
LEMMA TidyRunning ==
  ASSUME NEW S, Tidy(S)'
  PROVE  Watched({"running"})' = {}
BY DEF Tidy, Watched, WithStatus, OfKind, Open, Startable

(* A run in a cycle without a job in hand leaves the library tidy.         *)
LEMMA TidyFrom ==
  ASSUME NEW q, RunInv(q), InCycle(q), q.at \notin Validating, q.job \notin Watched(Open)
  PROVE  Tidy(q.retryable)
BY DEF RunInv, KnownInv, MediaInv, Tidy

(* It stays tidy when the watchers notice nothing.                         *)
LEMMA TidyUnnoticed ==
  ASSUME NEW S, Tidy(S), Unnoticed
  PROVE  Tidy(S)'
<1>1. \A T : Watched(T)' = Watched(T)
  BY UnnoticedStatus
<1>2. (intact \cap Watched(Open \cup {"failed", "canceled"}))'
        \subseteq intact \cap Watched(Open \cup {"failed", "canceled"})
  BY <1>1 DEF Unnoticed, Watched, WithStatus
<1> QED
  BY <1>1, <1>2 DEF Tidy

(* A lecture could not be downloaded, and the run ends for it.             *)
LEMMA HolderReportsFatal ==
  ASSUME WatcherIInv, NEW w \in Watchers, run[w].at \notin Resting,
         Report(w, TRUE), UNCHANGED lock, Sane
  PROVE  WatcherIInv'
<1> PICK q : q = run[w]
  OBVIOUS
<1>1. q \in Run /\ q.owed \subseteq Watched({"completed"})
  BY DEF WatcherIInv, RunInv
<1>2. PICK r : r = [q EXCEPT !.at = "report", !.fatal = TRUE]
  OBVIOUS
<1>3. r \in Run /\ r.at = "report" /\ r.fatal /\ r.owed = q.owed
  <2>1. "report" \in Places
    BY DEF Places
  <2>2. r \in Run
    BY <1>1, <1>2, <2>1 DEF Run
  <2> QED
    BY <1>1, <1>2, <2>2 DEF Run
<1>4. (r \in Run)'
  BY <1>3, LastingRecord DEF Sane, Lasting
<1>5. (r.owed \subseteq Watched({"completed"}))'
  BY <1>1, <1>3 DEF Sane, Lasting
<1>6. HandInv(r)' /\ QuietInv(r)' /\ KnownInv(r)' /\ MediaInv(r)' /\ RoomInv(r)'
  BY <1>3 DEF HandInv, QuietInv, KnownInv, MediaInv, RoomInv, InCycle, Producing, Handless
<1>7. RunInv(r)'
  BY <1>4, <1>5, <1>6 DEF RunInv
<1>8. run' = [run EXCEPT ![w] = r] /\ r.at \notin Resting
  BY <1>2, <1>3 DEF Report, Goto, Resting
<1> QED
  BY <1>7, <1>8, HolderMoves

(* A lecture could not be downloaded, and the cycle goes on after it.      *)
LEMMA HolderReports ==
  ASSUME WatcherIInv, NEW w \in Watchers, run[w].at \notin Resting,
         Report(w, FALSE), UNCHANGED lock, Sane,
         NEW S, S = run[w].retryable, Tidy(S)',
         NEW j, j = run[w].job, j \notin Watched(Open)'
  PROVE  WatcherIInv'
<1> PICK q : q = run[w]
  OBVIOUS
<1>1. q \in Run /\ q.owed \subseteq Watched({"completed"})
  BY DEF WatcherIInv, RunInv
<1>2. PICK r : r = [q EXCEPT !.at = "report", !.fatal = FALSE]
  OBVIOUS
<1>3. /\ r \in Run /\ r.at = "report" /\ ~r.fatal /\ r.owed = q.owed
      /\ r.retryable = S /\ r.job = j
  <2>1. "report" \in Places
    BY DEF Places
  <2>2. r \in Run
    BY <1>1, <1>2, <2>1 DEF Run
  <2> QED
    BY <1>1, <1>2, <2>2 DEF Run
<1>4. (r \in Run)'
  BY <1>3, LastingRecord DEF Sane, Lasting
<1>5. (r.owed \subseteq Watched({"completed"}))'
  BY <1>1, <1>3 DEF Sane, Lasting
<1>6. HandInv(r)' /\ QuietInv(r)' /\ RoomInv(r)'
  BY <1>3 DEF HandInv, QuietInv, RoomInv, Producing, Handless
<1>7. KnownInv(r)' /\ MediaInv(r)'
  <2>1. Watched(Startable)' \subseteq Watched(Open)'
    BY DEF Watched, WithStatus, Startable, Open
  <2> QED
    BY <1>3, <2>1 DEF KnownInv, MediaInv, Tidy
<1>8. RunInv(r)'
  BY <1>4, <1>5, <1>6, <1>7 DEF RunInv
<1>9. run' = [run EXCEPT ![w] = r] /\ r.at \notin Resting
  BY <1>2, <1>3 DEF Report, Goto, Resting
<1> QED
  BY <1>8, <1>9, HolderMoves

(* A record between two lectures, or between two cycles.                   *)
LEMMA TidyRecord ==
  ASSUME NEW r \in Run, r.at \in {"greet", "cycle", "next", "wait"}, r.job = 0,
         r.owed \subseteq Watched({"completed"})', NEW S, S = r.retryable, Tidy(S)',
         JobsInv', Lasting
  PROVE  RunInv(r)'
<1>1. (r \in Run)'
  BY LastingRecord DEF Lasting
<1>2. HandInv(r)' /\ QuietInv(r)' /\ RoomInv(r)'
  BY DEF HandInv, QuietInv, RoomInv, Producing, Handless
<1>3. 0 \notin JobIds'
  BY DEF JobsInv, JobIds
<1>4. KnownInv(r)' /\ MediaInv(r)'
  BY <1>3 DEF KnownInv, MediaInv, Tidy, Watched, WithStatus, OfKind
<1> QED
  BY <1>1, <1>2, <1>4 DEF RunInv

(* A cycle is over.                                                        *)
LEMMA HolderEndsCycle ==
  ASSUME WatcherIInv, NEW w \in Watchers, run[w].at \notin Resting,
         NEW cause \in {"none", "canceled", "error"},
         EndCycle(w, cause), UNCHANGED lock, Sane,
         NEW S, S = run[w].retryable, Tidy(S)'
  PROVE  WatcherIInv'
<1> PICK q : q = run[w]
  OBVIOUS
<1>1. q \in Run /\ q.owed \subseteq Watched({"completed"})
  BY DEF WatcherIInv, RunInv
<1>2. CASE q.mode = "poll"
  <2>1. PICK r : r = [q EXCEPT !.at = "wait", !.cause = "none", !.job = 0,
                              !.rest = {}, !.left = Budget, !.art = Idle.art]
    OBVIOUS
  <2>2. Budget \in 0..Budget /\ Idle.art \in Artifacts \cup {None} /\ 0 \in Numbered
    BY IdleRun, WatcherAssumption DEF Run, Numbered
  <2>3. /\ r \in Run /\ r.at = "wait" /\ r.job = 0 /\ r.owed = q.owed
        /\ r.retryable = S
    <3>1. "wait" \in Places
      BY DEF Places
    <3>2. r \in Run
      BY <1>1, <2>1, <2>2, <3>1 DEF Run
    <3> QED
      BY <1>1, <2>1, <3>2 DEF Run
  <2>4. RunInv(r)'
    BY <1>1, <2>3, TidyRecord DEF Sane, Lasting
  <2>5. run' = [run EXCEPT ![w] = r] /\ r.at \notin Resting
    BY <1>2, <2>1, <2>3 DEF EndCycle, Goto, Resting
  <2> QED
    BY <2>4, <2>5, HolderMoves
<1>3. CASE q.mode # "poll"
  <2>1. Return(w, "close", cause, FALSE)
    BY <1>3 DEF EndCycle, Leave
  <2>2. Watched({"running"})' = {}
    BY TidyRunning
  <2> QED
    BY <2>1, <2>2, HolderReturns
<1> QED
  BY <1>2, <1>3

-------------------------------------------------------------------------------
(* Moves that leave the library alone.                                     *)

Still(w) ==
  /\ UNCHANGED <<jobs, latest, media, tui, lock>> /\ Spent
  /\ announced' \subseteq Watched({"completed"})
  /\ run[w].at \notin Resting

(* A step that only moves a run leaves the library sane and unnoticed.     *)
LEMMA StillSane ==
  ASSUME WatcherIInv, NEW w, Still(w)
  PROVE  Sane /\ Unnoticed
BY Steady DEF Still

(* What the invariant says of one process.                                 *)
LEMMA RunningInv ==
  ASSUME WatcherIInv, NEW w \in Watchers
  PROVE  RunInv(run[w]) /\ run[w] \in Run
BY DEF WatcherIInv, RunInv

(* The lock holder moves on in a library that stays as it is.              *)
LEMMA HolderSteps ==
  ASSUME WatcherIInv, NEW w \in Watchers, Still(w),
         NEW r, RunInv(r), r.at \notin Resting, run' = [run EXCEPT ![w] = r]
  PROVE  WatcherIInv'
<1>1. Sane /\ Unnoticed
  BY StillSane
<1>2. RunInv(r)'
  BY <1>1, UnnoticedKept
<1> QED
  BY <1>1, <1>2, HolderMoves DEF Still

(* It gives up: prepareWatch or Run returns an error.                      *)
LEMMA HolderFails ==
  ASSUME WatcherIInv, NEW w \in Watchers, Still(w),
         \/ Abort(w, "error", TRUE) \/ Abort(w, "error", FALSE)
         \/ Abort(w, "canceled", FALSE) \/ Leave(w, "error", TRUE)
  PROVE  WatcherIInv'
<1>1. Sane /\ UNCHANGED lock /\ run[w].at \notin Resting
  BY StillSane DEF Still
<1>2. CASE Abort(w, "error", TRUE)
  BY <1>1, <1>2, HolderReturns DEF Abort
<1>3. CASE Abort(w, "error", FALSE)
  BY <1>1, <1>3, HolderReturns DEF Abort
<1>4. CASE Abort(w, "canceled", FALSE)
  BY <1>1, <1>4, HolderReturns DEF Abort
<1>5. CASE Leave(w, "error", TRUE)
  BY <1>1, <1>5, HolderReturns DEF Leave
<1> QED
  BY <1>2, <1>3, <1>4, <1>5

(* It stops for the signal while no watch job runs.                        *)
LEMMA HolderStops ==
  ASSUME WatcherIInv, NEW w \in Watchers, Still(w), Leave(w, "canceled", FALSE),
         Watched({"running"}) = {}
  PROVE  WatcherIInv'
<1>1. Sane /\ Unnoticed
  BY StillSane
<1>2. Watched({"running"})' = {}
  BY <1>1, UnnoticedStatus
<1> QED
  BY <1>1, <1>2, HolderReturns DEF Leave, Still

(* What a trouble or its absence leaves of a step that leaves all alone.   *)
LEMMA StillFrom ==
  ASSUME WatcherIInv, NEW w \in Watchers, run[w].at \notin Resting,
         UNCHANGED troubles \/ Trouble, UNCHANGED <<jobs, latest, media, tui, lock, announced>>
  PROVE  Still(w)
BY SpentTroubles DEF Still, WatcherIInv

(* A run goes on to another place with what it has.                        *)
MovedTo(r, q, place) ==
  /\ r.at = place /\ r.job = q.job /\ r.owed = q.owed /\ r.recovering = q.recovering
  /\ r.retryable = q.retryable /\ r.art = q.art /\ r.plan = q.plan
  /\ r.fatal = q.fatal /\ r.cause = q.cause

(* Moving to another place keeps the rest of a record.                     *)
LEMMA SteppedRecord ==
  ASSUME NEW q \in Run, NEW place \in Places
  PROVE  \E r \in Run : r = [q EXCEPT !.at = place] /\ MovedTo(r, q, place)
<1> PICK r : r = [q EXCEPT !.at = place]
  OBVIOUS
<1>1. r \in Run
  BY DEF Run
<1>2. MovedTo(r, q, place)
  BY DEF Run, MovedTo
<1> QED
  BY <1>1, <1>2

(* A step to a place of which nothing more is said.                        *)
LEMMA HolderWalks ==
  ASSUME WatcherIInv, NEW w \in Watchers, Still(w), NEW place \in Places, Step(w, place),
         \A r \in Run : MovedTo(r, run[w], place) => RunInv(r) /\ r.at \notin Resting
  PROVE  WatcherIInv'
<1> PICK q : q = run[w]
  OBVIOUS
<1>1. q \in Run
  BY RunningInv
<1>2. PICK r \in Run : r = [q EXCEPT !.at = place] /\ MovedTo(r, q, place)
  BY <1>1, SteppedRecord
<1>3. RunInv(r) /\ r.at \notin Resting
  BY <1>2
<1>4. run' = [run EXCEPT ![w] = r]
  BY <1>2 DEF Step, Goto
<1> QED
  BY <1>3, <1>4, HolderSteps

-------------------------------------------------------------------------------
(* prepareWatch.                                                           *)

(* library.Open succeeds, is canceled or fails.                            *)
LEMMA OpenLibraryStep ==
  ASSUME WatcherIInv, NEW w \in Watchers, OpenLibrary(w)
  PROVE  WatcherIInv'
<1>1. RunInv(run[w]) /\ run[w] \in Run /\ run[w].at = "open"
  BY RunningInv DEF OpenLibrary, At
<1>2. Still(w)
  BY <1>1, StillFrom DEF OpenLibrary, Aside, Resting
<1>3. CASE Step(w, "mark")
  <2>1. \A r \in Run : MovedTo(r, run[w], "mark") => RunInv(r) /\ r.at \notin Resting
    BY <1>1 DEF MovedTo, RunInv, HandInv, QuietInv, KnownInv, MediaInv, RoomInv,
       InCycle, Producing, Handless, Resting
  <2>2. "mark" \in Places
    BY DEF Places
  <2> QED
    BY <1>2, <1>3, <2>1, <2>2, HolderWalks
<1> QED
  BY <1>2, <1>3, HolderFails DEF OpenLibrary

(* Every job that was running or waits for a retry is taken note of, and   *)
(* none runs any more.                                                     *)
LEMMA MarkStep ==
  ASSUME WatcherIInv, NEW w \in Watchers, Mark(w)
  PROVE  WatcherIInv'
<1> PICK q : q = run[w]
  OBVIOUS
<1>1. RunInv(q) /\ q \in Run /\ q.at = "mark" /\ q.at \notin Resting
  BY RunningInv DEF Mark, At, Resting
<1>2. PICK marked : marked = [j \in JobIds |-> IF j \in Interrupted("watch")
                                               THEN [jobs[j] EXCEPT !.status = "recoverable"]
                                               ELSE jobs[j]]
  OBVIOUS
<1>3. /\ UNCHANGED <<latest, media, tui, announced, lock>>
      /\ \/ /\ UNCHANGED troubles /\ jobs' = marked
            /\ Goto(w, [q EXCEPT !.at = "recover", !.recovering = Recoverables])
         \/ Trouble /\ jobs' \in {jobs, marked} /\ Abort(w, "error", TRUE)
  BY <1>2 DEF Mark, MarkInterrupted, Aside
<1>4. Spent
  BY <1>3, SpentTroubles
<1>5. /\ Sane /\ Reclassified
      /\ \A j \in JobIds : jobs'[j].status \in {jobs[j].status, "recoverable"}
  BY <1>2, <1>3, <1>4, MarkedSane
<1>6. CASE Abort(w, "error", TRUE)
  BY <1>1, <1>3, <1>5, <1>6, HolderReturns DEF Abort
<1>7. CASE jobs' = marked /\ Goto(w, [q EXCEPT !.at = "recover", !.recovering = Recoverables])
  <2>1. PICK r : r = [q EXCEPT !.at = "recover", !.recovering = Recoverables]
    OBVIOUS
  <2>2. r.at = "recover" /\ r.recovering = Recoverables /\ r.job = q.job /\ r.owed = q.owed
    BY <1>1, <2>1 DEF Run
  <2>3. r \in Run
    <3>1. "recover" \in Places
      BY DEF Places
    <3>2. Recoverables \in SUBSET JobIds
      BY DEF Recoverables, WithStatus, OfKind
    <3> QED
      BY <1>1, <2>1, <3>1, <3>2 DEF Run
  <2>4. \A j \in JobIds : jobs'[j] = IF j \in Interrupted("watch")
                                     THEN [jobs[j] EXCEPT !.status = "recoverable"]
                                     ELSE jobs[j]
    BY <1>2, <1>7
  <2>5. \A j \in Interrupted("watch") : jobs'[j].status = "recoverable"
    <3>1. \A j \in Interrupted("watch") : j \in JobIds /\ jobs[j] \in Job
      BY JobCount DEF WatcherIInv, Interrupted, WithStatus, OfKind
    <3> QED
      BY <2>4, <3>1 DEF Job
  <2>6. \A k : OfKind(k)' = OfKind(k)
    BY <1>5, ReclassifiedJobs DEF WatcherIInv
  <2>7. Watched({"running"})' = {}
    <3>1. \A j \in OfKind("watch") : j \in JobIds
      BY DEF OfKind
    <3>2. \A j \in OfKind("watch") : jobs'[j].status # "running"
      BY <1>5, <2>5, <3>1 DEF Interrupted, WithStatus
    <3> QED
      BY <2>6, <3>2 DEF Watched, WithStatus
  <2>8. Recoverables \subseteq Watched({"recoverable"})'
    <3>1. \A j \in Recoverables : j \in OfKind("watch") /\ j \in JobIds
      BY DEF Recoverables, WithStatus, OfKind
    <3>2. \A j \in Recoverables : jobs'[j].status = "recoverable"
      BY <1>5, <2>5, <3>1 DEF Recoverables, WithStatus, Interrupted
    <3> QED
      BY <2>6, <3>1, <3>2 DEF Watched, WithStatus
  <2>9. (intact \cap Watched(Open \cup {"failed", "canceled"}))' \subseteq Recoverables
    <3> SUFFICES ASSUME NEW j \in intact, j \in Watched(Open \cup {"failed", "canceled"})'
                 PROVE  j \in Recoverables
      BY <1>3 DEF media
    <3>1. j \in OfKind("watch") /\ j \in JobIds /\ jobs'[j].status # "completed"
      BY <2>6 DEF Watched, WithStatus, OfKind, Open
    <3>2. jobs[j].status \notin {"pending", "failed", "canceled"} /\ jobs[j] \in Job
      BY <3>1, JobCount DEF WatcherIInv, IntactInv, Watched, WithStatus
    <3>3. jobs[j].status # "completed"
      BY <1>5, <3>1 DEF Reclassified
    <3> QED
      BY <3>1, <3>2, <3>3 DEF Recoverables, WithStatus, Job, Open, Terminal
  <2>10. (r \in Run)'
    BY <2>3, LastingRecord, <1>5 DEF Sane, Lasting
  <2>11. (r.owed \subseteq Watched({"completed"}))'
    BY <1>1, <2>2, <1>5 DEF RunInv, Sane, Lasting
  <2>12. HandInv(r)' /\ KnownInv(r)' /\ RoomInv(r)'
    BY <1>1, <2>2 DEF RunInv, HandInv, KnownInv, RoomInv, InCycle, Producing, Handless
  <2>13. QuietInv(r)' /\ MediaInv(r)'
    BY <2>2, <2>7, <2>8, <2>9 DEF QuietInv, MediaInv, InCycle, Producing
  <2>14. RunInv(r)'
    BY <2>10, <2>11, <2>12, <2>13 DEF RunInv
  <2>15. run' = [run EXCEPT ![w] = r] /\ r.at \notin Resting
    BY <1>7, <2>1, <2>2 DEF Goto, Resting
  <2> QED
    BY <1>1, <1>3, <1>5, <2>14, <2>15, HolderMoves
<1> QED
  BY <1>3, <1>6, <1>7

-------------------------------------------------------------------------------
(* The oldest and the newest of some jobs.                                 *)

(* A set of numbers has a least one.                                       *)
LEMMA Least ==
  ASSUME NEW S, S \subseteq Nat, S # {}
  PROVE  \E n \in S : \A k \in S : n <= k
<1> DEFINE R == OpToRel(<, Nat)
<1>1. IsWellFoundedOn(R, Nat)
  BY NatLessThanWellFounded, Zenon
<1>2. \A k, n \in Nat : k < n => <<k, n>> \in R
  BY DEF OpToRel
<1> HIDE DEF R
<1>3. PICK n \in S : \A k \in S : ~(<<k, n>> \in R)
  BY <1>1, WFMin
<1>4. \A k \in S : ~(k < n)
  BY <1>2, <1>3
<1> QED
  BY <1>4

(* The oldest of some jobs is one of them.                                 *)
LEMMA FirstIs ==
  ASSUME NEW S, S \subseteq Nat, S # {}
  PROVE  First(S) \in S
BY Least DEF First

(* And so is the newest, as there are finitely many.                       *)
LEMMA NewestIs ==
  ASSUME NEW m \in Nat, NEW S, S \subseteq 1..m, S # {}
  PROVE  Newest(S) \in S
<1> PICK T : T = {m - j : j \in S}
  OBVIOUS
<1>1. \A j \in S : j \in Nat /\ j <= m /\ m - j \in Nat /\ m - j \in T
  OBVIOUS
<1>2. T \subseteq Nat /\ T # {}
  BY <1>1
<1>3. PICK n \in T : \A k \in T : n <= k
  BY <1>2, Least
<1>4. PICK j \in S : n = m - j
  BY <1>3
<1>5. \A k \in S : j >= k
  BY <1>1, <1>3, <1>4
<1> QED
  BY <1>5 DEF Newest

(* Recovery takes the oldest job of those it still has to look at.         *)
LEMMA RecoveringJob ==
  ASSUME WatcherIInv, NEW w \in Watchers, Recovering(w),
         NEW j, j = First(run[w].recovering)
  PROVE  /\ j \in run[w].recovering /\ j \in JobIds /\ j \in Numbered
         /\ j \in Watched({"recoverable"})
<1> PICK S : S = run[w].recovering
  OBVIOUS
<1>1. S \subseteq JobIds /\ S # {} /\ S \subseteq Watched({"recoverable"})
  BY RunningInv DEF Recovering, At, Run, RunInv, QuietInv
<1>2. JobIds \subseteq Nat /\ JobIds \subseteq Numbered
  <2>1. Numbered \subseteq Nat
    BY WatcherAssumption DEF Numbered
  <2> QED
    BY <2>1, JobCount DEF WatcherIInv
<1>3. First(S) \in S
  BY <1>1, <1>2, FirstIs
<1> QED
  BY <1>1, <1>2, <1>3

(* The files of a job are numbered by the jobs that wrote them.            *)
LEMMA MediaBytes ==
  ASSUME WatcherIInv, NEW j \in JobIds
  PROVE  Media(j) \in Bytes
<1>1. jobs[j] \in Job
  BY JobCount DEF WatcherIInv
<1>2. jobs[j].art \in Artifacts /\ jobs[j].plan \in Plans
  BY <1>1 DEF Job
<1> QED
  BY <1>2 DEF WatcherIInv, RecordsInv, Media

(* Recovery finds the outputs of a job and goes on to record them.         *)
LEMMA RecoverWholeStep ==
  ASSUME WatcherIInv, NEW w \in Watchers, RecoverWhole(w)
  PROVE  WatcherIInv'
<1> PICK q : q = run[w]
  OBVIOUS
<1>1. RunInv(q) /\ q \in Run /\ q.at = "recover" /\ Recovering(w)
  BY RunningInv DEF RecoverWhole, Recovering, At
<1>2. Still(w)
  BY <1>1, StillFrom DEF RecoverWhole, Aside, Resting, library
<1>3. PICK j : j = First(q.recovering)
  OBVIOUS
<1>4. j \in q.recovering /\ j \in JobIds /\ j \in Numbered
  BY <1>1, <1>3, RecoveringJob
<1>5. PICK r : r = [q EXCEPT !.at = "rerecord", !.job = j, !.seen = Media(j)]
  OBVIOUS
<1>6. r \in Run
  <2>1. "rerecord" \in Places
    BY DEF Places
  <2>2. PICK b : b = Media(j)
    OBVIOUS
  <2>3. b \in Bytes
    BY <2>2, <1>4, MediaBytes
  <2> QED
    BY <1>1, <1>4, <1>5, <2>1, <2>2, <2>3 DEF Run
<1>7. /\ r.at = "rerecord" /\ r.job = j /\ r.recovering = q.recovering
      /\ r.owed = q.owed
  BY <1>1, <1>5 DEF Run
<1>8. RunInv(r)
  BY <1>1, <1>4, <1>6, <1>7 DEF RunInv, HandInv, QuietInv, KnownInv, MediaInv, RoomInv,
     InCycle, Producing, Handless
<1>9. run' = [run EXCEPT ![w] = r] /\ r.at \notin Resting
  BY <1>3, <1>5, <1>7 DEF RecoverWhole, Goto, Resting
<1> QED
  BY <1>2, <1>8, <1>9, HolderSteps

(* A record that is done with one interrupted job.                         *)
LEMMA DoneRecord ==
  ASSUME NEW q \in Run, NEW j
  PROVE  \E r \in Run : /\ r = Done(q, j)
                        /\ r.at = "recover" /\ r.job = 0 /\ r.owed = q.owed
                        /\ r.recovering = q.recovering \ {j}
<1>1. NoFiles \in Bytes /\ 0 \in Numbered
  BY WriterNames DEF NoFiles, Bytes
<1>2. q.recovering \ {j} \in SUBSET JobIds
  BY DEF Run
<1>3. "recover" \in Places
  BY DEF Places
<1>4. PICK s : s = q.recovering \ {j}
  OBVIOUS
<1>5. PICK d : d = [q EXCEPT !.at = "recover", !.recovering = s, !.job = 0, !.seen = NoFiles]
  OBVIOUS
<1>6. d \in Run
  BY <1>1, <1>2, <1>3, <1>4, <1>5 DEF Run
<1>7. d.at = "recover" /\ d.job = 0 /\ d.owed = q.owed /\ d.recovering = s
  BY <1>5 DEF Run
<1>8. Done(q, j) = d
  BY <1>4, <1>5 DEF Done
<1> QED
  BY <1>4, <1>6, <1>7, <1>8

(* Recovery does not find them: the job waits for a retry.                 *)
LEMMA RecoverPendingStep ==
  ASSUME WatcherIInv, NEW w \in Watchers, RecoverPending(w)
  PROVE  WatcherIInv'
<1> PICK q : q = run[w]
  OBVIOUS
<1>1. RunInv(q) /\ q \in Run /\ q.at = "recover" /\ Recovering(w)
  BY RunningInv DEF RecoverPending, Recovering, At
<1>2. PICK j : j = First(q.recovering)
  OBVIOUS
<1>3. /\ ~Whole(Media(j)) /\ UNCHANGED <<jobs, latest, media, Aside>>
      /\ \/ UNCHANGED troubles /\ Goto(w, Done(q, j))
         \/ Trouble /\ Abort(w, "error", TRUE)
  BY <1>2 DEF RecoverPending
<1>4. Still(w)
  BY <1>1, <1>3, StillFrom DEF Aside, Resting
<1>5. CASE Abort(w, "error", TRUE)
  BY <1>4, <1>5, HolderFails
<1>6. CASE Goto(w, Done(q, j))
  <2>1. PICK r \in Run : /\ r = Done(q, j)
                         /\ r.at = "recover" /\ r.job = 0 /\ r.owed = q.owed
                         /\ r.recovering = q.recovering \ {j}
    BY <1>1, DoneRecord
  <2>2. j \notin intact
    BY <1>3 DEF WatcherIInv, IntactInv
  <2>3. RunInv(r)
    BY <1>1, <2>1, <2>2 DEF RunInv, HandInv, QuietInv, KnownInv, MediaInv, RoomInv,
       InCycle, Producing, Handless
  <2>4. run' = [run EXCEPT ![w] = r] /\ r.at \notin Resting
    BY <1>6, <2>1 DEF Goto, Resting
  <2> QED
    BY <1>4, <2>3, <2>4, HolderSteps
<1> QED
  BY <1>3, <1>5, <1>6

(* Recovery completes a job, and the run owes its announcement.            *)
LEMMA RecoverRecordStep ==
  ASSUME WatcherIInv, NEW w \in Watchers, RecoverRecord(w)
  PROVE  WatcherIInv'
<1> PICK q : q = run[w]
  OBVIOUS
<1>1. RunInv(q) /\ q \in Run /\ q.at = "rerecord" /\ q.at \notin Resting
  BY RunningInv DEF RecoverRecord, At, Resting
<1> PICK j : j = q.job
  OBVIOUS
<1>2. j \in q.recovering /\ j \in Watched({"recoverable"}) /\ j \in JobIds /\ q.seen \in Bytes
  BY <1>1 DEF RunInv, HandInv, QuietInv, Run
<1>3. jobs[j].status \in Completable
  BY <1>2 DEF Watched, WithStatus, Completable
<1>4. /\ UNCHANGED <<media, tui, announced, lock>>
      /\ UNCHANGED troubles \/ Trouble
      /\ \/ UNCHANGED <<jobs, latest>>
         \/ /\ jobs' = Moved(j, Completable, "completed")
            /\ latest' = IF jobs[j].status \in Completable THEN Recorded(j, q.seen) ELSE latest
      /\ \/ /\ jobs' = Moved(j, Completable, "completed")
            /\ Goto(w, [Done(q, j) EXCEPT !.owed = @ \cup {j}])
         \/ Abort(w, "error", TRUE)
  BY <1>3 DEF RecoverRecord, CompleteJob, Aside
<1>5. /\ Sane /\ Reclassified
      /\ \A i \in JobIds \ {j} : jobs'[i] = jobs[i]
      /\ jobs'[j].status \in {jobs[j].status, "completed"}
      /\ jobs' = Moved(j, Completable, "completed") => jobs'[j].status = "completed"
  <2>1. Spent
    BY <1>4, SpentTroubles
  <2> QED
    BY <1>2, <1>3, <1>4, <2>1, CompletedSane
<1>6. CASE Abort(w, "error", TRUE)
  BY <1>1, <1>4, <1>5, <1>6, HolderReturns DEF Abort
<1>7. CASE /\ jobs' = Moved(j, Completable, "completed")
           /\ Goto(w, [Done(q, j) EXCEPT !.owed = @ \cup {j}])
  <2>1. PICK d \in Run : /\ d = Done(q, j)
                         /\ d.at = "recover" /\ d.job = 0 /\ d.owed = q.owed
                         /\ d.recovering = q.recovering \ {j}
    BY <1>1, DoneRecord
  <2>2. PICK owed : owed = q.owed \cup {j}
    OBVIOUS
  <2>3. PICK r : r = [d EXCEPT !.owed = owed]
    OBVIOUS
  <2>4. r \in Run
    <3>1. owed \in SUBSET JobIds
      BY <1>1, <1>2, <2>2 DEF Run
    <3> QED
      BY <2>1, <2>3, <3>1 DEF Run
  <2>5. r.at = "recover" /\ r.job = 0 /\ r.owed = owed /\ r.recovering = q.recovering \ {j}
    BY <2>1, <2>3 DEF Run
  <2>6. \A k : OfKind(k)' = OfKind(k)
    BY <1>5, ReclassifiedJobs DEF WatcherIInv
  <2>7. j \in Watched({"completed"})'
    BY <1>2, <1>5, <1>7, <2>6 DEF Watched, WithStatus
  <2>8. \A i \in OfKind("watch") : i # j => jobs'[i].status = jobs[i].status
    BY <1>5 DEF OfKind
  <2>9. Watched({"running"})' = {}
    <3>1. Watched({"running"}) = {}
      BY <1>1 DEF RunInv, QuietInv
    <3> QED
      BY <2>6, <2>7, <2>8, <3>1 DEF Watched, WithStatus
  <2>10. r.recovering \subseteq Watched({"recoverable"})'
    <3>1. q.recovering \subseteq Watched({"recoverable"})
      BY <1>1 DEF RunInv, QuietInv
    <3> QED
      BY <2>5, <2>6, <2>8, <3>1 DEF Watched, WithStatus
  <2>11. (intact \cap Watched(Open \cup {"failed", "canceled"}))' \subseteq r.recovering
    <3>1. intact \cap Watched(Open \cup {"failed", "canceled"}) \subseteq q.recovering
      BY <1>1 DEF RunInv, MediaInv
    <3>2. j \notin Watched(Open \cup {"failed", "canceled"})'
      BY <2>7 DEF Watched, WithStatus, Open
    <3> QED
      BY <1>4, <2>5, <2>6, <2>8, <3>1, <3>2 DEF Watched, WithStatus, media
  <2>12. (r \in Run)'
    BY <2>4, LastingRecord, <1>5 DEF Sane, Lasting
  <2>13. (r.owed \subseteq Watched({"completed"}))'
    BY <1>1, <1>5, <2>2, <2>5, <2>7 DEF RunInv, Sane, Lasting
  <2>14. HandInv(r)' /\ KnownInv(r)' /\ RoomInv(r)'
    BY <2>5 DEF HandInv, KnownInv, RoomInv, InCycle, Producing, Handless
  <2>15. QuietInv(r)' /\ MediaInv(r)'
    BY <2>5, <2>9, <2>10, <2>11 DEF QuietInv, MediaInv, InCycle, Producing
  <2>16. RunInv(r)'
    BY <2>12, <2>13, <2>14, <2>15 DEF RunInv
  <2>17. run' = [run EXCEPT ![w] = r] /\ r.at \notin Resting
    <3>1. [Done(q, j) EXCEPT !.owed = @ \cup {j}] = r
      BY <2>1, <2>2, <2>3
    <3> QED
      BY <1>7, <2>5, <3>1 DEF Goto, Resting
  <2> QED
    BY <1>1, <1>4, <1>5, <2>16, <2>17, HolderMoves
<1> QED
  BY <1>4, <1>6, <1>7

(* ffmpeg and the login are checked once nothing is left to recover.       *)
LEMMA PreflightStep ==
  ASSUME WatcherIInv, NEW w \in Watchers, Preflight(w)
  PROVE  WatcherIInv'
<1>1. /\ RunInv(run[w]) /\ run[w] \in Run
      /\ run[w].at = "recover" /\ run[w].recovering = {}
  BY RunningInv DEF Preflight, At
<1>2. Still(w)
  BY <1>1, StillFrom DEF Preflight, Aside, Resting, library
<1>3. CASE Step(w, "load")
  <2>1. \A r \in Run : MovedTo(r, run[w], "load") => RunInv(r) /\ r.at \notin Resting
    BY <1>1 DEF MovedTo, RunInv, HandInv, QuietInv, KnownInv, MediaInv, RoomInv,
       InCycle, Producing, Handless, Resting
  <2>2. "load" \in Places
    BY DEF Places
  <2> QED
    BY <1>2, <1>3, <2>1, <2>2, HolderWalks
<1> QED
  BY <1>2, <1>3, HolderFails DEF Preflight

(* Run loads every job that may be started: the open ones, as none runs.   *)
LEMMA LoadRetryableStep ==
  ASSUME WatcherIInv, NEW w \in Watchers, LoadRetryable(w)
  PROVE  WatcherIInv'
<1> PICK q : q = run[w]
  OBVIOUS
<1>1. RunInv(q) /\ q \in Run /\ q.at = "load"
  BY RunningInv DEF LoadRetryable, At
<1>2. Still(w)
  BY <1>1, StillFrom DEF LoadRetryable, Aside, Resting
<1>3. Watched({"running"}) = {}
  BY <1>1 DEF RunInv, QuietInv
<1>4. CASE Goto(w, [q EXCEPT !.at = "greet", !.retryable = WithStatus("watch", Startable)])
  <2>1. PICK S : S = Watched(Startable)
    OBVIOUS
  <2>2. PICK r : r = [q EXCEPT !.at = "greet", !.retryable = S]
    OBVIOUS
  <2>3. r \in Run
    <3>1. "greet" \in Places /\ S \in SUBSET JobIds
      BY <2>1 DEF Places, Watched, WithStatus, OfKind
    <3> QED
      BY <1>1, <2>2, <3>1 DEF Run
  <2>4. r.at = "greet" /\ r.retryable = S /\ r.job = q.job /\ r.owed = q.owed
    BY <1>1, <2>2 DEF Run
  <2>5. q.job = 0 /\ 0 \notin JobIds
    BY <1>1, JobCount DEF WatcherIInv, RunInv, HandInv, Handless
  <2>6. Watched(Open) \subseteq S
    BY <1>3, <2>1 DEF Watched, WithStatus, Open, Startable
  <2>7. KnownInv(r)
    BY <2>1, <2>4, <2>5, <2>6 DEF KnownInv, Watched, WithStatus, OfKind
  <2>8. MediaInv(r)
    BY <1>1, <2>4 DEF RunInv, MediaInv, Validating
  <2>9. RunInv(r)
    BY <1>1, <2>3, <2>4, <2>5, <2>7, <2>8 DEF RunInv, HandInv, QuietInv, RoomInv, Producing
  <2>10. run' = [run EXCEPT ![w] = r] /\ r.at \notin Resting
    BY <1>4, <2>1, <2>2, <2>4 DEF Goto, Resting, Watched
  <2> QED
    BY <1>2, <2>9, <2>10, HolderSteps
<1>5. CASE Leave(w, "canceled", FALSE)
  BY <1>2, <1>3, <1>5, HolderStops
<1>6. CASE Leave(w, "error", TRUE)
  BY <1>2, <1>6, HolderFails
<1> QED
  BY <1>4, <1>5, <1>6 DEF LoadRetryable

-------------------------------------------------------------------------------
(* RunCycle.                                                               *)

(* Between lectures the library is tidy, and stays so while nobody calls   *)
(* it.                                                                     *)
LEMMA TidyStill ==
  ASSUME WatcherIInv, NEW w \in Watchers, Still(w),
         NEW q, q = run[w], InCycle(q), q.at \notin Validating, q.job \notin Watched(Open),
         NEW S, S = q.retryable
  PROVE  Tidy(S) /\ Tidy(S)' /\ Sane /\ UNCHANGED lock /\ Watched({"running"}) = {}
<1>1. Tidy(S)
  BY RunningInv, TidyFrom
<1>2. Sane /\ Unnoticed
  BY StillSane
<1>3. Watched({"running"}) = {}
  BY <1>1 DEF Tidy, Watched, WithStatus, OfKind, Open, Startable
<1> QED
  BY <1>1, <1>2, <1>3, TidyUnnoticed DEF Still

(* 0, no job in hand, is not an open job.                                  *)
LEMMA NoJobOpen ==
  ASSUME WatcherIInv
  PROVE  0 \notin Watched(Open)
BY JobCount DEF WatcherIInv, Watched, WithStatus, OfKind

(* The lock holder goes on between two lectures or two cycles.             *)
LEMMA HolderGoesOn ==
  ASSUME WatcherIInv, NEW w \in Watchers, run[w].at \notin Resting, UNCHANGED lock, Sane,
         NEW S, Tidy(S)', NEW r \in Run, r.at \in {"greet", "cycle", "next", "wait"},
         r.job = 0, r.retryable = S, r.owed \subseteq run[w].owed,
         run' = [run EXCEPT ![w] = r]
  PROVE  WatcherIInv'
<1>1. r.owed \subseteq Watched({"completed"})'
  BY RunningInv DEF RunInv, Sane, Lasting
<1>2. RunInv(r)'
  BY <1>1, TidyRecord DEF Sane
<1>3. r.at \notin Resting
  BY DEF Resting
<1> QED
  BY <1>2, <1>3, HolderMoves

(* watch.started is written or the run ends.                               *)
LEMMA EmitStartedStep ==
  ASSUME WatcherIInv, NEW w \in Watchers, EmitStarted(w)
  PROVE  WatcherIInv'
<1> PICK q : q = run[w]
  OBVIOUS
<1>1. RunInv(q) /\ q \in Run /\ q.at = "greet" /\ q.job = 0
  BY RunningInv DEF EmitStarted, At, RunInv, HandInv, Handless
<1>2. Still(w)
  BY <1>1, StillFrom DEF EmitStarted, Emit, Resting
<1>3. CASE Step(w, "cycle")
  <2>1. "cycle" \in Places
    BY DEF Places
  <2>2. PICK r \in Run : r = [q EXCEPT !.at = "cycle"] /\ MovedTo(r, q, "cycle")
    BY <1>1, <2>1, SteppedRecord
  <2>3. PICK S : S = q.retryable
    OBVIOUS
  <2>4. Tidy(S)' /\ Sane /\ UNCHANGED lock
    BY <1>1, <1>2, <2>3, NoJobOpen, TidyStill DEF InCycle, Validating
  <2>5. run' = [run EXCEPT ![w] = r]
    BY <1>3, <2>2 DEF Step, Goto
  <2> QED
    BY <1>1, <2>2, <2>3, <2>4, <2>5, HolderGoesOn DEF MovedTo, Resting
<1> QED
  BY <1>2, <1>3, HolderFails DEF EmitStarted, Emit

(* A recovered job is announced: it is a completed one.                    *)
LEMMA EmitRecoveredStep ==
  ASSUME WatcherIInv, NEW w \in Watchers, EmitRecovered(w)
  PROVE  WatcherIInv'
<1> PICK q : q = run[w]
  OBVIOUS
<1>1. RunInv(q) /\ q \in Run /\ q.at = "cycle" /\ q.job = 0 /\ q.owed # {}
  BY RunningInv DEF EmitRecovered, At, RunInv, HandInv, Handless
<1>2. PICK j : j = First(q.owed)
  OBVIOUS
<1>3. j \in q.owed /\ j \in Watched({"completed"})
  <2>1. JobIds \subseteq Nat
    BY JobCount, WatcherAssumption DEF WatcherIInv, Numbered
  <2>2. PICK S : S = q.owed
    OBVIOUS
  <2>3. S \subseteq Nat /\ S # {}
    BY <1>1, <2>1, <2>2 DEF Run
  <2>4. First(S) \in S
    BY <2>3, FirstIs
  <2> QED
    BY <1>1, <1>2, <2>2, <2>4 DEF RunInv
<1>4. /\ UNCHANGED <<jobs, latest, media, lock, tui>> /\ (UNCHANGED troubles \/ Trouble)
      /\ \/ Goto(w, [q EXCEPT !.owed = @ \ {j}]) /\ announced' = announced \cup {j}
         \/ UNCHANGED announced /\ Leave(w, "error", TRUE)
  BY <1>2 DEF EmitRecovered, Emit
<1>5. Still(w)
  BY <1>1, <1>3, <1>4, SpentTroubles DEF Still, WatcherIInv, Resting
<1>6. CASE Goto(w, [q EXCEPT !.owed = @ \ {j}])
  <2>1. PICK s : s = q.owed \ {j}
    OBVIOUS
  <2>2. PICK r : r = [q EXCEPT !.owed = s]
    OBVIOUS
  <2>3. r \in Run
    <3>1. s \in SUBSET JobIds
      BY <1>1, <2>1 DEF Run
    <3> QED
      BY <1>1, <2>2, <3>1 DEF Run
  <2>4. r.at = "cycle" /\ r.job = 0 /\ r.retryable = q.retryable /\ r.owed \subseteq q.owed
    BY <1>1, <2>1, <2>2 DEF Run
  <2>5. PICK S : S = q.retryable
    OBVIOUS
  <2>6. Tidy(S)' /\ Sane /\ UNCHANGED lock
    BY <1>1, <1>5, <2>5, NoJobOpen, TidyStill DEF InCycle, Validating
  <2>7. run' = [run EXCEPT ![w] = r]
    BY <1>6, <2>1, <2>2 DEF Goto
  <2> QED
    BY <1>1, <2>3, <2>4, <2>5, <2>6, <2>7, HolderGoesOn DEF Resting
<1> QED
  BY <1>4, <1>5, <1>6, HolderFails

(* A cycle begins with the lectures that the portal lists.                 *)
LEMMA ListLecturesStep ==
  ASSUME WatcherIInv, NEW w \in Watchers, ListLectures(w)
  PROVE  WatcherIInv'
<1> PICK q : q = run[w]
  OBVIOUS
<1>1. RunInv(q) /\ q \in Run /\ q.at = "cycle" /\ q.job = 0
  BY RunningInv DEF ListLectures, At, RunInv, HandInv, Handless
<1>2. Still(w)
  BY <1>1, StillFrom DEF ListLectures, Aside, Resting, library
<1>3. PICK S : S = q.retryable
  OBVIOUS
<1>4. Tidy(S)' /\ Sane /\ UNCHANGED lock /\ run[w].at \notin Resting
  BY <1>1, <1>2, <1>3, NoJobOpen, TidyStill DEF InCycle, Validating, Resting
<1>5. ASSUME NEW listed \in SUBSET Artifacts,
             Goto(w, [q EXCEPT !.at = "next", !.rest = listed])
      PROVE  WatcherIInv'
  <2>1. PICK r : r = [q EXCEPT !.at = "next", !.rest = listed]
    OBVIOUS
  <2>2. r \in Run
    <3>1. "next" \in Places
      BY DEF Places
    <3> QED
      BY <1>1, <2>1, <3>1 DEF Run
  <2>3. r.at = "next" /\ r.job = 0 /\ r.retryable = q.retryable /\ r.owed = q.owed
    BY <1>1, <2>1 DEF Run
  <2>4. run' = [run EXCEPT ![w] = r]
    BY <1>5, <2>1 DEF Goto
  <2> QED
    BY <1>3, <1>4, <2>2, <2>3, <2>4, HolderGoesOn
<1>6. CASE EndCycle(w, "error")
  BY <1>3, <1>4, <1>6, HolderEndsCycle
<1>7. CASE EndCycle(w, "canceled")
  BY <1>3, <1>4, <1>7, HolderEndsCycle
<1> QED
  BY <1>5, <1>6, <1>7 DEF ListLectures

(* A committed lecture, or one out of the budget, is passed over.          *)
LEMMA SkipStep ==
  ASSUME WatcherIInv, NEW w \in Watchers, NEW a, Skip(w, a)
  PROVE  WatcherIInv'
<1> PICK q : q = run[w]
  OBVIOUS
<1>1. RunInv(q) /\ q \in Run /\ q.at = "next" /\ q.job = 0
  BY RunningInv DEF Skip, At, RunInv, HandInv, Handless
<1>2. Still(w)
  BY <1>1, StillFrom DEF Skip, Aside, Resting, library
<1>3. PICK S : S = q.retryable
  OBVIOUS
<1>4. Tidy(S)' /\ Sane /\ UNCHANGED lock /\ run[w].at \notin Resting
  BY <1>1, <1>2, <1>3, NoJobOpen, TidyStill DEF InCycle, Validating, Resting
<1>5. PICK rest : rest = q.rest \ {a}
  OBVIOUS
<1>6. PICK r : r = [q EXCEPT !.rest = rest]
  OBVIOUS
<1>7. r \in Run
  <2>1. rest \in SUBSET Artifacts
    BY <1>1, <1>5 DEF Run
  <2> QED
    BY <1>1, <1>6, <2>1 DEF Run
<1>8. r.at = "next" /\ r.job = 0 /\ r.retryable = q.retryable /\ r.owed = q.owed
  BY <1>1, <1>6 DEF Run
<1>9. run' = [run EXCEPT ![w] = r]
  BY <1>5, <1>6 DEF Skip, Goto
<1> QED
  BY <1>3, <1>4, <1>7, <1>8, <1>9, HolderGoesOn

(* A lecture is taken: there is room for its job.                          *)
LEMMA AttemptStep ==
  ASSUME WatcherIInv, NEW w \in Watchers, NEW a \in Artifacts, Attempt(w, a)
  PROVE  WatcherIInv'
<1> PICK q : q = run[w]
  OBVIOUS
<1>1. RunInv(q) /\ q \in Run /\ q.at = "next" /\ q.job = 0
  BY RunningInv DEF Attempt, At, RunInv, HandInv, Handless
<1>2. Still(w)
  BY <1>1, StillFrom DEF Attempt, Aside, Resting, library
<1>3. q.left # 0 /\ Room(w, a)
  BY DEF Attempt, Skips
<1>4. PICK rest, left : rest = q.rest \ {a} /\ left = q.left - 1
  OBVIOUS
<1>5. PICK r : r = [q EXCEPT !.at = "resolve", !.rest = rest, !.art = a, !.left = left]
  OBVIOUS
<1>6. r \in Run
  <2>1. "resolve" \in Places /\ rest \in SUBSET Artifacts /\ a \in Artifacts \cup {None}
    BY <1>1, <1>4 DEF Run, Places
  <2>2. left \in 0..Budget
    BY <1>1, <1>3, <1>4, WatcherAssumption DEF Run
  <2> QED
    BY <1>1, <1>5, <2>1, <2>2 DEF Run
<1>7. /\ r.at = "resolve" /\ r.job = 0 /\ r.retryable = q.retryable /\ r.owed = q.owed
      /\ r.art = a /\ r.plan = q.plan
  BY <1>1, <1>5 DEF Run
<1>8. KnownInv(r) /\ MediaInv(r)
  BY <1>1, <1>7 DEF RunInv, KnownInv, MediaInv, InCycle, Validating
<1>9. RoomInv(r)
  BY <1>3, <1>7 DEF RoomInv, Room
<1>10. RunInv(r)
  BY <1>1, <1>6, <1>7, <1>8, <1>9 DEF RunInv, HandInv, QuietInv, Producing
<1>11. run' = [run EXCEPT ![w] = r] /\ r.at \notin Resting
  BY <1>4, <1>5, <1>7 DEF Attempt, Goto, Resting
<1> QED
  BY <1>2, <1>10, <1>11, HolderSteps

(* committed() cannot read the library.                                    *)
LEMMA InspectFailsStep ==
  ASSUME WatcherIInv, NEW w \in Watchers, NEW a \in Artifacts, InspectFails(w, a)
  PROVE  WatcherIInv'
<1> PICK q : q = run[w]
  OBVIOUS
<1>1. RunInv(q) /\ q \in Run /\ q.at = "next"
  BY RunningInv DEF InspectFails, At
<1>2. Still(w)
  BY <1>1, StillFrom DEF InspectFails, Aside, Resting
<1>3. PICK r : r = [q EXCEPT !.at = "report", !.fatal = TRUE, !.art = a]
  OBVIOUS
<1>4. r \in Run
  <2>1. "report" \in Places /\ a \in Artifacts \cup {None}
    BY DEF Places
  <2> QED
    BY <1>1, <1>3, <2>1 DEF Run
<1>5. r.at = "report" /\ r.fatal /\ r.owed = q.owed
  BY <1>1, <1>3 DEF Run
<1>6. RunInv(r)
  BY <1>1, <1>4, <1>5 DEF RunInv, HandInv, QuietInv, KnownInv, MediaInv, RoomInv,
     InCycle, Producing, Handless
<1>7. run' = [run EXCEPT ![w] = r] /\ r.at \notin Resting
  BY <1>3, <1>5 DEF InspectFails, Goto, Resting
<1> QED
  BY <1>2, <1>6, <1>7, HolderSteps

(* A cycle is over, or cut short by the signal.                            *)
LEMMA CycleEndsStep ==
  ASSUME WatcherIInv, NEW w \in Watchers, CycleEnds(w)
  PROVE  WatcherIInv'
<1> PICK q : q = run[w]
  OBVIOUS
<1>1. RunInv(q) /\ q \in Run /\ q.at = "next" /\ q.job = 0
  BY RunningInv DEF CycleEnds, At, RunInv, HandInv, Handless
<1>2. Still(w)
  BY <1>1, StillFrom DEF CycleEnds, Aside, Resting, library
<1>3. PICK S : S = q.retryable
  OBVIOUS
<1>4. Tidy(S)' /\ Sane /\ UNCHANGED lock /\ run[w].at \notin Resting
  BY <1>1, <1>2, <1>3, NoJobOpen, TidyStill DEF InCycle, Validating, Resting
<1>5. q.cause \in {"none", "canceled", "error"}
  BY <1>1 DEF Run
<1>6. CASE EndCycle(w, q.cause)
  <2>1. PICK cause \in {"none", "canceled", "error"} : cause = q.cause
    BY <1>5
  <2> QED
    BY <1>3, <1>4, <1>6, <2>1, HolderEndsCycle
<1>7. CASE EndCycle(w, "canceled")
  BY <1>3, <1>4, <1>7, HolderEndsCycle
<1> QED
  BY <1>6, <1>7 DEF CycleEnds

(* The timer starts the next cycle.                                        *)
LEMMA WaitStep ==
  ASSUME WatcherIInv, NEW w \in Watchers, Wait(w)
  PROVE  WatcherIInv'
<1> PICK q : q = run[w]
  OBVIOUS
<1>1. RunInv(q) /\ q \in Run /\ q.at = "wait" /\ q.job = 0
  BY RunningInv DEF Wait, At, RunInv, HandInv, Handless
<1>2. Still(w)
  BY <1>1, StillFrom DEF Wait, Aside, Resting, library
<1>3. PICK S : S = q.retryable
  OBVIOUS
<1>4. Tidy(S)' /\ Sane /\ UNCHANGED lock /\ run[w].at \notin Resting
  BY <1>1, <1>2, <1>3, NoJobOpen, TidyStill DEF InCycle, Validating, Resting
<1>5. "cycle" \in Places
  BY DEF Places
<1>6. PICK r \in Run : r = [q EXCEPT !.at = "cycle"] /\ MovedTo(r, q, "cycle")
  BY <1>1, <1>5, SteppedRecord
<1>7. run' = [run EXCEPT ![w] = r]
  BY <1>6 DEF Wait, Step, Goto
<1> QED
  BY <1>1, <1>3, <1>4, <1>6, <1>7, HolderGoesOn DEF MovedTo

(* The signal ends the wait.                                               *)
LEMMA StopWaitingStep ==
  ASSUME WatcherIInv, NEW w \in Watchers, StopWaiting(w)
  PROVE  WatcherIInv'
<1> PICK q : q = run[w]
  OBVIOUS
<1>1. RunInv(q) /\ q \in Run /\ q.at = "wait" /\ q.job = 0
  BY RunningInv DEF StopWaiting, At, RunInv, HandInv, Handless
<1>2. Still(w)
  BY <1>1, StillFrom DEF StopWaiting, Aside, Resting, library
<1>3. Watched({"running"}) = {}
  BY <1>1, <1>2, NoJobOpen, TidyStill DEF InCycle, Validating
<1> QED
  BY <1>2, <1>3, HolderStops DEF StopWaiting

(* A record that is done with one lecture.                                 *)
LEMMA NextLectureRecord ==
  ASSUME NEW q \in Run
  PROVE  \E r \in Run : /\ r = NextLecture(q) /\ r.at = "next" /\ r.job = 0
                        /\ r.retryable = q.retryable /\ r.owed = q.owed
<1>1. /\ NoFiles \in Bytes /\ 0 \in Numbered /\ 1 \in 1..MaxRetries
      /\ 0 \in 0..(Outputs - 1)
  BY WriterNames, WatcherAssumption, LibraryAssumption DEF NoFiles, Bytes
<1>2. "next" \in Places
  BY DEF Places
<1>3. PICK n \in Artifacts \cup {None} : n = Idle.art
  BY IdleRun DEF Run
<1>4. PICK r : r = [q EXCEPT !.at = "next", !.art = n, !.job = 0,
                            !.attempt = 1, !.published = 0, !.seen = NoFiles]
  OBVIOUS
<1>5. r \in Run
  BY <1>1, <1>2, <1>4 DEF Run
<1>6. r.at = "next" /\ r.job = 0 /\ r.retryable = q.retryable /\ r.owed = q.owed
  BY <1>4 DEF Run
<1>7. r = NextLecture(q)
  BY <1>3, <1>4 DEF NextLecture
<1> QED
  BY <1>5, <1>6, <1>7

(* lecture.failed is written before the cycle goes on or the run ends.     *)
LEMMA EmitFailedStep ==
  ASSUME WatcherIInv, NEW w \in Watchers, EmitFailed(w)
  PROVE  WatcherIInv'
<1> PICK q : q = run[w]
  OBVIOUS
<1>1. RunInv(q) /\ q \in Run /\ q.at = "report"
  BY RunningInv DEF EmitFailed, At
<1>2. Still(w)
  BY <1>1, StillFrom DEF EmitFailed, Emit, Resting
<1>3. CASE Leave(w, "error", TRUE)
  BY <1>2, <1>3, HolderFails
<1>4. CASE ~Leave(w, "error", TRUE)
  <2>1. ~q.fatal
    BY <1>4 DEF EmitFailed, Emit
  <2>2. q.job \notin Watched(Open) /\ InCycle(q)
    BY <1>1, <2>1 DEF RunInv, HandInv, InCycle
  <2>3. PICK S : S = q.retryable
    OBVIOUS
  <2>4. Tidy(S)' /\ Sane /\ UNCHANGED lock /\ run[w].at \notin Resting
    BY <1>1, <1>2, <2>2, <2>3, TidyStill DEF Validating, Resting
  <2>5. CASE EndCycle(w, "canceled")
    BY <2>3, <2>4, <2>5, HolderEndsCycle
  <2>6. CASE Goto(w, [NextLecture(q) EXCEPT !.cause = "error"])
    <3>1. PICK n \in Run : /\ n = NextLecture(q) /\ n.at = "next" /\ n.job = 0
                           /\ n.retryable = q.retryable /\ n.owed = q.owed
      BY <1>1, NextLectureRecord
    <3>2. PICK r : r = [n EXCEPT !.cause = "error"]
      OBVIOUS
    <3>3. r \in Run
      BY <3>1, <3>2 DEF Run
    <3>4. r.at = "next" /\ r.job = 0 /\ r.retryable = q.retryable /\ r.owed = q.owed
      BY <3>1, <3>2 DEF Run
    <3>5. run' = [run EXCEPT ![w] = r]
      BY <2>6, <3>1, <3>2 DEF Goto
    <3> QED
      BY <2>3, <2>4, <3>3, <3>4, <3>5, HolderGoesOn
  <2> QED
    BY <1>4, <2>1, <2>5, <2>6 DEF EmitFailed, Emit
<1> QED
  BY <1>3, <1>4

-------------------------------------------------------------------------------
(* resolveLecture and downloadLecture.                                     *)

(* The lecture is resolved, fails, or the run is told to stop.             *)
LEMMA ResolveStep ==
  ASSUME WatcherIInv, NEW w \in Watchers, Resolve(w)
  PROVE  WatcherIInv'
<1> PICK q : q = run[w]
  OBVIOUS
<1>1. RunInv(q) /\ q \in Run /\ q.at = "resolve" /\ q.job = 0
  BY RunningInv DEF Resolve, At, RunInv, HandInv, Handless
<1>2. Still(w)
  BY <1>1, StillFrom DEF Resolve, Aside, Resting, library
<1>3. PICK S, j : S = q.retryable /\ j = q.job
  OBVIOUS
<1>4. Tidy(S)' /\ Sane /\ UNCHANGED lock /\ run[w].at \notin Resting
  BY <1>1, <1>2, <1>3, NoJobOpen, TidyStill DEF InCycle, Validating, Resting
<1>5. CASE Step(w, "claim")
  <2>1. \A r \in Run : MovedTo(r, run[w], "claim") => RunInv(r) /\ r.at \notin Resting
    BY <1>1 DEF MovedTo, RunInv, HandInv, QuietInv, KnownInv, MediaInv, RoomInv,
       InCycle, Producing, Handless, Resting, Validating
  <2>2. "claim" \in Places
    BY DEF Places
  <2> QED
    BY <1>2, <1>5, <2>1, <2>2, HolderWalks
<1>6. CASE Report(w, FALSE)
  <2>1. Sane /\ Unnoticed
    BY <1>2, StillSane
  <2>2. j \notin Watched(Open)'
    BY <1>1, <1>3, <2>1, UnnoticedStatus, NoJobOpen
  <2> QED
    BY <1>3, <1>4, <1>6, <2>2, HolderReports
<1>7. CASE EndCycle(w, "canceled")
  BY <1>3, <1>4, <1>7, HolderEndsCycle
<1> QED
  BY <1>5, <1>6, <1>7 DEF Resolve

(* While a run claims a lecture, the newest job it knows of that lecture   *)
(* can be retried.                                                         *)
LEMMA ClaimingJob ==
  ASSUME WatcherIInv, NEW w \in Watchers, Claiming(w),
         NEW j, j = Newest(Candidates(w))
  PROVE  /\ j \in run[w].retryable /\ jobs[j].art = run[w].art
         /\ j \in JobIds /\ j \in Numbered /\ j \in Watched(Startable) /\ j # run[w].job
<1> PICK S : S = Candidates(w)
  OBVIOUS
<1>1. /\ S # {} /\ S \subseteq run[w].retryable /\ \A i \in S : jobs[i].art = run[w].art
      /\ run[w].retryable \subseteq JobIds
      /\ run[w].retryable \subseteq Watched(Startable) \ {run[w].job}
  BY RunningInv DEF Claiming, At, Candidates, Run, RunInv, KnownInv, InCycle
<1>2. PICK m \in Nat : m = Len(jobs)
  BY JobCount DEF WatcherIInv, JobsInv
<1>3. S \subseteq 1..m
  BY <1>1, <1>2, JobCount DEF WatcherIInv
<1>4. Newest(S) \in S
  BY <1>1, <1>3, NewestIs
<1> QED
  BY <1>1, <1>4, JobCount DEF WatcherIInv

(* The newest job of the lecture that fits is taken up again.              *)
LEMMA ReuseStep ==
  ASSUME WatcherIInv, NEW w \in Watchers, Reuse(w)
  PROVE  WatcherIInv'
<1> PICK q : q = run[w]
  OBVIOUS
<1>1. RunInv(q) /\ q \in Run /\ q.at = "claim" /\ Claiming(w)
  BY RunningInv DEF Reuse, Claiming, At
<1>2. Still(w)
  BY <1>1, StillFrom DEF Reuse, Aside, Resting, library
<1>3. PICK j : j = Newest(Candidates(w))
  OBVIOUS
<1>4. /\ j \in q.retryable /\ j \in JobIds /\ j \in Numbered /\ j \in Watched(Startable)
      /\ q.job = 0 /\ j # 0
  <2>1. /\ j \in q.retryable /\ j \in JobIds /\ j \in Numbered /\ j \in Watched(Startable)
        /\ j # q.job
    BY <1>1, <1>3, ClaimingJob
  <2>2. q.job = 0
    BY DEF Reuse, Fits
  <2> QED
    BY <2>1, <2>2
<1>5. PICK s : s = q.retryable \ {j}
  OBVIOUS
<1>6. PICK r : r = [q EXCEPT !.job = j, !.retryable = s]
  OBVIOUS
<1>7. r \in Run
  <2>1. s \in SUBSET JobIds
    BY <1>1, <1>5 DEF Run
  <2> QED
    BY <1>1, <1>4, <1>6, <2>1 DEF Run
<1>8. r.at = "claim" /\ r.job = j /\ r.retryable = s /\ r.owed = q.owed /\ r.art = q.art
  BY <1>1, <1>6 DEF Run
<1>9. KnownInv(r) /\ MediaInv(r)
  <2>1. q.retryable \subseteq Watched(Startable) /\ Watched(Open) \subseteq q.retryable \cup {0}
    BY <1>1, <1>4 DEF RunInv, KnownInv, InCycle
  <2>2. 0 \notin Watched(Open)
    BY NoJobOpen
  <2>3. KnownInv(r)
    BY <1>5, <1>8, <2>1, <2>2 DEF KnownInv
  <2>4. MediaInv(r)
    BY <1>1, <1>8 DEF RunInv, MediaInv, InCycle, Validating
  <2> QED
    BY <2>3, <2>4
<1>10. HandInv(r) /\ QuietInv(r) /\ RoomInv(r)
  BY <1>1, <1>4, <1>8 DEF RunInv, HandInv, QuietInv, RoomInv, Handless, Producing
<1>11. RunInv(r)
  BY <1>1, <1>7, <1>8, <1>9, <1>10 DEF RunInv
<1>12. run' = [run EXCEPT ![w] = r] /\ r.at \notin Resting
  BY <1>3, <1>5, <1>6, <1>8 DEF Reuse, Goto, Resting
<1> QED
  BY <1>2, <1>11, <1>12, HolderSteps

(* A job that waited for a retry is given up for a newer one.              *)
LEMMA SupersedeStep ==
  ASSUME WatcherIInv, NEW w \in Watchers, Supersede(w)
  PROVE  WatcherIInv'
<1> PICK q : q = run[w]
  OBVIOUS
<1>1. RunInv(q) /\ q \in Run /\ q.at = "claim" /\ Claiming(w) /\ q.at \notin Resting
  BY RunningInv DEF Supersede, Claiming, At, Resting
<1>2. PICK j : j = Newest(Candidates(w))
  OBVIOUS
<1>3. /\ j \in q.retryable /\ j \in JobIds /\ j \in Numbered /\ j \in Watched(Startable)
      /\ j # q.job /\ jobs[j].art = q.art
  BY <1>1, <1>2, ClaimingJob
<1>4. ~Fits(w, j)
  BY <1>2 DEF Supersede
<1>5. /\ UNCHANGED <<latest, media, tui, announced, lock>> /\ (UNCHANGED troubles \/ Trouble)
      /\ jobs' \in {jobs, Moved(j, Open, "failed")}
      /\ \/ /\ jobs' = Moved(j, Open, "failed")
            /\ Goto(w, [q EXCEPT !.retryable = @ \ {j}])
         \/ Report(w, TRUE)
  BY <1>2 DEF Supersede, FinishJob, Transition, Aside
<1>6. j \notin intact /\ jobs[j].status \in Open
  <2>1. intact \cap Watched(Open \cup {"failed", "canceled"}) = {}
    BY <1>1 DEF RunInv, MediaInv, InCycle, Validating
  <2> QED
    BY <1>3, <2>1 DEF Watched, WithStatus, Startable, Open
<1>7. /\ Sane /\ Reclassified
      /\ \A i \in JobIds \ {j} : jobs'[i] = jobs[i]
      /\ jobs' = Moved(j, Open, "failed") => jobs'[j].status = "failed"
  <2>1. Spent
    BY <1>5, SpentTroubles
  <2>2. RecordsInv'
    BY <1>5, <2>1 DEF WatcherIInv, RecordsInv, media, Spent
  <2>3. "failed" \in Open \cup Terminal
    BY DEF Terminal
  <2> QED
    BY <1>3, <1>5, <1>6, <2>2, <2>3, MovedSane
<1>8. CASE Report(w, TRUE)
  BY <1>1, <1>5, <1>7, <1>8, HolderReportsFatal
<1>9. CASE /\ jobs' = Moved(j, Open, "failed")
           /\ Goto(w, [q EXCEPT !.retryable = @ \ {j}])
  <2>1. PICK s : s = q.retryable \ {j}
    OBVIOUS
  <2>2. PICK r : r = [q EXCEPT !.retryable = s]
    OBVIOUS
  <2>3. r \in Run
    <3>1. s \in SUBSET JobIds
      BY <1>1, <2>1 DEF Run
    <3> QED
      BY <1>1, <2>2, <3>1 DEF Run
  <2>4. /\ r.at = "claim" /\ r.job = q.job /\ r.retryable = s /\ r.owed = q.owed
        /\ r.art = q.art /\ r.plan = q.plan
    BY <1>1, <2>2 DEF Run
  <2>5. \A k : OfKind(k)' = OfKind(k)
    BY <1>7, ReclassifiedJobs DEF WatcherIInv
  <2>6. \A i \in OfKind("watch") : i # j => jobs'[i] = jobs[i]
    BY <1>7 DEF OfKind
  <2>7. jobs'[j].status = "failed"
    BY <1>7, <1>9
  <2>8. /\ \A T : \A i : i # j => (i \in Watched(T)' <=> i \in Watched(T))
        /\ j \notin Watched(Open)'
    BY <2>5, <2>6, <2>7 DEF Watched, WithStatus, Open
  <2>9. KnownInv(r)'
    <3>1. /\ q.retryable \subseteq Watched(Startable) \ {q.job}
          /\ Watched(Open) \subseteq q.retryable \cup {q.job}
      BY <1>1 DEF RunInv, KnownInv, InCycle
    <3> QED
      BY <2>1, <2>4, <2>8, <3>1 DEF KnownInv
  <2>10. MediaInv(r)'
    <3>1. intact \cap Watched(Open \cup {"failed", "canceled"}) = {}
      BY <1>1 DEF RunInv, MediaInv, InCycle, Validating
    <3>2. (intact \cap Watched(Open \cup {"failed", "canceled"}))' = {}
      BY <1>5, <1>6, <2>8, <3>1 DEF media
    <3> QED
      BY <2>4, <3>2 DEF MediaInv
  <2>11. RoomInv(r)'
    <3> SUFFICES ASSUME r.job = 0
                 PROVE  \/ Cardinality(OfKind("watch"))' < MaxWatchJobs
                        \/ \E i \in s : jobs'[i].art = q.art /\ jobs'[i].plan = q.plan
      BY <2>4 DEF RoomInv
    <3>1. \/ Cardinality(OfKind("watch")) < MaxWatchJobs
          \/ \E i \in q.retryable : jobs[i].art = q.art /\ jobs[i].plan = q.plan
      BY <1>1, <2>4 DEF RunInv, RoomInv
    <3>2. CASE Cardinality(OfKind("watch")) < MaxWatchJobs
      BY <3>2, <2>5
    <3>3. ASSUME NEW i \in q.retryable, jobs[i].art = q.art, jobs[i].plan = q.plan
          PROVE  \E i2 \in s : jobs'[i2].art = q.art /\ jobs'[i2].plan = q.plan
      <4>1. i # j
        BY <1>4, <2>4, <3>3 DEF Fits
      <4>2. i \in OfKind("watch")
        BY <1>1 DEF RunInv, KnownInv, InCycle, Watched, WithStatus
      <4> QED
        BY <2>1, <2>6, <3>3, <4>1, <4>2
    <3> QED
      BY <3>1, <3>2, <3>3
  <2>12. HandInv(r)' /\ QuietInv(r)'
    <3>1. q.art \in Artifacts /\ (q.job = 0 \/ q.job \in Watched(Startable))
      BY <1>1 DEF RunInv, HandInv
    <3> QED
      BY <1>3, <2>4, <2>8, <3>1 DEF HandInv, QuietInv, Handless, Producing
  <2>13. (r \in Run)' /\ (r.owed \subseteq Watched({"completed"}))'
    BY <1>1, <1>7, <2>3, <2>4, LastingRecord DEF RunInv, Sane, Lasting
  <2>14. RunInv(r)'
    BY <2>9, <2>10, <2>11, <2>12, <2>13 DEF RunInv
  <2>15. run' = [run EXCEPT ![w] = r] /\ r.at \notin Resting
    BY <1>9, <2>1, <2>2, <2>4 DEF Goto, Resting
  <2> QED
    BY <1>1, <1>5, <1>7, <2>14, <2>15, HolderMoves
<1> QED
  BY <1>5, <1>8, <1>9

(* A job is created for a lecture that has no open one.                    *)
LEMMA CreateStep ==
  ASSUME WatcherIInv, NEW w \in Watchers, Create(w)
  PROVE  WatcherIInv'
<1> PICK q : q = run[w]
  OBVIOUS
<1>1. /\ RunInv(q) /\ q \in Run /\ q.at = "claim" /\ q.job = 0 /\ Candidates(w) = {}
      /\ q.at \notin Resting
  BY RunningInv DEF Create, Claimed, At, Resting
<1>2. PICK j : j = Len(jobs) + 1
  OBVIOUS
<1>3. PICK created : created = Append(jobs, [kind |-> "watch", art |-> q.art,
                                             plan |-> q.plan, status |-> "pending"])
  OBVIOUS
<1>4. /\ UNCHANGED <<latest, media, tui, announced, lock>> /\ (UNCHANGED troubles \/ Trouble)
      /\ UNCHANGED jobs \/ jobs' = created
      /\ \/ jobs' = created /\ Goto(w, [q EXCEPT !.job = j])
         \/ Report(w, TRUE)
  BY <1>2, <1>3 DEF Create, CreateJob, Aside
<1>5. q.art \in Artifacts /\ q.plan \in Plans /\ "watch" \in {"watch", "download"}
  BY <1>1, WatcherAssumption DEF RunInv, HandInv, Run
<1>6. \A i \in q.retryable : jobs[i].art # q.art
  BY <1>1 DEF Candidates
<1>7. Watched(Open) \subseteq q.retryable /\ q.retryable \subseteq Watched(Startable)
  BY <1>1, NoJobOpen DEF RunInv, KnownInv, InCycle
<1>8. Cardinality(OfKind("watch")) < MaxWatchJobs
  BY <1>1, <1>6 DEF RunInv, RoomInv
<1>9. Sane
  <2>1. Spent
    BY <1>4, SpentTroubles
  <2>2. \A i \in Watched(Open) : jobs[i].art # q.art
    BY <1>6, <1>7
  <2> QED
    BY <1>3, <1>4, <1>5, <1>8, <2>1, <2>2, CreatedSane
<1>10. CASE Report(w, TRUE)
  BY <1>1, <1>4, <1>9, <1>10, HolderReportsFatal
<1>11. CASE jobs' = created /\ Goto(w, [q EXCEPT !.job = j])
  <2>1. /\ Len(jobs) + 1 \notin JobIds /\ JobIds' = JobIds \cup {Len(jobs) + 1}
        /\ \A i \in JobIds : jobs'[i] = jobs[i]
        /\ jobs'[Len(jobs) + 1] = [kind |-> "watch", art |-> q.art,
                                   plan |-> q.plan, status |-> "pending"]
        /\ OfKind("watch")' = OfKind("watch") \cup {Len(jobs) + 1}
    BY <1>3, <1>5, <1>11, JobAdded DEF WatcherIInv
  <2>2. /\ j \notin JobIds /\ JobIds' = JobIds \cup {j} /\ jobs'[j].status = "pending"
        /\ OfKind("watch")' = OfKind("watch") \cup {j}
        /\ \A i \in OfKind("watch") : jobs'[i] = jobs[i]
    BY <1>2, <2>1 DEF OfKind
  <2>3. \A T : \A i : i # j => (i \in Watched(T)' <=> i \in Watched(T))
    BY <2>2 DEF Watched, WithStatus
  <2>4. j \in Watched(Startable)' /\ j \notin intact
    BY <2>2 DEF Watched, WithStatus, Startable, WatcherIInv, IntactInv
  <2>5. PICK r : r = [q EXCEPT !.job = j]
    OBVIOUS
  <2>6. j \in Numbered
    <3>1. JobsInv'
      BY <1>9 DEF Sane
    <3>2. (JobIds \subseteq Numbered \ {0})'
      BY <3>1, JobCount, PTL
    <3> QED
      BY <2>2, <3>2 DEF Numbered
  <2>7. r \in Run
    BY <1>1, <2>5, <2>6 DEF Run
  <2>8. /\ r.at = "claim" /\ r.job = j /\ r.retryable = q.retryable /\ r.owed = q.owed
        /\ r.art = q.art
    BY <1>1, <2>5 DEF Run
  <2>9. q.retryable \subseteq JobIds
    BY <1>1 DEF Run
  <2>10. KnownInv(r)'
    BY <1>7, <2>2, <2>3, <2>8, <2>9 DEF KnownInv
  <2>11. MediaInv(r)'
    <3>1. intact \cap Watched(Open \cup {"failed", "canceled"}) = {}
      BY <1>1 DEF RunInv, MediaInv, InCycle, Validating
    <3>2. (intact \cap Watched(Open \cup {"failed", "canceled"}))' = {}
      BY <1>4, <2>3, <2>4, <3>1 DEF media
    <3> QED
      BY <2>8, <3>2 DEF MediaInv
  <2>12. HandInv(r)' /\ QuietInv(r)'
    BY <1>5, <2>4, <2>8 DEF HandInv, QuietInv, Handless, Producing
  <2>13. j # 0
    BY <1>2, JobCount DEF WatcherIInv, Numbered
  <2>14. RoomInv(r)'
    BY <2>8, <2>13 DEF RoomInv
  <2>15. (r \in Run)' /\ (r.owed \subseteq Watched({"completed"}))'
    BY <1>1, <1>9, <2>7, <2>8, LastingRecord DEF RunInv, Sane, Lasting
  <2>16. RunInv(r)'
    BY <2>10, <2>11, <2>12, <2>14, <2>15 DEF RunInv
  <2>17. run' = [run EXCEPT ![w] = r] /\ r.at \notin Resting
    BY <1>11, <2>5, <2>8 DEF Goto, Resting
  <2> QED
    BY <1>1, <1>4, <1>9, <2>16, <2>17, HolderMoves
<1> QED
  BY <1>4, <1>10, <1>11

(* The job in hand becomes the only running one.                           *)
LEMMA StartDownloadStep ==
  ASSUME WatcherIInv, NEW w \in Watchers, StartDownload(w)
  PROVE  WatcherIInv'
<1> PICK q : q = run[w]
  OBVIOUS
<1>1. /\ RunInv(q) /\ q \in Run /\ q.at = "claim" /\ q.job # 0 /\ q.at \notin Resting
  BY RunningInv DEF StartDownload, Claimed, At, Resting
<1>2. PICK j : j = q.job
  OBVIOUS
<1>3. j \in Watched(Startable) /\ j \in JobIds /\ jobs[j].status \in Startable
  BY <1>1, <1>2 DEF RunInv, HandInv, Watched, WithStatus, OfKind
<1>4. /\ UNCHANGED <<latest, media, tui, announced, lock>> /\ (UNCHANGED troubles \/ Trouble)
      /\ jobs' \in {jobs, Moved(j, Startable, "running")}
      /\ \/ jobs' = Moved(j, Startable, "running") /\ Step(w, "hello")
         \/ Report(w, TRUE)
  BY <1>2, <1>3 DEF StartDownload, StartJob, Transition, Aside
<1>5. /\ Sane /\ Reclassified
      /\ \A i \in JobIds \ {j} : jobs'[i] = jobs[i]
      /\ jobs' = Moved(j, Startable, "running") => jobs'[j].status = "running"
  <2>1. Spent
    BY <1>4, SpentTroubles
  <2>2. RecordsInv'
    BY <1>4, <2>1 DEF WatcherIInv, RecordsInv, media, Spent
  <2>3. "running" \in Open \cup Terminal /\ Startable \subseteq Open
    BY DEF Open, Startable
  <2> QED
    BY <1>3, <1>4, <2>2, <2>3, MovedSane
<1>6. CASE Report(w, TRUE)
  BY <1>1, <1>4, <1>5, <1>6, HolderReportsFatal
<1>7. CASE jobs' = Moved(j, Startable, "running") /\ Step(w, "hello")
  <2>1. "hello" \in Places
    BY DEF Places
  <2>2. PICK r \in Run : r = [q EXCEPT !.at = "hello"] /\ MovedTo(r, q, "hello")
    BY <1>1, <2>1, SteppedRecord
  <2>3. r.at = "hello" /\ r.job = j /\ r.retryable = q.retryable /\ r.owed = q.owed
    BY <1>2, <2>2 DEF MovedTo
  <2>4. \A k : OfKind(k)' = OfKind(k)
    BY <1>5, ReclassifiedJobs DEF WatcherIInv
  <2>5. \A i \in OfKind("watch") : i # j => jobs'[i] = jobs[i]
    BY <1>5 DEF OfKind
  <2>6. jobs'[j].status = "running" /\ j \in OfKind("watch")
    BY <1>3, <1>5, <1>7 DEF Watched, WithStatus
  <2>7. /\ \A T : \A i : i # j => (i \in Watched(T)' <=> i \in Watched(T))
        /\ j \in Watched({"running"})'
    BY <2>4, <2>5, <2>6 DEF Watched, WithStatus
  <2>8. KnownInv(r)'
    <3>1. /\ q.retryable \subseteq Watched(Startable) \ {j}
          /\ Watched(Open) \subseteq q.retryable \cup {j}
      BY <1>1, <1>2 DEF RunInv, KnownInv, InCycle
    <3> QED
      BY <2>3, <2>7, <3>1 DEF KnownInv
  <2>9. MediaInv(r)'
    <3>1. intact \cap Watched(Open \cup {"failed", "canceled"}) = {}
      BY <1>1 DEF RunInv, MediaInv, InCycle, Validating
    <3>2. j \notin intact
      BY <1>3, <3>1 DEF Watched, WithStatus, Startable, Open
    <3>3. (intact \cap Watched(Open \cup {"failed", "canceled"}))' = {}
      BY <1>4, <2>7, <3>1, <3>2 DEF media
    <3> QED
      BY <2>3, <3>3 DEF MediaInv
  <2>10. HandInv(r)' /\ QuietInv(r)' /\ RoomInv(r)'
    BY <2>3, <2>7 DEF HandInv, QuietInv, RoomInv, Handless
  <2>11. (r \in Run)' /\ (r.owed \subseteq Watched({"completed"}))'
    BY <1>1, <1>5, <2>2, <2>3, LastingRecord DEF RunInv, Sane, Lasting
  <2>12. RunInv(r)'
    BY <2>8, <2>9, <2>10, <2>11 DEF RunInv
  <2>13. run' = [run EXCEPT ![w] = r] /\ r.at \notin Resting
    BY <1>7, <2>2, <2>3 DEF Step, Goto, Resting
  <2> QED
    BY <1>1, <1>4, <1>5, <2>12, <2>13, HolderMoves
<1> QED
  BY <1>4, <1>6, <1>7

(* lecture.started is written, or the job has to be failed unheard.        *)
LEMMA EmitLectureStartedStep ==
  ASSUME WatcherIInv, NEW w \in Watchers, EmitLectureStarted(w)
  PROVE  WatcherIInv'
<1>1. RunInv(run[w]) /\ run[w] \in Run /\ run[w].at = "hello"
  BY RunningInv DEF EmitLectureStarted, At
<1>2. Still(w)
  BY <1>1, StillFrom DEF EmitLectureStarted, Emit, Resting
<1>3. \A r \in Run : MovedTo(r, run[w], "download") \/ MovedTo(r, run[w], "unheard")
                       => RunInv(r) /\ r.at \notin Resting
  BY <1>1 DEF MovedTo, RunInv, HandInv, QuietInv, KnownInv, MediaInv, RoomInv,
     InCycle, Producing, Handless, Resting, Validating
<1>4. "download" \in Places /\ "unheard" \in Places
  BY DEF Places
<1> QED
  BY <1>2, <1>3, <1>4, HolderWalks DEF EmitLectureStarted, Emit

(* A run gives up the job it was to produce, which leaves the library      *)
(* tidy.                                                                   *)
LEMMA GivenUp ==
  ASSUME WatcherIInv, NEW w \in Watchers, NEW q, q = run[w],
         q.at \in {"unheard", "giveup", "reject"},
         NEW j, j = q.job, NEW S, S = q.retryable,
         NEW outcome \in {"failed", "canceled"},
         jobs' \in {jobs, Moved(j, Open, outcome)},
         UNCHANGED <<latest, media, tui, announced>>, UNCHANGED troubles \/ Trouble
  PROVE  /\ Sane /\ jobs[j].status \in Open
         /\ jobs' = Moved(j, Open, outcome) => Tidy(S)' /\ j \notin Watched(Open)'
<1>1. RunInv(q) /\ q \in Run /\ q.at \in Producing /\ q.at \notin Validating
  BY RunningInv DEF Producing, Validating
<1>2. j \in Watched({"running"}) /\ j \in JobIds /\ j \in OfKind("watch")
  BY <1>1 DEF RunInv, HandInv, Watched, WithStatus, OfKind
<1>3. jobs[j].status \in Open
  BY <1>2 DEF Watched, WithStatus, Open
<1>4. intact \cap Watched(Open \cup {"failed", "canceled"}) = {}
  BY <1>1 DEF RunInv, MediaInv, InCycle
<1>5. j \notin intact
  BY <1>2, <1>3, <1>4 DEF Watched, WithStatus
<1>6. Spent
  BY SpentTroubles
<1>7. RecordsInv'
  BY <1>6 DEF WatcherIInv, RecordsInv, media, Spent
<1>8. outcome \in Open \cup Terminal
  BY DEF Terminal
<1>9. /\ Sane /\ Reclassified
      /\ \A i \in JobIds \ {j} : jobs'[i] = jobs[i]
      /\ jobs' = Moved(j, Open, outcome) => jobs'[j].status = outcome
  <2>1. j \in JobIds /\ j \notin intact \cap OfKind("watch") /\ jobs[j].status \in Open
    BY <1>2, <1>3, <1>5
  <2>2. PICK to : to = outcome
    OBVIOUS
  <2>3. to \in Open \cup Terminal /\ jobs' \in {jobs, Moved(j, Open, to)}
    BY <1>8, <2>2
  <2>4. /\ Sane /\ Reclassified
        /\ \A i \in JobIds \ {j} : jobs'[i] = jobs[i]
        /\ jobs' = Moved(j, Open, to) /\ jobs[j].status \in Open => jobs'[j].status = to
    BY <1>7, <2>1, <2>3, MovedSane
  <2> QED
    BY <2>1, <2>2, <2>4
<1>10. ASSUME jobs' = Moved(j, Open, outcome)
       PROVE  Tidy(S)' /\ j \notin Watched(Open)'
  <2>1. \A k : OfKind(k)' = OfKind(k)
    BY <1>9, ReclassifiedJobs DEF WatcherIInv
  <2>2. \A i \in OfKind("watch") : i # j => jobs'[i] = jobs[i]
    BY <1>9 DEF OfKind
  <2>3. jobs'[j].status = outcome
    BY <1>9, <1>10
  <2>4. /\ \A T : \A i : i # j => (i \in Watched(T)' <=> i \in Watched(T))
        /\ j \notin Watched(Open)'
    BY <2>1, <2>2, <2>3 DEF Watched, WithStatus, Open
  <2>5. S \subseteq Watched(Startable) \ {j} /\ Watched(Open) \subseteq S \cup {j}
    BY <1>1 DEF RunInv, KnownInv, InCycle
  <2>6. (intact \cap Watched(Open \cup {"failed", "canceled"}))' = {}
    BY <1>4, <1>5, <2>4 DEF media
  <2> QED
    BY <2>4, <2>5, <2>6 DEF Tidy
<1> QED
  BY <1>3, <1>9, <1>10

(* The unheard job fails and the run with it.                              *)
LEMMA FailUnheardStep ==
  ASSUME WatcherIInv, NEW w \in Watchers, FailUnheard(w)
  PROVE  WatcherIInv'
<1> PICK q, j, S : q = run[w] /\ j = q.job /\ S = q.retryable
  OBVIOUS
<1>1. q.at = "unheard" /\ q.at \notin Resting
  BY DEF FailUnheard, At, Resting
<1>2. /\ UNCHANGED <<latest, media, tui, announced, lock>> /\ (UNCHANGED troubles \/ Trouble)
      /\ jobs' \in {jobs, Moved(j, Open, "failed")}
      /\ Leave(w, "error", TRUE)
  BY DEF FailUnheard, FinishJob, Transition, Aside
<1>3. Sane
  BY <1>1, <1>2, GivenUp
<1> QED
  BY <1>1, <1>2, <1>3, HolderReturns DEF Leave

(* A told run cancels its job, or reports that it could not.               *)
LEMMA CancelAttemptStep ==
  ASSUME WatcherIInv, NEW w \in Watchers, CancelAttempt(w)
  PROVE  WatcherIInv'
<1> PICK q, j, S : q = run[w] /\ j = q.job /\ S = q.retryable
  OBVIOUS
<1>1. q.at = "giveup" /\ q.at \notin Resting
  BY DEF CancelAttempt, At, Resting
<1>2. /\ UNCHANGED <<latest, media, tui, announced, lock>> /\ (UNCHANGED troubles \/ Trouble)
      /\ jobs' \in {jobs, Moved(j, Open, "canceled")}
  BY DEF CancelAttempt, FinishJob, Transition, Aside
<1>3. /\ Sane /\ jobs[j].status \in Open
      /\ jobs' = Moved(j, Open, "canceled") => Tidy(S)'
  BY <1>1, <1>2, GivenUp
<1>4. \/ jobs' = Moved(j, Open, "canceled") /\ EndCycle(w, "canceled")
      \/ Leave(w, "error", TRUE)
  BY <1>3 DEF CancelAttempt, FinishJob, Transition
<1>5. CASE jobs' = Moved(j, Open, "canceled") /\ EndCycle(w, "canceled")
  BY <1>1, <1>2, <1>3, <1>5, HolderEndsCycle
<1>6. CASE Leave(w, "error", TRUE)
  BY <1>1, <1>2, <1>3, <1>6, HolderReturns DEF Leave
<1> QED
  BY <1>4, <1>5, <1>6

(* A job that ran out of attempts, or whose outputs are not there, fails.  *)
LEMMA FailAttemptStep ==
  ASSUME WatcherIInv, NEW w \in Watchers, FailAttempt(w)
  PROVE  WatcherIInv'
<1> PICK q, j, S : q = run[w] /\ j = q.job /\ S = q.retryable
  OBVIOUS
<1>1. q.at \in {"giveup", "reject"} /\ q.at \notin Resting
  BY DEF FailAttempt, At, Resting
<1>2. /\ UNCHANGED <<latest, media, tui, announced, lock>> /\ (UNCHANGED troubles \/ Trouble)
      /\ jobs' \in {jobs, Moved(j, Open, "failed")}
  BY DEF FailAttempt, FinishJob, Transition, Aside
<1>3. /\ Sane /\ jobs[j].status \in Open
      /\ jobs' = Moved(j, Open, "failed") => Tidy(S)' /\ j \notin Watched(Open)'
  BY <1>1, <1>2, GivenUp
<1>4. \/ jobs' = Moved(j, Open, "failed") /\ Report(w, FALSE)
      \/ Report(w, TRUE)
  BY <1>3 DEF FailAttempt, FinishJob, Transition
<1>5. CASE jobs' = Moved(j, Open, "failed") /\ Report(w, FALSE)
  BY <1>1, <1>2, <1>3, <1>5, HolderReports
<1>6. CASE Report(w, TRUE)
  BY <1>1, <1>2, <1>3, <1>6, HolderReportsFatal
<1> QED
  BY <1>4, <1>5, <1>6

(* The job in hand runs, and no other watch job does.                      *)
LEMMA ProducingJob ==
  ASSUME WatcherIInv, NEW w \in Watchers, NEW q, q = run[w], q.at \in Producing,
         NEW j, j = q.job
  PROVE  /\ j \in JobIds /\ j \in Numbered /\ j \in OfKind("watch")
         /\ jobs[j].status = "running" /\ j \in Watched({"running"})
         /\ Watched(Open) \subseteq q.retryable \cup {j}
         /\ q.retryable \subseteq Watched(Startable) \ {j}
         /\ \A i \in intact \cap Watched(Open \cup {"failed", "canceled"}) :
              i = j /\ q.at \in Validating
BY RunningInv, JobCount DEF WatcherIInv, RunInv, HandInv, KnownInv, MediaInv, InCycle,
   Watched, WithStatus, OfKind

(* An output is published; with the last one the job goes to validation.   *)
LEMMA PublishNextStep ==
  ASSUME WatcherIInv, NEW w \in Watchers, PublishNext(w)
  PROVE  WatcherIInv'
<1> PICK q, j : q = run[w] /\ j = q.job
  OBVIOUS
<1>1. RunInv(q) /\ q \in Run /\ q.at = "download" /\ q.at \notin Resting
  BY RunningInv DEF PublishNext, At, Resting
<1>2. PICK o : o = q.published + 1
  OBVIOUS
<1>3. o \in 1..Outputs
  BY <1>1, <1>2, LibraryAssumption DEF Run
<1>4. /\ Publish(j, o)
      /\ Goto(w, IF o < Outputs THEN [q EXCEPT !.published = o]
                 ELSE [q EXCEPT !.at = "build", !.published = 0, !.attempt = 1])
      /\ UNCHANGED <<lock, tui, announced>>
  BY <1>2 DEF PublishNext, Aside
<1>5. /\ j \in JobIds /\ j \in OfKind("watch") /\ jobs[j].status = "running"
      /\ j \in Watched({"running"})
      /\ Watched(Open) \subseteq q.retryable \cup {j}
      /\ q.retryable \subseteq Watched(Startable) \ {j}
      /\ intact \cap Watched(Open \cup {"failed", "canceled"}) = {}
  <2>1. q.at \in Producing /\ q.at \notin Validating
    BY <1>1 DEF Producing, Validating
  <2>2. \A i \in intact \cap Watched(Open \cup {"failed", "canceled"}) :
          i = j /\ q.at \in Validating
    BY <2>1, ProducingJob
  <2>3. intact \cap Watched(Open \cup {"failed", "canceled"}) = {}
    BY <2>1, <2>2
  <2>4. /\ j \in JobIds /\ j \in OfKind("watch") /\ jobs[j].status = "running"
        /\ j \in Watched({"running"})
        /\ Watched(Open) \subseteq q.retryable \cup {j}
        /\ q.retryable \subseteq Watched(Startable) \ {j}
    BY <2>1, ProducingJob
  <2> QED
    BY <2>3, <2>4
<1>6. /\ Sane /\ UNCHANGED jobs
      /\ intact' \subseteq intact \cup {j}
      /\ o < Outputs => intact' \subseteq intact \ {j}
  BY <1>3, <1>4, <1>5, PublishedSane
<1>7. \A T : Watched(T)' = Watched(T)
  BY <1>6 DEF Watched, WithStatus, OfKind, JobIds
<1>8. PICK r : /\ r = IF o < Outputs THEN [q EXCEPT !.published = o]
                      ELSE [q EXCEPT !.at = "build", !.published = 0, !.attempt = 1]
  OBVIOUS
<1>9. r \in Run
  <2>1. "build" \in Places /\ 0 \in 0..(Outputs - 1) /\ 1 \in 1..MaxRetries
    BY WatcherAssumption, LibraryAssumption DEF Places
  <2>2. CASE o < Outputs
    <3>1. o \in 0..(Outputs - 1)
      BY <1>3, <2>2, LibraryAssumption
    <3> QED
      BY <1>1, <1>8, <2>2, <3>1 DEF Run
  <2>3. CASE ~(o < Outputs)
    BY <1>1, <1>8, <2>1, <2>3 DEF Run
  <2> QED
    BY <2>2, <2>3
<1>10. /\ r.at = (IF o < Outputs THEN "download" ELSE "build")
       /\ r.job = j /\ r.retryable = q.retryable /\ r.owed = q.owed
  <2>1. CASE o < Outputs
    BY <1>1, <1>8, <2>1 DEF Run
  <2>2. CASE ~(o < Outputs)
    BY <1>1, <1>8, <2>2 DEF Run
  <2> QED
    BY <2>1, <2>2
<1>11. MediaInv(r)'
  <2>1. CASE o < Outputs
    BY <1>5, <1>6, <1>7, <1>10, <2>1 DEF MediaInv
  <2>2. CASE ~(o < Outputs)
    <3>1. r.at \in Validating /\ r.at \notin {"recover", "rerecord"}
      BY <1>10, <2>2 DEF Validating
    <3>2. (intact \cap Watched(Open \cup {"failed", "canceled"}))' \subseteq {j}
      BY <1>5, <1>6, <1>7
    <3> QED
      BY <1>10, <3>1, <3>2 DEF MediaInv
  <2> QED
    BY <2>1, <2>2
<1>12. HandInv(r)' /\ QuietInv(r)' /\ KnownInv(r)' /\ RoomInv(r)'
  BY <1>5, <1>7, <1>10 DEF HandInv, QuietInv, KnownInv, RoomInv, Handless
<1>13. (r \in Run)' /\ (r.owed \subseteq Watched({"completed"}))'
  BY <1>1, <1>6, <1>9, <1>10, LastingRecord DEF RunInv, Sane, Lasting
<1>14. RunInv(r)'
  BY <1>11, <1>12, <1>13 DEF RunInv
<1>15. run' = [run EXCEPT ![w] = r] /\ r.at \notin Resting
  BY <1>4, <1>8, <1>10 DEF Goto, Resting
<1> QED
  BY <1>1, <1>4, <1>6, <1>14, <1>15, HolderMoves

(* An attempt fails: the next one, or none, follows.                       *)
LEMMA DownloadFailsStep ==
  ASSUME WatcherIInv, NEW w \in Watchers, DownloadFails(w)
  PROVE  WatcherIInv'
<1> PICK q : q = run[w]
  OBVIOUS
<1>1. RunInv(q) /\ q \in Run /\ q.at = "download"
  BY RunningInv DEF DownloadFails, At
<1>2. Still(w)
  BY <1>1, StillFrom DEF DownloadFails, Aside, Resting, library
<1>3. PICK r : r = IF q.told \/ q.attempt = MaxRetries
                   THEN [q EXCEPT !.at = "giveup", !.published = 0, !.attempt = 1]
                   ELSE [q EXCEPT !.published = 0, !.attempt = @ + 1]
  OBVIOUS
<1>4. "giveup" \in Places /\ 0 \in 0..(Outputs - 1) /\ 1 \in 1..MaxRetries
  BY WatcherAssumption, LibraryAssumption DEF Places
<1>5. r \in Run /\ r.at \in {"download", "giveup"} /\ r.job = q.job
      /\ r.retryable = q.retryable /\ r.owed = q.owed
  <2>1. CASE q.told \/ q.attempt = MaxRetries
    <3>1. r = [q EXCEPT !.at = "giveup", !.published = 0, !.attempt = 1]
      BY <1>3, <2>1
    <3>2. r \in Run
      BY <1>1, <1>4, <3>1 DEF Run
    <3> QED
      BY <1>1, <3>1, <3>2 DEF Run
  <2>2. CASE ~(q.told \/ q.attempt = MaxRetries)
    <3>1. PICK n : n = q.attempt + 1
      OBVIOUS
    <3>2. n \in 1..MaxRetries
      BY <1>1, <2>2, <3>1, WatcherAssumption DEF Run
    <3>3. r = [q EXCEPT !.published = 0, !.attempt = n]
      BY <1>3, <2>2, <3>1
    <3>4. r \in Run
      BY <1>1, <1>4, <3>2, <3>3 DEF Run
    <3> QED
      BY <1>1, <3>3, <3>4 DEF Run
  <2> QED
    BY <2>1, <2>2
<1>6. RunInv(r)
  BY <1>1, <1>5 DEF RunInv, HandInv, QuietInv, KnownInv, MediaInv, RoomInv,
     InCycle, Producing, Handless, Validating
<1>7. run' = [run EXCEPT ![w] = r] /\ r.at \notin Resting
  BY <1>3, <1>5 DEF DownloadFails, Goto, Resting
<1> QED
  BY <1>2, <1>6, <1>7, HolderSteps

(* The manifest is built from the files that are there.                    *)
LEMMA BuildManifestStep ==
  ASSUME WatcherIInv, NEW w \in Watchers, BuildManifest(w)
  PROVE  WatcherIInv'
<1> PICK q, j : q = run[w] /\ j = q.job
  OBVIOUS
<1>1. RunInv(q) /\ q \in Run /\ q.at = "build"
  BY RunningInv DEF BuildManifest, At
<1>2. Still(w)
  BY <1>1, StillFrom DEF BuildManifest, Aside, Resting, library
<1>3. CASE Whole(Media(j))
  <2>1. Step(w, "digest")
    BY <1>3 DEF BuildManifest
  <2>2. \A r \in Run : MovedTo(r, run[w], "digest") => RunInv(r) /\ r.at \notin Resting
    BY <1>1 DEF MovedTo, RunInv, HandInv, QuietInv, KnownInv, MediaInv, RoomInv,
       InCycle, Producing, Handless, Resting, Validating
  <2>3. "digest" \in Places
    BY DEF Places
  <2> QED
    BY <1>2, <2>1, <2>2, <2>3, HolderWalks
<1>4. CASE ~Whole(Media(j))
  <2>1. Step(w, "reject")
    BY <1>4 DEF BuildManifest
  <2>2. j \notin intact
    BY <1>4 DEF WatcherIInv, IntactInv
  <2>3. intact \cap Watched(Open \cup {"failed", "canceled"}) = {}
    <3>1. q.at \in Producing
      BY <1>1 DEF Producing
    <3>2. \A i \in intact \cap Watched(Open \cup {"failed", "canceled"}) : i = j
      BY <3>1, ProducingJob
    <3> QED
      BY <2>2, <3>2
  <2>4. \A r \in Run : MovedTo(r, run[w], "reject") => MediaInv(r)
    BY <2>3 DEF MovedTo, MediaInv
  <2>5. \A r \in Run : MovedTo(r, run[w], "reject") => RunInv(r) /\ r.at \notin Resting
    BY <1>1, <2>4 DEF MovedTo, RunInv, HandInv, QuietInv, KnownInv, RoomInv,
       InCycle, Producing, Handless, Resting
  <2>6. "reject" \in Places
    BY DEF Places
  <2> QED
    BY <1>2, <2>1, <2>5, <2>6, HolderWalks
<1> QED
  BY <1>3, <1>4

(* The files are read once more before the job is completed.               *)
LEMMA DigestStep ==
  ASSUME WatcherIInv, NEW w \in Watchers, Digest(w)
  PROVE  WatcherIInv'
<1> PICK q, outputs : q = run[w] /\ outputs = Media(q.job)
  OBVIOUS
<1>1. RunInv(q) /\ q \in Run /\ q.at = "digest" /\ q.at \notin Resting
  BY RunningInv DEF Digest, At, Resting
<1>2. Still(w)
  BY <1>1, StillFrom DEF Digest, Aside, Resting, library
<1>3. outputs \in Bytes
  <2>1. q.job \in JobIds
    BY <1>1, ProducingJob DEF Producing
  <2> QED
    BY <2>1, MediaBytes
<1>4. CASE Report(w, TRUE)
  BY <1>1, <1>2, <1>4, StillSane, HolderReportsFatal DEF Still
<1>5. CASE Goto(w, [q EXCEPT !.at = "record", !.seen = outputs])
  <2>1. PICK r : r = [q EXCEPT !.at = "record", !.seen = outputs]
    OBVIOUS
  <2>2. r \in Run
    <3>1. "record" \in Places
      BY DEF Places
    <3> QED
      BY <1>1, <1>3, <2>1, <3>1 DEF Run
  <2>3. r.at = "record" /\ r.job = q.job /\ r.retryable = q.retryable /\ r.owed = q.owed
    BY <1>1, <2>1 DEF Run
  <2>4. RunInv(r)
    BY <1>1, <2>2, <2>3 DEF RunInv, HandInv, QuietInv, KnownInv, MediaInv, RoomInv,
       InCycle, Producing, Handless, Validating
  <2>5. run' = [run EXCEPT ![w] = r] /\ r.at \notin Resting
    BY <1>5, <2>1, <2>3 DEF Goto, Resting
  <2> QED
    BY <1>2, <2>4, <2>5, HolderSteps
<1> QED
  BY <1>4, <1>5 DEF Digest

(* The job is completed with its manifest, or the run is a failed one.     *)
LEMMA RecordStep ==
  ASSUME WatcherIInv, NEW w \in Watchers, Record(w)
  PROVE  WatcherIInv'
<1> PICK q, j : q = run[w] /\ j = q.job
  OBVIOUS
<1>1. RunInv(q) /\ q \in Run /\ q.at = "record" /\ q.at \notin Resting
  BY RunningInv DEF Record, At, Resting
<1>2. /\ j \in JobIds /\ j \in OfKind("watch") /\ jobs[j].status = "running"
      /\ Watched(Open) \subseteq q.retryable \cup {j}
      /\ q.retryable \subseteq Watched(Startable) \ {j}
      /\ \A i \in intact \cap Watched(Open \cup {"failed", "canceled"}) : i = j
  <2>1. q.at \in Producing
    BY <1>1 DEF Producing
  <2>2. \A i \in intact \cap Watched(Open \cup {"failed", "canceled"}) :
           i = j /\ q.at \in Validating
    BY <1>1, <2>1, ProducingJob
  <2>3. /\ j \in JobIds /\ j \in OfKind("watch") /\ jobs[j].status = "running"
        /\ Watched(Open) \subseteq q.retryable \cup {j}
        /\ q.retryable \subseteq Watched(Startable) \ {j}
    BY <1>1, <2>1, ProducingJob
  <2> QED
    BY <2>2, <2>3
<1>3. jobs[j].status \in Completable /\ q.seen \in Bytes
  BY <1>1, <1>2 DEF Completable, Run
<1>4. /\ UNCHANGED <<media, tui, announced, lock>> /\ (UNCHANGED troubles \/ Trouble)
      /\ \/ UNCHANGED <<jobs, latest>>
         \/ /\ jobs' = Moved(j, Completable, "completed")
            /\ latest' = IF jobs[j].status \in Completable THEN Recorded(j, q.seen) ELSE latest
      /\ \/ jobs' = Moved(j, Completable, "completed") /\ Step(w, "tell")
         \/ Report(w, TRUE)
  BY <1>3 DEF Record, CompleteJob, Aside
<1>5. /\ Sane /\ Reclassified
      /\ \A i \in JobIds \ {j} : jobs'[i] = jobs[i]
      /\ jobs' = Moved(j, Completable, "completed") => jobs'[j].status = "completed"
  <2>1. Spent
    BY <1>4, SpentTroubles
  <2> QED
    BY <1>2, <1>3, <1>4, <2>1, CompletedSane
<1>6. CASE Report(w, TRUE)
  BY <1>1, <1>4, <1>5, <1>6, HolderReportsFatal
<1>7. CASE jobs' = Moved(j, Completable, "completed") /\ Step(w, "tell")
  <2>1. "tell" \in Places
    BY DEF Places
  <2>2. PICK r \in Run : r = [q EXCEPT !.at = "tell"] /\ MovedTo(r, q, "tell")
    BY <1>1, <2>1, SteppedRecord
  <2>3. r.at = "tell" /\ r.job = j /\ r.retryable = q.retryable /\ r.owed = q.owed
    BY <2>2 DEF MovedTo
  <2>4. \A k : OfKind(k)' = OfKind(k)
    BY <1>5, ReclassifiedJobs DEF WatcherIInv
  <2>5. \A i \in OfKind("watch") : i # j => jobs'[i] = jobs[i]
    BY <1>5 DEF OfKind
  <2>6. jobs'[j].status = "completed"
    BY <1>5, <1>7
  <2>7. /\ \A T : \A i : i # j => (i \in Watched(T)' <=> i \in Watched(T))
        /\ j \in Watched({"completed"})'
        /\ j \notin Watched(Open \cup {"failed", "canceled"})'
        /\ j \notin Watched(Open)'
    BY <1>2, <2>4, <2>5, <2>6 DEF Watched, WithStatus, Open
  <2>8. KnownInv(r)'
    BY <1>2, <2>3, <2>7 DEF KnownInv
  <2>9. MediaInv(r)'
    <3>1. (intact \cap Watched(Open \cup {"failed", "canceled"}))' = {}
      BY <1>2, <1>4, <2>7 DEF media
    <3> QED
      BY <2>3, <3>1 DEF MediaInv
  <2>10. HandInv(r)' /\ QuietInv(r)' /\ RoomInv(r)'
    BY <2>3, <2>7 DEF HandInv, QuietInv, RoomInv, Handless, Producing
  <2>11. (r \in Run)' /\ (r.owed \subseteq Watched({"completed"}))'
    BY <1>1, <1>5, <2>2, <2>3, LastingRecord DEF RunInv, Sane, Lasting
  <2>12. RunInv(r)'
    BY <2>8, <2>9, <2>10, <2>11 DEF RunInv
  <2>13. run' = [run EXCEPT ![w] = r] /\ r.at \notin Resting
    BY <1>7, <2>2, <2>3 DEF Step, Goto, Resting
  <2> QED
    BY <1>1, <1>4, <1>5, <2>12, <2>13, HolderMoves
<1> QED
  BY <1>4, <1>6, <1>7

(* lecture.completed is written for the job just completed.                *)
LEMMA EmitCompletedStep ==
  ASSUME WatcherIInv, NEW w \in Watchers, EmitCompleted(w)
  PROVE  WatcherIInv'
<1> PICK q, j, S : q = run[w] /\ j = q.job /\ S = q.retryable
  OBVIOUS
<1>1. RunInv(q) /\ q \in Run /\ q.at = "tell" /\ j \in Watched({"completed"})
  BY RunningInv DEF EmitCompleted, At, RunInv, HandInv
<1>2. /\ UNCHANGED <<jobs, latest, media, lock, tui>> /\ (UNCHANGED troubles \/ Trouble)
      /\ \/ Goto(w, NextLecture(q)) /\ announced' = announced \cup {j}
         \/ UNCHANGED announced /\ Leave(w, "error", TRUE)
  BY DEF EmitCompleted, Emit
<1>3. Still(w)
  BY <1>1, <1>2, SpentTroubles DEF Still, WatcherIInv, Resting
<1>4. CASE Goto(w, NextLecture(q))
  <2>1. PICK r \in Run : /\ r = NextLecture(q) /\ r.at = "next" /\ r.job = 0
                         /\ r.retryable = q.retryable /\ r.owed = q.owed
    BY <1>1, NextLectureRecord
  <2>2. j \notin Watched(Open)
    BY <1>1 DEF Watched, WithStatus, Open
  <2>3. Tidy(S)' /\ Sane /\ UNCHANGED lock
    BY <1>1, <1>3, <2>2, TidyStill DEF InCycle, Validating
  <2>4. run' = [run EXCEPT ![w] = r]
    BY <1>4, <2>1 DEF Goto
  <2> QED
    BY <1>1, <2>1, <2>3, <2>4, HolderGoesOn DEF Resting
<1> QED
  BY <1>2, <1>3, <1>4, HolderFails

-------------------------------------------------------------------------------
(* The beginning and the end of a process.                                 *)

(* The library and the lock are closed.                                    *)
LEMMA CloseStateStep ==
  ASSUME WatcherIInv, NEW w \in Watchers, CloseState(w)
  PROVE  WatcherIInv'
<1> PICK q : q = run[w]
  OBVIOUS
<1>1. RunInv(q) /\ q \in Run /\ q.at \in {"abort", "close"} /\ q.at \notin Resting
  BY RunningInv DEF CloseState, Resting
<1>2. q.job = 0
  BY <1>1 DEF RunInv, HandInv, Handless
<1>3. UNCHANGED <<jobs, latest, media, tui, announced>> /\ Spent
  BY SpentTroubles DEF CloseState
<1>4. Sane /\ Unnoticed
  <2>1. announced' \subseteq Watched({"completed"})
    BY <1>3 DEF WatcherIInv
  <2> QED
    BY <1>3, <2>1, Steady
<1>5. PICK r : /\ \/ r = [q EXCEPT !.at = "terminal"]
                  \/ r = [q EXCEPT !.at = "terminal", !.cause = "error", !.fatal = TRUE]
               /\ Goto(w, r)
  BY DEF CloseState, Step
<1>6. "terminal" \in Places
  BY DEF Places
<1>7. r \in Run
  <2>1. CASE r = [q EXCEPT !.at = "terminal"]
    BY <1>1, <1>6, <2>1 DEF Run
  <2>2. CASE r = [q EXCEPT !.at = "terminal", !.cause = "error", !.fatal = TRUE]
    BY <1>1, <1>6, <2>2 DEF Run
  <2> QED
    BY <1>5, <2>1, <2>2
<1>8. r.at = "terminal" /\ r.job = 0 /\ r.owed = q.owed
  <2>1. CASE r = [q EXCEPT !.at = "terminal"]
    BY <1>1, <1>2, <2>1 DEF Run
  <2>2. CASE r = [q EXCEPT !.at = "terminal", !.cause = "error", !.fatal = TRUE]
    BY <1>1, <1>2, <2>2 DEF Run
  <2> QED
    BY <1>5, <2>1, <2>2
<1>9. RunInv(r)
  BY <1>1, <1>7, <1>8 DEF RunInv, HandInv, QuietInv, KnownInv, MediaInv, RoomInv,
     InCycle, Producing
<1>10. RunInv(r)'
  BY <1>4, <1>9, UnnoticedKept
<1>11. run' = [run EXCEPT ![w] = r] /\ r.at \in Resting /\ lock' = None
  BY <1>5, <1>8 DEF Goto, Resting, CloseState
<1> QED
  BY <1>1, <1>4, <1>10, <1>11, HolderMoves

(* A record that relies on nothing.                                        *)
LEMMA FreshRecord ==
  ASSUME WatcherIInv, NEW r \in Run, r.at \in {"off", "open", "terminal"},
         r.job = 0, r.owed = {}
  PROVE  RunInv(r)
BY DEF RunInv, HandInv, QuietInv, KnownInv, MediaInv, RoomInv, InCycle, Producing

(* A process takes the lock, or reports that another watcher runs.         *)
LEMMA StartStep ==
  ASSUME WatcherIInv, NEW w \in Watchers, NEW mode \in Modes, NEW plan \in WatchPlans,
         Start(w, mode, plan)
  PROVE  WatcherIInv'
<1>1. run[w].at = "off" /\ UNCHANGED <<library, tui, announced>>
  BY DEF Start, At
<1>2. Sane /\ Unnoticed
  <2>1. announced' \subseteq Watched({"completed"}) /\ UNCHANGED <<jobs, latest, media>>
    BY <1>1 DEF WatcherIInv, library
  <2>2. Spent
    BY <1>1, SpentTroubles DEF library
  <2> QED
    BY <1>1, <2>1, <2>2, Steady
<1>3. w # None
  BY WatcherAssumption
<1>4. PICK i \in Run : i = Idle /\ i.job = 0 /\ i.owed = {}
  BY IdleRun
<1>5. CASE lock = None
  <2>1. lock' = w /\ Goto(w, [i EXCEPT !.at = "open", !.mode = mode, !.plan = plan])
    BY <1>4, <1>5 DEF Start
  <2>2. PICK r : r = [i EXCEPT !.at = "open", !.mode = mode, !.plan = plan]
    OBVIOUS
  <2>3. r \in Run
    <3>1. "open" \in Places /\ mode \in {"poll", "once", "force"}
      BY WatcherAssumption DEF Places
    <3> QED
      BY <1>4, <2>2, <3>1 DEF Run
  <2>4. r.at = "open" /\ r.job = 0 /\ r.owed = {}
    BY <1>4, <2>2 DEF Run
  <2>5. RunInv(r)
    BY <2>3, <2>4, FreshRecord
  <2>6. run' = [run EXCEPT ![w] = r]
    BY <2>1, <2>2 DEF Goto
  <2>7. LockInv'
    BY <1>1, <1>3, <1>5, <2>1, <2>4, <2>6, WatcherAssumption
       DEF WatcherIInv, LockInv, Resting
  <2> QED
    BY <1>2, <2>5, <2>6, <2>7, AnyMoves
<1>6. CASE lock # None
  <2>1. UNCHANGED lock /\ Goto(w, [i EXCEPT !.at = "terminal", !.cause = "error"])
    BY <1>4, <1>6 DEF Start
  <2>2. PICK r : r = [i EXCEPT !.at = "terminal", !.cause = "error"]
    OBVIOUS
  <2>3. r \in Run
    <3>1. "terminal" \in Places
      BY DEF Places
    <3>2. PICK s : s = [i EXCEPT !.at = "terminal"]
      OBVIOUS
    <3>3. s \in Run
      BY <3>1, <3>2 DEF Run
    <3>4. r = [s EXCEPT !.cause = "error"]
      BY <2>2, <3>2 DEF Run
    <3> QED
      BY <3>3, <3>4 DEF Run
  <2>4. r.at = "terminal" /\ r.job = 0 /\ r.owed = {}
    BY <1>4, <2>2 DEF Run
  <2>5. RunInv(r)
    BY <2>3, <2>4, FreshRecord
  <2>6. run' = [run EXCEPT ![w] = r]
    BY <2>1, <2>2 DEF Goto
  <2>7. LockInv'
    BY <1>1, <2>1, <2>4, <2>6 DEF WatcherIInv, LockInv, Resting
  <2> QED
    BY <1>2, <2>5, <2>6, <2>7, AnyMoves
<1> QED
  BY <1>5, <1>6

(* The signal arrives.                                                     *)
LEMMA InterruptStep ==
  ASSUME WatcherIInv, NEW w \in Watchers, Interrupt(w)
  PROVE  WatcherIInv'
<1> PICK q : q = run[w]
  OBVIOUS
<1>1. RunInv(q) /\ q \in Run
  BY RunningInv
<1>2. UNCHANGED <<library, lock, tui, announced>>
  BY DEF Interrupt
<1>3. Sane /\ Unnoticed
  <2>1. announced' \subseteq Watched({"completed"}) /\ UNCHANGED <<jobs, latest, media>>
    BY <1>2 DEF WatcherIInv, library
  <2>2. Spent
    BY <1>2, SpentTroubles DEF library
  <2> QED
    BY <1>2, <2>1, <2>2, Steady
<1>4. PICK r : r = [q EXCEPT !.told = TRUE]
  OBVIOUS
<1>5. r \in Run
  BY <1>1, <1>4 DEF Run
<1>6. MovedTo(r, q, q.at)
  BY <1>1, <1>4 DEF Run, MovedTo
<1>7. RunInv(r)
  <2>1. Verdict(r) = Verdict(q)
    BY <1>6 DEF Verdict, MovedTo
  <2> QED
    BY <1>1, <1>5, <1>6, <2>1 DEF MovedTo, RunInv, HandInv, QuietInv, KnownInv, MediaInv,
       RoomInv, InCycle
<1>8. run' = [run EXCEPT ![w] = r]
  BY <1>4 DEF Interrupt, Goto
<1>9. LockInv'
  BY <1>2, <1>6, <1>8 DEF WatcherIInv, LockInv, MovedTo
<1> QED
  BY <1>3, <1>7, <1>8, <1>9, AnyMoves

(* A process that is gone owns no lock and owes nothing.                   *)
LEMMA GoneStep ==
  ASSUME WatcherIInv, NEW w \in Watchers, Goto(w, Idle),
         UNCHANGED <<jobs, latest, media, tui, announced>>, UNCHANGED troubles \/ Trouble,
         lock' = IF lock = w THEN None ELSE lock
  PROVE  WatcherIInv'
<1>1. Sane /\ Unnoticed
  <2>1. announced' \subseteq Watched({"completed"}) /\ Spent
    BY SpentTroubles DEF WatcherIInv
  <2> QED
    BY <2>1, Steady
<1>2. PICK r \in Run : r = Idle /\ r.at = "off" /\ r.job = 0 /\ r.owed = {}
  BY IdleRun
<1>3. RunInv(r)
  BY <1>2, FreshRecord
<1>4. run' = [run EXCEPT ![w] = r]
  BY <1>2 DEF Goto
<1>5. LockInv'
  BY <1>2, <1>4, WatcherAssumption DEF WatcherIInv, LockInv, Resting
<1> QED
  BY <1>1, <1>3, <1>4, <1>5, AnyMoves

(* A process dies.                                                         *)
LEMMA CrashStep ==
  ASSUME WatcherIInv, NEW w \in Watchers, Crash(w)
  PROVE  WatcherIInv'
BY GoneStep DEF Crash

(* The terminal event is the last thing a process does.                    *)
LEMMA EmitTerminalStep ==
  ASSUME WatcherIInv, NEW w \in Watchers, EmitTerminal(w)
  PROVE  WatcherIInv'
<1>1. run[w].at = "terminal" /\ lock # w
  BY DEF EmitTerminal, At, WatcherIInv, LockInv, Resting
<1>2. /\ Goto(w, Idle) /\ UNCHANGED <<jobs, latest, media, tui, announced, lock>>
      /\ UNCHANGED troubles \/ Trouble
  BY DEF EmitTerminal, Emit
<1> QED
  BY <1>1, <1>2, GoneStep

-------------------------------------------------------------------------------
(* The TUI and the user.                                                   *)

(* The TUI works on a job of its own kind.                                 *)
LEMMA TuiJob ==
  ASSUME WatcherIInv, tui.at # "off"
  PROVE  /\ tui \in TuiRun /\ tui.job \in JobIds /\ tui.job \notin OfKind("watch")
         /\ tui.job \in OfKind("download") /\ jobs[tui.job].kind = "download"
BY DEF WatcherIInv, TuiInv, OfKind

(* Before and after a download the TUI works on nothing.                   *)
LEMMA TuiAtRest ==
  /\ NoDownload \in TuiRun /\ NoDownload.at = "off" /\ NoDownload.job = 0
<1>1. NoFiles \in Bytes /\ 0 \in Numbered
  BY WriterNames DEF NoFiles, Bytes
<1>2. 0 \in 0..Outputs
  BY LibraryAssumption
<1> QED
  BY <1>1, <1>2 DEF NoDownload, TuiRun

(* A download that ends keeps its job.                                     *)
LEMMA TuiFinishing ==
  ASSUME NEW q \in TuiRun, NEW outcome \in {"failed", "canceled"}
  PROVE  /\ [q EXCEPT !.at = "finish", !.outcome = outcome] \in TuiRun
         /\ [q EXCEPT !.at = "finish", !.outcome = outcome].job = q.job
BY DEF TuiRun

(* It moves on, and its job with it or not at all.                         *)
LEMMA TuiTurns ==
  ASSUME WatcherIInv, tui.at # "off", NEW from, NEW to \in Open \cup Terminal,
         from \subseteq Open, jobs' \in {jobs, Moved(tui.job, from, to)},
         UNCHANGED <<media, announced>>, UNCHANGED <<run, lock>>, RecordsInv',
         tui' \in TuiRun, tui'.at = "off" \/ tui'.job = tui.job
  PROVE  WatcherIInv'
<1>1. PICK j : j = tui.job
  OBVIOUS
<1>2. j \in JobIds /\ j \notin OfKind("watch") /\ j \in OfKind("download")
  BY <1>1, TuiJob
<1>3. \A kind : OfKind(kind)' = OfKind(kind)
  <2>1. CASE jobs' = jobs
    BY <2>1 DEF OfKind, JobIds
  <2>2. CASE jobs' = Moved(j, from, to)
    <3>1. JobsInv
      BY DEF WatcherIInv
    <3>2. Reclassified
      BY <1>2, <2>2, <3>1, JobMoved
    <3> QED
      BY <3>1, <3>2, ReclassifiedJobs
  <2> QED
    BY <1>1, <2>1, <2>2
<1>4. TuiInv'
  BY <1>1, <1>2, <1>3 DEF TuiInv
<1>5. /\ Sane /\ Reclassified
      /\ \A i \in JobIds \ {j} : jobs'[i] = jobs[i]
  BY <1>1, <1>2, <1>4, MovedSane
<1>6. Unnoticed
  BY <1>2, <1>3, <1>5 DEF Unnoticed, Reclassified, OfKind, media
<1> QED
  BY <1>5, <1>6, NobodyMoves

(* It moves on, and the library stays.                                     *)
LEMMA TuiMoves ==
  ASSUME WatcherIInv, tui.at # "off", UNCHANGED <<jobs, latest, media, announced>>,
         UNCHANGED <<run, lock>>, UNCHANGED troubles \/ Trouble,
         tui' \in TuiRun, tui'.at = "off" \/ tui'.job = tui.job
  PROVE  WatcherIInv'
<1>1. RecordsInv'
  <2>1. Spent
    BY SpentTroubles
  <2> QED
    BY <2>1 DEF WatcherIInv, RecordsInv, media, Spent
<1>2. "failed" \in Open \cup Terminal /\ jobs' \in {jobs, Moved(tui.job, Open, "failed")}
  BY DEF Terminal
<1> QED
  BY <1>1, <1>2, TuiTurns

(* The TUI adds a job of its kind.                                         *)
LEMMA TuiCreateStep ==
  ASSUME WatcherIInv, NEW a \in Artifacts, TuiCreate(a)
  PROVE  WatcherIInv'
<1>1. /\ tui.at = "off" /\ Cardinality(OfKind("download")) < MaxDownloads
      /\ UNCHANGED <<latest, media, announced>> /\ UNCHANGED <<run, lock>>
      /\ UNCHANGED troubles \/ Trouble
  BY DEF TuiCreate, CreateJob, Beside
<1>2. \/ /\ jobs' = Append(jobs, [kind |-> "download", art |-> a, plan |-> TuiPlan,
                                  status |-> "pending"])
         /\ \/ tui' = [NoDownload EXCEPT !.at = "start", !.job = Len(jobs) + 1]
            \/ UNCHANGED tui
      \/ UNCHANGED jobs /\ UNCHANGED tui
  BY DEF TuiCreate, CreateJob
<1>3. Spent /\ TuiPlan \in Plans
  BY <1>1, SpentTroubles, WatcherAssumption
<1>4. CASE UNCHANGED jobs /\ UNCHANGED tui
  <2>1. announced' \subseteq Watched({"completed"})
    BY <1>1 DEF WatcherIInv
  <2> QED
    BY <1>1, <1>3, <1>4, <2>1, Steady, NobodyMoves
<1>5. CASE jobs' = Append(jobs, [kind |-> "download", art |-> a, plan |-> TuiPlan,
                                 status |-> "pending"])
  <2> DEFINE new == Len(jobs) + 1
  <2>1. JobsInv
    BY DEF WatcherIInv
  <2>2. /\ JobIds' = JobIds \cup {new}
        /\ \A j \in JobIds : jobs'[j] = jobs[j]
        /\ OfKind("download")' = OfKind("download") \cup {new}
        /\ OfKind("watch")' = OfKind("watch")
        /\ Cardinality(OfKind("download")') = Cardinality(OfKind("download")) + 1
    BY <1>3, <1>5, <2>1, JobAdded
  <2>3. jobs' \in Seq(Job)
    BY <1>3, <1>5, <2>1, JobAdded
  <2>4. new \in Numbered
    <3>1. /\ Len(jobs) = Cardinality(OfKind("watch")) + Cardinality(OfKind("download"))
          /\ \A k : Cardinality(OfKind(k)) \in Nat
          /\ Cardinality(OfKind("watch")) <= MaxWatchJobs
      BY <2>1, JobCount DEF JobsInv
    <3> HIDE DEF OfKind
    <3> QED
      BY <1>1, <3>1, WatcherAssumption DEF Numbered
  <2> HIDE DEF new
  <2>5. PICK q \in TuiRun : q = NoDownload
    BY TuiAtRest
  <2>6. PICK r : r = [q EXCEPT !.at = "start", !.job = new]
    OBVIOUS
  <2>7. r \in TuiRun /\ r.job = new
    BY <2>4, <2>5, <2>6 DEF TuiRun
  <2>8. TuiInv'
    <3>1. CASE tui' = r
      BY <2>2, <2>7, <3>1 DEF TuiInv
    <3>2. CASE UNCHANGED tui
      BY <2>2, <3>2 DEF WatcherIInv, TuiInv
    <3> QED
      BY <1>2, <2>5, <2>6, <3>1, <3>2 DEF new
  <2>9. Sane
    BY <1>1, <1>3, <1>5, <2>8, CreatedSane
  <2>10. \A j \in OfKind("watch") : jobs'[j] = jobs[j]
    BY <2>2 DEF OfKind
  <2>11. Unnoticed
    <3> HIDE DEF OfKind, JobIds
    <3> QED
      BY <1>1, <2>2, <2>10 DEF Unnoticed, media
  <2> QED
    BY <1>1, <2>9, <2>11, NobodyMoves
<1> QED
  BY <1>2, <1>4, <1>5

(* It starts the job, or fails to.                                         *)
LEMMA TuiStartStep ==
  ASSUME WatcherIInv, TuiStart
  PROVE  WatcherIInv'
<1>1. /\ tui.at = "start" /\ UNCHANGED <<latest, media, announced>> /\ UNCHANGED <<run, lock>>
      /\ UNCHANGED troubles \/ Trouble
      /\ jobs' \in {jobs, Moved(tui.job, Startable, "running")}
      /\ \/ tui' = [tui EXCEPT !.at = "download"]
         \/ tui' = [tui EXCEPT !.at = "finish", !.outcome = "failed"]
  BY DEF TuiStart, StartJob, Transition, Beside, TuiEnds
<1>2. tui \in TuiRun
  BY <1>1, TuiJob
<1>3. tui' \in TuiRun /\ tui'.job = tui.job
  <2>1. CASE tui' = [tui EXCEPT !.at = "download"]
    BY <1>2, <2>1 DEF TuiRun
  <2>2. CASE tui' = [tui EXCEPT !.at = "finish", !.outcome = "failed"]
    BY <1>2, <2>2, TuiFinishing
  <2> QED
    BY <1>1, <2>1, <2>2
<1>4. Startable \subseteq Open /\ "running" \in Open \cup Terminal
  BY DEF Startable, Open
<1>5. RecordsInv'
  <2>1. Spent
    BY <1>1, SpentTroubles
  <2> QED
    BY <1>1, <2>1 DEF WatcherIInv, RecordsInv, media, Spent
<1> QED
  BY <1>1, <1>3, <1>4, <1>5, TuiTurns

(* It ends the job as failed or canceled.                                  *)
LEMMA TuiFinishStep ==
  ASSUME WatcherIInv, TuiFinish
  PROVE  WatcherIInv'
<1>1. /\ tui.at = "finish" /\ UNCHANGED <<latest, media, announced>> /\ UNCHANGED <<run, lock>>
      /\ UNCHANGED troubles \/ Trouble
      /\ jobs' \in {jobs, Moved(tui.job, Open, tui.outcome)}
      /\ tui' = NoDownload
  BY DEF TuiFinish, FinishJob, Transition, Beside
<1>2. tui \in TuiRun
  BY <1>1, TuiJob
<1>3. tui.outcome \in Open \cup Terminal
  BY <1>2 DEF TuiRun, Terminal
<1>4. tui' \in TuiRun /\ tui'.at = "off"
  BY <1>1, TuiAtRest
<1>5. RecordsInv'
  <2>1. Spent
    BY <1>1, SpentTroubles
  <2> QED
    BY <1>1, <2>1 DEF WatcherIInv, RecordsInv, media, Spent
<1> QED
  BY <1>1, <1>3, <1>4, <1>5, TuiTurns

(* Its download fails or is canceled.                                      *)
LEMMA TuiFailsStep ==
  ASSUME WatcherIInv, TuiFails
  PROVE  WatcherIInv'
<1>1. PICK outcome \in {"failed", "canceled"} :
        tui' = [tui EXCEPT !.at = "finish", !.outcome = outcome]
  BY DEF TuiFails, TuiEnds
<1>2. tui.at # "off" /\ UNCHANGED <<library, announced>> /\ UNCHANGED <<run, lock>>
  BY DEF TuiFails, Beside
<1>3. tui' \in TuiRun /\ tui'.job = tui.job
  BY <1>1, <1>2, TuiJob, TuiFinishing
<1> QED
  BY <1>2, <1>3, TuiMoves DEF library

(* It validates what it published.                                         *)
LEMMA TuiBuildStep ==
  ASSUME WatcherIInv, TuiBuild
  PROVE  WatcherIInv'
<1>1. /\ tui.at # "off" /\ UNCHANGED <<library, announced>> /\ UNCHANGED <<run, lock>>
      /\ \/ tui' = [tui EXCEPT !.at = "record", !.seen = Media(tui.job)]
         \/ tui' = [tui EXCEPT !.at = "finish", !.outcome = "failed"]
  BY DEF TuiBuild, Beside, TuiEnds
<1>2. tui \in TuiRun /\ tui.job \in JobIds
  BY <1>1, TuiJob
<1>3. tui' \in TuiRun /\ tui'.job = tui.job
  <2>1. CASE tui' = [tui EXCEPT !.at = "record", !.seen = Media(tui.job)]
    <3>1. Media(tui.job) \in Bytes
      BY <1>2, MediaBytes
    <3> QED
      BY <1>2, <2>1, <3>1 DEF TuiRun
  <2>2. CASE tui' = [tui EXCEPT !.at = "finish", !.outcome = "failed"]
    BY <1>2, <2>2, TuiFinishing
  <2> QED
    BY <1>1, <2>1, <2>2
<1> QED
  BY <1>1, <1>3, TuiMoves DEF library

(* It dies.                                                                *)
LEMMA TuiDiesStep ==
  ASSUME WatcherIInv, TuiDies
  PROVE  WatcherIInv'
<1>1. /\ tui.at # "off" /\ UNCHANGED <<jobs, latest, media, announced>>
      /\ UNCHANGED <<run, lock>> /\ Trouble /\ tui' = NoDownload
  BY DEF TuiDies, Beside
<1> QED
  BY <1>1, TuiAtRest, TuiMoves

(* It completes the job with its manifest.                                 *)
LEMMA TuiRecordStep ==
  ASSUME WatcherIInv, TuiRecord
  PROVE  WatcherIInv'
<1>1. /\ tui.at # "off" /\ UNCHANGED <<media, announced>> /\ UNCHANGED <<run, lock>>
      /\ UNCHANGED troubles \/ Trouble
      /\ \/ UNCHANGED <<jobs, latest>>
         \/ /\ jobs' = Moved(tui.job, Completable, "completed")
            /\ latest' = IF jobs[tui.job].status \in Completable
                         THEN Recorded(tui.job, tui.seen) ELSE latest
      /\ \/ tui' = NoDownload
         \/ tui' = [tui EXCEPT !.at = "finish", !.outcome = "failed"]
  BY DEF TuiRecord, CompleteJob, Beside, TuiEnds
<1>2. tui \in TuiRun /\ tui.job \in JobIds
  BY <1>1, TuiJob
<1>3. tui' \in TuiRun /\ (tui'.at = "off" \/ tui'.job = tui.job)
  <2>1. CASE tui' = NoDownload
    BY <2>1, TuiAtRest
  <2>2. CASE tui' = [tui EXCEPT !.at = "finish", !.outcome = "failed"]
    BY <1>2, <2>2, TuiFinishing
  <2> QED
    BY <1>1, <2>1, <2>2
<1>4. RecordsInv'
  <2>1. Spent
    BY <1>1, SpentTroubles
  <2>2. /\ tui.seen \in Bytes /\ tui.job \in Numbered
        /\ jobs[tui.job].art \in Artifacts /\ jobs[tui.job].plan \in Plans
    BY <1>2, JobCount DEF TuiRun, WatcherIInv, Job
  <2>3. latest' = latest \/ latest' = Recorded(tui.job, tui.seen)
    BY <1>1
  <2>4. latest' \in [Artifacts -> [job : Numbered, plan : Plans, bytes : Bytes]]
    BY <2>2, <2>3 DEF WatcherIInv, RecordsInv, Recorded
  <2> QED
    BY <1>1, <2>1, <2>4 DEF WatcherIInv, RecordsInv, media, Spent
<1>5. /\ jobs' \in {jobs, Moved(tui.job, Completable, "completed")}
      /\ Completable \subseteq Open /\ "completed" \in Open \cup Terminal
  BY <1>1 DEF Completable, Open, Terminal
<1> QED
  BY <1>1, <1>3, <1>4, <1>5, TuiTurns

(* It publishes an output, in a plan no watcher uses.                      *)
LEMMA TuiPublishStep ==
  ASSUME WatcherIInv, TuiPublish
  PROVE  WatcherIInv'
<1>1. /\ tui.at # "off" /\ tui.published < Outputs
      /\ Publish(tui.job, tui.published + 1)
      /\ tui' = [tui EXCEPT !.published = @ + 1]
      /\ UNCHANGED announced /\ UNCHANGED <<run, lock>>
  BY DEF TuiPublish, Beside
<1>2. PICK j, o : j = tui.job /\ o = tui.published + 1
  OBVIOUS
<1>3. tui \in TuiRun /\ j \in JobIds /\ j \notin OfKind("watch") /\ jobs[j].kind = "download"
  BY <1>1, <1>2, TuiJob
<1>4. o \in 1..Outputs /\ o \in 0..Outputs
  BY <1>1, <1>2, <1>3, LibraryAssumption DEF TuiRun
<1>5. tui' \in TuiRun /\ tui'.job = j
  <2>1. tui' = [tui EXCEPT !.published = o]
    BY <1>1, <1>2
  <2> QED
    BY <1>2, <1>3, <1>4, <2>1 DEF TuiRun
<1>6. UNCHANGED jobs /\ \A k : OfKind(k)' = OfKind(k)
  BY <1>1, <1>2 DEF Publish, OfKind, JobIds
<1>7. TuiInv'
  BY <1>1, <1>2, <1>5, <1>6, TuiJob DEF TuiInv
<1>8. Sane /\ intact' \subseteq intact \cup {j}
  BY <1>1, <1>2, <1>3, <1>4, <1>7, PublishedSane
<1>9. Unnoticed
  BY <1>3, <1>6, <1>8 DEF Unnoticed, JobIds
<1> QED
  BY <1>1, <1>8, <1>9, NobodyMoves

(* The user removes a file.                                                *)
LEMMA RemoveStep ==
  ASSUME WatcherIInv, Remove
  PROVE  WatcherIInv'
<1>1. PICK a \in Artifacts, p \in Plans, o \in 1..Outputs : RemoveFile(a, p, o)
  BY DEF Remove
<1>2. UNCHANGED <<tui, announced>> /\ UNCHANGED <<run, lock>>
  BY DEF Remove, Aside
<1> QED
  BY <1>1, <1>2, RemovedSane, NobodyMoves

(* What a one-shot download is before and after a step.                    *)
LEMMA OneShotRecords ==
  /\ NoOneShot \in OneShots
  /\ \A s \in 0..MaxOneShots : [NoOneShot EXCEPT !.serial = s] \in OneShots
  /\ \A s \in 0..MaxOneShots, a \in Artifacts, p \in Plans :
       [NoOneShot EXCEPT !.at = "download", !.serial = s, !.art = a, !.plan = p] \in OneShots
<1> DEFINE any == SomeOf(Artifacts)
           plan == SomeOf(Plans)
<1>1. any \in Artifacts /\ plan \in Plans
  BY LibraryAssumption, WatcherAssumption DEF SomeOf
<1>2. NoFiles \in Bytes /\ 0 \in 0..Outputs /\ 0 \in 0..MaxOneShots
  BY LibraryAssumption, WriterNames DEF NoFiles, Bytes
<1> HIDE DEF any, plan
<1>3. NoOneShot = [at |-> "off", serial |-> 0, art |-> any, plan |-> plan,
                   published |-> 0, seen |-> NoFiles]
  BY DEF NoOneShot, any, plan
<1>4. NoOneShot \in OneShots
  BY <1>1, <1>2, <1>3 DEF OneShots
<1> QED
  BY <1>4 DEF OneShots

(* The command without a job takes a step: watchers do not notice it.      *)
LEMMA ElsewhereStep ==
  ASSUME WatcherIInv, Elsewhere
  PROVE  WatcherIInv'
<1>1. OneShot /\ UNCHANGED <<tui, announced>> /\ UNCHANGED <<run, lock>>
  BY DEF Elsewhere, Aside
<1>2. oneShot \in OneShots /\ oneShot.serial \in 0..MaxOneShots
  BY DEF WatcherIInv, RecordsInv, OneShots
<1>3. OneShotOver => oneShot' \in OneShots
  BY <1>2, OneShotRecords DEF OneShotOver
<1>4. UNCHANGED latest => latest' \in [Artifacts -> [job : Numbered, plan : Plans, bytes : Bytes]]
  BY DEF WatcherIInv, RecordsInv
<1> SUFFICES Sane /\ Unnoticed
  BY <1>1, NobodyMoves
<1>5. CASE \E a \in Artifacts, p \in Plans : OneShotStart(a, p)
  <2>1. PICK a \in Artifacts, p \in Plans : OneShotStart(a, p)
    BY <1>5
  <2>2. PICK s : s = oneShot.serial + 1
    OBVIOUS
  <2>3. /\ s \in 0..MaxOneShots
        /\ oneShot' = [NoOneShot EXCEPT !.at = "download", !.serial = s, !.art = a, !.plan = p]
    BY <1>2, <2>1, <2>2, LibraryAssumption DEF OneShotStart
  <2>4. UNCHANGED <<jobs, latest, files, intact, troubles>>
    BY <2>1 DEF OneShotStart
  <2> QED
    BY <1>1, <1>4, <2>3, <2>4, SpentTroubles, OneShotRecords, RecordedSane
<1>6. CASE OneShotPublish
  <2>1. PICK a, p, o, n : /\ a = oneShot.art /\ p = oneShot.plan
                          /\ o = oneShot.published + 1 /\ n = 0 - oneShot.serial
    OBVIOUS
  <2>2. a \in Artifacts /\ p \in Plans
    BY <1>2, <2>1 DEF OneShots
  <2>3. o \in 1..Outputs /\ o \in 0..Outputs
    BY <1>2, <1>6, <2>1, LibraryAssumption DEF OneShotPublish, OneShots
  <2>4. n \in Writers
    BY <1>2, <2>1, LibraryAssumption, WatcherAssumption DEF Writers
  <2>5. /\ files' = Replaced(a, p, o, n) /\ intact' = Untouched(a, p)
        /\ oneShot' = [oneShot EXCEPT !.published = o]
        /\ UNCHANGED <<jobs, latest, troubles>>
    BY <1>6, <2>1 DEF OneShotPublish, Replaced
  <2>6. oneShot' \in OneShots
    BY <1>2, <2>3, <2>5 DEF OneShots
  <2> QED
    BY <1>1, <2>2, <2>3, <2>4, <2>5, <2>6, SpentTroubles, OverwrittenSane
<1>7. CASE OneShotFails \/ OneShotDies
  <2>1. /\ UNCHANGED <<jobs, latest, files, intact>> /\ (UNCHANGED troubles \/ Trouble)
        /\ OneShotOver
    BY <1>7 DEF OneShotFails, OneShotDies
  <2> QED
    BY <1>1, <1>3, <1>4, <2>1, SpentTroubles, RecordedSane
<1>8. CASE OneShotDigest
  <2>1. PICK outputs : outputs = files[oneShot.art][oneShot.plan]
    OBVIOUS
  <2>2. outputs \in Bytes
    BY <1>2, <2>1 DEF WatcherIInv, RecordsInv, OneShots
  <2>3. /\ UNCHANGED <<jobs, latest, files, intact, troubles>>
        /\ \/ oneShot' = [oneShot EXCEPT !.at = "record", !.seen = outputs]
           \/ OneShotOver
    BY <1>8, <2>1 DEF OneShotDigest
  <2>4. oneShot' \in OneShots
    BY <1>2, <1>3, <2>2, <2>3 DEF OneShots
  <2> QED
    BY <1>1, <1>4, <2>3, <2>4, SpentTroubles, RecordedSane
<1>9. CASE OneShotRecord
  <2>1. PICK manifest : manifest = [job |-> 0, plan |-> oneShot.plan, bytes |-> oneShot.seen]
    OBVIOUS
  <2>2. manifest \in [job : Numbered, plan : Plans, bytes : Bytes]
    BY <1>2, <2>1, WriterNames DEF OneShots
  <2>3. /\ UNCHANGED <<jobs, files, intact>> /\ (UNCHANGED troubles \/ Trouble) /\ OneShotOver
        /\ UNCHANGED latest \/ latest' = [latest EXCEPT ![oneShot.art] = manifest]
    BY <1>9, <2>1 DEF OneShotRecord
  <2>4. latest' \in [Artifacts -> [job : Numbered, plan : Plans, bytes : Bytes]]
    BY <2>2, <2>3 DEF WatcherIInv, RecordsInv
  <2> QED
    BY <1>1, <1>3, <2>3, <2>4, SpentTroubles, RecordedSane
<1> QED
  BY <1>1, <1>5, <1>6, <1>7, <1>8, <1>9 DEF OneShot

-------------------------------------------------------------------------------
(* The invariant.                                                          *)

(* The empty library and processes that have not started satisfy it.       *)
LEMMA InitIInv == Init => WatcherIInv
<1> SUFFICES ASSUME Init PROVE WatcherIInv
  OBVIOUS
<1> USE DEF Init, LibraryInit
<1>1. NoFiles \in Bytes /\ 0 \in Numbered
  BY WriterNames DEF NoFiles, Bytes
<1>2. JobIds = {} /\ \A kind : OfKind(kind) = {}
  BY DEF JobIds, OfKind
<1>3. \A S : Watched(S) = {}
  BY <1>2 DEF Watched, WithStatus
<1>4. JobsInv
  <2>1. Cardinality({}) = 0
    BY FS_EmptySet
  <2>2. jobs \in Seq(Job)
    OBVIOUS
  <2>3. OneOpenJob
    BY <1>3 DEF OneOpenJob, Watched
  <2>4. Cardinality(OfKind("watch")) = 0 /\ Cardinality(OfKind("download")) = 0
    <3> HIDE DEF Init, LibraryInit
    <3> QED
      BY <1>2, <2>1
  <2>5. 0 <= MaxWatchJobs /\ 0 <= MaxDownloads
    BY WatcherAssumption
  <2> HIDE DEF Init, LibraryInit
  <2> QED
    BY <2>2, <2>3, <2>4, <2>5 DEF JobsInv
<1>5. RecordsInv
  <2>1. PICK none : none = NoFiles /\ none \in Bytes
    BY <1>1
  <2>2. PICK plan \in Plans : plan = SomeOf(Plans)
    BY WatcherAssumption DEF SomeOf
  <2>3. /\ latest = [a \in Artifacts |-> [job |-> 0, plan |-> plan, bytes |-> none]]
        /\ files = [a \in Artifacts |-> [p \in Plans |-> none]]
        /\ oneShot = NoOneShot
        /\ troubles = 0
    BY <2>1, <2>2
  <2> HIDE DEF Init, LibraryInit
  <2>4. latest \in [Artifacts -> [job : Numbered, plan : Plans, bytes : Bytes]]
    <3>1. [job |-> 0, plan |-> plan, bytes |-> none]
            \in [job : Numbered, plan : Plans, bytes : Bytes]
      BY <1>1, <2>1
    <3> QED
      BY <2>3, <3>1
  <2>5. files \in [Artifacts -> [Plans -> Bytes]]
    BY <2>1, <2>3
  <2>6. oneShot \in OneShots
    BY <2>3, OneShotRecords
  <2>7. troubles \in 0..MaxTroubles
    BY <2>3, LibraryAssumption
  <2> QED
    BY <2>4, <2>5, <2>6, <2>7 DEF RecordsInv
<1>6. IntactInv
  BY DEF IntactInv
<1>7. PICK r \in Run : r = Idle /\ r.at = "off" /\ r.job = 0 /\ r.owed = {}
  BY IdleRun
<1>8. RunInv(r)
  BY <1>7 DEF RunInv, HandInv, QuietInv, KnownInv, MediaInv, RoomInv, InCycle, Producing
<1>9. run = [w \in Watchers |-> r]
  BY <1>7
<1>10. LockInv
  BY <1>7, <1>9, WatcherAssumption DEF LockInv, Resting
<1>11. TuiInv
  BY TuiAtRest DEF TuiInv
<1>12. \A w \in Watchers : RunInv(run[w])
  BY <1>8, <1>9
<1> QED
  BY <1>4, <1>5, <1>6, <1>9, <1>10, <1>11, <1>12 DEF WatcherIInv

(* The steps of prepareWatch.                                              *)
LEMMA PrepareKeeps ==
  ASSUME WatcherIInv, NEW w \in Watchers, Prepare(w)
  PROVE  WatcherIInv'
<1>1. CASE OpenLibrary(w)
  BY <1>1, OpenLibraryStep
<1>2. CASE Mark(w)
  BY <1>2, MarkStep
<1>3. CASE RecoverWhole(w)
  BY <1>3, RecoverWholeStep
<1>4. CASE RecoverPending(w)
  BY <1>4, RecoverPendingStep
<1>5. CASE RecoverRecord(w)
  BY <1>5, RecoverRecordStep
<1>6. CASE Preflight(w)
  BY <1>6, PreflightStep
<1> QED
  BY <1>1, <1>2, <1>3, <1>4, <1>5, <1>6 DEF Prepare

(* The steps of RunCycle around a lecture.                                 *)
LEMMA CycleKeeps ==
  ASSUME WatcherIInv, NEW w \in Watchers, Cycle(w)
  PROVE  WatcherIInv'
<1>1. CASE LoadRetryable(w)
  BY <1>1, LoadRetryableStep
<1>2. CASE EmitStarted(w)
  BY <1>2, EmitStartedStep
<1>3. CASE EmitRecovered(w)
  BY <1>3, EmitRecoveredStep
<1>4. CASE ListLectures(w)
  BY <1>4, ListLecturesStep
<1>5. ASSUME NEW a \in Artifacts, Skip(w, a) PROVE WatcherIInv'
  BY <1>5, SkipStep
<1>6. ASSUME NEW a \in Artifacts, Attempt(w, a) PROVE WatcherIInv'
  BY <1>6, AttemptStep
<1>7. ASSUME NEW a \in Artifacts, InspectFails(w, a) PROVE WatcherIInv'
  BY <1>7, InspectFailsStep
<1>8. CASE CycleEnds(w)
  BY <1>8, CycleEndsStep
<1>9. CASE Wait(w)
  BY <1>9, WaitStep
<1>10. CASE StopWaiting(w)
  BY <1>10, StopWaitingStep
<1>11. CASE EmitFailed(w)
  BY <1>11, EmitFailedStep
<1> QED
  BY <1>1, <1>2, <1>3, <1>4, <1>5, <1>6, <1>7, <1>8, <1>9, <1>10, <1>11 DEF Cycle

(* The steps of a lecture.                                                 *)
LEMMA DownloadKeeps ==
  ASSUME WatcherIInv, NEW w \in Watchers, Download(w)
  PROVE  WatcherIInv'
<1>1. CASE Resolve(w)
  BY <1>1, ResolveStep
<1>2. CASE Reuse(w)
  BY <1>2, ReuseStep
<1>3. CASE Supersede(w)
  BY <1>3, SupersedeStep
<1>4. CASE Create(w)
  BY <1>4, CreateStep
<1>5. CASE StartDownload(w)
  BY <1>5, StartDownloadStep
<1>6. CASE EmitLectureStarted(w)
  BY <1>6, EmitLectureStartedStep
<1>7. CASE FailUnheard(w)
  BY <1>7, FailUnheardStep
<1>8. CASE PublishNext(w)
  BY <1>8, PublishNextStep
<1>9. CASE DownloadFails(w)
  BY <1>9, DownloadFailsStep
<1>10. CASE CancelAttempt(w)
  BY <1>10, CancelAttemptStep
<1>11. CASE FailAttempt(w)
  BY <1>11, FailAttemptStep
<1>12. CASE BuildManifest(w)
  BY <1>12, BuildManifestStep
<1>13. CASE Digest(w)
  BY <1>13, DigestStep
<1>14. CASE Record(w)
  BY <1>14, RecordStep
<1>15. CASE EmitCompleted(w)
  BY <1>15, EmitCompletedStep
<1> QED
  BY <1>1, <1>2, <1>3, <1>4, <1>5, <1>6, <1>7, <1>8, <1>9, <1>10, <1>11, <1>12,
     <1>13, <1>14, <1>15 DEF Download

(* The steps of the TUI.                                                   *)
LEMMA TuiKeeps ==
  ASSUME WatcherIInv, Tui
  PROVE  WatcherIInv'
<1>1. ASSUME NEW a \in Artifacts, TuiCreate(a) PROVE WatcherIInv'
  BY <1>1, TuiCreateStep
<1>2. CASE TuiStart
  BY <1>2, TuiStartStep
<1>3. CASE TuiPublish
  BY <1>3, TuiPublishStep
<1>4. CASE TuiFails
  BY <1>4, TuiFailsStep
<1>5. CASE TuiBuild
  BY <1>5, TuiBuildStep
<1>6. CASE TuiRecord
  BY <1>6, TuiRecordStep
<1>7. CASE TuiFinish
  BY <1>7, TuiFinishStep
<1>8. CASE TuiDies
  BY <1>8, TuiDiesStep
<1> QED
  BY <1>1, <1>2, <1>3, <1>4, <1>5, <1>6, <1>7, <1>8 DEF Tui

(* Nothing happens.                                                        *)
LEMMA StutterKeeps ==
  ASSUME WatcherIInv, UNCHANGED vars
  PROVE  WatcherIInv'
<1>1. UNCHANGED <<jobs, latest, media, tui, announced, troubles>> /\ UNCHANGED <<run, lock>>
  BY DEF vars, library
<1>2. Spent /\ announced' \subseteq Watched({"completed"})
  BY <1>1, SpentTroubles DEF WatcherIInv
<1> QED
  BY <1>1, <1>2, Steady, NobodyMoves

(* Every step of every process keeps it.                                   *)
LEMMA NextKeeps == WatcherIInv /\ [Next]_vars => WatcherIInv'
<1> SUFFICES ASSUME WatcherIInv, [Next]_vars PROVE WatcherIInv'
  OBVIOUS
<1>1. ASSUME NEW w \in Watchers, NEW mode \in Modes, NEW plan \in WatchPlans,
             Start(w, mode, plan)
      PROVE  WatcherIInv'
  BY <1>1, StartStep
<1>2. ASSUME NEW w \in Watchers, Interrupt(w) PROVE WatcherIInv'
  BY <1>2, InterruptStep
<1>3. ASSUME NEW w \in Watchers, Crash(w) PROVE WatcherIInv'
  BY <1>3, CrashStep
<1>4. ASSUME NEW w \in Watchers, Advance(w) PROVE WatcherIInv'
  <2>1. CASE Prepare(w)
    BY <2>1, PrepareKeeps
  <2>2. CASE Cycle(w)
    BY <2>2, CycleKeeps
  <2>3. CASE Download(w)
    BY <2>3, DownloadKeeps
  <2>4. CASE CloseState(w)
    BY <2>4, CloseStateStep
  <2>5. CASE EmitTerminal(w)
    BY <2>5, EmitTerminalStep
  <2> QED
    BY <1>4, <2>1, <2>2, <2>3, <2>4, <2>5 DEF Advance
<1>5. CASE Tui
  BY <1>5, TuiKeeps
<1>6. CASE Remove
  BY <1>6, RemoveStep
<1>7. CASE UNCHANGED vars
  BY <1>7, StutterKeeps
<1>8. CASE Elsewhere
  BY <1>8, ElsewhereStep
<1> QED
  BY <1>1, <1>2, <1>3, <1>4, <1>5, <1>6, <1>7, <1>8 DEF Next

(* What the watchers rely on holds however many there are, whatever they   *)
(* poll, and wherever a process dies or a call of the library is lost.     *)
THEOREM WatcherInvariance == Spec => []WatcherIInv
BY InitIInv, NextKeeps, PTL DEF Spec

(* The types of the table of jobs, of the manifests, of the files and of   *)
(* every process.                                                          *)
THEOREM WatcherTypeCorrect == Spec => []WatcherTypeOK
<1>1. WatcherIInv => WatcherTypeOK
  <2> SUFFICES ASSUME WatcherIInv PROVE WatcherTypeOK
    OBVIOUS
  <2>1. jobs \in Seq(Job) /\ Len(jobs) \in Numbered
    BY JobCount DEF WatcherIInv, JobsInv
  <2>2. /\ latest \in [Artifacts -> [job : Numbered, plan : Plans, bytes : Bytes]]
        /\ oneShot \in OneShots
        /\ files \in [Artifacts -> [Plans -> Bytes]]
        /\ troubles \in 0..MaxTroubles
    BY DEF WatcherIInv, RecordsInv
  <2>3. \A w \in Watchers :
          /\ run[w].at \in Places
          /\ run[w].job \in Numbered /\ run[w].attempt \in 1..MaxRetries
          /\ run[w].left \in 0..Budget /\ run[w].published \in 0..Outputs
          /\ run[w].recovering \cup run[w].owed \cup run[w].retryable \subseteq JobIds
          /\ run[w].seen \in Bytes
    <3> TAKE w \in Watchers
    <3> PICK q : q = run[w]
      OBVIOUS
    <3>1. q \in Run
      BY DEF WatcherIInv, RunInv
    <3> QED
      BY <3>1, LibraryAssumption DEF Run
  <2>4. lock \in Watchers \cup {None}
    BY DEF WatcherIInv, LockInv
  <2>5. tui.job \in Numbered /\ tui.published \in 0..Outputs
    BY DEF WatcherIInv, TuiInv, TuiRun
  <2>6. announced \subseteq JobIds
    BY DEF WatcherIInv, Watched, WithStatus, OfKind
  <2> QED
    BY <2>1, <2>2, <2>3, <2>4, <2>5, <2>6 DEF WatcherTypeOK
<1> QED
  BY <1>1, WatcherInvariance, PTL

(* lecture.completed is written only for jobs that are durably completed,  *)
(* by the run that completed them or by one that recovered them.           *)
THEOREM AnnouncedHeld == Spec => []AnnouncedIsRecorded
<1>1. WatcherIInv => AnnouncedIsRecorded
  BY DEF WatcherIInv, AnnouncedIsRecorded, Watched, WithStatus
<1> QED
  BY <1>1, WatcherInvariance, PTL

(* A lecture never has two unfinished watch jobs.                          *)
THEOREM OneOpenJobHeld == Spec => []OneOpenJob
<1>1. WatcherIInv => OneOpenJob
  BY DEF WatcherIInv, JobsInv
<1> QED
  BY <1>1, WatcherInvariance, PTL

(* A run that reports completed or canceled leaves no watch job running.   *)
THEOREM StrandedHeld == Spec => []NoStrandedJob
<1>1. WatcherIInv => NoStrandedJob
  BY DEF WatcherIInv, NoStrandedJob, RunInv, QuietInv, Watched, At
<1> QED
  BY <1>1, WatcherInvariance, PTL

(* While a watcher waits for its next poll, media that a watch job         *)
(* published completely and nobody touched belong to a completed job.      *)
THEOREM PublishedHeld == Spec => []PublishedIsRecorded
<1>1. WatcherIInv => PublishedIsRecorded
  <2> SUFFICES ASSUME WatcherIInv, NEW w \in Watchers, At(w, "wait"),
                      NEW j \in OfKind("watch") \cap intact
               PROVE  jobs[j].status = "completed"
    BY DEF PublishedIsRecorded
  <2>1. MediaInv(run[w]) /\ run[w].at = "wait"
    BY DEF WatcherIInv, RunInv, At
  <2>2. intact \cap Watched(Open \cup {"failed", "canceled"}) = {}
    BY <2>1 DEF MediaInv, InCycle, Validating
  <2>3. jobs[j].status \in Open \cup Terminal
    <3>1. j \in JobIds
      BY DEF OfKind
    <3>2. jobs[j] \in Job
      BY <3>1, JobCount DEF WatcherIInv
    <3> QED
      BY <3>2 DEF Job
  <2> QED
    BY <2>2, <2>3 DEF Watched, WithStatus, Terminal
<1> QED
  BY <1>1, WatcherInvariance, PTL

-------------------------------------------------------------------------------
(* What a step may do to the tables of the library.                        *)

Kept == UNCHANGED <<jobs, latest>>

Added ==
  \E kind \in {"watch", "download"}, a \in Artifacts, p \in Plans :
    /\ jobs' = Append(jobs, [kind |-> kind, art |-> a, plan |-> p, status |-> "pending"])
    /\ UNCHANGED latest

Changed ==
  \E j \in JobIds, from \in SUBSET Open, to \in {"running", "failed", "canceled"} :
    jobs' = Moved(j, from, to) /\ UNCHANGED latest

Fulfilled ==
  \E j \in JobIds, bytes \in Bytes :
    /\ jobs[j].status \in Completable
    /\ jobs' = Moved(j, Completable, "completed")
    /\ latest' = Recorded(j, bytes)

Reclaimed ==
  /\ \E w \in Watchers : Mark(w)
  /\ jobs' = [j \in JobIds |-> IF j \in Interrupted("watch")
                               THEN [jobs[j] EXCEPT !.status = "recoverable"]
                               ELSE jobs[j]]
  /\ UNCHANGED latest

RecordedAlone ==
  /\ UNCHANGED jobs
  /\ \E a \in Artifacts, manifest \in [job : {0}, plan : Plans, bytes : Bytes] :
       latest' = [latest EXCEPT ![a] = manifest]

LibraryStep == Kept \/ Added \/ Changed \/ Fulfilled \/ Reclaimed \/ RecordedAlone

(* A call that ends or starts a job.                                       *)
LEMMA CallChanges ==
  ASSUME NEW j \in JobIds, NEW from \in SUBSET Open,
         NEW to \in {"running", "failed", "canceled"}, UNCHANGED latest,
         jobs' \in {jobs, Moved(j, from, to)}
  PROVE  LibraryStep
<1>1. CASE jobs' = jobs
  BY <1>1 DEF LibraryStep, Kept
<1>2. CASE jobs' = Moved(j, from, to)
  BY <1>2 DEF LibraryStep, Changed
<1> QED
  BY <1>1, <1>2

(* A call that completes a job.                                            *)
LEMMA CallFulfills ==
  ASSUME NEW j \in JobIds, NEW bytes \in Bytes,
         \/ UNCHANGED <<jobs, latest>>
         \/ /\ jobs' = Moved(j, Completable, "completed")
            /\ latest' = IF jobs[j].status \in Completable THEN Recorded(j, bytes) ELSE latest
  PROVE  LibraryStep
<1>1. CASE UNCHANGED <<jobs, latest>>
  BY <1>1 DEF LibraryStep, Kept
<1>2. CASE /\ jobs' = Moved(j, Completable, "completed")
           /\ latest' = IF jobs[j].status \in Completable THEN Recorded(j, bytes) ELSE latest
  <2>1. CASE jobs[j].status \in Completable
    BY <1>2, <2>1 DEF LibraryStep, Fulfilled
  <2>2. CASE jobs[j].status \notin Completable
    BY <1>2, <2>2 DEF LibraryStep, Kept, Moved
  <2> QED
    BY <2>1, <2>2
<1> QED
  BY <1>1, <1>2

(* A call that adds a job.                                                 *)
LEMMA CallAdds ==
  ASSUME NEW kind \in {"watch", "download"}, NEW a \in Artifacts, NEW p \in Plans,
         UNCHANGED latest,
         \/ UNCHANGED jobs
         \/ jobs' = Append(jobs, [kind |-> kind, art |-> a, plan |-> p, status |-> "pending"])
  PROVE  LibraryStep
BY DEF LibraryStep, Kept, Added

(* The calls of prepareWatch.                                              *)
LEMMA PrepareCalls ==
  ASSUME WatcherIInv, NEW w \in Watchers, Prepare(w)
  PROVE  LibraryStep
<1> PICK q, j : q = run[w] /\ j = q.job
  OBVIOUS
<1>1. RunInv(q) /\ q \in Run
  BY RunningInv
<1>2. CASE OpenLibrary(w) \/ RecoverWhole(w) \/ RecoverPending(w) \/ Preflight(w)
  BY <1>2 DEF OpenLibrary, RecoverWhole, RecoverPending, Preflight, library, LibraryStep, Kept
<1>3. CASE Mark(w)
  <2>1. PICK marked : marked = [i \in JobIds |-> IF i \in Interrupted("watch")
                                                 THEN [jobs[i] EXCEPT !.status = "recoverable"]
                                                 ELSE jobs[i]]
    OBVIOUS
  <2>2. UNCHANGED latest /\ jobs' \in {jobs, marked}
    BY <1>3, <2>1 DEF Mark, MarkInterrupted
  <2> QED
    BY <1>3, <2>1, <2>2 DEF LibraryStep, Kept, Reclaimed
<1>4. CASE RecoverRecord(w)
  <2>1. j \in JobIds /\ q.seen \in Bytes
    BY <1>1, <1>4 DEF RecoverRecord, At, RunInv, HandInv, Run
  <2>2. \/ UNCHANGED <<jobs, latest>>
        \/ /\ jobs' = Moved(j, Completable, "completed")
           /\ latest' = IF jobs[j].status \in Completable THEN Recorded(j, q.seen) ELSE latest
    BY <1>4 DEF RecoverRecord, CompleteJob
  <2> QED
    BY <2>1, <2>2, CallFulfills
<1> QED
  BY <1>2, <1>3, <1>4 DEF Prepare

(* A cycle around its lectures only reads.                                 *)
LEMMA CycleCalls ==
  ASSUME NEW w \in Watchers, Cycle(w)
  PROVE  LibraryStep
<1>1. CASE LoadRetryable(w) \/ EmitStarted(w) \/ EmitRecovered(w) \/ EmitFailed(w)
  BY <1>1 DEF LoadRetryable, EmitStarted, EmitRecovered, EmitFailed, Emit, LibraryStep, Kept
<1>2. CASE ListLectures(w) \/ CycleEnds(w) \/ Wait(w) \/ StopWaiting(w)
  BY <1>2 DEF ListLectures, CycleEnds, Wait, StopWaiting, library, LibraryStep, Kept
<1>3. CASE \E a \in Artifacts : Skip(w, a) \/ Attempt(w, a) \/ InspectFails(w, a)
  BY <1>3 DEF Skip, Attempt, InspectFails, library, LibraryStep, Kept
<1> QED
  BY <1>1, <1>2, <1>3 DEF Cycle

(* The calls for a lecture.                                                *)
LEMMA DownloadCalls ==
  ASSUME WatcherIInv, NEW w \in Watchers, Download(w)
  PROVE  LibraryStep
<1> PICK q, j : q = run[w] /\ j = q.job
  OBVIOUS
<1>1. RunInv(q) /\ q \in Run
  BY RunningInv
<1>2. CASE Resolve(w) \/ Reuse(w) \/ DownloadFails(w) \/ BuildManifest(w) \/ Digest(w)
  BY <1>2 DEF Resolve, Reuse, DownloadFails, BuildManifest, Digest, library,
              LibraryStep, Kept
<1>3. CASE EmitLectureStarted(w) \/ EmitCompleted(w) \/ PublishNext(w)
  BY <1>3 DEF EmitLectureStarted, EmitCompleted, PublishNext, Emit, Publish,
              LibraryStep, Kept
<1>4. CASE Supersede(w)
  <2>1. PICK i : i = Newest(Candidates(w))
    OBVIOUS
  <2>2. Claiming(w)
    BY <1>4 DEF Supersede
  <2>3. i \in JobIds
    BY <2>1, <2>2, ClaimingJob
  <2>4. UNCHANGED latest /\ jobs' \in {jobs, Moved(i, Open, "failed")}
    BY <1>4, <2>1 DEF Supersede, FinishJob, Transition
  <2> QED
    BY <2>3, <2>4, CallChanges
<1>5. CASE Create(w)
  <2>1. q.art \in Artifacts /\ q.plan \in Plans
    BY <1>1, <1>5, WatcherAssumption DEF Create, Claimed, At, RunInv, HandInv, Run
  <2>2. /\ UNCHANGED latest
        /\ \/ UNCHANGED jobs
           \/ jobs' = Append(jobs, [kind |-> "watch", art |-> q.art, plan |-> q.plan,
                                    status |-> "pending"])
    BY <1>5 DEF Create, CreateJob
  <2>3. "watch" \in {"watch", "download"}
    OBVIOUS
  <2> QED
    BY <2>1, <2>2, <2>3, CallAdds
<1>6. CASE StartDownload(w)
  <2>1. j \in JobIds /\ Startable \in SUBSET Open
    BY <1>1, <1>6 DEF StartDownload, Claimed, At, RunInv, HandInv, Watched, WithStatus,
                      OfKind, Startable, Open
  <2>2. UNCHANGED latest /\ jobs' \in {jobs, Moved(j, Startable, "running")}
    BY <1>6 DEF StartDownload, StartJob, Transition
  <2> QED
    BY <2>1, <2>2, CallChanges
<1>7. CASE FailUnheard(w) \/ CancelAttempt(w) \/ FailAttempt(w)
  <2>1. q.at \in Producing
    BY <1>7 DEF FailUnheard, CancelAttempt, FailAttempt, At, Producing
  <2>2. j \in JobIds
    BY <2>1, ProducingJob
  <2>3. /\ UNCHANGED latest
        /\ \/ jobs' \in {jobs, Moved(j, Open, "failed")}
           \/ jobs' \in {jobs, Moved(j, Open, "canceled")}
    BY <1>7 DEF FailUnheard, CancelAttempt, FailAttempt, FinishJob, Transition
  <2> QED
    BY <2>2, <2>3, CallChanges
<1>8. CASE Record(w)
  <2>1. q.at \in Producing
    BY <1>8 DEF Record, At, Producing
  <2>2. j \in JobIds /\ q.seen \in Bytes
    BY <1>1, <2>1, ProducingJob DEF Run
  <2>3. \/ UNCHANGED <<jobs, latest>>
        \/ /\ jobs' = Moved(j, Completable, "completed")
           /\ latest' = IF jobs[j].status \in Completable THEN Recorded(j, q.seen) ELSE latest
    BY <1>8 DEF Record, CompleteJob
  <2> QED
    BY <2>2, <2>3, CallFulfills
<1> QED
  BY <1>2, <1>3, <1>4, <1>5, <1>6, <1>7, <1>8 DEF Download

(* The calls of the TUI.                                                   *)
LEMMA TuiCalls ==
  ASSUME WatcherIInv, Tui
  PROVE  LibraryStep
<1>1. CASE TuiPublish \/ TuiFails \/ TuiBuild \/ TuiDies
  BY <1>1 DEF TuiPublish, TuiFails, TuiBuild, TuiDies, Publish, library, LibraryStep, Kept
<1>2. ASSUME NEW a \in Artifacts, TuiCreate(a) PROVE LibraryStep
  <2>1. /\ UNCHANGED latest
        /\ \/ UNCHANGED jobs
           \/ jobs' = Append(jobs, [kind |-> "download", art |-> a, plan |-> TuiPlan,
                                    status |-> "pending"])
    BY <1>2 DEF TuiCreate, CreateJob
  <2>2. "download" \in {"watch", "download"} /\ TuiPlan \in Plans
    BY WatcherAssumption
  <2> QED
    BY <2>1, <2>2, CallAdds
<1>3. CASE TuiStart
  <2>1. tui.job \in JobIds /\ Startable \in SUBSET Open
    BY <1>3, TuiJob DEF TuiStart, Startable, Open
  <2>2. UNCHANGED latest /\ jobs' \in {jobs, Moved(tui.job, Startable, "running")}
    BY <1>3 DEF TuiStart, StartJob, Transition
  <2> QED
    BY <2>1, <2>2, CallChanges
<1>4. CASE TuiFinish
  <2>1. tui.job \in JobIds /\ tui.outcome \in {"failed", "canceled"}
    BY <1>4, TuiJob DEF TuiFinish, TuiRun
  <2>2. UNCHANGED latest /\ jobs' \in {jobs, Moved(tui.job, Open, tui.outcome)}
    BY <1>4 DEF TuiFinish, FinishJob, Transition
  <2> QED
    BY <2>1, <2>2, CallChanges
<1>5. CASE TuiRecord
  <2>1. tui.job \in JobIds /\ tui.seen \in Bytes
    BY <1>5, TuiJob DEF TuiRecord, TuiRun
  <2>2. \/ UNCHANGED <<jobs, latest>>
        \/ /\ jobs' = Moved(tui.job, Completable, "completed")
           /\ latest' = IF jobs[tui.job].status \in Completable
                        THEN Recorded(tui.job, tui.seen) ELSE latest
    BY <1>5 DEF TuiRecord, CompleteJob
  <2> QED
    BY <2>1, <2>2, CallFulfills
<1> QED
  BY <1>1, <1>2, <1>3, <1>4, <1>5 DEF Tui

(* What a one-shot download does to the library: at most it records a      *)
(* manifest that belongs to no job.                                        *)
LEMMA OneShotCalls ==
  ASSUME WatcherIInv, OneShot
  PROVE  LibraryStep
<1>1. oneShot \in OneShots
  BY DEF WatcherIInv, RecordsInv
<1>2. CASE OneShotRecord
  <2>1. PICK a, manifest : /\ a = oneShot.art
                           /\ manifest = [job |-> 0, plan |-> oneShot.plan, bytes |-> oneShot.seen]
    OBVIOUS
  <2>2. a \in Artifacts /\ manifest \in [job : {0}, plan : Plans, bytes : Bytes]
    BY <1>1, <2>1 DEF OneShots
  <2>3. UNCHANGED jobs /\ (UNCHANGED latest \/ latest' = [latest EXCEPT ![a] = manifest])
    BY <1>2, <2>1 DEF OneShotRecord
  <2> QED
    BY <2>2, <2>3 DEF LibraryStep, Kept, RecordedAlone
<1>3. CASE ~OneShotRecord
  BY <1>3 DEF OneShot, OneShotStart, OneShotPublish, OneShotFails, OneShotDigest, OneShotDies,
              LibraryStep, Kept
<1> QED
  BY <1>2, <1>3

(* Every step of a watcher, of the TUI or of the user is one of these.     *)
LEMMA NextCalls ==
  ASSUME WatcherIInv, [Next]_vars
  PROVE  LibraryStep
<1>1. ASSUME NEW w \in Watchers, NEW mode \in Modes, NEW plan \in WatchPlans,
             Start(w, mode, plan) \/ Interrupt(w) \/ Crash(w)
      PROVE  LibraryStep
  BY <1>1 DEF Start, Interrupt, Crash, library, LibraryStep, Kept
<1>2. ASSUME NEW w \in Watchers, Advance(w) PROVE LibraryStep
  <2>1. CASE Prepare(w)
    BY <2>1, PrepareCalls
  <2>2. CASE Cycle(w)
    BY <2>2, CycleCalls
  <2>3. CASE Download(w)
    BY <2>3, DownloadCalls
  <2>4. CASE CloseState(w) \/ EmitTerminal(w)
    BY <2>4 DEF CloseState, EmitTerminal, Emit, LibraryStep, Kept
  <2> QED
    BY <1>2, <2>1, <2>2, <2>3, <2>4 DEF Advance
<1>3. CASE Tui
  BY <1>3, TuiCalls
<1>4. CASE Remove
  BY <1>4 DEF Remove, RemoveFile, LibraryStep, Kept
<1>5. CASE UNCHANGED vars
  BY <1>5 DEF vars, library, LibraryStep, Kept
<1>6. CASE Next
  <2>1. ASSUME NEW w \in Watchers, Interrupt(w) \/ Crash(w) PROVE LibraryStep
    BY <2>1 DEF Interrupt, Crash, library, LibraryStep, Kept
  <2>2. CASE Elsewhere
    BY <2>2, OneShotCalls DEF Elsewhere
  <2> QED
    BY <1>1, <1>2, <1>3, <1>4, <1>6, <2>1, <2>2 DEF Next
<1> QED
  BY <1>5, <1>6

-------------------------------------------------------------------------------
(* Only startup recovery makes a running job recoverable, and what it      *)
(* claims is in nobody's hands.                                            *)
LEMMA OrphanClaimed ==
  ASSUME WatcherIInv, [Next]_vars, NEW j \in JobIds,
         jobs[j].status = "running", jobs'[j].status = "recoverable"
  PROVE  ~InHand(j)
<1>1. JobsInv /\ jobs \in Seq(Job) /\ jobs[j] \in Job
  BY JobCount DEF WatcherIInv, JobsInv
<1>2. LibraryStep
  BY NextCalls
<1>3. Reclaimed
  <2>1. ~Kept
    BY DEF Kept
  <2>2. ~Added
    <3> SUFFICES ASSUME NEW kind \in {"watch", "download"}, NEW a \in Artifacts, NEW p \in Plans,
                        jobs' = Append(jobs, [kind |-> kind, art |-> a, plan |-> p,
                                              status |-> "pending"])
                 PROVE  FALSE
      BY DEF Added
    <3>1. jobs'[j] = jobs[j]
      BY <1>1, JobAdded
    <3> QED
      BY <3>1
  <2>3. ~Changed
    <3> SUFFICES ASSUME NEW i \in JobIds, NEW from \in SUBSET Open,
                        NEW to \in {"running", "failed", "canceled"},
                        jobs' = Moved(i, from, to)
                 PROVE  FALSE
      BY DEF Changed
    <3>1. to \in Open \cup Terminal /\ from \subseteq Open
      BY DEF Open, Terminal
    <3>2. /\ \A k \in JobIds \ {i} : jobs'[k] = jobs[k]
          /\ jobs'[i].status = IF jobs[i].status \in from THEN to ELSE jobs[i].status
      BY <1>1, <3>1, JobMoved
    <3> QED
      BY <3>2
  <2>4. ~Fulfilled
    <3> SUFFICES ASSUME NEW i \in JobIds, jobs' = Moved(i, Completable, "completed")
                 PROVE  FALSE
      BY DEF Fulfilled
    <3>1. "completed" \in Open \cup Terminal /\ Completable \subseteq Open
      BY DEF Open, Terminal, Completable
    <3>2. /\ \A k \in JobIds \ {i} : jobs'[k] = jobs[k]
          /\ jobs'[i].status = IF jobs[i].status \in Completable THEN "completed"
                               ELSE jobs[i].status
      BY <1>1, <3>1, JobMoved
    <3> QED
      BY <3>2
  <2>5. ~RecordedAlone
    BY DEF RecordedAlone
  <2> QED
    BY <1>2, <2>1, <2>2, <2>3, <2>4, <2>5 DEF LibraryStep
<1>4. PICK w \in Watchers : Mark(w)
  BY <1>3 DEF Reclaimed
<1>5. j \in OfKind("watch")
  <2>1. j \in Interrupted("watch")
    BY <1>3 DEF Reclaimed
  <2> QED
    BY <2>1 DEF Interrupted, WithStatus
<1>6. ASSUME NEW v \in Watchers PROVE run[v].job = 0
  <2>1. run[w].at = "mark" /\ lock = w
    BY <1>4 DEF Mark, At, WatcherIInv, LockInv, Resting
  <2>2. v = w \/ run[v].at \in Resting
    BY <2>1 DEF WatcherIInv, LockInv
  <2>3. run[v].at \in Handless
    BY <2>1, <2>2 DEF Resting, Handless
  <2> QED
    BY <2>3 DEF WatcherIInv, RunInv, HandInv
<1>7. j # 0
  BY JobCount DEF WatcherIInv
<1>8. ~(tui.at # "off" /\ tui.job = j)
  BY <1>5, TuiJob
<1> QED
  BY <1>6, <1>7, <1>8 DEF InHand

(* Startup recovery claims only orphans: the lock keeps every other        *)
(* watcher idle, and the jobs of the TUI are of another kind.              *)
THEOREM OrphansClaimed == Spec => ClaimsOnlyOrphans
<1>1. WatcherIInv /\ [Next]_vars =>
        [\A j \in JobIds :
           /\ jobs[j].status = "running" /\ jobs'[j].status = "recoverable"
           => ~InHand(j)]_vars
  BY OrphanClaimed
<1>2. Spec => [][Next]_vars
  BY DEF Spec
<1> QED
  BY <1>1, <1>2, WatcherInvariance, PTL DEF ClaimsOnlyOrphans

-------------------------------------------------------------------------------
(* The library implements its ledger.                                      *)

(* An empty library is an empty ledger.                                    *)
LEMMA LedgerBegins == Init => Ledger!Init
<1> SUFFICES ASSUME Init PROVE Ledger!Init
  OBVIOUS
<1>1. JobIds = {}
  BY DEF Init, LibraryInit, JobIds
<1>2. LedgerState = [j \in LedgerIds |-> "none"]
  BY <1>1 DEF LedgerState
<1>3. LedgerSubject \in [LedgerIds -> Artifacts]
  <2>1. SomeOf(Artifacts) \in Artifacts
    BY LibraryAssumption DEF SomeOf
  <2> QED
    BY <1>1, <2>1 DEF LedgerSubject
<1>4. LedgerLatest = [a \in Artifacts |-> 0]
  BY DEF Init, LibraryInit, LedgerLatest
<1> QED
  BY <1>2, <1>3, <1>4 DEF Ledger!Init

(* What a reader of the ledger sees of each job.                           *)
Seen(j) == IF j \notin JobIds THEN "none"
           ELSE IF jobs[j].status \in Open THEN "active" ELSE jobs[j].status

(* The ledger, row by row.                                                 *)
LEMMA LedgerRows ==
  /\ LedgerState = [j \in LedgerIds |-> Seen(j)]
  /\ \A j \in LedgerIds : LedgerState[j] = Seen(j)
  /\ \A j \in LedgerIds : j \in JobIds => LedgerSubject[j] = jobs[j].art
BY DEF LedgerState, LedgerSubject, Seen

(* Jobs that keep what a reader sees of them.                              *)
LEMMA LedgerStays ==
  ASSUME JobIds' = JobIds, UNCHANGED latest,
         \A j \in JobIds : jobs'[j].art = jobs[j].art /\ Seen(j)' = Seen(j)
  PROVE  UNCHANGED <<LedgerState, LedgerSubject, LedgerLatest>>
<1>1. UNCHANGED LedgerSubject
  BY DEF LedgerSubject
<1>2. UNCHANGED LedgerLatest
  BY DEF LedgerLatest
<1>3. \A j : Seen(j)' = Seen(j)
  BY DEF Seen
<1>4. UNCHANGED LedgerState
  BY <1>3 DEF LedgerState, Seen
<1> QED
  BY <1>1, <1>2, <1>4

(* One job changes what a reader sees of it.                               *)
LEMMA LedgerMoves ==
  ASSUME NEW j \in JobIds, NEW to, JobIds \subseteq LedgerIds, JobIds' = JobIds,
         \A i \in JobIds : jobs'[i].art = jobs[i].art,
         \A i \in JobIds \ {j} : jobs'[i] = jobs[i],
         Seen(j)' = to
  PROVE  /\ LedgerState' = [LedgerState EXCEPT ![j] = to]
         /\ UNCHANGED LedgerSubject
<1>1. UNCHANGED LedgerSubject
  BY DEF LedgerSubject
<1>2. \A i \in LedgerIds : Seen(i)' = IF i = j THEN to ELSE Seen(i)
  BY DEF Seen
<1>3. LedgerState' = [i \in LedgerIds |-> Seen(i)']
  BY DEF LedgerState, Seen
<1>4. LedgerState = [i \in LedgerIds |-> Seen(i)]
  BY LedgerRows
<1> HIDE DEF LedgerIds
<1>5. LedgerState' = [LedgerState EXCEPT ![j] = to]
  BY <1>2, <1>3, <1>4
<1> QED
  BY <1>1, <1>5

(* A job is added.                                                         *)
LEMMA LedgerAdds ==
  ASSUME JobsInv, JobsInv', Added
  PROVE  Ledger!Next
<1>1. PICK kind \in {"watch", "download"}, a \in Artifacts, p \in Plans :
        /\ jobs' = Append(jobs, [kind |-> kind, art |-> a, plan |-> p, status |-> "pending"])
        /\ UNCHANGED latest
  BY DEF Added
<1>2. PICK new : new = Len(jobs) + 1
  OBVIOUS
<1>3. /\ new \notin JobIds /\ JobIds' = JobIds \cup {new}
      /\ \A j \in JobIds : jobs'[j] = jobs[j]
      /\ jobs'[new] = [kind |-> kind, art |-> a, plan |-> p, status |-> "pending"]
  BY <1>1, <1>2, JobAdded
<1>4. new \in LedgerIds
  <2>1. (JobIds \subseteq Numbered \ {0})'
    BY JobCount, PTL
  <2> QED
    BY <1>3, <2>1 DEF LedgerIds, Numbered
<1>5. jobs'[new].status \in Open /\ jobs'[new].art = a
  BY <1>3 DEF Open
<1>6. LedgerState[new] = "none"
  BY <1>3, <1>4, LedgerRows DEF Seen
<1>7. LedgerState' = [LedgerState EXCEPT ![new] = "active"]
  <2>1. \A i \in LedgerIds : Seen(i)' = IF i = new THEN "active" ELSE Seen(i)
    BY <1>3, <1>5 DEF Seen
  <2>2. LedgerState' = [i \in LedgerIds |-> Seen(i)']
    BY DEF LedgerState, Seen
  <2>3. LedgerState = [i \in LedgerIds |-> Seen(i)]
    BY LedgerRows
  <2> QED
    BY <1>4, <2>1, <2>2, <2>3
<1>8. LedgerSubject' = [LedgerSubject EXCEPT ![new] = a]
  BY <1>3, <1>4, <1>5 DEF LedgerSubject
<1>9. UNCHANGED LedgerLatest
  BY <1>1 DEF LedgerLatest
<1>10. Ledger!Add(new)
  BY <1>6, <1>7, <1>8, <1>9 DEF Ledger!Add
<1> QED
  BY <1>4, <1>10 DEF Ledger!Next

(* A job is started or given up.                                           *)
LEMMA LedgerChanges ==
  ASSUME JobsInv, Changed
  PROVE  Ledger!Next \/ UNCHANGED Ledger!ledger
<1>1. PICK j \in JobIds, from \in SUBSET Open, to \in {"running", "failed", "canceled"} :
        jobs' = Moved(j, from, to) /\ UNCHANGED latest
  BY DEF Changed
<1>2. to \in Open \cup Terminal /\ from \subseteq Open
  BY DEF Open, Terminal
<1>3. /\ Reclassified
      /\ \A i \in JobIds \ {j} : jobs'[i] = jobs[i]
      /\ jobs'[j].status = IF jobs[j].status \in from THEN to ELSE jobs[j].status
  BY <1>1, <1>2, JobMoved
<1>4. JobIds' = JobIds /\ \A i \in JobIds : jobs'[i].art = jobs[i].art
  BY <1>3 DEF Reclassified
<1>5. \A i \in JobIds \ {j} : Seen(i)' = Seen(i)
  BY <1>3, <1>4 DEF Seen
<1>6. CASE jobs[j].status \notin from \/ to = "running"
  <2>1. Seen(j)' = Seen(j)
    BY <1>2, <1>3, <1>4, <1>6 DEF Seen, Open
  <2> QED
    BY <1>1, <1>4, <1>5, <2>1, LedgerStays DEF Ledger!ledger
<1>7. CASE jobs[j].status \in from /\ to \in {"failed", "canceled"}
  <2>1. j \in LedgerIds /\ JobIds \subseteq LedgerIds
    BY JobCount DEF LedgerIds
  <2>2. LedgerState[j] = "active"
    BY <1>2, <1>7, <2>1, LedgerRows DEF Seen
  <2>3. Seen(j)' = to
    BY <1>3, <1>4, <1>7 DEF Seen, Open
  <2>4. LedgerState' = [LedgerState EXCEPT ![j] = to] /\ UNCHANGED LedgerSubject
    BY <1>3, <1>4, <2>1, <2>3, LedgerMoves
  <2>5. UNCHANGED LedgerLatest
    BY <1>1 DEF LedgerLatest
  <2>6. Ledger!GiveUp(j)
    BY <1>7, <2>2, <2>4, <2>5 DEF Ledger!GiveUp
  <2> QED
    BY <2>1, <2>6 DEF Ledger!Next
<1> QED
  BY <1>6, <1>7

(* A job is completed.                                                     *)
LEMMA LedgerFulfills ==
  ASSUME JobsInv, RecordsInv, Fulfilled
  PROVE  Ledger!Next
<1>1. PICK j \in JobIds, bytes \in Bytes :
        /\ jobs[j].status \in Completable
        /\ jobs' = Moved(j, Completable, "completed")
        /\ latest' = Recorded(j, bytes)
  BY DEF Fulfilled
<1>2. "completed" \in Open \cup Terminal /\ Completable \subseteq Open
  BY DEF Open, Terminal, Completable
<1>3. /\ Reclassified
      /\ \A i \in JobIds \ {j} : jobs'[i] = jobs[i]
      /\ jobs'[j].status = "completed"
  BY <1>1, <1>2, JobMoved
<1>4. JobIds' = JobIds /\ \A i \in JobIds : jobs'[i].art = jobs[i].art
  BY <1>3 DEF Reclassified
<1>5. j \in LedgerIds /\ JobIds \subseteq LedgerIds /\ jobs[j].art \in Artifacts
  BY JobCount DEF LedgerIds, Job
<1>6. LedgerState[j] = "active" /\ LedgerSubject[j] = jobs[j].art
  BY <1>1, <1>2, <1>5, LedgerRows DEF Seen
<1>7. Seen(j)' = "completed"
  BY <1>3, <1>4 DEF Seen, Open
<1>8. LedgerState' = [LedgerState EXCEPT ![j] = "completed"] /\ UNCHANGED LedgerSubject
  BY <1>3, <1>4, <1>5, <1>7, LedgerMoves
<1>9. LedgerLatest' = [LedgerLatest EXCEPT ![jobs[j].art] = j]
  <2>1. \A a \in Artifacts : latest'[a].job = IF a = jobs[j].art THEN j ELSE latest[a].job
    BY <1>1, <1>5 DEF Recorded, RecordsInv
  <2> QED
    BY <1>5, <2>1 DEF LedgerLatest
<1>10. Ledger!Complete(j)
  BY <1>6, <1>8, <1>9 DEF Ledger!Complete
<1> QED
  BY <1>5, <1>10 DEF Ledger!Next

(* Interrupted jobs are marked.                                            *)
LEMMA LedgerReclaims ==
  ASSUME JobsInv, Reclaimed
  PROVE  UNCHANGED Ledger!ledger
<1>1. JobIds = 1..Len(jobs) /\ Len(jobs) \in Nat /\ \A j \in JobIds : jobs[j] \in Job
  BY JobCount
<1>2. jobs' = [j \in JobIds |-> IF j \in Interrupted("watch")
                                THEN [jobs[j] EXCEPT !.status = "recoverable"]
                                ELSE jobs[j]]
  BY DEF Reclaimed
<1>3. JobIds' = JobIds
  BY <1>2 DEF JobIds
<1>4. ASSUME NEW j \in JobIds
      PROVE  jobs'[j].art = jobs[j].art /\ Seen(j)' = Seen(j)
  <2>1. jobs[j] \in Job
    BY <1>1
  <2>2. CASE j \in Interrupted("watch")
    <3>1. jobs'[j] = [jobs[j] EXCEPT !.status = "recoverable"] /\ jobs[j].status = "running"
      BY <1>2, <2>2 DEF Interrupted, WithStatus
    <3>2. jobs'[j].art = jobs[j].art /\ jobs'[j].status = "recoverable"
      BY <2>1, <3>1 DEF Job
    <3> QED
      BY <1>3, <3>1, <3>2 DEF Seen, Open
  <2>3. CASE j \notin Interrupted("watch")
    BY <1>2, <1>3, <2>3 DEF Seen
  <2> QED
    BY <2>2, <2>3
<1>5. UNCHANGED latest
  BY DEF Reclaimed
<1> QED
  BY <1>3, <1>4, <1>5, LedgerStays DEF Ledger!ledger

(* A manifest without a job is recorded.                                   *)
LEMMA LedgerRecords ==
  ASSUME RecordsInv, RecordedAlone
  PROVE  Ledger!Next
<1>1. PICK a \in Artifacts, manifest \in [job : {0}, plan : Plans, bytes : Bytes] :
        latest' = [latest EXCEPT ![a] = manifest]
  BY DEF RecordedAlone
<1>2. UNCHANGED <<LedgerState, LedgerSubject>>
  BY DEF RecordedAlone, LedgerState, LedgerSubject, JobIds
<1>3. LedgerLatest' = [LedgerLatest EXCEPT ![a] = 0]
  <2>1. \A b \in Artifacts : latest'[b].job = IF b = a THEN 0 ELSE latest[b].job
    BY <1>1 DEF RecordsInv
  <2> QED
    BY <2>1 DEF LedgerLatest
<1>4. Ledger!Record(a)
  BY <1>2, <1>3 DEF Ledger!Record
<1> QED
  BY <1>4 DEF Ledger!Next

(* Whatever the watchers, the TUI, one-shot downloads and the user do, and *)
(* wherever they are stopped, readers of the library see a ledger: a job   *)
(* is added once and ends once, and a job's manifest becomes the latest    *)
(* one of its lecture only together with the job's completion.             *)
THEOREM WatcherImplementsLedger == Spec => ImplementsLedger
<1>1. WatcherIInv /\ WatcherIInv' /\ [Next]_vars => [Ledger!Next]_(Ledger!ledger)
  <2> SUFFICES ASSUME WatcherIInv, WatcherIInv', [Next]_vars
               PROVE  Ledger!Next \/ UNCHANGED Ledger!ledger
    OBVIOUS
  <2>1. JobsInv /\ JobsInv' /\ RecordsInv
    BY DEF WatcherIInv
  <2>2. CASE Kept
    BY <2>2 DEF Kept, Ledger!ledger, LedgerState, LedgerSubject, LedgerLatest, JobIds
  <2>3. CASE Added
    BY <2>1, <2>3, LedgerAdds
  <2>4. CASE Changed
    BY <2>1, <2>4, LedgerChanges
  <2>5. CASE Fulfilled
    BY <2>1, <2>5, LedgerFulfills
  <2>6. CASE Reclaimed
    BY <2>1, <2>6, LedgerReclaims
  <2>7. CASE RecordedAlone
    BY <2>1, <2>7, LedgerRecords
  <2> QED
    BY <2>2, <2>3, <2>4, <2>5, <2>6, <2>7, NextCalls DEF LibraryStep
<1> QED
  BY <1>1, LedgerBegins, WatcherInvariance, PTL DEF Spec, ImplementsLedger, Ledger!Spec
===============================================================================
