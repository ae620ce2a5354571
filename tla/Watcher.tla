------------------------------- MODULE Watcher -------------------------------
(***************************************************************************)
(* impartus watch (internal/watch, internal/cli/cli_watch.go): watcher     *)
(* processes that take turns under one advisory lock, recover what an      *)
(* interrupted one left in the library, then poll their lectures and       *)
(* download what is not committed; one TUI that downloads through the same *)
(* library (internal/app/frontend.go); and one-shot downloads, which keep  *)
(* no job.  Processes may die anywhere, library calls and event writes may *)
(* fail, users interrupt watchers and remove files.                        *)
(*                                                                         *)
(* One target, one event stream per run (--events).  Left out: --dry-run,  *)
(* which writes nothing, what only makes a run fail before it takes the    *)
(* lock, and lectures whose playlist has another identity.                 *)
(***************************************************************************)
EXTENDS Library

CONSTANTS
  Watchers,         \* processes that run impartus watch, again and again
  Modes,            \* subset of {"poll", "once", "force"}
  WatchPlans,       \* the plans watcher configurations lead to
  TuiPlan,
  MaxRetries,       \* config watch.max_retries
  Budget,           \* config watch.max_lectures_per_cycle
  MaxWatchJobs,     \* bounds: the jobs that are ever created
  MaxDownloads,
  None              \* nobody, no lecture

ASSUME WatcherAssumption ==
  /\ Modes \subseteq {"poll", "once", "force"}
  /\ WatchPlans \subseteq Plans /\ WatchPlans # {}
  /\ TuiPlan \in Plans \ WatchPlans
  /\ MaxRetries \in Nat \ {0} /\ Budget \in Nat \ {0}
  /\ MaxWatchJobs \in Nat /\ MaxDownloads \in Nat
  /\ None \notin Watchers \cup Artifacts

VARIABLES
  lock,             \* the holder of watch.lock
  run,              \* each watcher process
  tui,              \* the TUI's download
  announced         \* history: jobs whose lecture.completed was written

vars == <<library, lock, run, tui, announced>>

Places == {"off", "open", "mark", "recover", "rerecord", "abort", "load",
  "greet", "cycle", "next", "resolve", "claim", "hello", "unheard", "download",
  "giveup", "reject", "build", "digest", "record", "tell", "report", "wait", "close",
  "terminal"}

Idle == [at |-> "off", mode |-> "once", plan |-> SomeOf(WatchPlans),
         told |-> FALSE,         \* SIGINT or SIGTERM: ctx is done
         cause |-> "none",       \* of the cycle, then of the run
         fatal |-> FALSE,        \* ErrDurableState or ErrEventDelivery
         recovering |-> {}, owed |-> {}, \* RecoveryResult: to do, to announce
         retryable |-> {}, rest |-> {}, left |-> Budget,
         art |-> None, job |-> 0, attempt |-> 1,
         published |-> 0, seen |-> NoFiles]

NoDownload == [at |-> "off", job |-> 0, published |-> 0, seen |-> NoFiles,
               outcome |-> "failed"]

Init ==
  /\ LibraryInit
  /\ lock = None
  /\ run = [w \in Watchers |-> Idle]
  /\ tui = NoDownload
  /\ announced = {}

-------------------------------------------------------------------------------
(* Moves of a run.                                                         *)

At(w, place) == run[w].at = place
Goto(w, r) == run' = [run EXCEPT ![w] = r]
Step(w, place) == Goto(w, [run[w] EXCEPT !.at = place])

(* prepareWatch gives up; Run is over: what they worked on is dropped.     *)
Return(w, place, cause, fatal) ==
  Goto(w, [Idle EXCEPT !.at = place, !.mode = run[w].mode, !.told = run[w].told,
                       !.cause = cause, !.fatal = fatal, !.owed = run[w].owed])
Abort(w, cause, fatal) == Return(w, "abort", cause, fatal)
Leave(w, cause, fatal) == Return(w, "close", cause, fatal)

(* A cycle is over: only a poller goes on, whatever the cycle met.         *)
EndCycle(w, cause) ==
  IF run[w].mode = "poll"
  THEN Goto(w, [run[w] EXCEPT !.at = "wait", !.cause = "none", !.job = 0,
                              !.rest = {}, !.left = Budget, !.art = Idle.art])
  ELSE Leave(w, cause, FALSE)

(* lectureFailure: lecture.failed is written before the cycle goes on.     *)
Report(w, fatal) == Goto(w, [run[w] EXCEPT !.at = "report", !.fatal = fatal])

NextLecture(r) == [r EXCEPT !.at = "next", !.art = Idle.art, !.job = 0,
                            !.attempt = 1, !.published = 0, !.seen = NoFiles]

(* One write to the event stream; a failure ends the run.                  *)
Emit(w, written, lost) ==
  /\ UNCHANGED <<jobs, latest, media, lock, tui>>
  /\ \/ UNCHANGED troubles /\ written
     \/ Trouble /\ UNCHANGED announced /\ lost

Aside == <<lock, tui, announced>>     \* what calls of the library leave alone

-------------------------------------------------------------------------------
(* A process starts, is interrupted, dies.                                 *)

Start(w, mode, plan) ==
  /\ At(w, "off")
  /\ IF lock = None
     THEN /\ lock' = w
          /\ Goto(w, [Idle EXCEPT !.at = "open", !.mode = mode, !.plan = plan])
     ELSE /\ UNCHANGED lock                            \* ErrWatcherRunning
          /\ Goto(w, [Idle EXCEPT !.at = "terminal", !.cause = "error"])
  /\ UNCHANGED <<library, tui, announced>>

Interrupt(w) ==
  /\ ~At(w, "off") /\ ~run[w].told
  /\ Goto(w, [run[w] EXCEPT !.told = TRUE])
  /\ UNCHANGED <<library, lock, tui, announced>>

Crash(w) ==
  /\ ~At(w, "off")
  /\ Trouble
  /\ Goto(w, Idle)
  /\ lock' = IF lock = w THEN None ELSE lock
  /\ UNCHANGED <<jobs, latest, media, tui, announced>>

-------------------------------------------------------------------------------
(* prepareWatch: library.Open, RecoverInterruptedJobs, ffmpeg and login.   *)

OpenLibrary(w) ==
  /\ At(w, "open")
  /\ UNCHANGED <<jobs, latest, media, Aside>>
  /\ \/ UNCHANGED troubles /\ Step(w, "mark")
     \/ UNCHANGED troubles /\ run[w].told /\ Abort(w, "canceled", FALSE)
     \/ Trouble /\ Abort(w, "error", FALSE)

Recoverables == WithStatus("watch", {"running", "recoverable"})

(* Wrong variant: recovery passes over jobs of another output plan. *)
MarkPlanned(w) ==
  /\ At(w, "mark")
  /\ MarkInterrupted("watch",
       Goto(w, [run[w] EXCEPT !.at = "recover", !.recovering =
                  {j \in Recoverables : jobs[j].plan = run[w].plan}]),
       Abort(w, "error", TRUE))
  /\ UNCHANGED Aside

Mark(w) ==
  /\ At(w, "mark")
  /\ MarkInterrupted("watch",
       Goto(w, [run[w] EXCEPT !.at = "recover", !.recovering = Recoverables]),
       Abort(w, "error", TRUE))
  /\ UNCHANGED Aside

First(S) == CHOOSE j \in S : \A k \in S : j <= k
Newest(S) == CHOOSE j \in S : \A k \in S : j >= k

Recovering(w) == At(w, "recover") /\ run[w].recovering # {}
Done(r, j) == [r EXCEPT !.at = "recover", !.recovering = @ \ {j}, !.job = 0,
                        !.seen = NoFiles]

RecoverWhole(w) ==
  /\ Recovering(w)
  /\ LET j == First(run[w].recovering)
     IN /\ Whole(Media(j))
        /\ Goto(w, [run[w] EXCEPT !.at = "rerecord", !.job = j, !.seen = Media(j)])
  /\ UNCHANGED <<library, Aside>>

(* The outputs are not all there: the job keeps waiting for a retry, with  *)
(* a note in its row.                                                      *)
RecoverPending(w) ==
  /\ Recovering(w)
  /\ LET j == First(run[w].recovering)
     IN /\ ~Whole(Media(j))
        /\ \/ UNCHANGED troubles /\ Goto(w, Done(run[w], j))
           \/ Trouble /\ Abort(w, "error", TRUE)
  /\ UNCHANGED <<jobs, latest, media, Aside>>

RecoverRecord(w) ==
  /\ At(w, "rerecord")
  /\ LET j == run[w].job
         skipped == Done(run[w], j)
     IN CompleteJob(j, run[w].seen,
          Goto(w, [skipped EXCEPT !.owed = @ \cup {j}]),
          Goto(w, skipped),
          Abort(w, "error", TRUE))
  /\ UNCHANGED Aside

Preflight(w) ==
  /\ At(w, "recover") /\ run[w].recovering = {}
  /\ \/ Step(w, "load")
     \/ Abort(w, "error", FALSE)
     \/ run[w].told /\ Abort(w, "canceled", FALSE)
  /\ UNCHANGED <<library, Aside>>

-------------------------------------------------------------------------------
(* Run: what it finds and announces before the first cycle.                *)

(* Wrong variant: only interrupted jobs are found again, not pending ones. *)
LoadInterrupted(w) ==
  /\ At(w, "load")
  /\ UNCHANGED <<library, Aside>>
  /\ Goto(w, [run[w] EXCEPT !.at = "greet",
                !.retryable = WithStatus("watch", {"recoverable"})])

LoadRetryable(w) ==
  /\ At(w, "load")
  /\ UNCHANGED <<jobs, latest, media, Aside>>
  /\ \/ /\ UNCHANGED troubles
        /\ Goto(w, [run[w] EXCEPT !.at = "greet",
                      !.retryable = WithStatus("watch", Startable)])
     \/ UNCHANGED troubles /\ run[w].told /\ Leave(w, "canceled", FALSE)
     \/ Trouble /\ Leave(w, "error", TRUE)

EmitStarted(w) ==
  /\ At(w, "greet")
  /\ Emit(w, Step(w, "cycle") /\ UNCHANGED announced, Leave(w, "error", TRUE))

EmitRecovered(w) ==
  /\ At(w, "cycle") /\ run[w].owed # {}
  /\ LET j == First(run[w].owed)
     IN Emit(w, /\ Goto(w, [run[w] EXCEPT !.owed = @ \ {j}])
                /\ announced' = announced \cup {j},
             Leave(w, "error", TRUE))

-------------------------------------------------------------------------------
(* RunCycle.                                                               *)

ListLectures(w) ==
  /\ At(w, "cycle") /\ run[w].owed = {}
  /\ \/ /\ ~run[w].told
        /\ \E listed \in SUBSET Artifacts :
             Goto(w, [run[w] EXCEPT !.at = "next", !.rest = listed])
     \/ ~run[w].told /\ EndCycle(w, "error")
     \/ run[w].told /\ EndCycle(w, "canceled")
  /\ UNCHANGED <<library, Aside>>

(* The budget of the cycle, and of the model.                              *)
Room(w, a) ==
  \/ Cardinality(OfKind("watch")) < MaxWatchJobs
  \/ \E j \in run[w].retryable : jobs[j].art = a /\ jobs[j].plan = run[w].plan
Skips(w, a) ==
  \/ run[w].mode # "force" /\ Committed(a)
  \/ run[w].left = 0 \/ ~Room(w, a)

Skip(w, a) ==
  /\ At(w, "next") /\ ~run[w].told
  /\ a \in run[w].rest
  /\ Skips(w, a)
  /\ Goto(w, [run[w] EXCEPT !.rest = @ \ {a}])
  /\ UNCHANGED <<library, Aside>>

Attempt(w, a) ==
  /\ At(w, "next") /\ ~run[w].told
  /\ a \in run[w].rest
  /\ ~Skips(w, a)
  /\ Goto(w, [run[w] EXCEPT !.at = "resolve", !.rest = @ \ {a}, !.art = a,
                            !.left = @ - 1])
  /\ UNCHANGED <<library, Aside>>

(* committed() cannot read the library.                                    *)
InspectFails(w, a) ==
  /\ At(w, "next") /\ ~run[w].told /\ run[w].mode # "force"
  /\ a \in run[w].rest
  /\ Trouble
  /\ Goto(w, [run[w] EXCEPT !.at = "report", !.fatal = TRUE, !.art = a])
  /\ UNCHANGED <<jobs, latest, media, Aside>>

CycleEnds(w) ==
  /\ At(w, "next")
  /\ \/ run[w].rest = {} /\ EndCycle(w, run[w].cause)
     \/ run[w].told /\ run[w].rest # {} /\ EndCycle(w, "canceled")
  /\ UNCHANGED <<library, Aside>>

Wait(w) ==
  /\ At(w, "wait")
  /\ Step(w, "cycle")
  /\ UNCHANGED <<library, Aside>>

(* Wrong variant: the wait ends for a canceled cycle, not for the signal. *)
StopWaitingAfterCancel(w) ==
  /\ At(w, "wait") /\ run[w].cause = "canceled"
  /\ Leave(w, "canceled", FALSE)
  /\ UNCHANGED <<library, Aside>>

StopWaiting(w) ==
  /\ At(w, "wait") /\ run[w].told
  /\ Leave(w, "canceled", FALSE)
  /\ UNCHANGED <<library, Aside>>

EmitFailed(w) ==
  /\ At(w, "report")
  /\ Emit(w, /\ UNCHANGED announced
             /\ IF run[w].fatal THEN Leave(w, "error", TRUE)
                ELSE IF run[w].told THEN EndCycle(w, "canceled")
                ELSE Goto(w, [NextLecture(run[w]) EXCEPT !.cause = "error"]),
          Leave(w, "error", TRUE))

-------------------------------------------------------------------------------
(* resolveLecture and downloadLecture.                                     *)

Resolve(w) ==
  /\ At(w, "resolve")
  /\ \/ Step(w, "claim")
     \/ Report(w, FALSE)
     \/ run[w].told /\ EndCycle(w, "canceled")
  /\ UNCHANGED <<library, Aside>>

Candidates(w) == {j \in run[w].retryable : jobs[j].art = run[w].art}
Claiming(w) == At(w, "claim") /\ Candidates(w) # {}
Claimed(w) == At(w, "claim") /\ Candidates(w) = {}
Fits(w, j) == run[w].job = 0 /\ jobs[j].plan = run[w].plan

Reuse(w) ==
  /\ Claiming(w)
  /\ LET j == Newest(Candidates(w))
     IN /\ Fits(w, j)
        /\ Goto(w, [run[w] EXCEPT !.job = j, !.retryable = @ \ {j}])
  /\ UNCHANGED <<library, Aside>>

Supersede(w) ==
  /\ Claiming(w)
  /\ LET j == Newest(Candidates(w))
     IN /\ ~Fits(w, j)
        /\ FinishJob(j, "failed", Goto(w, [run[w] EXCEPT !.retryable = @ \ {j}]),
                     Report(w, TRUE))
  /\ UNCHANGED Aside

Create(w) ==
  /\ Claimed(w) /\ run[w].job = 0
  /\ CreateJob("watch", run[w].art, run[w].plan,
       Goto(w, [run[w] EXCEPT !.job = Len(jobs) + 1]), Report(w, TRUE))
  /\ UNCHANGED Aside

StartDownload(w) ==
  /\ Claimed(w) /\ run[w].job # 0
  /\ StartJob(run[w].job, Step(w, "hello"), Report(w, TRUE))
  /\ UNCHANGED Aside

EmitLectureStarted(w) ==
  /\ At(w, "hello")
  /\ Emit(w, Step(w, "download") /\ UNCHANGED announced, Step(w, "unheard"))

FailUnheard(w) ==
  /\ At(w, "unheard")
  /\ FinishJob(run[w].job, "failed", Leave(w, "error", TRUE), Leave(w, "error", TRUE))
  /\ UNCHANGED Aside

(* DownloadAndJoin publishes its outputs one by one and returns no error   *)
(* after the last; a told or failing one stops before it.                  *)
PublishNext(w) ==
  /\ At(w, "download")
  /\ LET o == run[w].published + 1
     IN /\ Publish(run[w].job, o)
        /\ Goto(w, IF o < Outputs THEN [run[w] EXCEPT !.published = o]
                   ELSE [run[w] EXCEPT !.at = "build", !.published = 0,
                                       !.attempt = 1])
  /\ UNCHANGED Aside

(* Wrong variant: one attempt too many. *)
DownloadFailsOnceMore(w) ==
  /\ At(w, "download")
  /\ Goto(w, IF run[w].told \/ run[w].attempt > MaxRetries
             THEN [run[w] EXCEPT !.at = "giveup", !.published = 0, !.attempt = 1]
             ELSE [run[w] EXCEPT !.published = 0, !.attempt = @ + 1])
  /\ UNCHANGED <<library, Aside>>

DownloadFails(w) ==
  /\ At(w, "download")
  /\ Goto(w, IF run[w].told \/ run[w].attempt = MaxRetries
             THEN [run[w] EXCEPT !.at = "giveup", !.published = 0, !.attempt = 1]
             ELSE [run[w] EXCEPT !.published = 0, !.attempt = @ + 1])
  /\ UNCHANGED <<library, Aside>>

(* Wrong variant: a failed CancelJob does not matter, the run is canceled. *)
CancelAttemptAnyway(w) ==
  /\ At(w, "giveup") /\ run[w].told
  /\ FinishJob(run[w].job, "canceled", EndCycle(w, "canceled"), EndCycle(w, "canceled"))
  /\ UNCHANGED Aside

CancelAttempt(w) ==
  /\ At(w, "giveup") /\ run[w].told
  /\ FinishJob(run[w].job, "canceled", EndCycle(w, "canceled"), Leave(w, "error", TRUE))
  /\ UNCHANGED Aside

FailAttempt(w) ==
  /\ At(w, "reject") \/ (At(w, "giveup") /\ ~run[w].told)
  /\ FinishJob(run[w].job, "failed", Report(w, FALSE), Report(w, TRUE))
  /\ UNCHANGED Aside

(* manifestFromExpected, and later the digests of CompleteJob.             *)
BuildManifest(w) ==
  /\ At(w, "build")
  /\ Step(w, IF Whole(Media(run[w].job)) THEN "digest" ELSE "reject")
  /\ UNCHANGED <<library, Aside>>

(* Wrong variant: the lecture counts as complete whether or not it was recorded. *)
RecordBestEffort(w) ==
  /\ At(w, "record")
  /\ CompleteJob(run[w].job, run[w].seen, Step(w, "tell"), Step(w, "tell"),
                 Step(w, "tell"))
  /\ UNCHANGED Aside

Digest(w) ==
  /\ At(w, "digest")
  /\ LET outputs == Media(run[w].job)
     IN IF Whole(outputs)
        THEN Goto(w, [run[w] EXCEPT !.at = "record", !.seen = outputs])
        ELSE Report(w, TRUE)
  /\ UNCHANGED <<library, Aside>>

Record(w) ==
  /\ At(w, "record")
  /\ CompleteJob(run[w].job, run[w].seen, Step(w, "tell"), Report(w, TRUE),
                 Report(w, TRUE))
  /\ UNCHANGED Aside

(* lecture.progress, then lecture.completed.                               *)
EmitCompleted(w) ==
  /\ At(w, "tell")
  /\ Emit(w, /\ Goto(w, NextLecture(run[w]))
             /\ announced' = announced \cup {run[w].job},
          Leave(w, "error", TRUE))

-------------------------------------------------------------------------------
(* The end of a run: the library and the lock are closed, then one         *)
(* terminal event is written.                                              *)

CloseState(w) ==
  /\ run[w].at \in {"abort", "close"}
  /\ \/ UNCHANGED troubles /\ Step(w, "terminal")
     \/ Trouble /\ Goto(w, [run[w] EXCEPT !.at = "terminal", !.cause = "error",
                                          !.fatal = TRUE])
  /\ lock' = None
  /\ UNCHANGED <<jobs, latest, media, tui, announced>>

Verdict(r) ==
  CASE r.cause = "none" -> "completed"
    [] r.cause = "canceled" /\ ~r.fatal -> "canceled"
    [] OTHER -> "failed"

EmitTerminal(w) ==
  /\ At(w, "terminal")
  /\ Emit(w, Goto(w, Idle) /\ UNCHANGED announced, Goto(w, Idle))

-------------------------------------------------------------------------------
(* The TUI downloads a lecture of its own.                                 *)

TuiEnds(outcome) == tui' = [tui EXCEPT !.at = "finish", !.outcome = outcome]
Beside == <<lock, run, announced>>

TuiCreate(a) ==
  /\ tui.at = "off"
  /\ Cardinality(OfKind("download")) < MaxDownloads
  /\ CreateJob("download", a, TuiPlan,
       tui' = [NoDownload EXCEPT !.at = "start", !.job = Len(jobs) + 1],
       UNCHANGED tui)
  /\ UNCHANGED Beside

TuiStart ==
  /\ tui.at = "start"
  /\ StartJob(tui.job, tui' = [tui EXCEPT !.at = "download"], TuiEnds("failed"))
  /\ UNCHANGED Beside

TuiPublish ==
  /\ tui.at = "download" /\ tui.published < Outputs
  /\ Publish(tui.job, tui.published + 1)
  /\ tui' = [tui EXCEPT !.published = @ + 1]
  /\ UNCHANGED Beside

TuiFails ==
  /\ tui.at = "download" /\ tui.published < Outputs
  /\ \E outcome \in {"failed", "canceled"} : TuiEnds(outcome)
  /\ UNCHANGED <<library, Beside>>

TuiBuild ==
  /\ tui.at = "download" /\ tui.published = Outputs
  /\ LET outputs == Media(tui.job)
     IN IF Whole(outputs) THEN tui' = [tui EXCEPT !.at = "record", !.seen = outputs]
        ELSE TuiEnds("failed")
  /\ UNCHANGED <<library, Beside>>

TuiRecord ==
  /\ tui.at = "record"
  /\ CompleteJob(tui.job, tui.seen, tui' = NoDownload, TuiEnds("failed"), TuiEnds("failed"))
  /\ UNCHANGED Beside

TuiFinish ==
  /\ tui.at = "finish"
  /\ FinishJob(tui.job, tui.outcome, tui' = NoDownload, tui' = NoDownload)
  /\ UNCHANGED Beside

TuiDies ==
  /\ tui.at # "off"
  /\ Trouble
  /\ tui' = NoDownload
  /\ UNCHANGED <<jobs, latest, media, Beside>>

Remove ==
  /\ \E a \in Artifacts, p \in Plans, o \in 1..Outputs : RemoveFile(a, p, o)
  /\ UNCHANGED <<Aside, run>>

Elsewhere == OneShot /\ UNCHANGED <<Aside, run>>

-------------------------------------------------------------------------------
Prepare(w) ==
  \/ OpenLibrary(w) \/ Mark(w) \/ RecoverWhole(w) \/ RecoverPending(w)
  \/ RecoverRecord(w) \/ Preflight(w)

Cycle(w) ==
  \/ LoadRetryable(w) \/ EmitStarted(w) \/ EmitRecovered(w) \/ ListLectures(w)
  \/ \E a \in Artifacts : Skip(w, a) \/ Attempt(w, a) \/ InspectFails(w, a)
  \/ CycleEnds(w) \/ Wait(w) \/ StopWaiting(w) \/ EmitFailed(w)

Download(w) ==
  \/ Resolve(w) \/ Reuse(w) \/ Supersede(w) \/ Create(w) \/ StartDownload(w)
  \/ EmitLectureStarted(w) \/ FailUnheard(w) \/ PublishNext(w) \/ DownloadFails(w)
  \/ CancelAttempt(w) \/ FailAttempt(w) \/ BuildManifest(w) \/ Digest(w)
  \/ Record(w) \/ EmitCompleted(w)

Advance(w) == Prepare(w) \/ Cycle(w) \/ Download(w) \/ CloseState(w) \/ EmitTerminal(w)

Tui ==
  \/ \E a \in Artifacts : TuiCreate(a)
  \/ TuiStart \/ TuiPublish \/ TuiFails \/ TuiBuild \/ TuiRecord \/ TuiFinish \/ TuiDies

Next ==
  \/ \E w \in Watchers :
       \/ \E mode \in Modes, plan \in WatchPlans : Start(w, mode, plan)
       \/ Interrupt(w) \/ Crash(w) \/ Advance(w)
  \/ Tui
  \/ Elsewhere
  \/ Remove

(* A process runs until it ends.  The select in Run waits for the signal   *)
(* and for a timer of minutes: a signal that is there cannot lose to       *)
(* infinitely many timers.                                                 *)
Fairness == \A w \in Watchers : WF_vars(Advance(w)) /\ SF_vars(StopWaiting(w))

Spec == Init /\ [][Next]_vars /\ Fairness

-------------------------------------------------------------------------------
Job == [kind : {"watch", "download"}, art : Artifacts, plan : Plans,
        status : Open \cup Terminal]
Numbered == 0..(MaxWatchJobs + MaxDownloads)
Writers == (0 - MaxOneShots)..(MaxWatchJobs + MaxDownloads)
Bytes == [1..Outputs -> Writers]
OneShots == [at : {"off", "download", "record"}, serial : 0..MaxOneShots,
             art : Artifacts, plan : Plans, published : 0..Outputs, seen : Bytes]

(* Types: what each table, process and path may hold.                      *)
WatcherTypeOK ==
  /\ jobs \in Seq(Job) /\ Len(jobs) \in Numbered
  /\ latest \in [Artifacts -> [job : Numbered, plan : Plans, bytes : Bytes]]
  /\ files \in [Artifacts -> [Plans -> Bytes]]
  /\ oneShot \in OneShots
  /\ troubles \in 0..MaxTroubles
  /\ lock \in Watchers \cup {None}
  /\ \A w \in Watchers :
       /\ run[w].at \in Places
       /\ run[w].job \in Numbered /\ run[w].attempt \in 1..MaxRetries
       /\ run[w].left \in 0..Budget /\ run[w].published \in 0..Outputs
       /\ run[w].recovering \cup run[w].owed \cup run[w].retryable \subseteq JobIds
       /\ run[w].seen \in Bytes
  /\ tui.job \in Numbered /\ tui.published \in 0..Outputs
  /\ announced \subseteq JobIds

(* The jobs some live process works on.                                    *)
InHand(j) ==
  \/ \E w \in Watchers : ~At(w, "off") /\ run[w].job = j
  \/ tui.at # "off" /\ tui.job = j

(* Startup recovery claims only orphans: a job whose producer is still     *)
(* alive, watcher or TUI, is never turned from running to recoverable      *)
(* (the caller must exclude the producers of the kind; other kinds are     *)
(* never claimed).                                                         *)
ClaimsOnlyOrphans ==
  [][\A j \in JobIds :
       /\ jobs[j].status = "running" /\ jobs'[j].status = "recoverable"
       => ~InHand(j)]_vars

(* While a watcher polls, media that a watch job published completely and  *)
(* that nobody touched since belong to a completed job: neither a crash    *)
(* between publication and commit nor a change of the output plan loses    *)
(* a finished lecture.                                                     *)
PublishedIsRecorded ==
  (\E w \in Watchers : At(w, "wait")) =>
    \A j \in OfKind("watch") \cap intact : jobs[j].status = "completed"

(* A lecture has at most one unfinished watch job, however often watchers  *)
(* were interrupted, changed plans or could not tell whether a call was    *)
(* applied: retries reuse or supersede, they do not pile up.               *)
OneOpenJob ==
  \A i, j \in WithStatus("watch", Open) : jobs[i].art = jobs[j].art => i = j

(* A run that got as far as recovery and is about to report completed or   *)
(* canceled leaves no watch job running behind it: whatever makes the      *)
(* library's state ambiguous makes the run a failed one, signal or not.    *)
NoStrandedJob ==
  \A w \in Watchers :
    At(w, "close") /\ Verdict(run[w]) # "failed" => WithStatus("watch", {"running"}) = {}

(* lecture.completed is written only for jobs that are durably completed.  *)
AnnouncedIsRecorded == \A j \in announced : jobs[j].status = "completed"

(* A run that is told to stop does stop, wherever it is.                   *)
StopsWhenTold == \A w \in Watchers : run[w].told ~> At(w, "off")

(* The library's promise to its readers (LibraryLedger): with watchers,    *)
(* the TUI and one-shot downloads at work on the same lectures, a job ends *)
(* once, and its manifest becomes the latest one only together with its    *)
(* completion.                                                             *)
LedgerIds == Numbered \ {0}
LedgerState ==
  [j \in LedgerIds |-> IF j \notin JobIds THEN "none"
                       ELSE IF jobs[j].status \in Open THEN "active" ELSE jobs[j].status]
LedgerSubject ==
  [j \in LedgerIds |-> IF j \in JobIds THEN jobs[j].art ELSE SomeOf(Artifacts)]
LedgerLatest == [a \in Artifacts |-> latest[a].job]
Ledger == INSTANCE LibraryLedger WITH
  JobIds <- LedgerIds, state <- LedgerState, subject <- LedgerSubject,
  latest <- LedgerLatest
ImplementsLedger == Ledger!Spec

(* What README.md says of recovered artifacts: an event-mode run carries   *)
(* each across preflight and announces it.  Written as: a run whose event  *)
(* stream never failed and that reports its own end owes no announcement.  *)
RecoveredAnnounced ==
  \A w \in Watchers : At(w, "terminal") /\ ~run[w].fatal => run[w].owed = {}
==============================================================================
