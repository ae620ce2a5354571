------------------------------ MODULE JobExecutor ------------------------------
(***************************************************************************)
(* internal/server/job_executor.go, job_runner.go and the handlers that    *)
(* create, run and cancel jobs: one goroutine per job that waits for one   *)
(* of Slots places, goes through its phases and downloads its lectures     *)
(* with Workers goroutines of its own, while DELETE requests cancel jobs,  *)
(* upstream calls fail or panic, the store fails to persist an outcome or  *)
(* is closed.                                                              *)
(*                                                                         *)
(* The store's operations are steps: JobStore shows that readers see them  *)
(* as such.  jobEventMu is held from a store operation to the end of its   *)
(* broadcast, so `sending` is both the lock and what its holder is about   *)
(* to broadcast.  Retention, which only removes ended jobs, and titles,    *)
(* errors and file names are left out; a job's counts of lectures are read *)
(* by no one here.                                                         *)
(***************************************************************************)
EXTENDS Integers, Sequences, FiniteSets

CONSTANTS
  Jobs,
  Workers,      \* the playlist workers of one job: config numWorkers
  Lectures,     \* how many lectures each job selects
  Slots,        \* the capacity of jobSem
  MaxFaults,    \* bound: outcomes that cannot be persisted
  Absent

ASSUME ExecutorAssumption ==
  /\ Lectures \in [Jobs -> Nat \ {0}]
  /\ Slots \in Nat \ {0}
  /\ MaxFaults \in Nat
  /\ IsFiniteSet(Jobs) /\ Absent \notin Jobs
  /\ IsFiniteSet(Workers) /\ Workers # {}
  /\ Workers \cap {"executor", "request"} = {}

VARIABLES
  status, progress,     \* Job.Status and Job.Progress
  ctxDone,              \* jobs whose context is canceled
  storeClosed, faults,
  slots,                \* the jobs whose goroutine holds a place of jobSem
  pc, phase, slide,     \* the executor of each job
  stopped,              \* jobs whose local context has been canceled
  runner, worker,       \* playlistDownloadState and the workers of each job
  feed,                 \* history: the kinds of the events of each job;
                        \* progress events in a row count as one
  sending,              \* the holder of jobEventMu and its events
  blamed                \* history: jobs that met an error of their own

store == <<status, progress, ctxDone, storeClosed, faults>>
executor == <<slots, pc, phase, slide>>
downloads == <<runner, worker>>
events == <<feed, sending>>
vars == <<store, executor, stopped, downloads, events, blamed>>

Terminal == {"completed", "failed", "canceled"}
Phases == {"initializing", "logging_in", "fetching_lectures",
           "downloading_slides", "fetching_playlists", "downloading"}
Places == {"none", "queued", "report", "call", "dispatch", "drain",
           "cancel", "fail", "complete", "leave", "gone"}
WorkerPlaces == {"off", "idle", "downloading", "advance", "report",
                 "announce", "gone"}
Kinds == {"progress", "started", "completed", "failed", "cancelled"}

NoRun == [total |-> 0,                       \* len(playlists)
          next |-> 1, completed |-> 0, outputs |-> 0, err |-> FALSE,
          done |-> [w \in Workers |-> 0]]      \* what each worker reports
Unlocked == [job |-> Absent, by |-> "request", kinds |-> <<>>]

Init ==
  /\ status = [j \in Jobs |-> "none"]
  /\ progress = [j \in Jobs |-> 0]
  /\ ctxDone = {}
  /\ storeClosed = FALSE
  /\ faults = 0
  /\ slots = {}
  /\ pc = [j \in Jobs |-> "none"]
  /\ phase = [j \in Jobs |-> "initializing"]
  /\ slide = [j \in Jobs |-> 0]
  /\ stopped = {}
  /\ runner = [j \in Jobs |-> NoRun]
  /\ worker = [j \in Jobs |-> [w \in Workers |-> "off"]]
  /\ feed = [j \in Jobs |-> <<>>]
  /\ sending = Unlocked
  /\ blamed = {}

-------------------------------------------------------------------------------
(* The store's operations, called under jobEventMu; "by" broadcasts next. *)

Active(j) == status[j] \in {"pending", "running"}
CtxErr(j) == j \in ctxDone
LocalErr(j) == j \in ctxDone \cup stopped

Announce(j, by, kinds) ==
  /\ sending' = [job |-> j, by |-> by, kinds |-> kinds]
  /\ UNCHANGED feed

(* UpdateRunningIfActive answers false, or fails on a closed store. *)
RefusesUpdate(j, percent) == storeClosed \/ ~Active(j) \/ percent < progress[j]

UpdateRunning(j, percent, by, kinds) ==
  /\ sending = Unlocked
  /\ ~RefusesUpdate(j, percent)
  /\ status' = [status EXCEPT ![j] = "running"]
  /\ progress' = [progress EXCEPT ![j] = percent]
  /\ Announce(j, by, kinds)
  /\ UNCHANGED <<ctxDone, storeClosed, faults>>

UpdateRefused(j, percent) ==
  /\ sending = Unlocked
  /\ RefusesUpdate(j, percent)
  /\ UNCHANGED <<store, events>>

Percent(outcome, now) ==
  CASE outcome = "completed" -> 100 [] outcome = "failed" -> 0 [] OTHER -> now

(* Wrong variant: a job that has ended may end again. *)
EndsAgain(j, outcome) ==
  /\ ~storeClosed
  /\ status' = [status EXCEPT ![j] = outcome]
  /\ progress' = [progress EXCEPT ![j] = Percent(outcome, @)]
  /\ ctxDone' = IF outcome = "canceled" THEN ctxDone \cup {j} ELSE ctxDone
  /\ UNCHANGED <<storeClosed, faults>>

(* CompleteJob, FailJobIfNonTerminal, CancelJob: done and durable. *)
Ends(j, outcome) ==
  /\ ~storeClosed
  /\ Active(j)
  /\ status' = [status EXCEPT ![j] = outcome]
  /\ progress' = [progress EXCEPT ![j] = Percent(outcome, @)]
  /\ ctxDone' = IF outcome = "canceled" THEN ctxDone \cup {j} ELSE ctxDone
  /\ UNCHANGED <<storeClosed, faults>>

(* They refuse, or could not persist it and undid it. *)
EndRefused(j) ==
  /\ \/ storeClosed \/ ~Active(j)
     \/ ~storeClosed /\ Active(j) /\ faults < MaxFaults
  /\ faults' = IF storeClosed \/ ~Active(j) THEN faults ELSE faults + 1
  /\ UNCHANGED <<status, progress, ctxDone, storeClosed>>

(* Broadcast, and jobEventMu released.  A worker goes for its next task. *)
Append1(s, kind) ==
  IF kind = "progress" /\ s # <<>> /\ s[Len(s)] = "progress" THEN s ELSE Append(s, kind)

Broadcast ==
  /\ sending # Unlocked
  /\ LET j == sending.job
         first == Append1(feed[j], sending.kinds[1])
     IN  /\ feed' = [feed EXCEPT ![j] = IF Len(sending.kinds) = 1 THEN first
                                        ELSE Append1(first, sending.kinds[2])]
         /\ worker' = [worker EXCEPT ![j] =
              [w \in Workers |-> IF w = sending.by THEN "idle" ELSE @[w]]]
  /\ sending' = Unlocked
  /\ UNCHANGED <<store, executor, stopped, runner, blamed>>

-------------------------------------------------------------------------------
(* The requests *)

CreateJob(j) ==
  /\ status[j] = "none"
  /\ ~storeClosed
  /\ status' = [status EXCEPT ![j] = "pending"]
  /\ pc' = [pc EXCEPT ![j] = "queued"]
  /\ UNCHANGED <<progress, ctxDone, storeClosed, faults, slots, phase, slide,
                 stopped, downloads, events, blamed>>

(* cancelJob; a refusal is only answered. *)
DeleteJob(j) ==
  /\ sending = Unlocked
  /\ status[j] # "none"
  /\ Ends(j, "canceled")
  /\ Announce(j, "request", <<"cancelled">>)
  /\ UNCHANGED <<executor, stopped, downloads, blamed>>

(* Start returns: its deferred Close of the store, under running jobs. *)
CloseStore ==
  /\ ~storeClosed
  /\ storeClosed' = TRUE
  /\ UNCHANGED <<status, progress, ctxDone, faults, executor, stopped, downloads,
                 events, blamed>>

-------------------------------------------------------------------------------
(* runJob and executeJob *)

Executing(j) == ~(sending.job = j /\ sending.by = "executor")

Goto(j, place) ==
  /\ pc' = [pc EXCEPT ![j] = place]
  /\ UNCHANGED <<slots, phase, slide>>

Enter(j, next) ==
  /\ pc' = [pc EXCEPT ![j] = "report"]
  /\ phase' = [phase EXCEPT ![j] = next]
  /\ UNCHANGED <<slots, slide>>

(* Wrong variant: one place too many. *)
AcquireSlotOffByOne(j) ==
  /\ pc[j] = "queued"
  /\ Cardinality(slots) <= Slots
  /\ slots' = slots \cup {j}
  /\ pc' = [pc EXCEPT ![j] = "report"]
  /\ UNCHANGED <<store, phase, slide, stopped, downloads, events, blamed>>

AcquireSlot(j) ==
  /\ pc[j] = "queued"
  /\ Cardinality(slots) < Slots
  /\ slots' = slots \cup {j}
  /\ pc' = [pc EXCEPT ![j] = "report"]
  /\ UNCHANGED <<store, phase, slide, stopped, downloads, events, blamed>>

(* Wrong variant: the slides are worth more than their share. *)
PhasePercentSlides(j) ==
  CASE phase[j] = "initializing" -> 2
    [] phase[j] = "logging_in" -> 8
    [] phase[j] = "fetching_lectures" -> 15
    [] phase[j] = "downloading_slides" -> 15 + ((slide[j] + 1) * 20) \div Lectures[j]
    [] phase[j] = "fetching_playlists" -> 30
    [] phase[j] = "downloading" -> 40

PhasePercent(j) ==
  CASE phase[j] = "initializing" -> 2
    [] phase[j] = "logging_in" -> 8
    [] phase[j] = "fetching_lectures" -> 15
    [] phase[j] = "downloading_slides" -> 15 + ((slide[j] + 1) * 10) \div Lectures[j]
    [] phase[j] = "fetching_playlists" -> 30
    [] phase[j] = "downloading" -> 40

(* Each phase begins with a progress update, the first one with "started" too. *)
Report(j) ==
  /\ pc[j] = "report" /\ Executing(j)
  /\ UpdateRunning(j, PhasePercent(j), "executor",
       IF phase[j] = "initializing" THEN <<"progress", "started">> ELSE <<"progress">>)
  /\ Goto(j, IF phase[j] = "downloading" THEN "dispatch" ELSE "call")
  /\ worker' = IF phase[j] = "downloading"
               THEN [worker EXCEPT ![j] = [w \in Workers |-> "idle"]] ELSE worker
  /\ UNCHANGED <<stopped, runner, blamed>>

(* A refused update ends the executor, or only the slides. *)
ReportRefused(j) ==
  /\ pc[j] = "report" /\ Executing(j)
  /\ UpdateRefused(j, PhasePercent(j))
  /\ IF phase[j] = "downloading_slides" THEN Enter(j, "fetching_playlists")
     ELSE Goto(j, "leave")
  /\ UNCHANGED <<stopped, downloads, blamed>>

Calling(j) == pc[j] = "call" /\ Executing(j)

(* Directories, login, lectures and their selection. *)
CallReturns(j) ==
  /\ Calling(j)
  /\ \/ phase[j] = "initializing" /\ Enter(j, "logging_in")
     \/ phase[j] = "logging_in" /\ Enter(j, "fetching_lectures")
     \/ /\ phase[j] = "fetching_lectures"
        /\ \E next \in {"downloading_slides", "fetching_playlists"} : Enter(j, next)
  /\ UNCHANGED <<store, stopped, downloads, events, blamed>>

(* GetPlaylists passes over a lecture that has no stream of the quality: *)
(* the job goes on with the others, which from here on are its total.    *)
PlaylistsReturn(j) ==
  /\ Calling(j)
  /\ phase[j] = "fetching_playlists"
  /\ \E n \in 1..Lectures[j] : runner' = [runner EXCEPT ![j].total = n]
  /\ Enter(j, "downloading")
  /\ UNCHANGED <<store, stopped, worker, events, blamed>>

(* A slide is there or not: the next one, or the next phase. *)
SlideReturns(j) ==
  /\ Calling(j)
  /\ phase[j] = "downloading_slides"
  /\ pc' = [pc EXCEPT ![j] = "report"]
  /\ slide' = [slide EXCEPT ![j] = (@ + 1) % Lectures[j]]
  /\ phase' = IF slide[j] + 1 = Lectures[j]
              THEN [phase EXCEPT ![j] = "fetching_playlists"] ELSE phase
  /\ UNCHANGED <<slots, store, stopped, downloads, events, blamed>>

(* An upstream error: the job's own cancellation, or a failure. *)
CallFails(j) ==
  /\ Calling(j)
  /\ phase[j] \in {"logging_in", "fetching_lectures", "fetching_playlists"}
  /\ Goto(j, IF CtxErr(j) THEN "cancel" ELSE "fail")
  /\ blamed' = blamed \cup {j}
  /\ UNCHANGED <<store, stopped, downloads, events>>

(* No directory, no lecture selected, no playlist: failed in any case. *)
CallRejects(j) ==
  /\ Calling(j)
  /\ phase[j] \in {"initializing", "fetching_lectures", "fetching_playlists"}
  /\ Goto(j, "fail")
  /\ blamed' = blamed \cup {j}
  /\ UNCHANGED <<store, stopped, downloads, events>>

(* A panic of the executor's goroutine, recovered by runJob. *)
CallPanics(j) ==
  /\ Calling(j)
  /\ Goto(j, "fail")
  /\ blamed' = blamed \cup {j}
  /\ stopped' = stopped \cup {j}
  /\ UNCHANGED <<store, downloads, events>>

(* handleCancelIfNeeded, whose CancelJob broadcasts nothing. *)
CancelIfNeeded(j) ==
  /\ pc[j] = "cancel"
  /\ sending = Unlocked
  /\ Ends(j, "canceled") \/ EndRefused(j)
  /\ Goto(j, "leave")
  /\ UNCHANGED <<stopped, downloads, events, blamed>>

(* Wrong variant: the event is sent whether or not it was persisted. *)
FinishAnyway(j, place, outcome) ==
  /\ pc[j] = place
  /\ sending = Unlocked
  /\ Ends(j, outcome) \/ EndRefused(j)
  /\ Announce(j, "executor", <<outcome>>)
  /\ Goto(j, "leave")
  /\ UNCHANGED <<stopped, downloads, blamed>>

(* completeJob and failJob *)
Finish(j, place, outcome) ==
  /\ pc[j] = place
  /\ sending = Unlocked
  /\ \/ Ends(j, outcome) /\ Announce(j, "executor", <<outcome>>)
     \/ EndRefused(j) /\ UNCHANGED events
  /\ Goto(j, "leave")
  /\ UNCHANGED <<stopped, downloads, blamed>>

CompleteJob(j) == Finish(j, "complete", "completed")
FailJob(j) == Finish(j, "fail", "failed")

(* The variables of the goroutines of a job that is over. *)
Forget(j) ==
  /\ stopped' = stopped \cup {j}
  /\ phase' = [phase EXCEPT ![j] = "initializing"]
  /\ slide' = [slide EXCEPT ![j] = 0]
  /\ runner' = [runner EXCEPT ![j] = NoRun]
  /\ worker' = [worker EXCEPT ![j] = [w \in Workers |-> "off"]]

(* Wrong variant: only an executor that got to the downloads gives its place back. *)
LeaveEarly(j) ==
  /\ pc[j] = "leave" /\ Executing(j)
  /\ pc' = [pc EXCEPT ![j] = "gone"]
  /\ slots' = IF phase[j] = "downloading" THEN slots \ {j} ELSE slots
  /\ Forget(j)
  /\ UNCHANGED <<store, events, blamed>>

(* The deferred calls: the local context, the place in jobSem. *)
Leave(j) ==
  /\ pc[j] = "leave" /\ Executing(j)
  /\ pc' = [pc EXCEPT ![j] = "gone"]
  /\ slots' = slots \ {j}
  /\ Forget(j)
  /\ UNCHANGED <<store, events, blamed>>

-------------------------------------------------------------------------------
(* playlistDownloadRunner.run and its workers *)

Place(j, w, place) == worker' = [worker EXCEPT ![j][w] = place]

(* The dispatcher hands the next lecture to a worker that is waiting. *)
Dispatch(j, w) ==
  /\ pc[j] = "dispatch" /\ Executing(j)
  /\ runner[j].next <= runner[j].total
  /\ worker[j][w] = "idle"
  /\ Place(j, w, "downloading")
  /\ runner' = [runner EXCEPT ![j].next = @ + 1]
  /\ UNCHANGED <<store, executor, stopped, events, blamed>>

(* Everything is handed out, or the context is done: close(tasks). *)
CloseTasks(j) ==
  /\ pc[j] = "dispatch" /\ Executing(j)
  /\ runner[j].next > runner[j].total \/ LocalErr(j)
  /\ Goto(j, "drain")
  /\ UNCHANGED <<store, stopped, downloads, events, blamed>>

NoMoreTasks(j, w) ==
  /\ pc[j] = "drain"
  /\ worker[j][w] = "idle"
  /\ Place(j, w, "gone")
  /\ UNCHANGED <<store, executor, stopped, runner, events, blamed>>

(* Downloaded, or without media in the selected views. *)
DownloadReturns(j, w) ==
  /\ worker[j][w] = "downloading"
  /\ \E new \in {0, 1} : runner' = [runner EXCEPT ![j].outputs = @ + new]
  /\ Place(j, w, "advance")
  /\ UNCHANGED <<store, executor, stopped, events, blamed>>

(* The context's own error, or the context found done before the download. *)
DownloadAborted(j, w) ==
  /\ worker[j][w] = "downloading"
  /\ LocalErr(j)
  /\ Place(j, w, "gone")
  /\ UNCHANGED <<store, executor, stopped, runner, events, blamed>>

(* Wrong variant: an error is kept, but nobody else is stopped. *)
DownloadFailsAlone(j, w) ==
  /\ worker[j][w] = "downloading"
  /\ runner' = [runner EXCEPT ![j].err = TRUE]
  /\ UNCHANGED stopped
  /\ blamed' = blamed \cup {j}
  /\ Place(j, w, "gone")
  /\ UNCHANGED <<store, executor, events>>

(* recordError: the first one is kept and cancels the siblings. *)
DownloadFails(j, w) ==
  /\ worker[j][w] = "downloading"
  /\ runner' = [runner EXCEPT ![j].err = TRUE]
  /\ stopped' = stopped \cup {j}
  /\ blamed' = blamed \cup {j}
  /\ Place(j, w, "gone")
  /\ UNCHANGED <<store, executor, events>>

(* progressMu is held over the report and its broadcast. *)
Reporting(j) == \E w \in Workers : worker[j][w] \in {"report", "announce"}

(* Wrong variant: counting and reporting are not one critical section. *)
AdvanceUnlocked(j, w) ==
  /\ worker[j][w] = "advance"
  /\ IF LocalErr(j)
     THEN Place(j, w, "gone") /\ UNCHANGED runner
     ELSE /\ Place(j, w, "report")
          /\ runner' = [runner EXCEPT ![j].completed = @ + 1,
                                     ![j].done[w] = runner[j].completed + 1]
  /\ UNCHANGED <<store, executor, stopped, events, blamed>>

(* advance up to the callback, with its SetLectureProgress. *)
Advance(j, w) ==
  /\ worker[j][w] = "advance"
  /\ ~Reporting(j)
  /\ IF LocalErr(j)
     THEN Place(j, w, "gone") /\ UNCHANGED runner
     ELSE /\ Place(j, w, "report")
          /\ runner' = [runner EXCEPT ![j].completed = @ + 1,
                                     ![j].done[w] = runner[j].completed + 1]
  /\ UNCHANGED <<store, executor, stopped, events, blamed>>

DonePercent(j, w) == 40 + (runner[j].done[w] * 55) \div runner[j].total
Reported(j, w) == runner' = [runner EXCEPT ![j].done[w] = 0]

ReportLecture(j, w) ==
  /\ worker[j][w] = "report"
  /\ UpdateRunning(j, DonePercent(j, w), w, <<"progress">>)
  /\ Place(j, w, "announce")
  /\ Reported(j, w)
  /\ UNCHANGED <<executor, stopped, blamed>>

(* The callback answers false: advance cancels the run. *)
ReportLectureRefused(j, w) ==
  /\ worker[j][w] = "report"
  /\ UpdateRefused(j, DonePercent(j, w))
  /\ stopped' = stopped \cup {j}
  /\ Place(j, w, "gone")
  /\ Reported(j, w)
  /\ UNCHANGED <<executor, blamed>>

(* Wrong variant: an error of a lecture is only logged. *)
RunReturnsSomething(j) ==
  LET run == runner[j]
      ok == run.outputs > 0 /\ ~CtxErr(j)
      empty == run.outputs = 0 /\ ~LocalErr(j)
  IN  /\ pc[j] = "drain"
      /\ \A w \in Workers : worker[j][w] = "gone"
      /\ Goto(j, IF CtxErr(j) THEN "cancel" ELSE IF ok THEN "complete" ELSE "fail")
      /\ blamed' = IF empty THEN blamed \cup {j} ELSE blamed
      /\ UNCHANGED <<store, stopped, downloads, events>>

(* wg.Wait, result and what runPlaylistDownloads makes of it. *)
RunReturns(j) ==
  LET run == runner[j]
      ok == ~run.err /\ ~LocalErr(j) /\ run.outputs > 0
      empty == ~run.err /\ ~LocalErr(j) /\ run.outputs = 0
  IN  /\ pc[j] = "drain"
      /\ \A w \in Workers : worker[j][w] = "gone"
      /\ Goto(j, IF CtxErr(j) THEN "cancel" ELSE IF ok THEN "complete" ELSE "fail")
      /\ blamed' = IF empty THEN blamed \cup {j} ELSE blamed
      /\ UNCHANGED <<store, stopped, downloads, events>>

-------------------------------------------------------------------------------
Executor(j) ==
  \/ AcquireSlot(j)
  \/ Report(j)
  \/ ReportRefused(j)
  \/ CallReturns(j)
  \/ PlaylistsReturn(j)
  \/ SlideReturns(j)
  \/ CallFails(j)
  \/ CallRejects(j)
  \/ CallPanics(j)
  \/ CancelIfNeeded(j)
  \/ CompleteJob(j)
  \/ FailJob(j)
  \/ Leave(j)
  \/ \E w \in Workers : Dispatch(j, w)
  \/ CloseTasks(j)
  \/ RunReturns(j)

Worker(j, w) ==
  \/ NoMoreTasks(j, w)
  \/ DownloadReturns(j, w)
  \/ DownloadAborted(j, w)
  \/ DownloadFails(j, w)
  \/ Advance(j, w)
  \/ ReportLecture(j, w)
  \/ ReportLectureRefused(j, w)

Next ==
  \/ \E j \in Jobs :
       \/ CreateJob(j)
       \/ DeleteJob(j)
       \/ Executor(j)
       \/ \E w \in Workers : Worker(j, w)
  \/ Broadcast
  \/ CloseStore

Spec == Init /\ [][Next]_vars

(* Goroutines go on, upstream calls return, a broadcast waits for nobody,  *)
(* and jobSem and jobEventMu reach whoever waits for them.  Nothing forces *)
(* a request or the end of the server.                                     *)
Fairness ==
  /\ WF_vars(Broadcast)
  /\ \A j \in Jobs : /\ WF_vars(Executor(j))
                     /\ \A w \in Workers : WF_vars(Worker(j, w))

FairSpec == Spec /\ Fairness

-------------------------------------------------------------------------------
TypeOK ==
  /\ status \in [Jobs -> {"none", "pending", "running"} \cup Terminal]
  /\ progress \in [Jobs -> 0..100]
  /\ ctxDone \subseteq Jobs
  /\ storeClosed \in BOOLEAN
  /\ faults \in 0..MaxFaults
  /\ slots \subseteq Jobs
  /\ Cardinality(slots) <= Slots
  /\ pc \in [Jobs -> Places]
  /\ phase \in [Jobs -> Phases]
  /\ stopped \subseteq Jobs
  /\ \A j \in Jobs :
       /\ slide[j] \in 0..(Lectures[j] - 1)
       /\ runner[j] \in [total : 0..Lectures[j],
                         next : 1..(Lectures[j] + 1), completed : 0..Lectures[j],
                         outputs : 0..Lectures[j], err : BOOLEAN,
                         done : [Workers -> 0..Lectures[j]]]
  /\ worker \in [Jobs -> [Workers -> WorkerPlaces]]
  /\ \A j \in Jobs : \A n \in DOMAIN feed[j] : feed[j][n] \in Kinds
  /\ sending.job \in Jobs \cup {Absent}
  /\ blamed \subseteq Jobs

EventOf == [completed |-> "completed", failed |-> "failed", canceled |-> "cancelled"]

(* Clients of the event stream and of GET agree: the events of a job are a *)
(* first progress event, "started", progress, and its outcome, in that     *)
(* order and each at most once; the outcome is announced exactly when the  *)
(* store holds it, and nothing follows it.                                 *)
FeedTruthful ==
  \A j \in Jobs :
    LET live == {<<>>, <<"progress", "started">>, <<"progress", "started", "progress">>}
    IN  sending.job # j =>
          IF status[j] \in Terminal
          THEN feed[j] \in {Append(f, EventOf[status[j]]) : f \in live}
          ELSE feed[j] \in live

(* A completed job has every lecture behind it that the service offered a  *)
(* playlist for, one of them at least with media, and met no error,        *)
(* whatever its workers raced with (as long as its goroutine is there to   *)
(* tell).  These are not all that the job selected: those GetPlaylists     *)
(* passed over are not tried, although docs/websocket-events.md:145 sends  *)
(* job.completed "when all lectures finish successfully".                  *)
CompletedIsComplete ==
  \A j \in Jobs :
    (status[j] = "completed" /\ pc[j] # "gone") =>
      /\ runner[j].completed = runner[j].total
      /\ runner[j].outputs > 0
      /\ ~runner[j].err
      /\ j \notin blamed

(* Only an outcome that could not be persisted or a closed store leaves a  *)
(* job pending or running with nobody working on it.                       *)
OrphansExplained ==
  (\E j \in Jobs : Active(j) /\ pc[j] = "gone") => faults > 0 \/ storeClosed

(* A job fails for an error of its own, never because its workers stopped  *)
(* each other over progress that came out of order.                        *)
FailsForCause == \A j \in Jobs : status[j] = "failed" => j \in blamed

(* Every job that was created gets its place and leaves it again, whatever *)
(* fails, panics, is canceled or waits for the others.                     *)
JobsLeave == \A j \in Jobs : pc[j] = "queued" ~> pc[j] = "gone"

-------------------------------------------------------------------------------
ASSUME RegistryAssumption == Absent \notin [state : {"active"} \cup Terminal, key : {Absent}]

(* What GET makes of the store, as the registry of JobRegistry.            *)
Reading ==
  [j \in Jobs |->
    IF status[j] = "none" THEN Absent
    ELSE [state |-> IF status[j] \in Terminal THEN status[j] ELSE "active",
          key |-> Absent]]

Registry == INSTANCE JobRegistry WITH
  JobIds <- Jobs, Keys <- {}, NoKey <- Absent, MaxRetained <- Cardinality(Jobs),
  registry <- Reading

(* What the executors and the requests make of the store stays within what *)
(* it promises its readers: a job ends once.                               *)
KeepsRegistry == Registry!Spec
===============================================================================
