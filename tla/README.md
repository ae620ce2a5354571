# Formal models of impartus-cli

TLA+ models of the concurrent and failure-prone parts of `impartus-cli` (a Go
program that lists, downloads, plays and serves recorded lectures), the TLC
configurations that model-check them, and TLAPS proofs about the jobs of the
server, from the system calls on the job file to the event stream, about the
watcher and its library, and about what else an API server shares. Every definition is translated from the Go source; `PROJECT.json`
gives, for each one, the lines it stands for.

Contents: [the system](#the-system) · [what is modelled](#what-is-modelled) ·
[the modules](#the-modules) · [the runs](#the-runs) · [fairness](#fairness) ·
[the proofs](#the-proofs) · [what the models found](#what-the-models-found) ·
[what is not modelled](#what-is-not-modelled) · [the plan](#the-plan) ·
[running the checks](#running-the-checks)

## The system

One binary, four ways to run it, over shared packages in `src/internal`:

```
 impartus-cli server      HTTP + WebSocket API     job store, executor, hub, cleanup
 impartus-cli watch       unattended downloads     library jobs, watch lock, event stream
 impartus-cli tui         a session process        operations, event hub, playback, player
 impartus-cli download …  one command              reuse locks, downloader, event stream
                     \________ all of them ________/
              app services  →  downloader (pipeline, retry, join)
                            →  library (SQLite: jobs, artifacts, playback state)
                            →  client (sessions, token cache)
```

For each part: the state it keeps, what operates on it, what it talks to, what
is hard about it and what makes it correct.

### Job store of the server (`internal/server/store*.go`, `job_persistence.go`, `persistence_coordinator.go`)

* **State.** `jobs`, `idempotencyKeys`, the context of each active job,
  `revision`, `closed`, the count of producers; the coordinator's pending
  snapshot, written/attempted revisions, wake and flush signals; the job file,
  its temporary and its rollback name.
* **Operations.** Create (with an idempotency key), start, annotate, complete,
  fail, cancel; each takes a snapshot under the next revision and publishes it,
  the durable ones wait until it is written and undo themselves if it is not.
  A worker coalesces and writes; `Close` drains; a start reads the file, marks
  interrupted jobs failed and writes that back.
* **Talks to.** The executor and the HTTP handlers call it; the file system.
* **Hard.** Three locks and a worker with four wake-up causes; a save that
  fails half-way and takes its rename back; a rollback that fails as well; a
  shutdown that expires; kills and power losses in the middle of any of it.
* **Correct when.** What a client was told survives every crash; readers never
  see what may still be undone; a key names one remembered job; nothing that was
  published is forgotten; a clean shutdown loses nothing; every operation ends.

### Job executor and events (`internal/server/job_executor.go`, `job_runner.go`, `handlers.go`)

* **State.** Per-job context, the semaphore of ten running jobs, progress under
  `jobEventMu`, the playlist runner's task channel and first error.
* **Operations.** A handler creates the job, answers, and starts a goroutine:
  wait for the semaphore, start, download, complete, fail or cancel, each with
  an event to the hub. DELETE cancels from another goroutine.
* **Hard.** Cancellation against completion; panics; persistence failures in a
  callback; events whose order must agree with the store's.
* **Correct when.** One terminal event per job, after every other one; the
  semaphore is always given back; a canceled job does not turn completed.

### WebSocket hub (`internal/server/hub.go`)

* **State.** Registered clients and their bounded queues, `closed`.
* **Hard.** Broadcast against unregister and close; overflow disconnects.
* **Correct when.** No client is left behind by `Close`; each one gets a prefix
  of the broadcasts in order; nothing sends on a closed channel.

### Server life cycle, health, upstream login, cleanup (`server.go`, `health_handlers.go`, `cleanup_lifecycle.go`)

* **State.** inactive/starting/running/closing/closed of the cleanup; the cached
  readiness and its single refresh in flight; the cached upstream client.
* **Hard.** `Start` against `Close`; a refresh that panics or whose caller left;
  deferred closes that run while handlers and executors are still active.
* **Correct when.** `Close` returns after the last cleanup; one probe at a time,
  and a waiter is always answered.

### Login limiter and tokens (`ratelimiter.go`, `auth.go`)

* **State.** Buckets in least-recently-used order; issued tokens and expiry.
* **Correct when.** The bounds hold and an eviction never forgives the caller at
  hand. Every operation is one critical section.

### Local library (`internal/library`)

* **State.** SQLite rows: jobs (pending, running, recoverable, completed,
  failed, canceled) with attempts, artifacts with digests, playback positions.
* **Operations.** Create, start, complete (validating the artifact first), fail,
  cancel, recover what a dead process left, verify, migrate.
* **Hard.** Transactions of several processes; a crash between the download and
  the commit; an artifact that changed since it was hashed.
* **Correct when.** Completed implies a valid artifact record; a crash loses no
  finished work; no job ends twice.

### Watcher (`internal/watch`, `internal/cli/cli_watch.go`), locks (`internal/lockfile`), event stream (`internal/events`)

* **State.** The watch lock, the cycle's plan, the global download budget, the
  library's jobs, the terminal record of the stream.
* **Hard.** Restart after a crash in any step; a plan superseded between cycles;
  a failed write of an event or of the database.
* **Correct when.** One watcher; never more attempts than the budget; no lecture
  downloaded twice once it is recorded; one terminal event, and it tells the truth.

### TUI session (`internal/tuisession`), player (`internal/player`), playback (`internal/app`)

* **State.** Up to 128 operations, each with a done channel; subscribers with
  bounded queues; the player's pending requests; the playback's owner.
* **Hard.** Cancellation racing completion; attach against stop; overflow while
  events are queued; end of playback against loss of the connection.
* **Correct when.** Each operation starts and ends once, in that order; a stop
  waits for what it stopped; every player request is answered.

### Download pipeline, retry and reuse (`internal/downloader`, `internal/cli/cli_download*.go`)

* **State.** Two worker stages, the channel between them, a memory budget with a
  condition variable, the results; the locks of artifacts being reused.
* **Hard.** Lost wake-ups on cancellation, partial failures, collection.
* **Correct when.** Every chunk is accounted for, the budget is kept and given
  back, and `Collect` returns.

### Client and token cache (`internal/client`)

* **State.** The active token, the token cache file shared by every program of
  the user, the origins a request may go to, its chain of redirects.
* **Hard.** The upstream chooses every link and redirect; several programs read
  and replace the cache at the same time.
* **Correct when.** The login reaches only the origins it is meant for, a refusal
  is told for what it is, no program goes on with a token nobody has vouched for.

### Front end (`ui/src`)

* **State.** The screen, the operation it shows, the requests in flight.
* **Hard.** Answers and events come over separate connections; the user navigates
  while both are on their way.
* **Correct when.** The screen shows what was last told and never loads for ever.

### Configuration, secrets, command line, library set-up

Pure functions over strings and files, and I/O around a single call.

## What is modelled

The **jobs of the server** from the system calls on the job file up to what a
client and a subscriber may rely on; the **watcher** with the local library; the
rest of the **server**; the **terminal interface** from the session to the
screen; and **downloading** from a chunk to a whole command. `PROJECT.json` lists
every part with its status, and the hazards.

```
   JobExecutor          goroutines, events, cancellation over the store
        |  implements (run job_executor, proved in JobExecutorProofs)
        v
   JobRegistry          what readers of the store may rely on
        ^  implements (run job_store, proved in JobStoreProofs)
   JobStore             operations, rollback, retention, shutdown, crash, restart
        |  extends
   PersistenceCoordinator     one worker, publishers, flushers, close
        |  instantiates              ^ proved in PersistenceCoordinatorProofs
   AtomicFile           what save() promises of the job file
        ^  implements (run api_server, part "file"; proved in SnapshotFileProofs)
   SnapshotFile         save() on directory entries, with every failure
```

```
   Watcher              runs of impartus watch, and the TUI's downloads
     |  extends                       \
   Library              jobs, media,   > implement (run watcher_tui,     LibraryLedger
                        manifests,    /             proved in
                        one-shot downloads          WatcherProofs)
```

```
   APIServer            TuiRuntime                 DownloadRuntime
     WSHub                TuiSession (twice)         DownloadPipeline
     CleanupLifecycle     PlayerClient               LectureDownload
     ReadinessCache       PlayerSession              ProgressTracker
     LoginLimiter         Playback                   ArtifactLibrary
     SnapshotFile         TuiAuthentication          CliDownload
     UpstreamClient       Workspace
```

The modules of the third picture are parts of three programs. The parts of one
program share no variable (what a part needs of another is stated in its own
module: a `Playback` sees the player as a child that reports events and ends, a
`Workspace` sees an operation as what was told of it), so an action of one part
neither enables, disables nor changes an action of another, and every reachable
state of the program projects on each part to a reachable state of that part.
`APIServer`, `TuiRuntime` and `DownloadRuntime` therefore choose the part a
behaviour follows (`part`) at the start, and TLC explores the interleavings
inside it: an invariant that speaks about one part at a time holds of the program
exactly if it holds of each part. `TuiRuntime` follows the session twice:
operations without event streams, and two event streams over a self-test; the two
together would only multiply. What the projection cannot show is a dependency the
parts do not state; the seams are listed under "What is not modelled".

The layers of the server are joined twice: `SnapshotFile` is checked and proved to
implement `AtomicFile`, and the coordinator, which is built on the variables and actions of
`AtomicFile`, is proved to use the file as that module allows
(`UsesAtomicFile`). So the store is checked against everything the file system
can do without its state space carrying directory entries.

## The modules

### `AtomicFile` and `SnapshotFile` — `job_persistence.go`

`SnapshotFile` follows `save()` one call at a time (`step`): temporary file,
fsync, rollback link or copy, rename, fsync of the directory, and, if that
fails, the rename back and a second fsync. `dir` is what the three names refer
to now; `onDisk` is the set of files the name of the job file may refer to after
a power loss (every value it had since the last successful fsync of the
directory). A file that was never fsynced is torn by a power loss, and `load()`
treats a torn file like an absent one (the corrupt file is set aside). Removals
whose errors the code ignores may or may not happen. The auxiliary names may be
left with anything by a power loss.

`AtomicFile` is the contract in five variables: `live` is what a load would
find, `durable` what a load after a power loss may find; between the rename and
the end of `save()` both the old and the new content are possible, a successful
save leaves one.

### `PersistenceCoordinator` — `persistence_coordinator.go`

One step is a critical section of `pc.mu` or a channel operation. The channels
are Booleans (`wake`, `flush`: capacity one) or follow from other state (`stop`,
`done`, the current `changed` channel: see the module's header).

| code | model |
| --- | --- |
| `run` | `TakeStop`, `TakeFlush`, `TakeWake`, `TimerFires`; `worker` is where it stands |
| `writeLatest` | `WriteLatest` up to the save, `RecordAttempt` after it |
| `publish` | `Publish`, `SignalWake` |
| `flushTo` | `BeginFlush`, `CheckFlush`, `SignalFlush`, `SeeExit`, `GiveUp` |
| `close` | `StopWorker`, `CloseReturns`, `CloseTimesOut` |
| callers in the store | `TakeSnapshot`, `FlushCurrent`, `Return` |

A snapshot is its revision and an opaque content. Time is not measured: the
debounce timer may fire whenever it is running, a context may expire whenever
its owner waits.

### `JobRegistry` and `JobStore` — `store.go`, `store_lifecycle.go`, `store_retention.go`, `store_persistence.go`

`JobStore` replaces the free callers of the coordinator by the store's own
transactions. `Begin` is `beginMutation`; `Mutate` is the critical section of
`js.mu` in which the maps change and the snapshot is taken; `Persist` is
`publish` and `flushTo` on the operation's behalf; `Commit`, `Rollback`,
`Abort` and `Release` are the four ways an operation ends. `CreateJob`,
`UpdateRunningIfActive`, `CompleteJob`, `FailJobIfNonTerminal`, `CancelJob`,
`UpdateJob` and `Annotate` say which maps each operation writes; `EarlyReturn`
stands for all their refusals. `CloseStore`, `CloseCoordinator`, `CloseEnds` and
`CloseExpires` are `JobStore.Close`; `Restart` is the end of the process at any
moment followed by `NewJobStoreWithPersistence`; `BootDone` ends the write-back
of the restored jobs. `promised` is a history variable: what clients were told.

Abstractions: a job is its status, its key and the rank of its `UpdatedAt` among
the jobs, at most their number (all that retention, the index and the readers'
decisions depend on); progress,
titles, outputs and error texts are data. `visibilityMu` appears as `View`: a
reader waits for a durable operation, so until that has ended it sees the maps
from before. A kill is a `Restart("kill")`, a power loss a `Restart("power")`,
which takes any content out of `durable`.

`JobRegistry` is the promise in one variable: created once per key, ended once,
kept through restarts, forgotten only as one of more than `MaxRetained` ended
jobs.

### `JobExecutor` — `job_executor.go`, `job_runner.go`, `handlers.go`

One process per job (`pc`, `phase`, `slide`), `Workers` playlist workers for each
(`worker`), requests that create and delete jobs, and the store's `Close`. The
store's operations are single steps here: that readers see them so, also when
they are undone, is what `JobStore` is checked for, and both modules implement
`JobRegistry`.

| code | model |
| --- | --- |
| `jobEventMu` held from a store operation to the end of its broadcasts | `sending`: whose events are due, or `Unlocked` |
| `jobSem` | `slots` |
| the job's context, and the local one made from it | `ctxDone`, `stopped` |
| `updateRunningProgress`, `startJob` | `Report`, `ReportRefused` (the percentages are the code's, in whole numbers) |
| `prepareJobRuntime` … `fetchPlaylists` | `CallReturns`, `SlideReturns`, `PlaylistsReturn`, `CallFails`, `CallRejects`, `CallPanics` |
| `completeJob`, `failJob`, `handleCancelIfNeeded` | `CompleteJob`, `FailJob`, `CancelIfNeeded` |
| `run`'s dispatcher, `playlistDownloadWorker.run`, `recordError` | `Dispatch`, `CloseTasks`, `Download…`, `RunReturns` |
| `advance` under `progressMu` | `Advance`, `ReportLecture`, `ReportLectureRefused`; `Reporting` is the lock |

The context checks of a worker before its download are part of
`DownloadAborted`. `Lectures[j]` is how many lectures the job selects;
`GetPlaylists` passes over those without a stream of the quality
(`client.go:332-338`), so `PlaylistsReturn` chooses how many are left, and
`runner[j].total` is that number, `len(playlists)`, from then on. `feed` (the events of each job) and `blamed` (the jobs that met
an error of their own) are history variables.

### `LibraryLedger`, `Library` and `Watcher` — `internal/library`, `internal/watch`, `cli_watch.go`, `app/frontend.go`

`Library` is the database and the files it describes. A call of the store is one
step of whoever makes it (a statement or a transaction of SQLite), and takes what
the caller does after each answer as an argument: `done`, `refused`, and
`broken`, after which the call may or may not have been applied. Files are told
apart by the download that wrote them, a job by its index and a one-shot download,
which has no job, by a negative number; that stands for the sizes a manifest
records: a manifest fits exactly the files it was built from. `oneShot` is such a
download: `impartus download` publishes its outputs wherever its configuration
says, without regard to who else downloads the lecture, and records their manifest
without a job. `intact` is a history
variable: the jobs whose outputs were all in place when the last one was
published and have not been touched since.

`Watcher` is each process of the command (`run[w]`, a program counter with the
local variables of `Run`, `RunCycle` and `downloadLecture`) and the TUI's
download (`tui`).

| code | model |
| --- | --- |
| `watch.lock` | `lock`; taken in `Start`, released in `CloseState` and, by the kernel, in `Crash` |
| `RecoverInterruptedJobs` | `Mark`, then `RecoverWhole`, `RecoverRecord` or `RecoverPending` for each job, oldest first |
| `ensureFFmpeg`, `login` | `Preflight` |
| `loadRetryableJobs`, `job.started`, `emitRecoveredArtifacts` | `LoadRetryable`, `EmitStarted`, `EmitRecovered` |
| `RunCycle`, `inspectAndProcess` | `ListLectures`, `Skip`, `Attempt`, `InspectFails`, `CycleEnds`; the wait between cycles is `Wait` or `StopWaiting` |
| `downloadLecture` | `Reuse` or `Supersede` for each retryable job, newest first, `Create`, `StartDownload`, `EmitLectureStarted`, the attempts (`PublishNext`, `DownloadFails`), `BuildManifest`, `Digest`, `Record`, `EmitCompleted`, and the failing ends |
| `lectureFailure` | `Report` and `EmitFailed` |
| `ErrDurableState`, `ErrEventDelivery` | `fatal` |
| `Service.downloadLecture` | the `Tui…` actions |
| `impartus download`: `RecordManifests` (`artifact.go`) | `OneShotStart`, `OneShotPublish`, `OneShotFails`, `OneShotDigest`, `OneShotRecord`, `OneShotDies`; `Elsewhere` in `Watcher` |

`told` is the signal. What only waits for the network (resolving a playlist, an
attempt of a download) is one step that succeeds, fails or notices the signal.
`MaxTroubles` bounds crashes, failed calls and event writes, and removed files
together, `MaxOneShots` the one-shot downloads.

`LibraryLedger` is what a reader of the library sees: a job is added once and
ends once, and a manifest that belongs to a job becomes the latest one of its
lecture only together with that job becoming completed. The latest manifest may
also belong to no job (`Record`): one-shot downloads record theirs that way, as
`README.md:606-608` and `docs/architecture.md:184-186` of the program say, and may
replace that of a job.

### The server beside its jobs — `WSHub`, `CleanupLifecycle`, `ReadinessCache`, `LoginLimiter`, `UpstreamClient`

| code | model |
| --- | --- |
| `websocketHandler`, `Register`, `Unregister` | `Upgrade`, `Register`, `ReadClosed`, `HandlerUnregisters`, `HandlerReturns`; `handler[c]` |
| `writePump` | `PumpCheck`, `PumpDone`, `PumpTake`, `PumpWrites`, `PingFails`, `PumpUnregisters`, `PumpEnds`; `pump[c]` |
| `Broadcast` | `Broadcast` (all queues, under `broadcastMu` and the read lock) and `DropOverflowed` for each client whose queue was full |
| `WSHub.Close` | `HubClose`, `HubStops` |
| `cleanupLifecycle.Start`, `Close`, `stopWorkers` | `Start`, `StartWorker`, `Started`; `Close`, `StartAwaited`, `CloseAwaited`, `StopWorker`, `WorkerStopped`, `Closed` |
| the end of `APIServer.Start` | `CloseHubAndStore`, then `Close` of the cleanup |
| `cachedReadiness`, `refreshReadiness`, `readinessExpiry` | `ReadClock`, `AnswerCached`, `AwaitRefresh`, `RefreshDone`, `Leave`; `ReadSession`, `Collect`, `ProbePanics`, `StoreReadiness` |
| `getOrRefreshUpstreamClient` | `FastPath`, `LockSession`, `LoginSucceeds`, `LoginFails` |
| `loginRateLimiter`, `loginHandler`, `TokenStore` | `AllowNew`, `AllowKnown`, `Reject`, `Reset`, `Cleanup`; `IssueToken`, `Authorize`, `CleanupExpired` |
| `NewLoggedIn`, `token_cache*.go` | `ReadTokenCache`, `TryStoredToken`, `Login`, `CreateTokenCacheTemp`, `WriteTokenCache`, `PublishTokenCache` |
| `getAuthorizedWithToken`, `doRequestWithTokenClient`, `handleMediaRedirect`, the refusals | `Begin`, `Redirect`, `Succeeds`, `RequestFails`, `Refusal`; `Allows` and `Carries` are the origin policy |
| `GetLectures`, `ResolveLectureScope`, `GetPlaylists` | `GetLectures` … `InstituteFromCatalog`, `NextLectureAt` … `PlaylistsReturned` |

Time is a counter in `ReadinessCache` and `LoginLimiter`. In `UpstreamClient` a
URL is its origin, where it carries the bearer, and whether it is signed. Two
things the model shows and the code accepts: the token becomes active before the
cache is written, and a cache that cannot be written fails the login; and a 401
at the end of a redirect to another configured origin is reported as an
authentication failure although that hop did not carry the bearer.

### The terminal interface — `TuiSession`, `PlayerClient`, `PlayerSession`, `Playback`, `TuiAuthentication`, `Workspace`

| code | model |
| --- | --- |
| `operations.go`: the registry and the goroutine of an operation | `Register`, `RegisterLate`, `RegistryRefuses`, `Announce`, `Finish`, `Return`; `entry[o]` |
| the download and playback operations | `DownloadReturns`, `Progress`; `Resume`, `Start`, `PlayerActs`, `Consume`, `Checkpoint`, `Record`, `FinishPlayback` |
| `events.go` | `Subscribe`, `Publish`, `Deliver`, `DeliverOverflow`, `StreamEnds`; `hub`, `buf`, `overflow` |
| `Session.Close` | `CloseCancels`, `CloseStops`, `CloseWaited`, `CloseEvents`, `CloseServer` |
| `player/client.go`: a command, `readLoop`, `shutdown` | `RegisterPending`, `LockWrite`, `WriteSucceeds`, `TakeReply`, `Expire`, `SeeDone`; `ReadResponse`, `DeliverResponse`, `ReadFails`; `Shutdown`, `FailOne`, `CloseDone` |
| `player/process.go`: `Start`, `WaitForEnd`, `PollTerminal`, `Close` | `Connect`, `Observed`, `AbortStartup`; `TakeEnd`, `SeeDisconnected`, `SeeReadDone`; `CloseTo`'s steps `QuitAnswered`, `Terminate`, `Kill` |
| `app/playback.go`, `downloader/play.go` | `StartPlayer`, `Load`, `TakeReadiness`, `ReceiveFailure`, `RecordFailure`, `ReceiveResult`, `ClosePlayer`, `CleanUp`; the segment handlers are `Request` … `Serve` |
| `cli_tui_auth.go` | `JoinOrLead`, `LoadConfiguration`, `BuildCandidate`, `PublishService`, `EndAttempt`, `ShareVerdict` |
| `ui/src`: controller, operations, `main.ts` | one action per callback or continuation: `Input`, `RequestAnswered`, `StartAnswered`, `ApplyEvent`, `PressBack`, `BackDone`, `QuitInterface`; `Session…` is what the other side may tell |

What the models show and the code accepts: an operation is never removed from the
registry, so a session ends up refusing new ones; a download that has committed its
media when the cancellation reaches it may be told as canceled; who joined an attempt to sign
in shares its error even when only the client that led it had left; a command
written after mpv has quit may fail and close the connection before the reader
has seen the end of the file (`Break`, `cut` in `PlayerSession`): the end is then
reported as a disconnection, which `EndNotLost` excepts.

### Downloading — `DownloadPipeline`, `LectureDownload`, `ProgressTracker`, `ArtifactLibrary`, `CliDownload`

| code | model |
| --- | --- |
| `pipeline.go`: submission, download workers, decrypt workers | `SubmitDownload`, `FinishSubmission`; `TakeTask`, `Fetch`, `WaitForRetry`, `AcquireMemory`, `Enroll`, `SendDownloaded`; `TakeDownloaded`, `Decrypt`, `SendDecrypted` |
| `inFlightMu`, `inFlightCond` | `MemoryLocked`, `inFlight`, `waiting`; a worker checks in `AcquireMemory` and is enrolled in `Enroll` |
| `CloseChannels`, `Collect`, the result of `DownloadPlaylist` | `CloseChannels`, `Collect`, `Outcome`, `ReturnPlaylist` |
| `DownloadAndJoinPlaylist`, `ffmpeg.go` | `AcquirePlaylistSlot`, `FetchDecryptionKey`, `DownloadChunks`, `JoinNext`, `AcquireFinalOutput`, `RemoveStale`, `MuxEnds`, `SyncAndReplaceOutput`, `RemoveWorkspace`; `KillProcess` |
| `progress_tracker.go` | `CountChunk`, `AddBytes`, `UpdateTotalBytesEstimate`, `ReadTotal`, `ReportProgress`, `UpdateSpeedSample`, `StopTracker` |
| `RecordManifests`, `VerifyArtifact` | `BuildManifest`, `CommitManifest`; `GetArtifact`, `OpenMedia`, `HashMedia`, `ConfirmStable`, `StoreFoundDigest`, `RecordVerification` |
| `cli_download.go`, `cli_download_reuse.go` | `PrepareCommand`, `AcquireLock`, `VerifyReusable`, `EmitReused`, `FetchPlaylists`, `StartLectureDownload`, `DownloadLecture`, `BuildArtifact`, `TellCompleted`, `ApplyLibraryRecording`, `CloseLocks`, `FinishCommand`; `Interrupt` |

A file is a version; a version stands for its bytes and its digest, so a file that
is replaced, rewritten or removed at any moment differs. What the models show and
the code accepts: after sixty seconds a command goes on without the lock of an
artifact (`unguarded`, a history variable; another one, `published`, is the version
each command made of each artifact); the gates of the final outputs work within one process,
as the program's `README.md:596-602` says; the overall progress may go down when
the estimate grows; a verification that found a file missing may write that down
after a newer recording.

## The runs

| run | configuration | what it shows |
| --- | --- | --- |
| `persistence_coordinator` | `MCPersistenceCoordinator.cfg` | acknowledged flushes are durable, the worker never sleeps on work, a clean close has written everything, every flush returns |
| `job_store` | `MCJobStore.cfg` | the store implements `JobRegistry`; what clients were told survives; the key index is exact |
| `job_store_shutdown` | `MCJobStoreShutdown.cfg` | operations that fail, and whose rollback fails, against shutdown and kill: they end, cancel only contexts of ended jobs, are not refused half-way, and a clean shutdown leaves the file equal to memory |
| `job_store_killed` | `MCJobStoreKilled.cfg` | the finding *A restart trusts what is not yet durable* |
| `job_executor` | `MCJobExecutor.cfg` | what subscribers hear agrees with the store, in order; a completed job has every lecture that was offered a playlist, one output at least and no error behind it; a job fails for a cause; a job is left without an executor only when its outcome could not be persisted or the store is closed; every job gives its place back; the store is used within `JobRegistry` |
| `watcher` | `MCWatcher.cfg` | one watcher, run again and again through two failures: finished media get recorded, jobs do not pile up, a run with a clean end strands no job, only recorded jobs are announced, a signal ends the run wherever it is |
| `watcher_tui` | `MCWatcherTui.cfg` | two watcher processes, the TUI and a one-shot download on one library: recovery claims no job whose producer lives, and the library implements `LibraryLedger` |
| `watcher_preflight` | `MCWatcherPreflight.cfg` | the finding *A recovered lecture that nobody hears of* |
| `api_server` | `MCAPIServer.cfg` | the server beside its jobs (`ServerSafe`, `ServerAnswers`), and the job file: `save()` implements `AtomicFile` through failures of any call, kills and power losses, what is renamed over it is the argument, whole and fsynced, whatever an earlier attempt left under the temporary name (`RenamedIsWhole`), and the rollback point is whole and fsynced as long as it may be needed |
| `tui_runtime` | `MCTuiRuntime.cfg` | the terminal interface (`SessionSafe`, `SessionAnswers`) |
| `download` | `MCDownloadRuntime.cfg` | downloading (`DownloadSafe`, `DownloadEnds`) |
| `download_cancel` | `MCDownloadCancel.cfg` | the finding *A canceled download that does not return* |

The properties of the last runs are conjunctions, one conjunct for each promise
of a part, named and stated in the module of the part:

| part | promises |
| --- | --- |
| `WSHub` | `OneOrder`: one order, no message twice; `NoSilentGap`: who missed a message is on its way out; `OwnedConnections`: a registered client has a pump, a closed hub no client; `ConnectionsEnded` |
| `CleanupLifecycle` | `ClosedMeansStopped`, `OneOwner`; `ClosesReturned` |
| `ReadinessCache` | `SingleFlight`, `AnswersFresh`, `NoNeedlessLogin`; `RequestsAnswered` |
| `LoginLimiter` | `RateBound` in every window, `RemembersWindow`: pruning forgets only what no decision depends on |
| `UpstreamClient` | `BearerStays`, `SignaturesKept`, `RefusalsExplained`, `CacheWhole`, `SignedInTruly`, `ScopeComplete`; `UcEnded` |
| `TuiSession` | `OperationToldInOrder`, `StreamsTellAll`, `StoppedIsIdle`, `CheckpointHonest`, `PlayersClosed`; `SessionAnswered` |
| `PlayerClient` | `OneAnswer`, `NoOrphan`, `NothingLeftPending`; `PcAnswered`: a lost connection returns every command without its deadline |
| `PlayerSession` | `EndWins`, `EndNotLost`, `PollAgrees`, `CloseCleans`, `StartCleans`, `EventsClosedLast`; `PsAnswered` |
| `Playback` | `FailureKept`, `FailureWins`, `TimeoutHonest`, `KeyIntact`, `NothingLeft`; `PbAnswered` |
| `TuiAuthentication` | `OneAttempt`, `ToldTruthfully`; `TaAnswered` |
| `Workspace` | `ShownIsTold`, `BackUndoesNothing`, `LecturesOfCourse`, `OneWaiting`; `WsAnswered` |
| `DownloadPipeline` | `NoChunkLost`, `BudgetKept`, `KeyOutlivesWorkers`, `OutcomeTrue`; `DpEnded` |
| `LectureDownload` | `FinalsWhole`, `GatesExact`, `OkAsPlanned`, `CausesRanked`, `AllReturned`; `LdEnded` |
| `ProgressTracker` | `PtSafe`: the last report is 100; `PtEnded` |
| `ArtifactLibrary` | `RowDescribesMedia`, `ManifestKept`; `AlEnded` |
| `CliDownload` | `DecisionsHold`, `TruthTold`, `NothingUnrecorded`, `Offered`, `LocksReturned`; `CdEnded` |

Each property of a passing run is accompanied in `PROJECT.json` by a variant of
one definition or more (the operators commented *Wrong variant*) under which TLC
finds it violated: a dropped fsync, a full queue that skips a client, a budget
that is not given back. The conjunctions have one for nearly every part.

**Bounds, and why they are enough.**

* *Contents* (part "file" of `api_server`): absent, two different snapshots.
  `save()` never looks at the content; two tell old from new.
* *Coordinator*: one goroutine that publishes (and may wait), one that flushes
  under a context, two revisions, one failed save. Callers never read each
  other's state; they interact through the revisions, the two signals and the
  attempt counter, and one of each kind reaches every combination of these. The
  proofs below cover every number of callers, revisions and faults.
* *Store*: one client, because `mutationMu` admits one operation at a time: a
  second client would only hold a place in the queue. Two jobs, one key and
  `MaxRetained = 1` are the least for which retention removes a job, a key is
  free again, and a key conflicts. `MaxRevision = 3` is two operations or one
  operation and its rollback in one process (the guard of `Mutate` keeps a
  revision for the rollback), and each restart counts from zero again. One
  failed save makes a rollback, two (run `job_store_shutdown`) make a rollback
  that cannot be written. `job_store` uses power losses, which allow every
  content a kill does and more; `job_store_shutdown` uses kills;
  `job_store_killed` needs both.
* *Keys* is empty and there is one job in `job_store_shutdown`: its properties
  are about the ends of operations, and the liveness check has no use for more.
* *Executor*: two jobs and one place, so that one waits while the other runs,
  fails, panics or is canceled. One job has three lectures for its two workers:
  two can report at once, one worker may take a second lecture, and the
  dispatcher may be left without a worker that takes the third. The other has
  one lecture for two workers. From one to all of the three have a playlist. One outcome that cannot be persisted.
* *Watcher*: one lecture, two output plans (so that a job is reused or
  superseded), two outputs (so that a crash can fall between them), two attempts,
  two jobs and two troubles: something cuts a run short, the next one takes it
  up, and something happens again. The budget is one lecture a cycle. In
  `watcher_tui` two processes compete for the lock while the TUI and a one-shot
  download work on the same lecture; one trouble, one output and one plan for each
  kind are enough for what they do to each other, and each writer replaces the
  manifests of the others. The watchers are interchangeable there (`Symmetry`). In
  the other runs of the watcher there is no one-shot download (`MaxOneShots = 0`);
  their invariants are theorems for any number of these, and of lectures.
  `Room` keeps a run from starting a download that would need a job beyond `MaxWatchJobs`, as if its budget were used up.
* The two jobs are interchangeable (`MCSymmetry`) in the runs that check no
  liveness.
* *Server*: two connections, queues of one, two broadcasters with two messages
  (a queue that is full for one client and not for the other); two `Start` and
  one more `Close`, two workers; two requests and two jobs at the session lock,
  times to live of one in two units of time; three addresses for an index of
  two, one attempt per window of one in three. Two programs, two tokens, two
  redirects and one failure; the links cover every origin the policy tells apart
  (the API, a configured one, a foreign one, one without TLS), with and without a
  bearer and a signature.
* *Interface*: three requests for two places of operations, one `DELETE`; two
  streams with queues of one; three commands with two pending; two ends of a
  file; two lectures and two segments; two starts, three inputs and two courses;
  three callers of an attempt.
* *Downloading*: three chunks of two views, two download workers and one decrypt
  worker, two tries, a budget of two for parts of size one or three (so that a
  part larger than the budget must be alone, and two small ones fill it). The
  buffer between the stages holds the code's two per worker; three chunks do not
  fill it, but the one behind the decrypt worker fills. Two lectures at one slot
  with the same or different outputs and one kill; two library calls and two
  changes of the file; two commands over two artifacts with two failures or
  removals, for three pairs of flags: one that reuses while the other does not,
  two that reuse, two that both write events.

`CHECK_DEADLOCK FALSE` is set for the store, executor, server, interface and
download runs: a server that has been closed and may not crash any more, a screen
that was quit, a command that has ended have really stopped. The
coordinator's and the watcher's runs check for deadlock. That nobody is left
waiting in the others is what `OperationsEnd`, `JobsLeave`, `ServerAnswers`,
`SessionAnswers` and `DownloadEnds` say.

## Fairness

* `WF(Worker)`: the goroutine runs, and `save()` returns. `SF(TakeStop)`: Go's
  `select` picks at random among its ready cases, so a closed `stop` is not
  passed over forever although `wake` and `flush` keep arriving.
* `WF(CallerStep(c))` for callers of the coordinator. In the store
  `SF(Operation \/ Persist \/ Progress)` for each client: a goroutine that has
  begun an operation goes on, and gets `mutationMu` in the end because Go's
  mutexes hand over to a waiter that starves.
* `WF(CloseReturns)`.
* `WF(Executor(j))`, `WF(Worker(j, w))`, `WF(Broadcast)` in `JobExecutor`:
  goroutines run, upstream calls return (the HTTP client has timeouts, `ffmpeg`
  is killed with the context), `Broadcast` never waits for a client, and Go's
  channels and mutexes serve whoever waits. A job has a bounded number of
  lectures, so weak fairness is enough.
* `WF(Advance(w))` and `SF(StopWaiting(w))` in `Watcher`: a process that is not
  killed runs until it ends, each call returns, and while it waits for the next
  cycle a signal that is there does not lose to infinitely many timers of minutes.
* `HubFairness`, `LcFairness`, `RcFairness`, and weak fairness of the `Progress`
  actions of the followed part in `UpstreamClient`, `TuiRuntime` and
  `DownloadRuntime`: goroutines, continuations and timers that can run do, a
  condition variable serves its queue, a context that was canceled is seen, mpv
  is killed in the end. Weak fairness of the disjunction is enough, and weaker
  than fairness of each action: the stimuli of a run are bounded, so a behaviour
  that goes on makes finitely many of these steps and stops only where none is
  possible. The liveness properties there have the form `[]<>` "nobody waits".
* The stimuli themselves carry no fairness: nothing forces a caller to publish, a
  context to expire, a server to close, a client to leave, mpv to end its file, a
  user to press a key, or a process to end.

## The proofs

Each module below proves theorems about the component of the same name for every
value of its constants: any sets of jobs, keys, goroutines, workers, watchers or
contents, any number of failures and crashes, any bound that stands for a
capacity of the code. Each argument has the same three steps — an inductive
invariant holds initially, every action keeps it, it implies the property — and
each inductive invariant was first checked by TLC on the configurations of the
runs. What the constants must satisfy is an `ASSUME` of the component's module,
which TLC evaluates in every run.

| module | theorem | statement |
| --- | --- | --- |
| `SnapshotFileProofs` | `SfTypeCorrect` | `SfSpec => []SfTypeOK` |
| | `SfRenamedIsWhole`, `SfRollbackPointHeld` | `SfSpec => []RenamedIsWhole`, `[]RollbackPointHeld` |
| | `SfImplementsAtomicFile` | `save()` keeps the contract of `AtomicFile` |
| `PersistenceCoordinatorProofs` | `Invariance`, `TypeCorrect` | `Spec => []IInv`, `[]TypeOK` with `written <= attempted <= pending <= revision` |
| | `FlushDurability`, `NoLostWakeUp`, `GracefulClose` | `Spec => []FlushAckDurable`, `[]NothingForgotten`, `[]CloseFlushes` |
| | `UsesAtomicFile` | `Spec => FileSpec`: the file is driven as `AtomicFile` allows |
| `JobStoreProofs` | `StoreInvariance`, `StoreTypeCorrect` | `StoreSpec => []StoreIInv`, `[]StoreTypeOK` |
| | `PromisesHeld`, `KeyIndexHeld`, `CancellationsHeld`, `NeverRefused`, `ClosedIsComplete` | the five safety invariants of the runs on the store |
| | `StoreImplementsRegistry` | the store implements `JobRegistry`, where crashes are of one kind |
| `JobExecutorProofs` | `ExecutorInvariance`, `ExecutorTypeCorrect` | `Spec => []ExecutorIInv`, `[]TypeOK` |
| | `FeedHeld`, `CompletionHeld`, `OrphansHeld`, `FailuresHeld` | the four safety invariants of the run |
| | `ExecutorKeepsRegistry` | the store is used within `JobRegistry` |
| `WatcherProofs` | `WatcherInvariance`, `WatcherTypeCorrect` | `Spec => []WatcherIInv`, `[]WatcherTypeOK` |
| | `PublishedHeld`, `OneOpenJobHeld`, `StrandedHeld`, `AnnouncedHeld` | the four safety invariants of the run |
| | `OrphansClaimed` | the action property `ClaimsOnlyOrphans` |
| | `WatcherImplementsLedger` | the library implements `LibraryLedger` |
| `APIServerProofs` | `ServerInvariance`, `ServerSafeHeld` | `Spec => []IInv`, `[]ServerSafe` |
| `DownloadRuntimeProofs` | `DownloadInvariant`, `DownloadIsSafe` | `Spec => []DownloadIInv`, `[]DownloadSafe` |
| `TuiRuntimeProofs` | `SessionInvariant`, `SessionIsSafe` | `Spec => []SessionIInv`, `[]SessionSafe` |

Together the first four say what the server promises about a job: `save()` gives
the coordinator an atomic file, the coordinator acknowledges what is durable, the
store turns that into answers that survive restarts, and the executor adds an
event stream that agrees with the store.

### `SnapshotFileProofs`

`SfIInv` follows the three names through `save()`. `RollbackPointHeld` alone says
nothing of the steps before the rename; the invariant adds that nothing torn is
reachable under the name of the job file and that it is among what a power loss
may leave (`PathInv`), that the temporary file is the argument, fsynced when it is
renamed (`TempInv`), and that the rollback name is what the job file was, which a
power loss may still bring back (`BackupInv`). `RenamedIsWhole` is the part of
`TempInv` and `PathInv` that a reader of the code would ask for. The refinement needs `PathInv` most:
a reader's `durable` is a function of `onDisk` only while no file in it is torn.
Assumed: `ContentsAssumption` (`NoContent` is a content, `NoFile` is no file).

### `PersistenceCoordinatorProofs`

None of the properties is inductive: that an acknowledged revision is durable
depends on what the worker wrote before the acknowledgement. `IInv` adds

* `SaveInv` — a save is in progress exactly while the worker stands in one; what
  it saves was pending and is newer than what is written; everything a load may
  find is at least as new as `writtenRevision`;
* `CallInv` — what each caller has learnt at its place in `publish` and
  `flushTo`: its revision was taken, it was published before it is waited for,
  `initial` and `seen` are no greater than `attemptCount`, and a positive answer
  implies `writtenRevision >=` the revision asked for;
* `StopInv` — the worker exits and `close` answers only after the stop, and the
  worker has then written the newest snapshot or failed to;
* `NothingForgotten` itself.

The proof has one lemma per group of actions: `WriteLatestInv` (a save begins),
`SaveEndsInv` (it is recorded), `WorkerIInv`, the callers' steps through
`StepToCall`, `AnswerCall` and `OnlyCallInv` in `CallerIInv`; `NextIInv` joins
them, `IInvImplies` draws the conclusions, `WrittenDurable` is the step from
revisions to what a load finds. Assumed: `CoordinatorAssumption` (`NoData \in Data`,
the bounds are naturals).

### `JobStoreProofs`

The store shares the coordinator's variables and actions, so `StoreIInv` contains
`IInv` and the proof reuses its lemmas. `PromisesKept` speaks of what a load would
find; it is kept because of everything that has not reached the file yet:

* `SavedInv` — every snapshot on disk, in a save, published or carried by an
  operation is a map the store could have made (`Sound`) and keeps what clients
  were told (`Keeps`);
* `RevisionInv`, `CurrentInv` — two such snapshots of one revision are the same,
  and an operation that persists carries the newest, so that the file holds what
  the operation changed when `flushTo` acknowledges its revision;
* `ControlInv` — one operation at a time is inside the coordinator, and the
  coordinator is closed after the last;
* `TxnInv` — what the operation did to the maps (`Creates` or `Ends`) and that the
  maps it would restore keep every promise, so that a rollback is safe; no promise
  about its job is made before it commits;
* `MemoryInv` — the maps in memory, with the index of keys.

`PruneMap` and `Ranking` are the lemmas about retention: the times of the jobs are
ranks, so there is a set of the newest ended ones of the size wanted. `Ranking`
would be an induction over the size of the set; it is proved instead from the
least number of a nonempty set, which the well-foundedness of `<` gives. The steps
that matter: `MutateStoreIInv`, `CommitStoreIInv` (an acknowledged operation
becomes a promise), `RollbackStoreIInv`, `RestartStoreIInv` (a new process finds a
sound map and ends its active jobs as failed), `ClosedWritten`.

Assumed: `StoreAssumption` and `RegistryAssumption`. They say that the bounds are
what they bound, that `Main` is one of the goroutines, and that the model values
that stand for "none" (`NoJob`, `NoKey`, `Absent`) are no jobs, keys or entries; no
assumption is about the program. `StoreImplementsRegistry` has one hypothesis
more, `OneKindOfCrash`: a behaviour has kills or power losses, and not both. It
cannot be dropped, because with both the theorem is false: that is the first
finding below. Every other theorem holds with both. The refinement adds to the
invariant `BackedInv`: whatever the next process may load agrees with what readers
of this one see, but for active jobs that it will end as failed.

### `JobExecutorProofs`

An action concerns one job, so `ExecutorIInv` is a conjunction over the jobs
(`JobInv(j)`) and the lemmas `…Kept` name what each conjunct depends on. It adds
to the properties how status, phase and place of an executor go together
(`StageInv`), that workers exist only during the downloads and one of them holds
`progressMu` (`WorkersInv`), that the event stream and what the holder of
`jobEventMu` is about to send make what the status says (`FeedInv`), that the total of
a runner is at most what the job selects and not zero once it downloads, and three
facts that no property mentions: no progress update is ever refused for going
backwards (`ProgressInv`, by the arithmetic of the percentages in `Shares`); every
lecture that was handed out is with a worker, done, or lost to an error or a
cancellation (`CountInv`, which is what makes a completed job complete); and
whoever stops, fails or abandons a job has a cause (`CauseInv`). Assumed:
`ExecutorAssumption` (every job has a lecture, `Slots` is positive, jobs and
workers are finite sets) and that `Absent` is no entry of the registry.

### `WatcherProofs`

Any number of watcher processes share a library with the TUI. The lock makes all
but one of them idle (`LockInv`), so what a run relies on is said of its record
alone (`RunInv`), by where it is:

* `HandInv` — the job in its hand and that job's status;
* `QuietInv` — after the interrupted jobs were marked no other watch job runs, until
  the run itself starts one; a run that ends without a failed verdict leaves none
  running (`NoStrandedJob`);
* `KnownInv` — every open watch job is retryable or in hand, so a new one is
  created only for a lecture without one (`OneOpenJob`);
* `MediaInv` — media that were published completely and that nobody touched belong
  to a completed job, or to one that recovery or the run itself will still look
  at (`PublishedIsRecorded`);
* `RoomInv` — there is room for the job about to be created, so no bound is exceeded.

`NoStrandedJob` and `PublishedIsRecorded` look at moments when nobody runs; the
record-wise invariant is what carries them through a run. A step of another
process is either `Unnoticed` by a run or meets a run that rests. The action
property and the refinement do not look at the actions again: `NextCalls` sorts
every step by its effect on the tables (`Kept`, `Added`, `Changed`, `Fulfilled`,
`Reclaimed`, or, for a one-shot download, one manifest without a job), and each of
these is an action of `LibraryLedger` or a stutter.
Assumed: `WatcherAssumption` (the modes are the code's, the TUI's plan is not one
of the watcher's, bounds are naturals, `None` is nobody).

Every way out of a run ends in `Return`, also that of a start that failed
(`Abort`): the record forgets its job as the process does when `prepareWatch`
returns. `OrphansClaimed` rests on it, because it counts as a producer whoever has
the job in its record.

### `APIServerProofs`

The parts share no variable, so `IInv` is one invariant per part, and a step of one
leaves the others alone (`NextIInv`). Each part is proved from the few facts that
its property needs and no property states:

* the hub (`HubIInv`) — what a client has received, has under way and has queued is,
  in this order, increasing and newer than its registration; while it is registered
  it is also as long as what was broadcast since (`GapInv`), unless it is about to
  go. From increasing, bounded and complete in number follows that nothing is missing;
* the cleanup life cycle (`LcIInv`) — where a caller stands tells the state of the
  life cycle (`OwnerInv`), and a starter has started the workers before its own;
* the caches (`RcIInv`) — what is cached came from a refresh that ended, and no
  refresh that ended expires later than what is cached; likewise for sessions;
* the login limiter (`LlIInv`) — attempts are listed in order, so those in a window
  are a suffix, which is what pruning keeps (`KeptSuffix`, `RecentIsSuffix`); pruning
  twice is pruning once with the later cut-off (`RecentLater`), so what is forgotten
  early never counts later (`RemembersWindow`, which is inductive only together with
  `RateBound` and the order). The three indexes name the same addresses;
* the upstream client (`UcIInv`) — a call under way is as `SentTruly` says at each hop,
  and a scope is complete to one institute (`ScopeInv`).

Assumed: `HubAssumption`, `LifecycleAssumption` (every starter makes one worker),
`CachesAssumption`, `LimiterAssumption` (limit, window and capacity are positive, as
`newLoginRateLimiter` is called). The pruning loop is the recursive function `Kept`;
what it returns is proved from its equations by induction over its steps (`KeptByLoop`,
`KeptInduction`), the well-founded order of the naturals being the only fact used.

### `DownloadRuntimeProofs`

The five parts share no variable here either: `DownloadStep` has one case per
part, in which its invariant is kept by its steps (`…Step`) and the others' by
`…Stutter`; `…Invariance` draws the conclusions. What each adds to the properties:

* the pipeline (`DpIInv`) — queue, workers, channels, decrypt workers and results
  have each chunk once (`DpOnce`) and are disjoint (`DpPlaced`); what was offered
  is in one of them as long as nothing is canceled. From this follows that no chunk
  is lost, and that the sum of the memory in flight is a cardinality: a part that
  holds memory stands for as many bytes as it has, and parts of different chunks
  have different bytes (`BytesOf`, `HeldBytes`), so that taking and giving back add
  and subtract one part's bytes (`DpBudget`, no induction over a sum). `DpEnds` is
  the order in which everything ends: workers, channels, key, return. Without a
  cancellation nobody leaves with work to do (`DpUncanceled`), which makes a result
  without failures a complete one;
* the lectures (`LdIInv`) — per invocation, what it made and what it still has to
  join are what was planned (`LdFits`); the files it made are whole. With
  `GatesExact`, counted over finite sets of invocations, one writer is at an output,
  so that the partial file that is renamed is the one it has written;
* the progress (`PtIInv`) — the last worker to estimate computes the full total, and
  the last to report has read it under `progressMu`, so what is reported last is 100;
* the recording (`AlIInv`) — what a call has in hand (`CallFits`): the digest it has
  computed is that of the file it has opened, or that file is no longer there, which
  `ConfirmStable` finds out before anything is committed;
* the commands (`CdIInv`) — a lecture decided missing is locked by the command
  (`Locks`), so that what it decided is still so when it downloads (`Stands`), unless
  the user removed the files; what was told, built and recorded agree at every
  stage and not only at the end (`Tells`, `Says`). Versions only grow, in the library
  too, and files are at least as new as what was recorded or published of them, so a
  command that has recorded its artifacts finds its version of each or a newer one
  (`CdLasts`, which `NothingUnrecorded` follows from).

Assumed: `PipelineAssumption` (there is a chunk, and a worker of each kind, as
`Validate` demands), `LectureAssumption`, `TrackerAssumption` (there is a chunk to
report), `MediaAssumption`, `CliAssumption`; beyond that, types of the bounds.

### `TuiRuntimeProofs`

Six parts without a shared variable; `SessionStep` has one case per part, in which
its invariant is kept by its steps (`…Step`) and the others' by `…Stutter`.
`…Invariance` draws the conclusions. What each adds to the properties:

* authentication (`TaIInv`) — what a retrier knows at its stage (`TaFits`): one that
  is told has joined an attempt, and the verdict of that attempt is out unless its
  leader panicked, since the leader clears `activeRetry` in the step that settles it;
* the player client (`PcIInv`) — an answer has one owner at a time: the table of
  pending commands, the list `fail` took, the reply channel, or the reader's hand;
  a command under way has one of them, or the client is down. `OneAnswer` is only
  the end of this;
* the player session (`PsIInv`) — the order of the stages (`PsOrder`): the end is
  recorded before the player is gone, and what a reader, a waiter and a poller hold
  agrees with what was recorded (`PsEnds`);
* playback (`PbIInv`) — a failure that a segment reported is in one place (the
  channel, the hand of the waiter that records it, or the sticky error), what waits
  and timeouts knew is remembered, and the flow owns proxy, key and child until it has released them (`PbOwned`);
* the front end (`WsIInv`) — the events told to a start are shown or kept early for
  it; a start that is accepted has moved the screen, so that `goBack` has nothing to
  undo. The bound on the queue in `WsTypeOK` needs a potential: an operation not yet
  started has two events to come and a running one has one, so
  `Len(queue) + 2 * |Unstarted| + |RunningOps| <= 2 * MaxStarts` (`WsRoom`);
* the session (`TsIInv`) — for the hub (`TsHub`), a queue is increasing and newer than
  what was delivered, and with it the subscriber has exactly what is due to it, or its
  overflow is the newest thing it gets. For the operations, a request, its place in
  the registry, its goroutine and what was said stand together (`OpStage`); the last
  position of a feed is the player's, and the checkpoint follows what was recorded
  (`OpPlay`); once the session has stopped no goroutine is left (`TsIdle`), which
  holds because `Close` waits for the operations it has canceled.

Assumed: `SessionAssumption` (a queue holds at least one event; operations are of the
kinds the session starts), `PlaybackAssumption` (there is a lecture to play),
`WorkspaceAssumption`, `ClientAssumption`, `RetriersAssumption`, which are types of
the bounds. `SessionIInv` was checked by TLC on the constants of `tui_runtime`, with
the naturals cut at a bound no behaviour of them reaches, because what is due to a
stream quantifies over them.

### What stays with TLC

* Liveness: `FlushReturns`, `OperationsEnd`, `JobsLeave`, `StopsWhenTold`,
  `ServerAnswers`, `SessionAnswers`, `DownloadEnds`. Fairness and `ENABLED` are
  beyond the proof system.
* The properties of the findings, which are false.

## What the models found

**A restart trusts what is not yet durable** (`job_store_killed`,
`OutcomesRestored`). `save()` renames the new file over the old one and then
fsyncs the directory (`job_persistence.go:115-122`). If the process is killed in
between, the next one loads the renamed file, has nothing to change about it,
and so never fsyncs the directory: it shows a job as completed. After a power
loss the old directory entry may be back, the job is found running, and is
restored as failed. `docs/api-reference.md:436` says that completed jobs are
"Restored as `completed`", `docs/runbooks.md:284` that ended jobs keep "their
preserved state". No client that got an answer to its operation is affected
(`PromisesKept` holds with both kinds of crash): only readers of the second
process are.

**A recovered lecture that nobody hears of** (`watcher_preflight`,
`RecoveredAnnounced`). A start of the watcher first completes the jobs whose
media an interrupted run had published (`cli_watch.go:253-262`), and only then
looks for `ffmpeg` and logs in. When one of these fails, `prepareWatch` returns
without the recovery result; the stream gets `job.failed` with an empty cycle
(`cli_watch.go:178-192`). The next start finds nothing to recover, and the
lecture is skipped as committed: its `lecture.completed` is never written.
`README.md:605` of the program says that "Event-mode watcher runs carry each
recovered manifest across preflight and emit it immediately after `job.started`",
`docs/cli-events.md:56` that "Watcher startup recovery emits `lecture.completed`".
The library itself is right (`PublishedIsRecorded`, `ImplementsLedger`); a
consumer that builds on the event stream alone misses the artifact.

**A canceled download that does not return** (`download_cancel`,
`CancellationReturns`). `acquireMemory` checks the context and then waits
(`pipeline.go:187-190`) under `inFlightMu`; the goroutine that announces a
cancellation broadcasts without that mutex (`pipeline.go:158-162`). A worker that
has found the context alive and is not enrolled yet misses the broadcast. If the
parts that hold the budget are by then beyond the decrypt workers, which leave on
a canceled context, nobody signals again: the worker waits for ever, the results
are never closed, and `DownloadPlaylist` does not return.
`download_speed_test.go:175` calls that "DownloadPlaylist did not return promptly
after cancellation". Without such a waiter (`LateWaiter`) every pipeline ends
(`DownloadEnds`).

One more disagreement needs no run. `GetPlaylists` passes over a selected lecture
that has no stream of the wanted quality (`client.go:332-338`; it fails only when
none has one), and the executor takes the number of playlists for the number of
lectures (`job_executor.go:204`). `PlaylistsReturn` in `JobExecutor` does the same,
so a job of three lectures of which two have a stream ends as completed, at 100
percent, with two outputs. `docs/websocket-events.md:145` says of `job.completed`
"Emitted when all lectures finish successfully." What holds, and what
`CompletedIsComplete` states, is that every lecture that was offered a playlist is
done; a client has to compare the outputs with what it selected.

## What is not modelled

Of the job store:

* `load()` failing with an I/O error: the server does not start.
* `SetOutputs`, `UpdateJob` with several fields and `JobStore.Flush` are called
  by tests only; they are included where they cost nothing.
* Progress counts and their staleness rule: an ignored update is an
  `EarlyReturn`.
* Time: a debounce that is restarted forever by a stream of updates
  (`persistence_coordinator.go:157`) is possible in the model as it is in the
  code; no property promises that a publication without a flush is written while
  others keep coming.

Of the executor:

* retention while a job is being created (`CopyJob` may then find nothing and the
  job is never started), titles, outputs and error texts;
* a panic in a playlist worker, which no `recover` reaches: it ends the process,
  and what a restart makes of that is in `JobStore`;
* what the design accepts and the model shows: an outcome that cannot be
  persisted leaves the job running in the store, with nobody working on it,
  until the server is restarted (`OrphansExplained` says that nothing else does).

Of the watcher and the library:

* `--dry-run`, which takes the lock but changes nothing;
* several targets: one list of lectures stands for all of them; of a listing that
  fails for one target only the failed cycle is kept;
* adoption, manifests pinned by digest, playback state of the library and the
  migration of the database (`RecordManifests` and verification are in
  `ArtifactLibrary`, one file each);
* the locks and the reuse of one-shot downloads (they are in `CliDownload`);
* two downloads that write files of the same size, which a manifest cannot tell
  apart;
* what the design accepts and the model shows: a removed or replaced file between
  validation and commit ends the run as a durable failure; a download of the TUI
  that dies leaves its job running, as nothing recovers jobs of kind `download`;
  and a forced download that was interrupted before it published anything is
  recovered as completed, from the files of the earlier one.

Of the rest of the server: what a message says, request decoding, routes and
middleware, merging of job options, slides. The seams to the job modules are
these: the hub's broadcasters are the executor's `Broadcast`, which never waits;
`APIServer.Start` closes the store between the hub and the cleanup
(`CloseHubAndStore`, `CloseStore` in `JobStore`); the session a job uses is one
step of `JobExecutor`.

Of the client: redirect hooks of a caller, which production code does not set,
redaction of texts, the parsing of catalogs and playlists beyond what decides a
request. No stream in any lecture gives an empty list without an error, in the
code and in the model.

Of the interface: formatting of mpv's commands, socket set-up, the launch of the
child and the one-use bootstrap file; rendering and key bindings; several
front ends on one session. A proxy failure channel is never closed nor sent
`nil` by production code, so these branches of its receivers are left out.

Of downloading: decryption, rate limiting and the bodies of the proxy but for
their failures; gates between processes, which the code does not have; several
files per artifact.

Not modelled at all, because there is nothing in them for a model checker to
explore: configuration and secrets, paths and selection, the generated protocol
types and their generators, database set-up and migration, the diagnostics
command, scripts and packaging.

## The plan

1. *(done)* `AtomicFile`, `SnapshotFile`, `PersistenceCoordinator` and its proofs,
   `JobRegistry`, `JobStore`, `JobExecutor`.
2. *(done)* The rest of the server and the client: `APIServer` and its parts.
3. *(done)* Unattended downloads: `LibraryLedger`, `Library`, `Watcher`.
4. *(done)* The terminal interface: `TuiRuntime` and its parts.
5. *(done)* Downloading: `DownloadRuntime` and its parts.
6. *(done)* Proofs about the jobs of the server (`SnapshotFileProofs`,
   `PersistenceCoordinatorProofs`, `JobStoreProofs`, `JobExecutorProofs`), about
   the watcher and the library (`WatcherProofs`), about the rest of the server and
   the client (`APIServerProofs`), about downloading (`DownloadRuntimeProofs`) and
   about the terminal interface (`TuiRuntimeProofs`). Every safety invariant of the
   passing runs is a theorem.
7. A proof module stays beside its program and is free of recursive operators. What
   could follow is the detail listed under *What is not modelled*.

## Running the checks

```
tlc -workers 2 -config MCJobStore.cfg MCJobStore     # likewise the other runs
tlapm WatcherProofs.tla                              # likewise the other proofs
```
