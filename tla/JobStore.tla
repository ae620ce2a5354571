------------------------------- MODULE JobStore -------------------------------
(***************************************************************************)
(* internal/server/store.go, store_lifecycle.go, store_retention.go and    *)
(* store_persistence.go over the PersistenceCoordinator: the store's       *)
(* operations, their rollback when the flush fails, retention, shutdown,   *)
(* and the restart from what the file holds.                               *)
(*                                                                         *)
(* mutationMu is held from the first critical section of an operation to   *)
(* its end, so `txn` is the one operation in progress; a durable operation *)
(* also holds visibilityMu for writing, so that until it ends readers      *)
(* cannot see `jobs`.  The client picks the operation and its arguments    *)
(* when it gets the lock, which nothing earlier depends on.                *)
(*                                                                         *)
(* A job keeps its status, idempotency key and UpdatedAt.  UpdatedAt is    *)
(* the rank of a clock that never steps back.  Progress, titles, outputs,  *)
(* error texts and lecture counts are data: an operation that ignores a    *)
(* stale count is an EarlyReturn.                                          *)
(***************************************************************************)
EXTENDS PersistenceCoordinator, FiniteSets

CONSTANTS
  Main,         \* the goroutine that starts and stops the server
  JobIds,       \* the UUIDs that will be drawn, each once
  Keys,         \* idempotency keys
  NoKey,        \* the empty key
  Absent,       \* jobs[i] when the map has no entry i
  NoJob,        \* keys[k] when the index has no entry k
  MaxRetained,  \* maxRetainedTerminalJobs
  MaxCrashes,   \* bound: ends of the process
  CrashKinds    \* which of "kill" and "power" may end it

Clients == Publishers \ {Main}
Terminal == {"completed", "failed", "canceled"}
Statuses == {"pending", "running"} \cup Terminal
Job == [status : Statuses, key : Keys \cup {NoKey}, at : 0..Cardinality(JobIds)]
Maps == [JobIds -> Job \cup {Absent}]

(* What is saved is a map of jobs.  A process that restores jobs takes a   *)
(* snapshot of them, hence a revision at least.                            *)
ASSUME StoreAssumption ==
  /\ Main \in Publishers
  /\ MaxRetained \in Nat \ {0}
  /\ MaxRevision # 0
  /\ MaxCrashes \in Nat
  /\ CrashKinds \subseteq {"kill", "power"}
  /\ IsFiniteSet(JobIds)
  /\ NoKey \notin Keys
  /\ NoJob \notin JobIds
  /\ Absent \notin Job
  /\ Data = Maps
  /\ NoData = [i \in JobIds |-> Absent]

(* Absent is no entry of the JobRegistry below either. *)
ASSUME RegistryAssumption ==
  Absent \notin [state : {"active"} \cup Terminal, key : Keys \cup {NoKey}]

VARIABLES
  jobs,         \* JobStore.jobs
  keys,         \* JobStore.idempotencyKeys
  ctxDone,      \* the jobs whose context is canceled
  drawn,        \* the UUIDs used so far
  server,       \* the control state of Main
  storeClosed,  \* JobStore.closed
  producing,    \* who is between beginMutation and endMutation
  txn,          \* the operation that holds mutationMu
  promised,     \* history: what clients were told of each job
  crashes       \* ends of the process so far

storeVars == <<jobs, keys, ctxDone, drawn, server, storeClosed, producing, txn,
               promised, crashes>>
allVars == <<vars, storeVars>>

EmptyMap == [i \in JobIds |-> Absent]
NoIndex == [k \in Keys |-> NoJob]
NoTxn == [by |-> Main, id |-> NoJob, durable |-> FALSE, undoing |-> FALSE,
          jobs |-> EmptyMap, keys |-> NoIndex]

-------------------------------------------------------------------------------
(* Maps of jobs: m[i] = Absent when there is no entry i. *)

Present(m) == {i \in JobIds : m[i] # Absent}
TerminalIn(m) == {i \in Present(m) : m[i].status \in Terminal}

(* m with job i set and UpdatedAt = now: it becomes the newest of m. *)
Touched(m, i, job) ==
  LET Older(j) == {k \in Present(m) \ {i} : m[k].at <= m[j].at}
  IN  [j \in JobIds |->
         IF j = i THEN [job EXCEPT !.at = Cardinality(Present(m) \ {i}) + 1]
         ELSE IF m[j] = Absent THEN Absent
         ELSE [m[j] EXCEPT !.at = Cardinality(Older(j))]]

(* pruneTerminalJobsLocked, prunePersistedTerminalJobs: keep the newest. *)
Outdated(m) ==
  {i \in TerminalIn(m) :
     Cardinality({j \in TerminalIn(m) : m[j].at > m[i].at}) >= MaxRetained}
Prune(m) == [i \in JobIds |-> IF i \in Outdated(m) THEN Absent ELSE m[i]]

(* Wrong variant: retention leaves the keys in the index. *)
PruneNoKeys(m, index) == index

(* The index after pruning: the keys of the pruned jobs are deleted. *)
PruneKeys(m, index) ==
  [k \in Keys |-> IF \E i \in Outdated(m) : m[i].key = k THEN NoJob ELSE index[k]]

(* loadFromDisk *)
Interrupt(m) ==
  [i \in JobIds |-> IF i \in Present(m) \ TerminalIn(m)
                    THEN [m[i] EXCEPT !.status = "failed"] ELSE m[i]]
Restored(m) == Prune(Interrupt(m))
IndexOf(m) ==
  [k \in Keys |-> IF \E i \in Present(m) : m[i].key = k
                  THEN CHOOSE i \in Present(m) : m[i].key = k ELSE NoJob]

(* Wrong variant: readers do not wait. *)
DirtyView == jobs

(* What a reader sees: it waits for the durable operation in progress, so  *)
(* that operation is not there until it has ended.                         *)
View == IF txn.durable THEN txn.jobs ELSE jobs

-------------------------------------------------------------------------------
StoreInit ==
  /\ FileInit
  /\ CoordinatorInit
  /\ jobs = EmptyMap
  /\ keys = NoIndex
  /\ ctxDone = {}
  /\ drawn = {}
  /\ server = "up"
  /\ storeClosed = FALSE
  /\ producing = {}
  /\ txn = NoTxn
  /\ promised = [i \in JobIds |-> "nothing"]
  /\ crashes = 0

-------------------------------------------------------------------------------
(* The operations.  Lifecycle is what only Main changes. *)

lifecycleVars == <<server, storeClosed, crashes>>
workerOnlyVars == <<jobFile, pending, attemptVars, signalVars, closing>>

(* beginMutation up to the wait for mutationMu. *)
Begin(c) ==
  /\ server = "up"
  /\ ~storeClosed
  /\ c \notin producing
  /\ producing' = producing \cup {c}
  /\ UNCHANGED <<vars, lifecycleVars, jobs, keys, ctxDone, drawn, txn, promised>>

Locking(c) == c \in producing /\ txn = NoTxn

(* Unknown job, job already terminal, stale count, key already in use. *)
EarlyReturn(c) ==
  /\ Locking(c)
  /\ producing' = producing \ {c}
  /\ UNCHANGED <<vars, lifecycleVars, jobs, keys, ctxDone, drawn, txn, promised>>

(* The critical section of js.mu: the maps change, a snapshot of them is   *)
(* taken under the next revision and the caller goes to publish it.  The   *)
(* bound leaves a revision for the rollback.                               *)
Mutate(c, i, newJobs, newKeys, kind) ==
  /\ Locking(c)
  /\ revision + 1 < MaxRevision
  /\ revision' = revision + 1
  /\ jobs' = newJobs
  /\ keys' = newKeys
  /\ call' = [call EXCEPT ![c] =
       [Idle EXCEPT !.pc = "publish", !.kind = kind,
                    !.snapshot = [rev |-> revision + 1, data |-> newJobs]]]
  /\ txn' = [NoTxn EXCEPT !.by = c, !.id = i, !.durable = (kind = "publishAndFlush"),
                          !.jobs = IF kind = "publishAndFlush" THEN jobs ELSE EmptyMap,
                          !.keys = IF kind = "publishAndFlush" THEN keys ELSE NoIndex]
  /\ UNCHANGED <<workerOnlyVars, lifecycleVars, ctxDone, producing, promised>>

(* createJobWithKeyDurable: a key is free when its job is gone. *)
CreateJob(c, i, key) ==
  /\ i \notin drawn
  /\ key # NoKey => keys[key] \notin Present(jobs)
  /\ drawn' = drawn \cup {i}
  /\ Mutate(c, i, Touched(jobs, i, [status |-> "pending", key |-> key, at |-> 0]),
            IF key = NoKey THEN keys ELSE [keys EXCEPT ![key] = i], "publishAndFlush")

Active(i) == i \in Present(jobs) \ TerminalIn(jobs)

(* A status that readers may see before it is written. *)
SetStatus(c, i, status) ==
  /\ Active(i)
  /\ Mutate(c, i, Touched(jobs, i, [jobs[i] EXCEPT !.status = status]), keys, "publish")
  /\ UNCHANGED drawn

UpdateRunningIfActive(c, i) == SetStatus(c, i, "running")

(* A terminal status: retention is applied, and the operation is durable. *)
Finish(c, i, outcome) ==
  LET ended == Touched(jobs, i, [jobs[i] EXCEPT !.status = outcome])
  IN  /\ Active(i)
      /\ Mutate(c, i, Prune(ended), PruneKeys(ended, keys), "publishAndFlush")
      /\ UNCHANGED drawn

CompleteJob(c, i) == Finish(c, i, "completed")
FailJobIfNonTerminal(c, i) == Finish(c, i, "failed")
CancelJob(c, i) == Finish(c, i, "canceled")

UpdateJob(c, i, status) ==
  IF status \in Terminal THEN Finish(c, i, status) ELSE SetStatus(c, i, status)

(* SetFilteredLectures, SetOutputs (any job) and SetLectureProgress (an    *)
(* active one): only UpdatedAt matters here.                               *)
Annotate(c, i) ==
  /\ i \in Present(jobs)
  /\ Mutate(c, i, Touched(jobs, i, jobs[i]), keys, "publish")
  /\ UNCHANGED drawn

(* publish and flushTo on behalf of an operation. *)
Persist(c) ==
  /\ CallerStep(c)
  /\ UNCHANGED storeVars

(* The end of an operation: endMutation, and the locks released. *)
EndMutation(c) ==
  /\ call' = [call EXCEPT ![c] = Idle]
  /\ txn' = NoTxn
  /\ producing' = producing \ {c}
  /\ UNCHANGED <<workerOnlyVars, revision, lifecycleVars, jobs, keys, drawn>>

Returned(c) == txn.by = c /\ call[c].pc = "returned"

(* Wrong variant: the outcome of the flush is not looked at. *)
CommitUnwritten(c) ==
  /\ Returned(c)
  /\ txn.durable /\ ~txn.undoing
  /\ promised' = [promised EXCEPT ![txn.id] = IF @ = "nothing" THEN "created"
                                              ELSE jobs[txn.id].status]
  /\ UNCHANGED ctxDone
  /\ EndMutation(c)

(* The client is told, then the contexts of a canceled job and of what     *)
(* retention removed are canceled.                                         *)
Commit(c) ==
  /\ Returned(c)
  /\ txn.durable /\ ~txn.undoing
  /\ call[c].result = "ok"
  /\ promised' = [promised EXCEPT ![txn.id] = IF @ = "nothing" THEN "created"
                                              ELSE jobs[txn.id].status]
  /\ ctxDone' = ctxDone \cup {i \in {txn.id} : jobs[i].status = "canceled"}
                        \cup (Present(txn.jobs) \ Present(jobs))
  /\ EndMutation(c)

(* Wrong variant: the operation counts as ended before its rollback is written. *)
RollbackUnlocked(c) ==
  /\ Returned(c)
  /\ txn.durable /\ ~txn.undoing
  /\ call[c].result # "ok"
  /\ jobs' = txn.jobs
  /\ keys' = txn.keys
  /\ ctxDone' = ctxDone \cup (Present(jobs) \ Present(txn.jobs))
  /\ revision' = revision + 1
  /\ call' = [call EXCEPT ![c] =
       [Idle EXCEPT !.pc = "publish", !.kind = "publishAndFlush",
                    !.snapshot = [rev |-> revision + 1, data |-> txn.jobs]]]
  /\ txn' = [txn EXCEPT !.undoing = TRUE]
  /\ producing' = producing \ {c}
  /\ UNCHANGED <<workerOnlyVars, lifecycleVars, drawn, promised>>

(* Wrong variant: a failed operation cancels the context of its job. *)
RollbackCancels(c) ==
  /\ Returned(c)
  /\ txn.durable /\ ~txn.undoing
  /\ call[c].result # "ok"
  /\ jobs' = txn.jobs
  /\ keys' = txn.keys
  /\ ctxDone' = ctxDone \cup {txn.id}
  /\ revision' = revision + 1
  /\ call' = [call EXCEPT ![c] =
       [Idle EXCEPT !.pc = "publish", !.kind = "publishAndFlush",
                    !.snapshot = [rev |-> revision + 1, data |-> txn.jobs]]]
  /\ txn' = [txn EXCEPT !.undoing = TRUE]
  /\ UNCHANGED <<workerOnlyVars, lifecycleVars, drawn, producing, promised>>

(* Wrong variant: the maps are restored, the file is not. *)
RollbackUnpublished(c) ==
  /\ Returned(c)
  /\ txn.durable /\ ~txn.undoing
  /\ call[c].result # "ok"
  /\ jobs' = txn.jobs
  /\ keys' = txn.keys
  /\ ctxDone' = ctxDone \cup (Present(jobs) \ Present(txn.jobs))
  /\ revision' = revision + 1
  /\ call' = [call EXCEPT ![c] =
       [@ EXCEPT !.pc = "returned"]]
  /\ txn' = [txn EXCEPT !.undoing = TRUE]
  /\ UNCHANGED <<workerOnlyVars, lifecycleVars, drawn, producing, promised>>

(* rollbackMutation: a job just created is canceled, the maps are as       *)
(* before, and that is written too.                                        *)
Rollback(c) ==
  /\ Returned(c)
  /\ txn.durable /\ ~txn.undoing
  /\ call[c].result # "ok"
  /\ jobs' = txn.jobs
  /\ keys' = txn.keys
  /\ ctxDone' = ctxDone \cup (Present(jobs) \ Present(txn.jobs))
  /\ revision' = revision + 1
  /\ call' = [call EXCEPT ![c] =
       [Idle EXCEPT !.pc = "publish", !.kind = "publishAndFlush",
                    !.snapshot = [rev |-> revision + 1, data |-> txn.jobs]]]
  /\ txn' = [txn EXCEPT !.undoing = TRUE]
  /\ UNCHANGED <<workerOnlyVars, lifecycleVars, drawn, producing, promised>>

(* Wrong variant: a rollback that cannot be written never ends. *)
AbortIfWritten(c) ==
  /\ Returned(c)
  /\ txn.undoing
  /\ call[c].result = "ok"
  /\ EndMutation(c)
  /\ UNCHANGED <<ctxDone, promised>>

(* The rollback was written or not: the client is told of the failure. *)
Abort(c) ==
  /\ Returned(c)
  /\ txn.undoing
  /\ EndMutation(c)
  /\ UNCHANGED <<ctxDone, promised>>

(* Operations that do not wait ignore what publish answered. *)
Release(c) ==
  /\ Returned(c)
  /\ ~txn.durable
  /\ EndMutation(c)
  /\ UNCHANGED <<ctxDone, promised>>

-------------------------------------------------------------------------------
(* Main: the shutdown, and the next process *)

(* JobStore.Close *)
CloseStore ==
  /\ server = "up"
  /\ server' = "draining"
  /\ storeClosed' = TRUE
  /\ UNCHANGED <<vars, jobs, keys, ctxDone, drawn, producing, txn, promised, crashes>>

(* Wrong variant: the coordinator is closed under its producers. *)
CloseCoordinatorAtOnce ==
  /\ server = "draining"
  /\ StopWorker
  /\ server' = "closing"
  /\ UNCHANGED <<jobs, keys, ctxDone, drawn, storeClosed, producing, txn, promised, crashes>>

CloseCoordinator ==
  /\ server = "draining"
  /\ producing = {}
  /\ StopWorker
  /\ server' = "closing"
  /\ UNCHANGED <<jobs, keys, ctxDone, drawn, storeClosed, producing, txn, promised, crashes>>

CloseEnds ==
  /\ server = "closing"
  /\ CloseReturns
  /\ server' = "closed"
  /\ UNCHANGED <<jobs, keys, ctxDone, drawn, storeClosed, producing, txn, promised, crashes>>

(* Five seconds are over, in either wait of Close. *)
CloseExpires ==
  /\ \/ server = "draining" /\ UNCHANGED vars
     \/ server = "closing" /\ CloseTimesOut
  /\ server' = "abandoned"
  /\ UNCHANGED <<jobs, keys, ctxDone, drawn, storeClosed, producing, txn, promised, crashes>>

Unnumbered(s) == [s EXCEPT !.rev = 0]

(* NewJobStoreWithPersistence in the next process, whatever ended this one *)
(* and at whatever point of its life: "kill" leaves the operating system   *)
(* alone, "power" does not.  Restored jobs are written back if they differ.*)
Restart(kind) ==
  /\ crashes < MaxCrashes
  /\ crashes' = crashes + 1
  /\ \E found \in (IF kind = "kill" THEN {live} ELSE durable) :
       LET restored == Restored(found.data)
           changed == restored # found.data
       IN  /\ live' = Unnumbered(found)
           /\ durable' = IF kind = "kill" THEN {Unnumbered(s) : s \in durable}
                                          ELSE {Unnumbered(found)}
           /\ jobs' = restored
           /\ keys' = IndexOf(restored)
           /\ revision' = IF changed THEN 1 ELSE 0
           /\ server' = IF changed THEN "booting" ELSE "up"
           /\ call' = [c \in Callers |->
                IF c = Main /\ changed
                THEN [Idle EXCEPT !.pc = "publish", !.kind = "publishAndFlush",
                                  !.snapshot = [rev |-> 1, data |-> restored]]
                ELSE Idle]
  /\ SettleSave
  /\ pending' = NoSnapshot
  /\ writtenRevision' = 0
  /\ attemptRevision' = 0
  /\ attemptCount' = 0
  /\ lastErr' = FALSE
  /\ closed' = FALSE
  /\ wake' = FALSE
  /\ flush' = FALSE
  /\ worker' = "idle"
  /\ closing' = "open"
  /\ ctxDone' = {}
  /\ storeClosed' = FALSE
  /\ producing' = {}
  /\ txn' = NoTxn
  /\ UNCHANGED <<faults, drawn, promised>>

(* A failure to write the restored jobs is only logged. *)
BootDone ==
  /\ server = "booting"
  /\ call[Main].pc = "returned"
  /\ call' = [call EXCEPT ![Main] = Idle]
  /\ server' = "up"
  /\ UNCHANGED <<workerOnlyVars, revision, storeClosed, crashes,
                 jobs, keys, ctxDone, drawn, producing, txn, promised>>

-------------------------------------------------------------------------------
Operation(c) ==
  \/ \E i \in JobIds :
       \/ \E key \in Keys \cup {NoKey} : CreateJob(c, i, key)
       \/ UpdateRunningIfActive(c, i)
       \/ CompleteJob(c, i)
       \/ FailJobIfNonTerminal(c, i)
       \/ CancelJob(c, i)
       \/ \E status \in Statuses : UpdateJob(c, i, status)
       \/ Annotate(c, i)
  \/ EarlyReturn(c)

Progress(c) == Commit(c) \/ Rollback(c) \/ Abort(c) \/ Release(c)

StoreNext ==
  \/ Worker /\ UNCHANGED storeVars
  \/ \E c \in Clients : Begin(c) \/ Operation(c) \/ Progress(c)
  \/ \E c \in Publishers : Persist(c)
  \/ CloseStore
  \/ CloseCoordinator
  \/ CloseEnds
  \/ CloseExpires
  \/ \E kind \in CrashKinds : Restart(kind)
  \/ BootDone

StoreSpec == StoreInit /\ [][StoreNext]_allVars

(* As for the coordinator.  A goroutine that has begun an operation goes   *)
(* on with it, and mutationMu is handed to whoever waits long enough (Go's *)
(* mutexes are starvation-free).  Nothing forces an operation to begin,    *)
(* the server to close or a process to end.                                *)
StoreFairness ==
  /\ WF_allVars(Worker /\ UNCHANGED storeVars)
  /\ SF_allVars(TakeStop /\ UNCHANGED storeVars)
  /\ \A c \in Clients : SF_allVars(Operation(c) \/ Persist(c) \/ Progress(c))
  /\ WF_allVars(Persist(Main))

FairStoreSpec == StoreSpec /\ StoreFairness

-------------------------------------------------------------------------------
StoreTypeOK ==
  /\ TypeOK
  /\ jobs \in Maps
  /\ keys \in [Keys -> JobIds \cup {NoJob}]
  /\ ctxDone \subseteq drawn
  /\ drawn \subseteq JobIds
  /\ server \in {"booting", "up", "draining", "closing", "closed", "abandoned"}
  /\ storeClosed = (server \in {"draining", "closing", "closed", "abandoned"})
  /\ producing \subseteq Clients
  /\ txn # NoTxn => txn.by \in producing
  /\ promised \in [JobIds -> {"nothing", "created"} \cup Terminal]
  /\ crashes \in 0..MaxCrashes

(* i may be missing from m only because retention removed it. *)
Forgotten(m, i) == m[i] = Absent /\ Cardinality(TerminalIn(m)) = MaxRetained

(* What a client was told survives any crash from then on: a created job   *)
(* is in every file a load may find, an ended one with its outcome.        *)
PromisesKept ==
  \A s \in durable \cup {live}, i \in JobIds :
    promised[i] # "nothing" =>
      \/ Forgotten(s.data, i)
      \/ /\ s.data[i] # Absent
         /\ promised[i] \in Terminal => s.data[i].status = promised[i]

(* The key index is exact whenever an operation looks at it: a retry finds *)
(* its job as long as the job is remembered, and no key names two jobs.    *)
KeyIndexExact ==
  \A k \in Keys : {i \in Present(jobs) : jobs[i].key = k}
                   = (IF keys[k] = NoJob THEN {} ELSE {keys[k]})

(* A context is canceled only once its job is over for every reader: a     *)
(* cancellation that could not be persisted leaves the download running.   *)
CanceledOnlyIfOver ==
  \A i \in ctxDone : View[i] = Absent \/ View[i].status \in Terminal

(* An operation that beginMutation let in is never turned away by the      *)
(* coordinator, however a shutdown falls.                                  *)
NoneRefused == \A c \in Publishers : call[c].result # "closed"

(* A graceful shutdown leaves exactly the jobs in memory in the file, the  *)
(* coalesced and the rolled back operations included.                      *)
ClosedComplete == (server = "closed" /\ closing = "ok") => live.data = jobs

(* Every operation ends, through rollbacks and shutdowns. *)
OperationsEnd == \A c \in Clients : c \in producing ~> c \notin producing

(* "completed", "failed" and "canceled" are restored as what they were     *)
(* (docs/api-reference.md, "Job Persistence"): an outcome that a reader of *)
(* a running server saw is there in the next process too.                  *)
OutcomesRestored ==
  [][server # "booting" =>
       \A i \in TerminalIn(View) :
         \/ Forgotten(View', i)
         \/ View'[i] # Absent /\ View'[i].status = View[i].status]_View

-------------------------------------------------------------------------------
(* A map of jobs as the registry shows it. *)
Reading(m) ==
  [i \in JobIds |->
    IF m[i] = Absent THEN Absent
    ELSE [state |-> IF m[i].status \in Terminal THEN m[i].status ELSE "active",
          key |-> m[i].key]]

Registry == INSTANCE JobRegistry WITH registry <- Reading(View)

(* The store keeps the promise of JobRegistry. *)
ImplementsJobRegistry == Registry!Spec
===============================================================================
