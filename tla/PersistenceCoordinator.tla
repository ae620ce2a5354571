------------------------ MODULE PersistenceCoordinator ------------------------
(***************************************************************************)
(* internal/server/persistence_coordinator.go: one worker goroutine writes *)
(* the newest published snapshot; callers publish snapshots, wait until    *)
(* one is written (flushTo) and shut the worker down (close).              *)
(*                                                                         *)
(* A step is a critical section of pc.mu or a channel operation.  wake and *)
(* flush are the channels of capacity one; stop, done and the current      *)
(* `changed` channel are each closed once, so that                         *)
(*   stop is closed      iff  closed,                                      *)
(*   done is closed      iff  worker = "exited",                           *)
(*   a `changed` channel taken when attemptCount was n is closed           *)
(*                       iff  attemptCount > n.                            *)
(* The file is the one of AtomicFile.  A snapshot carries the revision it  *)
(* was taken at; revision 0 is the content found when the process started. *)
(***************************************************************************)
EXTENDS Naturals

CONSTANTS
  Publishers,   \* goroutines that publish snapshots and may wait for them
  Flushers,     \* goroutines that call JobStore.Flush, whose context may expire
  Data,         \* what a snapshot holds
  NoData,       \* what an absent file holds
  MaxRevision,  \* bound: snapshots taken in one run of the process
  MaxFaults     \* bound: saves that fail

ASSUME CoordinatorAssumption ==
  /\ NoData \in Data
  /\ MaxRevision \in Nat
  /\ MaxFaults \in Nat

Callers == Publishers \cup Flushers
Snapshots == [rev : Nat, data : Data]
NoSnapshot == [rev |-> 0, data |-> NoData]

VARIABLES
  live, durable, incoming, previous, phase,     \* the job file
  revision,         \* JobStore.revision: snapshots taken so far
  pending,          \* pending and pendingRevision
  writtenRevision, attemptRevision, attemptCount, lastErr,
  closed, wake, flush,
  worker,           \* the control state of run()
  call,             \* the control state and variables of each caller
  closing,          \* the control state of close()
  faults            \* failed saves so far

INSTANCE AtomicFile WITH Contents <- Snapshots, NoContent <- NoSnapshot

jobFile == <<live, durable, incoming, previous, phase>>
attemptVars == <<writtenRevision, attemptRevision, attemptCount, lastErr, faults>>
signalVars == <<closed, wake, flush, worker>>
coordinatorVars == <<revision, pending, attemptVars, signalVars, call, closing>>
vars == <<jobFile, coordinatorVars>>

WorkerStates == {"idle", "debounce", "saving", "lastSave", "exited"}
CallStates == {"idle", "publish", "wake", "begin", "check", "signal", "wait", "returned"}
CallKinds == {"publish", "publishAndFlush", "flush"}
Results == {"ok", "error", "closed", "canceled"}
CloseStates == {"open", "waiting", "ok", "error", "timeout"}
Calls == [pc : CallStates,
          snapshot : Snapshots,     \* the snapshot and revision asked for
          kind : CallKinds,
          initial : Nat,            \* initialAttemptCount
          seen : Nat,               \* attemptCount when `changed` was read
          result : Results]

Idle == [pc |-> "idle", snapshot |-> NoSnapshot, kind |-> "publish",
         initial |-> 0, seen |-> 0, result |-> "ok"]

CoordinatorInit ==
  /\ revision = 0
  /\ pending = NoSnapshot
  /\ writtenRevision = 0
  /\ attemptRevision = 0
  /\ attemptCount = 0
  /\ lastErr = FALSE
  /\ closed = FALSE
  /\ wake = FALSE
  /\ flush = FALSE
  /\ worker = "idle"
  /\ call = [c \in Callers |-> Idle]
  /\ closing = "open"
  /\ faults = 0

Init == FileInit /\ CoordinatorInit

-------------------------------------------------------------------------------
(* The worker: run() and writeLatest() *)

Selecting == worker \in {"idle", "debounce"}

(* writeLatest up to the call of save: nothing to do, or a save begins. *)
WriteLatest(during, after) ==
  IF pending.rev <= writtenRevision
  THEN /\ worker' = after
       /\ UNCHANGED jobFile
  ELSE /\ worker' = during
       /\ BeginSave(pending)

(* Wrong variant: shutting down without the last write. *)
TakeStopWithoutWriting ==
  /\ Selecting
  /\ closed
  /\ worker' = "exited"
  /\ UNCHANGED <<jobFile, revision, pending, attemptVars, closed, wake, flush, call, closing>>

TakeStop ==
  /\ Selecting
  /\ closed
  /\ WriteLatest("lastSave", "exited")
  /\ UNCHANGED <<revision, pending, attemptVars, closed, wake, flush, call, closing>>

TakeFlush ==
  /\ Selecting
  /\ flush
  /\ flush' = FALSE
  /\ WriteLatest("saving", "idle")
  /\ UNCHANGED <<revision, pending, attemptVars, closed, wake, call, closing>>

(* Starts the debounce timer, or starts it again. *)
TakeWake ==
  /\ Selecting
  /\ wake
  /\ wake' = FALSE
  /\ worker' = "debounce"
  /\ UNCHANGED <<jobFile, revision, pending, attemptVars, closed, flush, call, closing>>

TimerFires ==
  /\ worker = "debounce"
  /\ WriteLatest("saving", "idle")
  /\ UNCHANGED <<revision, pending, attemptVars, closed, wake, flush, call, closing>>

ReplaceFile ==
  /\ Replace
  /\ UNCHANGED coordinatorVars

RetractFile ==
  /\ faults < MaxFaults
  /\ Retract
  /\ UNCHANGED coordinatorVars

(* Wrong variant: the written revision is one too high. *)
RecordAttemptOffByOne(err) ==
  /\ attemptRevision' = incoming.rev
  /\ attemptCount' = attemptCount + 1
  /\ lastErr' = err
  /\ writtenRevision' = IF err THEN writtenRevision ELSE incoming.rev + 1
  /\ wake' = (wake \/ pending.rev > incoming.rev)
  /\ worker' = IF worker = "lastSave" THEN "exited" ELSE "idle"
  /\ UNCHANGED <<revision, pending, closed, flush, call, closing>>

(* Wrong variant: a failed save neither counts nor wakes the flushers. *)
RecordAttemptSilentFailure(err) ==
  /\ attemptRevision' = incoming.rev
  /\ attemptCount' = IF err THEN attemptCount ELSE attemptCount + 1
  /\ lastErr' = err
  /\ writtenRevision' = IF err THEN writtenRevision ELSE incoming.rev
  /\ wake' = (wake \/ pending.rev > incoming.rev)
  /\ worker' = IF worker = "lastSave" THEN "exited" ELSE "idle"
  /\ UNCHANGED <<revision, pending, closed, flush, call, closing>>

(* writeLatest after save returned: the outcome is recorded, every flusher *)
(* is woken, and so is the worker when a newer snapshot arrived meanwhile. *)
RecordAttempt(err) ==
  /\ attemptRevision' = incoming.rev
  /\ attemptCount' = attemptCount + 1
  /\ lastErr' = err
  /\ writtenRevision' = IF err THEN writtenRevision ELSE incoming.rev
  /\ wake' = (wake \/ pending.rev > incoming.rev)
  /\ worker' = IF worker = "lastSave" THEN "exited" ELSE "idle"
  /\ UNCHANGED <<revision, pending, closed, flush, call, closing>>

SaveSucceeds ==
  /\ SaveOk
  /\ RecordAttempt(FALSE)
  /\ UNCHANGED faults

SaveFails ==
  /\ faults < MaxFaults
  /\ faults' = faults + 1
  /\ SaveErr
  /\ RecordAttempt(TRUE)

Worker ==
  \/ TakeStop
  \/ TakeFlush
  \/ TakeWake
  \/ TimerFires
  \/ ReplaceFile
  \/ SaveSucceeds
  \/ SaveFails
  \/ RetractFile

-------------------------------------------------------------------------------
(* The callers: publish() and flushTo() *)

StepTo(c, pc) == call' = [call EXCEPT ![c].pc = pc]
Answer(c, result) ==
  call' = [call EXCEPT ![c] = [@ EXCEPT !.pc = "returned", !.result = result,
                                        !.initial = 0, !.seen = 0]]
OnlyCall == UNCHANGED <<jobFile, revision, pending, attemptVars, signalVars, closing>>

(* publish: the newest snapshot wins. *)
Publish(c) ==
  /\ call[c].pc = "publish"
  /\ IF closed
     THEN Answer(c, "closed") /\ UNCHANGED pending
     ELSE /\ pending' = IF call[c].snapshot.rev > pending.rev
                        THEN call[c].snapshot ELSE pending
          /\ StepTo(c, "wake")
  /\ UNCHANGED <<jobFile, revision, attemptVars, signalVars, closing>>

(* Wrong variant: only durable operations wake the worker. *)
SignalWakeIfDurable(c) ==
  /\ call[c].pc = "wake"
  /\ wake' = (wake \/ call[c].kind # "publish")
  /\ IF call[c].kind = "publishAndFlush" THEN StepTo(c, "begin") ELSE Answer(c, "ok")
  /\ UNCHANGED <<jobFile, revision, pending, attemptVars, closed, flush, worker, closing>>

SignalWake(c) ==
  /\ call[c].pc = "wake"
  /\ wake' = TRUE
  /\ IF call[c].kind = "publishAndFlush" THEN StepTo(c, "begin") ELSE Answer(c, "ok")
  /\ UNCHANGED <<jobFile, revision, pending, attemptVars, closed, flush, worker, closing>>

BeginFlush(c) ==
  /\ call[c].pc = "begin"
  /\ IF call[c].snapshot.rev = 0
     THEN Answer(c, "ok")
     ELSE call' = [call EXCEPT ![c].pc = "check", ![c].initial = attemptCount]
  /\ OnlyCall

(* The loop of flushTo goes round when the `changed` channel it took is closed. *)
Checking(c) ==
  \/ call[c].pc = "check"
  \/ call[c].pc = "wait" /\ attemptCount > call[c].seen

(* Wrong variant: an attempt counts as a write. *)
CheckFlushAnyAttempt(c) ==
  LET rev == call[c].snapshot.rev
  IN  /\ Checking(c)
      /\ IF writtenRevision >= rev \/ (attemptRevision >= rev /\ attemptCount > call[c].initial)
         THEN Answer(c, "ok")
         ELSE call' = [call EXCEPT ![c].pc = "signal", ![c].seen = attemptCount]
      /\ OnlyCall

CheckFlush(c) ==
  LET rev == call[c].snapshot.rev
  IN  /\ Checking(c)
      /\ IF writtenRevision >= rev
         THEN Answer(c, "ok")
         ELSE IF attemptRevision >= rev /\ attemptCount > call[c].initial
         THEN Answer(c, IF lastErr THEN "error" ELSE "ok")
         ELSE call' = [call EXCEPT ![c].pc = "signal", ![c].seen = attemptCount]
      /\ OnlyCall

SignalFlush(c) ==
  /\ call[c].pc = "signal"
  /\ flush' = TRUE
  /\ StepTo(c, "wait")
  /\ UNCHANGED <<jobFile, revision, pending, attemptVars, closed, wake, worker, closing>>

SeeExit(c) ==
  /\ call[c].pc = "wait"
  /\ worker = "exited"
  /\ Answer(c, IF writtenRevision >= call[c].snapshot.rev THEN "ok"
               ELSE IF lastErr THEN "error"
               ELSE IF attemptRevision < call[c].snapshot.rev THEN "closed" ELSE "ok")
  /\ OnlyCall

CallerStep(c) ==
  \/ Publish(c)
  \/ SignalWake(c)
  \/ BeginFlush(c)
  \/ CheckFlush(c)
  \/ SignalFlush(c)
  \/ SeeExit(c)

(* The context of a Flush expires while it waits.  publishAndFlush waits   *)
(* under context.Background().                                             *)
GiveUp(c) ==
  /\ call[c].pc = "wait"
  /\ call[c].kind = "flush"
  /\ Answer(c, "canceled")
  /\ OnlyCall

Return(c) ==
  /\ call[c].pc = "returned"
  /\ call' = [call EXCEPT ![c] = Idle]
  /\ OnlyCall

-------------------------------------------------------------------------------
(* close() *)

StopWorker ==
  /\ closing = "open"
  /\ closed' = TRUE
  /\ closing' = "waiting"
  /\ UNCHANGED <<jobFile, revision, pending, attemptVars, wake, flush, worker, call>>

CloseReturns ==
  /\ closing = "waiting"
  /\ worker = "exited"
  /\ closing' = IF lastErr THEN "error" ELSE "ok"
  /\ UNCHANGED <<jobFile, revision, pending, attemptVars, signalVars, call>>

(* Only under the deadline JobStore.Close is given. *)
CloseTimesOut ==
  /\ closing = "waiting"
  /\ closing' = "timeout"
  /\ UNCHANGED <<jobFile, revision, pending, attemptVars, signalVars, call>>

-------------------------------------------------------------------------------
(* Its users.  JobStore replaces this part by the store's own operations,  *)
(* one at a time under mutationMu; several Publishers here may publish a   *)
(* snapshot after a later one.                                             *)

TakeSnapshot(c, data, kind) ==
  /\ revision < MaxRevision
  /\ call[c].pc = "idle"
  /\ revision' = revision + 1
  /\ call' = [call EXCEPT ![c] =
       [Idle EXCEPT !.pc = "publish", !.kind = kind,
                    !.snapshot = [rev |-> revision + 1, data |-> data]]]
  /\ UNCHANGED <<jobFile, pending, attemptVars, signalVars, closing>>

(* JobStore.Flush: whatever revision is current, published yet or not. *)
FlushCurrent(c) ==
  /\ call[c].pc = "idle"
  /\ call' = [call EXCEPT ![c] = [Idle EXCEPT !.pc = "begin", !.kind = "flush", !.snapshot.rev = revision]]
  /\ OnlyCall

Next ==
  \/ Worker
  \/ \E c \in Callers :
       \/ CallerStep(c)
       \/ Return(c)
  \/ \E c \in Publishers, data \in Data, kind \in {"publish", "publishAndFlush"} :
       TakeSnapshot(c, data, kind)
  \/ \E c \in Flushers : FlushCurrent(c) \/ GiveUp(c)
  \/ StopWorker
  \/ CloseReturns

Spec == Init /\ [][Next]_vars

(* Goroutines that can run do run, and save() returns.  A select takes     *)
(* each of its ready cases now and then: stop is not passed over forever.  *)
(* Nothing forces a caller to publish or the server to close.              *)
Fairness ==
  /\ WF_vars(Worker)
  /\ SF_vars(TakeStop)
  /\ \A c \in Callers : WF_vars(CallerStep(c))
  /\ WF_vars(CloseReturns)

FairSpec == Spec /\ Fairness

-------------------------------------------------------------------------------
(* Revisions only lag behind the counter they come from, and control       *)
(* states are those of the code.                                           *)
TypeOK ==
  /\ FileTypeOK
  /\ revision \in 0..MaxRevision
  /\ pending \in Snapshots
  /\ pending.rev \in 0..revision
  /\ attemptRevision \in 0..pending.rev
  /\ writtenRevision \in 0..attemptRevision
  /\ attemptCount \in Nat
  /\ lastErr \in BOOLEAN
  /\ closed \in BOOLEAN
  /\ wake \in BOOLEAN
  /\ flush \in BOOLEAN
  /\ worker \in WorkerStates
  /\ call \in [Callers -> Calls]
  /\ closing \in CloseStates
  /\ faults \in Nat

(* Whatever happens to the machine now, a load finds something at least as *)
(* new as the revision. *)
DurableFrom(rev) == \A s \in durable \cup {live} : s.rev >= rev

(* flushTo answers nil only when the revision asked for, or a later one,   *)
(* is what every load from now on will find.                               *)
FlushAckDurable ==
  \A c \in Callers :
    (call[c].pc = "returned" /\ call[c].kind # "publish" /\ call[c].result = "ok")
      => DurableFrom(call[c].snapshot.rev)

(* The worker never sleeps on a snapshot it was given: with no signal on   *)
(* its way, either everything published is written or the newest snapshot  *)
(* has been tried and failed.                                              *)
NothingForgotten ==
  (worker = "idle" /\ ~wake /\ ~flush /\ ~closed
     /\ \A c \in Callers : call[c].pc # "wake")
   => \/ writtenRevision = pending.rev
      \/ lastErr /\ attemptRevision = pending.rev

(* close() answers nil only when everything ever accepted by publish is    *)
(* durable: a graceful shutdown loses no coalesced write.                  *)
CloseFlushes ==
  closing = "ok" => /\ writtenRevision = pending.rev
                    /\ DurableFrom(pending.rev)

(* Every flushTo returns, however the saves, the other callers and a       *)
(* shutdown fall.                                                          *)
FlushReturns ==
  \A c \in Callers :
    call[c].pc \in {"begin", "check", "signal", "wait"} ~> call[c].pc = "returned"
===============================================================================
