---------------------- MODULE PersistenceCoordinatorProofs ----------------------
(* The safety properties of PersistenceCoordinator, for any number of      *)
(* callers, any data and any bounds.                                       *)
EXTENDS PersistenceCoordinator, TLAPS

(* The save in progress, the worker and the revisions agree: what is being *)
(* saved is newer than what is written, and nothing that a load could find *)
(* is older.                                                               *)
SaveInv ==
  /\ (phase = "idle") = (worker \notin {"saving", "lastSave"})
  /\ \A s \in durable : s.rev >= writtenRevision
  /\ live.rev >= writtenRevision
  /\ phase # "idle" => /\ incoming.rev > writtenRevision
                       /\ incoming.rev <= pending.rev
                       /\ previous.rev >= writtenRevision
  /\ phase = "replaced" => live = incoming
  /\ ~lastErr => writtenRevision = attemptRevision

(* No caller is ahead of the revisions taken, and an answer to a flush     *)
(* that is not an error was not given early.                               *)
CallInv ==
  \A c \in Callers :
    /\ call[c].snapshot.rev <= revision
    /\ call[c].pc \in {"publish", "wake"} => call[c].kind # "flush"
    /\ (call[c].pc = "returned" /\ call[c].kind # "publish" /\ call[c].result = "ok")
         => call[c].snapshot.rev <= writtenRevision

(* Once it was told to stop, the worker ends with the newest snapshot      *)
(* written or its last error known.                                        *)
StopInv ==
  /\ worker = "lastSave" => closed /\ incoming.rev = pending.rev
  /\ worker = "exited" => closed /\ (lastErr \/ writtenRevision = pending.rev)
  /\ closing = "ok" => worker = "exited" /\ writtenRevision = pending.rev

IInv == TypeOK /\ SaveInv /\ CallInv /\ StopInv /\ NothingForgotten

-------------------------------------------------------------------------------
USE CoordinatorAssumption DEF CoordinatorAssumption

(* Revision 0 stands for the content found by the process.                 *)
LEMMA SnapshotTypes ==
  /\ NoSnapshot \in Snapshots
  /\ NoSnapshot.rev = 0
  /\ \A s \in Snapshots : s.rev \in Nat
BY DEF Snapshots, NoSnapshot

(* A goroutine outside publish and flushTo.                                *)
LEMMA IdleCall ==
  /\ Idle \in Calls
  /\ Idle.pc = "idle" /\ Idle.kind = "publish" /\ Idle.snapshot.rev = 0
BY SnapshotTypes DEF Idle, Calls, CallStates, CallKinds, Results, NoSnapshot

(* The invariant holds when the process starts.                            *)
LEMMA InitIInv == Init => IInv
<1> SUFFICES ASSUME Init PROVE IInv
  OBVIOUS
<1> USE DEF Init, FileInit, CoordinatorInit
<1>1. TypeOK
  <2>1. FileTypeOK
    BY SnapshotTypes DEF FileTypeOK
  <2>2. call \in [Callers -> Calls]
    BY IdleCall
  <2>3. /\ revision \in 0..MaxRevision
        /\ pending \in Snapshots
        /\ pending.rev \in 0..revision
        /\ attemptRevision \in 0..pending.rev
        /\ writtenRevision \in 0..attemptRevision
        /\ attemptCount \in Nat
        /\ faults \in Nat
    BY SnapshotTypes
  <2>4. /\ lastErr \in BOOLEAN
        /\ closed \in BOOLEAN
        /\ wake \in BOOLEAN
        /\ flush \in BOOLEAN
    OBVIOUS
  <2>5. worker \in WorkerStates /\ closing \in CloseStates
    BY DEF WorkerStates, CloseStates
  <2> QED
    BY <2>1, <2>2, <2>3, <2>4, <2>5 DEF TypeOK
<1>2. SaveInv
  BY SnapshotTypes DEF SaveInv
<1>3. CallInv
  BY IdleCall DEF CallInv
<1>4. StopInv /\ NothingForgotten
  BY SnapshotTypes DEF StopInv, NothingForgotten
<1> QED
  BY <1>1, <1>2, <1>3, <1>4 DEF IInv

-------------------------------------------------------------------------------
(* Starting or skipping a save keeps the file and the revisions agreeing.  *)
LEMMA WriteLatestInv ==
  ASSUME TypeOK, SaveInv, Selecting,
         NEW during \in {"saving", "lastSave"}, NEW after \in {"idle", "exited"},
         WriteLatest(during, after),
         UNCHANGED <<pending, attemptVars>>
  PROVE  /\ FileTypeOK'
         /\ SaveInv'
         /\ worker' \in {during, after}
         /\ worker' = during => incoming' = pending
         /\ worker' = after => writtenRevision = pending.rev
<1> USE DEF Selecting, WriteLatest, SaveInv, attemptVars
<1>1. phase = "idle"
  OBVIOUS
<1>2. pending \in Snapshots /\ pending.rev \in Nat /\ writtenRevision \in Nat
      /\ writtenRevision <= pending.rev /\ live \in Snapshots
  BY SnapshotTypes DEF TypeOK, FileTypeOK
<1>3. CASE pending.rev <= writtenRevision
  BY <1>1, <1>2, <1>3 DEF jobFile, TypeOK, FileTypeOK
<1>4. CASE pending.rev > writtenRevision
  <2>1. worker' = during /\ BeginSave(pending)
    BY <1>2, <1>4
  <2>2. FileTypeOK'
    BY <2>1, <1>2 DEF BeginSave, TypeOK, FileTypeOK
  <2> QED
    BY <2>1, <2>2, <1>2, <1>4 DEF BeginSave
<1> QED
  BY <1>2, <1>3, <1>4

(* What a completed save leaves, written or failed.                        *)
LEMMA SaveEndsInv ==
  ASSUME TypeOK, SaveInv, StopInv, NothingForgotten,
         SaveSucceeds \/ SaveFails
  PROVE  /\ TypeOK'
         /\ SaveInv'
         /\ StopInv'
         /\ NothingForgotten'
         /\ writtenRevision' >= writtenRevision
<1> USE DEF SaveInv, StopInv
<1>1. /\ incoming \in Snapshots /\ incoming.rev \in Nat /\ previous \in Snapshots
      /\ live \in Snapshots /\ live.rev \in Nat
      /\ writtenRevision \in Nat /\ pending.rev \in Nat
  BY SnapshotTypes DEF TypeOK, FileTypeOK
<1>2. phase # "idle"
  BY DEF SaveSucceeds, SaveFails, SaveOk, SaveErr, FailBeforeReplace, FailAfterReplace
<1>3. /\ worker \in {"saving", "lastSave"}
      /\ incoming.rev > writtenRevision /\ incoming.rev <= pending.rev
  BY <1>2
<1>4. CASE SaveSucceeds
  <2>1. /\ live = incoming /\ live' = incoming /\ durable' = {incoming}
        /\ phase' = "idle" /\ incoming' = NoSnapshot /\ previous' = NoSnapshot
        /\ faults' = faults
    BY <1>4 DEF SaveSucceeds, SaveOk, SettleSave
  <2>2. /\ attemptRevision' = incoming.rev /\ writtenRevision' = incoming.rev
        /\ attemptCount' = attemptCount + 1 /\ lastErr' = FALSE
        /\ wake' = (wake \/ pending.rev > incoming.rev)
        /\ worker' = IF worker = "lastSave" THEN "exited" ELSE "idle"
        /\ UNCHANGED <<revision, pending, closed, flush, call, closing>>
    BY <1>4 DEF SaveSucceeds, RecordAttempt
  <2>3. FileTypeOK'
    BY <2>1, <1>1, SnapshotTypes DEF FileTypeOK
  <2>4. TypeOK'
    <3>1. wake' \in BOOLEAN /\ lastErr' \in BOOLEAN
      BY <2>2
    <3> QED
      BY <2>1, <2>2, <2>3, <3>1, <1>1, <1>3 DEF TypeOK, WorkerStates
  <2>5. SaveInv'
    BY <2>1, <2>2, <1>1, <1>3
  <2>6. StopInv'
    BY <2>1, <2>2, <1>1, <1>3
  <2>7. NothingForgotten'
    <3>1. ~wake' => ~(pending.rev > incoming.rev)
      BY <2>2
    <3>2. ~wake' => pending.rev = incoming.rev
      BY <3>1, <1>1, <1>3
    <3> QED
      BY <2>2, <3>2 DEF NothingForgotten
  <2> QED
    BY <2>2, <2>4, <2>5, <2>6, <2>7, <1>1, <1>3
<1>5. CASE SaveFails
  <2>1. /\ live' = live /\ durable' \in {durable, {live}}
        /\ phase' = "idle" /\ incoming' = NoSnapshot /\ previous' = NoSnapshot
        /\ faults' = faults + 1
    BY <1>5 DEF SaveFails, SaveErr, FailBeforeReplace, FailAfterReplace, SettleSave
  <2>2. /\ attemptRevision' = incoming.rev /\ writtenRevision' = writtenRevision
        /\ attemptCount' = attemptCount + 1 /\ lastErr' = TRUE
        /\ wake' = (wake \/ pending.rev > incoming.rev)
        /\ worker' = IF worker = "lastSave" THEN "exited" ELSE "idle"
        /\ UNCHANGED <<revision, pending, closed, flush, call, closing>>
    BY <1>5 DEF SaveFails, RecordAttempt
  <2>3. FileTypeOK'
    BY <2>1, <1>1, SnapshotTypes DEF FileTypeOK, TypeOK
  <2>4. TypeOK'
    <3>1. wake' \in BOOLEAN /\ lastErr' \in BOOLEAN
      BY <2>2
    <3> QED
      BY <2>1, <2>2, <2>3, <3>1, <1>1, <1>3 DEF TypeOK, WorkerStates
  <2>5. SaveInv'
    BY <2>1, <2>2, <1>1, <1>3
  <2>6. StopInv'
    BY <2>1, <2>2, <1>1, <1>3
  <2>7. NothingForgotten'
    <3>1. ~wake' => ~(pending.rev > incoming.rev)
      BY <2>2
    <3>2. ~wake' => pending.rev = incoming.rev
      BY <3>1, <1>1, <1>3
    <3> QED
      BY <2>2, <3>2 DEF NothingForgotten
  <2> QED
    BY <2>2, <2>4, <2>5, <2>6, <2>7, <1>1, <1>3
<1> QED
  BY <1>4, <1>5

-------------------------------------------------------------------------------
(* What a caller's step leaves of its own call, and of the others'.        *)
Others(c) == \A d \in Callers \ {c} : call'[d] = call[d]

(* A step that only moves a caller to another place of its call keeps the  *)
(* invariant.                                                              *)
LEMMA StepToCall ==
  ASSUME call \in [Callers -> Calls], NEW c \in Callers,
         NEW pc \in CallStates, StepTo(c, pc)
  PROVE  /\ call' \in [Callers -> Calls]
         /\ call'[c].pc = pc
         /\ call'[c].kind = call[c].kind
         /\ call'[c].snapshot = call[c].snapshot
         /\ Others(c)
BY DEF StepTo, Calls, Others

(* An answer to a caller keeps the invariant when what it promises holds.  *)
LEMMA AnswerCall ==
  ASSUME call \in [Callers -> Calls], NEW c \in Callers,
         NEW result \in Results, Answer(c, result)
  PROVE  /\ call' \in [Callers -> Calls]
         /\ call'[c].pc = "returned"
         /\ call'[c].result = result
         /\ call'[c].kind = call[c].kind
         /\ call'[c].snapshot = call[c].snapshot
         /\ Others(c)
<1> DEFINE answered == [call[c] EXCEPT !.pc = "returned", !.result = result,
                                       !.initial = 0, !.seen = 0]
<1>1. call' = [call EXCEPT ![c] = answered]
  BY DEF Answer
<1>2. /\ answered \in Calls
      /\ answered.pc = "returned"
      /\ answered.result = result
      /\ answered.kind = call[c].kind
      /\ answered.snapshot = call[c].snapshot
  BY DEF Calls, CallStates
<1> HIDE DEF answered
<1> QED
  BY <1>1, <1>2 DEF Others

(* A step that only moves the call of c preserves the invariant when that  *)
(* call keeps to CallInv and does not take back a wake-up.                 *)
LEMMA OnlyCallInv ==
  ASSUME IInv, OnlyCall, NEW c \in Callers,
         call' \in [Callers -> Calls], Others(c),
         call[c].pc # "wake",
         call'[c].snapshot.rev <= revision,
         call'[c].pc \in {"publish", "wake"} => call'[c].kind # "flush",
         (call'[c].pc = "returned" /\ call'[c].kind # "publish" /\ call'[c].result = "ok")
            => call'[c].snapshot.rev <= writtenRevision
  PROVE  IInv'
<1> USE DEF OnlyCall, jobFile, attemptVars, signalVars
<1>1. TypeOK'
  BY DEF IInv, TypeOK, FileTypeOK
<1>2. SaveInv'
  BY DEF IInv, SaveInv
<1>3. CallInv'
  BY DEF IInv, CallInv, Others
<1>4. StopInv'
  BY DEF IInv, StopInv
<1>5. NothingForgotten'
  <2>1. (\A d \in Callers : call'[d].pc # "wake") => (\A d \in Callers : call[d].pc # "wake")
    BY DEF Others
  <2> QED
    BY <2>1 DEF IInv, NothingForgotten
<1> QED
  BY <1>1, <1>2, <1>3, <1>4, <1>5 DEF IInv

-------------------------------------------------------------------------------
(* Every step of the worker preserves the invariant.                       *)
LEMMA WorkerIInv ==
  ASSUME IInv, Worker
  PROVE  IInv'
<1> USE DEF IInv
<1>1. CASE TakeStop
  <2>1. /\ FileTypeOK' /\ SaveInv' /\ worker' \in {"lastSave", "exited"}
        /\ worker' = "lastSave" => incoming' = pending
        /\ worker' = "exited" => writtenRevision = pending.rev
    BY <1>1, WriteLatestInv DEF TakeStop
  <2>2. UNCHANGED <<revision, pending, attemptVars, closed, wake, flush, call, closing>> /\ closed
    BY <1>1 DEF TakeStop
  <2>3. TypeOK'
    BY <2>1, <2>2 DEF TypeOK, WorkerStates, attemptVars
  <2>4. StopInv'
    <3>1. closing # "ok"
      BY <1>1 DEF TakeStop, Selecting, StopInv
    <3> QED
      BY <3>1, <2>1, <2>2 DEF StopInv, attemptVars
  <2> QED
    BY <2>1, <2>2, <2>3, <2>4 DEF CallInv, NothingForgotten, attemptVars
<1>2. CASE TakeFlush
  <2>1. /\ FileTypeOK' /\ SaveInv' /\ worker' \in {"saving", "idle"}
        /\ worker' = "idle" => writtenRevision = pending.rev
    BY <1>2, WriteLatestInv DEF TakeFlush
  <2>2. UNCHANGED <<revision, pending, attemptVars, closed, wake, call, closing>> /\ flush' = FALSE
    BY <1>2 DEF TakeFlush
  <2>3. TypeOK'
    BY <2>1, <2>2 DEF TypeOK, WorkerStates, attemptVars
  <2>4. StopInv'
    BY <1>2, <2>1, <2>2 DEF TakeFlush, Selecting, StopInv, attemptVars
  <2> QED
    BY <2>1, <2>2, <2>3, <2>4 DEF CallInv, NothingForgotten, attemptVars
<1>3. CASE TakeWake
  <2>1. /\ UNCHANGED <<jobFile, revision, pending, attemptVars, closed, flush, call, closing>>
        /\ wake' = FALSE /\ worker' = "debounce" /\ worker \in {"idle", "debounce"}
    BY <1>3 DEF TakeWake, Selecting
  <2>2. TypeOK'
    BY <2>1 DEF TypeOK, FileTypeOK, WorkerStates, attemptVars, jobFile
  <2>3. SaveInv'
    BY <2>1 DEF SaveInv, attemptVars, jobFile
  <2> QED
    BY <2>1, <2>2, <2>3 DEF CallInv, StopInv, NothingForgotten, attemptVars
<1>4. CASE TimerFires
  <2>0. Selecting
    BY <1>4 DEF TimerFires, Selecting
  <2>1. /\ FileTypeOK' /\ SaveInv' /\ worker' \in {"saving", "idle"}
        /\ worker' = "idle" => writtenRevision = pending.rev
    BY <1>4, <2>0, WriteLatestInv DEF TimerFires
  <2>2. UNCHANGED <<revision, pending, attemptVars, closed, wake, flush, call, closing>>
    BY <1>4 DEF TimerFires
  <2>3. TypeOK'
    BY <2>1, <2>2 DEF TypeOK, WorkerStates, attemptVars
  <2>4. StopInv'
    BY <2>0, <2>1, <2>2 DEF Selecting, StopInv, attemptVars
  <2> QED
    BY <2>1, <2>2, <2>3, <2>4 DEF CallInv, NothingForgotten, attemptVars
<1>5. CASE ReplaceFile
  <2>1. /\ live' = incoming /\ durable' = durable \cup {incoming} /\ phase' = "replaced"
        /\ phase = "writing" /\ UNCHANGED <<incoming, previous>>
        /\ UNCHANGED coordinatorVars
    BY <1>5 DEF ReplaceFile, Replace
  <2>2. TypeOK'
    BY <2>1 DEF TypeOK, FileTypeOK, coordinatorVars, attemptVars, signalVars
  <2>3. SaveInv'
    <3>1. incoming.rev >= writtenRevision
      BY <2>1, SnapshotTypes DEF SaveInv, TypeOK, FileTypeOK
    <3> QED
      BY <2>1, <3>1 DEF SaveInv, coordinatorVars, attemptVars, signalVars
  <2> QED
    BY <2>1, <2>2, <2>3
    DEF CallInv, StopInv, NothingForgotten, coordinatorVars, attemptVars, signalVars
<1>6. CASE RetractFile
  <2>1. /\ live' = previous /\ phase' = "retracted" /\ phase = "replaced"
        /\ UNCHANGED <<durable, incoming, previous>> /\ UNCHANGED coordinatorVars
    BY <1>6 DEF RetractFile, Retract
  <2>2. TypeOK'
    BY <2>1 DEF TypeOK, FileTypeOK, coordinatorVars, attemptVars, signalVars
  <2>3. SaveInv'
    BY <2>1 DEF SaveInv, coordinatorVars, attemptVars, signalVars
  <2> QED
    BY <2>1, <2>2, <2>3
    DEF CallInv, StopInv, NothingForgotten, coordinatorVars, attemptVars, signalVars
<1>7. CASE SaveSucceeds \/ SaveFails
  <2>1. TypeOK' /\ SaveInv' /\ StopInv' /\ NothingForgotten' /\ writtenRevision' >= writtenRevision
    BY <1>7, SaveEndsInv
  <2>2. UNCHANGED <<call, revision>>
    BY <1>7 DEF SaveSucceeds, SaveFails, RecordAttempt
  <2>3. CallInv'
    <3>1. writtenRevision \in Nat /\ writtenRevision' \in Nat
      BY <2>1, SnapshotTypes DEF TypeOK
    <3>2. \A c \in Callers : call[c].snapshot.rev \in Nat
      BY SnapshotTypes DEF TypeOK, Calls
    <3> QED
      BY <2>1, <2>2, <3>1, <3>2 DEF CallInv
  <2> QED
    BY <2>1, <2>3
<1> QED
  BY <1>1, <1>2, <1>3, <1>4, <1>5, <1>6, <1>7 DEF Worker

-------------------------------------------------------------------------------
(* What TypeOK says of the revisions and the calls.                        *)
LEMMA Revisions ==
  ASSUME TypeOK
  PROVE  /\ revision \in Nat /\ attemptCount \in Nat
         /\ pending \in Snapshots /\ pending.rev \in Nat
         /\ pending.rev <= revision
         /\ attemptRevision \in Nat /\ attemptRevision <= pending.rev
         /\ writtenRevision \in Nat /\ writtenRevision <= attemptRevision
         /\ call \in [Callers -> Calls]
         /\ \A c \in Callers : /\ call[c] \in Calls
                               /\ call[c].snapshot \in Snapshots
                               /\ call[c].snapshot.rev \in Nat
BY SnapshotTypes DEF TypeOK, Calls

(* Every step of a caller inside publish or flushTo preserves it.          *)
LEMMA CallerIInv ==
  ASSUME IInv, NEW c \in Callers, CallerStep(c) \/ GiveUp(c) \/ Return(c)
  PROVE  IInv'
<1> USE DEF IInv
<1>0. /\ call \in [Callers -> Calls]
      /\ call[c].snapshot.rev \in Nat
      /\ call[c].snapshot.rev <= revision
      /\ writtenRevision \in Nat /\ attemptRevision \in Nat
  BY Revisions DEF CallInv
<1>1. CASE Publish(c)
  <2>1. /\ UNCHANGED <<jobFile, revision, attemptVars, signalVars, closing>>
        /\ call[c].pc = "publish"
    BY <1>1 DEF Publish
  <2>2. /\ call' \in [Callers -> Calls]
        /\ call'[c].pc \in {"returned", "wake"}
        /\ call'[c].pc = "returned" => closed /\ call'[c].result = "closed"
        /\ call'[c].kind = call[c].kind
        /\ call'[c].snapshot = call[c].snapshot
        /\ Others(c)
    <3>1. CASE closed
      <4>1. Answer(c, "closed") /\ "closed" \in Results
        BY <1>1, <3>1 DEF Publish, Results
      <4> QED
        BY <4>1, <3>1, <1>0, AnswerCall
    <3>2. CASE ~closed
      <4>1. StepTo(c, "wake") /\ "wake" \in CallStates
        BY <1>1, <3>2 DEF Publish, CallStates
      <4> QED
        BY <4>1, <1>0, StepToCall
    <3> QED
      BY <3>1, <3>2
  <2>3. /\ pending' \in {pending, call[c].snapshot}
        /\ pending'.rev >= pending.rev
        /\ closed => pending' = pending
    BY <1>0, <1>1, Revisions DEF Publish
  <2>4. /\ pending' \in Snapshots /\ pending'.rev \in 0..revision
        /\ attemptRevision <= pending'.rev
    BY <1>0, <2>3, Revisions
  <2>5. TypeOK'
    BY <2>1, <2>2, <2>4, Revisions
    DEF TypeOK, FileTypeOK, jobFile, attemptVars, signalVars
  <2>6. SaveInv'
    <3>1. phase # "idle" => incoming.rev \in Nat
      BY SnapshotTypes DEF TypeOK, FileTypeOK
    <3> QED
      BY <2>1, <2>3, <2>4, <3>1, Revisions DEF SaveInv, jobFile, attemptVars, signalVars
  <2>7. CallInv'
    BY <1>0, <2>1, <2>2 DEF CallInv, Others, attemptVars
  <2>8. StopInv'
    BY <2>1, <2>3 DEF StopInv, jobFile, attemptVars, signalVars
  <2>9. NothingForgotten'
    <3>1. CASE call'[c].pc = "wake"
      BY <3>1 DEF NothingForgotten
    <3>2. CASE call'[c].pc = "returned"
      BY <3>2, <2>1, <2>2 DEF NothingForgotten, signalVars
    <3> QED
      BY <2>2, <3>1, <3>2
  <2> QED
    BY <2>5, <2>6, <2>7, <2>8, <2>9
<1>2. CASE SignalWake(c)
  <2>1. /\ UNCHANGED <<jobFile, revision, pending, attemptVars, closed, flush, worker, closing>>
        /\ wake' = TRUE
        /\ call[c].pc = "wake" /\ call[c].kind # "flush"
    BY <1>2 DEF SignalWake, CallInv
  <2>2. /\ call' \in [Callers -> Calls]
        /\ call'[c].pc \in {"returned", "begin"}
        /\ call'[c].pc = "returned" => call[c].kind # "publishAndFlush"
        /\ call'[c].kind = call[c].kind
        /\ call'[c].snapshot = call[c].snapshot
        /\ Others(c)
    <3>1. CASE call[c].kind = "publishAndFlush"
      <4>1. StepTo(c, "begin") /\ "begin" \in CallStates
        BY <1>2, <3>1 DEF SignalWake, CallStates
      <4> QED
        BY <4>1, <1>0, StepToCall
    <3>2. CASE call[c].kind # "publishAndFlush"
      <4>1. Answer(c, "ok") /\ "ok" \in Results
        BY <1>2, <3>2 DEF SignalWake, Results
      <4> QED
        BY <4>1, <1>0, <3>2, AnswerCall
    <3> QED
      BY <3>1, <3>2
  <2>3. call[c].kind \in CallKinds
    BY <1>0 DEF Calls
  <2>4. TypeOK'
    BY <2>1, <2>2 DEF TypeOK, FileTypeOK, jobFile, attemptVars
  <2>5. SaveInv'
    BY <2>1 DEF SaveInv, jobFile, attemptVars
  <2>6. CallInv'
    BY <1>0, <2>1, <2>2, <2>3 DEF CallInv, Others, attemptVars, CallKinds
  <2>7. StopInv'
    BY <2>1 DEF StopInv, jobFile, attemptVars
  <2> QED
    BY <2>1, <2>4, <2>5, <2>6, <2>7 DEF NothingForgotten
<1>3. CASE BeginFlush(c)
  <2>1. OnlyCall /\ call[c].pc = "begin"
    BY <1>3 DEF BeginFlush
  <2>2. CASE call[c].snapshot.rev = 0
    <3>1. Answer(c, "ok") /\ "ok" \in Results
      BY <1>3, <2>2 DEF BeginFlush, Results
    <3>2. /\ call' \in [Callers -> Calls] /\ Others(c)
          /\ call'[c].pc = "returned" /\ call'[c].snapshot = call[c].snapshot
      BY <3>1, <1>0, AnswerCall
    <3> QED
      BY <2>1, <2>2, <3>2, <1>0, OnlyCallInv
  <2>3. CASE call[c].snapshot.rev # 0
    <3> DEFINE begun == [call[c] EXCEPT !.pc = "check", !.initial = attemptCount]
    <3>1. call' = [call EXCEPT ![c] = begun]
      BY <1>3, <2>3 DEF BeginFlush
    <3>2. begun \in Calls /\ begun.pc = "check" /\ begun.snapshot = call[c].snapshot
      BY <1>0, Revisions DEF Calls, CallStates
    <3> HIDE DEF begun
    <3>3. /\ call' \in [Callers -> Calls] /\ Others(c)
          /\ call'[c].pc = "check" /\ call'[c].snapshot = call[c].snapshot
      BY <1>0, <3>1, <3>2 DEF Others
    <3> QED
      BY <2>1, <3>3, <1>0, OnlyCallInv
  <2> QED
    BY <2>2, <2>3
<1>4. CASE CheckFlush(c)
  <2> DEFINE rev == call[c].snapshot.rev
             waiting == [call[c] EXCEPT !.pc = "signal", !.seen = attemptCount]
  <2>1. OnlyCall /\ call[c].pc \in {"check", "wait"}
    BY <1>4 DEF CheckFlush, Checking
  <2>2. \/ Answer(c, "ok") /\ rev <= writtenRevision
        \/ Answer(c, "error")
        \/ call' = [call EXCEPT ![c] = waiting]
    <3>1. CASE writtenRevision >= rev
      BY <1>0, <1>4, <3>1 DEF CheckFlush
    <3>2. CASE ~(writtenRevision >= rev) /\ attemptRevision >= rev /\ attemptCount > call[c].initial
      <4>1. Answer(c, IF lastErr THEN "error" ELSE "ok")
        BY <1>4, <3>2 DEF CheckFlush
      <4>2. lastErr
        BY <3>2 DEF SaveInv
      <4> QED
        BY <4>1, <4>2
    <3>3. CASE ~(writtenRevision >= rev) /\ ~(attemptRevision >= rev /\ attemptCount > call[c].initial)
      BY <1>4, <3>3 DEF CheckFlush
    <3> QED
      BY <3>1, <3>2, <3>3
  <2>3. CASE Answer(c, "ok") /\ rev <= writtenRevision
    <3>1. "ok" \in Results
      BY DEF Results
    <3>2. /\ call' \in [Callers -> Calls] /\ Others(c)
          /\ call'[c].pc = "returned" /\ call'[c].snapshot = call[c].snapshot
      BY <2>3, <3>1, <1>0, AnswerCall
    <3> QED
      BY <2>1, <2>3, <3>2, <1>0, OnlyCallInv
  <2>4. CASE Answer(c, "error")
    <3>1. "error" \in Results
      BY DEF Results
    <3>2. /\ call' \in [Callers -> Calls] /\ Others(c) /\ call'[c].result = "error"
          /\ call'[c].pc = "returned" /\ call'[c].snapshot = call[c].snapshot
      BY <2>4, <3>1, <1>0, AnswerCall
    <3> QED
      BY <2>1, <3>2, <1>0, OnlyCallInv
  <2>5. CASE call' = [call EXCEPT ![c] = waiting]
    <3>1. waiting \in Calls /\ waiting.pc = "signal" /\ waiting.snapshot = call[c].snapshot
      BY <1>0, Revisions DEF Calls, CallStates
    <3> HIDE DEF waiting
    <3>2. /\ call' \in [Callers -> Calls] /\ Others(c)
          /\ call'[c].pc = "signal" /\ call'[c].snapshot = call[c].snapshot
      BY <1>0, <2>5, <3>1 DEF Others
    <3> QED
      BY <2>1, <3>2, <1>0, OnlyCallInv
  <2> HIDE DEF rev, waiting
  <2> QED
    BY <2>2, <2>3, <2>4, <2>5
<1>5. CASE SignalFlush(c)
  <2>1. /\ UNCHANGED <<jobFile, revision, pending, attemptVars, closed, wake, worker, closing>>
        /\ flush' = TRUE
        /\ StepTo(c, "wait") /\ "wait" \in CallStates
    BY <1>5 DEF SignalFlush, CallStates
  <2>2. /\ call' \in [Callers -> Calls] /\ Others(c)
        /\ call'[c].pc = "wait" /\ call'[c].snapshot = call[c].snapshot
    BY <2>1, <1>0, StepToCall
  <2>3. TypeOK'
    BY <2>1, <2>2 DEF TypeOK, FileTypeOK, jobFile, attemptVars
  <2>4. SaveInv'
    BY <2>1 DEF SaveInv, jobFile, attemptVars
  <2>5. CallInv'
    BY <1>0, <2>1, <2>2 DEF CallInv, Others, attemptVars
  <2>6. StopInv'
    BY <2>1 DEF StopInv, jobFile, attemptVars
  <2> QED
    BY <2>1, <2>3, <2>4, <2>5, <2>6 DEF NothingForgotten
<1>6. CASE SeeExit(c)
  <2>1. OnlyCall /\ call[c].pc = "wait"
    BY <1>6 DEF SeeExit
  <2>2. PICK result \in Results :
          Answer(c, result) /\ (result = "ok" => call[c].snapshot.rev <= writtenRevision)
    <3>1. CASE writtenRevision >= call[c].snapshot.rev
      BY <1>0, <1>6, <3>1 DEF SeeExit, Results
    <3>2. CASE ~(writtenRevision >= call[c].snapshot.rev) /\ lastErr
      BY <1>6, <3>2 DEF SeeExit, Results
    <3>3. CASE ~(writtenRevision >= call[c].snapshot.rev) /\ ~lastErr
      <4>1. attemptRevision < call[c].snapshot.rev
        BY <1>0, <3>3 DEF SaveInv
      <4> QED
        BY <1>6, <3>3, <4>1 DEF SeeExit, Results
    <3> QED
      BY <3>1, <3>2, <3>3
  <2>3. /\ call' \in [Callers -> Calls] /\ Others(c) /\ call'[c].result = result
        /\ call'[c].pc = "returned" /\ call'[c].snapshot = call[c].snapshot
    BY <2>2, <1>0, AnswerCall
  <2> QED
    BY <2>1, <2>2, <2>3, <1>0, OnlyCallInv
<1>7. CASE GiveUp(c)
  <2>1. OnlyCall /\ call[c].pc = "wait" /\ Answer(c, "canceled") /\ "canceled" \in Results
    BY <1>7 DEF GiveUp, Results
  <2>2. /\ call' \in [Callers -> Calls] /\ Others(c) /\ call'[c].result = "canceled"
        /\ call'[c].pc = "returned" /\ call'[c].snapshot = call[c].snapshot
    BY <2>1, <1>0, AnswerCall
  <2> QED
    BY <2>1, <2>2, <1>0, OnlyCallInv
<1>8. CASE Return(c)
  <2>1. OnlyCall /\ call[c].pc = "returned" /\ call' = [call EXCEPT ![c] = Idle]
    BY <1>8 DEF Return
  <2>2. call' \in [Callers -> Calls] /\ Others(c) /\ call'[c] = Idle
    BY <2>1, <1>0, IdleCall DEF Others
  <2> QED
    BY <2>1, <2>2, <1>0, IdleCall, Revisions, OnlyCallInv
<1> QED
  BY <1>1, <1>2, <1>3, <1>4, <1>5, <1>6, <1>7, <1>8 DEF CallerStep

-------------------------------------------------------------------------------
(* A snapshot taken by a goroutine that is not inside publish or flushTo,  *)
(* or has just been answered.                                              *)
Taken(c, data, kind) ==
  /\ revision < MaxRevision
  /\ call[c].pc # "wake"
  /\ revision' = revision + 1
  /\ call' = [call EXCEPT ![c] =
       [Idle EXCEPT !.pc = "publish", !.kind = kind,
                    !.snapshot = [rev |-> revision + 1, data |-> data]]]
  /\ UNCHANGED <<jobFile, pending, attemptVars, signalVars, closing>>

(* What the worker takes from the mailbox leaves the invariant true.       *)
LEMMA TakenIInv ==
  ASSUME IInv, NEW c \in Publishers, NEW data \in Data,
         NEW kind \in {"publish", "publishAndFlush"}, Taken(c, data, kind)
  PROVE  IInv'
<1> USE DEF IInv, Taken
<1> DEFINE taken == [Idle EXCEPT !.pc = "publish", !.kind = kind,
                                 !.snapshot = [rev |-> revision + 1, data |-> data]]
<1>1. call' = [call EXCEPT ![c] = taken]
  OBVIOUS
<1>2. /\ taken \in Calls
      /\ taken.pc = "publish" /\ taken.kind # "flush"
      /\ taken.snapshot.rev = revision + 1
  <2> DEFINE s == [rev |-> revision + 1, data |-> data]
  <2>1. s \in Snapshots /\ s.rev = revision + 1
    BY Revisions DEF Snapshots
  <2> HIDE DEF s
  <2>2. taken = [Idle EXCEPT !.pc = "publish", !.kind = kind, !.snapshot = s]
    BY DEF s
  <2>3. kind \in CallKinds /\ kind # "flush" /\ "publish" \in CallStates
    BY DEF CallKinds, CallStates
  <2> HIDE DEF taken
  <2> QED
    BY <2>1, <2>2, <2>3, IdleCall DEF Calls
<1> HIDE DEF taken
<1>3. /\ call' \in [Callers -> Calls] /\ call'[c] = taken
      /\ \A d \in Callers \ {c} : call'[d] = call[d]
  BY <1>1, <1>2, Revisions DEF Callers
<1>4. TypeOK'
  BY <1>1, <1>3, Revisions DEF TypeOK, FileTypeOK, jobFile, attemptVars, signalVars
<1>5. SaveInv'
  BY <1>1 DEF SaveInv, jobFile, attemptVars, signalVars
<1>6. CallInv'
  <2>1. ASSUME NEW d \in Callers \ {c} PROVE call'[d].snapshot.rev <= revision'
    BY <1>1, <1>3, Revisions DEF CallInv
  <2> QED
    BY <2>1, <1>1, <1>2, <1>3, Revisions DEF CallInv, attemptVars
<1>7. StopInv'
  BY <1>1 DEF StopInv, jobFile, attemptVars, signalVars
<1>8. NothingForgotten'
  <2>1. (\A d \in Callers : call'[d].pc # "wake") => (\A d \in Callers : call[d].pc # "wake")
    BY <1>1, <1>3
  <2> QED
    BY <1>1, <2>1 DEF NothingForgotten, attemptVars, signalVars
<1> QED
  BY <1>4, <1>5, <1>6, <1>7, <1>8

(* The invariant is inductive.                                             *)
LEMMA NextIInv == IInv /\ [Next]_vars => IInv'
<1> SUFFICES ASSUME IInv, [Next]_vars PROVE IInv'
  OBVIOUS
<1> USE DEF IInv
<1>1. CASE Worker
  BY <1>1, WorkerIInv
<1>2. ASSUME NEW c \in Callers, CallerStep(c) \/ Return(c) \/ GiveUp(c)
      PROVE  IInv'
  BY <1>2, CallerIInv
<1>3. ASSUME NEW c \in Publishers, NEW data \in Data,
             NEW kind \in {"publish", "publishAndFlush"}, TakeSnapshot(c, data, kind)
      PROVE  IInv'
  BY <1>3, TakenIInv DEF TakeSnapshot, Taken
<1>4. ASSUME NEW c \in Callers, FlushCurrent(c)
      PROVE  IInv'
  <2> DEFINE asked == [Idle EXCEPT !.pc = "begin", !.kind = "flush", !.snapshot.rev = revision]
  <2>1. OnlyCall /\ call[c].pc = "idle" /\ call' = [call EXCEPT ![c] = asked]
    BY <1>4 DEF FlushCurrent
  <2>2. asked \in Calls /\ asked.pc = "begin" /\ asked.snapshot.rev = revision
    BY Revisions DEF Idle, NoSnapshot, Calls, CallStates, CallKinds, Results, Snapshots
  <2> HIDE DEF asked
  <2>3. call' \in [Callers -> Calls] /\ call'[c] = asked /\ Others(c)
    BY <2>1, <2>2, Revisions DEF Others
  <2> QED
    BY <2>1, <2>2, <2>3, Revisions, OnlyCallInv
<1>5. CASE StopWorker
  <2>1. /\ UNCHANGED <<jobFile, revision, pending, attemptVars, wake, flush, worker, call>>
        /\ closed' = TRUE /\ closing' = "waiting"
    BY <1>5 DEF StopWorker
  <2>2. TypeOK'
    BY <2>1 DEF TypeOK, FileTypeOK, jobFile, attemptVars, CloseStates
  <2>3. SaveInv'
    BY <2>1 DEF SaveInv, jobFile, attemptVars
  <2> QED
    BY <2>1, <2>2, <2>3 DEF CallInv, StopInv, NothingForgotten, attemptVars, jobFile
<1>6. CASE CloseReturns
  <2>1. /\ UNCHANGED <<jobFile, revision, pending, attemptVars, signalVars, call>>
        /\ worker = "exited"
        /\ closing' \in {"ok", "error"}
        /\ closing' = "ok" => ~lastErr
    BY <1>6 DEF CloseReturns
  <2>2. TypeOK'
    BY <2>1 DEF TypeOK, FileTypeOK, jobFile, attemptVars, signalVars, CloseStates
  <2>3. SaveInv'
    BY <2>1 DEF SaveInv, jobFile, attemptVars, signalVars
  <2>4. StopInv'
    BY <2>1 DEF StopInv, jobFile, attemptVars, signalVars
  <2> QED
    BY <2>1, <2>2, <2>3, <2>4 DEF CallInv, NothingForgotten, attemptVars, signalVars
<1>7. CASE UNCHANGED vars
  <2>1. TypeOK'
    BY <1>7 DEF vars, coordinatorVars, jobFile, attemptVars, signalVars, TypeOK, FileTypeOK
  <2>2. SaveInv'
    BY <1>7 DEF vars, coordinatorVars, jobFile, attemptVars, signalVars, SaveInv
  <2>3. CallInv' /\ StopInv' /\ NothingForgotten'
    BY <1>7 DEF vars, coordinatorVars, jobFile, attemptVars, signalVars,
                CallInv, StopInv, NothingForgotten
  <2> QED
    BY <2>1, <2>2, <2>3
<1> QED
  <2> SUFFICES ASSUME Next PROVE IInv'
    BY <1>7
  <2> QED
    BY <1>1, <1>2, <1>3, <1>4, <1>5, <1>6 DEF Next, Callers

(* What is at least as new as the written revision is durable.             *)
LEMMA WrittenDurable ==
  ASSUME IInv, NEW rev \in Nat, rev <= writtenRevision
  PROVE  DurableFrom(rev)
BY SnapshotTypes, Revisions DEF IInv, TypeOK, FileTypeOK, SaveInv, DurableFrom

(* The inductive invariant gives the properties of the model-checking run. *)
LEMMA IInvImplies == IInv => FlushAckDurable /\ CloseFlushes
<1> SUFFICES ASSUME IInv PROVE FlushAckDurable /\ CloseFlushes
  OBVIOUS
<1>1. FlushAckDurable
  BY WrittenDurable, Revisions DEF IInv, CallInv, FlushAckDurable
<1>2. CloseFlushes
  BY WrittenDurable, Revisions DEF IInv, StopInv, CloseFlushes
<1> QED
  BY <1>1, <1>2

(* Every reachable state satisfies the inductive invariant.                *)
THEOREM Invariance == Spec => []IInv
BY InitIInv, NextIInv, PTL DEF Spec

(* publish, flushTo, close and the worker keep every revision, control     *)
(* state and channel flag within what the code allows: in particular       *)
(* writtenRevision <= attemptRevision <= pendingRevision <= revision.      *)
THEOREM TypeCorrect == Spec => []TypeOK
<1>1. IInv => TypeOK
  BY DEF IInv
<1> QED
  BY <1>1, Invariance, PTL

(* flushTo answers nil only for what no crash can lose any more, however   *)
(* many callers, failed saves and shutdowns there are.                     *)
THEOREM FlushDurability == Spec => []FlushAckDurable
<1>1. IInv => FlushAckDurable
  BY IInvImplies
<1> QED
  BY <1>1, Invariance, PTL

(* The worker goes to sleep only when the newest published snapshot is     *)
(* written or has been tried and failed: no wake-up is lost.               *)
THEOREM NoLostWakeUp == Spec => []NothingForgotten
<1>1. IInv => NothingForgotten
  BY DEF IInv
<1> QED
  BY <1>1, Invariance, PTL

(* close answers nil only when all that publish accepted is durable.       *)
THEOREM GracefulClose == Spec => []CloseFlushes
<1>1. IInv => CloseFlushes
  BY IInvImplies
<1> QED
  BY <1>1, Invariance, PTL

(* The coordinator uses the job file as AtomicFile allows: one save at a   *)
(* time, of a snapshot, with nothing else touching the file.               *)
THEOREM UsesAtomicFile == Spec => FileSpec
<1>1. Init => FileInit
  BY DEF Init
<1>2. IInv /\ [Next]_vars => [FileNext]_fileVars
  <2> SUFFICES ASSUME IInv, [Next]_vars PROVE FileNext \/ UNCHANGED jobFile
    BY DEF fileVars, jobFile
  <2> USE DEF FileNext
  <2>1. CASE Worker
    <3>1. pending \in Snapshots
      BY Revisions DEF IInv
    <3>2. CASE TakeStop \/ TakeFlush \/ TimerFires
      BY <3>1, <3>2 DEF TakeStop, TakeFlush, TimerFires, WriteLatest
    <3>3. CASE TakeWake
      BY <3>3 DEF TakeWake
    <3>4. CASE ReplaceFile \/ RetractFile \/ SaveSucceeds \/ SaveFails
      BY <3>4 DEF ReplaceFile, RetractFile, SaveSucceeds, SaveFails
    <3> QED
      BY <2>1, <3>2, <3>3, <3>4 DEF Worker
  <2>2. ASSUME NEW c \in Callers, CallerStep(c) \/ Return(c) \/ GiveUp(c) \/ FlushCurrent(c)
        PROVE  UNCHANGED jobFile
    BY <2>2 DEF CallerStep, Publish, SignalWake, BeginFlush, CheckFlush, SignalFlush,
                SeeExit, Return, GiveUp, FlushCurrent, OnlyCall
  <2>3. ASSUME NEW c \in Publishers, NEW data \in Data,
               NEW kind \in {"publish", "publishAndFlush"}, TakeSnapshot(c, data, kind)
        PROVE  UNCHANGED jobFile
    BY <2>3 DEF TakeSnapshot
  <2>4. CASE StopWorker \/ CloseReturns
    BY <2>4 DEF StopWorker, CloseReturns
  <2>5. CASE UNCHANGED vars
    BY <2>5 DEF vars
  <2> QED
    <3> SUFFICES ASSUME Next PROVE FileNext \/ UNCHANGED jobFile
      BY <2>5
    <3> QED
      BY <2>1, <2>2, <2>3, <2>4 DEF Next, Callers
<1> QED
  BY <1>1, <1>2, Invariance, PTL DEF Spec, FileSpec
===============================================================================
