-------------------------- MODULE ProgressTracker --------------------------
(***************************************************************************)
(* The overall progress of a download (progress_tracker.go): every worker  *)
(* that has downloaded a chunk counts it, adds its bytes, renews the       *)
(* estimate of the total and reports, each in a step of its own; a loop    *)
(* samples the speed until the tracker is stopped.                         *)
(***************************************************************************)
EXTENDS Integers, Sequences

CONSTANTS
  TrackedChunks,  \* chunks, each with a worker that has just downloaded it
  TrackedSizes,   \* the sizes a chunk may have
  SpeedWindow,    \* ProgressTracker.maxSamples
  MaxTicks        \* bound: ticks of updateTicker

(* A lecture without chunks reports nothing. *)
ASSUME TrackerAssumption ==
  /\ TrackedChunks \in Nat \ {0}
  /\ {SpeedWindow, MaxTicks} \subseteq Nat /\ TrackedSizes \subseteq Nat

Tracked == 1..TrackedChunks

VARIABLES
  finishing,        \* where the worker of each chunk is in ChunkCompleted
  completedChunks,
  downloadedBytes,
  totalBytes,       \* the estimate
  totalRead,        \* what a reporting worker has read of totalBytes
  reporter,         \* who holds progressMu, 0 for nobody
  reported,         \* the last percentage given to onProgress, -1 before
  samples, ticks,   \* speedSamples: the bytes at the last ticks
  tracking          \* "on", "stopped" (stopChan is closed) or "off" (updateLoop has returned)

ptVars == <<finishing, completedChunks, downloadedBytes, totalBytes, totalRead, reporter, reported, samples, ticks, tracking>>
countVars == <<completedChunks, downloadedBytes, totalBytes>>
reportVars == <<totalRead, reporter, reported>>
loopVars == <<samples, ticks, tracking>>

PtInit ==
  /\ finishing = [c \in Tracked |-> "counting"]
  /\ completedChunks = 0 /\ downloadedBytes = 0 /\ totalBytes = 0
  /\ totalRead = [c \in Tracked |-> 0] /\ reporter = 0 /\ reported = -1
  /\ samples = <<>> /\ ticks = 0 /\ tracking = "on"

Chunk(c, from, to) == finishing[c] = from /\ finishing' = [finishing EXCEPT ![c] = to]

CountChunk(c) ==
  /\ Chunk(c, "counting", "adding") /\ completedChunks' = completedChunks + 1
  /\ UNCHANGED <<downloadedBytes, totalBytes, reportVars, loopVars>>

AddBytes(c) ==
  /\ Chunk(c, "adding", "estimating") /\ \E n \in TrackedSizes : downloadedBytes' = downloadedBytes + n
  /\ UNCHANGED <<completedChunks, totalBytes, reportVars, loopVars>>

(* updateTotalBytesEstimate: the average of the counted chunks, whose bytes
   need not all be there yet. *)
UpdateTotalBytesEstimate(c) ==
  /\ Chunk(c, "estimating", "reporting")
  /\ totalBytes' = (downloadedBytes \div completedChunks) * TrackedChunks
  /\ UNCHANGED <<completedChunks, downloadedBytes, reportVars, loopVars>>

Percentage(total) ==
  IF total <= 0 THEN (completedChunks * 100) \div TrackedChunks
  ELSE IF downloadedBytes >= total THEN 100 ELSE (downloadedBytes * 100) \div total

(* Wrong variant: the report is computed without progressMu. *)
ReadTotalUnlocked(c) ==
  /\ Chunk(c, "reporting", "calling") /\ totalRead' = [totalRead EXCEPT ![c] = totalBytes]
  /\ UNCHANGED <<countVars, reporter, reported, loopVars>>

(* reportProgress: under progressMu the estimate is read, then the bytes. *)
ReadTotal(c) ==
  /\ reporter = 0 /\ Chunk(c, "reporting", "calling") /\ reporter' = c /\ totalRead' = [totalRead EXCEPT ![c] = totalBytes]
  /\ UNCHANGED <<countVars, reported, loopVars>>

ReportProgress(c) ==
  /\ Chunk(c, "calling", "done") /\ reporter' = 0
  /\ reported' = Percentage(totalRead[c]) /\ totalRead' = [totalRead EXCEPT ![c] = 0]
  /\ UNCHANGED <<countVars, loopVars>>

(* updateLoop: a tick may still be taken after Stop. *)
UpdateSpeedSample ==
  /\ tracking # "off" /\ ticks < MaxTicks /\ ticks' = ticks + 1
  /\ LET longer == Append(samples, downloadedBytes)
     IN  samples' = IF Len(longer) > SpeedWindow THEN Tail(longer) ELSE longer
  /\ UNCHANGED <<finishing, countVars, reportVars, tracking>>

LoopReturns == tracking = "stopped" /\ tracking' = "off" /\ UNCHANGED <<finishing, countVars, reportVars, samples, ticks>>

(* Stop, by whoever comes first; a second call does nothing. *)
StopTracker == tracking = "on" /\ tracking' = "stopped" /\ UNCHANGED <<finishing, countVars, reportVars, samples, ticks>>

PtProgress ==
  \/ \E c \in Tracked : CountChunk(c) \/ AddBytes(c) \/ UpdateTotalBytesEstimate(c) \/ ReadTotal(c) \/ ReportProgress(c)
  \/ LoopReturns

PtNext == PtProgress \/ UpdateSpeedSample \/ StopTracker

---------------------------------------------------------------------------
(* However the workers interleave, the last report of a download whose chunks
   are all there is 100; the sampled bytes never go down, so no speed is
   negative, and the window is bounded. *)
PtSafe ==
  /\ (\A c \in Tracked : finishing[c] = "done") => reported = 100
  /\ reported \in -1..100
  /\ Len(samples) <= SpeedWindow /\ \A i \in 1..(Len(samples) - 1) : samples[i] <= samples[i + 1]

(* Every worker reports, and a stopped loop returns. *)
PtEnded == (\A c \in Tracked : finishing[c] = "done") /\ tracking # "stopped"
=============================================================================
