-------------------------- MODULE DownloadRuntime --------------------------
(***************************************************************************)
(* Downloading: the pipeline of one lecture, lectures of one process that  *)
(* share slots and outputs, the progress of a download, the library's      *)
(* record of a file, and whole download commands.  What one part relies on *)
(* in another is stated in its module: a lecture's chunks are there or it  *)
(* has failed, a command's lecture has published its files or none, a      *)
(* recording is whole or has failed.  They share no variable; a behaviour  *)
(* follows one part, and the interleavings explored are those inside it.   *)
(***************************************************************************)
EXTENDS DownloadPipeline, LectureDownload, ProgressTracker, ArtifactLibrary, CliDownload

VARIABLE part   \* the part this behaviour follows

vars == <<dpVars, ldVars, ptVars, alVars, cdVars, part>>

Init ==
  /\ part \in {"pipeline", "lectures", "progress", "library", "commands"}
  /\ DpInit /\ LdInit /\ PtInit /\ AlInit /\ CdInit
  /\ part # "lectures" => asked = [i \in Invocations |-> CHOOSE job \in Asked : TRUE]
  /\ part # "library" => known
  /\ part # "commands" => flags = CHOOSE lines \in CommandLines : TRUE

Pipeline == part = "pipeline" /\ UNCHANGED <<ldVars, ptVars, alVars, cdVars, part>>
Lectures == part = "lectures" /\ UNCHANGED <<dpVars, ptVars, alVars, cdVars, part>>
Progress == part = "progress" /\ UNCHANGED <<dpVars, ldVars, alVars, cdVars, part>>
Recording == part = "library" /\ UNCHANGED <<dpVars, ldVars, ptVars, cdVars, part>>
DownloadCommands == part = "commands" /\ UNCHANGED <<dpVars, ldVars, ptVars, alVars, part>>

Next ==
  \/ Pipeline /\ DpNext
  \/ Lectures /\ LdNext
  \/ Progress /\ PtNext
  \/ Recording /\ AlNext
  \/ DownloadCommands /\ CdNext

(* The goroutines of the part and the calls they make, without its stimuli. *)
Going ==
  \/ Pipeline /\ DpProgress
  \/ Lectures /\ LdProgress
  \/ Progress /\ PtProgress
  \/ Recording /\ AlProgress
  \/ DownloadCommands /\ CdProgress

Spec == Init /\ [][Next]_vars /\ WF_vars(Going)

---------------------------------------------------------------------------
(* What a download keeps at every moment: no chunk is lost and the memory
   budget is exact, an output is whole and has one writer, the last progress
   is 100, a digest in the library is one of the recorded file, a command's
   events, exit code and library tell one story. *)
DownloadSafe == DpSafe /\ LdSafe /\ PtSafe /\ AlSafe /\ CdSafe

(* Every download comes to an end: its workers, its lecture, its reports, its
   recordings and its command; the pipeline unless a worker waits for memory
   that it began to wait for after the cancellation was broadcast. *)
DownloadEnds ==
  []<>(/\ LdEnded /\ AlEnded /\ CdEnded
       /\ part = "pipeline" => DpEnded
       /\ part = "progress" => PtEnded)

(* What download_speed_test.go:175 expects of every lecture: a canceled
   DownloadPlaylist returns.  It need not: the goroutine of
   NewLecturePipeline broadcasts without inFlightMu, so a worker that has
   checked the context and not yet enrolled in Wait misses the broadcast, and
   nothing wakes it when the memory is held by chunks no decrypt worker takes
   any more. *)
CancellationReturns == []<>(canceled => returned # "none")
=============================================================================
