---------------------------- MODULE CliDownload ----------------------------
(***************************************************************************)
(* Download commands of several processes over one download directory, one *)
(* library and one directory of artifact locks: selection, --reuse-        *)
(* verified with its locks, the loop over the lectures with its events,    *)
(* the library commit and the terminal event.  A file is a version, so a   *)
(* file that was replaced, damaged or removed differs from what the        *)
(* library recorded; the library's calls are one step (ArtifactLibrary     *)
(* takes them apart).                                                      *)
(***************************************************************************)
EXTENDS Integers, FiniteSets, FiniteSetsExt

CONSTANTS
  CommandLines,  \* the commands: sequences of [reuse, events, selected]
  MaxCliTroubles \* bound: failing calls

ASSUME CliAssumption ==
  /\ MaxCliTroubles \in Nat
  /\ CommandLines \subseteq [1..2 -> [reuse : BOOLEAN, events : BOOLEAN, selected : SUBSET (1..2)]]

Commands == 1..2
Artifacts == 1..2
NoVersion == 0
Errors == {"failed", "canceled", "delivery", "commit"}

VARIABLES
  flags,       \* the flags of each command and the lectures it selects
  command,     \* where it stands
  interrupted, \* commands whose context is over
  cursor,      \* the lecture it is at
  decided,     \* reuse: what was decided on a lecture
  playlists,   \* the lectures it has a playlist of
  built,       \* downloadResult.Artifacts it has downloaded
  reused,      \* the verified artifacts its result carries
  recorded,    \* LibraryRecorded
  cause,       \* its error, "none" so far
  stream,      \* its event stream: the open lecture, the completed ones, the terminal event
  exit,        \* its exit code, -1 before
  lockOwner,   \* artifact locks: 0 or a command
  onDisk,      \* the version of each artifact's files, 0 for none
  library,     \* the version the library recorded
  versions,    \* versions made so far
  unguarded,   \* history: artifacts published by a command that decided nothing under their lock
  published,   \* history: the version each command made of each artifact, 0 for none
  troubles

cdVars == <<flags, command, interrupted, cursor, decided, playlists, built, reused, recorded, cause, stream,
            exit, lockOwner, onDisk, library, versions, unguarded, published, troubles>>
worldVars == <<onDisk, library, versions, unguarded, published>>
resultVars == <<built, reused, recorded, cause, stream, exit>>

CdInit ==
  /\ flags \in CommandLines
  /\ command = [c \in Commands |-> "idle"] /\ interrupted = {} /\ cursor = [c \in Commands |-> 0]
  /\ decided = [c \in Commands |-> [a \in Artifacts |-> "download"]]
  /\ playlists = [c \in Commands |-> {}] /\ built = [c \in Commands |-> {}]
  /\ reused = [c \in Commands |-> {}]
  /\ recorded = [c \in Commands |-> FALSE] /\ cause = [c \in Commands |-> "none"]
  /\ stream = [c \in Commands |-> [open |-> 0, completed |-> {}, terminal |-> "none"]] /\ exit = [c \in Commands |-> -1]
  /\ lockOwner = [a \in Artifacts |-> 0]
  /\ onDisk = [a \in Artifacts |-> NoVersion] /\ library = [a \in Artifacts |-> NoVersion]
  /\ versions = 0 /\ unguarded = {} /\ troubles = 0
  /\ published = [c \in Commands |-> [a \in Artifacts |-> NoVersion]]

Decided(c, what) == {a \in Artifacts : decided[c][a] = what}
Hits(c) == Decided(c, "reused")
Chosen(c) == flags[c].selected
Wanted(c) == Chosen(c) \ Hits(c)

At(c, stage) == command[c] = stage
Go(c, stage) == command' = [command EXCEPT ![c] = stage]
Trouble == troubles < MaxCliTroubles /\ troubles' = troubles + 1
NoTrouble == UNCHANGED troubles
Raise(c, error) == cause' = [cause EXCEPT ![c] = error]
Emits(c) == flags[c].events

---------------------------------------------------------------------------
(* Flags, configuration, ffmpeg, login, the lectures and their selection;
   a signal may end it there. *)
PrepareCommand(c) ==
  /\ At(c, "idle") /\ Chosen(c) # {} /\ \A d \in 1..(c - 1) : ~At(d, "idle")
  /\ \/ /\ NoTrouble /\ UNCHANGED <<cause, interrupted>>
        /\ IF flags[c].reuse THEN Go(c, "locking") /\ cursor' = [cursor EXCEPT ![c] = Min(Chosen(c))]
                             ELSE Go(c, "playlists") /\ UNCHANGED cursor
     \/ Trouble /\ Raise(c, "failed") /\ Go(c, "finishing") /\ UNCHANGED <<cursor, interrupted>>
     \/ /\ NoTrouble /\ interrupted' = interrupted \union {c} /\ Raise(c, "canceled")
        /\ Go(c, "finishing") /\ UNCHANGED cursor
  /\ UNCHANGED <<flags, reused, decided, playlists, built, recorded, stream, exit, lockOwner, worldVars>>

Decide(c, what) == decided' = [decided EXCEPT ![c][cursor[c]] = what]
NextDecision(c) ==
  IF cursor[c] = Max(Chosen(c)) THEN Go(c, "reusing") /\ UNCHANGED cursor
  ELSE Go(c, "locking") /\ cursor' = [cursor EXCEPT ![c] = Min({a \in Chosen(c) : a > @})]

(* decideReusableLecture: the artifact's lock; whoever waits for it for too
   long downloads without it. *)
AcquireLock(c) ==
  /\ At(c, "locking")
  /\ \/ /\ lockOwner[cursor[c]] = 0 /\ lockOwner' = [lockOwner EXCEPT ![cursor[c]] = c]
        /\ Go(c, "verifying") /\ UNCHANGED <<cursor, decided, cause>>
     \/ lockOwner[cursor[c]] # 0 /\ Decide(c, "busy") /\ NextDecision(c) /\ UNCHANGED <<lockOwner, cause>>
     \/ c \in interrupted /\ Raise(c, "canceled") /\ Go(c, "closing") /\ UNCHANGED <<cursor, decided, lockOwner>>
  /\ UNCHANGED <<flags, reused, interrupted, playlists, built, recorded, stream, exit, worldVars, troubles>>

Unlock(a) == lockOwner' = [lockOwner EXCEPT ![a] = 0]

(* Wrong variant: the lock is given up with every decision. *)
VerifyUnlocked(c) ==
  LET a == cursor[c] IN
  /\ At(c, "verifying") /\ NextDecision(c) /\ Unlock(a)
  /\ Decide(c, IF library[a] = NoVersion THEN "notFound" ELSE IF onDisk[a] = library[a] THEN "reused" ELSE "damaged")
  /\ UNCHANGED <<flags, interrupted, playlists, resultVars, worldVars, troubles>>

(* verifyReusableLecture: an artifact that verifies is reused and unlocked,
   any other stays locked until the command ends. *)
VerifyReusable(c) ==
  LET a == cursor[c] IN
  /\ At(c, "verifying")
  /\ \/ library[a] = NoVersion /\ Decide(c, "notFound") /\ NextDecision(c) /\ NoTrouble /\ UNCHANGED <<lockOwner, cause>>
     \/ /\ library[a] # NoVersion /\ onDisk[a] = library[a]
        /\ Decide(c, "reused") /\ NextDecision(c) /\ Unlock(a) /\ NoTrouble /\ UNCHANGED cause
     \/ /\ library[a] # NoVersion /\ onDisk[a] # library[a]
        /\ Decide(c, "damaged") /\ NextDecision(c) /\ NoTrouble /\ UNCHANGED <<lockOwner, cause>>
     \/ Trouble /\ Unlock(a) /\ Raise(c, "failed") /\ Go(c, "closing") /\ UNCHANGED <<cursor, decided>>
     \/ /\ c \in interrupted /\ NoTrouble /\ Unlock(a) /\ Raise(c, "canceled")
        /\ Go(c, "closing") /\ UNCHANGED <<cursor, decided>>
  /\ UNCHANGED <<flags, reused, interrupted, playlists, built, recorded, stream, exit, worldVars>>

(* emitReusedLectureEvents, then ffmpeg if anything is left to download. *)
EmitReused(c) ==
  /\ At(c, "reusing")
  /\ \/ /\ NoTrouble /\ UNCHANGED cause
        /\ stream' = IF Emits(c) THEN [stream EXCEPT ![c].completed = Hits(c)] ELSE stream
        /\ recorded' = [recorded EXCEPT ![c] = Hits(c) # {}] /\ reused' = [reused EXCEPT ![c] = Hits(c)]
        /\ Go(c, IF Wanted(c) = {} THEN "closing" ELSE "playlists")
     \/ /\ Trouble /\ Emits(c) /\ Hits(c) # {} /\ Raise(c, "delivery") /\ Go(c, "closing")
        /\ \E a \in Hits(c) : stream' \in {[stream EXCEPT ![c].completed = {b \in Hits(c) : b < a}],
                                           [stream EXCEPT ![c].completed = {b \in Hits(c) : b < a}, ![c].open = a]}
        /\ UNCHANGED <<reused, recorded>>
     \/ /\ Trouble /\ Wanted(c) # {} /\ Raise(c, "failed") /\ Go(c, "closing")
        /\ stream' = IF Emits(c) THEN [stream EXCEPT ![c].completed = Hits(c)] ELSE stream
        /\ recorded' = [recorded EXCEPT ![c] = Hits(c) # {}] /\ reused' = [reused EXCEPT ![c] = Hits(c)]
  /\ UNCHANGED <<flags, interrupted, cursor, decided, playlists, built, exit, lockOwner, worldVars>>

(* FetchLecturePlaylists; the service may leave out lectures. *)
FetchPlaylists(c) ==
  /\ At(c, "playlists")
  /\ \/ /\ NoTrouble /\ UNCHANGED cause
        /\ \E given \in (SUBSET Wanted(c)) \ {{}} : /\ playlists' = [playlists EXCEPT ![c] = given]
                                                  /\ cursor' = [cursor EXCEPT ![c] = Min(given)]
        /\ Go(c, "lecture")
     \/ Trouble /\ Raise(c, "failed") /\ Go(c, "recording") /\ UNCHANGED <<cursor, playlists>>
     \/ c \in interrupted /\ Raise(c, "canceled") /\ Go(c, "recording") /\ NoTrouble /\ UNCHANGED <<cursor, playlists>>
  /\ UNCHANGED <<flags, reused, interrupted, decided, built, recorded, stream, exit, lockOwner, worldVars>>

---------------------------------------------------------------------------
(* completeLectureDownloads. *)
Later(c) == {a \in playlists[c] : a > cursor[c]}
NextLecture(c) ==
  IF Later(c) # {} THEN Go(c, "lecture") /\ cursor' = [cursor EXCEPT ![c] = Min(Later(c))] /\ UNCHANGED cause
  ELSE /\ Go(c, "recording") /\ UNCHANGED cursor
       /\ IF built'[c] = {} THEN Raise(c, "failed") ELSE UNCHANGED cause

(* A lecture without selected media is passed over before anything is told. *)
StartLectureDownload(c) ==
  /\ At(c, "lecture")
  /\ \/ c \in interrupted /\ Raise(c, "canceled") /\ Go(c, "recording") /\ NoTrouble /\ UNCHANGED <<cursor, stream, built>>
     \/ c \notin interrupted /\ NoTrouble /\ UNCHANGED <<stream, built>> /\ NextLecture(c)
     \/ /\ c \notin interrupted /\ NoTrouble /\ Go(c, "downloading") /\ UNCHANGED <<cursor, cause, built>>
        /\ stream' = IF Emits(c) THEN [stream EXCEPT ![c].open = cursor[c]] ELSE stream
     \/ /\ c \notin interrupted /\ Trouble /\ Emits(c) /\ Raise(c, "delivery") /\ Go(c, "recording")
        /\ UNCHANGED <<cursor, stream, built>>
  /\ UNCHANGED <<flags, reused, interrupted, decided, playlists, recorded, exit, lockOwner, worldVars>>

(* lecture.failed: it closes the lecture in the stream, if it is delivered. *)
TellLectureFailed(c) == stream' = IF Emits(c) THEN [stream EXCEPT ![c].open = 0] ELSE stream

(* DownloadAndJoinPlaylist: new files, or none and an error; a cancellation
   is not told as a failed lecture. *)
DownloadLecture(c) ==
  /\ At(c, "downloading")
  /\ \/ /\ versions' = versions + 1 /\ onDisk' = [onDisk EXCEPT ![cursor[c]] = versions + 1]
        /\ published' = [published EXCEPT ![c][cursor[c]] = versions + 1]
        /\ unguarded' = IF decided[c][cursor[c]] \in {"notFound", "damaged"} THEN unguarded ELSE unguarded \union {cursor[c]}
        /\ Go(c, "building") /\ NoTrouble /\ UNCHANGED <<cause, stream>>
     \/ /\ Trouble /\ Raise(c, "failed") /\ TellLectureFailed(c)
        /\ Go(c, "recording") /\ UNCHANGED <<versions, onDisk, unguarded, published>>
     \/ /\ c \in interrupted /\ NoTrouble /\ Raise(c, "canceled") /\ Go(c, "recording")
        /\ UNCHANGED <<stream, versions, onDisk, unguarded, published>>
  /\ UNCHANGED <<flags, reused, interrupted, cursor, decided, playlists, built, recorded, exit, lockOwner, library>>

(* Wrong variant: a manifest counts only when its events were delivered. *)
BuildAfterEvents(c) ==
  /\ At(c, "building") /\ Go(c, "telling")
  /\ UNCHANGED <<flags, interrupted, cursor, decided, playlists, resultVars, lockOwner, worldVars, troubles>>

(* buildDownloadArtifact: the manifest joins the result before it is told. *)
BuildArtifact(c) ==
  /\ At(c, "building")
  /\ \/ /\ onDisk[cursor[c]] # NoVersion /\ built' = [built EXCEPT ![c] = @ \union {cursor[c]}]
        /\ Go(c, "telling") /\ UNCHANGED <<cause, stream>>
     \/ /\ onDisk[cursor[c]] = NoVersion /\ Raise(c, "failed") /\ TellLectureFailed(c)
        /\ Go(c, "recording") /\ UNCHANGED built
  /\ UNCHANGED <<flags, reused, interrupted, cursor, decided, playlists, recorded, exit, lockOwner, worldVars, troubles>>

TellCompleted(c) ==
  /\ At(c, "telling") /\ UNCHANGED built
  /\ \/ /\ NoTrouble /\ NextLecture(c)
        /\ stream' = IF Emits(c) THEN [stream EXCEPT ![c].open = 0, ![c].completed = @ \union {cursor[c]}] ELSE stream
     \/ Trouble /\ Emits(c) /\ Raise(c, "delivery") /\ Go(c, "recording") /\ UNCHANGED <<cursor, stream>>
  /\ UNCHANGED <<flags, reused, interrupted, decided, playlists, recorded, exit, lockOwner, worldVars>>

---------------------------------------------------------------------------
(* Wrong variant: the commit is skipped when the command was interrupted. *)
RecordUnlessInterrupted(c) ==
  /\ At(c, "recording") /\ Go(c, "closing")
  /\ IF built[c] # {} /\ c \notin interrupted
     THEN /\ recorded' = [recorded EXCEPT ![c] = TRUE]
          /\ library' = [a \in Artifacts |-> IF a \in built[c] THEN onDisk[a] ELSE library[a]]
     ELSE UNCHANGED <<recorded, library>>
  /\ UNCHANGED <<flags, reused, interrupted, cursor, decided, playlists, built, cause, stream, exit, lockOwner, onDisk, versions,
                 unguarded, published, troubles>>

(* applyLibraryRecording: what was built is recorded, all of it or nothing,
   with the files as they are now, even if the command was interrupted. *)
ApplyLibraryRecording(c) ==
  /\ At(c, "recording") /\ Go(c, "closing")
  /\ \/ built[c] = {} /\ NoTrouble /\ UNCHANGED <<recorded, library>>
     \/ /\ built[c] # {} /\ \A a \in built[c] : onDisk[a] # NoVersion
        /\ NoTrouble /\ recorded' = [recorded EXCEPT ![c] = TRUE]
        /\ library' = [a \in Artifacts |-> IF a \in built[c] THEN onDisk[a] ELSE library[a]]
     \/ /\ built[c] # {} /\ recorded' = [recorded EXCEPT ![c] = FALSE] /\ UNCHANGED library
        /\ IF \E a \in built[c] : onDisk[a] = NoVersion THEN NoTrouble ELSE Trouble
  /\ UNCHANGED <<flags, reused, interrupted, cursor, decided, playlists, built, cause, stream, exit, lockOwner, onDisk, versions,
                 unguarded, published>>

(* The deferred reusePartition.close; an error of it is joined to the other. *)
CloseLocks(c) ==
  /\ At(c, "closing") /\ Go(c, "finishing")
  /\ lockOwner' = [a \in Artifacts |-> IF lockOwner[a] = c THEN 0 ELSE lockOwner[a]]
  /\ \/ NoTrouble /\ UNCHANGED cause
     \/ (\E a \in Artifacts : lockOwner[a] = c) /\ Trouble /\ Raise(c, IF cause[c] = "none" THEN "failed" ELSE cause[c])
  /\ UNCHANGED <<flags, interrupted, cursor, decided, playlists, built, reused, recorded, stream, exit, worldVars>>

(* Wrong variant: an error hides that the library was not updated. *)
ReportedErrorFirst(c) ==
  IF cause[c] # "none" THEN cause[c] ELSE IF recorded[c] THEN "none" ELSE "commit"

(* What downloadEventStream.finish reports. *)
Reported(c) ==
  IF ~recorded[c] /\ (cause[c] = "none" \/ built[c] \union reused[c] # {}) THEN "commit" ELSE cause[c]

ExitCode(error) == CASE error = "none" -> 0 [] error = "canceled" -> 130 [] OTHER -> 1

(* The terminal event and the exit code; without --events the library's
   trouble is a warning. *)
FinishCommand(c) ==
  /\ At(c, "finishing") /\ Go(c, "over")
  /\ IF ~Emits(c) THEN NoTrouble /\ exit' = [exit EXCEPT ![c] = ExitCode(cause[c])] /\ UNCHANGED stream
     ELSE \/ /\ NoTrouble /\ exit' = [exit EXCEPT ![c] = ExitCode(Reported(c))]
             /\ stream' = [stream EXCEPT ![c].terminal = CASE Reported(c) = "none" -> "completed"
                                                           [] Reported(c) = "canceled" -> "canceled"
                                                           [] OTHER -> "failed"]
          \/ Trouble /\ exit' = [exit EXCEPT ![c] = 1] /\ stream' = [stream EXCEPT ![c].terminal = "undelivered"]
  /\ UNCHANGED <<flags, reused, interrupted, cursor, decided, playlists, built, recorded, cause, lockOwner, worldVars>>

Interrupt(c) ==
  /\ c \notin interrupted /\ command[c] \notin {"idle", "over"} /\ interrupted' = interrupted \union {c}
  /\ UNCHANGED <<flags, command, cursor, decided, playlists, resultVars, lockOwner, worldVars, troubles>>

(* The user removes files. *)
RemoveFiles(a) ==
  /\ onDisk[a] # NoVersion /\ Trouble /\ onDisk' = [onDisk EXCEPT ![a] = NoVersion]
  /\ UNCHANGED <<flags, command, interrupted, cursor, decided, playlists, resultVars, lockOwner, library, versions,
                 unguarded, published>>

CdProgress ==
  \E c \in Commands :
    \/ AcquireLock(c) \/ VerifyReusable(c) \/ EmitReused(c) \/ FetchPlaylists(c)
    \/ StartLectureDownload(c) \/ DownloadLecture(c) \/ BuildArtifact(c) \/ TellCompleted(c)
    \/ ApplyLibraryRecording(c) \/ CloseLocks(c) \/ FinishCommand(c)

CdNext == \/ CdProgress
          \/ \E c \in Commands : PrepareCommand(c) \/ Interrupt(c)
          \/ \E a \in Artifacts : RemoveFiles(a)

---------------------------------------------------------------------------
(* What a command decided under the lock of an artifact stays true until it
   has downloaded it, as long as everyone who publishes has decided under the lock. *)
DecisionsHold ==
  \A c \in Commands, a \in Artifacts \ unguarded :
    decided[c][a] \in {"notFound", "damaged"} /\ At(c, "downloading") /\ cursor[c] = a =>
      /\ decided[c][a] = "notFound" => library[a] = NoVersion
      /\ decided[c][a] = "damaged" => onDisk[a] # library[a]

(* What was told as completed is in the result; a stream that ends well left
   no lecture open, and what it told is in the library. *)
TruthTold ==
  \A c \in Commands :
    /\ stream[c].completed \subseteq built[c] \union Hits(c)
    /\ stream[c].terminal = "completed" => /\ stream[c].open = 0 /\ stream[c].completed = built[c] \union reused[c]
                                           /\ \A a \in stream[c].completed : library[a] # NoVersion
    /\ At(c, "over") /\ Emits(c) => stream[c].terminal # "none"

(* What a command published is in the library when it is over, that version
   or a later one, or the command has said that it is not: an older record
   does not stand for it. *)
NothingUnrecorded ==
  \A c \in Commands, a \in Artifacts :
    At(c, "over") /\ a \in built[c] /\ library[a] < published[c][a] =>
      IF Emits(c) THEN exit[c] = 1 /\ stream[c].terminal \in {"failed", "undelivered"} ELSE ~recorded[c]

(* Every manifest that was built is offered to the library. *)
Offered == \A c \in Commands : At(c, "telling") => cursor[c] \in built[c]

(* A command that is over holds no lock. *)
LocksReturned == \A a \in Artifacts : lockOwner[a] # 0 => ~At(lockOwner[a], "over")

CdSafe == DecisionsHold /\ TruthTold /\ NothingUnrecorded /\ Offered /\ LocksReturned

(* Commands that wait for each other's locks all come to an end. *)
CdEnded == \A c \in Commands : command[c] \in {"idle", "over"}
=============================================================================
