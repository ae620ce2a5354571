-------------------------- MODULE LectureDownload --------------------------
(***************************************************************************)
(* DownloadAndJoinPlaylist around the chunks: several invocations in one   *)
(* process, for one lecture and into one directory, as two jobs of the     *)
(* server or two workers of a command may ask for.  They share the         *)
(* playlist slots of the Downloader and the gates of the final outputs     *)
(* (ffmpeg.go); each has a workspace of its own.  The process may be       *)
(* killed, and an invocation of the next process meets what it left.       *)
(***************************************************************************)
EXTENDS Integers, Sequences, FiniteSets, SequencesExt

CONSTANTS
  MaxInvocations,   \* bound: invocations, in order of arrival
  Asked,            \* what an invocation may ask for: [views, audio, recorded]
  PlaylistSlots     \* the capacity of playlistSlots

ASSUME LectureAssumption ==
  /\ {MaxInvocations, PlaylistSlots} \subseteq Nat
  /\ Asked \subseteq [views : {"left", "right", "both"}, audio : BOOLEAN, recorded : SUBSET {"left", "right"}]

Invocations == 1..MaxInvocations
Views == {"left", "right"}
Outputs == {<<v, a>> : v \in Views \union {"both"}, a \in BOOLEAN}
Failures == {"canceled", "noMedia", "login", "origin", "error"}

VARIABLES
  asked,      \* the configuration and the playlist of each invocation
  stage,      \* where it stands
  verdict,    \* what it is about to return, "none" before
  ending,     \* invocations whose context is over
  workspace,  \* the invocations whose workspace exists
  holdsKey,   \* the invocations that hold a decryption key
  slots,      \* playlist slots in use
  chunkLists, \* the views an invocation has all chunks of
  todo,       \* outputs it still has to join, in order
  made,       \* outputs it has published
  gate,       \* finalOutputGates: references and the token, by output
  partial,    \* the .part file of an output: who wrote it, and whether it is whole
  final       \* the final file of an output

ldVars == <<asked, stage, verdict, ending, workspace, holdsKey, slots, chunkLists, todo, made, gate, partial, final>>
fileVars == <<gate, partial, final>>
joinVars == <<chunkLists, todo, made>>

Includes(job, v) == job.views \in {v, "both"}
Selected(job) == {v \in Views : Includes(job, v) /\ v \in job.recorded}
NoPartial == [by |-> 0, whole |-> FALSE]

(* Wrong variant: the combined output is planned for any selection of both views. *)
PlanEveryView(job) == Selected(job) \union (IF job.views = "both" THEN {"both"} ELSE {})

(* PlanJoinResult: the outputs a caller may expect before any work is done. *)
PlanJoinResult(job) ==
  Selected(job) \union (IF job.views = "both" /\ Selected(job) = Views THEN {"both"} ELSE {})

(* joinAudioOutput and joinVideoOutput: what is joined, from the manifests
   that exist, in order. *)
JoinOrder(job, lists) ==
  LET joinIfPresent(v) == IF v \in lists /\ Includes(job, v) THEN <<v>> ELSE <<>>
      combined == IF lists = Views /\ job.views = "both" THEN <<"both">> ELSE <<>>
  IN  joinIfPresent("left") \o joinIfPresent("right") \o combined

LdInit ==
  /\ asked \in [Invocations -> Asked]
  /\ stage = [i \in Invocations |-> "idle"] /\ verdict = [i \in Invocations |-> "none"] /\ ending = {} /\ workspace = {} /\ holdsKey = {} /\ slots = 0
  /\ chunkLists = [i \in Invocations |-> {}] /\ todo = [i \in Invocations |-> <<>>] /\ made = [i \in Invocations |-> {}]
  /\ gate = [o \in Outputs |-> [refs |-> 0, free |-> TRUE]]
  /\ partial = [o \in Outputs |-> NoPartial] /\ final = [o \in Outputs |-> NoPartial]

(* What an invocation goes on to, and the way out with what it will return. *)
StageTo(i, from, to) == stage[i] = from /\ stage' = [stage EXCEPT ![i] = to] /\ UNCHANGED verdict
LeaveWith(i, from, w) == stage[i] = from /\ stage' = [stage EXCEPT ![i] = "leaving"] /\ verdict' = [verdict EXCEPT ![i] = w]
Fails == {"error"}
Canceled(i) == IF i \in ending THEN {"canceled"} ELSE {}

---------------------------------------------------------------------------
(* The checks, and the workspace. *)
BeginDownload(i) ==
  /\ \A j \in 1..(i - 1) : stage[j] # "idle"
  /\ \/ StageTo(i, "idle", IF i \in ending THEN "canceled" ELSE "noMedia") /\ (i \in ending \/ Selected(asked[i]) = {})
        /\ UNCHANGED workspace
     \/ i \notin ending /\ Selected(asked[i]) # {}
        /\ \/ StageTo(i, "idle", "slot") /\ workspace' = workspace \union {i}
           \/ StageTo(i, "idle", "error") /\ UNCHANGED workspace
  /\ UNCHANGED <<asked, ending, holdsKey, slots, joinVars, fileVars>>

(* An end before the slot is there, or with it: leave, then remove the workspace. *)
Leave(i, from, with) == \E w \in with : LeaveWith(i, from, w)

AcquirePlaylistSlot(i) ==
  /\ \/ slots < PlaylistSlots /\ StageTo(i, "slot", "key") /\ slots' = slots + 1
     \/ Leave(i, "slot", Canceled(i)) /\ UNCHANGED slots
  /\ UNCHANGED <<asked, ending, workspace, holdsKey, joinVars, fileVars>>

FetchDecryptionKey(i) ==
  /\ \/ i \notin ending /\ StageTo(i, "key", "chunks") /\ holdsKey' = holdsKey \union {i} /\ UNCHANGED slots
     \/ Leave(i, "key", {"login", "error"} \union Canceled(i)) /\ slots' = slots - 1 /\ UNCHANGED holdsKey
  /\ UNCHANGED <<asked, ending, workspace, joinVars, fileVars>>

(* Wrong variant: the last classified failure names the lecture's. *)
LastCause(causes) == IF causes = <<>> THEN "error" ELSE Last(causes)

(* chunkFailureCause over the failed chunks: a login failure wins, then a
   refusal of an origin outside mediaOrigins, whatever failed before. *)
ChunkFailureCause(causes) ==
  LET after[n \in 0..Len(causes)] ==
        IF n = 0 THEN "error"
        ELSE IF causes[n] = "login" \/ (causes[n] = "origin" /\ after[n - 1] = "error") THEN causes[n]
        ELSE after[n - 1]
  IN  after[Len(causes)]

ChunkErrors == {<<a>> : a \in {"login", "origin", "error"}} \union {<<a, b>> : a, b \in {"login", "origin", "error"}}

(* The chunks, by the pipeline or one after the other; then the slot and the
   key are given back.  A canceled context is told by the pipeline, and is
   one more failed chunk where they are fetched one by one. *)
DownloadChunks(i) ==
  /\ slots' = slots - 1 /\ holdsKey' = holdsKey \ {i}
  /\ \/ StageTo(i, "chunks", "manifests") /\ chunkLists' = [chunkLists EXCEPT ![i] = Selected(asked[i])]
     \/ \E causes \in ChunkErrors : LeaveWith(i, "chunks", ChunkFailureCause(causes)) /\ UNCHANGED chunkLists
     \/ Leave(i, "chunks", Canceled(i)) /\ UNCHANGED chunkLists
  /\ UNCHANGED <<asked, ending, workspace, todo, made, fileVars>>

CreateTempM3U8File(i) ==
  /\ \/ StageTo(i, "manifests", "joining") /\ todo' = [todo EXCEPT ![i] = JoinOrder(asked[i], chunkLists[i])]
     \/ Leave(i, "manifests", Fails) /\ UNCHANGED todo
  /\ UNCHANGED <<asked, ending, workspace, holdsKey, slots, chunkLists, made, fileVars>>

---------------------------------------------------------------------------
(* One output after the other, each behind the gate of its final path. *)
Output(i) == <<Head(todo[i]), asked[i].audio>>

JoinNext(i) ==
  /\ IF todo[i] = <<>> THEN LeaveWith(i, "joining", "ok") /\ UNCHANGED gate
     ELSE StageTo(i, "joining", "gate") /\ gate' = [gate EXCEPT ![Output(i)].refs = @ + 1]
  /\ UNCHANGED <<asked, ending, workspace, holdsKey, slots, joinVars, partial, final>>

(* Wrong variant: whoever comes takes the output. *)
EnterAnyGate(i) ==
  /\ StageTo(i, "gate", "stale") /\ gate' = [gate EXCEPT ![Output(i)].free = FALSE]
  /\ UNCHANGED <<asked, ending, workspace, holdsKey, slots, joinVars, partial, final>>

(* acquireFinalOutput: the token, or the end of the context. *)
AcquireFinalOutput(i) ==
  /\ \/ StageTo(i, "gate", "stale") /\ gate[Output(i)].free /\ gate' = [gate EXCEPT ![Output(i)].free = FALSE]
     \/ Leave(i, "gate", Canceled(i)) /\ gate' = [gate EXCEPT ![Output(i)].refs = @ - 1]
  /\ UNCHANGED <<asked, ending, workspace, holdsKey, slots, joinVars, partial, final>>

Release(o) == gate' = [gate EXCEPT ![o] = [refs |-> @.refs - 1, free |-> TRUE]]

(* A stale partial file is removed before ffmpeg writes its own. *)
RemoveStale(i) ==
  /\ \/ StageTo(i, "stale", "muxing") /\ partial' = [partial EXCEPT ![Output(i)] = [by |-> i, whole |-> FALSE]] /\ UNCHANGED gate
     \/ Leave(i, "stale", Fails) /\ Release(Output(i)) /\ UNCHANGED partial
  /\ UNCHANGED <<asked, ending, workspace, holdsKey, slots, joinVars, final>>

(* ffmpeg ends: with a file, or - it does when the context is over - without;
   then its partial file is removed, if that can be done. *)
MuxEnds(i) ==
  /\ \/ i \notin ending /\ StageTo(i, "muxing", "publishing") /\ partial' = [partial EXCEPT ![Output(i)].whole = TRUE] /\ UNCHANGED gate
     \/ /\ Leave(i, "muxing", Fails) /\ Release(Output(i))
        /\ partial' \in {partial, [partial EXCEPT ![Output(i)] = NoPartial]}
  /\ UNCHANGED <<asked, ending, workspace, holdsKey, slots, joinVars, final>>

(* Wrong variant: the output counts as made although it could not be renamed. *)
PublishAnyway(i) ==
  /\ StageTo(i, "publishing", "joining") /\ Release(Output(i))
  /\ made' = [made EXCEPT ![i] = @ \union {Head(todo[i])}] /\ todo' = [todo EXCEPT ![i] = Tail(@)]
  /\ partial' = [partial EXCEPT ![Output(i)] = NoPartial]
  /\ final' \in {final, [final EXCEPT ![Output(i)] = partial[Output(i)]]}
  /\ UNCHANGED <<asked, ending, workspace, holdsKey, slots, chunkLists>>

(* syncAndReplaceOutput: the rename makes the partial file the final one. *)
SyncAndReplaceOutput(i) ==
  /\ \/ /\ StageTo(i, "publishing", "joining")
        /\ made' = [made EXCEPT ![i] = @ \union {Head(todo[i])}] /\ todo' = [todo EXCEPT ![i] = Tail(@)]
        /\ final' = [final EXCEPT ![Output(i)] = partial[Output(i)]]
        /\ partial' = [partial EXCEPT ![Output(i)] = NoPartial]
     \/ /\ Leave(i, "publishing", Fails) /\ UNCHANGED <<final, made, todo>>
        /\ partial' \in {partial, [partial EXCEPT ![Output(i)] = NoPartial]}
  /\ Release(Output(i))
  /\ UNCHANGED <<asked, ending, workspace, holdsKey, slots, chunkLists>>

Verdicts == {"ok"} \union Failures

(* The deferred removal of the workspace, which may fail. *)
RemoveWorkspace(i) ==
  /\ StageTo(i, "leaving", verdict[i])
  /\ workspace' \in {workspace \ {i}, workspace}
  /\ UNCHANGED <<asked, ending, holdsKey, slots, joinVars, fileVars>>

---------------------------------------------------------------------------
Over == Verdicts \union {"killed"}
Running == {i \in Invocations : stage[i] \notin Over \union {"idle"}}

EndContext(i) ==
  /\ i \notin ending /\ stage[i] \notin Over /\ ending' = ending \union {i}
  /\ UNCHANGED <<asked, stage, verdict, workspace, holdsKey, slots, joinVars, fileVars>>

(* The process is killed: its memory is gone, the files are what they were. *)
KillProcess ==
  /\ Running # {} /\ \A i \in Invocations : stage[i] # "killed"
  /\ stage' = [i \in Invocations |-> IF i \in Running THEN "killed" ELSE stage[i]]
  /\ holdsKey' = {} /\ slots' = 0 /\ gate' = [o \in Outputs |-> [refs |-> 0, free |-> TRUE]]
  /\ UNCHANGED <<asked, verdict, ending, workspace, joinVars, partial, final>>

LdProgress ==
  \E i \in Invocations : \/ AcquirePlaylistSlot(i) \/ FetchDecryptionKey(i) \/ DownloadChunks(i) \/ CreateTempM3U8File(i)
                         \/ JoinNext(i) \/ AcquireFinalOutput(i) \/ RemoveStale(i) \/ MuxEnds(i) \/ SyncAndReplaceOutput(i)
                         \/ RemoveWorkspace(i)

LdNext == LdProgress \/ KillProcess \/ \E i \in Invocations : BeginDownload(i) \/ EndContext(i)

---------------------------------------------------------------------------
(* A final output is always one whole file, whoever else joins it at the same
   time and whatever a killed process left. *)
FinalsWhole == \A o \in Outputs : final[o] # NoPartial => final[o].whole

(* Who joins an output has it alone; a gate exists as long as someone uses it. *)
AtGate(o, stages) == {i \in Invocations : stage[i] \in stages /\ todo[i] # <<>> /\ Output(i) = o}
GatesExact ==
  \A o \in Outputs : LET inside == AtGate(o, {"stale", "muxing", "publishing"}) IN
    /\ Cardinality(inside) <= 1 /\ gate[o].free = (inside = {})
    /\ gate[o].refs = Cardinality(inside \union AtGate(o, {"gate"}))

(* A lecture that is ok has every output that was planned, and they are there. *)
OkAsPlanned ==
  \A i \in Invocations : stage[i] = "ok" \/ (stage[i] = "leaving" /\ verdict[i] = "ok") =>
    /\ made[i] = PlanJoinResult(asked[i]) /\ made[i] # {}
    /\ \A v \in made[i] : final[<<v, asked[i].audio>>].whole

(* A login failure of any chunk is told as one. *)
CausesRanked ==
  \A causes \in ChunkErrors : /\ ChunkFailureCause(causes) = "login" <=> Contains(causes, "login")
                              /\ ChunkFailureCause(causes) = "error" <=> ToSet(causes) = {"error"}

(* Slots, keys and workspaces are given back on every way out. *)
AllReturned ==
  /\ slots = Cardinality({i \in Invocations : stage[i] \in {"key", "chunks"}}) /\ slots <= PlaylistSlots
  /\ holdsKey = {i \in Invocations : stage[i] = "chunks"}
  /\ Running \subseteq workspace

LdSafe == FinalsWhole /\ GatesExact /\ OkAsPlanned /\ CausesRanked /\ AllReturned

(* Every invocation comes to an end. *)
LdEnded == Running = {}
=============================================================================
