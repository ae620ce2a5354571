-------------------------- MODULE DownloadPipeline --------------------------
(***************************************************************************)
(* One lecture in the download pipeline (pipeline.go): the submitter, the  *)
(* download workers with their retries and the memory budget, the decrypt  *)
(* workers, the closer, Collect, and the cancellation of the caller.       *)
(* Chunks are numbered as they are submitted, the first view's before the  *)
(* second's; a channel is a sequence with its capacity.                    *)
(***************************************************************************)
EXTENDS Integers, Sequences, FiniteSets, FiniteSetsExt, SequencesExt

CONSTANTS
  FirstChunks, SecondChunks,   \* chunks of the selected views
  MaxCrew, MaxDecrypters,      \* bounds: workers of each kind
  MaxTries,                    \* Downloader.maxRetries
  Budget,                      \* PipelineConfig.MaxInFlightBytes
  ChunkSizes                   \* the sizes a chunk may have

(* An empty playlist makes no pipeline; Validate wants workers of both kinds. *)
ASSUME PipelineAssumption ==
  /\ {FirstChunks, SecondChunks, MaxTries, Budget} \subseteq Nat /\ FirstChunks + SecondChunks > 0
  /\ {MaxCrew, MaxDecrypters} \subseteq Nat \ {0}
  /\ ChunkSizes \subseteq Nat

Chunks == 1..(FirstChunks + SecondChunks)
Crew == 1..MaxCrew
Decrypters == 1..MaxDecrypters
Part == [chunk : Chunks, bytes : ChunkSizes \union {0}, err : {"none", "failed", "canceled"}]
NoPart == [chunk |-> 0, bytes |-> 0, err |-> "none"]

VARIABLES
  canceled,      \* the caller's context, and with it the pipeline's, is over
  broadcast,     \* the goroutine of NewLecturePipeline has closed submissions and sent its Broadcast
  submitter,     \* "submitting", "refused" or "submitted", then "finished"
  offered,       \* chunks submitted so far
  queue,         \* downloadQueue
  worker,        \* each download worker: where, at which try, with which part
  waiting,       \* inFlightCond: the workers that wait, in order
  downloaded,    \* downloadedChunks
  downloadsOver, \* downloadedChunks is closed
  decrypter,     \* each decrypt worker: where, with which part
  decrypted,     \* decryptedChunks
  decryptsOver,  \* decryptedChunks is closed
  inFlight,      \* inFlightBytes
  collected,     \* what Collect knows of each chunk: "none", "ok", "failed" or "canceled"
  key,           \* the shared decryption key: "held" or "zeroed"
  returned       \* what downloadPlaylistPipelined returns, "none" before

dpVars == <<canceled, broadcast, submitter, offered, queue, worker, waiting, downloaded, downloadsOver,
            decrypter, decrypted, decryptsOver, inFlight, collected, key, returned>>

DownloadBuffer == 2 * MaxCrew
DecryptBuffer == 2 * MaxDecrypters

DpInit ==
  /\ canceled = FALSE /\ broadcast = FALSE
  /\ submitter = "submitting" /\ offered = 0 /\ queue = <<>>
  /\ worker = [w \in Crew |-> [at |-> "idle", try |-> 0, part |-> NoPart]] /\ waiting = <<>>
  /\ downloaded = <<>> /\ downloadsOver = FALSE
  /\ decrypter = [x \in Decrypters |-> [at |-> "idle", part |-> NoPart]]
  /\ decrypted = <<>> /\ decryptsOver = FALSE
  /\ inFlight = 0 /\ collected = [c \in Chunks |-> "none"] /\ key = "held" /\ returned = "none"

submitVars == <<broadcast, submitter, offered>>
collectVars == <<downloadsOver, decryptsOver, collected, key, returned>>

---------------------------------------------------------------------------
(* The submitting goroutine.  A submission is refused once the context is
   over; with room in the queue as well, either may win. *)
SubmitDownload ==
  /\ submitter = "submitting"
  /\ \/ /\ ~broadcast /\ ~canceled /\ Len(queue) < DownloadBuffer
        /\ offered' = offered + 1 /\ queue' = Append(queue, offered + 1)
        /\ submitter' = IF offered' = Cardinality(Chunks) THEN "submitted" ELSE "submitting"
     \/ canceled /\ submitter' = "refused" /\ UNCHANGED <<offered, queue>>
  /\ UNCHANGED <<canceled, broadcast, worker, waiting, downloaded, decrypter, decrypted, inFlight, collectVars>>

FinishSubmission ==
  /\ \/ submitter = "refused" /\ submitter' = "gaveUp"
     \/ submitter = "submitted" /\ submitter' = "finished"
  /\ UNCHANGED <<canceled, broadcast, offered, queue, worker, waiting, downloaded, decrypter, decrypted, inFlight, collectVars>>

QueueClosed == submitter \in {"gaveUp", "finished"}

(* The caller gives up, and some time later the pipeline's own goroutine
   wakes whoever waits for memory; it takes no lock for that. *)
CancelDownload ==
  /\ ~canceled /\ returned = "none" /\ canceled' = TRUE
  /\ UNCHANGED <<submitVars, queue, worker, waiting, downloaded, decrypter, decrypted, inFlight, collectVars>>

Broadcast ==
  /\ canceled /\ ~broadcast /\ broadcast' = TRUE
  /\ worker' = [w \in Crew |-> IF Contains(waiting, w) THEN [worker[w] EXCEPT !.at = "acquiring"] ELSE worker[w]]
  /\ waiting' = <<>>
  /\ UNCHANGED <<canceled, submitter, offered, queue, downloaded, decrypter, decrypted, inFlight, collectVars>>

---------------------------------------------------------------------------
(* A download worker. *)
WorkerTo(w, at) == worker' = [worker EXCEPT ![w].at = at]
WorkerWith(w, at, bytes, err) ==
  worker' = [worker EXCEPT ![w].at = at, ![w].part.bytes = bytes, ![w].part.err = err, ![w].try = 0]

(* inFlightMu is held from the check of the budget until Wait has enrolled. *)
MemoryLocked == \E w \in Crew : worker[w].at = "enrolling"

(* releaseMemory(bytes) next to a step that leaves the workers as f: Signal
   makes the worker that has waited longest check again. *)
ReleaseMemory(bytes, f) ==
  /\ ~MemoryLocked /\ inFlight' = inFlight - bytes
  /\ IF waiting = <<>> THEN worker' = f /\ UNCHANGED waiting
     ELSE worker' = [f EXCEPT ![Head(waiting)].at = "acquiring"] /\ waiting' = Tail(waiting)

TakeTask(w) ==
  /\ worker[w].at = "idle"
  /\ \/ /\ queue # <<>> /\ queue' = Tail(queue)
        /\ worker' = [worker EXCEPT ![w] = [at |-> "fetching", try |-> 1, part |-> [NoPart EXCEPT !.chunk = Head(queue)]]]
     \/ /\ canceled \/ (QueueClosed /\ queue = <<>>)
        /\ WorkerTo(w, "gone") /\ UNCHANGED queue
  /\ UNCHANGED <<canceled, submitVars, waiting, downloaded, decrypter, decrypted, inFlight, collectVars>>

(* downloadChunkWithRetry: a try succeeds, or it fails - it must, once the
   context is over - and is followed by a pause or, the last one, reported. *)
Fetch(w) ==
  /\ worker[w].at = "fetching"
  /\ \/ ~canceled /\ \E n \in ChunkSizes : WorkerWith(w, "acquiring", n, "none")
     \/ worker[w].try < MaxTries /\ WorkerTo(w, "pausing")
     \/ worker[w].try = MaxTries /\ WorkerWith(w, "sending", 0, IF canceled THEN "canceled" ELSE "failed")
  /\ UNCHANGED <<canceled, submitVars, queue, waiting, downloaded, decrypter, decrypted, inFlight, collectVars>>

WaitForRetry(w) ==
  /\ worker[w].at = "pausing"
  /\ \/ worker' = [worker EXCEPT ![w].at = "fetching", ![w].try = @ + 1]
     \/ canceled /\ WorkerWith(w, "sending", 0, "canceled")
  /\ UNCHANGED <<canceled, submitVars, queue, waiting, downloaded, decrypter, decrypted, inFlight, collectVars>>

(* Wrong variant: a chunk larger than the budget waits for room even when nothing is held. *)
MustWaitAlways(bytes) == inFlight + bytes > Budget

MustWait(bytes) == inFlight > 0 /\ inFlight + bytes > Budget

(* acquireMemory, up to the point where Wait would enroll, *)
AcquireMemory(w) ==
  /\ worker[w].at = "acquiring" /\ ~MemoryLocked
  /\ IF canceled THEN WorkerTo(w, "gone") /\ UNCHANGED inFlight
     ELSE IF MustWait(worker[w].part.bytes) THEN WorkerTo(w, "enrolling") /\ UNCHANGED inFlight
     ELSE WorkerTo(w, "sending") /\ inFlight' = inFlight + worker[w].part.bytes
  /\ UNCHANGED <<canceled, submitVars, queue, waiting, downloaded, decrypter, decrypted, collectVars>>

(* and the enrolment: a Broadcast sent in between does not reach this worker. *)
Enroll(w) ==
  /\ worker[w].at = "enrolling" /\ WorkerTo(w, "waiting") /\ waiting' = Append(waiting, w)
  /\ UNCHANGED <<canceled, submitVars, queue, downloaded, decrypter, decrypted, inFlight, collectVars>>

(* The part is handed over, or given up with its memory. *)
SendDownloaded(w) ==
  /\ worker[w].at = "sending"
  /\ \/ /\ Len(downloaded) < DownloadBuffer /\ downloaded' = Append(downloaded, worker[w].part)
        /\ worker' = [worker EXCEPT ![w].at = "idle", ![w].part = NoPart] /\ UNCHANGED <<waiting, inFlight>>
     \/ /\ canceled /\ worker[w].part.err = "none" /\ UNCHANGED downloaded
        /\ ReleaseMemory(worker[w].part.bytes, [worker EXCEPT ![w].at = "gone"])
     \/ /\ canceled /\ worker[w].part.err # "none" /\ UNCHANGED <<waiting, downloaded, inFlight>>
        /\ WorkerTo(w, "gone")
  /\ UNCHANGED <<canceled, submitVars, queue, decrypter, decrypted, collectVars>>

---------------------------------------------------------------------------
(* A decrypt worker. *)
TakeDownloaded(x) ==
  /\ decrypter[x].at = "idle"
  /\ \/ /\ downloaded # <<>> /\ downloaded' = Tail(downloaded)
        /\ decrypter' = [decrypter EXCEPT ![x] = [at |-> IF Head(downloaded).err = "none" THEN "decrypting" ELSE "sending",
                                                  part |-> Head(downloaded)]]
     \/ /\ canceled \/ (downloadsOver /\ downloaded = <<>>)
        /\ decrypter' = [decrypter EXCEPT ![x].at = "gone"] /\ UNCHANGED downloaded
  /\ UNCHANGED <<canceled, submitVars, queue, worker, waiting, decrypted, inFlight, collectVars>>

(* Wrong variant: the memory of a chunk that cannot be decrypted is not returned. *)
DecryptKeepingMemory(x) ==
  /\ decrypter[x].at = "decrypting"
  /\ \/ /\ ReleaseMemory(decrypter[x].part.bytes, worker)
        /\ decrypter' = [decrypter EXCEPT ![x].at = "sending", ![x].part.bytes = 0]
     \/ /\ decrypter' = [decrypter EXCEPT ![x].at = "sending", ![x].part.bytes = 0, ![x].part.err = "failed"]
        /\ UNCHANGED <<worker, waiting, inFlight>>
  /\ UNCHANGED <<canceled, submitVars, queue, downloaded, decrypted, collectVars>>

(* decryptChunkBytes, whose bytes are returned to the budget either way. *)
Decrypt(x) ==
  /\ decrypter[x].at = "decrypting"
  /\ ReleaseMemory(decrypter[x].part.bytes, worker)
  /\ \E e \in {"none", "failed"} : decrypter' = [decrypter EXCEPT ![x].at = "sending", ![x].part.bytes = 0, ![x].part.err = e]
  /\ UNCHANGED <<canceled, submitVars, queue, downloaded, decrypted, collectVars>>

SendDecrypted(x) ==
  /\ decrypter[x].at = "sending"
  /\ \/ /\ Len(decrypted) < DecryptBuffer /\ decrypted' = Append(decrypted, decrypter[x].part)
        /\ decrypter' = [decrypter EXCEPT ![x] = [at |-> "idle", part |-> NoPart]]
     \/ canceled /\ decrypter' = [decrypter EXCEPT ![x].at = "gone"] /\ UNCHANGED decrypted
  /\ UNCHANGED <<canceled, submitVars, queue, worker, waiting, downloaded, inFlight, collectVars>>

---------------------------------------------------------------------------
AllGone == \A w \in Crew : worker[w].at = "gone"
DecryptersGone == \A x \in Decrypters : decrypter[x].at = "gone"

(* The goroutine of Start that closes the channels, one after the other. *)
CloseChannels ==
  /\ \/ AllGone /\ ~downloadsOver /\ downloadsOver' = TRUE /\ UNCHANGED decryptsOver
     \/ downloadsOver /\ DecryptersGone /\ ~decryptsOver /\ decryptsOver' = TRUE /\ UNCHANGED downloadsOver
  /\ UNCHANGED <<canceled, submitVars, queue, worker, waiting, downloaded, decrypter, decrypted, inFlight, collected, key, returned>>

(* Collect takes every result, then zeroes the key. *)
Collect ==
  /\ key = "held"
  /\ \/ /\ decrypted # <<>> /\ decrypted' = Tail(decrypted)
        /\ collected' = [collected EXCEPT ![Head(decrypted).chunk] = IF Head(decrypted).err = "none" THEN "ok" ELSE Head(decrypted).err]
        /\ UNCHANGED key
     \/ decrypted = <<>> /\ decryptsOver /\ key' = "zeroed" /\ UNCHANGED <<decrypted, collected>>
  /\ UNCHANGED <<canceled, submitVars, queue, worker, waiting, downloaded, downloadsOver, decrypter, decryptsOver, inFlight, returned>>

Results(r) == {c \in Chunks : collected[c] = r}

(* Wrong variant: a context that is over hides a complete collection. *)
OutcomeCanceledFirst ==
  IF canceled THEN "canceled"
  ELSE IF Results("none") # {} THEN "incomplete"
  ELSE IF Results("failed") # {} THEN "failed" ELSE "complete"

(* pipelineCancellationError and pipelineFailureError. *)
Outcome ==
  IF Results("none") # {} THEN IF canceled THEN "canceled" ELSE "incomplete"
  ELSE IF canceled /\ Results("canceled") # {} THEN "canceled"
  ELSE IF Results("failed") \union Results("canceled") # {} THEN "failed" ELSE "complete"

(* downloadPlaylistPipelined returns once the submitter has reported. *)
ReturnPlaylist ==
  /\ key = "zeroed" /\ QueueClosed /\ returned = "none" /\ returned' = Outcome
  /\ UNCHANGED <<canceled, submitVars, queue, worker, waiting, downloaded, downloadsOver, decrypter, decrypted,
                 decryptsOver, inFlight, collected, key>>

DpProgress ==
  \/ SubmitDownload \/ FinishSubmission \/ Broadcast
  \/ \E w \in Crew : TakeTask(w) \/ Fetch(w) \/ WaitForRetry(w) \/ AcquireMemory(w) \/ Enroll(w) \/ SendDownloaded(w)
  \/ \E x \in Decrypters : TakeDownloaded(x) \/ Decrypt(x) \/ SendDecrypted(x)
  \/ CloseChannels \/ Collect \/ ReturnPlaylist

DpNext == DpProgress \/ CancelDownload

---------------------------------------------------------------------------
(* Where a chunk is between its submission and its result. *)
Places(c) ==
  {<<"queue", i>> : i \in {i \in DOMAIN queue : queue[i] = c}}
  \union {<<"worker", w>> : w \in {w \in Crew : worker[w].part.chunk = c /\ worker[w].at # "gone"}}
  \union {<<"downloaded", i>> : i \in {i \in DOMAIN downloaded : downloaded[i].chunk = c}}
  \union {<<"decrypter", x>> : x \in {x \in Decrypters : decrypter[x].part.chunk = c /\ decrypter[x].at # "gone"}}
  \union {<<"decrypted", i>> : i \in {i \in DOMAIN decrypted : decrypted[i].chunk = c}}
  \union (IF collected[c] = "none" THEN {} ELSE {<<"collected", 0>>})

(* No chunk is lost or doubled: it is in one place from its submission on,
   and vanishes only under a context that is over. *)
NoChunkLost ==
  \A c \in Chunks : /\ Cardinality(Places(c)) <= 1
                    /\ c <= offered /\ Places(c) = {} => canceled
                    /\ c > offered => Places(c) = {}

(* The bytes in flight are those of the parts that hold memory, which differ
   as no chunk is doubled, and stay within the budget unless one large part
   has them all. *)
Holding == {worker[w].part : w \in {w \in Crew : worker[w].at = "sending" /\ worker[w].part.err = "none"}}
           \union {downloaded[i] : i \in {i \in DOMAIN downloaded : downloaded[i].err = "none"}}
           \union {decrypter[x].part : x \in {x \in Decrypters : decrypter[x].at = "decrypting"}}
BytesOf(p) == {p} \X (1..p.bytes)
BudgetKept == /\ inFlight = Cardinality(UNION {BytesOf(p) : p \in Holding})
              /\ inFlight <= Budget \/ \E p \in Holding : p.bytes = inFlight

(* The key is zeroed when no one can decrypt any more. *)
KeyOutlivesWorkers == key = "zeroed" => AllGone /\ DecryptersGone

(* The lecture is complete exactly when every chunk is, even if the caller
   gave up meanwhile; without a cancellation every chunk has a result. *)
OutcomeTrue ==
  /\ returned = "complete" => Results("ok") = Chunks
  /\ Results("ok") = Chunks /\ returned # "none" => returned = "complete"
  /\ returned = "failed" => Results("none") = {} /\ Results("failed") # {}
  /\ returned # "incomplete"
  /\ returned = "canceled" => canceled

DpSafe == NoChunkLost /\ BudgetKept /\ KeyOutlivesWorkers /\ OutcomeTrue

(* A worker that enrolled after the Broadcast waits for a Signal that need
   not come; everyone else gets to the end. *)
LateWaiter == broadcast /\ waiting # <<>>
DpEnded == returned # "none" \/ LateWaiter
=============================================================================
