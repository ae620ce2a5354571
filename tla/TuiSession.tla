----------------------------- MODULE TuiSession -----------------------------
(***************************************************************************)
(* The private session of the terminal interface (tuisession): its         *)
(* operations, the hub of its event streams, the handlers of its routes    *)
(* and Session.Close.  One action per critical section or channel          *)
(* operation of a goroutine.  An operation has the number of the request   *)
(* that starts it; an event is its sequence number.                        *)
(*                                                                         *)
(* guard refuses a request once the session context has ended; as one that *)
(* arrived before may go on afterwards, a handler is modelled from its     *)
(* first critical section on.                                              *)
(***************************************************************************)
EXTENDS Integers, Sequences, FiniteSets, SequencesExt

CONSTANTS MaxPosts,       \* bound: POST /operations requests, in order of arrival
          MaxOperations,  \* maxOperations of the registry
          Kinds,          \* subset of {"selftest", "download", "playback"}
          Steps,          \* self-test steps; bound: reports of a download
          MaxMoves,       \* bound: positions a player reports
          MaxStreams,     \* bound: GET /events requests, in order of arrival
          Deleters,       \* clients of DELETE /operations/{id}
          QueueDepth      \* EventQueueDepth

ASSUME SessionAssumption ==
  /\ {MaxPosts, MaxStreams, MaxMoves, Steps} \subseteq Nat /\ QueueDepth \in Nat \ {0}
  /\ Kinds \subseteq {"selftest", "download", "playback"}

Ops == 1..MaxPosts
Streams == 1..MaxStreams

VARIABLES
  phase,      \* how far Session.Close has come
  post,       \* the POST handlers
  delete,     \* the DELETE handlers: the operation they wait for, 0 for none
  entry,      \* operationRegistry.operations: the state of each operation
  canceled,   \* operations whose own context was canceled
  worker,     \* where the goroutine of each operation stands
  count,      \* progress an operation has published
  play,       \* the playback of an operation: player, telemetry, outcome
  consumer,   \* where consumePlaybackEvents stands
  checkpoint, \* what recordPlayback has stored
  hub,        \* hub: sequence, closed, subscribers
  buf,        \* eventSubscriber.events
  overflow,   \* eventSubscriber.overflow
  stream,     \* the streamEvents handlers
  ready,      \* history: the number of a stream's session.ready
  last,       \* history: the last number a stream has delivered
  said        \* history: the last thing published of an operation

opVars == <<entry, canceled, worker, count, play, consumer, checkpoint, said>>
hubVars == <<hub, buf, overflow, stream, ready, last>>
tsVars == <<phase, post, delete, opVars, hubVars>>

NoPlay == [known |-> FALSE, at |-> 0, ended |-> "no", open |-> FALSE, feed |-> <<>>,
           position |-> 0, eof |-> FALSE, failed |-> FALSE]

TsInit ==
  /\ phase = "open" /\ post \in [Ops -> Kinds \union {"answered"}] /\ delete = [d \in Deleters |-> 0]
  /\ entry = [o \in Ops |-> "none"] /\ canceled = {} /\ worker = [o \in Ops |-> "none"]
  /\ count = [o \in Ops |-> 0] /\ play = [o \in Ops |-> NoPlay]
  /\ consumer = [o \in Ops |-> "none"] /\ checkpoint = [o \in Ops |-> <<>>]
  /\ hub = [sequence |-> 0, closed |-> FALSE, subscribers |-> {}]
  /\ buf = [s \in Streams |-> <<>>] /\ overflow = [s \in Streams |-> <<>>]
  /\ stream \in [Streams -> {"idle", "gone"}]
  /\ ready = [s \in Streams |-> 0] /\ last = [s \in Streams |-> 0]
  /\ said = [o \in Ops |-> "nothing"]

Stopping == phase \notin {"open", "canceled"}
Ended(o) == phase # "open" \/ o \in canceled   \* ctx.Err() # nil
Registered == {o \in Ops : entry[o] # "none"}
Busy == {o \in Registered : worker[o] # "gone"}   \* registry.wait
Terminal == {"completed", "failed", "canceled"}

---------------------------------------------------------------------------
(* The hub                                                                 *)

(* An operation tells its start first, its end once and last. *)
Said(was, what) ==
  IF (was = "nothing" /\ what = "started") \/ (was \in {"started", "progress"} /\ what # "started")
  THEN what ELSE "wrong"

(* Wrong variant: a full queue costs the event and not the subscription. *)
PublishDrops(o, what) ==
  /\ said' = [said EXCEPT ![o] = Said(@, what)]
  /\ LET n == hub.sequence + 1
         full == {s \in hub.subscribers : Len(buf[s]) >= QueueDepth}
     IN IF hub.closed THEN UNCHANGED <<hub, buf, overflow>>
        ELSE /\ hub' = [hub EXCEPT !.sequence = n]
             /\ buf' = [s \in Streams |-> IF s \in hub.subscribers \ full
                                          THEN Append(buf[s], n) ELSE buf[s]]
             /\ UNCHANGED overflow

Publish(o, what) ==
  /\ said' = [said EXCEPT ![o] = Said(@, what)]
  /\ LET n == hub.sequence + 1
         full == {s \in hub.subscribers : Len(buf[s]) >= QueueDepth}
     IN IF hub.closed THEN UNCHANGED <<hub, buf, overflow>>
        ELSE /\ hub' = [hub EXCEPT !.sequence = n, !.subscribers = @ \ full]
             /\ buf' = [s \in Streams |-> IF s \in hub.subscribers \ full
                                          THEN Append(buf[s], n) ELSE buf[s]]
             /\ overflow' = [s \in Streams |-> IF s \in full THEN <<n>> ELSE overflow[s]]

Subscribe(s) ==
  /\ stream[s] = "idle" /\ ~hub.closed /\ \A r \in 1..(s - 1) : stream[r] # "idle"
  /\ hub' = [hub EXCEPT !.sequence = @ + 1, !.subscribers = @ \union {s}]
  /\ buf' = [buf EXCEPT ![s] = <<hub.sequence + 1>>]
  /\ ready' = [ready EXCEPT ![s] = hub.sequence + 1]
  /\ stream' = [stream EXCEPT ![s] = "open"]
  /\ UNCHANGED <<phase, post, delete, opVars, overflow, last>>

Deliver(s) ==
  /\ stream[s] = "open" /\ buf[s] # <<>>
  /\ last' = [last EXCEPT ![s] = Head(buf[s])]
  /\ buf' = [buf EXCEPT ![s] = Tail(@)]
  /\ UNCHANGED <<phase, post, delete, opVars, hub, overflow, stream, ready>>

(* streamEvents returns: the queue is dropped, the subscription ends. *)
StreamEnds(s) ==
  /\ stream' = [stream EXCEPT ![s] = "gone"]
  /\ hub' = [hub EXCEPT !.subscribers = @ \ {s}]
  /\ buf' = [buf EXCEPT ![s] = <<>>] /\ overflow' = [overflow EXCEPT ![s] = <<>>]
  /\ UNCHANGED <<phase, post, delete, opVars, ready>>

(* select may prefer the overflow to events still queued. *)
DeliverOverflow(s) ==
  /\ stream[s] = "open" /\ overflow[s] # <<>>
  /\ last' = [last EXCEPT ![s] = overflow[s][1]]
  /\ StreamEnds(s)

(* The client left, a write failed; *)
ClientLeaves(s) == stream[s] = "open" /\ StreamEnds(s) /\ UNCHANGED last

(* the request context or the hub is done. *)
StreamDone(s) ==
  /\ stream[s] = "open" /\ (phase # "open" \/ hub.closed)
  /\ StreamEnds(s) /\ UNCHANGED last

---------------------------------------------------------------------------
(* Requests                                                                *)

(* operationsRoot, from register on; authentication or the catalog may
   refuse the request before. *)
RefuseEarly(o) ==
  /\ post[o] \in Kinds /\ \A p \in 1..(o - 1) : post[p] \notin Kinds
  /\ post' = [post EXCEPT ![o] = "answered"]
  /\ UNCHANGED <<phase, delete, opVars, hubVars>>

RegistryRefuses == Stopping \/ Cardinality(Registered) >= MaxOperations

(* Wrong variant: whether the registry is stopping is looked at before the
   lock is taken, so a request may slip past stopAndWait. *)
RegisterLate(o) ==
  /\ post[o] \in Kinds /\ \A p \in 1..(o - 1) : post[p] \notin Kinds
  /\ IF Cardinality(Registered) >= MaxOperations
     THEN post' = [post EXCEPT ![o] = "answered"] /\ UNCHANGED <<entry, worker>>
     ELSE /\ entry' = [entry EXCEPT ![o] = "running"]
          /\ worker' = [worker EXCEPT ![o] = post[o]]
          /\ post' = [post EXCEPT ![o] = "announcing"]
  /\ UNCHANGED <<phase, delete, canceled, count, play, consumer, checkpoint, said, hubVars>>

Register(o) ==
  /\ post[o] \in Kinds /\ \A p \in 1..(o - 1) : post[p] \notin Kinds
  /\ IF RegistryRefuses
     THEN post' = [post EXCEPT ![o] = "answered"] /\ UNCHANGED <<entry, worker>>
     ELSE /\ entry' = [entry EXCEPT ![o] = "running"]
          /\ worker' = [worker EXCEPT ![o] = post[o]]
          /\ post' = [post EXCEPT ![o] = "announcing"]
  /\ UNCHANGED <<phase, delete, canceled, count, play, consumer, checkpoint, said, hubVars>>

(* operation.started is published after the lock is released; only then is
   the goroutine of the operation started. *)
Announce(o) ==
  /\ post[o] = "announcing"
  /\ Publish(o, "started")
  /\ post' = [post EXCEPT ![o] = "answered"]
  /\ UNCHANGED <<phase, delete, entry, canceled, worker, count, play, consumer,
                 checkpoint, stream, ready, last>>

(* cancelOperation; the identifier is known from the stream or the answer. *)
Delete(d, o) ==
  /\ delete[d] = 0 /\ phase = "open" /\ said[o] # "nothing"
  /\ canceled' = canceled \union {o}
  /\ delete' = [delete EXCEPT ![d] = o]
  /\ UNCHANGED <<phase, post, entry, worker, count, play, consumer, checkpoint, said, hubVars>>

Deleted(d) ==
  /\ delete[d] # 0 /\ worker[delete[d]] = "gone"
  /\ delete' = [delete EXCEPT ![d] = 0]
  /\ UNCHANGED <<phase, post, opVars, hubVars>>

---------------------------------------------------------------------------
(* The goroutine of an operation                                           *)

At(o, pc) == worker[o] = pc /\ post[o] = "answered"

Finish(o, state) ==
  /\ entry[o] = "running" /\ entry' = [entry EXCEPT ![o] = state]
  /\ Publish(o, "ended")
  /\ worker' = [worker EXCEPT ![o] = "returning"]
  /\ UNCHANGED <<phase, post, delete, canceled, count, play, consumer, checkpoint,
                 stream, ready, last>>

(* The deferred close(entry.done) and wait.Done. *)
Return(o) ==
  /\ worker[o] = "returning"
  /\ worker' = [worker EXCEPT ![o] = "gone"]
  /\ UNCHANGED <<phase, post, delete, entry, canceled, count, play, consumer,
                 checkpoint, said, hubVars>>

Progress(o) ==
  /\ count[o] < Steps /\ count' = [count EXCEPT ![o] = @ + 1]
  /\ Publish(o, "progress")
  /\ UNCHANGED <<phase, post, delete, entry, canceled, worker, play, consumer,
                 checkpoint, stream, ready, last>>

(* With an interval, a timer that has fired may win over the cancellation. *)
SelfTest(o) ==
  /\ At(o, "selftest")
  /\ \/ Progress(o)
     \/ count[o] < Steps /\ Ended(o) /\ Finish(o, "canceled")
     \/ count[o] = Steps /\ Finish(o, "completed")

Reports(o) == At(o, "download") /\ entry[o] = "running" /\ Progress(o)

DownloadReturns(o) ==
  /\ At(o, "download")
  /\ \E how \in {"completed", "failed"} : Finish(o, IF Ended(o) THEN "canceled" ELSE how)

Playback(o, from, to, new) ==
  /\ At(o, from)
  /\ worker' = [worker EXCEPT ![o] = to] /\ play' = [play EXCEPT ![o] = new]
  /\ UNCHANGED <<phase, post, delete, entry, canceled, count, said, hubVars>>

(* ResumeLecture: a checkpoint is kept only for a known artifact. *)
Resume(o) ==
  \/ /\ \E known \in BOOLEAN : Playback(o, "playback", "starting", [play[o] EXCEPT !.known = known])
     /\ UNCHANGED <<consumer, checkpoint>>
  \/ At(o, "playback") /\ Finish(o, "failed")

(* StartLecture, attachPlayback and the consumer.  The operation is still
   running: only its own goroutine finishes it. *)
Start(o) ==
  \/ /\ Playback(o, "starting", "playing", [play[o] EXCEPT !.open = TRUE])
     /\ consumer' = [consumer EXCEPT ![o] = "on"]
     /\ UNCHANGED checkpoint
  \/ At(o, "starting") /\ Finish(o, IF Ended(o) THEN "canceled" ELSE "failed")

(* The player: a new position, or its end, which is an event as well. *)
PlayerActs(o) ==
  /\ play[o].open /\ play[o].ended = "no"
  /\ \/ /\ play[o].at < MaxMoves
        /\ play' = [play EXCEPT ![o].at = @ + 1,
                              ![o].feed = Append(@, [at |-> play[o].at + 1, eof |-> FALSE])]
     \/ \E how \in {"eof", "quit", "error"} :
          play' = [play EXCEPT ![o].ended = how,
                               ![o].feed = Append(@, [at |-> play[o].at, eof |-> how = "eof"])]
  /\ UNCHANGED <<phase, post, delete, entry, canceled, worker, count, consumer,
                 checkpoint, said, hubVars>>

(* PlaybackOver returns an error for a failure and for a context that ended
   first. *)
PlaybackOver(o) ==
  /\ \/ play[o].ended # "no" /\ Playback(o, "playing", "closing", [play[o] EXCEPT !.failed = @ \/ play[o].ended = "error"])
     \/ Ended(o) /\ Playback(o, "playing", "closing", [play[o] EXCEPT !.failed = TRUE])
  /\ UNCHANGED <<consumer, checkpoint>>

ClosePlaybackOf(o) ==
  /\ \E failed \in BOOLEAN :
       Playback(o, "closing", "draining", [play[o] EXCEPT !.open = FALSE, !.failed = @ \/ failed])
  /\ UNCHANGED <<consumer, checkpoint>>

(* consumePlaybackEvents; Playback.Events is closed with the player, and what
   is queued can still be received. *)
Consume(o) ==
  /\ consumer[o] = "on" /\ play[o].feed # <<>>
  /\ LET event == Head(play[o].feed)
     IN play' = [play EXCEPT ![o].feed = Tail(@), ![o].position = event.at,
                             ![o].eof = @ \/ event.eof]
  /\ Publish(o, "progress")
  /\ UNCHANGED <<phase, post, delete, entry, canceled, worker, count, consumer,
                 checkpoint, stream, ready, last>>

ConsumerEnds(o) ==
  /\ consumer[o] = "on"
  /\ (~play[o].open /\ play[o].feed = <<>>) \/ Ended(o)
  /\ consumer' = [consumer EXCEPT ![o] = "gone"]
  /\ UNCHANGED <<phase, post, delete, entry, canceled, worker, count, play, checkpoint,
                 said, hubVars>>

Checkpoint(o) ==
  IF play[o].known
  THEN <<[position |-> play[o].position,
          completed |-> ~Ended(o) /\ ~play[o].failed /\ play[o].eof]>>
  ELSE <<>>

(* Wrong variant: the checkpoint does not wait for the consumer. *)
RecordEarly(o) ==
  /\ At(o, "draining")
  /\ worker' = [worker EXCEPT ![o] = "recorded"]
  /\ checkpoint' = [checkpoint EXCEPT ![o] = Checkpoint(o)]
  /\ UNCHANGED <<phase, post, delete, entry, canceled, count, play, consumer, said, hubVars>>

(* <-eventsDone, detachPlayback, recordPlayback; a warning is published when
   the library does not take the checkpoint. *)
Record(o) ==
  /\ At(o, "draining") /\ consumer[o] = "gone"
  /\ worker' = [worker EXCEPT ![o] = "recorded"]
  /\ \/ /\ checkpoint' = [checkpoint EXCEPT ![o] = Checkpoint(o)]
        /\ UNCHANGED <<said, hubVars>>
     \/ /\ play[o].known /\ Publish(o, "progress")
        /\ UNCHANGED <<checkpoint, stream, ready, last>>
  /\ UNCHANGED <<phase, post, delete, entry, canceled, count, play, consumer>>

FinishPlayback(o) ==
  /\ At(o, "recorded")
  /\ Finish(o, IF Ended(o) THEN "canceled" ELSE IF play[o].failed THEN "failed" ELSE "completed")

---------------------------------------------------------------------------
(* Session.Close; a second call waits for the first.                       *)

PhaseTo(from, to) ==
  /\ phase = from /\ phase' = to
  /\ UNCHANGED <<post, delete, opVars>>

(* Close is called, or the context the session was started with ends. *)
CloseCancels == PhaseTo("open", "canceled") /\ UNCHANGED hubVars

(* stopAndWait: stopping is set and every operation canceled under the lock. *)
CloseStops == PhaseTo("canceled", "stopping") /\ UNCHANGED hubVars

CloseWaited == Busy = {} /\ PhaseTo("stopping", "stopped") /\ UNCHANGED hubVars

CloseEvents ==
  /\ PhaseTo("stopped", "muted")
  /\ hub' = [hub EXCEPT !.closed = TRUE, !.subscribers = {}]
  /\ UNCHANGED <<buf, overflow, stream, ready, last>>

(* Shutdown ends once no handler is active, or gives up after its timeout
   and the connections are closed. *)
CloseServer == PhaseTo("muted", "closed") /\ UNCHANGED hubVars

TsProgress ==
  \/ \E s \in Streams : DeliverOverflow(s) \/ StreamDone(s)
  \/ \E d \in Deleters : Deleted(d)
  \/ \E o \in Ops :
       \/ Announce(o) \/ SelfTest(o) \/ DownloadReturns(o) \/ Resume(o) \/ Start(o)
       \/ PlaybackOver(o) \/ ClosePlaybackOf(o) \/ Consume(o) \/ ConsumerEnds(o) \/ Record(o)
       \/ FinishPlayback(o) \/ Return(o)
  \/ CloseStops \/ CloseWaited \/ CloseEvents \/ CloseServer

TsNext ==
  \/ TsProgress \/ CloseCancels
  \/ \E s \in Streams : Subscribe(s) \/ Deliver(s) \/ ClientLeaves(s)
  \/ \E d \in Deleters, o \in Ops : Delete(d, o)
  \/ \E o \in Ops : RefuseEarly(o) \/ Register(o) \/ Reports(o) \/ PlayerActs(o)

(* Some goroutine that can run does; a download, a player and a server that
   are told to stop return. *)
TsFairness == WF_tsVars(TsProgress)

---------------------------------------------------------------------------
TsTypeOK ==
  /\ phase \in {"open", "canceled", "stopping", "stopped", "muted", "closed"}
  /\ \A o \in Ops : entry[o] \in {"none", "running"} \union Terminal /\ count[o] \in 0..Steps
  /\ \A s \in Streams : Len(buf[s]) <= QueueDepth /\ Len(overflow[s]) <= 1
  /\ hub.subscribers \subseteq Streams /\ canceled \subseteq Registered

(* What is published of an operation: its start first, its end once and last,
   and the end exactly when the registry says so. *)
OperationToldInOrder ==
  \A o \in Ops : said[o] # "wrong" /\ (entry[o] \in Terminal <=> said[o] = "ended")

(* A subscriber has every event since its session.ready, in order, delivered
   or queued; one that lost an event is no subscriber any more and has the
   overflow to deliver, which comes after everything it was given. *)
Due(s) == {n \in ready[s]..hub.sequence : \A t \in Streams \ {s} : ready[t] # n}

StreamsTellAll ==
  \A s \in Streams :
    /\ s \in hub.subscribers => ToSet(buf[s]) = {n \in Due(s) : n > last[s]}
    /\ \A i, j \in DOMAIN buf[s] : i < j => buf[s][i] < buf[s][j]
    /\ stream[s] = "open" /\ s \notin hub.subscribers => overflow[s] # <<>> \/ hub.closed
    /\ \A i \in DOMAIN overflow[s] : overflow[s][i] > last[s] /\ \A n \in ToSet(buf[s]) : n < overflow[s][i]

(* Once stopAndWait has returned nothing runs and nothing can start, and a
   closed hub cut off nothing that was still to be told. *)
StoppedIsIdle ==
  phase \in {"stopped", "muted", "closed"} =>
    /\ Busy = {} /\ \A o \in Ops : post[o] # "announcing" /\ consumer[o] # "on"
    /\ \A o \in Registered : entry[o] \in Terminal

(* A checkpoint holds the last position the player reported, unless the
   operation was canceled, and completed only for an end of file. *)
CheckpointHonest ==
  \A o \in Ops : \A i \in DOMAIN checkpoint[o] :
    /\ checkpoint[o][i].completed => play[o].ended = "eof" /\ ~play[o].failed
    /\ ~Ended(o) => checkpoint[o][i].position = play[o].at

(* A player that was opened is closed before its operation ends. *)
PlayersClosed == \A o \in Ops : entry[o] \in Terminal => ~play[o].open /\ consumer[o] # "on"

TsSafe == /\ TsTypeOK /\ OperationToldInOrder /\ StreamsTellAll
          /\ StoppedIsIdle /\ CheckpointHonest /\ PlayersClosed

(* DELETE is answered, Close returns and no stream outlives the session. *)
SessionAnswered ==
  /\ \A d \in Deleters : delete[d] = 0
  /\ phase \in {"open", "closed"} /\ (phase = "closed" => \A s \in Streams : stream[s] # "open")
=============================================================================
