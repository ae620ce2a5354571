-------------------------- MODULE CleanupLifecycle --------------------------
(***************************************************************************)
(* The owner of the server's background cleanup workers                    *)
(* (server/cleanup_lifecycle.go), the workers (StartTokenCleanup in        *)
(* auth.go, startCleanup in ratelimiter.go) and APIServer.Start, which     *)
(* starts the workers, serves, and defers their end.  Servers call Start   *)
(* and later Close, as APIServer.Start does; Closers only call Close.      *)
(* One action per critical section; starters run outside the lock.         *)
(***************************************************************************)
EXTENDS Integers, Sequences

CONSTANTS Servers, Closers,
          Workers          \* the starters, in order: a sequence of names

Callers == Servers \union Closers
WorkerSet == {Workers[i] : i \in 1..Len(Workers)}

(* Every starter makes a worker of its own. *)
ASSUME LifecycleAssumption ==
  /\ Workers \in Seq(WorkerSet)
  /\ \A i, j \in 1..Len(Workers) : Workers[i] = Workers[j] => i = j

VARIABLES lifecycle,   \* cleanupLifecycle.state
          stops,       \* cleanupLifecycle.stops
          pc,          \* where each caller stands
          at,          \* its loop: workers started, or to stop
          worker,      \* the state of each worker goroutine
          stopping     \* workers whose stop channel is closed

lcVars == <<lifecycle, stops, pc, at, worker, stopping>>

LcInit ==
  /\ lifecycle = "inactive" /\ stops = <<>>
  /\ pc = [p \in Callers |-> "idle"] /\ at = [p \in Callers |-> 0]
  /\ worker = [w \in WorkerSet |-> "none"] /\ stopping = {}

Goto(p, where) == pc' = [pc EXCEPT ![p] = where]

(* Start: only the caller that finds the life cycle inactive starts it. *)
Start(p) ==
  /\ p \in Servers /\ pc[p] = "idle"
  /\ IF lifecycle = "inactive"
     THEN lifecycle' = "starting" /\ Goto(p, "starting")
     ELSE UNCHANGED lifecycle /\ Goto(p, "serving")
  /\ UNCHANGED <<stops, at, worker, stopping>>

StartWorker(p) ==
  /\ pc[p] = "starting" /\ at[p] < Len(Workers)
  /\ at' = [at EXCEPT ![p] = @ + 1]
  /\ worker' = [worker EXCEPT ![Workers[at[p] + 1]] = "waiting"]
  /\ UNCHANGED <<lifecycle, stops, pc, stopping>>

Started(p) ==
  /\ pc[p] = "starting" /\ at[p] = Len(Workers)
  /\ lifecycle' = "running" /\ stops' = Workers
  /\ Goto(p, "serving")
  /\ UNCHANGED <<at, worker, stopping>>

(* APIServer.Start returns: the address is refused, the listener fails, or
   the context ends and Shutdown closes the listener.  The hub and the job
   store are closed first, the life cycle last. *)
Serve(p) ==
  /\ pc[p] = "serving"
  /\ Goto(p, "hub")
  /\ UNCHANGED <<lifecycle, stops, at, worker, stopping>>

CloseHubAndStore(p) ==
  /\ pc[p] = "hub"
  /\ Goto(p, "close")
  /\ UNCHANGED <<lifecycle, stops, at, worker, stopping>>

CallClose(p) ==
  /\ p \in Closers /\ pc[p] = "idle"
  /\ Goto(p, "close")
  /\ UNCHANGED <<lifecycle, stops, at, worker, stopping>>

(* Wrong variant: a Close that finds another one at work returns at once. *)
CloseNoWait(p) ==
  /\ pc[p] = "close"
  /\ \/ lifecycle = "inactive" /\ lifecycle' = "closed" /\ Goto(p, "returned") /\ UNCHANGED <<stops, at>>
     \/ lifecycle = "starting" /\ Goto(p, "awaitStart") /\ UNCHANGED <<lifecycle, stops, at>>
     \/ /\ lifecycle = "running" /\ lifecycle' = "closing" /\ stops' = <<>>
        /\ at' = [at EXCEPT ![p] = Len(stops)] /\ Goto(p, "stopping")
     \/ lifecycle \in {"closing", "closed"} /\ Goto(p, "returned") /\ UNCHANGED <<lifecycle, stops, at>>
  /\ UNCHANGED <<worker, stopping>>

(* Close: one turn of its loop under the lock. *)
Close(p) ==
  /\ pc[p] = "close"
  /\ \/ /\ lifecycle = "inactive"
        /\ lifecycle' = "closed" /\ Goto(p, "returned")
        /\ UNCHANGED <<stops, at>>
     \/ /\ lifecycle = "starting"
        /\ Goto(p, "awaitStart")
        /\ UNCHANGED <<lifecycle, stops, at>>
     \/ /\ lifecycle = "running"
        /\ lifecycle' = "closing" /\ stops' = <<>>
        /\ at' = [at EXCEPT ![p] = Len(stops)]
        /\ Goto(p, "stopping")
     \/ /\ lifecycle = "closing"
        /\ Goto(p, "awaitClose")
        /\ UNCHANGED <<lifecycle, stops, at>>
     \/ /\ lifecycle = "closed"
        /\ Goto(p, "returned")
        /\ UNCHANGED <<lifecycle, stops, at>>
  /\ UNCHANGED <<worker, stopping>>

StartAwaited(p) ==
  /\ pc[p] = "awaitStart" /\ lifecycle # "starting"
  /\ Goto(p, "close")
  /\ UNCHANGED <<lifecycle, stops, at, worker, stopping>>

CloseAwaited(p) ==
  /\ pc[p] = "awaitClose" /\ lifecycle = "closed"
  /\ Goto(p, "returned")
  /\ UNCHANGED <<lifecycle, stops, at, worker, stopping>>

(* stopWorkers: the last worker first; a stop function closes the stop
   channel and waits for the worker to end. *)
StopWorker(p) ==
  /\ pc[p] = "stopping" /\ at[p] > 0 /\ Workers[at[p]] \notin stopping
  /\ stopping' = stopping \union {Workers[at[p]]}
  /\ UNCHANGED <<lifecycle, stops, pc, at, worker>>

WorkerStopped(p) ==
  /\ pc[p] = "stopping" /\ at[p] > 0 /\ Workers[at[p]] \in stopping
  /\ worker[Workers[at[p]]] = "ended"
  /\ at' = [at EXCEPT ![p] = @ - 1]
  /\ UNCHANGED <<lifecycle, stops, pc, worker, stopping>>

Closed(p) ==
  /\ pc[p] = "stopping" /\ at[p] = 0
  /\ lifecycle' = "closed" /\ Goto(p, "returned")
  /\ UNCHANGED <<stops, at, worker, stopping>>

(* A worker: a tick cleans up, the stop channel ends it. *)
WorkerTick(w) ==
  /\ worker[w] = "waiting"
  /\ worker' = [worker EXCEPT ![w] = "cleaning"]
  /\ UNCHANGED <<lifecycle, stops, pc, at, stopping>>

WorkerCleaned(w) ==
  /\ worker[w] = "cleaning"
  /\ worker' = [worker EXCEPT ![w] = "waiting"]
  /\ UNCHANGED <<lifecycle, stops, pc, at, stopping>>

WorkerStops(w) ==
  /\ worker[w] = "waiting" /\ w \in stopping
  /\ worker' = [worker EXCEPT ![w] = "ended"]
  /\ UNCHANGED <<lifecycle, stops, pc, at, stopping>>

CallerStep(p) == StartWorker(p) \/ Started(p) \/ CloseHubAndStore(p) \/ Close(p)
                 \/ StartAwaited(p) \/ CloseAwaited(p) \/ StopWorker(p)
                 \/ WorkerStopped(p) \/ Closed(p)

LcNext ==
  \/ \E p \in Callers : CallerStep(p) \/ Start(p) \/ Serve(p) \/ CallClose(p)
  \/ \E w \in WorkerSet : WorkerTick(w) \/ WorkerCleaned(w) \/ WorkerStops(w)

(* select picks among its ready cases at random, so a worker whose stop
   channel is closed takes it in the end, however often its ticker fires. *)
LcFairness ==
  /\ WF_lcVars(\E p \in Callers : CallerStep(p))
  /\ \A w \in WorkerSet : WF_lcVars(WorkerCleaned(w)) /\ SF_lcVars(WorkerStops(w))

LcSpec == LcInit /\ [][LcNext]_lcVars /\ LcFairness

---------------------------------------------------------------------------
LcTypeOK ==
  /\ lifecycle \in {"inactive", "starting", "running", "closing", "closed"}
  /\ stops \in {<<>>, Workers} /\ stopping \subseteq WorkerSet
  /\ worker \in [WorkerSet -> {"none", "waiting", "cleaning", "ended"}]
  /\ at \in [Callers -> 0..Len(Workers)]

Running(w) == worker[w] \in {"waiting", "cleaning"}

(* Whoever called it, a Close that returned leaves no worker running, and
   one is started no more: Close before Start prevents it. *)
ClosedMeansStopped ==
  /\ (\E p \in Callers : pc[p] = "returned") =>
       lifecycle = "closed" /\ \A w \in WorkerSet : ~Running(w)
  /\ lifecycle = "closed" => \A w \in WorkerSet : ~Running(w)

(* One caller at a time starts or stops the workers, and what it holds is
   what runs: none of them can be forgotten. *)
OneOwner ==
  /\ \A p, q \in Callers : pc[p] \in {"starting", "stopping"} /\
                            pc[q] \in {"starting", "stopping"} => p = q
  /\ \A p \in Callers : pc[p] \in {"starting", "stopping"} =>
       \A i \in 1..Len(Workers) : i > at[p] => ~Running(Workers[i])
  /\ lifecycle = "running" => stops = Workers /\ \A w \in WorkerSet : Running(w)

LcSafe == LcTypeOK /\ ClosedMeansStopped /\ OneOwner

(* No Close is under way, also none that met a Start or another Close. *)
ClosesReturned ==
  \A p \in Callers : pc[p] \notin {"hub", "close", "awaitStart", "awaitClose", "stopping"}
=============================================================================
