--------------------------- MODULE APIServerProofs ---------------------------
(***************************************************************************)
(* Proofs about the state an API server shares beside its jobs: ServerSafe *)
(* for any numbers of connections, messages, callers, requests, attempts,  *)
(* tokens and redirects.  The parts share no variable, so each has an      *)
(* inductive invariant of its own.                                         *)
(***************************************************************************)
EXTENDS APIServer, FiniteSetTheorems, SequenceTheorems, WellFoundedInduction, TLAPS

-------------------------------------------------------------------------------
(* The cleanup life cycle.  Its state says who may start or stop workers.  *)

Stances == {"idle", "starting", "serving", "hub", "close", "awaitStart",
            "awaitClose", "stopping", "returned"}

(* Where a caller stands tells what the state is: only one who holds the   *)
(* life cycle is starting or stopping.                                     *)
OwnerInv(p) ==
  /\ pc[p] = "idle" => at[p] = 0
  /\ pc[p] = "starting" => lifecycle = "starting"
  /\ pc[p] = "stopping" => lifecycle = "closing"
  /\ pc[p] = "returned" => lifecycle = "closed"

(* The workers a starting owner has passed run; before the start and after *)
(* the close none does.                                                    *)
WorkingInv ==
  /\ \A p \in Callers : pc[p] = "starting" =>
       \A i \in 1..Len(Workers) : i <= at[p] => Running(Workers[i])
  /\ lifecycle \in {"inactive", "starting", "running"} => stopping = {}
  /\ lifecycle \in {"inactive", "closed"} => \A w \in WorkerSet : ~Running(w)

LcIInv ==
  /\ LcTypeOK
  /\ pc \in [Callers -> Stances]
  /\ \A p \in Callers : OwnerInv(p)
  /\ OneOwner
  /\ WorkingInv

(* The list Workers numbers WorkerSet: every index is a worker, every worker*)
(* has an index.                                                           *)
LEMMA WorkersNumbered ==
  /\ Len(Workers) \in Nat
  /\ \A i \in 1..Len(Workers) : Workers[i] \in WorkerSet
  /\ \A w \in WorkerSet : \E i \in 1..Len(Workers) : w = Workers[i]
BY LifecycleAssumption DEF WorkerSet, LifecycleAssumption

(* The life cycle starts inactive: nobody holds it and no worker runs.     *)
LEMMA InitLcIInv == LcInit => LcIInv
BY WorkersNumbered
   DEF LcInit, LcIInv, LcTypeOK, Stances, OwnerInv, OneOwner, Running, WorkingInv

(* Every step of a Start or a Close keeps it: the lock of the life cycle   *)
(* hands the state to one owner at a time.                                 *)
LEMMA NextLcIInv == LcIInv /\ [LcNext]_lcVars => LcIInv'
<1> SUFFICES ASSUME LcIInv, [LcNext]_lcVars PROVE LcIInv'
  OBVIOUS
<1> USE WorkersNumbered DEF LcIInv, OwnerInv, OneOwner, LcTypeOK, Stances, Goto, Running,
            WorkingInv
<1>1. ASSUME NEW p \in Callers, Start(p) PROVE LcIInv'
  <2>1. LcTypeOK' /\ pc' \in [Callers -> Stances] /\ \A q \in Callers : OwnerInv(q)'
    BY <1>1 DEF Start
  <2>2. OneOwner'
    BY <1>1 DEF Start
  <2>3. WorkingInv'
    BY <1>1 DEF Start
  <2> QED
    BY <2>1, <2>2, <2>3
<1>2. ASSUME NEW p \in Callers, StartWorker(p) PROVE LcIInv'
  <2>1. LcTypeOK' /\ pc' \in [Callers -> Stances] /\ \A q \in Callers : OwnerInv(q)'
    BY <1>2 DEF StartWorker
  <2>2. OneOwner'
    <3>1. \A i \in 1..Len(Workers) : i # at[p] + 1 => worker'[Workers[i]] = worker[Workers[i]]
      <4>1. at[p] + 1 \in 1..Len(Workers)
        BY <1>2 DEF StartWorker
      <4>2. \A i \in 1..Len(Workers) : i # at[p] + 1 => Workers[i] # Workers[at[p] + 1]
        BY <4>1, LifecycleAssumption
      <4> QED
        BY <1>2, <4>2 DEF StartWorker
    <3> QED
      BY <1>2, <3>1 DEF StartWorker
  <2>3. WorkingInv'
    BY <1>2 DEF StartWorker
  <2> QED
    BY <2>1, <2>2, <2>3
<1>3. ASSUME NEW p \in Callers, Started(p) PROVE LcIInv'
  BY <1>3 DEF Started
<1>4. ASSUME NEW p \in Callers, Serve(p) \/ CloseHubAndStore(p) \/ CallClose(p)
      PROVE  LcIInv'
  BY <1>4 DEF Serve, CloseHubAndStore, CallClose
<1>5. ASSUME NEW p \in Callers, Close(p) PROVE LcIInv'
  <2>1. LcTypeOK' /\ pc' \in [Callers -> Stances] /\ \A q \in Callers : OwnerInv(q)'
    <3>1. lifecycle = "running" => Len(stops) = Len(Workers)
      OBVIOUS
    <3>2. lifecycle = "running" \/ lifecycle # "running"
      OBVIOUS
    <3> QED
      BY <1>5, <3>1, <3>2 DEF Close
  <2>2. OneOwner'
    BY <1>5 DEF Close
  <2>3. WorkingInv'
    BY <1>5 DEF Close
  <2> QED
    BY <2>1, <2>2, <2>3
<1>6. ASSUME NEW p \in Callers, StartAwaited(p) \/ CloseAwaited(p) PROVE LcIInv'
  BY <1>6 DEF StartAwaited, CloseAwaited
<1>7. ASSUME NEW p \in Callers, StopWorker(p) PROVE LcIInv'
  BY <1>7 DEF StopWorker
<1>8. ASSUME NEW p \in Callers, WorkerStopped(p) PROVE LcIInv'
  BY <1>8 DEF WorkerStopped
<1>9. ASSUME NEW p \in Callers, Closed(p) PROVE LcIInv'
  BY <1>9 DEF Closed
<1>10. ASSUME NEW w \in WorkerSet, WorkerTick(w) \/ WorkerCleaned(w) \/ WorkerStops(w)
       PROVE  LcIInv'
  <2>1. CASE WorkerTick(w) \/ WorkerCleaned(w)
    <3>1. Running(w) /\ Running(w)' /\ UNCHANGED <<lifecycle, stops, pc, at, stopping>>
      BY <2>1 DEF WorkerTick, WorkerCleaned
    <3>2. \A v \in WorkerSet : Running(v)' <=> Running(v)
      BY <2>1, <3>1 DEF WorkerTick, WorkerCleaned
    <3>3. LcTypeOK'
      BY <2>1 DEF WorkerTick, WorkerCleaned
    <3> HIDE DEF Running
    <3> QED
      BY <3>1, <3>2, <3>3
  <2>2. CASE WorkerStops(w)
    <3>1. /\ lifecycle \in {"closing", "closed"} /\ Running(w)
          /\ UNCHANGED <<lifecycle, stops, pc, at, stopping>>
      BY <2>2 DEF WorkerStops
    <3>2. \A v \in WorkerSet : Running(v)' => Running(v)
      BY <2>2 DEF WorkerStops
    <3>3. LcTypeOK'
      BY <2>2 DEF WorkerStops
    <3> HIDE DEF Running
    <3> QED
      BY <3>1, <3>2, <3>3
  <2> QED
    BY <1>10, <2>1, <2>2
<1>11. CASE UNCHANGED lcVars
  BY <1>11 DEF lcVars
<1> QED
  BY <1>1, <1>2, <1>3, <1>4, <1>5, <1>6, <1>7, <1>8, <1>9, <1>10, <1>11
     DEF LcNext, CallerStep

(* What the life cycle promises: one owner, and a closed life cycle without*)
(* workers.                                                                *)
LEMMA LcIInvImplies == LcIInv => LcSafe
BY DEF LcIInv, LcSafe, ClosedMeansStopped, OwnerInv, WorkingInv

-------------------------------------------------------------------------------
(* The hub.  All but the order of the messages is said of one client.      *)

Increasing(s, low, high) ==
  \A i, j \in 1..Len(s) : low < s[i] /\ s[i] <= high /\ (i < j => s[i] < s[j])

(* What the variables of the hub hold.                                     *)
HubTypes ==
  /\ clients \subseteq Clients /\ done \subseteq Clients /\ toStop \subseteq Clients
  /\ hubClosed \in BOOLEAN /\ sent \in 0..MaxMessages
  /\ queue \in [Clients -> Seq(Nat)] /\ writing \in [Clients -> Seq(Nat)]
  /\ received \in [Clients -> Seq(Nat)] /\ since \in [Clients -> Nat]
  /\ pump \in [Clients -> {"none", "check", "select", "writing", "leaving", "closing", "gone"}]
  /\ handler \in [Clients -> {"idle", "upgraded", "reading", "leaving", "waiting", "gone"}]
  /\ overflowed \in [Broadcasters -> SUBSET Clients]

(* What a client has received, is being written and has queued, in this    *)
(* order, are messages broadcast after it was registered.                  *)
MessagesInv(c) ==
  /\ Increasing(InFlight(c), since[c], sent) /\ since[c] <= sent
  /\ Len(queue[c]) <= QueueCapacity /\ Len(writing[c]) <= 1
  /\ pump[c] = "none" => queue[c] = <<>> /\ received[c] = <<>>
  /\ pump[c] # "writing" => writing[c] = <<>>

(* How far the handler and the pump of a connection have come, and what    *)
(* the hub knows of it.                                                    *)
ConnectionInv(c) ==
  /\ handler[c] \in {"idle", "upgraded"} => pump[c] = "none"
  /\ handler[c] = "gone" => pump[c] \in {"none", "gone"}
  /\ c \in clients => pump[c] \notin {"none", "closing", "gone"}
  /\ pump[c] \notin {"none", "gone"} => c \in clients \union toStop \union done

(* A registered client has every message since its registration, or is     *)
(* about to go.                                                            *)
GapInv(c) ==
  c \in clients => \/ Len(InFlight(c)) = sent - since[c]
                   \/ pump[c] = "leaving"
                   \/ \E b \in Broadcasters : c \in overflowed[b]

ClientInv(c) == MessagesInv(c) /\ ConnectionInv(c) /\ GapInv(c)

HubIInv ==
  /\ HubTypes
  /\ \A c \in Clients : ClientInv(c)
  /\ clients # {} => ~hubClosed
  /\ ~hubClosed => toStop = {}

(* A larger number at the end keeps a list increasing.                     *)
LEMMA IncreasingAppend ==
  ASSUME NEW s \in Seq(Nat), NEW low \in Nat, NEW high \in Nat, NEW n \in Nat,
         Increasing(s, low, high), low <= high, high < n
  PROVE  Increasing(Append(s, n), low, n)
BY DEF Increasing

(* A wider range keeps it, too.                                            *)
LEMMA IncreasingLater ==
  ASSUME NEW s \in Seq(Nat), NEW low \in Nat, NEW high \in Nat, NEW n \in Nat,
         Increasing(s, low, high), high <= n
  PROVE  Increasing(s, low, n)
BY DEF Increasing

(* Dropping a part from the middle of an increasing list keeps the rest    *)
(* increasing.                                                             *)
LEMMA IncreasingWithout ==
  ASSUME NEW a \in Seq(Nat), NEW b \in Seq(Nat), NEW c \in Seq(Nat),
         NEW low \in Nat, NEW high \in Nat, Increasing(a \o b \o c, low, high)
  PROVE  Increasing(a \o <<>> \o c, low, high)
<1> DEFINE s == a \o b \o c
           t == a \o <<>> \o c
           far(i) == IF i <= Len(a) THEN i ELSE i + Len(b)
<1>1. /\ s \in Seq(Nat) /\ t \in Seq(Nat) /\ Len(s) = Len(a) + Len(b) + Len(c)
      /\ Len(t) = Len(a) + Len(c)
      /\ Len(a) \in Nat /\ Len(b) \in Nat /\ Len(c) \in Nat
  OBVIOUS
<1>2. \A i \in 1..Len(t) : far(i) \in 1..Len(s) /\ t[i] = s[far(i)]
  <2> TAKE i \in 1..Len(t)
  <2>1. CASE i <= Len(a)
    BY <1>1, <2>1
  <2>2. CASE i > Len(a)
    <3>1. t[i] = c[i - Len(a)]
      BY <1>1, <2>2
    <3>2. s[i + Len(b)] = c[i - Len(a)]
      BY <1>1, <2>2
    <3> QED
      BY <1>1, <2>2, <3>1, <3>2
  <2> QED
    BY <1>1, <2>1, <2>2
<1>3. \A i, j \in 1..Len(t) : i < j => far(i) < far(j)
  BY <1>1
<1> HIDE DEF s, t, far
<1>4. Increasing(s, low, high)
  BY DEF s
<1> QED
  <2>1. Increasing(t, low, high)
    BY <1>2, <1>3, <1>4 DEF Increasing
  <2> QED
    BY <2>1 DEF t

(* Concatenation of three lists associates.                                *)
LEMMA Regrouped ==
  ASSUME NEW a \in Seq(Nat), NEW b \in Seq(Nat), NEW c \in Seq(Nat)
  PROVE  (a \o b) \o <<>> \o c = a \o b \o c
BY ConcatProperties, ConcatEmptySeq

(* Taking the head of q and adding it to a leaves the concatenation as it  *)
(* is.                                                                     *)
LEMMA HeadMoves ==
  ASSUME NEW a \in Seq(Nat), NEW q \in Seq(Nat), q # <<>>
  PROVE  a \o <<Head(q)>> \o Tail(q) = a \o <<>> \o q
<1>1. Head(q) \in Nat /\ Tail(q) \in Seq(Nat) /\ q = <<Head(q)>> \o Tail(q)
  OBVIOUS
<1>2. <<Head(q)>> \in Seq(Nat)
  BY <1>1
<1>3. a \o <<Head(q)>> \o Tail(q) = a \o (<<Head(q)>> \o Tail(q))
  BY <1>1, <1>2, ConcatAssociative
<1> QED
  BY <1>1, <1>3, ConcatEmptySeq

(* A number appended to the last of three lists is appended to their       *)
(* concatenation.                                                          *)
LEMMA AppendedLast ==
  ASSUME NEW a \in Seq(Nat), NEW b \in Seq(Nat), NEW c \in Seq(Nat), NEW n \in Nat
  PROVE  a \o b \o Append(c, n) = Append(a \o b \o c, n)
<1>1. a \o b \in Seq(Nat)
  OBVIOUS
<1>2. \A d \in Seq(Nat) : d \o Append(c, n) = Append(d \o c, n)
  OBVIOUS
<1> QED
  BY <1>1, <1>2

(* A client that a step leaves alone, but for what others do to the sets.  *)
Untouched(c) ==
  /\ queue'[c] = queue[c] /\ writing'[c] = writing[c] /\ received'[c] = received[c]
  /\ since'[c] = since[c] /\ pump'[c] = pump[c] /\ handler'[c] = handler[c]
  /\ sent' = sent
  /\ c \in clients' => c \in clients
  /\ c \in clients \union toStop \union done => c \in clients' \union toStop' \union done'
  /\ c \in clients' => \A b \in Broadcasters : c \in overflowed[b] => c \in overflowed'[b]

(* A client whose queues and connection a step leaves alone keeps its      *)
(* invariant.                                                              *)
LEMMA UntouchedKept ==
  ASSUME NEW c \in Clients, ClientInv(c), Untouched(c)
  PROVE  ClientInv(c)'
<1>1. InFlight(c)' = InFlight(c)
  BY DEF Untouched, InFlight
<1>2. MessagesInv(c)'
  BY <1>1 DEF ClientInv, MessagesInv, Untouched, Increasing
<1>3. ConnectionInv(c)'
  BY DEF ClientInv, ConnectionInv, Untouched
<1>4. GapInv(c)'
  BY <1>1 DEF ClientInv, GapInv, Untouched
<1> QED
  BY <1>2, <1>3, <1>4 DEF ClientInv

(* At first no client is registered and nothing was sent.                  *)
LEMMA InitHubIInv == HubInit => HubIInv
<1> SUFFICES ASSUME HubInit PROVE HubIInv
  OBVIOUS
<1>1. HubTypes
  <2>1. <<>> \in Seq(Nat) /\ sent \in 0..MaxMessages
    BY HubAssumption DEF HubInit
  <2>2. /\ queue \in [Clients -> Seq(Nat)] /\ writing \in [Clients -> Seq(Nat)]
        /\ received \in [Clients -> Seq(Nat)] /\ since \in [Clients -> Nat]
    BY <2>1 DEF HubInit
  <2> QED
    BY <2>1, <2>2 DEF HubInit, HubTypes
<1>2. \A c \in Clients : InFlight(c) = <<>>
  BY DEF HubInit, InFlight
<1>3. \A c \in Clients : ClientInv(c)
  BY <1>2, HubAssumption
     DEF HubInit, ClientInv, MessagesInv, ConnectionInv, GapInv, Increasing
<1> QED
  BY <1>1, <1>3 DEF HubInit, HubIInv

(* The goroutines of a connection, one action after the other.             *)
LEMMA HandlerHubIInv ==
  ASSUME HubIInv, NEW c \in Clients,
         Upgrade(c) \/ Register(c) \/ ReadClosed(c) \/ PeerLeaves(c)
           \/ HandlerUnregisters(c) \/ HandlerReturns(c)
  PROVE  HubIInv'
<1> USE DEF HubIInv, HubTypes, Unregister
<1>1. ASSUME NEW d \in Clients, d # c PROVE Untouched(d)
  BY <1>1 DEF Untouched, Upgrade, Register, ReadClosed, PeerLeaves,
              HandlerUnregisters, HandlerReturns
<1>2. /\ HubTypes'
      /\ clients' # {} => ~hubClosed'
      /\ ~hubClosed' => toStop' = {}
  <2>1. /\ pump' \in [Clients -> {"none", "check", "select", "writing", "leaving", "closing",
                                 "gone"}]
        /\ handler' \in [Clients -> {"idle", "upgraded", "reading", "leaving", "waiting",
                                    "gone"}]
    <3>1. pump' = pump \/ pump' = [pump EXCEPT ![c] = "check"]
      BY DEF Upgrade, Register, ReadClosed, PeerLeaves, HandlerUnregisters, HandlerReturns
    <3>2. \E h \in {"upgraded", "reading", "leaving", "waiting", "gone"} :
            handler' = [handler EXCEPT ![c] = h]
      BY DEF Upgrade, Register, ReadClosed, PeerLeaves, HandlerUnregisters, HandlerReturns
    <3>3. pump' \in [Clients -> {"none", "check", "select", "writing", "leaving", "closing",
                                 "gone"}]
      BY <3>1
    <3> QED
      BY <3>2, <3>3
  <2>2. sent \in Nat /\ since' \in [Clients -> Nat]
    <3>1. sent \in Nat
      BY HubAssumption
    <3>2. since' = since \/ since' = [since EXCEPT ![c] = sent]
      BY DEF Upgrade, Register, ReadClosed, PeerLeaves, HandlerUnregisters, HandlerReturns
    <3> QED
      BY <3>1, <3>2
  <2>3. /\ UNCHANGED <<hubClosed, toStop, queue, writing, received, sent, overflowed>>
        /\ clients' \subseteq Clients /\ done' \subseteq Clients
        /\ clients' # {} => ~hubClosed
    BY DEF Upgrade, Register, ReadClosed, PeerLeaves,
                HandlerUnregisters, HandlerReturns
  <2> QED
    BY <2>1, <2>2, <2>3
<1>3. /\ queue' = queue /\ writing' = writing /\ received' = received
      /\ InFlight(c)' = InFlight(c) /\ sent' = sent
  BY DEF InFlight, Upgrade, Register, ReadClosed, PeerLeaves,
         HandlerUnregisters, HandlerReturns
<1>4. CASE Register(c) /\ ~hubClosed
  <2>1. InFlight(c) = <<>> /\ writing[c] = <<>>
    BY <1>4 DEF Register, ClientInv, MessagesInv, ConnectionInv, InFlight
  <2>2. MessagesInv(c)'
    BY <1>3, <1>4, <2>1, HubAssumption
       DEF Register, ClientInv, MessagesInv, ConnectionInv, Increasing
  <2>3. ConnectionInv(c)' /\ GapInv(c)'
    BY <1>3, <1>4, <2>1, HubAssumption DEF Register, ConnectionInv, GapInv
  <2> QED
    BY <1>1, <1>2, <2>2, <2>3, UntouchedKept DEF ClientInv
<1>5. CASE ~(Register(c) /\ ~hubClosed)
  <2>1. /\ UNCHANGED <<pump, since, sent, overflowed>>
        /\ c \in clients' => c \in clients
        /\ c \in clients \union toStop \union done => c \in clients' \union toStop' \union done'
    BY <1>5 DEF Upgrade, Register, ReadClosed, PeerLeaves,
         HandlerUnregisters, HandlerReturns
  <2>2. MessagesInv(c)' /\ GapInv(c)'
    BY <1>3, <2>1 DEF ClientInv, MessagesInv, GapInv, Increasing
  <2>3. ConnectionInv(c)'
    BY <1>5, <2>1 DEF ClientInv, ConnectionInv, Upgrade, Register, ReadClosed, PeerLeaves,
         HandlerUnregisters, HandlerReturns
  <2> QED
    BY <1>1, <1>2, <2>2, <2>3, UntouchedKept DEF ClientInv
<1> QED
  BY <1>4, <1>5

(* A write pump checks its client, meets a stopped client, fails to ping   *)
(* or unregisters: no message moves.                                       *)
LEMMA PumpHubIInv ==
  ASSUME HubIInv, NEW c \in Clients,
         PumpCheck(c) \/ PumpDone(c) \/ PingFails(c) \/ PumpUnregisters(c)
  PROVE  HubIInv'
<1> USE DEF HubIInv, HubTypes, Unregister, PumpTo
<1>1. ASSUME NEW d \in Clients, d # c PROVE Untouched(d)
  BY <1>1 DEF Untouched, PumpCheck, PumpDone, PingFails, PumpUnregisters
<1>2. /\ HubTypes'
      /\ clients' # {} => ~hubClosed'
      /\ ~hubClosed' => toStop' = {}
  <2>1. pump' \in [Clients -> {"none", "check", "select", "writing", "leaving", "closing",
                             "gone"}]
    BY DEF PumpCheck, PumpDone, PingFails, PumpUnregisters
  <2>2. /\ UNCHANGED <<hubClosed, toStop, queue, writing, received, sent, since, handler,
                      overflowed>>
        /\ clients' \subseteq clients /\ done' \subseteq Clients
    BY DEF PumpCheck, PumpDone, PingFails, PumpUnregisters
  <2> QED
    BY <2>1, <2>2
<1>3. /\ InFlight(c)' = InFlight(c)
      /\ UNCHANGED <<queue, writing, received, since, sent, overflowed, handler>>
  BY DEF InFlight, PumpCheck, PumpDone, PingFails, PumpUnregisters
<1>4. pump[c] # "writing" /\ pump'[c] \notin {"none", "writing"}
  BY DEF PumpCheck, PumpDone, PingFails, PumpUnregisters
<1>5. MessagesInv(c)'
  BY <1>3, <1>4 DEF ClientInv, MessagesInv, Increasing
<1>6. ConnectionInv(c)' /\ GapInv(c)'
  BY <1>3, <1>4 DEF ClientInv, ConnectionInv, GapInv, PumpCheck, PumpDone, PingFails,
                    PumpUnregisters
<1> QED
  BY <1>1, <1>2, <1>5, <1>6, UntouchedKept DEF ClientInv

(* What a pump writes stays where it is in the order, or is lost with the  *)
(* connection.                                                             *)
LEMMA WritingHubIInv ==
  ASSUME HubIInv, NEW c \in Clients, PumpTake(c) \/ PumpWrites(c) \/ PumpEnds(c)
  PROVE  HubIInv'
<1> USE DEF HubIInv, HubTypes, PumpTo
<1>1. ASSUME NEW d \in Clients, d # c PROVE Untouched(d)
  BY <1>1 DEF Untouched, PumpTake, PumpWrites, PumpEnds
<1>2. /\ queue[c] \in Seq(Nat) /\ writing[c] \in Seq(Nat) /\ received[c] \in Seq(Nat)
      /\ since[c] \in Nat /\ sent \in Nat /\ since[c] <= sent
      /\ Increasing(received[c] \o writing[c] \o queue[c], since[c], sent)
      /\ Len(queue[c]) <= QueueCapacity
  BY HubAssumption DEF ClientInv, MessagesInv, InFlight
<1>3. /\ UNCHANGED <<clients, hubClosed, toStop, done, handler, overflowed, sent>>
      /\ pump' \in [Clients -> {"none", "check", "select", "writing", "leaving", "closing",
                                "gone"}]
  BY DEF PumpTake, PumpWrites, PumpEnds
<1>4. CASE PumpTake(c)
  <2>1. /\ queue[c] = <<Head(queue[c])>> \o Tail(queue[c])
        /\ Head(queue[c]) \in Nat /\ Tail(queue[c]) \in Seq(Nat)
        /\ Len(Tail(queue[c])) <= QueueCapacity
    BY <1>2, <1>4, HubAssumption DEF PumpTake
  <2>2. /\ queue'[c] = Tail(queue[c]) /\ writing'[c] = <<Head(queue[c])>>
        /\ writing[c] = <<>> /\ UNCHANGED <<received, since>>
        /\ queue' \in [Clients -> Seq(Nat)] /\ writing' \in [Clients -> Seq(Nat)]
        /\ pump[c] = "select" /\ pump'[c] = "writing"
    BY <1>4, <2>1 DEF PumpTake, ClientInv, MessagesInv
  <2>3. InFlight(c)' = InFlight(c)
    BY <1>2, <1>4, <2>2, HeadMoves DEF InFlight, PumpTake
  <2>4. MessagesInv(c)'
    <3>1. Increasing(InFlight(c), since[c], sent)
      BY DEF ClientInv, MessagesInv
    <3>2. Increasing(InFlight(c), since[c], sent)' /\ Len(writing'[c]) <= 1
      BY <3>1, <1>3, <2>2, <2>3 DEF Increasing
    <3> QED
      BY <1>2, <1>3, <2>1, <2>2, <3>2 DEF MessagesInv
  <2>5. ConnectionInv(c)' /\ GapInv(c)'
    BY <1>3, <2>2, <2>3 DEF ClientInv, ConnectionInv, GapInv
  <2> QED
    BY <1>1, <1>3, <2>2, <2>4, <2>5, UntouchedKept DEF ClientInv
<1>5. CASE PumpWrites(c)
  <2>1. /\ queue' = queue /\ since' = since /\ writing'[c] = <<>>
        /\ writing' \in [Clients -> Seq(Nat)]
        /\ pump[c] = "writing" /\ pump'[c] \in {"check", "leaving"}
    <3>1. <<>> \in Seq(Nat)
      OBVIOUS
    <3> QED
      BY <1>5, <3>1 DEF PumpWrites
  <2>2. \/ received' = [received EXCEPT ![c] = received[c] \o writing[c]]
        \/ received' = received /\ pump'[c] = "leaving"
    BY <1>5 DEF PumpWrites
  <2>3. received' \in [Clients -> Seq(Nat)]
    <3>1. received[c] \o writing[c] \in Seq(Nat)
      BY <1>2
    <3> QED
      BY <2>2, <3>1
  <2>4. Increasing(InFlight(c)', since[c], sent)
    <3>1. CASE received'[c] = received[c]
      BY <1>2, <2>1, <3>1, IncreasingWithout DEF InFlight
    <3>2. CASE received'[c] = received[c] \o writing[c]
      <4>1. InFlight(c)' = received[c] \o writing[c] \o queue[c]
        BY <1>2, <2>1, <3>2, Regrouped DEF InFlight
      <4> QED
        BY <1>2, <4>1
    <3> QED
      BY <2>2, <3>1, <3>2
  <2>5. MessagesInv(c)'
    <3>1. Len(writing'[c]) <= 1
      BY <2>1
    <3>2. Increasing(InFlight(c), since[c], sent)'
      BY <1>3, <2>1, <2>4 DEF Increasing
    <3> HIDE DEF HubIInv, HubTypes
    <3> QED
      BY <1>2, <1>3, <2>1, <3>1, <3>2 DEF MessagesInv
  <2>6. ConnectionInv(c)' /\ GapInv(c)'
    <3>1. pump'[c] # "leaving" => InFlight(c)' = InFlight(c)
      <4>1. received[c] \o writing[c] \o <<>> \o queue[c] = InFlight(c)
        BY <1>2, Regrouped DEF InFlight
      <4> QED
        BY <2>1, <2>2, <4>1 DEF InFlight
    <3> QED
      BY <1>3, <2>1, <3>1 DEF ClientInv, ConnectionInv, GapInv
  <2> QED
    BY <1>1, <1>3, <2>1, <2>3, <2>5, <2>6, UntouchedKept DEF ClientInv
<1>6. CASE PumpEnds(c)
  <2>1. /\ queue'[c] = <<>> /\ received'[c] = <<>> /\ since'[c] = 0 /\ writing' = writing
        /\ pump[c] = "closing" /\ pump'[c] = "gone" /\ writing[c] = <<>>
    BY <1>6 DEF PumpEnds, ClientInv, MessagesInv
  <2>2. /\ queue' \in [Clients -> Seq(Nat)] /\ received' \in [Clients -> Seq(Nat)]
        /\ since' \in [Clients -> Nat]
    <3>1. <<>> \in Seq(Nat)
      OBVIOUS
    <3> QED
      BY <1>6, <3>1 DEF PumpEnds
  <2>3. MessagesInv(c)'
    <3>1. InFlight(c)' = <<>>
      BY <2>1 DEF InFlight
    <3> QED
      BY <1>2, <1>3, <2>1, <3>1, HubAssumption DEF MessagesInv, Increasing
  <2>4. ConnectionInv(c)' /\ GapInv(c)'
    BY <1>3, <2>1 DEF ClientInv, ConnectionInv, GapInv
  <2> QED
    BY <1>1, <1>3, <2>1, <2>2, <2>3, <2>4, UntouchedKept DEF ClientInv
<1> QED
  BY <1>4, <1>5, <1>6

(* A broadcast gives every registered client its message; those whose      *)
(* queue is full miss it, and are noted to be dropped.                     *)
LEMMA BroadcastHubIInv ==
  ASSUME HubIInv, NEW b \in Broadcasters, Broadcast(b)
  PROVE  HubIInv'
<1> USE DEF HubIInv, HubTypes
<1> DEFINE full == {c \in clients : Len(queue[c]) >= QueueCapacity}
<1>1. /\ sent' = sent + 1 /\ sent < MaxMessages /\ sent \in Nat
      /\ queue' = [c \in Clients |-> IF c \in clients \ full
                                     THEN Append(queue[c], sent + 1) ELSE queue[c]]
      /\ overflowed' = [overflowed EXCEPT ![b] = full] /\ overflowed[b] = {}
      /\ UNCHANGED <<clients, hubClosed, toStop, done, pump, writing, handler, since, received>>
  BY HubAssumption DEF Broadcast
<1>2. HubTypes'
  <2>1. queue' \in [Clients -> Seq(Nat)]
    BY <1>1
  <2>2. sent' \in 0..MaxMessages
    BY <1>1, HubAssumption
  <2>3. overflowed' \in [Broadcasters -> SUBSET Clients]
    BY <1>1
  <2> HIDE DEF full
  <2> QED
    BY <1>1, <2>1, <2>2, <2>3
<1>3. ASSUME NEW c \in Clients PROVE ClientInv(c)'
  <2>1. /\ queue[c] \in Seq(Nat) /\ writing[c] \in Seq(Nat) /\ received[c] \in Seq(Nat)
        /\ since[c] \in Nat /\ since[c] <= sent
        /\ InFlight(c) \in Seq(Nat) /\ Increasing(InFlight(c), since[c], sent)
        /\ sent + 1 \in Nat
    BY <1>1 DEF ClientInv, MessagesInv, InFlight
  <2>2. CASE c \in clients \ full
    <3>1. queue'[c] = Append(queue[c], sent + 1)
      BY <1>1, <2>2
    <3>2. InFlight(c)' = Append(InFlight(c), sent + 1)
      <4>1. InFlight(c)' = received[c] \o writing[c] \o Append(queue[c], sent + 1)
        BY <1>1, <3>1 DEF InFlight
      <4> QED
        <5>1. received[c] \o writing[c] \o Append(queue[c], sent + 1)
                = Append(received[c] \o writing[c] \o queue[c], sent + 1)
          <6> DEFINE a == received[c]  m == writing[c]  q == queue[c]  n == sent + 1
          <6>1. a \in Seq(Nat) /\ m \in Seq(Nat) /\ q \in Seq(Nat) /\ n \in Nat
            BY <2>1
          <6> HIDE DEF a, m, q, n, HubIInv, HubTypes, full
          <6>2. a \o m \o Append(q, n) = Append(a \o m \o q, n)
            BY <6>1, AppendedLast
          <6> QED
            BY <6>2 DEF a, m, q, n
        <5> QED
          BY <4>1, <5>1 DEF InFlight
    <3>3. Increasing(InFlight(c)', since[c], sent + 1)
      BY <1>1, <2>1, <3>2, IncreasingAppend
    <3>4. Len(queue'[c]) <= QueueCapacity
      BY <2>1, <2>2, <3>1, HubAssumption
    <3>5. MessagesInv(c)'
      BY <1>1, <2>1, <2>2, <3>3, <3>4 DEF ClientInv, MessagesInv, ConnectionInv, Increasing
    <3>6. GapInv(c)'
      <4>1. Len(InFlight(c)') = Len(InFlight(c)) + 1 /\ Len(InFlight(c)) \in Nat
        BY <2>1, <3>2
      <4>2. ASSUME NEW q \in Broadcasters, c \in overflowed[q] PROVE c \in overflowed'[q]
        BY <1>1, <4>2
      <4> QED
        <5>1. GapInv(c) /\ c \in clients
          BY <2>2 DEF ClientInv
        <5>2. CASE Len(InFlight(c)) = sent - since[c]
          BY <1>1, <2>1, <4>1, <5>2 DEF GapInv
        <5>3. CASE pump[c] = "leaving" \/ \E q \in Broadcasters : c \in overflowed[q]
          BY <1>1, <4>2, <5>3 DEF GapInv
        <5> QED
          BY <5>1, <5>2, <5>3 DEF GapInv
    <3>7. ConnectionInv(c)'
      BY <1>1 DEF ClientInv, ConnectionInv
    <3> QED
      BY <3>5, <3>6, <3>7 DEF ClientInv
  <2>3. CASE c \notin clients \ full
    <3>1. queue'[c] = queue[c] /\ InFlight(c)' = InFlight(c)
      BY <1>1, <2>3 DEF InFlight
    <3>2. MessagesInv(c)'
      <4>1. Increasing(InFlight(c)', since[c], sent + 1)
        BY <2>1, <3>1, <1>1, IncreasingLater
      <4> QED
        BY <1>1, <2>1, <3>1, <4>1 DEF ClientInv, MessagesInv, Increasing
    <3>3. ConnectionInv(c)' /\ GapInv(c)'
      BY <1>1, <2>3 DEF ClientInv, ConnectionInv, GapInv
    <3> QED
      BY <3>2, <3>3 DEF ClientInv
  <2> QED
    BY <2>2, <2>3
<1> QED
  BY <1>1, <1>2, <1>3

(* Close empties the hub, or one client of those it or a broadcast removed *)
(* is stopped: no message moves, and a client left without its next        *)
(* message is no longer registered.                                        *)
LEMMA CloseHubIInv ==
  ASSUME HubIInv,
         \/ HubClose
         \/ \E c \in Clients : HubStops(c) \/ \E b \in Broadcasters : DropOverflowed(b, c)
  PROVE  HubIInv'
<1> USE DEF HubIInv, HubTypes
<1>1. CASE HubClose
  <2>1. \A c \in Clients : Untouched(c)
    BY <1>1 DEF HubClose, Untouched
  <2>2. HubTypes' /\ clients' = {} /\ hubClosed'
    BY <1>1 DEF HubClose
  <2> QED
    BY <2>1, <2>2, UntouchedKept
<1>2. ASSUME NEW c \in Clients, HubStops(c) PROVE HubIInv'
  <2>1. \A d \in Clients : Untouched(d)
    BY <1>2 DEF HubStops, Untouched
  <2>2. HubTypes' /\ UNCHANGED <<clients, hubClosed>> /\ toStop' \subseteq toStop
    BY <1>2 DEF HubStops
  <2> QED
    BY <2>1, <2>2, UntouchedKept
<1>3. ASSUME NEW b \in Broadcasters, NEW c \in Clients, DropOverflowed(b, c) PROVE HubIInv'
  <2>1. \A d \in Clients : Untouched(d)
    BY <1>3 DEF DropOverflowed, Untouched, Unregister
  <2>2. /\ UNCHANGED <<hubClosed, toStop, queue, pump, writing, handler, sent, since, received>>
        /\ clients' \subseteq clients /\ done' \subseteq Clients
        /\ overflowed' \in [Broadcasters -> SUBSET Clients]
    BY <1>3 DEF DropOverflowed, Unregister
  <2> QED
    BY <2>1, <2>2, UntouchedKept
<1> QED
  BY <1>1, <1>2, <1>3

(* Every step of the hub, its clients and its broadcasters keeps it.       *)
LEMMA NextHubIInv == HubIInv /\ [HubNext]_hubVars => HubIInv'
<1> SUFFICES ASSUME HubIInv, [HubNext]_hubVars PROVE HubIInv'
  OBVIOUS
<1>1. CASE UNCHANGED hubVars
  <2>1. \A c \in Clients : Untouched(c)
    BY <1>1 DEF hubVars, Untouched
  <2> QED
    BY <1>1, <2>1, UntouchedKept DEF HubIInv, HubTypes, hubVars
<1> QED
  BY <1>1, HandlerHubIInv, PumpHubIInv, WritingHubIInv, BroadcastHubIInv, CloseHubIInv
     DEF HubNext, HubProgress

(* What the hub promises: messages in order and without an unseen gap, and *)
(* no client left registered in a closed hub.                              *)
LEMMA HubIInvImplies == HubIInv => HubSafe
<1> SUFFICES ASSUME HubIInv PROVE HubSafe
  OBVIOUS
<1>1. HubTypeOK
  BY DEF HubIInv, HubTypes, HubTypeOK, ClientInv, MessagesInv
<1>2. OneOrder
  BY DEF HubIInv, OneOrder, ClientInv, MessagesInv, Increasing
<1>3. NoSilentGap
  BY DEF HubIInv, HubTypes, NoSilentGap, ClientInv, GapInv
<1>4. OwnedConnections
  BY DEF HubIInv, HubTypes, OwnedConnections, ClientInv, ConnectionInv
<1> QED
  BY <1>1, <1>2, <1>3, <1>4 DEF HubSafe

-------------------------------------------------------------------------------
(* The caches.  A refresh begins when everything cached has expired and    *)
(* ends later than that, and so does a login.                              *)

Responses == {"none", "ok", "degraded"}
Refresh == [pc : {"probe", "collect", "store", "done"}, started : Nat, token : BOOLEAN,
            response : Responses, expires : Nat]

(* What the variables of the readiness cache hold.                         *)
HealthTypes ==
  /\ time \in 1..MaxTime /\ refreshing \in BOOLEAN
  /\ readiness \in [response : Responses, expires : Nat]
  /\ refreshes \in Seq(Refresh)
  /\ request \in [Requests -> [pc : {"idle", "again", "lock", "wait", "answered", "left"},
                               now : Nat, gen : Nat, answer : Responses]]

(* What the variables of the session cache hold.                           *)
SessionTypes ==
  /\ session \in [login : Nat, expires : Nat]
  /\ holder \in Jobs \union {NoJob}
  /\ job \in [Jobs -> [pc : {"idle", "lock", "login", "served", "failed"}, login : Nat]]
  /\ logins \in Seq([time : Nat, expires : Nat])

(* A refresh that ended answered no earlier than it began, and the cached  *)
(* answer is that of a refresh.                                            *)
RefreshInv ==
  /\ SingleFlight
  /\ \A g \in 1..Len(refreshes) :
       /\ refreshes[g].started <= time
       /\ refreshes[g].pc \in {"store", "done"} => refreshes[g].started <= refreshes[g].expires
       /\ refreshes[g].pc = "done" => refreshes[g].expires <= readiness.expires
  /\ \/ readiness.expires = Never
     \/ \E g \in 1..Len(refreshes) : /\ refreshes[g].pc = "done"
                                     /\ refreshes[g].response = readiness.response
                                     /\ refreshes[g].expires = readiness.expires

(* An answered request has the answer of a refresh still fresh when it     *)
(* asked.                                                                  *)
RequestInv(r) ==
  /\ request[r].now <= time
  /\ request[r].pc = "answered" =>
       \E g \in 1..Len(refreshes) : /\ refreshes[g].pc = "done"
                                    /\ refreshes[g].response = request[r].answer
                                    /\ request[r].now < refreshes[g].expires

(* The session cached last outlives the others.                            *)
SessionInv ==
  /\ NoNeedlessLogin
  /\ \A i \in 1..Len(logins) : logins[i].expires <= session.expires
  /\ session.expires # Never => session.login \in 1..Len(logins)

RcIInv ==
  /\ HealthTypes /\ SessionTypes
  /\ RefreshInv /\ SessionInv
  /\ \A r \in Requests : RequestInv(r)

LoginRecord == [time : Nat, expires : Nat]

(* The elements of the typed functions and lists, for the steps that pick  *)
(* one.                                                                    *)
LEMMA Elements ==
  /\ HealthTypes => \A g \in 1..Len(refreshes) : refreshes[g] \in Refresh
  /\ SessionTypes => \A i \in 1..Len(logins) : logins[i] \in LoginRecord
BY ElementOfSeq DEF HealthTypes, SessionTypes, LoginRecord

(* At first nothing is cached, nothing refreshes and nobody asked.         *)
LEMMA InitRcIInv == RcInit => RcIInv
<1> SUFFICES ASSUME RcInit PROVE RcIInv
  OBVIOUS
<1>1. refreshes = <<>> /\ logins = <<>> /\ Len(refreshes) = 0 /\ Len(logins) = 0
  BY DEF RcInit
<1>2. HealthTypes
  <2>1. time \in 1..MaxTime /\ refreshing \in BOOLEAN /\ refreshes \in Seq(Refresh)
    <3>1. refreshes \in Seq(Refresh)
      BY <1>1, EmptySeq
    <3> QED
      BY <3>1, CachesAssumption, 1 \in 1..MaxTime DEF RcInit
  <2>2. readiness \in [response : Responses, expires : Nat]
    BY DEF RcInit, Never, Responses
  <2>3. request \in [Requests -> [pc : {"idle", "again", "lock", "wait", "answered", "left"},
                                  now : Nat, gen : Nat, answer : Responses]]
    BY DEF RcInit, Responses
  <2> QED
    BY <2>1, <2>2, <2>3 DEF HealthTypes
<1>3. SessionTypes
  BY <1>1 DEF RcInit, SessionTypes, Never
<1>4. RefreshInv /\ \A r \in Requests : RequestInv(r)
  BY <1>1 DEF RcInit, RefreshInv, SingleFlight, RequestInv
<1>5. SessionInv
  BY <1>1 DEF RcInit, SessionInv, NoNeedlessLogin, NoJob, Jobs
<1> QED
  BY <1>2, <1>3, <1>4, <1>5 DEF RcIInv

(* Time passes or the session changes: the readiness cache and its refresh *)
(* keep theirs.                                                            *)
LEMMA HealthKept ==
  ASSUME RcIInv, UNCHANGED healthVars, time' \in Nat, time <= time', time' <= MaxTime
  PROVE  HealthTypes' /\ RefreshInv' /\ \A r \in Requests : RequestInv(r)'
<1>1. HealthTypes'
  BY DEF RcIInv, HealthTypes, healthVars
<1>2. RefreshInv'
  <2>1. UNCHANGED <<readiness, refreshing, refreshes>>
    BY DEF healthVars
  <2>2. \A g \in 1..Len(refreshes) : refreshes[g].started <= time'
    <3>1. \A g \in 1..Len(refreshes) : refreshes[g].started \in Nat
      BY Elements DEF RcIInv, Refresh
    <3> QED
      BY <3>1 DEF RcIInv, HealthTypes, RefreshInv
  <2> QED
    BY <2>1, <2>2 DEF RcIInv, RefreshInv, SingleFlight
<1>3. \A r \in Requests : RequestInv(r)'
  BY DEF RcIInv, HealthTypes, RequestInv, healthVars
<1> QED
  BY <1>1, <1>2, <1>3

(* Time passes or readiness changes: the session cache keeps its part.     *)
LEMMA SessionKept ==
  ASSUME RcIInv, UNCHANGED sessionVars, time' \in Nat, time <= time'
  PROVE  SessionTypes' /\ SessionInv'
<1>1. SessionTypes'
  BY DEF RcIInv, SessionTypes, sessionVars
<1>2. SessionInv'
  BY DEF RcIInv, HealthTypes, SessionTypes, SessionInv, NoNeedlessLogin, SessionValid, sessionVars
<1> QED
  BY <1>1, <1>2

(* A job is served by a valid session, takes the lock, or comes back from  *)
(* its login: no login while a session is valid.                           *)
LEMMA SessionRcIInv ==
  ASSUME RcIInv, NEW j \in Jobs,
         FastPath(j) \/ LockSession(j) \/ LoginSucceeds(j) \/ LoginFails(j)
  PROVE  RcIInv'
<1> USE DEF SetJob, SessionValid
<1>1. time' = time /\ UNCHANGED healthVars /\ time \in Nat /\ time <= MaxTime
  BY CachesAssumption DEF RcIInv, HealthTypes, FastPath, LockSession, LoginSucceeds, LoginFails
<1>2. HealthTypes' /\ RefreshInv' /\ \A r \in Requests : RequestInv(r)'
  BY <1>1, HealthKept
<1>3. SessionTypes /\ SessionInv /\ NoJob \notin Jobs /\ time \in Nat /\ Len(logins) \in Nat
  BY <1>1 DEF RcIInv, SessionTypes, NoJob, Jobs
<1>4. CASE FastPath(j) \/ LockSession(j) \/ LoginFails(j)
  <2>1. UNCHANGED <<session, logins>>
    BY <1>4 DEF FastPath, LockSession, LoginFails
  <2>2. SessionTypes'
    <3>1. \E new \in [pc : {"idle", "lock", "login", "served", "failed"}, login : Nat] :
            job' = [job EXCEPT ![j] = new]
      <4>1. session.login \in Nat
        BY <1>3 DEF SessionTypes
      <4> QED
        BY <1>4, <4>1 DEF FastPath, LockSession, LoginFails
    <3>2. holder' \in {holder, j, NoJob}
      BY <1>4 DEF FastPath, LockSession, LoginFails
    <3> QED
      BY <1>3, <2>1, <3>1, <3>2 DEF SessionTypes
  <2>3. \A k \in Jobs : /\ job'[k].pc = "login" <=> holder' = k
                        /\ job'[k].pc = "served" => job'[k].login \in 1..Len(logins)
                        /\ job'[k].pc = "login" => ~(session.expires > time)
    <3>1. job \in [Jobs -> [pc : {"idle", "lock", "login", "served", "failed"}, login : Nat]]
      BY <1>3 DEF SessionTypes
    <3>2. /\ \A k \in Jobs : /\ job[k].pc = "login" <=> holder = k
                             /\ job[k].pc = "served" => job[k].login \in 1..Len(logins)
                             /\ job[k].pc = "login" => ~(session.expires > time)
          /\ session.expires > time => session.login \in 1..Len(logins)
      BY <1>3 DEF SessionInv, NoNeedlessLogin, Never, SessionTypes
    <3>3. /\ \A k \in Jobs : k # j => job'[k] = job[k]
          /\ job'[j].pc = "login" <=> holder' = j
          /\ job'[j].pc = "served" => job'[j].login \in 1..Len(logins)
          /\ job'[j].pc = "login" => ~(session.expires > time)
      <4>1. CASE FastPath(j) /\ session.expires > time
        <5>1. job' = [job EXCEPT ![j] = [pc |-> "served", login |-> session.login]]
          BY <4>1 DEF FastPath
        <5>2. holder' = NoJob
          BY <4>1 DEF FastPath
        <5> QED
          BY <1>3, <3>1, <3>2, <4>1, <5>1, <5>2
      <4>2. CASE LockSession(j) /\ session.expires > time
        <5>1. job' = [job EXCEPT ![j] = [pc |-> "served", login |-> session.login]]
          BY <4>2 DEF LockSession
        <5>2. holder' = NoJob
          BY <4>2 DEF LockSession
        <5> QED
          BY <1>3, <3>1, <3>2, <4>2, <5>1, <5>2
      <4>3. CASE FastPath(j) /\ ~(session.expires > time)
        <5>1. job' = [job EXCEPT ![j] = [pc |-> "lock", login |-> 0]] /\ holder' = NoJob
          BY <4>3 DEF FastPath
        <5> QED
          BY <1>3, <3>1, <5>1
      <4>4. CASE LockSession(j) /\ ~(session.expires > time)
        <5>1. job' = [job EXCEPT ![j] = [pc |-> "login", login |-> 0]] /\ holder' = j
          BY <4>4 DEF LockSession
        <5> QED
          BY <1>3, <3>1, <4>4, <5>1
      <4>5. CASE LoginFails(j)
        <5>1. job' = [job EXCEPT ![j] = [pc |-> "failed", login |-> 0]] /\ holder' = NoJob
          BY <4>5 DEF LoginFails
        <5> QED
          BY <1>3, <3>1, <5>1
      <4> QED
        BY <1>4, <4>1, <4>2, <4>3, <4>4, <4>5
    <3>4. \A k \in Jobs : k # j => (holder' = k <=> holder = k)
      <4>1. CASE FastPath(j)
        BY <4>1 DEF FastPath
      <4>2. CASE LockSession(j)
        BY <1>3, <4>2 DEF LockSession
      <4>3. CASE LoginFails(j)
        <5>1. job[j].pc = "login" /\ holder' = NoJob
          BY <4>3 DEF LoginFails
        <5>2. job[j].pc = "login" <=> holder = j
          BY <3>2
        <5> QED
          BY <1>3, <5>1, <5>2
      <4> QED
        BY <1>4, <4>1, <4>2, <4>3
    <3> QED
      <4> TAKE k \in Jobs
      <4>1. CASE k = j
        BY <3>3, <4>1
      <4>2. CASE k # j
        <5>1. job'[k] = job[k]
          BY <3>3, <4>2
        <5>2. holder' = k <=> holder = k
          BY <3>4, <4>2
        <5>3. /\ job[k].pc = "login" <=> holder = k
              /\ job[k].pc = "served" => job[k].login \in 1..Len(logins)
              /\ job[k].pc = "login" => ~(session.expires > time)
          BY <3>2
        <5> QED
          BY <5>1, <5>2, <5>3
      <4> QED
        BY <4>1, <4>2
  <2>4. SessionInv'
    BY <1>1, <1>3, <2>1, <2>3 DEF SessionInv, NoNeedlessLogin
  <2> QED
    BY <1>2, <2>2, <2>4 DEF RcIInv
<1>5. CASE LoginSucceeds(j)
  <2> DEFINE new == [time |-> time, expires |-> time + SessionTTL]
  <2>1. /\ logins' = Append(logins, new) /\ session'.expires = time + SessionTTL
        /\ session'.login = Len(logins) + 1 /\ holder' = NoJob
        /\ job' = [job EXCEPT ![j] = [pc |-> "served", login |-> Len(logins) + 1]]
        /\ job[j].pc = "login" /\ session.expires <= time /\ holder = j
        /\ time + SessionTTL \in Nat /\ time <= time + SessionTTL
    BY <1>3, <1>5, CachesAssumption
       DEF LoginSucceeds, SessionInv, NoNeedlessLogin, SessionTypes
  <2>2. /\ logins' \in Seq([time : Nat, expires : Nat]) /\ Len(logins') = Len(logins) + 1
        /\ \A i \in 1..Len(logins) : logins'[i] = logins[i] /\ logins[i].expires \in Nat
        /\ logins'[Len(logins) + 1] = new
    <3>1. new \in LoginRecord /\ logins \in Seq(LoginRecord)
      BY <1>3, <2>1 DEF SessionTypes, LoginRecord
    <3>2. logins' = Append(logins, new)
      BY <2>1
    <3>3. \A i \in 1..Len(logins) : logins[i].expires \in Nat
      BY <1>3, Elements DEF LoginRecord
    <3> HIDE DEF new
    <3>4. /\ logins' \in Seq(LoginRecord) /\ Len(logins') = Len(logins) + 1
          /\ \A i \in 1..Len(logins) : logins'[i] = logins[i]
          /\ logins'[Len(logins) + 1] = new
      BY <3>1, <3>2
    <3> QED
      BY <3>3, <3>4 DEF LoginRecord
  <2>3. SessionTypes'
    BY <1>3, <1>5, <2>1, <2>2 DEF SessionTypes, LoginSucceeds
  <2>4. \A i \in 1..Len(logins) : logins[i].expires <= time
    BY <1>3, <2>1, <2>2 DEF SessionInv, SessionTypes
  <2>5. \A i, k \in 1..Len(logins') : i < k => logins'[i].expires <= logins'[k].time
    BY <1>3, <2>1, <2>2, <2>4 DEF SessionInv, NoNeedlessLogin
  <2>6. \A k \in Jobs : /\ job'[k].pc = "login" <=> holder' = k
                        /\ job'[k].pc = "served" => job'[k].login \in 1..Len(logins')
                        /\ job'[k].pc = "login" => ~(session'.expires > time')
    BY <1>3, <2>1, <2>2 DEF SessionInv, NoNeedlessLogin, SessionTypes
  <2>7. SessionInv'
    BY <1>3, <2>1, <2>2, <2>4, <2>5, <2>6 DEF SessionInv, NoNeedlessLogin
  <2> QED
    BY <1>2, <2>3, <2>7 DEF RcIInv
<1> QED
  BY <1>4, <1>5

(* A refresh that runs is the last one, and those before it are done.      *)
LEMMA RunningIsLast ==
  ASSUME RcIInv, NEW g \in 1..Len(refreshes), refreshes[g].pc # "done"
  PROVE  /\ g = Len(refreshes) /\ refreshing /\ refreshes[g] \in Refresh
         /\ \A h \in 1..Len(refreshes) : h # g =>
              h < g /\ refreshes[h].pc = "done" /\ refreshes[h].expires <= refreshes[g].started
<1>1. refreshes \in Seq(Refresh) /\ Len(refreshes) \in Nat /\ refreshes[g] \in Refresh
  BY ElementOfSeq DEF RcIInv, HealthTypes
<1>2. SingleFlight
  BY DEF RcIInv, RefreshInv
<1>3. \A h \in 1..Len(refreshes) : ~(g < h)
  BY <1>2 DEF SingleFlight
<1>4. g = Len(refreshes)
  BY <1>1, <1>3
<1> QED
  BY <1>1, <1>2, <1>4 DEF SingleFlight

(* What a request was answered with stays on record.                       *)
LEMMA RequestKept ==
  ASSUME NEW r \in Requests, RcIInv, RequestInv(r), UNCHANGED <<time, request>>,
         Len(refreshes) <= Len(refreshes'), Len(refreshes') \in Nat,
         \A g \in 1..Len(refreshes) : refreshes[g].pc = "done" => refreshes'[g] = refreshes[g]
  PROVE  RequestInv(r)'
<1>1. Len(refreshes) \in Nat
  BY DEF RcIInv, HealthTypes
<1> QED
  BY <1>1 DEF RequestInv

(* The refresh that runs goes one step on, and is not done yet.            *)
LEMMA RefreshStep ==
  ASSUME RcIInv, NEW g \in 1..Len(refreshes), refreshes[g].pc # "done",
         NEW new \in Refresh, refreshes' = [refreshes EXCEPT ![g] = new],
         new.started = refreshes[g].started, new.pc # "done",
         new.pc = "store" => new.started <= new.expires,
         UNCHANGED <<time, readiness, refreshing, request, sessionVars>>
  PROVE  RcIInv'
<1>1. /\ refreshes \in Seq(Refresh) /\ Len(refreshes) \in Nat
      /\ refreshes' \in Seq(Refresh) /\ Len(refreshes') = Len(refreshes)
      /\ refreshes'[g] = new /\ \A h \in 1..Len(refreshes) : h # g => refreshes'[h] = refreshes[h]
  <2>1. refreshes \in Seq(Refresh)
    BY DEF RcIInv, HealthTypes
  <2> QED
    BY <2>1, ExceptSeq
<1>2. HealthTypes'
  BY <1>1 DEF RcIInv, HealthTypes
<1>3. SessionTypes' /\ SessionInv'
  <2>1. time \in Nat
    BY CachesAssumption DEF RcIInv, HealthTypes
  <2> QED
    BY <2>1, SessionKept
<1>4. RefreshInv'
  <2>1. SingleFlight /\ RefreshInv
    BY DEF RcIInv, RefreshInv
  <2>2. SingleFlight'
    <3>1. refreshing' /\ refreshes'[g].pc # "done" /\ g \in 1..Len(refreshes')
      BY <1>1, RunningIsLast
    <3>2. ASSUME NEW h \in 1..Len(refreshes'), NEW k \in 1..Len(refreshes'), h < k
          PROVE  refreshes'[h].pc = "done" /\ refreshes'[h].expires <= refreshes'[k].started
      <4>1. h # g
        <5>1. g = Len(refreshes)
          BY RunningIsLast
        <5>2. h < k /\ k <= Len(refreshes) /\ h \in Nat /\ k \in Nat /\ Len(refreshes) \in Nat
          <6>1. Len(refreshes) \in Nat /\ Len(refreshes') = Len(refreshes)
            BY <1>1
          <6> QED
            BY <3>2, <6>1
        <5> QED
          BY <5>1, <5>2
      <4>2. refreshes'[k].started = refreshes[k].started
        BY <1>1
      <4> QED
        BY <1>1, <2>1, <3>2, <4>1, <4>2 DEF SingleFlight
    <3> QED
      BY <3>1, <3>2 DEF SingleFlight
  <2>3. \A h \in 1..Len(refreshes') :
          /\ refreshes'[h].started <= time'
          /\ refreshes'[h].pc \in {"store", "done"} =>
               refreshes'[h].started <= refreshes'[h].expires
          /\ refreshes'[h].pc = "done" => refreshes'[h].expires <= readiness'.expires
    BY <1>1, <2>1 DEF RefreshInv
  <2>4. \A h \in 1..Len(refreshes) : refreshes[h].pc = "done" => refreshes'[h] = refreshes[h]
    BY <1>1
  <2> QED
    BY <1>1, <2>1, <2>2, <2>3, <2>4 DEF RefreshInv
<1>5. ASSUME NEW r \in Requests PROVE RequestInv(r)'
  BY <1>1, RequestKept DEF RcIInv
<1> QED
  BY <1>2, <1>3, <1>4, <1>5 DEF RcIInv

(* A refresh stores its answer and wakes those who wait for it.            *)
LEMMA StoreRcIInv ==
  ASSUME RcIInv, NEW g \in 1..Len(refreshes), StoreReadiness(g)
  PROVE  RcIInv'
<1> DEFINE new == [refreshes[g] EXCEPT !.pc = "done"]
<1>1. /\ refreshes[g].pc = "store" /\ refreshing' = FALSE
      /\ readiness' = [response |-> refreshes[g].response, expires |-> refreshes[g].expires]
      /\ UNCHANGED <<time, request, sessionVars>>
  BY DEF StoreReadiness
<1>2. /\ g = Len(refreshes) /\ refreshes[g] \in Refresh
      /\ \A h \in 1..Len(refreshes) : h # g =>
           h < g /\ refreshes[h].pc = "done" /\ refreshes[h].expires <= refreshes[g].started
  BY <1>1, RunningIsLast
<1>3. /\ new \in Refresh /\ new.pc = "done" /\ new.started = refreshes[g].started
      /\ new.expires = refreshes[g].expires /\ new.response = refreshes[g].response
      /\ new.started \in Nat /\ new.expires \in Nat
  BY <1>2 DEF Refresh
<1>4. /\ refreshes \in Seq(Refresh) /\ Len(refreshes) \in Nat
      /\ refreshes' \in Seq(Refresh) /\ Len(refreshes') = Len(refreshes)
      /\ refreshes'[g] = new /\ \A h \in 1..Len(refreshes) : h # g => refreshes'[h] = refreshes[h]
  <2>1. refreshes \in Seq(Refresh) /\ refreshes' = [refreshes EXCEPT ![g] = new]
    BY DEF RcIInv, HealthTypes, StoreReadiness
  <2> HIDE DEF new
  <2> QED
    BY <1>3, <2>1, ExceptSeq
<1> HIDE DEF new
<1>5. HealthTypes'
  BY <1>1, <1>2, <1>4 DEF RcIInv, HealthTypes, Refresh
<1>6. SessionTypes' /\ SessionInv'
  <2>1. time \in Nat
    BY CachesAssumption DEF RcIInv, HealthTypes
  <2> QED
    BY <1>1, <2>1, SessionKept
<1>7. RefreshInv'
  <2>1. SingleFlight /\ RefreshInv
    BY DEF RcIInv, RefreshInv
  <2>2. refreshes[g].started <= refreshes[g].expires /\ refreshes[g].started <= time
    BY <1>1, <2>1 DEF RefreshInv
  <2>3. SingleFlight'
    <3>1. \A h \in 1..Len(refreshes') : refreshes'[h].pc = "done"
      BY <1>2, <1>3, <1>4
    <3>2. \A h, k \in 1..Len(refreshes') : h < k => refreshes'[h].expires <= refreshes'[k].started
      <4> TAKE h, k \in 1..Len(refreshes')
      <4> HAVE h < k
      <4>1. h # g /\ refreshes'[h] = refreshes[h] /\ refreshes'[k].started = refreshes[k].started
        BY <1>2, <1>3, <1>4
      <4> QED
        BY <1>4, <2>1, <4>1 DEF SingleFlight
    <3> QED
      BY <1>1, <3>1, <3>2 DEF SingleFlight
  <2>4. \A h \in 1..Len(refreshes') :
          /\ refreshes'[h].started <= time'
          /\ refreshes'[h].started <= refreshes'[h].expires
          /\ refreshes'[h].expires <= readiness'.expires
    <3> TAKE h \in 1..Len(refreshes')
    <3>1. CASE h = g
      BY <1>1, <1>3, <1>4, <2>2, <3>1
    <3>2. CASE h # g
      <4>1. refreshes'[h] = refreshes[h] /\ refreshes[h] \in Refresh /\ h \in 1..Len(refreshes)
        BY <1>4, <3>2, ElementOfSeq
      <4>2. refreshes[h].pc = "done" /\ refreshes[h].expires <= refreshes[g].started
        BY <1>2, <3>2, <4>1
      <4>3. refreshes[h].started <= time /\ refreshes[h].started <= refreshes[h].expires
        BY <2>1, <4>1, <4>2 DEF RefreshInv
      <4>4. refreshes[h].expires \in Nat /\ refreshes[g].started \in Nat
            /\ refreshes[g].expires \in Nat
        BY <1>2, <4>1 DEF Refresh
      <4> QED
        BY <1>1, <2>2, <4>1, <4>2, <4>3, <4>4
    <3> QED
      BY <3>1, <3>2
  <2>5. /\ refreshes'[g].pc = "done" /\ refreshes'[g].response = readiness'.response
        /\ refreshes'[g].expires = readiness'.expires /\ g \in 1..Len(refreshes')
    BY <1>1, <1>3, <1>4
  <2> QED
    BY <2>3, <2>4, <2>5 DEF RefreshInv
<1>8. ASSUME NEW r \in Requests PROVE RequestInv(r)'
  <2>1. \A h \in 1..Len(refreshes) : refreshes[h].pc = "done" => refreshes'[h] = refreshes[h]
    BY <1>1, <1>4
  <2> QED
    BY <1>1, <1>4, <2>1, RequestKept DEF RcIInv
<1> QED
  BY <1>5, <1>6, <1>7, <1>8 DEF RcIInv

(* A refresh probes, collects or panics: its answer is not older than its  *)
(* start.                                                                  *)
LEMMA ProbeRcIInv ==
  ASSUME RcIInv, NEW g \in 1..Len(refreshes), ReadSession(g) \/ Collect(g) \/ ProbePanics(g)
  PROVE  RcIInv'
<1>1. refreshes \in Seq(Refresh) /\ refreshes[g] \in Refresh /\ time \in Nat
  BY CachesAssumption, ElementOfSeq DEF RcIInv, HealthTypes
<1>2. CASE ReadSession(g)
  <2> DEFINE new == [refreshes[g] EXCEPT !.pc = "collect", !.token = (session.login # 0)]
  <2>1. /\ new \in Refresh /\ new.pc = "collect" /\ new.started = refreshes[g].started
        /\ refreshes' = [refreshes EXCEPT ![g] = new] /\ refreshes[g].pc = "probe"
        /\ UNCHANGED <<time, readiness, refreshing, request, sessionVars>>
    BY <1>1, <1>2 DEF ReadSession, Refresh
  <2> HIDE DEF new
  <2> QED
    BY <2>1, RefreshStep
<1>3. ASSUME NEW response \in {"ok", "degraded"}, CollectAs(g, response) PROVE RcIInv'
  <2> DEFINE new == [refreshes[g] EXCEPT !.pc = "store", !.response = response,
                                         !.expires = time + ReadinessTTL]
  <2>1. /\ new \in Refresh /\ new.pc = "store" /\ new.started = refreshes[g].started
        /\ new.expires = time + ReadinessTTL
        /\ refreshes' = [refreshes EXCEPT ![g] = new] /\ refreshes[g].pc = "collect"
        /\ UNCHANGED <<time, readiness, refreshing, request, sessionVars>>
    <3>1. time + ReadinessTTL \in Nat /\ response \in Responses
      BY <1>1, CachesAssumption DEF Responses
    <3>2. /\ new \in Refresh /\ new.pc = "store" /\ new.started = refreshes[g].started
          /\ new.expires = time + ReadinessTTL
      BY <1>1, <3>1 DEF Refresh
    <3>3. /\ refreshes' = [refreshes EXCEPT ![g] = new] /\ refreshes[g].pc = "collect"
          /\ UNCHANGED <<time, readiness, refreshing, request, sessionVars>>
      <4>1. refreshes' = [refreshes EXCEPT ![g].pc = "store", ![g].response = response,
                                           ![g].expires = time + ReadinessTTL]
        BY <1>3 DEF CollectAs
      <4>2. refreshes' = [refreshes EXCEPT ![g] = new]
        BY <1>1, <4>1
      <4> QED
        BY <1>3, <4>2 DEF CollectAs
    <3> QED
      BY <3>2, <3>3
  <2>2. refreshes[g].started <= time + ReadinessTTL
    <3>1. refreshes[g].started <= time
      BY DEF RcIInv, RefreshInv
    <3>2. refreshes[g].started \in Nat
      BY <1>1 DEF Refresh
    <3> QED
      BY <1>1, <3>1, <3>2, CachesAssumption
  <2> HIDE DEF new
  <2> QED
    BY <2>1, <2>2, RefreshStep
<1> QED
  BY <1>2, <1>3 DEF Collect, ProbePanics, Readiness

(* A step of one request that leaves the refreshes alone.                  *)
LEMMA RequestStep ==
  ASSUME RcIInv, NEW r \in Requests,
         NEW new \in [pc : {"idle", "again", "lock", "wait", "answered", "left"},
                      now : Nat, gen : Nat, answer : Responses],
         request' = [request EXCEPT ![r] = new], new.now <= time,
         UNCHANGED <<time, readiness, refreshing, refreshes, sessionVars>>,
         new.pc = "answered" =>
           \E g \in 1..Len(refreshes) : /\ refreshes[g].pc = "done"
                                        /\ refreshes[g].response = new.answer
                                        /\ new.now < refreshes[g].expires
  PROVE  RcIInv'
<1>1. time \in Nat /\ time <= time' /\ time' \in Nat
  BY CachesAssumption DEF RcIInv, HealthTypes
<1>2. HealthTypes'
  BY DEF RcIInv, HealthTypes
<1>3. SessionTypes' /\ SessionInv'
  BY <1>1, SessionKept
<1>4. RefreshInv'
  BY DEF RcIInv, RefreshInv, SingleFlight
<1>5. ASSUME NEW q \in Requests PROVE RequestInv(q)'
  <2>1. request' \in [Requests -> [pc : {"idle", "again", "lock", "wait", "answered", "left"},
                                   now : Nat, gen : Nat, answer : Responses]]
    BY <1>2 DEF HealthTypes
  <2>2. RequestInv(q)
    BY DEF RcIInv
  <2>3. CASE q = r
    <3>1. request'[q] = new
      BY <2>3 DEF RcIInv, HealthTypes
    <3> QED
      BY <3>1 DEF RequestInv
  <2>4. CASE q # r
    <3>1. request'[q] = request[q]
      BY <2>4 DEF RcIInv, HealthTypes
    <3> QED
      BY <2>2, <3>1 DEF RequestInv
  <2> QED
    BY <2>3, <2>4
<1> QED
  BY <1>2, <1>3, <1>4, <1>5 DEF RcIInv

(* A health request reads the clock, finds a fresh answer, learns that the *)
(* refresh it waited for is over, or leaves: an answer was fresh when it   *)
(* asked.                                                                  *)
LEMMA AskRcIInv ==
  ASSUME RcIInv, NEW r \in Requests,
         ReadClock(r) \/ AnswerCached(r) \/ RefreshDone(r) \/ Leave(r)
  PROVE  RcIInv'
<1>1. /\ time \in Nat /\ request[r].now \in Nat /\ request[r].now <= time
      /\ readiness.response \in Responses /\ readiness.expires \in Nat
      /\ \A g \in 1..Len(refreshes) : refreshes[g].expires \in Nat
  <2>1. time \in Nat /\ request[r].now \in Nat /\ request[r].now <= time
    BY CachesAssumption DEF RcIInv, HealthTypes, RequestInv
  <2>2. readiness.response \in Responses /\ readiness.expires \in Nat
    BY DEF RcIInv, HealthTypes
  <2>3. \A g \in 1..Len(refreshes) : refreshes[g].expires \in Nat
    BY Elements DEF RcIInv, Refresh
  <2> QED
    BY <2>1, <2>2, <2>3
<1>2. UNCHANGED <<time, readiness, refreshing, refreshes, sessionVars>>
  BY DEF ReadClock, AnswerCached, RefreshDone, Leave
<1>3. CASE AnswerCached(r)
  <2> DEFINE new == [pc |-> "answered", now |-> request[r].now, gen |-> 0,
                     answer |-> readiness.response]
  <2>1. request' = [request EXCEPT ![r] = new] /\ request[r].now < readiness.expires
    BY <1>3 DEF AnswerCached, SetRequest
  <2>2. \E g \in 1..Len(refreshes) : /\ refreshes[g].pc = "done"
                                     /\ refreshes[g].response = readiness.response
                                     /\ refreshes[g].expires = readiness.expires
    <3>1. readiness.expires # Never
      BY <1>1, <2>1 DEF Never
    <3> QED
      BY <3>1 DEF RcIInv, RefreshInv
  <2>3. new \in [pc : {"idle", "again", "lock", "wait", "answered", "left"},
                 now : Nat, gen : Nat, answer : Responses]
    BY <1>1
  <2>4. /\ new.now <= time /\ request[r].now \in Nat
        /\ \E g \in 1..Len(refreshes) : /\ refreshes[g].pc = "done"
                                        /\ refreshes[g].response = new.answer
                                        /\ new.now < refreshes[g].expires
    BY <1>1, <2>1, <2>2
  <2> HIDE DEF new
  <2> QED
    BY <1>2, <2>1, <2>3, <2>4, RequestStep
<1>4. CASE ReadClock(r) \/ RefreshDone(r) \/ Leave(r)
  <2>1. \E state \in {"lock", "again", "left"}, now_r \in {0, time} :
          request' = [request EXCEPT ![r] = [pc |-> state, now |-> now_r, gen |-> 0,
                                             answer |-> "none"]]
    BY <1>4 DEF ReadClock, RefreshDone, Leave, SetRequest
  <2>2. PICK state \in {"lock", "again", "left"}, now_r \in {0, time} :
          request' = [request EXCEPT ![r] = [pc |-> state, now |-> now_r, gen |-> 0,
                                             answer |-> "none"]]
    BY <2>1
  <2>3. /\ [pc |-> state, now |-> now_r, gen |-> 0, answer |-> "none"]
             \in [pc : {"idle", "again", "lock", "wait", "answered", "left"},
                  now : Nat, gen : Nat, answer : Responses]
        /\ now_r <= time /\ state # "answered"
    BY <1>1 DEF Responses
  <2> QED
    BY <1>2, <2>2, <2>3, RequestStep
<1> QED
  BY <1>3, <1>4

(* A request that found nothing fresh waits for the refresh under way or   *)
(* starts one.                                                             *)
LEMMA AwaitRcIInv ==
  ASSUME RcIInv, NEW r \in Requests, AwaitRefresh(r)
  PROVE  RcIInv'
<1> DEFINE new == [pc |-> "probe", started |-> request[r].now, token |-> FALSE,
                   response |-> "none", expires |-> Never]
<1>1. /\ request[r].now \in Nat /\ request[r].now <= time /\ time \in Nat
      /\ readiness.expires \in Nat /\ readiness.expires <= request[r].now
      /\ refreshes \in Seq(Refresh) /\ Len(refreshes) \in Nat
  BY CachesAssumption DEF RcIInv, HealthTypes, RequestInv, AwaitRefresh
<1>2. /\ new \in Refresh /\ new.pc = "probe" /\ new.started = request[r].now
  BY <1>1 DEF Refresh, Responses, Never
<1>3. /\ refreshes' = IF refreshing THEN refreshes ELSE Append(refreshes, new)
      /\ refreshing' = TRUE
      /\ UNCHANGED <<time, readiness, sessionVars>>
      /\ request' = [request EXCEPT ![r] = [pc |-> "wait", now |-> request[r].now,
                                            gen |-> Len(refreshes'), answer |-> "none"]]
  BY DEF AwaitRefresh, SetRequest
<1> HIDE DEF new
<1>4. /\ refreshes' \in Seq(Refresh) /\ Len(refreshes') \in Nat
      /\ Len(refreshes) <= Len(refreshes')
      /\ \A g \in 1..Len(refreshes) : refreshes'[g] = refreshes[g]
  BY <1>1, <1>2, <1>3
<1>5. RefreshInv /\ SingleFlight
  BY DEF RcIInv, RefreshInv
<1>6. HealthTypes'
  <2>1. request' \in [Requests -> [pc : {"idle", "again", "lock", "wait", "answered", "left"},
                                   now : Nat, gen : Nat, answer : Responses]]
    <3>1. [pc |-> "wait", now |-> request[r].now, gen |-> Len(refreshes'), answer |-> "none"]
            \in [pc : {"idle", "again", "lock", "wait", "answered", "left"},
                 now : Nat, gen : Nat, answer : Responses]
      BY <1>1, <1>4 DEF Responses
    <3> QED
      BY <1>3, <3>1 DEF RcIInv, HealthTypes
  <2> QED
    BY <1>3, <1>4, <2>1 DEF RcIInv, HealthTypes
<1>7. SessionTypes' /\ SessionInv'
  BY <1>1, <1>3, SessionKept
<1>8. RefreshInv'
  <2>1. CASE refreshing
    BY <1>3, <1>5, <2>1 DEF RefreshInv, SingleFlight
  <2>2. CASE ~refreshing
    <3>1. /\ Len(refreshes') = Len(refreshes) + 1 /\ refreshes'[Len(refreshes) + 1] = new
          /\ Len(refreshes) + 1 \in 1..Len(refreshes')
      BY <1>1, <1>2, <1>3, <2>2
    <3>2. \A g \in 1..Len(refreshes) :
            /\ refreshes[g].pc = "done" /\ refreshes[g].expires <= request[r].now
            /\ refreshes[g].started <= time /\ refreshes[g].started <= refreshes[g].expires
            /\ refreshes[g].expires <= readiness.expires
      <4> TAKE g \in 1..Len(refreshes)
      <4>1. refreshes[g].pc = "done"
        BY <1>5, <2>2 DEF SingleFlight
      <4>2. refreshes[g].expires \in Nat
        <5>1. refreshes[g] \in Refresh
          BY <1>1, ElementOfSeq
        <5> QED
          BY <5>1 DEF Refresh
      <4>3. /\ refreshes[g].started <= time /\ refreshes[g].started <= refreshes[g].expires
            /\ refreshes[g].expires <= readiness.expires
        BY <1>5, <4>1 DEF RefreshInv
      <4>4. refreshes[g].expires <= request[r].now
        <5>1. /\ request[r].now \in Nat /\ readiness.expires \in Nat
              /\ readiness.expires <= request[r].now
          BY <1>1
        <5> QED
          BY <4>2, <4>3, <5>1
      <4> QED
        BY <4>1, <4>3, <4>4
    <3>3. SingleFlight'
      <4>1. refreshing' /\ refreshes'[Len(refreshes) + 1].pc # "done"
        BY <1>2, <1>3, <3>1
      <4>2. ASSUME NEW g \in 1..Len(refreshes'), NEW h \in 1..Len(refreshes'), g < h
            PROVE  refreshes'[g].pc = "done" /\ refreshes'[g].expires <= refreshes'[h].started
        <5>1. g \in 1..Len(refreshes) /\ refreshes'[g] = refreshes[g]
          BY <1>1, <1>4, <3>1, <4>2
        <5>2. CASE h = Len(refreshes) + 1
          BY <1>2, <3>1, <3>2, <5>1, <5>2
        <5>3. CASE h # Len(refreshes) + 1
          <6>1. h \in 1..Len(refreshes) /\ refreshes'[h] = refreshes[h]
            BY <1>1, <1>4, <3>1, <5>3
          <6> QED
            BY <1>5, <4>2, <5>1, <6>1 DEF SingleFlight
        <5> QED
          BY <5>2, <5>3
      <4> QED
        BY <3>1, <4>1, <4>2 DEF SingleFlight
    <3>4. \A g \in 1..Len(refreshes') :
            /\ refreshes'[g].started <= time'
            /\ refreshes'[g].pc \in {"store", "done"} =>
                 refreshes'[g].started <= refreshes'[g].expires
            /\ refreshes'[g].pc = "done" => refreshes'[g].expires <= readiness'.expires
      <4> TAKE g \in 1..Len(refreshes')
      <4>1. CASE g = Len(refreshes) + 1
        BY <1>1, <1>2, <1>3, <3>1, <4>1
      <4>2. CASE g # Len(refreshes) + 1
        <5>1. g \in 1..Len(refreshes) /\ refreshes'[g] = refreshes[g]
          BY <1>1, <1>4, <3>1, <4>2
        <5> QED
          BY <1>3, <3>2, <5>1
      <4> QED
        BY <4>1, <4>2
    <3>5. readiness' = readiness /\ \A g \in 1..Len(refreshes) : g \in 1..Len(refreshes')
      BY <1>1, <1>3, <3>1
    <3> QED
      BY <1>4, <1>5, <3>3, <3>4, <3>5 DEF RefreshInv
  <2> QED
    BY <2>1, <2>2
<1>9. ASSUME NEW q \in Requests PROVE RequestInv(q)'
  <2>1. CASE q = r
    <3>1. request'[q].pc = "wait" /\ request'[q].now = request[r].now
      BY <1>3, <2>1 DEF RcIInv, HealthTypes
    <3> QED
      BY <1>1, <1>3, <3>1 DEF RequestInv
  <2>2. CASE q # r
    <3>1. request'[q] = request[q] /\ RequestInv(q)
      BY <1>3, <2>2 DEF RcIInv, HealthTypes
    <3>2. \A g \in 1..Len(refreshes) : g \in 1..Len(refreshes')
      BY <1>1, <1>4
    <3> QED
      BY <1>3, <1>4, <3>1, <3>2 DEF RequestInv
  <2> QED
    BY <2>1, <2>2
<1> QED
  BY <1>6, <1>7, <1>8, <1>9 DEF RcIInv

(* Every step of the readiness and of the session cache keeps it.          *)
LEMMA NextRcIInv == RcIInv /\ [RcNext]_rcVars => RcIInv'
<1> SUFFICES ASSUME RcIInv, [RcNext]_rcVars PROVE RcIInv'
  OBVIOUS
<1>1. ASSUME UNCHANGED <<healthVars, sessionVars>>, time' \in Nat, time <= time', time' <= MaxTime
      PROVE  RcIInv'
  BY <1>1, HealthKept, SessionKept DEF RcIInv
<1>2. time \in Nat /\ time <= MaxTime
  BY CachesAssumption DEF RcIInv, HealthTypes
<1>3. CASE Tick
  BY <1>1, <1>2, <1>3, CachesAssumption DEF Tick
<1>4. CASE UNCHANGED rcVars
  BY <1>1, <1>2, <1>4 DEF rcVars, healthVars, sessionVars
<1> QED
  BY <1>3, <1>4, AskRcIInv, AwaitRcIInv, ProbeRcIInv, StoreRcIInv, SessionRcIInv
     DEF RcNext, RcProgress

(* What the caches promise: one refresh and one login at a time, no stale  *)
(* answer.                                                                 *)
LEMMA RcIInvImplies == RcIInv => RcSafe
<1> SUFFICES ASSUME RcIInv PROVE RcSafe
  OBVIOUS
<1>1. RcTypeOK
  BY DEF RcIInv, HealthTypes, SessionTypes, RcTypeOK
<1>2. AnswersFresh
  BY DEF RcIInv, RequestInv, AnswersFresh
<1> QED
  BY <1>1, <1>2 DEF RcIInv, RefreshInv, SessionInv, RcSafe

-------------------------------------------------------------------------------
(* The upstream client.  What a request was sent with follows from where   *)
(* it began; a scope is one institute for every lecture.                   *)

SigningStages == {"start", "validating", "login", "creating", "writing", "publishing"}
ReadingStages == {"ready", "asking", "scoping", "courses", "streams", "segments", "over"}

Origins == {link.origin : link \in Links} \union {"api", "none"}
Url == [origin : Origins, bearer : {"no", "query", "path"}, signed : BOOLEAN]
Kinds == {"lectures", "subjects", "streams", "playlist", "segment"}
Answers == {"none", "ok", "failed", "auth", "origin", "quality", "nothing"}
Call == [kind : Kinds, initial : Origins, url : Url, given : BOOLEAN, header : BOOLEAN,
         withheld : BOOLEAN, hops : Nat]

(* Who signs in: tokens are numbers the upstream issued, and a program     *)
(* publishes a whole one.                                                  *)
SigningInv ==
  /\ accepted \subseteq Nat /\ issued \in Nat /\ cache \in Nat
  /\ temp \in [Programs -> Int] /\ stored \in [Programs -> Nat]
  /\ token \in [Programs -> Nat] /\ vouched \in [Programs -> BOOLEAN]
  /\ stage \in [Programs -> SigningStages \union ReadingStages]
  /\ answer \in [Programs -> Answers]
  /\ \A p \in Programs : stage[p] = "publishing" => temp[p] \in Nat
  /\ SignedInTruly

(* A call carries the bearer to its first origin only, and keeps the       *)
(* signature it was given.                                                 *)
SentTruly(r) ==
  /\ r.withheld <=> ~Allows(r.kind, r.initial)
  /\ Carries(r) => r.url.origin = r.initial /\ Allows(r.kind, r.initial)
  /\ r.url.signed = r.given

(* Only who asks has a call under way, and it is sent as it should be.     *)
CallInv ==
  /\ stage[Reader] = "asking" => call \in Call /\ SentTruly(call)
  /\ call = NoCall \/ stage[Reader] \in {"asking", "over"}
  /\ RefusalsExplained
  /\ found \in Seq(Url)

(* A scope completed to one institute.                                     *)
OneInstitute(list, whole) ==
  \E institute \in Nat \ {0} :
    /\ DOMAIN whole = DOMAIN list
    /\ \A i \in DOMAIN list : whole[i] = institute /\ list[i] \in {0, institute}

(* When the reader has a scope, the list it got has been completed to one  *)
(* institute.                                                              *)
ScopeInv ==
  /\ listed \in Seq(Nat)
  /\ scope = <<>> \/ OneInstitute(listed, scope)
  /\ scope # <<>> =>
       \/ stage[Reader] \in {"streams", "segments", "over"}
       \/ stage[Reader] = "asking" /\ call.kind \notin {"lectures", "subjects"}
  /\ (stage[Reader] = "courses" \/ (stage[Reader] = "asking" /\ call.kind = "subjects")) =>
       Institutes(listed) = {}

UcIInv == SigningInv /\ CallInv /\ ScopeInv

(* A link of the catalog is a URL.                                         *)
LEMMA LinksAreUrls == Links \subseteq Url
<1> SUFFICES ASSUME NEW link \in Links PROVE link \in Url
  OBVIOUS
<1>1. link \in [origin : STRING, bearer : {"no", "query", "path"}, signed : BOOLEAN]
  BY UpstreamAssumption
<1>2. link.origin \in Origins
  BY DEF Origins
<1> QED
  BY <1>1, <1>2 DEF Url

(* At first nobody signed in and nothing was asked of the upstream.        *)
LEMMA InitUcIInv == UcInit => UcIInv
<1> SUFFICES ASSUME UcInit PROVE UcIInv
  OBVIOUS
<1> USE UpstreamAssumption DEF UcInit, SigningStages, ReadingStages, NoToken
<1>1. SigningInv
  BY DEF SigningInv, SignedInTruly, Answers
<1>2. CallInv
  BY DEF CallInv, RefusalsExplained
<1>3. ScopeInv
  BY DEF ScopeInv
<1> QED
  BY <1>1, <1>2, <1>3 DEF UcIInv

(* Signing in, one program after the other.                                *)
LEMMA SigningUcIInv ==
  ASSUME UcIInv, NEW p \in Programs,
         \/ ReadTokenCache(p) \/ TryStoredToken(p) \/ Login(p) \/ CreateTokenCacheTemp(p)
         \/ WriteTokenCache(p) \/ PublishTokenCache(p) \/ SignedIn(p)
  PROVE  UcIInv'
<1> USE DEF Ends, GoesTo
<1>1. \E place \in SigningStages \union {"ready", "over"} : stage' = [stage EXCEPT ![p] = place]
  BY DEF ReadTokenCache, TryStoredToken, Login, CreateTokenCacheTemp, WriteTokenCache,
         PublishTokenCache, SignedIn, SigningStages
<1>2. /\ UNCHANGED <<call, catalog>>
      /\ p = Reader => stage[Reader] \in SigningStages
  BY DEF ReadTokenCache, TryStoredToken, Login, CreateTokenCacheTemp, WriteTokenCache,
         PublishTokenCache, SignedIn, SigningStages, WriteUnchanged
<1>3. answer' = answer \/ \E result \in Answers : answer' = [answer EXCEPT ![p] = result]
  <2>1. CASE ReadTokenCache(p) \/ TryStoredToken(p)
    BY <2>1 DEF ReadTokenCache, TryStoredToken
  <2>2. CASE Login(p)
    BY <2>2 DEF Login, Answers
  <2>3. CASE CreateTokenCacheTemp(p) \/ WriteTokenCache(p) \/ PublishTokenCache(p)
    BY <2>3 DEF CreateTokenCacheTemp, WriteTokenCache, PublishTokenCache, Answers
  <2>4. CASE SignedIn(p)
    BY <2>4 DEF SignedIn, Answers
  <2> QED
    BY <2>1, <2>2, <2>3, <2>4
<1>4. /\ stage \in [Programs -> SigningStages \union ReadingStages]
      /\ answer \in [Programs -> Answers] /\ Reader \in Programs
      /\ "asking" \notin SigningStages /\ "over" \notin SigningStages
  BY UpstreamAssumption DEF UcIInv, SigningInv, SigningStages
<1>5. SigningInv'
  <2>1. stage' \in [Programs -> SigningStages \union ReadingStages]
    BY <1>1, <1>4 DEF ReadingStages
  <2>2. answer' \in [Programs -> Answers]
    BY <1>3, <1>4
  <2> USE DEF UcIInv, SigningInv, SignedInTruly, NoToken, Tokens, Torn, UcTrouble
  <2>3. CASE ReadTokenCache(p)
    BY <2>1, <2>2, <2>3 DEF ReadTokenCache
  <2>4. CASE TryStoredToken(p)
    BY <2>1, <2>2, <2>4 DEF TryStoredToken, SetActiveToken, ValidateStoredToken
  <2>5. CASE Login(p)
    <3>1. CASE issued' = issued + 1
      <4>1. /\ issued + 1 \in Nat /\ issued + 1 \in accepted'
            /\ accepted' = accepted \union {issued + 1}
            /\ token' = [token EXCEPT ![p] = issued + 1]
            /\ vouched' = [vouched EXCEPT ![p] = (issued + 1 \in accepted')]
            /\ stage' = [stage EXCEPT ![p] = "creating"]
            /\ UNCHANGED <<cache, temp, stored>>
        BY <2>5, <3>1 DEF Login, SetActiveToken
      <4> QED
        BY <2>1, <2>2, <3>1, <4>1
    <3>2. CASE ~(issued' = issued + 1)
      <4>1. /\ UNCHANGED <<accepted, issued, token, vouched, cache, temp, stored>>
            /\ stage' = [stage EXCEPT ![p] = "over"]
        BY <2>5, <3>2 DEF Login
      <4> QED
        BY <2>1, <2>2, <4>1
    <3> QED
      BY <3>1, <3>2
  <2>6. CASE CreateTokenCacheTemp(p)
    BY <2>1, <2>2, <2>6 DEF CreateTokenCacheTemp, WriteUnchanged
  <2>7. CASE WriteTokenCache(p)
    BY <2>1, <2>2, <2>7 DEF WriteTokenCache, WriteUnchanged
  <2>8. CASE PublishTokenCache(p)
    BY <2>1, <2>2, <2>8 DEF PublishTokenCache, WriteUnchanged
  <2>9. CASE SignedIn(p)
    BY <2>1, <2>2, <2>9 DEF SignedIn, signingIn
  <2> QED
    BY <2>3, <2>4, <2>5, <2>6, <2>7, <2>8, <2>9
<1>6. CASE p = Reader
  <2>1. /\ stage[Reader] \in SigningStages
        /\ stage'[Reader] \in SigningStages \union {"ready", "over"}
        /\ UNCHANGED <<call, listed, scope, found>>
    BY <1>1, <1>2, <1>4, <1>6 DEF catalog
  <2>2. call = NoCall /\ scope = <<>>
    BY <2>1, <1>4 DEF UcIInv, CallInv, ScopeInv, SigningStages
  <2>3. CallInv'
    BY <2>1, <2>2, <1>4 DEF UcIInv, CallInv, RefusalsExplained
  <2>4. ScopeInv'
    BY <2>1, <2>2 DEF UcIInv, ScopeInv, SigningStages
  <2> QED
    BY <1>5, <2>3, <2>4 DEF UcIInv
<1>7. CASE p # Reader
  <2>1. /\ stage'[Reader] = stage[Reader] /\ answer'[Reader] = answer[Reader]
        /\ UNCHANGED <<call, listed, scope, found>>
    BY <1>1, <1>2, <1>3, <1>4, <1>7 DEF catalog
  <2>2. CallInv'
    BY <2>1 DEF UcIInv, CallInv, RefusalsExplained
  <2>3. ScopeInv'
    BY <2>1 DEF UcIInv, ScopeInv
  <2> QED
    BY <1>5, <2>2, <2>3 DEF UcIInv
<1> QED
  BY <1>6, <1>7

(* The reader goes on: what belongs to signing in stays as it is.          *)
LEMMA ReaderMoves ==
  ASSUME UcIInv, UNCHANGED signingIn, stage[Reader] \in ReadingStages \ {"over"},
         NEW place \in ReadingStages, stage' = [stage EXCEPT ![Reader] = place],
         answer' = answer \/ \E result \in Answers : answer' = [answer EXCEPT ![Reader] = result]
  PROVE  SigningInv' /\ stage'[Reader] = place
<1>1. /\ stage \in [Programs -> SigningStages \union ReadingStages] /\ Reader \in Programs
      /\ answer \in [Programs -> Answers]
  BY UpstreamAssumption DEF UcIInv, SigningInv
<1>2. stage' \in [Programs -> SigningStages \union ReadingStages] /\ stage'[Reader] = place
  BY <1>1
<1>3. answer' \in [Programs -> Answers]
  BY <1>1
<1>4. /\ UNCHANGED <<accepted, issued, cache, temp, stored, token, vouched>>
      /\ \A p \in Programs : p # Reader => stage'[p] = stage[p]
      /\ stage[Reader] \notin SigningStages /\ place \notin SigningStages
  BY <1>1 DEF signingIn, SigningStages, ReadingStages
<1>5. SignedInTruly' /\ \A p \in Programs : stage'[p] = "publishing" => temp'[p] \in Nat
  <2>1. ASSUME NEW p \in Programs, p # Reader
        PROVE  /\ stage'[p] \notin {"start", "validating", "login", "over"} => vouched'[p]
               /\ stage'[p] = "publishing" => temp'[p] \in Nat
    BY <1>4, <2>1 DEF UcIInv, SigningInv, SignedInTruly
  <2>2. /\ vouched'[Reader] /\ stage'[Reader] # "publishing"
    BY <1>1, <1>2, <1>4 DEF UcIInv, SigningInv, SignedInTruly, SigningStages, ReadingStages
  <2> QED
    BY <2>1, <2>2 DEF SignedInTruly
<1> QED
  BY <1>2, <1>3, <1>4, <1>5 DEF UcIInv, SigningInv

(* A request begins, or its link cannot be asked for.                      *)
LEMMA BeginSends ==
  ASSUME UcIInv, NEW kind \in Kinds, NEW url \in Url, Begin(kind, url)
  PROVE  \/ /\ stage' = [stage EXCEPT ![Reader] = "over"] /\ UNCHANGED call
            /\ answer' = [answer EXCEPT ![Reader] = "failed"]
         \/ /\ stage' = [stage EXCEPT ![Reader] = "asking"] /\ UNCHANGED answer
            /\ call' \in Call /\ SentTruly(call') /\ call'.kind = kind
<1> DEFINE allowed == Allows(kind, url.origin)
           sentURL == IF allowed THEN url ELSE StripBearerQuery(url)
<1>1. CASE url.origin \in Insecure \/ (~allowed /\ Leaks(sentURL))
  BY <1>1 DEF Begin, Ends
<1>2. CASE ~(url.origin \in Insecure \/ (~allowed /\ Leaks(sentURL)))
  <2>1. /\ call' = [kind |-> kind, initial |-> url.origin, url |-> sentURL, given |-> url.signed,
                    header |-> allowed, withheld |-> ~allowed, hops |-> 0]
        /\ stage' = [stage EXCEPT ![Reader] = "asking"] /\ UNCHANGED answer
    BY <1>2 DEF Begin, GoesTo
  <2>2. sentURL \in Url /\ sentURL.origin = url.origin /\ sentURL.signed = url.signed
    BY DEF StripBearerQuery, Url
  <2>3. ~allowed => sentURL.bearer = "no"
    BY <1>2 DEF StripBearerQuery, Url, Leaks
  <2>4. allowed \in BOOLEAN
    BY DEF Allows
  <2>5. url.origin \in Origins /\ url.signed \in BOOLEAN
    BY DEF Url
  <2> HIDE DEF allowed, sentURL
  <2>6. call' \in Call /\ call'.kind = kind
    BY <2>1, <2>2, <2>4, <2>5 DEF Call
  <2>7. SentTruly(call')
    BY <2>1, <2>2, <2>3 DEF SentTruly, Carries, allowed
  <2> QED
    BY <2>1, <2>6, <2>7
<1> QED
  BY <1>1, <1>2

(* A step of the reader that begins a request and leaves the rest alone.   *)
LEMMA BeginUcIInv ==
  ASSUME UcIInv, UNCHANGED <<signingIn, catalog>>, NEW kind \in Kinds, NEW url \in Url,
         Begin(kind, url), stage[Reader] \in {"ready", "courses", "streams", "segments"},
         scope # <<>> => kind \notin {"lectures", "subjects"},
         kind = "subjects" => Institutes(listed) = {}
  PROVE  UcIInv'
<1>1. UNCHANGED <<listed, scope, found>> /\ call = NoCall
  BY DEF UcIInv, CallInv, catalog
<1>2. CASE /\ stage' = [stage EXCEPT ![Reader] = "over"] /\ UNCHANGED call
           /\ answer' = [answer EXCEPT ![Reader] = "failed"]
  <2>1. SigningInv' /\ stage'[Reader] = "over"
    BY <1>2, ReaderMoves DEF ReadingStages, Answers
  <2>2. CallInv'
    BY <1>1, <1>2, <2>1 DEF UcIInv, CallInv, RefusalsExplained
  <2>3. ScopeInv'
    BY <1>1, <2>1 DEF UcIInv, ScopeInv
  <2> QED
    BY <2>1, <2>2, <2>3 DEF UcIInv
<1>3. CASE /\ stage' = [stage EXCEPT ![Reader] = "asking"] /\ UNCHANGED answer
           /\ call' \in Call /\ SentTruly(call') /\ call'.kind = kind
  <2>1. SigningInv' /\ stage'[Reader] = "asking"
    BY <1>3, ReaderMoves DEF ReadingStages
  <2>2. CallInv'
    BY <1>1, <1>3, <2>1 DEF UcIInv, CallInv, RefusalsExplained
  <2>3. ScopeInv'
    BY <1>1, <1>3, <2>1 DEF UcIInv, ScopeInv
  <2> QED
    BY <2>1, <2>2, <2>3 DEF UcIInv
<1> QED
  BY <1>2, <1>3, BeginSends

(* An answer that redirects: the bearer stays at home.                     *)
LEMMA RedirectUcIInv == ASSUME UcIInv, Redirect PROVE UcIInv'
<1>1. /\ stage[Reader] = "asking" /\ UNCHANGED <<signingIn, listed, scope, found>>
      /\ call \in Call /\ SentTruly(call)
  BY DEF UcIInv, CallInv, Redirect, Waiting, catalog
<1>2. PICK link \in Links :
       LET keep == KeepCredentials(call, link)
           next == IF keep THEN link ELSE StripBearerQuery(link)
       IN IF ~RedirectAllowed(call, link) \/ Leaks(next)
          THEN Ends(Reader, "failed") /\ UNCHANGED call
          ELSE /\ \E copied \in {call.header, ~call.withheld} :
                    call' = [call EXCEPT !.url = next, !.given = link.signed,
                                               !.header = keep /\ copied, !.hops = @ + 1]
               /\ UNCHANGED <<stage, answer>>
  BY DEF Redirect
<1> DEFINE keep == KeepCredentials(call, link)
           next == IF keep THEN link ELSE StripBearerQuery(link)
<1>3. CASE ~RedirectAllowed(call, link) \/ Leaks(next)
  <2>1. /\ stage' = [stage EXCEPT ![Reader] = "over"] /\ UNCHANGED call
        /\ answer' = [answer EXCEPT ![Reader] = "failed"]
    BY <1>2, <1>3 DEF Ends
  <2>2. SigningInv' /\ stage'[Reader] = "over"
    BY <1>1, <2>1, ReaderMoves DEF ReadingStages, Answers
  <2>3. answer'[Reader] = "failed"
    BY <2>1, UpstreamAssumption DEF UcIInv, SigningInv
  <2>4. CallInv'
    BY <1>1, <2>1, <2>2, <2>3 DEF UcIInv, CallInv, RefusalsExplained
  <2>5. ScopeInv'
    BY <1>1, <2>2 DEF UcIInv, ScopeInv
  <2> QED
    BY <2>2, <2>4, <2>5 DEF UcIInv
<1>4. CASE ~(~RedirectAllowed(call, link) \/ Leaks(next))
  <2>1. UNCHANGED <<stage, answer>>
    BY <1>2, <1>4
  <2>2. PICK copied \in {call.header, ~call.withheld} :
          call' = [call EXCEPT !.url = next, !.given = link.signed,
                               !.header = keep /\ copied, !.hops = @ + 1]
    BY <1>2, <1>4
  <2>3. link \in Url
    BY LinksAreUrls
  <2>4. next \in Url /\ next.signed = link.signed /\ next.origin = link.origin
    BY <2>3 DEF StripBearerQuery, Url
  <2>5. ~keep => next.bearer = "no"
    BY <1>4, <2>3 DEF StripBearerQuery, Url, Leaks
  <2>6. keep => Allows(call.kind, call.initial) /\ link.origin = call.initial
    BY DEF KeepCredentials
  <2>7. keep \in BOOLEAN /\ copied \in BOOLEAN /\ link.signed \in BOOLEAN
    BY <1>1, <2>3 DEF KeepCredentials, Call, Url
  <2> HIDE DEF keep, next
  <2>8. /\ call' \in Call /\ call'.kind = call.kind /\ call'.initial = call.initial
        /\ call'.withheld = call.withheld /\ call'.url = next /\ call'.given = link.signed
        /\ call'.header = (keep /\ copied)
    <3> DEFINE header == keep /\ copied
               hops == call.hops + 1
    <3>1. call' = [call EXCEPT !.url = next, !.given = link.signed, !.header = header,
                               !.hops = hops]
      BY <2>2
    <3>2. header \in BOOLEAN /\ hops \in Nat
      BY <1>1 DEF Call
    <3> HIDE DEF header, hops
    <3>3. /\ call' \in Call /\ call'.kind = call.kind /\ call'.initial = call.initial
          /\ call'.withheld = call.withheld /\ call'.url = next /\ call'.given = link.signed
          /\ call'.header = header
      BY <1>1, <2>4, <2>7, <3>1, <3>2 DEF Call
    <3> QED
      BY <3>3 DEF header
  <2>9. SentTruly(call')
    BY <1>1, <2>4, <2>5, <2>6, <2>8 DEF SentTruly, Carries
  <2>10. SigningInv'
    BY <1>1, <2>1 DEF UcIInv, SigningInv, SignedInTruly, signingIn
  <2>11. CallInv'
    BY <1>1, <2>1, <2>8, <2>9 DEF UcIInv, CallInv, RefusalsExplained
  <2>12. ScopeInv'
    BY <1>1, <2>1, <2>8 DEF UcIInv, ScopeInv
  <2> QED
    BY <2>10, <2>11, <2>12 DEF UcIInv
<1> QED
  BY <1>3, <1>4

(* What uniqueInstituteID answers.                                         *)
LEMMA UniqueInstituteMeans ==
  ASSUME NEW list \in Seq(Nat)
  PROVE  LET institute == UniqueInstitute(Institutes(list)) IN
           /\ institute = 0 => Institutes(list) = {}
           /\ institute > 0 => institute \in Nat \ {0} /\ Institutes(list) = {institute}
<1> DEFINE S == Institutes(list)
<1>1. S \subseteq Nat \ {0}
  BY DEF Institutes
<1>2. IsFiniteSet(S)
  <2>1. IsFiniteSet(DOMAIN list)
    <3>1. DOMAIN list = 1..Len(list) /\ Len(list) \in Int
      OBVIOUS
    <3> QED
      BY <3>1, FS_Interval, 1 \in Int
  <2> DEFINE T == {list[i] : i \in DOMAIN list}
             f == [i \in DOMAIN list |-> list[i]]
  <2>2. f \in Surjection(DOMAIN list, T)
    BY DEF Surjection
  <2>3. IsFiniteSet(T)
    BY <2>1, <2>2, FS_Surjection
  <2>4. S \subseteq T
    BY DEF Institutes
  <2> QED
    BY <2>3, <2>4, FS_Subset
<1> HIDE DEF S
<1>3. CASE S = {}
  <2>1. UniqueInstitute(S) = 0
    BY <1>3 DEF UniqueInstitute
  <2> QED
    BY <1>3, <2>1 DEF S
<1>4. CASE S # {} /\ Cardinality(S) = 1
  <2>1. PICK x : S = {x}
    BY <1>2, <1>4, FS_Singleton
  <2>2. UniqueInstitute(S) = x
    BY <1>4, <2>1 DEF UniqueInstitute
  <2> QED
    BY <1>1, <2>1, <2>2 DEF S
<1>5. CASE S # {} /\ Cardinality(S) # 1
  <2>1. UniqueInstitute(S) = -1
    BY <1>5 DEF UniqueInstitute
  <2> QED
    BY <2>1 DEF S
<1> QED
  BY <1>3, <1>4, <1>5

(* Filled with that institute, a list names it throughout.                 *)
LEMMA FilledIsOne ==
  ASSUME NEW list \in Seq(Nat), NEW institute \in Nat \ {0},
         Institutes(list) \subseteq {institute}
  PROVE  OneInstitute(list, Filled(list, institute))
<1>1. \A i \in DOMAIN list : list[i] = 0 \/ list[i] \in Institutes(list)
  BY DEF Institutes
<1> QED
  BY <1>1 DEF OneInstitute, Filled

(* A step of the reader that hands the answer on and asks nothing more.    *)
LEMMA ReaderGoesOn ==
  ASSUME UcIInv, UNCHANGED signingIn, stage[Reader] \in ReadingStages \ {"over"},
         NEW place \in ReadingStages \ {"asking"}, stage' = [stage EXCEPT ![Reader] = place],
         \/ UNCHANGED answer
         \/ \E result \in Answers \ {"auth", "origin"} :
              answer' = [answer EXCEPT ![Reader] = result] /\ place = "over",
         \/ call' = NoCall
         \/ UNCHANGED call /\ stage[Reader] # "asking"
         \/ UNCHANGED call /\ ~UNCHANGED answer,
         found' \in Seq(Url), ScopeInv'
  PROVE  UcIInv'
<1>1. SigningInv' /\ stage'[Reader] = place
  BY ReaderMoves
<1>2. Reader \in Programs /\ answer \in [Programs -> Answers]
  BY UpstreamAssumption DEF UcIInv, SigningInv
<1>3. CASE call' = NoCall
  BY <1>1, <1>3 DEF UcIInv, CallInv, RefusalsExplained
<1>4. CASE UNCHANGED call /\ stage[Reader] # "asking"
  <2>1. call = NoCall
    BY <1>4 DEF UcIInv, CallInv
  <2> QED
    BY <1>1, <1>4, <2>1 DEF UcIInv, CallInv, RefusalsExplained
<1>5. CASE UNCHANGED call /\ ~UNCHANGED answer
  <2>1. place = "over" /\ answer'[Reader] \notin {"auth", "origin"}
    BY <1>2, <1>5
  <2> QED
    BY <1>1, <1>5, <2>1 DEF UcIInv, CallInv, RefusalsExplained
<1> QED
  BY <1>3, <1>4, <1>5

(* The reader's own steps.                                                 *)
LEMMA ReadingUcIInv == ASSUME UcIInv, Reads PROVE UcIInv'
<1> USE DEF Ends, GoesTo, Unasked
<1>1. /\ Base \in Url /\ [Base EXCEPT !.bearer = "query"] \in Url /\ NoURL \in Url
      /\ Links \subseteq Url
  <2>1. Base \in Url /\ NoURL \in Url
    BY DEF Base, NoURL, Url, Origins
  <2>2. [Base EXCEPT !.bearer = "query"] \in Url
    BY <2>1 DEF Url
  <2> QED
    BY <2>1, <2>2, LinksAreUrls
<1>2. /\ listed \in Seq(Nat) /\ found \in Seq(Url) /\ ScopeInv /\ CallInv
      /\ stage[Reader] \in SigningStages \union ReadingStages
  BY UpstreamAssumption DEF UcIInv, SigningInv, ScopeInv, CallInv
<1>3. CASE GetLectures
  <2>1. /\ UNCHANGED <<signingIn, catalog>> /\ stage[Reader] = "ready" /\ Begin("lectures", Base)
    BY <1>3 DEF GetLectures
  <2>2. scope = <<>>
    BY <1>2, <2>1 DEF ScopeInv
  <2> QED
    BY <1>1, <2>1, <2>2, BeginUcIInv DEF Kinds
<1>4. CASE LecturesListed
  <2>1. /\ stage[Reader] = "asking" /\ call.kind = "lectures" /\ UNCHANGED <<signingIn, answer>>
        /\ stage' = [stage EXCEPT ![Reader] = "scoping"] /\ call' = NoCall
        /\ listed' \in Scopes /\ UNCHANGED <<scope, found>>
    BY <1>4 DEF LecturesListed, Succeeds
  <2>2. scope = <<>>
    BY <1>2, <2>1 DEF ScopeInv
  <2>3. stage'[Reader] = "scoping"
    BY <2>1, UpstreamAssumption DEF UcIInv, SigningInv
  <2>4. ScopeInv'
    BY <2>1, <2>2, <2>3, UpstreamAssumption DEF ScopeInv
  <2> QED
    BY <1>2, <2>1, <2>4, ReaderGoesOn DEF ReadingStages
<1>5. CASE ResolveLectureScope
  <2> DEFINE institute == UniqueInstitute(Institutes(listed))
  <2>1. /\ stage[Reader] = "scoping" /\ UNCHANGED <<signingIn, listed, found, call>>
    BY <1>5 DEF ResolveLectureScope
  <2>2. scope = <<>>
    BY <1>2, <2>1 DEF ScopeInv
  <2>3. CASE institute = -1 /\ Ends(Reader, "failed") /\ UNCHANGED scope
    <3>1. /\ stage' = [stage EXCEPT ![Reader] = "over"]
          /\ answer' = [answer EXCEPT ![Reader] = "failed"] /\ UNCHANGED scope
      BY <2>3
    <3>2. stage'[Reader] = "over"
      BY <3>1, UpstreamAssumption DEF UcIInv, SigningInv
    <3>3. ScopeInv'
      BY <1>2, <2>1, <2>2, <3>1, <3>2 DEF ScopeInv
    <3> QED
      BY <1>2, <2>1, <3>1, <3>3, ReaderGoesOn DEF ReadingStages, Answers
  <2>4. CASE institute = 0 /\ GoesTo(Reader, "courses") /\ UNCHANGED scope
    <3>1. /\ stage' = [stage EXCEPT ![Reader] = "courses"] /\ UNCHANGED <<answer, scope>>
      BY <2>4
    <3>2. stage'[Reader] = "courses"
      BY <3>1, UpstreamAssumption DEF UcIInv, SigningInv
    <3>3. Institutes(listed) = {}
      BY <1>2, <2>4, UniqueInstituteMeans
    <3>4. ScopeInv'
      BY <1>2, <2>1, <2>2, <3>1, <3>2, <3>3 DEF ScopeInv, Institutes
    <3> QED
      BY <1>2, <2>1, <3>1, <3>4, ReaderGoesOn DEF ReadingStages
  <2>5. CASE /\ institute > 0 \/ listed = <<>>
             /\ scope' = Filled(listed, institute) /\ GoesTo(Reader, "streams")
    <3>1. /\ stage' = [stage EXCEPT ![Reader] = "streams"] /\ UNCHANGED answer
      BY <2>5
    <3>2. stage'[Reader] = "streams"
      BY <3>1, UpstreamAssumption DEF UcIInv, SigningInv
    <3>3. OneInstitute(listed, scope')
      <4>1. CASE institute > 0
        BY <1>2, <2>5, <4>1, UniqueInstituteMeans, FilledIsOne
      <4>2. CASE listed = <<>>
        <5>1. DOMAIN listed = {} /\ DOMAIN scope' = {}
          BY <2>5, <4>2 DEF Filled
        <5> QED
          BY <5>1, 1 \in Nat \ {0} DEF OneInstitute
      <4> QED
        BY <2>5, <4>1, <4>2
    <3>4. ScopeInv'
      BY <1>2, <2>1, <3>2, <3>3 DEF ScopeInv
    <3> QED
      BY <1>2, <2>1, <3>1, <3>4, ReaderGoesOn DEF ReadingStages
  <2> QED
    BY <1>5, <2>3, <2>4, <2>5 DEF ResolveLectureScope
<1>6. CASE GetCourses
  <2>1. /\ UNCHANGED <<signingIn, catalog>> /\ stage[Reader] = "courses" /\ Begin("subjects", Base)
    BY <1>6 DEF GetCourses
  <2>2. scope = <<>> /\ Institutes(listed) = {}
    BY <1>2, <2>1 DEF ScopeInv
  <2> QED
    BY <1>1, <2>1, <2>2, BeginUcIInv DEF Kinds
<1>7. CASE InstituteFromCatalog
  <2>1. /\ stage[Reader] = "asking" /\ call.kind = "subjects" /\ call' = NoCall
        /\ UNCHANGED <<signingIn, listed, found>>
    BY <1>7 DEF InstituteFromCatalog, Succeeds
  <2>2. scope = <<>> /\ Institutes(listed) = {}
    BY <1>2, <2>1 DEF ScopeInv
  <2>3. PICK courses \in Scopes :
          LET institute == UniqueInstitute(Institutes(courses)) IN
          IF institute > 0
          THEN scope' = Filled(listed, institute) /\ GoesTo(Reader, "streams")
          ELSE Ends(Reader, "failed") /\ UNCHANGED scope
    BY <1>7 DEF InstituteFromCatalog
  <2> DEFINE institute == UniqueInstitute(Institutes(courses))
  <2>4. CASE institute > 0
    <3>1. /\ scope' = Filled(listed, institute)
          /\ stage' = [stage EXCEPT ![Reader] = "streams"] /\ UNCHANGED answer
      BY <2>3, <2>4
    <3>2. stage'[Reader] = "streams"
      BY <3>1, UpstreamAssumption DEF UcIInv, SigningInv
    <3>3. institute \in Nat \ {0}
      BY <2>4, UniqueInstituteMeans, UpstreamAssumption
    <3>4. OneInstitute(listed, scope')
      BY <1>2, <2>2, <3>1, <3>3, FilledIsOne
    <3>5. ScopeInv'
      BY <1>2, <2>1, <3>2, <3>4 DEF ScopeInv
    <3> QED
      BY <1>2, <2>1, <3>1, <3>5, ReaderGoesOn DEF ReadingStages
  <2>5. CASE ~(institute > 0)
    <3>1. /\ stage' = [stage EXCEPT ![Reader] = "over"] /\ UNCHANGED scope
          /\ answer' = [answer EXCEPT ![Reader] = "failed"]
      BY <2>3, <2>5
    <3>2. stage'[Reader] = "over"
      BY <3>1, UpstreamAssumption DEF UcIInv, SigningInv
    <3>3. ScopeInv'
      BY <1>2, <2>1, <2>2, <3>1, <3>2 DEF ScopeInv
    <3> QED
      BY <1>2, <2>1, <3>1, <3>3, ReaderGoesOn DEF ReadingStages, Answers
  <2> QED
    BY <2>4, <2>5
<1>8. CASE GetStreamInfos
  <2>1. /\ UNCHANGED <<signingIn, catalog>> /\ stage[Reader] = "streams"
        /\ Begin("streams", [Base EXCEPT !.bearer = "query"])
    BY <1>8 DEF GetStreamInfos
  <2> QED
    BY <1>1, <2>1, BeginUcIInv DEF Kinds
<1>9. ASSUME NEW url \in Url, NextLectureAt(url), UNCHANGED <<signingIn, listed, scope>>,
             stage[Reader] = "asking", call.kind \in {"streams", "playlist"}
      PROVE  UcIInv'
  <2>1. /\ found' = Append(found, url) /\ call' = NoCall /\ UNCHANGED answer
        /\ stage' = [stage EXCEPT ![Reader] = "streams"]
    BY <1>9 DEF NextLectureAt
  <2>2. stage'[Reader] = "streams"
    BY <2>1, UpstreamAssumption DEF UcIInv, SigningInv
  <2>3. ScopeInv'
    BY <1>2, <1>9, <2>1, <2>2 DEF ScopeInv
  <2>4. found' \in Seq(Url)
    BY <1>2, <2>1
  <2> QED
    BY <1>9, <2>1, <2>3, <2>4, ReaderGoesOn DEF ReadingStages
<1>10. CASE StreamInfos
  <2>1. /\ stage[Reader] = "asking" /\ call.kind = "streams"
        /\ UNCHANGED <<signingIn, listed, scope>>
    BY <1>10 DEF StreamInfos, Succeeds
  <2>2. CASE NextLectureAt(NoURL)
    BY <1>1, <1>9, <2>1, <2>2
  <2>3. ASSUME NEW link \in Links, Begin("playlist", link), UNCHANGED found PROVE UcIInv'
    <3>1. \/ /\ stage' = [stage EXCEPT ![Reader] = "over"] /\ UNCHANGED call
             /\ answer' = [answer EXCEPT ![Reader] = "failed"]
          \/ /\ stage' = [stage EXCEPT ![Reader] = "asking"] /\ UNCHANGED answer
             /\ call' \in Call /\ SentTruly(call') /\ call'.kind = "playlist"
      BY <1>1, <2>3, BeginSends DEF Kinds
    <3>2. CASE /\ stage' = [stage EXCEPT ![Reader] = "over"] /\ UNCHANGED call
               /\ answer' = [answer EXCEPT ![Reader] = "failed"]
      <4>1. SigningInv' /\ stage'[Reader] = "over"
        BY <2>1, <3>2, ReaderMoves DEF ReadingStages, Answers
      <4>2. answer'[Reader] = "failed"
        BY <3>2, UpstreamAssumption DEF UcIInv, SigningInv
      <4>3. CallInv' /\ ScopeInv'
        BY <1>2, <2>1, <2>3, <3>2, <4>1, <4>2 DEF CallInv, RefusalsExplained, ScopeInv
      <4> QED
        BY <4>1, <4>3 DEF UcIInv
    <3>3. CASE /\ stage' = [stage EXCEPT ![Reader] = "asking"] /\ UNCHANGED answer
               /\ call' \in Call /\ SentTruly(call') /\ call'.kind = "playlist"
      <4>1. SigningInv' /\ stage'[Reader] = "asking"
        BY <2>1, <3>3, ReaderMoves DEF ReadingStages
      <4>2. CallInv' /\ ScopeInv'
        BY <1>2, <2>1, <2>3, <3>3, <4>1 DEF CallInv, RefusalsExplained, ScopeInv
      <4> QED
        BY <4>1, <4>2 DEF UcIInv
    <3> QED
      BY <3>1, <3>2, <3>3
  <2> QED
    BY <1>10, <2>2, <2>3 DEF StreamInfos
<1>11. CASE Playlist
  <2>1. /\ stage[Reader] = "asking" /\ call.kind = "playlist"
        /\ UNCHANGED <<signingIn, listed, scope>> /\ NextLectureAt(Relative(call.url))
    BY <1>11 DEF Playlist, Succeeds
  <2>2. Relative(call.url) \in Url
    <3>1. call.url \in Url
      BY <1>2, <2>1 DEF CallInv, Call
    <3> QED
      BY <3>1 DEF Relative, Url
  <2> QED
    BY <1>9, <2>1, <2>2
<1>12. CASE PlaylistsReturned
  <2>1. /\ stage[Reader] = "streams" /\ UNCHANGED <<signingIn, listed, scope, found, call>>
        /\ \/ /\ stage' = [stage EXCEPT ![Reader] = "segments"] /\ UNCHANGED answer
           \/ /\ stage' = [stage EXCEPT ![Reader] = "over"]
              /\ \E result \in {"quality", "nothing"} : answer' = [answer EXCEPT ![Reader] = result]
    BY <1>12 DEF PlaylistsReturned, catalog
  <2>2. stage'[Reader] \in {"segments", "over"}
    BY <2>1, UpstreamAssumption DEF UcIInv, SigningInv
  <2>3. ScopeInv'
    BY <1>2, <2>1, <2>2 DEF ScopeInv
  <2> QED
    BY <1>2, <2>1, <2>3, ReaderGoesOn DEF ReadingStages, Answers
<1>13. CASE GetSegment
  <2>1. /\ UNCHANGED <<signingIn, catalog>> /\ stage[Reader] = "segments"
    BY <1>13 DEF GetSegment
  <2>2. PICK url \in {found[i] : i \in Parsed} \union Links : Begin("segment", url)
    BY <1>13 DEF GetSegment
  <2>3. url \in Url
    BY <1>1, <1>2 DEF Parsed
  <2> QED
    BY <2>1, <2>2, <2>3, BeginUcIInv DEF Kinds
<1>14. CASE Segment \/ RequestFails
  <2>1. /\ stage[Reader] = "asking" /\ UNCHANGED <<signingIn, listed, scope, found, call>>
        /\ stage' = [stage EXCEPT ![Reader] = "over"]
    BY <1>14 DEF Segment, RequestFails, Succeeds, Waiting, catalog
  <2>2. \E result \in Answers :
          /\ answer' = [answer EXCEPT ![Reader] = result]
          /\ result = "auth" => ~call.withheld
          /\ result = "origin" => call.withheld
    <3>1. CASE Segment
      BY <3>1 DEF Segment, Answers
    <3>2. CASE RequestFails
      <4>1. PICK status \in {"unauthorized", "forbidden", "broken"} :
              answer' = [answer EXCEPT ![Reader] = Refusal(call, status)]
        BY <3>2 DEF RequestFails
      <4>2. /\ Refusal(call, status) \in Answers
            /\ Refusal(call, status) = "auth" => ~call.withheld
            /\ Refusal(call, status) = "origin" => call.withheld
        BY DEF Refusal, Answers
      <4> QED
        BY <4>1, <4>2
    <3> QED
      BY <1>14, <3>1, <3>2
  <2>3. SigningInv' /\ stage'[Reader] = "over"
    BY <2>1, <2>2, ReaderMoves DEF ReadingStages
  <2>4. /\ answer'[Reader] = "auth" => ~call.withheld
        /\ answer'[Reader] = "origin" => call.withheld
    BY <2>2, UpstreamAssumption DEF UcIInv, SigningInv
  <2>5. CallInv'
    BY <1>2, <2>1, <2>3, <2>4 DEF CallInv, RefusalsExplained, SentTruly
  <2>6. ScopeInv'
    BY <1>2, <2>1, <2>3 DEF ScopeInv
  <2> QED
    BY <2>3, <2>5, <2>6 DEF UcIInv
<1> QED
  BY <1>3, <1>4, <1>5, <1>6, <1>7, <1>8, <1>10, <1>11, <1>12, <1>13, <1>14, RedirectUcIInv
     DEF Reads

(* Every step of signing in, of a call and of reading the catalog keeps it.*)
LEMMA NextUcIInv == UcIInv /\ [UcNext]_ucVars => UcIInv'
<1> SUFFICES ASSUME UcIInv, [UcNext]_ucVars PROVE UcIInv'
  OBVIOUS
<1>1. CASE Expire
  <2>1. /\ accepted' \subseteq accepted
        /\ UNCHANGED <<issued, cache, temp, stored, token, stage, vouched, answer, call, listed,
                       scope, found>>
    BY <1>1 DEF Expire, catalog
  <2>2. SigningInv'
    BY <2>1 DEF UcIInv, SigningInv, SignedInTruly
  <2>3. CallInv' /\ ScopeInv'
    BY <2>1 DEF UcIInv, CallInv, ScopeInv, RefusalsExplained
  <2> QED
    BY <2>2, <2>3 DEF UcIInv
<1>2. ASSUME NEW p \in Programs, KillProgram(p) PROVE UcIInv'
  <2>1. /\ stage[p] # "over" /\ stage' = [stage EXCEPT ![p] = "start"]
        /\ temp' = [temp EXCEPT ![p] = NoToken] /\ token' = [token EXCEPT ![p] = NoToken]
        /\ vouched' = [vouched EXCEPT ![p] = FALSE] /\ stored' = [stored EXCEPT ![p] = NoToken]
        /\ UNCHANGED <<accepted, issued, cache, answer>>
    BY <1>2 DEF KillProgram
  <2>2. SigningInv'
    BY <2>1 DEF UcIInv, SigningInv, SignedInTruly, NoToken, SigningStages
  <2>3. CASE p = Reader
    <3>1. stage'[Reader] = "start" /\ call' = NoCall /\ listed' = <<>> /\ scope' = <<>>
          /\ found' = <<>>
      BY <1>2, <2>1, <2>3 DEF KillProgram, UcIInv, SigningInv
    <3>2. CallInv' /\ ScopeInv'
      BY <3>1 DEF CallInv, RefusalsExplained, ScopeInv
    <3> QED
      BY <2>2, <3>2 DEF UcIInv
  <2>4. CASE p # Reader
    <3>1. stage'[Reader] = stage[Reader] /\ UNCHANGED <<call, listed, scope, found, answer>>
      BY <1>2, <2>1, <2>4, UpstreamAssumption DEF KillProgram, UcIInv, SigningInv, catalog
    <3>2. CallInv' /\ ScopeInv'
      BY <3>1 DEF UcIInv, CallInv, RefusalsExplained, ScopeInv
    <3> QED
      BY <2>2, <3>2 DEF UcIInv
  <2> QED
    BY <2>3, <2>4
<1>3. CASE UNCHANGED ucVars
  BY <1>3 DEF ucVars, UcIInv, SigningInv, SignedInTruly, CallInv, RefusalsExplained, ScopeInv
<1> QED
  BY <1>1, <1>2, <1>3, ReadingUcIInv, SigningUcIInv DEF UcNext, UcProgress

(* What the upstream client promises: the bearer goes to its origin only,  *)
(* refusals are explained, the cached token is whole and the scope of one  *)
(* institute.                                                              *)
LEMMA UcIInvImplies == UcIInv => UcSafe
<1> SUFFICES ASSUME UcIInv PROVE UcSafe
  OBVIOUS
<1>1. BearerStays /\ SignaturesKept /\ RefusalsExplained
  BY DEF UcIInv, CallInv, SentTruly, BearerStays, SignaturesKept
<1>2. CacheWhole /\ SignedInTruly
  BY DEF UcIInv, SigningInv, CacheWhole, Torn
<1>3. ScopeComplete
  <2>1. CASE scope = <<>>
    <3>1. DOMAIN scope = {} /\ Institutes(scope) = {}
      BY <2>1 DEF Institutes
    <3> QED
      BY <3>1, FS_EmptySet DEF ScopeComplete
  <2>2. CASE OneInstitute(listed, scope)
    <3>1. PICK institute \in Nat \ {0} :
            /\ DOMAIN scope = DOMAIN listed
            /\ \A i \in DOMAIN listed : scope[i] = institute /\ listed[i] \in {0, institute}
      BY <2>2 DEF OneInstitute
    <3>2. Institutes(scope) \subseteq {institute}
      BY <3>1 DEF Institutes
    <3>3. Cardinality(Institutes(scope)) <= 1
      <4>1. IsFiniteSet({institute}) /\ Cardinality({institute}) = 1
        BY FS_Singleton
      <4> QED
        BY <3>2, <4>1, FS_Subset
    <3> QED
      BY <3>1, <3>3 DEF ScopeComplete
  <2> QED
    BY <2>1, <2>2 DEF UcIInv, ScopeInv
<1> QED
  BY <1>1, <1>2, <1>3 DEF UcSafe

-------------------------------------------------------------------------------
(* The login limiter.  First the loop Kept stands for.                     *)

(* What holds of 0 and passes from each number below n to the next holds of*)
(* all up to n.                                                            *)
LEMMA UpTo ==
  ASSUME NEW n \in Nat, NEW T, 0 \in T, \A i \in 0..(n - 1) : i \in T => i + 1 \in T
  PROVE  0..n \subseteq T
<1> SUFFICES ASSUME 0..n \ T # {} PROVE FALSE
  OBVIOUS
<1>1. 0..n \ T \subseteq Nat
  OBVIOUS
<1>2. PICK x \in 0..n \ T : \A y \in 0..n \ T : ~(<<y, x>> \in OpToRel(<, Nat))
  BY <1>1, WFMin, NatLessThanWellFounded, Zenon
<1>3. \A y \in 0..n \ T : ~(y < x)
  BY <1>1, <1>2 DEF OpToRel
<1>4. x # 0 /\ x - 1 \in 0..(n - 1)
  OBVIOUS
<1>5. x - 1 \in T
  BY <1>3, <1>4
<1> QED
  BY <1>4, <1>5

(* f is what the loop of Kept has collected after each of n steps.         *)
Loop(s, S, n, f) ==
  f = [i \in 0..n |-> IF i = 0 THEN <<>>
                      ELSE IF s[i] \in S THEN Append(f[i - 1], s[i]) ELSE f[i - 1]]

(* The function the loop computes exists, one step after the other.        *)
LEMMA LoopExists ==
  ASSUME NEW A, NEW s \in Seq(A), NEW S
  PROVE  \E f : Loop(s, S, Len(s), f)
<1> DEFINE T == {n \in 0..Len(s) : \E f : Loop(s, S, n, f)}
<1>1. Len(s) \in Nat
  OBVIOUS
<1>2. 0 \in T
  <2>1. Loop(s, S, 0, [i \in 0..0 |-> <<>>])
    BY DEF Loop
  <2> QED
    BY <1>1, <2>1
<1>3. ASSUME NEW n \in 0..(Len(s) - 1), n \in T PROVE n + 1 \in T
  <2>1. PICK f : Loop(s, S, n, f)
    BY <1>3
  <2> DEFINE next == IF s[n + 1] \in S THEN Append(f[n], s[n + 1]) ELSE f[n]
             g == [i \in 0..(n + 1) |-> IF i = n + 1 THEN next ELSE f[i]]
  <2>2. \A i \in 0..n : f[i] = IF i = 0 THEN <<>>
                               ELSE IF s[i] \in S THEN Append(f[i - 1], s[i]) ELSE f[i - 1]
    BY <2>1 DEF Loop
  <2>3. \A i \in 0..(n + 1) : g[i] = IF i = 0 THEN <<>>
                                     ELSE IF s[i] \in S THEN Append(g[i - 1], s[i]) ELSE g[i - 1]
    <3> TAKE i \in 0..(n + 1)
    <3>1. CASE i = n + 1
      <4>1. g[i] = next /\ g[i - 1] = f[n] /\ i # 0
        BY <1>1, <3>1
      <4> QED
        BY <3>1, <4>1
    <3>2. CASE i # n + 1
      <4>1. i \in 0..n /\ g[i] = f[i] /\ (i # 0 => g[i - 1] = f[i - 1])
        BY <1>1, <3>2
      <4> HIDE DEF g
      <4> QED
        BY <2>2, <4>1
    <3> QED
      BY <3>1, <3>2
  <2>4. Loop(s, S, n + 1, g)
    <3>1. g = [i \in 0..(n + 1) |-> g[i]]
      OBVIOUS
    <3> HIDE DEF g
    <3> QED
      BY <2>3, <3>1 DEF Loop
  <2> QED
    BY <1>1, <2>4
<1> HIDE DEF T
<1>4. 0..Len(s) \subseteq T
  BY <1>1, <1>2, <1>3, UpTo
<1> QED
  BY <1>1, <1>4 DEF T

Keeps(s, S, h) ==
  /\ Kept(s, S) = h[Len(s)] /\ h[0] = <<>>
  /\ \A i \in 1..Len(s) : s[i] \in S => h[i] = Append(h[i - 1], s[i])
  /\ \A i \in 1..Len(s) : s[i] \notin S => h[i] = h[i - 1]

(* So the recursive definition in Kept satisfies its equations.            *)
LEMMA KeptByLoop ==
  ASSUME NEW A, NEW s \in Seq(A), NEW S
  PROVE  \E h : Keeps(s, S, h)
<1>1. PICK g : g = [i \in 0..Len(s) |-> IF i = 0 THEN <<>>
                                        ELSE IF s[i] \in S THEN Append(g[i - 1], s[i])
                                        ELSE g[i - 1]]
  BY LoopExists DEF Loop
<1>2. PICK h :
        /\ Kept(s, S) = h[Len(s)]
        /\ h = [i \in 0..Len(s) |-> IF i = 0 THEN <<>>
                                           ELSE IF s[i] \in S THEN Append(h[i - 1], s[i])
                                           ELSE h[i - 1]]
  BY <1>1, Zenon DEF Kept
<1>3. Len(s) \in Nat /\ \A i \in 1..Len(s) : s[i] \in A
  OBVIOUS
<1>4. \A i \in 0..Len(s) : h[i] = IF i = 0 THEN <<>>
                                  ELSE IF s[i] \in S THEN Append(h[i - 1], s[i])
                                  ELSE h[i - 1]
  BY <1>2, Zenon
<1>5. h[0] = <<>>
  BY <1>3, <1>4
<1>6. ASSUME NEW i \in 1..Len(s)
      PROVE  /\ i \in 0..Len(s) /\ i # 0
             /\ s[i] \in S => h[i] = Append(h[i - 1], s[i])
             /\ s[i] \notin S => h[i] = h[i - 1]
  <2>1. i \in 0..Len(s) /\ i # 0
    BY <1>3
  <2> QED
    BY <1>4, <2>1, Zenon
<1>7. Keeps(s, S, h)
  BY <1>2, <1>5, <1>6, Zenon DEF Keeps
<1> QED
  BY <1>7

(* An induction over the loop: what holds of the part already kept.        *)
LEMMA KeptInduction ==
  ASSUME NEW A, NEW s \in Seq(A), NEW S, NEW Good,
         <<0, <<>>>> \in Good,
         \A n \in 0..(Len(s) - 1) : \A b :
           <<n, b>> \in Good =>
             /\ s[n + 1] \in S => <<n + 1, Append(b, s[n + 1])>> \in Good
             /\ s[n + 1] \notin S => <<n + 1, b>> \in Good
  PROVE  <<Len(s), Kept(s, S)>> \in Good
<1>1. PICK h : Keeps(s, S, h)
  BY KeptByLoop
<1>2. Len(s) \in Nat /\ Len(s) \in 0..Len(s)
  OBVIOUS
<1> DEFINE T == {n \in 0..Len(s) : <<n, h[n]>> \in Good}
<1>3. 0 \in T
  <2>1. h[0] = <<>> /\ 0 \in 0..Len(s)
    BY <1>1, <1>2 DEF Keeps
  <2> QED
    BY <2>1, Zenon
<1>4. ASSUME NEW n \in 0..(Len(s) - 1), n \in T PROVE n + 1 \in T
  <2>1. n + 1 \in 1..Len(s) /\ n + 1 \in 0..Len(s) /\ (n + 1) - 1 = n
    BY <1>2
  <2>2. /\ s[n + 1] \in S => h[n + 1] = Append(h[n], s[n + 1])
        /\ s[n + 1] \notin S => h[n + 1] = h[n]
    BY <1>1, <2>1, Zenon DEF Keeps
  <2>3. <<n, h[n]>> \in Good
    BY <1>4
  <2>4. <<n + 1, h[n + 1]>> \in Good
    BY <2>2, <2>3, Zenon
  <2> QED
    BY <2>1, <2>4, Zenon
<1>5. 0..Len(s) \subseteq T
  <2> HIDE DEF T
  <2> QED
    BY <1>2, <1>3, <1>4, UpTo
<1>6. <<Len(s), h[Len(s)]>> \in Good
  BY <1>2, <1>5
<1> QED
  BY <1>1, <1>6, Zenon DEF Keeps

(* What remains of a sequence: the members of the set, each as often.      *)
LEMMA KeptMembers ==
  ASSUME NEW A, NEW s \in Seq(A), NEW S, IsInjective(s)
  PROVE  /\ Kept(s, S) \in Seq(A) /\ IsInjective(Kept(s, S))
         /\ ToSet(Kept(s, S)) = ToSet(s) \cap S
<1>1. /\ Len(s) \in Nat /\ \A i \in 1..Len(s) : s[i] \in A
      /\ \A i, j \in 1..Len(s) : s[i] = s[j] => i = j
      /\ DOMAIN s = 1..Len(s)
  BY DEF IsInjective
<1> DEFINE Good == {p \in (0..Len(s)) \X Seq(A) :
                      /\ IsInjective(p[2])
                      /\ ToSet(p[2]) = {s[k] : k \in 1..p[1]} \cap S}
<1>2. <<0, <<>>>> \in Good
  <2>1. <<>> \in Seq(A) /\ IsInjective(<<>>) /\ ToSet(<<>>) = {}
    BY EmptySeq DEF IsInjective, ToSet
  <2>2. 0 \in 0..Len(s) /\ {s[k] : k \in 1..0} = {}
    BY <1>1
  <2> QED
    BY <2>1, <2>2
<1>3. ASSUME NEW n \in 0..(Len(s) - 1), NEW b, <<n, b>> \in Good
      PROVE  /\ s[n + 1] \in S => <<n + 1, Append(b, s[n + 1])>> \in Good
             /\ s[n + 1] \notin S => <<n + 1, b>> \in Good
  <2>1. /\ b \in Seq(A) /\ IsInjective(b) /\ ToSet(b) = {s[k] : k \in 1..n} \cap S
        /\ n + 1 \in 1..Len(s) /\ n + 1 \in 0..Len(s) /\ n \in Nat /\ s[n + 1] \in A
    BY <1>1, <1>3
  <2>2. {s[k] : k \in 1..(n + 1)} = {s[k] : k \in 1..n} \union {s[n + 1]}
    BY <2>1
  <2>3. CASE s[n + 1] \in S
    <3> DEFINE e == s[n + 1]
    <3>1. e \notin ToSet(b)
      BY <1>1, <2>1
    <3>2. e \in A
      BY <2>1
    <3> HIDE DEF e
    <3>3. /\ Append(b, e) \in Seq(A) /\ IsInjective(Append(b, e))
          /\ ToSet(Append(b, e)) = ToSet(b) \union {e}
      <4> DEFINE c == Append(b, e)
      <4>1. /\ c \in Seq(A) /\ Len(c) = Len(b) + 1 /\ c[Len(b) + 1] = e
            /\ \A i \in 1..Len(b) : c[i] = b[i]
        <5>1. b \in Seq(A) /\ e \in A
          BY <2>1, <3>2
        <5> QED
          BY <5>1, AppendProperties
      <4>2. Len(b) \in Nat /\ DOMAIN b = 1..Len(b)
        BY <2>1
      <4> HIDE DEF c
      <4>3. DOMAIN c = 1..Len(c)
        BY <4>1
      <4>4. \A i \in DOMAIN c : i = Len(b) + 1 \/ (i \in DOMAIN b /\ c[i] = b[i])
        BY <4>1, <4>2, <4>3
      <4>5. IsInjective(c)
        BY <2>1, <3>1, <4>1, <4>4 DEF IsInjective, ToSet
      <4>6. ToSet(c) = ToSet(b) \union {e}
        <5>1. DOMAIN b \subseteq DOMAIN c /\ Len(b) + 1 \in DOMAIN c
          BY <4>1, <4>2, <4>3
        <5> QED
          BY <4>1, <4>2, <4>4, <5>1 DEF ToSet
      <4> QED
        BY <4>1, <4>5, <4>6 DEF c
    <3>4. <<n + 1, Append(b, e)>> \in Good
      BY <2>1, <2>2, <2>3, <3>3 DEF e
    <3> QED
      BY <2>3, <3>4 DEF e
  <2>4. CASE s[n + 1] \notin S
    BY <2>1, <2>2, <2>4
  <2> QED
    BY <2>3, <2>4
<1>4. <<Len(s), Kept(s, S)>> \in Good
  <2> HIDE DEF Good
  <2> QED
    BY <1>2, <1>3, KeptInduction
<1>5. ToSet(s) = {s[k] : k \in 1..Len(s)}
  BY <1>1 DEF ToSet
<1> QED
  BY <1>4, <1>5

(* b is the rest of the first n of s without the first k.                  *)
RestOfFirst(s, k, n, b) ==
  /\ n \in 0..Len(s) /\ b \in Seq(Nat) /\ Len(b) = IF n <= k THEN 0 ELSE n - k
  /\ \A i \in 1..Len(b) : b[i] = s[k + i]

(* When what is to be kept is a suffix, the suffix remains.                *)
LEMMA KeptSuffix ==
  ASSUME NEW s \in Seq(Nat), NEW S, NEW k \in 0..Len(s),
         \A i \in 1..k : s[i] \notin S, \A i \in (k + 1)..Len(s) : s[i] \in S
  PROVE  /\ Kept(s, S) \in Seq(Nat) /\ Len(Kept(s, S)) = Len(s) - k
         /\ \A i \in 1..(Len(s) - k) : Kept(s, S)[i] = s[k + i]
<1>1. Len(s) \in Nat /\ k \in Nat /\ k <= Len(s) /\ \A i \in 1..Len(s) : s[i] \in Nat
  OBVIOUS
<1> DEFINE Good == {p \in (0..Len(s)) \X Seq(Nat) : RestOfFirst(s, k, p[1], p[2])}
<1>0. \A n, b : <<n, b>> \in Good <=> RestOfFirst(s, k, n, b)
  BY DEF RestOfFirst
<1> HIDE DEF Good
<1>2. <<0, <<>>>> \in Good
  <2> DEFINE e == <<>>
  <2>1. e \in Seq(Nat) /\ Len(e) = 0
    BY EmptySeq
  <2> HIDE DEF e
  <2>2. 0 \in 0..Len(s) /\ 0 <= k
    BY <1>1
  <2>3. <<0, e>> \in Good
    <3>1. Len(e) = (IF 0 <= k THEN 0 ELSE 0 - k)
      BY <2>1, <2>2
    <3>2. \A i \in 1..Len(e) : e[i] = s[k + i]
      <4>1. 1..Len(e) = {}
        BY <2>1
      <4> QED
        BY <4>1, Zenon
    <3> QED
      BY <1>0, <2>1, <2>2, <3>1, <3>2 DEF RestOfFirst
  <2> QED
    BY <2>3 DEF e
<1>3. ASSUME NEW n \in 0..(Len(s) - 1), NEW b, <<n, b>> \in Good
      PROVE  /\ s[n + 1] \in S => <<n + 1, Append(b, s[n + 1])>> \in Good
             /\ s[n + 1] \notin S => <<n + 1, b>> \in Good
  <2>1. /\ b \in Seq(Nat) /\ Len(b) = IF n <= k THEN 0 ELSE n - k
        /\ \A i \in 1..Len(b) : b[i] = s[k + i]
        /\ n + 1 \in 1..Len(s) /\ n + 1 \in 0..Len(s) /\ n \in Nat /\ s[n + 1] \in Nat
    <3>1. RestOfFirst(s, k, n, b)
      BY <1>0, <1>3
    <3>2. n + 1 \in 1..Len(s) /\ n + 1 \in 0..Len(s) /\ n \in Nat
      BY <1>1
    <3>3. s[n + 1] \in Nat
      BY <1>1, <3>2
    <3> QED
      BY <3>1, <3>2, <3>3 DEF RestOfFirst
  <2>2. CASE s[n + 1] \in S
    <3> DEFINE e == s[n + 1]
    <3>1. n >= k /\ e \in Nat /\ Len(b) = n - k
      BY <1>1, <2>1, <2>2
    <3>2. /\ Append(b, e) \in Seq(Nat) /\ Len(Append(b, e)) = n - k + 1
          /\ Append(b, e)[n - k + 1] = e
          /\ \A i \in 1..(n - k) : Append(b, e)[i] = b[i]
      <4> HIDE DEF e
      <4>1. /\ Append(b, e) \in Seq(Nat) /\ Len(Append(b, e)) = Len(b) + 1
            /\ Append(b, e)[Len(b) + 1] = e
            /\ \A i \in 1..Len(b) : Append(b, e)[i] = b[i]
        <5>1. b \in Seq(Nat) /\ e \in Nat
          BY <2>1, <3>1
        <5> QED
          BY <5>1, AppendProperties
      <4> QED
        BY <3>1, <4>1
    <3>3. \A i \in 1..(n - k + 1) : Append(b, e)[i] = s[k + i]
      <4> TAKE i \in 1..(n - k + 1)
      <4>1. CASE i = n - k + 1
        <5>1. k + i = n + 1
          BY <1>1, <2>1, <4>1
        <5> QED
          BY <3>2, <4>1, <5>1
      <4>2. CASE i # n - k + 1
        <5>1. i \in 1..(n - k)
          BY <1>1, <2>1, <3>1, <4>2
        <5> QED
          BY <2>1, <3>1, <3>2, <5>1
      <4> QED
        BY <4>1, <4>2
    <3>4. n + 1 > k /\ (n + 1) - k = n - k + 1
      BY <1>1, <2>1, <3>1
    <3> DEFINE c == Append(b, e)
    <3>5. c \in Seq(Nat) /\ Len(c) = n - k + 1 /\ \A i \in 1..(n - k + 1) : c[i] = s[k + i]
      BY <3>2, <3>3
    <3> HIDE DEF e, c
    <3>6. Len(c) = IF n + 1 <= k THEN 0 ELSE (n + 1) - k
      BY <1>1, <2>1, <3>4, <3>5
    <3>7. \A i \in 1..Len(c) : c[i] = s[k + i]
      BY <3>5
    <3>8. <<n + 1, c>> \in Good
      BY <1>0, <2>1, <3>5, <3>6, <3>7 DEF RestOfFirst
    <3> QED
      BY <2>2, <3>8 DEF c, e
  <2>3. CASE s[n + 1] \notin S
    <3>1. n + 1 <= k
      BY <1>1, <2>1, <2>3
    <3>2. Len(b) = 0
      BY <1>1, <2>1, <3>1
    <3>3. <<n + 1, b>> \in Good
      BY <1>0, <2>1, <3>1, <3>2 DEF RestOfFirst
    <3> QED
      BY <2>3, <3>3
  <2> QED
    BY <2>2, <2>3
<1>4. <<Len(s), Kept(s, S)>> \in Good
  BY <1>2, <1>3, KeptInduction
<1> QED
  <2>1. /\ Kept(s, S) \in Seq(Nat)
        /\ Len(Kept(s, S)) = IF Len(s) <= k THEN 0 ELSE Len(s) - k
        /\ \A i \in 1..Len(Kept(s, S)) : Kept(s, S)[i] = s[k + i]
    BY <1>0, <1>4 DEF RestOfFirst
  <2> QED
    BY <1>1, <2>1

(* Times of attempts, none later than n and in order, and those after c.   *)
Times(s, n) ==
  /\ s \in Seq(Nat)
  /\ \A i \in 1..Len(s) : s[i] <= n
  /\ \A i, j \in 1..Len(s) : i < j => s[i] <= s[j]

Recent(s, c, n) == Kept(s, (c + 1)..n)

(* The first k times are the old ones; r is s without its first k times.   *)
Parted(s, c, k) ==
  /\ k \in 0..Len(s)
  /\ \A i \in 1..k : s[i] <= c
  /\ \A i \in (k + 1)..Len(s) : s[i] > c
Rest(r, s, k) ==
  /\ r \in Seq(Nat) /\ Len(r) = Len(s) - k
  /\ \A i \in 1..(Len(s) - k) : r[i] = s[k + i]

(* The recent times are a suffix.                                          *)
LEMMA RecentIsSuffix ==
  ASSUME NEW n \in Nat, NEW c \in Int, NEW s, Times(s, n)
  PROVE  \E k \in 0..Len(s) : Parted(s, c, k) /\ Rest(Recent(s, c, n), s, k)
<1>1. /\ s \in Seq(Nat) /\ Len(s) \in Nat /\ \A i \in 1..Len(s) : s[i] \in Nat /\ s[i] <= n
      /\ \A i, j \in 1..Len(s) : i < j => s[i] <= s[j]
  BY DEF Times
<1> DEFINE T == {k \in 0..Len(s) : \A i \in 1..k : s[i] <= c}
<1>2. \E k \in T : k = Len(s) \/ k + 1 \notin T
  <2>1. 0 \in T
    BY <1>1
  <2>2. CASE \A k \in 0..(Len(s) - 1) : k \in T => k + 1 \in T
    <3>1. 0..Len(s) \subseteq T
      <4> HIDE DEF T
      <4> QED
        BY <1>1, <2>1, <2>2, UpTo
    <3>2. Len(s) \in 0..Len(s)
      BY <1>1
    <3> QED
      BY <3>1, <3>2, Zenon
  <2>3. CASE ~(\A k \in 0..(Len(s) - 1) : k \in T => k + 1 \in T)
    BY <2>3, Zenon
  <2> QED
    BY <2>2, <2>3
<1>3. PICK k \in T : k = Len(s) \/ k + 1 \notin T
  BY <1>2
<1>4. k \in 0..Len(s) /\ \A i \in 1..k : s[i] <= c
  BY <1>3
<1>5. ASSUME NEW i \in (k + 1)..Len(s) PROVE s[i] > c
  <2>1. k + 1 \in 1..Len(s) /\ k + 1 \in 0..Len(s) /\ k + 1 \notin T /\ i \in 1..Len(s)
    BY <1>1, <1>3, <1>4
  <2>2. s[k + 1] > c
    <3>1. PICK j \in 1..(k + 1) : ~(s[j] <= c)
      BY <2>1
    <3>2. j = k + 1
      BY <1>4, <3>1
    <3>3. s[k + 1] \in Nat
      BY <1>1, <2>1
    <3> QED
      BY <3>1, <3>2, <3>3
  <2> QED
    BY <1>1, <1>4, <2>1, <2>2
<1> HIDE DEF T
<1>6. /\ \A i \in 1..k : s[i] \notin (c + 1)..n
      /\ \A i \in (k + 1)..Len(s) : s[i] \in (c + 1)..n
  <2>1. \A i \in 1..k : s[i] \notin (c + 1)..n
    BY <1>1, <1>4
  <2>2. ASSUME NEW i \in (k + 1)..Len(s) PROVE s[i] \in (c + 1)..n
    <3>1. s[i] > c
      BY <1>5
    <3>2. i \in 1..Len(s)
      BY <1>1, <1>4
    <3>3. s[i] \in Nat /\ s[i] <= n
      BY <1>1, <3>2
    <3> QED
      BY <3>1, <3>3
  <2> QED
    BY <2>1, <2>2
<1>7. /\ Recent(s, c, n) \in Seq(Nat) /\ Len(Recent(s, c, n)) = Len(s) - k
      /\ \A i \in 1..(Len(s) - k) : Recent(s, c, n)[i] = s[k + i]
  <2> DEFINE S == (c + 1)..n
  <2>1. /\ \A i \in 1..k : s[i] \notin S
        /\ \A i \in (k + 1)..Len(s) : s[i] \in S
    BY <1>6
  <2>2. s \in Seq(Nat) /\ k \in 0..Len(s)
    BY <1>1, <1>4
  <2>0. \A t \in Seq(Nat) : \A V : \A h \in 0..Len(t) :
           (\A i \in 1..h : t[i] \notin V) /\ (\A i \in (h + 1)..Len(t) : t[i] \in V)
           => /\ Kept(t, V) \in Seq(Nat) /\ Len(Kept(t, V)) = Len(t) - h
              /\ \A i \in 1..(Len(t) - h) : Kept(t, V)[i] = t[h + i]
    BY KeptSuffix
  <2> HIDE DEF S
  <2>3. /\ Kept(s, S) \in Seq(Nat) /\ Len(Kept(s, S)) = Len(s) - k
        /\ \A i \in 1..(Len(s) - k) : Kept(s, S)[i] = s[k + i]
    BY <2>1, <2>2, <2>0
  <2> QED
    BY <2>3 DEF Recent, S
<1> QED
  <2>1. Parted(s, c, k)
    BY <1>4, <1>5 DEF Parted
  <2>2. Rest(Recent(s, c, n), s, k)
    BY <1>7 DEF Rest
  <2>3. k \in 0..Len(s)
    BY <1>4
  <2> QED
    BY <2>1, <2>2, <2>3, Zenon

(* The recent times are times, and no more of them.                        *)
LEMMA RecentInOrder ==
  ASSUME NEW n \in Nat, NEW c \in Int, NEW s, Times(s, n)
  PROVE  Times(Recent(s, c, n), n) /\ Len(Recent(s, c, n)) <= Len(s)
<1> DEFINE r == Recent(s, c, n)
<1>1a. PICK k \in 0..Len(s) : Parted(s, c, k) /\ Rest(r, s, k)
  BY RecentIsSuffix
<1>1. /\ k \in 0..Len(s)
      /\ r \in Seq(Nat) /\ Len(r) = Len(s) - k
      /\ \A i \in 1..(Len(s) - k) : r[i] = s[k + i]
  BY <1>1a DEF Parted, Rest
<1> HIDE DEF r
<1>2. Len(s) \in Nat /\ Len(r) <= Len(s)
  BY <1>1 DEF Times
<1>3. \A i \in 1..Len(r) : r[i] = s[k + i] /\ k + i \in 1..Len(s)
  BY <1>1, <1>2
<1>4. \A i \in 1..Len(r) : r[i] <= n
  BY <1>3 DEF Times
<1>5. \A i, j \in 1..Len(r) : i < j => r[i] <= r[j]
  <2> TAKE i, j \in 1..Len(r)
  <2> HAVE i < j
  <2>1. k + i < k + j
    BY <1>1, <1>2
  <2> QED
    BY <1>3, <2>1 DEF Times
<1> QED
  BY <1>1, <1>2, <1>4, <1>5 DEF Times, r

(* What is recent later was recent before.                                 *)
LEMMA RecentLater ==
  ASSUME NEW n \in Nat, NEW m \in Nat, NEW c \in Int, NEW d \in Int, NEW s, Times(s, n),
         n <= m, c <= d
  PROVE  Recent(Recent(s, c, n), d, m) = Recent(s, d, m)
<1> DEFINE r == Recent(s, c, n)
           q == Recent(r, d, m)
           p == Recent(s, d, m)
<1>1. Times(r, m) /\ Times(s, m) /\ Len(s) \in Nat
  <2>1. Times(r, n)
    BY RecentInOrder
  <2> HIDE DEF r
  <2>2. \A t : Times(t, n) => Times(t, m)
    <3> TAKE t
    <3> HAVE Times(t, n)
    <3>1. \A i \in 1..Len(t) : t[i] \in Nat /\ t[i] <= n
      BY DEF Times
    <3>2. \A i \in 1..Len(t) : t[i] <= m
      BY <3>1
    <3> QED
      BY <3>2 DEF Times
  <2> QED
    BY <2>1, <2>2 DEF Times
<1>2a. PICK k \in 0..Len(s) : Parted(s, c, k) /\ Rest(r, s, k)
  BY RecentIsSuffix
<1>2. /\ k \in 0..Len(s)
      /\ \A i \in 1..k : s[i] <= c
      /\ r \in Seq(Nat) /\ Len(r) = Len(s) - k
      /\ \A i \in 1..(Len(s) - k) : r[i] = s[k + i]
  BY <1>2a DEF Parted, Rest
<1> HIDE DEF r
<1>3a. PICK l \in 0..Len(s) : Parted(s, d, l) /\ Rest(p, s, l)
  BY <1>1, RecentIsSuffix
<1>3. /\ l \in 0..Len(s)
      /\ \A i \in 1..l : s[i] <= d
      /\ \A i \in (l + 1)..Len(s) : s[i] > d
      /\ p \in Seq(Nat) /\ Len(p) = Len(s) - l
      /\ \A i \in 1..(Len(s) - l) : p[i] = s[l + i]
  BY <1>3a DEF Parted, Rest
<1>4a. PICK h \in 0..Len(r) : Parted(r, d, h) /\ Rest(q, r, h)
  BY <1>1, RecentIsSuffix
<1>4. /\ h \in 0..Len(r)
      /\ \A i \in 1..h : r[i] <= d
      /\ \A i \in (h + 1)..Len(r) : r[i] > d
      /\ q \in Seq(Nat) /\ Len(q) = Len(r) - h
      /\ \A i \in 1..(Len(r) - h) : q[i] = r[h + i]
  BY <1>4a DEF Parted, Rest
<1> HIDE DEF p, q
<1>5. \A i \in 1..Len(s) : s[i] \in Nat
  BY <1>1 DEF Times
<1>6. k <= l
  <2> SUFFICES ASSUME l < k PROVE FALSE
    BY <1>1
  <2>1. l + 1 \in (l + 1)..Len(s) /\ l + 1 \in 1..k /\ l + 1 \in 1..Len(s)
    BY <1>1
  <2>2. s[l + 1] > d /\ s[l + 1] <= c /\ s[l + 1] \in Nat
    BY <1>2, <1>3, <1>5, <2>1
  <2> QED
    BY <2>2
<1>7. k + h = l
  <2>1. CASE k + h < l
    <3>1. h + 1 \in (h + 1)..Len(r) /\ h + 1 \in 1..(Len(s) - k) /\ k + h + 1 \in 1..l
          /\ k + (h + 1) = k + h + 1
      BY <1>1, <1>2, <1>4, <2>1
    <3>2. r[h + 1] > d /\ r[h + 1] = s[k + h + 1] /\ s[k + h + 1] <= d
      BY <1>2, <1>3, <1>4, <3>1
    <3>3. s[k + h + 1] \in Nat
      BY <1>1, <1>5, <3>1
    <3> QED
      BY <3>2, <3>3
  <2>2. CASE k + h > l
    <3>1. h \in 1..h /\ h \in 1..(Len(s) - k) /\ k + h \in (l + 1)..Len(s)
      BY <1>1, <1>2, <1>4, <1>6, <2>2
    <3>2. r[h] <= d /\ r[h] = s[k + h] /\ s[k + h] > d
      BY <1>2, <1>3, <1>4, <3>1
    <3>3. s[k + h] \in Nat
      BY <1>1, <1>5, <3>1
    <3> QED
      BY <3>2, <3>3
  <2> QED
    BY <1>1, <1>4, <2>1, <2>2
<1>8. Len(q) = Len(p)
  <2>1. Len(q) = Len(r) - h /\ Len(r) = Len(s) - k /\ Len(p) = Len(s) - l
    BY <1>2, <1>3, <1>4
  <2>2. Len(s) \in Nat /\ k \in Nat /\ h \in Nat /\ l \in Nat
    BY <1>1, <1>2, <1>3, <1>4
  <2> QED
    BY <2>1, <2>2, <1>7
<1>9. \A i \in 1..Len(q) : q[i] = p[i]
  <2> TAKE i \in 1..Len(q)
  <2>1. i \in 1..(Len(r) - h) /\ h + i \in 1..(Len(s) - k) /\ i \in 1..(Len(s) - l)
        /\ k + (h + i) = l + i
    BY <1>1, <1>2, <1>3, <1>4, <1>7, <1>8
  <2>2. q[i] = r[h + i] /\ r[h + i] = s[k + (h + i)] /\ p[i] = s[l + i]
    BY <1>2, <1>3, <1>4, <2>1
  <2> QED
    BY <2>1, <2>2
<1> QED
  <2>1. q = p
    BY <1>3, <1>4, <1>8, <1>9, SeqEqual
  <2> QED
    BY <2>1 DEF p, q, r

(* When every time is old, none is recent.                                 *)
LEMMA NoneRecent ==
  ASSUME NEW n \in Nat, NEW c \in Int, NEW s, Times(s, n), \A i \in 1..Len(s) : s[i] <= c
  PROVE  Recent(s, c, n) = <<>>
<1>1. Len(s) \in Nat /\ \A i \in 1..Len(s) : s[i] \in Nat
  BY DEF Times
<1>2a. PICK k \in 0..Len(s) : Parted(s, c, k) /\ Rest(Recent(s, c, n), s, k)
  BY RecentIsSuffix
<1>2. /\ k \in 0..Len(s)
      /\ \A i \in (k + 1)..Len(s) : s[i] > c
      /\ Recent(s, c, n) \in Seq(Nat) /\ Len(Recent(s, c, n)) = Len(s) - k
  BY <1>2a DEF Parted, Rest
<1>3. k = Len(s)
  <2> SUFFICES ASSUME k < Len(s) PROVE FALSE
    BY <1>1
  <2>1. k + 1 \in (k + 1)..Len(s) /\ k + 1 \in 1..Len(s)
    BY <1>1
  <2> QED
    BY <1>1, <1>2, <2>1
<1> DEFINE r == Recent(s, c, n)
<1>4. r \in Seq(Nat) /\ Len(r) = 0
  BY <1>1, <1>2, <1>3
<1> HIDE DEF r
<1>5. r = <<>>
  BY <1>4
<1> QED
  BY <1>5 DEF r

(* One more attempt now.                                                   *)
LEMMA RecentAppend ==
  ASSUME NEW n \in Nat, NEW c \in Int, NEW s, Times(s, n), c < n
  PROVE  /\ Times(Append(s, n), n) /\ Len(Append(s, n)) = Len(s) + 1
         /\ Recent(Append(s, n), c, n) = Append(Recent(s, c, n), n)
<1> DEFINE a == Append(s, n)
           r == Recent(s, c, n)
           q == Recent(a, c, n)
           b == Append(r, n)
<1>1. /\ s \in Seq(Nat) /\ Len(s) \in Nat /\ \A i \in 1..Len(s) : s[i] \in Nat /\ s[i] <= n
      /\ \A i, j \in 1..Len(s) : i < j => s[i] <= s[j]
  BY DEF Times
<1>2. /\ a \in Seq(Nat) /\ Len(a) = Len(s) + 1 /\ a[Len(s) + 1] = n
      /\ \A i \in 1..Len(s) : a[i] = s[i]
  <2>1. s \in Seq(Nat)
    BY <1>1
  <2> QED
    BY <2>1, AppendProperties
<1>3a. PICK k \in 0..Len(s) : Parted(s, c, k) /\ Rest(r, s, k)
  BY RecentIsSuffix
<1>3. /\ k \in 0..Len(s)
      /\ \A i \in 1..k : s[i] <= c
      /\ \A i \in (k + 1)..Len(s) : s[i] > c
      /\ r \in Seq(Nat) /\ Len(r) = Len(s) - k
      /\ \A i \in 1..(Len(s) - k) : r[i] = s[k + i]
  BY <1>3a DEF Parted, Rest
<1>4. /\ b \in Seq(Nat) /\ Len(b) = Len(r) + 1 /\ b[Len(r) + 1] = n
      /\ \A i \in 1..Len(r) : b[i] = r[i]
  <2> HIDE DEF r
  <2>1. r \in Seq(Nat)
    BY <1>3
  <2> QED
    BY <2>1, AppendProperties
<1> HIDE DEF a
<1>5. Times(a, n)
  <2>0. \A i \in 1..Len(a) : i \in 1..Len(s) \/ i = Len(s) + 1
    BY <1>1, <1>2
  <2>1. \A i \in 1..Len(a) : a[i] <= n
    BY <1>1, <1>2, <2>0
  <2>2. \A i, j \in 1..Len(a) : i < j => a[i] <= a[j]
    <3> TAKE i, j \in 1..Len(a)
    <3> HAVE i < j
    <3>1. i \in 1..Len(s)
      BY <1>1, <1>2
    <3>2. CASE j = Len(s) + 1
      BY <1>1, <1>2, <3>1, <3>2
    <3>3. CASE j \in 1..Len(s)
      <4>1. s[i] <= s[j] /\ a[i] = s[i] /\ a[j] = s[j]
        BY <1>1, <1>2, <3>1, <3>3
      <4> QED
        BY <4>1
    <3> QED
      BY <2>0, <3>2, <3>3
  <2> QED
    BY <1>2, <2>1, <2>2 DEF Times
<1>6. /\ \A i \in 1..k : a[i] \notin (c + 1)..n
      /\ \A i \in (k + 1)..Len(a) : a[i] \in (c + 1)..n
  <2>1. ASSUME NEW i \in 1..k PROVE a[i] \notin (c + 1)..n
    <3>1. i \in 1..Len(s)
      BY <1>1
    <3> QED
      BY <1>1, <1>2, <1>3, <3>1
  <2>2. ASSUME NEW i \in (k + 1)..Len(a) PROVE a[i] \in (c + 1)..n
    <3>1. CASE i = Len(s) + 1
      BY <1>2, <3>1
    <3>2. CASE i # Len(s) + 1
      <4>1. i \in (k + 1)..Len(s) /\ i \in 1..Len(s)
        BY <1>1, <1>2, <3>2
      <4>2. a[i] = s[i] /\ s[i] \in Nat /\ s[i] <= n /\ s[i] > c
        BY <1>1, <1>2, <1>3, <4>1
      <4> QED
        BY <4>2
    <3> QED
      BY <3>1, <3>2
  <2> QED
    BY <2>1, <2>2
<1>7. /\ q \in Seq(Nat) /\ Len(q) = Len(a) - k
      /\ \A i \in 1..(Len(a) - k) : q[i] = a[k + i]
  <2> DEFINE S == (c + 1)..n
  <2>1. /\ \A i \in 1..k : a[i] \notin S
        /\ \A i \in (k + 1)..Len(a) : a[i] \in S
    BY <1>6
  <2>2. a \in Seq(Nat) /\ k \in 0..Len(a)
    BY <1>1, <1>2
  <2>3. \A t \in Seq(Nat) : \A V : \A h \in 0..Len(t) :
           (\A i \in 1..h : t[i] \notin V) /\ (\A i \in (h + 1)..Len(t) : t[i] \in V)
           => /\ Kept(t, V) \in Seq(Nat) /\ Len(Kept(t, V)) = Len(t) - h
              /\ \A i \in 1..(Len(t) - h) : Kept(t, V)[i] = t[h + i]
    BY KeptSuffix
  <2> HIDE DEF S
  <2>4. /\ Kept(a, S) \in Seq(Nat) /\ Len(Kept(a, S)) = Len(a) - k
        /\ \A i \in 1..(Len(a) - k) : Kept(a, S)[i] = a[k + i]
    BY <2>1, <2>2, <2>3
  <2> QED
    BY <2>4 DEF Recent, S
<1> HIDE DEF q, b, r
<1>8. Len(q) = Len(b)
  BY <1>1, <1>2, <1>3, <1>4, <1>7
<1>9. \A i \in 1..Len(q) : q[i] = b[i]
  <2> TAKE i \in 1..Len(q)
  <2>1. CASE i = Len(r) + 1
    <3>1. i \in 1..(Len(a) - k) /\ k + i = Len(s) + 1
      BY <1>1, <1>2, <1>3, <1>7, <2>1
    <3> QED
      BY <1>2, <1>4, <1>7, <2>1, <3>1
  <2>2. CASE i # Len(r) + 1
    <3>1. i \in 1..(Len(a) - k) /\ i \in 1..(Len(s) - k) /\ i \in 1..Len(r) /\ k + i \in 1..Len(s)
      <4>1. /\ Len(s) \in Nat /\ k \in Nat /\ k <= Len(s) /\ Len(a) = Len(s) + 1
            /\ Len(r) = Len(s) - k /\ Len(q) = Len(a) - k
        BY <1>1, <1>2, <1>3, <1>7
      <4> QED
        BY <4>1, <2>2
    <3>2. q[i] = a[k + i] /\ a[k + i] = s[k + i] /\ r[i] = s[k + i] /\ b[i] = r[i]
      BY <1>2, <1>3, <1>4, <1>7, <3>1
    <3> QED
      BY <3>2
  <2> QED
    BY <2>1, <2>2
<1>10. q = b
  BY <1>4, <1>7, <1>8, <1>9, SeqEqual
<1> QED
  BY <1>2, <1>5, <1>10 DEF a, b, q, r

(* Spread out: of more than limit attempts the first and the last are      *)
(* more than a window apart.                                               *)
Spread(s, limit, window) ==
  \A i \in 1..Len(s) : i > limit => s[i] >= s[i - limit] + window

(* One more attempt now keeps the attempts spread out, when fewer than limit*)
(* of them are recent: the attempt that is limit places earlier is old.    *)
LEMMA SpreadAppend ==
  ASSUME NEW n \in Nat, NEW c \in Int, NEW s, Times(s, n), c < n,
         NEW limit \in Nat \ {0}, Len(Recent(s, c, n)) < limit, Spread(s, limit, n - c)
  PROVE  Spread(Append(s, n), limit, n - c)
<1> DEFINE a == Append(s, n)
<1>1. /\ s \in Seq(Nat) /\ Len(s) \in Nat /\ \A i \in 1..Len(s) : s[i] \in Nat
  BY DEF Times
<1>2. /\ Len(a) = Len(s) + 1 /\ a[Len(s) + 1] = n /\ \A i \in 1..Len(s) : a[i] = s[i]
  <2>1. s \in Seq(Nat)
    BY <1>1
  <2> QED
    BY <2>1, AppendProperties
<1>3a. PICK k \in 0..Len(s) : Parted(s, c, k) /\ Rest(Recent(s, c, n), s, k)
  BY RecentIsSuffix
<1>3. /\ k \in 0..Len(s)
      /\ \A i \in 1..k : s[i] <= c
      /\ Len(Recent(s, c, n)) = Len(s) - k
  BY <1>3a DEF Parted, Rest
<1> HIDE DEF a
<1>4. ASSUME NEW i \in 1..Len(a), i > limit PROVE a[i] >= a[i - limit] + (n - c)
  <2>1. CASE i = Len(s) + 1
    <3>1. i - limit \in 1..k /\ i - limit \in 1..Len(s)
      BY <1>1, <1>3, <1>4, <2>1
    <3>2. a[i - limit] = s[i - limit] /\ s[i - limit] <= c /\ s[i - limit] \in Nat
      BY <1>1, <1>2, <1>3, <3>1
    <3>3. a[i] = n
      BY <1>2, <2>1
    <3> QED
      BY <3>2, <3>3
  <2>2. CASE i # Len(s) + 1
    <3>1. i \in 1..Len(s) /\ i - limit \in 1..Len(s)
      <4>1. Len(s) \in Nat /\ Len(a) = Len(s) + 1 /\ limit \in Nat
        BY <1>1, <1>2
      <4> QED
        BY <1>4, <2>2, <4>1
    <3> QED
      BY <1>2, <1>4, <3>1 DEF Spread
  <2> QED
    BY <2>1, <2>2
<1> QED
  BY <1>4 DEF Spread, a

(* The list s names the addresses of K, each once.                         *)
Index(s, K) == s \in Seq(Addresses) /\ ToSet(s) = K /\ IsInjective(s)

(* What was admitted per address: in order, none in the future, and spread *)
(* out.                                                                    *)
AttemptsInv ==
  /\ now \in NowAt..(NowAt + MaxTicks)
  /\ DOMAIN admitted = Addresses
  /\ \A ip \in Addresses :
       Times(admitted[ip], now) /\ Spread(admitted[ip], Limit, Window)

(* What the limiter remembers per address: in order, and never more than   *)
(* the limit.                                                              *)
EntriesInv == \A ip \in Known : Times(entries[ip], now) /\ Len(entries[ip]) <= Limit

(* Its two indexes: the known addresses, no more than fit, each once in    *)
(* the list.                                                               *)
IndexInv ==
  /\ IsFiniteSet(Known) /\ Cardinality(Known) <= MaxEntries /\ Known \subseteq Addresses
  /\ Index(order, Known)

LlIInv == AttemptsInv /\ EntriesInv /\ IndexInv /\ RemembersWindow

(* An index without some addresses is an index of the others.              *)
LEMMA IndexWithout ==
  ASSUME NEW s, NEW K, NEW D, Index(s, K)
  PROVE  Index(Kept(s, K \ D), K \ D)
<1>1. s \in Seq(Addresses) /\ IsInjective(s) /\ ToSet(s) = K
  BY DEF Index
<1> DEFINE S == K \ D
<1>2. \A A : \A t \in Seq(A) : \A V : IsInjective(t) =>
         /\ Kept(t, V) \in Seq(A) /\ IsInjective(Kept(t, V))
         /\ ToSet(Kept(t, V)) = ToSet(t) \cap V
  BY KeptMembers
<1> HIDE DEF S
<1>3. /\ Kept(s, S) \in Seq(Addresses) /\ IsInjective(Kept(s, S))
      /\ ToSet(Kept(s, S)) = ToSet(s) \cap S
  BY <1>1, <1>2, Zenon
<1>4. K \cap S = S
  BY DEF S
<1> QED
  BY <1>1, <1>3, <1>4 DEF Index, S

(* An address put in front of an index that lacks it.                      *)
LEMMA IndexFront ==
  ASSUME NEW s, NEW K, NEW ip \in Addresses, ip \notin K, Index(s, K)
  PROVE  Index(<<ip>> \o s, K \union {ip})
<1> DEFINE h == <<ip>>
           q == h \o s
<1>1. /\ s \in Seq(Addresses) /\ Len(s) \in Nat /\ DOMAIN s = 1..Len(s)
      /\ \A a, b \in 1..Len(s) : s[a] = s[b] => a = b
      /\ K = {s[i] : i \in 1..Len(s)}
  BY DEF Index, IsInjective, ToSet
<1>2. h \in Seq(Addresses) /\ Len(h) = 1 /\ h[1] = ip
  OBVIOUS
<1> HIDE DEF h
<1>3. /\ q \in Seq(Addresses) /\ Len(q) = 1 + Len(s)
      /\ \A i \in 1..(1 + Len(s)) : q[i] = IF i <= 1 THEN h[i] ELSE s[i - 1]
  <2>1. /\ h \o s \in Seq(Addresses) /\ Len(h \o s) = Len(h) + Len(s)
        /\ \A i \in 1..(Len(h) + Len(s)) : (h \o s)[i] = IF i <= Len(h) THEN h[i] ELSE s[i - Len(h)]
    <3>1. \A A : \A t \in Seq(A), u \in Seq(A) :
            /\ t \o u \in Seq(A) /\ Len(t \o u) = Len(t) + Len(u)
            /\ \A i \in 1..(Len(t) + Len(u)) :
                 (t \o u)[i] = IF i <= Len(t) THEN t[i] ELSE u[i - Len(t)]
      BY ConcatProperties
    <3>2. h \in Seq(Addresses) /\ s \in Seq(Addresses)
      BY <1>1, <1>2
    <3> QED
      BY <3>1, <3>2, Zenon
  <2> QED
    BY <1>2, <2>1
<1> HIDE DEF q
<1>4. q[1] = ip /\ \A i \in 1..Len(s) : q[i + 1] = s[i]
  BY <1>1, <1>2, <1>3
<1>5. DOMAIN q = 1..(1 + Len(s))
  BY <1>3
<1>6. \A i \in 1..(1 + Len(s)) : i = 1 \/ (i - 1 \in 1..Len(s) /\ q[i] = s[i - 1])
  <2> TAKE i \in 1..(1 + Len(s))
  <2>1. CASE i # 1
    <3>1. i - 1 \in 1..Len(s) /\ ~(i <= 1)
      BY <1>1, <2>1
    <3> QED
      BY <1>3, <3>1
  <2> QED
    BY <2>1
<1>7. ToSet(q) = K \union {ip}
  <2>1. \A i \in DOMAIN q : q[i] \in K \union {ip}
    BY <1>1, <1>4, <1>5, <1>6
  <2>2. ip \in ToSet(q)
    <3>1. 1 \in DOMAIN q
      BY <1>1, <1>5
    <3> QED
      BY <1>4, <3>1 DEF ToSet
  <2>3. ASSUME NEW x \in K PROVE x \in ToSet(q)
    <3>1. PICK i \in 1..Len(s) : x = s[i]
      BY <1>1
    <3>2. i + 1 \in DOMAIN q
      BY <1>1, <1>5
    <3> QED
      BY <1>4, <3>1, <3>2 DEF ToSet
  <2> QED
    BY <2>1, <2>2, <2>3 DEF ToSet
<1>8. IsInjective(q)
  <2> SUFFICES ASSUME NEW a \in DOMAIN q, NEW b \in DOMAIN q, q[a] = q[b] PROVE a = b
    BY DEF IsInjective
  <2>1. CASE a = 1 /\ b = 1
    BY <2>1
  <2>2. CASE a = 1 /\ b # 1
    BY <1>1, <1>4, <1>5, <1>6, <2>2
  <2>3. CASE a # 1 /\ b = 1
    BY <1>1, <1>4, <1>5, <1>6, <2>3
  <2>4. CASE a # 1 /\ b # 1
    <3>1. a - 1 \in 1..Len(s) /\ b - 1 \in 1..Len(s) /\ s[a - 1] = s[b - 1]
      BY <1>5, <1>6, <2>4
    <3>2. a - 1 = b - 1
      BY <1>1, <3>1
    <3> QED
      BY <1>1, <1>5, <3>2
  <2> QED
    BY <2>1, <2>2, <2>3, <2>4
<1> QED
  BY <1>3, <1>7, <1>8 DEF Index, q, h

(* The last of the list is known.                                          *)
LEMMA LastKnown ==
  ASSUME NEW s, NEW K, Index(s, K), K # {}
  PROVE  Last(s) \in K
<1>1. s \in Seq(Addresses) /\ Len(s) \in Nat /\ K = {s[i] : i \in 1..Len(s)}
  BY DEF Index, ToSet
<1>2. Len(s) \in 1..Len(s)
  BY <1>1
<1> QED
  BY <1>1, <1>2 DEF Last

(* Numbers of the clock.                                                   *)
LEMMA Clock ==
  ASSUME AttemptsInv
  PROVE  /\ now \in Nat /\ Limit \in Nat \ {0} /\ now - Window \in Int /\ now - Window < now
         /\ now - (now - Window) = Window /\ (now + 1) - Window \in Int
BY LimiterAssumption DEF AttemptsInv, NowAt, LimiterAssumption

(* Attempts in order stay so as time passes.                               *)
LEMMA TimesLater ==
  ASSUME NEW n \in Nat, NEW m \in Nat, n <= m, NEW s, Times(s, n)
  PROVE  Times(s, m)
<1>1. \A i \in 1..Len(s) : s[i] \in Nat /\ s[i] <= n
  BY DEF Times
<1>2. \A i \in 1..Len(s) : s[i] <= m
  BY <1>1
<1> QED
  BY <1>2 DEF Times

(* The empty list: in order, nothing recent, spread out.                   *)
LEMMA NoTimes ==
  ASSUME NEW n \in Nat, NEW c \in Int
  PROVE  Times(<<>>, n) /\ Recent(<<>>, c, n) = <<>> /\ \A l, w : Spread(<<>>, l, w)
<1>1. Times(<<>>, n)
  BY DEF Times
<1>2. Recent(<<>>, c, n) = <<>>
  BY <1>1, NoneRecent
<1>3. \A l, w : Spread(<<>>, l, w)
  BY DEF Spread
<1> QED
  BY <1>1, <1>2, <1>3

(* A new attempt that is admitted keeps the rate.                          *)
LEMMA Admitted ==
  ASSUME AttemptsInv, NEW s, Times(s, now), Spread(s, Limit, Window), Len(InWindow(s)) < Limit
  PROVE  /\ Times(Append(s, now), now) /\ Spread(Append(s, now), Limit, Window)
         /\ InWindow(Append(s, now)) = Append(InWindow(s), now)
<1> DEFINE c == now - Window
<1>1. now \in Nat /\ Limit \in Nat \ {0} /\ c \in Int /\ c < now /\ now - c = Window
  BY Clock
<1>2. \A t : InWindow(t) = Recent(t, c, now)
  BY DEF InWindow, Recent
<1> HIDE DEF c
<1>3. Times(Append(s, now), now) /\ Recent(Append(s, now), c, now) = Append(Recent(s, c, now), now)
  BY <1>1, RecentAppend
<1>4. Spread(s, Limit, now - c) /\ Len(Recent(s, c, now)) < Limit
  BY <1>1, <1>2
<1>5. Spread(Append(s, now), Limit, now - c)
  BY <1>1, <1>4, SpreadAppend
<1> QED
  BY <1>1, <1>2, <1>3, <1>5

(* At first no address is known and none was admitted.                     *)
LEMMA InitLlIInv == LlInit => LlIInv
<1> SUFFICES ASSUME LlInit PROVE LlIInv
  OBVIOUS
<1>1. now \in Nat /\ now \in NowAt..(NowAt + MaxTicks) /\ now - Window \in Int
  BY LimiterAssumption DEF LlInit, LimiterAssumption, NowAt
<1>2. Times(<<>>, now) /\ InWindow(<<>>) = <<>> /\ \A l, w : Spread(<<>>, l, w)
  BY <1>1, NoTimes DEF InWindow, Recent
<1>3. \A ip \in Addresses : admitted[ip] = <<>>
  BY DEF LlInit
<1>4. DOMAIN admitted = Addresses
  BY DEF LlInit
<1>5. Known = {}
  BY DEF LlInit, Known
<1>6. AttemptsInv
  BY <1>1, <1>2, <1>3, <1>4 DEF AttemptsInv
<1>7. IndexInv
  <2>1. Index(order, {})
    BY DEF LlInit, Index, ToSet, IsInjective
  <2>2. IsFiniteSet({}) /\ Cardinality({}) = 0
    BY FS_EmptySet
  <2>3. 0 <= MaxEntries
    BY LimiterAssumption DEF LimiterAssumption
  <2> QED
    BY <1>5, <2>1, <2>2, <2>3 DEF IndexInv
<1>8. RemembersWindow
  BY <1>2, <1>3, <1>5 DEF RemembersWindow
<1> QED
  BY <1>5, <1>6, <1>7, <1>8 DEF LlIInv, EntriesInv

(* A step that leaves the limiter alone keeps its invariant.               *)
LEMMA LimiterRests ==
  ASSUME LlIInv, UNCHANGED <<now, entries, order, admitted>>
  PROVE  LlIInv'
BY DEF LlIInv, AttemptsInv, EntriesInv, IndexInv, RemembersWindow, Known, InWindow, Index

(* Time passes: what leaves the window leaves both.                        *)
LEMMA TickLlIInv == ASSUME LlIInv, LlTick PROVE LlIInv'
<1> DEFINE c == now - Window
           n == now + 1
           d == n - Window
<1>1. /\ now \in Nat /\ n \in Nat /\ now <= n /\ c \in Int /\ d \in Int /\ c <= d
      /\ now' = n
  BY Clock DEF LlIInv, LlTick
<1>2. \A t : InWindow(t) = Recent(t, c, now) /\ InWindow(t)' = Recent(t, d, n)
  <2> TAKE t
  <2>1. InWindow(t) = Recent(t, c, now)
    BY DEF InWindow, Recent
  <2>2. InWindow(t)' = Kept(t, (now' - Window + 1)..now')
    BY DEF InWindow
  <2>3. Recent(t, d, n) = Kept(t, (n - Window + 1)..n)
    BY DEF Recent
  <2> QED
    BY <1>1, <2>1, <2>2, <2>3
<1> HIDE DEF c, n, d
<1>3. UNCHANGED <<entries, order, admitted>> /\ Known' = Known
  BY DEF LlTick, Known
<1>4. AttemptsInv'
  <2>1. now' \in NowAt..(NowAt + MaxTicks)
    BY Clock, LimiterAssumption DEF LlIInv, AttemptsInv, LlTick, NowAt, LimiterAssumption
  <2>2. \A ip \in Addresses : Times(admitted[ip], n)
    <3>1. \A ip \in Addresses : Times(admitted[ip], now)
      BY DEF LlIInv, AttemptsInv
    <3> QED
      BY <1>1, <3>1, TimesLater
  <2>3. NowAt' = NowAt
    BY DEF NowAt
  <2> QED
    BY <1>1, <1>3, <2>1, <2>2 DEF LlIInv, AttemptsInv
<1>5. EntriesInv'
  <2>1. \A ip \in Known : Times(entries[ip], now) /\ Len(entries[ip]) <= Limit
    BY DEF LlIInv, EntriesInv
  <2>2. \A ip \in Known : Times(entries[ip], n)
    BY <1>1, <2>1, TimesLater
  <2> QED
    BY <1>1, <1>3, <2>1, <2>2 DEF EntriesInv
<1>6. IndexInv'
  BY <1>3 DEF LlIInv, IndexInv, Index
<1>7. RemembersWindow'
  <2>1. ASSUME NEW ip \in Addresses
        PROVE  Recent(admitted[ip], d, n) = IF ip \in Known THEN Recent(entries[ip], d, n) ELSE <<>>
    <3>1. /\ Times(admitted[ip], now)
          /\ Recent(admitted[ip], c, now)
               = IF ip \in Known THEN Recent(entries[ip], c, now) ELSE <<>>
      BY <1>2 DEF LlIInv, AttemptsInv, RemembersWindow
    <3>2. Recent(Recent(admitted[ip], c, now), d, n) = Recent(admitted[ip], d, n)
      <4>1. Times(admitted[ip], now)
        BY <3>1
      <4> QED
        BY <1>1, <4>1, RecentLater
    <3>3. CASE ip \in Known
      <4>1. Times(entries[ip], now)
        BY <3>3 DEF LlIInv, EntriesInv
      <4>2. Recent(Recent(entries[ip], c, now), d, n) = Recent(entries[ip], d, n)
        BY <1>1, <4>1, RecentLater
      <4> QED
        BY <3>1, <3>2, <3>3, <4>2
    <3>4. CASE ip \notin Known
      <4>1. Recent(<<>>, d, n) = <<>>
        BY <1>1, NoTimes
      <4> QED
        BY <3>1, <3>2, <3>4, <4>1
    <3> QED
      BY <3>3, <3>4
  <2> QED
    BY <1>2, <1>3, <2>1 DEF RemembersWindow
<1> QED
  BY <1>4, <1>5, <1>6, <1>7 DEF LlIInv

(* Addresses D leave the limiter: they are forgotten, or nothing of theirs *)
(* is in the window.                                                       *)
LEMMA ForgetLlIInv ==
  ASSUME LlIInv, NEW D, now' = now,
         entries' = Without(D), order' = Kept(order, Known \ D),
         DOMAIN admitted' = Addresses,
         \A ip \in Addresses \ D : admitted'[ip] = admitted[ip],
         \A ip \in Addresses \cap D :
           \/ admitted'[ip] = <<>>
           \/ admitted'[ip] = admitted[ip] /\ InWindow(admitted[ip]) = <<>>
  PROVE  LlIInv'
<1>1. now \in Nat /\ now - Window \in Int
  BY Clock DEF LlIInv
<1>2. Times(<<>>, now) /\ InWindow(<<>>) = <<>> /\ \A l, w : Spread(<<>>, l, w)
  BY <1>1, NoTimes DEF InWindow, Recent
<1>3. Known' = Known \ D /\ \A ip \in Known \ D : entries'[ip] = entries[ip]
  BY DEF Known, Without
<1>4. \A t : InWindow(t)' = InWindow(t')
  BY DEF InWindow
<1>5. AttemptsInv'
  <2>1. \A ip \in Addresses : Times(admitted[ip], now) /\ Spread(admitted[ip], Limit, Window)
    BY DEF LlIInv, AttemptsInv
  <2>2. \A ip \in Addresses : Times(admitted'[ip], now) /\ Spread(admitted'[ip], Limit, Window)
    BY <1>2, <2>1
  <2> QED
    BY <2>2 DEF LlIInv, AttemptsInv, NowAt
<1>6. EntriesInv'
  BY <1>3 DEF LlIInv, EntriesInv
<1>7. IndexInv'
  <2>1. Index(Kept(order, Known \ D), Known \ D)
    BY IndexWithout DEF LlIInv, IndexInv
  <2>2. IsFiniteSet(Known) /\ Cardinality(Known) <= MaxEntries /\ Known \subseteq Addresses
    BY DEF LlIInv, IndexInv
  <2>3. IsFiniteSet(Known \ D) /\ Cardinality(Known \ D) <= Cardinality(Known)
    BY <2>2, FS_Subset
  <2>4. Cardinality(Known) \in Nat /\ Cardinality(Known \ D) \in Nat /\ MaxEntries \in Nat
    BY <2>2, <2>3, FS_CardinalityType, LimiterAssumption DEF LimiterAssumption
  <2>5. Cardinality(Known \ D) <= MaxEntries
    BY <2>2, <2>3, <2>4
  <2> QED
    BY <1>3, <2>1, <2>2, <2>3, <2>5 DEF IndexInv, Index
<1>8. RemembersWindow'
  <2>1. ASSUME NEW ip \in Addresses
        PROVE  InWindow(admitted'[ip])
                 = IF ip \in Known \ D THEN InWindow(entries[ip]) ELSE <<>>
    <3>1. InWindow(admitted[ip]) = IF ip \in Known THEN InWindow(entries[ip]) ELSE <<>>
      BY DEF LlIInv, RemembersWindow
    <3>2. CASE ip \in D
      BY <1>2, <3>2
    <3>3. CASE ip \notin D
      BY <3>1, <3>3
    <3> QED
      BY <3>2, <3>3
  <2> QED
    BY <1>3, <1>4, <2>1 DEF RemembersWindow
<1> QED
  BY <1>5, <1>6, <1>7, <1>8 DEF LlIInv

(* A login that succeeded forgets its address, admitted attempts and all.  *)
LEMMA ResetLlIInv == ASSUME LlIInv, NEW l \in Logins, Reset(l) PROVE LlIInv'
<1> DEFINE ip == login[l].ip
<1>1. /\ now' = now /\ entries' = Without({ip}) /\ order' = Kept(order, Known \ {ip})
      /\ admitted' = [admitted EXCEPT ![ip] = <<>>]
  BY DEF Reset
<1> HIDE DEF ip
<1>2. DOMAIN admitted = Addresses
  BY DEF LlIInv, AttemptsInv
<1>3. /\ DOMAIN admitted' = Addresses
      /\ \A a \in Addresses \ {ip} : admitted'[a] = admitted[a]
      /\ \A a \in Addresses \cap {ip} : admitted'[a] = <<>>
  BY <1>1, <1>2
<1> QED
  BY <1>1, <1>3, ForgetLlIInv

(* Nothing of a stale entry is in the window.                              *)
LEMMA CleanupLlIInv == ASSUME LlIInv, Cleanup PROVE LlIInv'
<1> DEFINE D == {ip \in Known : Stale(ip)}
<1>1. /\ now' = now /\ entries' = Without(D) /\ order' = Kept(order, Known \ D)
      /\ admitted' = admitted
  BY DEF Cleanup
<1>2. DOMAIN admitted = Addresses
  BY DEF LlIInv, AttemptsInv
<1>3. ASSUME NEW ip \in Addresses, ip \in D PROVE InWindow(admitted[ip]) = <<>>
  <2> DEFINE c == now - Window
             s == entries[ip]
  <2>1. now \in Nat /\ c \in Int /\ Window \in Nat /\ c = now - Window
    BY Clock, LimiterAssumption DEF LlIInv, LimiterAssumption
  <2>2. Times(s, now) /\ ip \in Known /\ (s = <<>> \/ s[Len(s)] < now - 2 * Window)
    BY <1>3 DEF LlIInv, EntriesInv, Stale, Last
  <2>3. InWindow(s) = Recent(s, c, now) /\ InWindow(admitted[ip]) = InWindow(s)
    BY <2>2 DEF InWindow, Recent, LlIInv, RemembersWindow
  <2> HIDE DEF c, s
  <2>4. ASSUME NEW i \in 1..Len(s) PROVE s[i] <= c
    <3>1. /\ Len(s) \in Nat /\ s[i] \in Nat /\ s[Len(s)] \in Nat
          /\ \A a, b \in 1..Len(s) : a < b => s[a] <= s[b]
      BY <2>2, <2>4 DEF Times
    <3>2. s[i] <= s[Len(s)] /\ s # <<>>
      BY <3>1
    <3>3. s[Len(s)] < now - 2 * Window
      BY <2>2, <3>2
    <3> QED
      BY <2>1, <3>1, <3>2, <3>3
  <2>5. Recent(s, c, now) = <<>>
    BY <2>1, <2>2, <2>4, NoneRecent
  <2> QED
    BY <2>3, <2>5
<1> HIDE DEF D
<1>4. /\ DOMAIN admitted' = Addresses
      /\ \A a \in Addresses \ D : admitted'[a] = admitted[a]
      /\ \A a \in Addresses \cap D :
           admitted'[a] = <<>> \/ (admitted'[a] = admitted[a] /\ InWindow(admitted[a]) = <<>>)
  BY <1>1, <1>2, <1>3
<1> QED
  BY <1>1, <1>4, ForgetLlIInv

(* An address moves to the front, with its times e, and others leave.      *)
LEMMA TouchLlIInv ==
  ASSUME LlIInv, NEW ip \in Addresses, NEW D, D \subseteq Known \ {ip}, NEW e,
         now' = now,
         Known' = (Known \ D) \union {ip}, Cardinality(Known') <= MaxEntries,
         \A a \in Known \ (D \union {ip}) : entries'[a] = entries[a],
         entries'[ip] = e, Times(e, now), Len(e) <= Limit,
         order' = <<ip>> \o Kept(order, Known \ (D \union {ip})),
         DOMAIN admitted' = Addresses,
         \A a \in Addresses \ (D \union {ip}) : admitted'[a] = admitted[a],
         \A a \in D : admitted'[a] = <<>>,
         Times(admitted'[ip], now), Spread(admitted'[ip], Limit, Window),
         InWindow(admitted'[ip]) = InWindow(e)
  PROVE  LlIInv'
<1>1. now \in Nat /\ now - Window \in Int
  BY Clock DEF LlIInv
<1>2. Times(<<>>, now) /\ InWindow(<<>>) = <<>> /\ \A l, w : Spread(<<>>, l, w)
  BY <1>1, NoTimes DEF InWindow, Recent
<1>3. \A t : InWindow(t)' = InWindow(t')
  BY DEF InWindow
<1>4. AttemptsInv'
  <2>1. \A a \in Addresses : Times(admitted[a], now) /\ Spread(admitted[a], Limit, Window)
    BY DEF LlIInv, AttemptsInv
  <2>2. ASSUME NEW a \in Addresses
        PROVE  Times(admitted'[a], now) /\ Spread(admitted'[a], Limit, Window)
    <3>1. CASE a = ip
      BY <3>1
    <3>2. CASE a \in D
      BY <1>2, <3>2
    <3>3. CASE a \notin D \union {ip}
      BY <2>1, <3>3
    <3> QED
      BY <3>1, <3>2, <3>3
  <2> QED
    BY <2>2 DEF LlIInv, AttemptsInv, NowAt
<1>5. EntriesInv'
  <2>1. ASSUME NEW a \in Known' PROVE Times(entries'[a], now) /\ Len(entries'[a]) <= Limit
    <3>1. CASE a = ip
      BY <3>1
    <3>2. CASE a # ip
      BY <2>1, <3>2 DEF LlIInv, EntriesInv
    <3> QED
      BY <3>1, <3>2
  <2> QED
    BY <2>1 DEF EntriesInv
<1>6. IndexInv'
  <2> DEFINE K == Known \ (D \union {ip})
  <2>1. Index(Kept(order, K), K)
    BY IndexWithout DEF LlIInv, IndexInv
  <2>2. Index(<<ip>> \o Kept(order, K), K \union {ip})
    <3>1. ip \notin K
      OBVIOUS
    <3> HIDE DEF K
    <3> QED
      BY <2>1, <3>1, IndexFront
  <2>3. K \union {ip} = Known'
    OBVIOUS
  <2>4. IsFiniteSet(Known') /\ Known' \subseteq Addresses
    <3>1. IsFiniteSet(Known) /\ Known \subseteq Addresses
      BY DEF LlIInv, IndexInv
    <3>2. IsFiniteSet(Known \ D)
      BY <3>1, FS_Subset
    <3> QED
      BY <3>1, <3>2, FS_AddElement
  <2> QED
    BY <2>2, <2>3, <2>4 DEF IndexInv, Index
<1>7. RemembersWindow'
  <2>1. ASSUME NEW a \in Addresses
        PROVE  InWindow(admitted'[a])
                 = IF a \in Known' THEN InWindow(entries'[a]) ELSE <<>>
    <3>1. InWindow(admitted[a]) = IF a \in Known THEN InWindow(entries[a]) ELSE <<>>
      BY DEF LlIInv, RemembersWindow
    <3>2. CASE a = ip
      BY <3>2
    <3>3. CASE a \in D
      BY <1>2, <3>3
    <3>4. CASE a \notin D \union {ip}
      BY <3>1, <3>4
    <3> QED
      BY <3>2, <3>3, <3>4
  <2> QED
    BY <1>3, <2>1 DEF RemembersWindow
<1> QED
  BY <1>4, <1>5, <1>6, <1>7 DEF LlIInv

(* What the window holds of one address.                                   *)
LEMMA WindowOf ==
  ASSUME LlIInv, NEW s, Times(s, now)
  PROVE  /\ Times(InWindow(s), now) /\ Len(InWindow(s)) <= Len(s)
         /\ InWindow(InWindow(s)) = InWindow(s)
<1> DEFINE c == now - Window
<1>1. now \in Nat /\ c \in Int
  BY Clock DEF LlIInv
<1>2. \A t : InWindow(t) = Recent(t, c, now)
  BY DEF InWindow, Recent
<1> HIDE DEF c
<1>3. Times(Recent(s, c, now), now) /\ Len(Recent(s, c, now)) <= Len(s)
  BY <1>1, RecentInOrder
<1>4. Recent(Recent(s, c, now), c, now) = Recent(s, c, now)
  BY <1>1, RecentLater
<1> QED
  BY <1>2, <1>3, <1>4

(* allow, for an address without an entry: RemembersWindow says that nothing*)
(* of it is in the window, so its list starts anew; at capacity the last of*)
(* the order leaves.                                                       *)
LEMMA AllowNewLlIInv ==
  ASSUME LlIInv, NEW l \in Logins, NEW ip \in Addresses, AllowNew(l, ip)
  PROVE  LlIInv'
<1> DEFINE D == IF Cardinality(Known) >= MaxEntries THEN {Last(order)} ELSE {}
<1>1. /\ ip \notin Known /\ now' = now
      /\ entries' = [a \in (Known \ D) \union {ip} |-> IF a = ip THEN <<now>> ELSE entries[a]]
      /\ order' = <<ip>> \o Kept(order, Known \ D)
      /\ admitted' = [a \in Addresses |-> IF a \in D THEN <<>> ELSE
                        IF a = ip THEN Append(admitted[a], now) ELSE admitted[a]]
  BY DEF AllowNew
<1>2. IsFiniteSet(Known) /\ Cardinality(Known) <= MaxEntries /\ Index(order, Known)
  BY DEF LlIInv, IndexInv
<1>3. MaxEntries \in Nat \ {0} /\ Cardinality(Known) \in Nat
  BY <1>2, FS_CardinalityType, LimiterAssumption DEF LimiterAssumption
<1>4. D \subseteq Known /\ Cardinality((Known \ D) \union {ip}) <= MaxEntries
  <2>1. CASE Cardinality(Known) >= MaxEntries
    <3>1. Known # {}
      BY <1>3, <2>1, FS_EmptySet
    <3>2. Last(order) \in Known
      BY <1>2, <3>1, LastKnown
    <3>3. /\ IsFiniteSet(Known \ {Last(order)})
          /\ Cardinality(Known \ {Last(order)}) = Cardinality(Known) - 1
      BY <1>2, <3>2, FS_RemoveElement
    <3>4. Cardinality((Known \ {Last(order)}) \union {ip}) = Cardinality(Known) - 1 + 1
      BY <1>1, <3>3, FS_AddElement
    <3>5. D = {Last(order)}
      BY <2>1
    <3> HIDE DEF D
    <3>6. Cardinality((Known \ D) \union {ip}) = Cardinality(Known) - 1 + 1
      BY <3>4, <3>5
    <3> QED
      BY <1>2, <1>3, <3>2, <3>5, <3>6
  <2>2. CASE ~(Cardinality(Known) >= MaxEntries)
    <3>1. Cardinality(Known \union {ip}) = Cardinality(Known) + 1
      BY <1>1, <1>2, FS_AddElement
    <3>2. D = {}
      BY <2>2
    <3>3. (Known \ D) \union {ip} = Known \union {ip}
      BY <3>2
    <3> HIDE DEF D
    <3> QED
      BY <1>3, <2>2, <3>1, <3>2, <3>3
  <2> QED
    BY <2>1, <2>2
<1> HIDE DEF D
<1>5. /\ Known' = (Known \ D) \union {ip} /\ D \subseteq Known \ {ip}
      /\ Known \ (D \union {ip}) = Known \ D
  BY <1>1, <1>4 DEF Known
<1>6. AttemptsInv /\ Times(admitted[ip], now) /\ Spread(admitted[ip], Limit, Window)
      /\ InWindow(admitted[ip]) = <<>>
  BY <1>1 DEF LlIInv, AttemptsInv, RemembersWindow
<1>7. now \in Nat /\ Limit \in Nat \ {0} /\ now - Window \in Int
  BY <1>6, Clock
<1>8. /\ Times(Append(admitted[ip], now), now)
      /\ Spread(Append(admitted[ip], now), Limit, Window)
      /\ InWindow(Append(admitted[ip], now)) = <<now>>
  <2>1. Len(InWindow(admitted[ip])) < Limit
    BY <1>6, <1>7
  <2>2. InWindow(Append(admitted[ip], now)) = Append(<<>>, now)
    BY <1>6, <2>1, Admitted
  <2>3. Append(<<>>, now) = <<now>>
    BY <1>7
  <2> QED
    BY <1>6, <2>1, <2>2, <2>3, Admitted
<1>9. Times(<<now>>, now) /\ Len(<<now>>) <= Limit /\ InWindow(<<now>>) = <<now>>
  <2>1. Times(<<now>>, now) /\ Len(<<now>>) <= Limit
    BY <1>7 DEF Times
  <2>2. InWindow(<<now>>) = <<now>>
    <3>1. InWindow(InWindow(Append(admitted[ip], now))) = InWindow(Append(admitted[ip], now))
      BY <1>8, WindowOf
    <3> QED
      BY <1>8, <3>1
  <2> QED
    BY <2>1, <2>2
<1> DEFINE e == <<now>>
           z == Append(admitted[ip], now)
<1>10. /\ entries'[ip] = e /\ \A a \in Known \ (D \union {ip}) : entries'[a] = entries[a]
       /\ DOMAIN admitted' = Addresses /\ admitted'[ip] = z
       /\ \A a \in Addresses \ (D \union {ip}) : admitted'[a] = admitted[a]
       /\ \A a \in D : admitted'[a] = <<>>
  <2>1. D \subseteq Addresses
    BY <1>4 DEF LlIInv, IndexInv
  <2>2. ip \notin D
    BY <1>1, <1>4
  <2> HIDE DEF e, z
  <2>3. /\ entries' = [a \in (Known \ D) \union {ip} |-> IF a = ip THEN e ELSE entries[a]]
        /\ admitted' = [a \in Addresses |-> IF a \in D THEN <<>> ELSE
                          IF a = ip THEN z ELSE admitted[a]]
    BY <1>1 DEF e, z
  <2> QED
    BY <2>1, <2>2, <2>3
<1>11. /\ Times(e, now) /\ Len(e) <= Limit /\ InWindow(e) = e
       /\ Times(z, now) /\ Spread(z, Limit, Window) /\ InWindow(z) = e
  BY <1>8, <1>9
<1> HIDE DEF e, z
<1> QED
  BY <1>1, <1>4, <1>5, <1>10, <1>11, TouchLlIInv

(* allow, for a known address: what it prunes is exactly what left the     *)
(* window, so the length it compares with the limit is the number of       *)
(* attempts admitted.                                                      *)
LEMMA AllowKnownLlIInv ==
  ASSUME LlIInv, NEW l \in Logins, NEW ip \in Addresses, AllowKnown(l, ip)
  PROVE  LlIInv'
<1> DEFINE recent == InWindow(entries[ip])
           room == Len(recent) < Limit
           e == IF room THEN Append(recent, now) ELSE recent
           z == IF room THEN Append(admitted[ip], now) ELSE admitted[ip]
<1>1. /\ ip \in Known /\ now' = now
      /\ order' = <<ip>> \o Kept(order, Known \ {ip})
      /\ entries' = [entries EXCEPT ![ip] = e]
      /\ admitted' = [admitted EXCEPT ![ip] = z]
  BY DEF AllowKnown
<1>2. /\ AttemptsInv /\ Times(admitted[ip], now) /\ Spread(admitted[ip], Limit, Window)
      /\ DOMAIN admitted = Addresses /\ InWindow(admitted[ip]) = recent
      /\ Times(entries[ip], now) /\ Len(entries[ip]) <= Limit
  BY <1>1 DEF LlIInv, AttemptsInv, EntriesInv, RemembersWindow
<1>3. now \in Nat /\ Limit \in Nat \ {0} /\ now - Window \in Int /\ now - Window < now
  BY <1>2, Clock
<1>4. Times(recent, now) /\ Len(recent) <= Len(entries[ip]) /\ InWindow(recent) = recent
  BY <1>2, WindowOf
<1>5. Len(recent) \in Nat /\ Len(entries[ip]) \in Nat /\ Len(recent) <= Limit
  <2>1. Len(recent) \in Nat /\ Len(entries[ip]) \in Nat
    <3> HIDE DEF recent
    <3> QED
      BY <1>2, <1>4 DEF Times
  <2> QED
    BY <1>2, <1>3, <1>4, <2>1
<1> HIDE DEF recent
<1>6. /\ Times(e, now) /\ Len(e) <= Limit /\ Times(z, now) /\ Spread(z, Limit, Window)
      /\ InWindow(z) = InWindow(e)
  <2>1. CASE room
    <3>1. /\ Times(Append(admitted[ip], now), now)
          /\ Spread(Append(admitted[ip], now), Limit, Window)
          /\ InWindow(Append(admitted[ip], now)) = Append(recent, now)
      BY <1>2, <2>1, Admitted
    <3>2. /\ Times(Append(recent, now), now) /\ Len(Append(recent, now)) = Len(recent) + 1
          /\ Recent(Append(recent, now), now - Window, now)
               = Append(Recent(recent, now - Window, now), now)
      BY <1>3, <1>4, RecentAppend
    <3>3. InWindow(Append(recent, now)) = Append(recent, now)
      BY <1>4, <3>2 DEF InWindow, Recent
    <3>4. e = Append(recent, now) /\ z = Append(admitted[ip], now)
      BY <2>1
    <3>5. Len(recent) + 1 <= Limit
      BY <1>3, <1>5, <2>1
    <3> HIDE DEF e, z
    <3> QED
      BY <3>1, <3>2, <3>3, <3>4, <3>5
  <2>2. CASE ~room
    <3>1. e = recent /\ z = admitted[ip]
      BY <2>2
    <3> HIDE DEF e, z
    <3> QED
      BY <1>2, <1>4, <1>5, <3>1
  <2> QED
    BY <2>1, <2>2
<1> HIDE DEF e, z, room
<1> DEFINE D == {}
<1>7. /\ Known' = (Known \ D) \union {ip} /\ Known' = Known
      /\ Cardinality(Known') <= MaxEntries
  <2>1. Known' = Known
    BY <1>1 DEF Known
  <2>2. Cardinality(Known) <= MaxEntries
    BY DEF LlIInv, IndexInv
  <2> QED
    BY <1>1, <2>1, <2>2
<1>8. /\ entries'[ip] = e /\ \A a \in Known \ (D \union {ip}) : entries'[a] = entries[a]
      /\ DOMAIN admitted' = Addresses /\ admitted'[ip] = z
      /\ \A a \in Addresses \ (D \union {ip}) : admitted'[a] = admitted[a]
      /\ \A a \in D : admitted'[a] = <<>>
  BY <1>1, <1>2 DEF Known
<1>9. order' = <<ip>> \o Kept(order, Known \ (D \union {ip}))
  <2>1. Known \ (D \union {ip}) = Known \ {ip}
    OBVIOUS
  <2> QED
    BY <1>1, <2>1
<1>10. D \subseteq Known \ {ip}
  OBVIOUS
<1> HIDE DEF D
<1> QED
  BY <1>1, <1>6, <1>7, <1>8, <1>9, <1>10, TouchLlIInv

(* Every step of the limiter, of a login and of the token store keeps it.  *)
LEMMA NextLlIInv == LlIInv /\ [LlNext]_llVars => LlIInv'
<1> SUFFICES ASSUME LlIInv, [LlNext]_llVars PROVE LlIInv'
  OBVIOUS
<1>1. CASE LlTick
  BY <1>1, TickLlIInv
<1>2. CASE Cleanup
  BY <1>2, CleanupLlIInv
<1>3. CASE CleanupExpired
  BY <1>3, LimiterRests DEF CleanupExpired
<1>4. ASSUME NEW l \in Logins, NEW ip \in Addresses, AllowNew(l, ip) PROVE LlIInv'
  BY <1>4, AllowNewLlIInv
<1>5. ASSUME NEW l \in Logins, NEW ip \in Addresses, AllowKnown(l, ip) PROVE LlIInv'
  BY <1>5, AllowKnownLlIInv
<1>6. ASSUME NEW l \in Logins, Reject(l) PROVE LlIInv'
  BY <1>6, LimiterRests DEF Reject
<1>7. ASSUME NEW l \in Logins, Reset(l) PROVE LlIInv'
  BY <1>7, ResetLlIInv
<1>8. ASSUME NEW l \in Logins, IssueToken(l) PROVE LlIInv'
  BY <1>8, LimiterRests DEF IssueToken
<1>9. ASSUME NEW t \in tokens, Authorize(t) PROVE LlIInv'
  BY <1>9, LimiterRests DEF Authorize
<1>10. CASE UNCHANGED llVars
  BY <1>10, LimiterRests DEF llVars
<1> QED
  BY <1>1, <1>2, <1>3, <1>4, <1>5, <1>6, <1>7, <1>8, <1>9, <1>10 DEF LlNext

(* What the limiter promises: its indexes agree, the rate is bounded, and it*)
(* remembers what it admitted in the window.                               *)
LEMMA LlIInvImplies == LlIInv => LlSafe
<1> SUFFICES ASSUME LlIInv PROVE LlSafe
  OBVIOUS
<1>1. LlTypeOK
  BY DEF LlIInv, AttemptsInv, EntriesInv, IndexInv, Index, LlTypeOK
<1>2. RateBound
  BY DEF LlIInv, AttemptsInv, Spread, RateBound
<1> QED
  BY <1>1, <1>2 DEF LlIInv, LlSafe

-------------------------------------------------------------------------------
(* The server: each part keeps its own invariant, and touches no other.    *)

IInv == LcIInv /\ HubIInv /\ RcIInv /\ LlIInv /\ UcIInv

(* Every part starts in its invariant.                                     *)
LEMMA InitIInv == Init => IInv
BY InitLcIInv, InitHubIInv, InitRcIInv, InitLlIInv, InitUcIInv DEF Init, IInv

(* A step of one part is a step of its next-state relation, and leaves the *)
(* variables of the others alone.                                          *)
LEMMA NextIInv == IInv /\ [Next]_vars => IInv'
<1> SUFFICES ASSUME IInv, [Next]_vars PROVE IInv'
  OBVIOUS
<1>1. [LcNext]_lcVars
  BY DEF Next, vars, HubPart, LifecyclePart, CachePart, LoginPart, FilePart, UpstreamPart
<1>2. [HubNext]_hubVars
  BY DEF Next, vars, HubPart, LifecyclePart, CachePart, LoginPart, FilePart, UpstreamPart
<1>3. [RcNext]_rcVars
  BY DEF Next, vars, HubPart, LifecyclePart, CachePart, LoginPart, FilePart, UpstreamPart
<1>4. [LlNext]_llVars
  BY DEF Next, vars, HubPart, LifecyclePart, CachePart, LoginPart, FilePart, UpstreamPart
<1>5. [UcNext]_ucVars
  BY DEF Next, vars, HubPart, LifecyclePart, CachePart, LoginPart, FilePart, UpstreamPart
<1> QED
  BY <1>1, <1>2, <1>3, <1>4, <1>5, NextLcIInv, NextHubIInv, NextRcIInv, NextLlIInv, NextUcIInv
     DEF IInv

(* The invariants of all parts hold in every reachable state.              *)
THEOREM ServerInvariance == Spec => []IInv
BY InitIInv, NextIInv, PTL DEF Spec

(* ServerSafe holds in every state of every behaviour: the hub, the        *)
(* life cycle, the caches, the limiter and the upstream client keep what   *)
(* they promise for any number of connections, callers, requests,          *)
(* attempts and redirects.                                                 *)
THEOREM ServerSafeHeld == Spec => []ServerSafe
<1>1. IInv => ServerSafe
  BY LcIInvImplies, HubIInvImplies, RcIInvImplies, LlIInvImplies, UcIInvImplies
     DEF IInv, ServerSafe
<1> QED
  BY <1>1, ServerInvariance, PTL

===============================================================================
