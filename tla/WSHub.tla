------------------------------- MODULE WSHub -------------------------------
(***************************************************************************)
(* The WebSocket hub (server/hub.go) and the handler of a connection       *)
(* (websocketHandler in server/handlers.go): one handler and one write     *)
(* pump per client, goroutines that broadcast, and the shutdown that       *)
(* closes the hub.  One action per critical section or channel operation.  *)
(* A message is its position in the one order broadcastMu gives.           *)
(*                                                                         *)
(* Enqueuing to all clients is one step: broadcastMu and the read lock     *)
(* keep other broadcasts and registrations out, and queues of different    *)
(* clients do not affect one another.                                      *)
(***************************************************************************)
EXTENDS Integers, Sequences, SequencesExt

CONSTANTS MaxClients,      \* bound: connections, numbered by their arrival
          Broadcasters,
          QueueCapacity,   \* wsSendQueueCapacity
          MaxMessages      \* bound: messages ever broadcast

Clients == 1..MaxClients

ASSUME HubAssumption ==
  MaxClients \in Nat /\ MaxMessages \in Nat /\ QueueCapacity \in Nat \ {0}

VARIABLES clients,     \* WSHub.clients
          hubClosed,   \* WSHub.closed
          toStop,      \* clients Close has removed and not yet stopped
          done,        \* clients whose done channel is closed
          queue,       \* wsClient.send
          pump,        \* where each write pump stands
          writing,     \* the message a pump has taken: <<>> or one message
          handler,     \* where each websocketHandler stands
          overflowed,  \* per broadcaster, the clients it has to unregister
          sent,        \* messages broadcast so far
          since,       \* history: sent when the client was registered
          received     \* history: what reached the peer

hubVars == <<clients, hubClosed, toStop, done, queue, pump, writing, handler,
             overflowed, sent, since, received>>

HubInit ==
  /\ clients = {} /\ hubClosed = FALSE /\ toStop = {} /\ done = {} /\ sent = 0
  /\ queue = [c \in Clients |-> <<>>] /\ writing = [c \in Clients |-> <<>>]
  /\ pump = [c \in Clients |-> "none"] /\ handler = [c \in Clients |-> "idle"]
  /\ overflowed = [b \in Broadcasters |-> {}]
  /\ since = [c \in Clients |-> 0] /\ received = [c \in Clients |-> <<>>]

---------------------------------------------------------------------------
(* websocketHandler                                                        *)

Upgrade(c) ==
  /\ handler[c] = "idle" /\ \A d \in 1..(c - 1) : handler[d] # "idle"
  /\ handler' = [handler EXCEPT ![c] = "upgraded"]
  /\ UNCHANGED <<clients, hubClosed, toStop, done, queue, pump, writing,
                 overflowed, sent, since, received>>

(* Refused by a closed hub, the handler closes the connection itself. *)
Register(c) ==
  /\ handler[c] = "upgraded"
  /\ \/ /\ hubClosed
        /\ handler' = [handler EXCEPT ![c] = "gone"]
        /\ UNCHANGED <<clients, pump, since>>
     \/ /\ ~hubClosed
        /\ handler' = [handler EXCEPT ![c] = "reading"]
        /\ clients' = clients \union {c}
        /\ pump' = [pump EXCEPT ![c] = "check"]
        /\ since' = [since EXCEPT ![c] = sent]
  /\ UNCHANGED <<hubClosed, toStop, done, queue, writing, overflowed, sent, received>>

(* ReadMessage fails: the pump closed the connection, *)
ReadClosed(c) ==
  /\ handler[c] = "reading" /\ pump[c] = "gone"
  /\ handler' = [handler EXCEPT ![c] = "leaving"]
  /\ UNCHANGED <<clients, hubClosed, toStop, done, queue, pump, writing,
                 overflowed, sent, since, received>>

(* or the peer left, broke the protocol or let the read deadline pass. *)
PeerLeaves(c) ==
  /\ handler[c] = "reading"
  /\ handler' = [handler EXCEPT ![c] = "leaving"]
  /\ UNCHANGED <<clients, hubClosed, toStop, done, queue, pump, writing,
                 overflowed, sent, since, received>>

Unregister(c) == clients' = clients \ {c} /\ done' = done \union {c}

HandlerUnregisters(c) ==
  /\ handler[c] = "leaving"
  /\ Unregister(c)
  /\ handler' = [handler EXCEPT ![c] = "waiting"]
  /\ UNCHANGED <<hubClosed, toStop, queue, pump, writing, overflowed, sent, since, received>>

HandlerReturns(c) ==
  /\ handler[c] = "waiting" /\ pump[c] = "gone"
  /\ handler' = [handler EXCEPT ![c] = "gone"]
  /\ UNCHANGED <<clients, hubClosed, toStop, done, queue, pump, writing,
                 overflowed, sent, since, received>>

---------------------------------------------------------------------------
(* writePump                                                               *)

PumpTo(c, at) == pump' = [pump EXCEPT ![c] = at]

PumpCheck(c) ==
  /\ pump[c] = "check"
  /\ PumpTo(c, IF c \in done THEN "leaving" ELSE "select")
  /\ UNCHANGED <<clients, hubClosed, toStop, done, queue, writing, handler,
                 overflowed, sent, since, received>>

PumpDone(c) ==
  /\ pump[c] = "select" /\ c \in done
  /\ PumpTo(c, "leaving")
  /\ UNCHANGED <<clients, hubClosed, toStop, done, queue, writing, handler,
                 overflowed, sent, since, received>>

PumpTake(c) ==
  /\ pump[c] = "select" /\ queue[c] # <<>>
  /\ writing' = [writing EXCEPT ![c] = <<Head(queue[c])>>]
  /\ queue' = [queue EXCEPT ![c] = Tail(@)]
  /\ PumpTo(c, "writing")
  /\ UNCHANGED <<clients, hubClosed, toStop, done, handler, overflowed, sent, since, received>>

(* The write ends by its deadline, well or not. *)
PumpWrites(c) ==
  /\ pump[c] = "writing"
  /\ \/ PumpTo(c, "check") /\ received' = [received EXCEPT ![c] = @ \o writing[c]]
     \/ PumpTo(c, "leaving") /\ UNCHANGED received
  /\ writing' = [writing EXCEPT ![c] = <<>>]
  /\ UNCHANGED <<clients, hubClosed, toStop, done, queue, handler, overflowed, sent, since>>

PingFails(c) ==
  /\ pump[c] = "select"
  /\ PumpTo(c, "leaving")
  /\ UNCHANGED <<clients, hubClosed, toStop, done, queue, writing, handler,
                 overflowed, sent, since, received>>

(* The deferred function: Unregister, then conn.Close and close(writeDone).
   Nobody reads the queue any more, and the history of the client ends. *)
PumpUnregisters(c) ==
  /\ pump[c] = "leaving"
  /\ Unregister(c)
  /\ PumpTo(c, "closing")
  /\ UNCHANGED <<hubClosed, toStop, queue, writing, handler, overflowed, sent, since, received>>

PumpEnds(c) ==
  /\ pump[c] = "closing"
  /\ PumpTo(c, "gone")
  /\ queue' = [queue EXCEPT ![c] = <<>>]
  /\ since' = [since EXCEPT ![c] = 0] /\ received' = [received EXCEPT ![c] = <<>>]
  /\ UNCHANGED <<clients, hubClosed, toStop, done, writing, handler, overflowed, sent>>

---------------------------------------------------------------------------
(* Broadcast and Close                                                     *)

(* Wrong variant: a message for which there is no room is dropped. *)
BroadcastDrops(b) ==
  /\ overflowed[b] = {} /\ sent < MaxMessages
  /\ sent' = sent + 1
  /\ queue' = [c \in Clients |-> IF c \in clients /\ Len(queue[c]) < QueueCapacity
                                 THEN Append(queue[c], sent + 1) ELSE queue[c]]
  /\ UNCHANGED <<clients, hubClosed, toStop, done, pump, writing, handler,
                 overflowed, since, received>>

Broadcast(b) ==
  /\ overflowed[b] = {} /\ sent < MaxMessages
  /\ sent' = sent + 1
  /\ LET full == {c \in clients : Len(queue[c]) >= QueueCapacity}
     IN /\ queue' = [c \in Clients |-> IF c \in clients \ full
                                       THEN Append(queue[c], sent + 1) ELSE queue[c]]
        /\ overflowed' = [overflowed EXCEPT ![b] = full]
  /\ UNCHANGED <<clients, hubClosed, toStop, done, pump, writing, handler, since, received>>

DropOverflowed(b, c) ==
  /\ c \in overflowed[b]
  /\ Unregister(c)
  /\ overflowed' = [overflowed EXCEPT ![b] = @ \ {c}]
  /\ UNCHANGED <<hubClosed, toStop, queue, pump, writing, handler, sent, since, received>>

HubClose ==
  /\ ~hubClosed
  /\ hubClosed' = TRUE /\ clients' = {} /\ toStop' = clients
  /\ UNCHANGED <<done, queue, pump, writing, handler, overflowed, sent, since, received>>

(* Wrong variant: the clients are removed and never stopped. *)
HubForgets(c) ==
  /\ c \in toStop /\ toStop' = toStop \ {c}
  /\ UNCHANGED <<clients, hubClosed, done, queue, pump, writing, handler, overflowed,
                 sent, since, received>>

HubStops(c) ==
  /\ c \in toStop
  /\ toStop' = toStop \ {c} /\ done' = done \union {c}
  /\ UNCHANGED <<clients, hubClosed, queue, pump, writing, handler, overflowed,
                 sent, since, received>>

(* What goroutines do by themselves; the rest is up to peers and callers. *)
HubProgress ==
  \/ \E c \in Clients :
       \/ Register(c) \/ ReadClosed(c) \/ HandlerUnregisters(c) \/ HandlerReturns(c)
       \/ PumpCheck(c) \/ PumpDone(c) \/ PumpTake(c) \/ PumpWrites(c)
       \/ PumpUnregisters(c) \/ PumpEnds(c) \/ HubStops(c)
  \/ \E b \in Broadcasters, c \in Clients : DropOverflowed(b, c)

HubNext ==
  \/ HubProgress \/ HubClose
  \/ \E b \in Broadcasters : Broadcast(b)
  \/ \E c \in Clients : Upgrade(c) \/ PeerLeaves(c) \/ PingFails(c)

(* Some goroutine that can run does, and a write ends by its deadline. *)
HubFairness == WF_hubVars(HubProgress)

HubSpec == HubInit /\ [][HubNext]_hubVars /\ HubFairness

---------------------------------------------------------------------------
HubTypeOK ==
  /\ clients \subseteq Clients /\ done \subseteq Clients /\ toStop \subseteq Clients
  /\ hubClosed \in BOOLEAN /\ sent \in 0..MaxMessages
  /\ \A c \in Clients : Len(queue[c]) <= QueueCapacity /\ Len(writing[c]) <= 1
  /\ pump \in [Clients -> {"none", "check", "select", "writing", "leaving", "closing", "gone"}]
  /\ handler \in [Clients -> {"idle", "upgraded", "reading", "leaving", "waiting", "gone"}]

InFlight(c) == received[c] \o writing[c] \o queue[c]

(* Every client sees the one order of broadcastMu: no message twice, none
   out of order, none from before its registration. *)
OneOrder ==
  \A c \in Clients : \A i, j \in 1..Len(InFlight(c)) :
     /\ since[c] < InFlight(c)[i] /\ InFlight(c)[i] <= sent
     /\ i < j => InFlight(c)[i] < InFlight(c)[j]

(* A client that stays registered misses nothing: a gap means that its
   pump or a broadcaster is about to unregister it. *)
NoSilentGap ==
  \A c \in clients : \/ Len(InFlight(c)) = sent - since[c]
                     \/ pump[c] = "leaving"
                     \/ \E b \in Broadcasters : c \in overflowed[b]

(* A registered client has a pump that will unregister it, a closed hub has
   none, and a handler never ends before the pump that writes to its peer. *)
OwnedConnections ==
  /\ clients # {} => ~hubClosed
  /\ \A c \in clients : pump[c] \notin {"none", "closing", "gone"}
  /\ \A c \in Clients : handler[c] = "gone" => pump[c] \in {"none", "gone"}
  /\ \A c \in Clients : pump[c] \notin {"none", "gone"} =>
                          c \in clients \union toStop \union done

HubSafe == HubTypeOK /\ OneOrder /\ NoSilentGap /\ OwnedConnections

(* No connection that overflowed, was unregistered or met the shutdown is
   still open. *)
ConnectionsEnded ==
  \A c \in Clients :
    (/\ handler[c] # "idle"
     /\ hubClosed \/ c \in done \/ \E b \in Broadcasters : c \in overflowed[b])
       => handler[c] = "gone"
=============================================================================
