---------------------------- MODULE PlayerClient ----------------------------
(***************************************************************************)
(* The JSON IPC client of mpv (player/client.go): commands of several      *)
(* goroutines, one reader, and the shutdown any of them may start.  One    *)
(* action per critical section, channel operation or operation on the      *)
(* connection.  The session sends its commands through it (observe,        *)
(* loadfile, the controls, quit); their arguments are not modelled, a      *)
(* command has the number of its registration attempt.                     *)
(***************************************************************************)
EXTENDS Integers, Sequences, FiniteSets

CONSTANTS MaxCommands,  \* bound: calls of Command, in order of registration
          MaxPending    \* ClientOptions.MaxPending

ASSUME ClientAssumption == MaxCommands \in Nat /\ MaxPending \in Nat

Commands == 1..MaxCommands

VARIABLES
  call,       \* how far the calls of Command have come
  pending,    \* Client.pending
  reply,      \* commands whose response channel holds a result
  writer,     \* the command that holds writeMutex, 0 for none
  connection, \* "up"; "cut": mpv has closed its end; "closed" by the client
  peer,       \* commands mpv has received and not answered
  wire,       \* responses mpv has sent, by command
  reader,     \* the readLoop: reading, delivering, stopping, done
  carried,    \* the response the reader has taken from pending
  down,       \* shutdown: up, failing, failed, done closed, complete
  failing     \* the pending map shutdown has swapped out

pcVars == <<call, pending, reply, writer, connection, peer, wire, reader, carried, down, failing>>

PcInit ==
  /\ call = [c \in Commands |-> "idle"] 
  /\ pending = {} /\ reply = {} /\ writer = 0
  /\ connection = "up" /\ peer = {} /\ wire = <<>>
  /\ reader = "reading" /\ carried = <<>> /\ down = "up" /\ failing = {}

Returns(c) == call' = [call EXCEPT ![c] = "returned"]

---------------------------------------------------------------------------
(* shutdown: the first caller does it, any other one waits until it is done. *)

Shutdown ==
  IF down = "up"
  THEN down' = "failing" /\ failing' = pending /\ pending' = {}
  ELSE UNCHANGED <<down, failing, pending>>

(* The channel has room for one result: a second one would block shutdown. *)
FailOne(c) ==
  /\ down = "failing" /\ c \in failing /\ c \notin reply
  /\ reply' = reply \union {c}
  /\ failing' = failing \ {c}
  /\ UNCHANGED <<call, pending, writer, connection, peer, wire,
                 reader, carried, down>>

CloseDone ==
  /\ down = "failing" /\ failing = {}
  /\ down' = "done"
  /\ UNCHANGED <<call, pending, reply, writer, connection, peer, wire,
                 reader, carried, failing>>

CloseConnection ==
  /\ down = "done" /\ down' = "complete" /\ connection' = "closed"
  /\ UNCHANGED <<call, pending, reply, writer, peer, wire,
                 reader, carried, failing>>

(* Client.Close by another goroutine. *)
CloseClient ==
  /\ down = "up" /\ Shutdown
  /\ UNCHANGED <<call, reply, writer, connection, peer, wire,
                 reader, carried>>

---------------------------------------------------------------------------
(* Command                                                                 *)

Turn(c) == call[c] = "idle" /\ \A d \in 1..(c - 1) : call[d] # "idle"

RegisterPending(c) ==
  /\ Turn(c)
  /\ IF down # "up" THEN Returns(c) /\ UNCHANGED pending
     ELSE IF Cardinality(pending) >= MaxPending
     THEN Returns(c) /\ UNCHANGED pending
     ELSE /\ pending' = pending \union {c}
          /\ call' = [call EXCEPT ![c] = "registered"]
  /\ UNCHANGED <<reply, writer, connection, peer, wire, reader, carried, down, failing>>

LockWrite(c) ==
  /\ call[c] = "registered" /\ writer = 0
  /\ writer' = c /\ call' = [call EXCEPT ![c] = "writing"]
  /\ UNCHANGED <<pending, reply, connection, peer, wire, reader, carried, down, failing>>

(* A command written while mpv closes its end may be lost without an error. *)
WriteSucceeds(c) ==
  /\ call[c] = "writing" /\ connection # "closed"
  /\ call' = [call EXCEPT ![c] = "waiting"] /\ writer' = 0
  /\ peer' = IF connection = "up" THEN peer \union {c} ELSE peer
  /\ UNCHANGED <<pending, reply, connection, wire, reader, carried, down, failing>>

(* The connection is gone, or the deadline passes before mpv reads. *)
WriteFails(c) ==
  /\ call[c] = "writing"
  /\ writer' = 0 /\ call' = [call EXCEPT ![c] = "failing"]
  /\ Shutdown
  /\ UNCHANGED <<reply, connection, peer, wire, reader, carried>>

(* removePending after shutdown has returned. *)
WriteFailed(c) ==
  /\ call[c] = "failing" /\ down = "complete"
  /\ Returns(c)
  /\ pending' = pending \ {c}
  /\ UNCHANGED <<reply, writer, connection, peer, wire, reader, carried, down, failing>>

TakeReply(c) ==
  /\ call[c] = "waiting" /\ c \in reply
  /\ Returns(c) /\ reply' = reply \ {c}
  /\ UNCHANGED <<pending, writer, connection, peer, wire, reader, carried, down, failing>>

Expire(c) ==
  /\ call[c] = "waiting"
  /\ Returns(c) /\ pending' = pending \ {c}
  /\ UNCHANGED <<reply, writer, connection, peer, wire, reader, carried, down, failing>>

(* done is closed: a result in the channel still wins. *)
SeeDone(c) ==
  /\ call[c] = "waiting" /\ down \in {"done", "complete"}
  /\ Returns(c)
  /\ reply' = reply \ {c}
  /\ UNCHANGED <<pending, writer, connection, peer, wire, reader, carried, down, failing>>

---------------------------------------------------------------------------
(* mpv and the reader                                                      *)

PeerAnswers(c) ==
  /\ connection = "up" /\ c \in peer
  /\ peer' = peer \ {c}
  /\ wire' = Append(wire, c)
  /\ UNCHANGED <<call, pending, reply, writer, connection, reader, carried, down, failing>>

PeerCuts ==
  /\ connection = "up" /\ connection' = "cut"
  /\ UNCHANGED <<call, pending, reply, writer, peer, wire, reader, carried, down, failing>>

(* Wrong variant: the command stays registered after its response. *)
ReadKeeps ==
  /\ reader = "reading" /\ wire # <<>>
  /\ wire' = Tail(wire)
  /\ IF wire[1] \in pending THEN carried' = <<wire[1]>> /\ reader' = "delivering"
                               ELSE UNCHANGED <<carried, reader>>
  /\ UNCHANGED <<call, pending, reply, writer, connection, peer, down, failing>>

(* deliverResponse, up to the end of its critical section. *)
ReadResponse ==
  /\ reader = "reading" /\ wire # <<>>
  /\ wire' = Tail(wire)
  /\ IF wire[1] \in pending THEN carried' = <<wire[1]>> /\ reader' = "delivering"
                               ELSE UNCHANGED <<carried, reader>>
  /\ pending' = pending \ {wire[1]}
  /\ UNCHANGED <<call, reply, writer, connection, peer, down, failing>>

DeliverResponse ==
  /\ reader = "delivering" /\ carried[1] \notin reply
  /\ reply' = reply \union {carried[1]}
  /\ carried' = <<>> /\ reader' = "reading"
  /\ UNCHANGED <<call, pending, writer, connection, peer, wire, down, failing>>

(* The connection has ended, or mpv sent what cannot be decoded. *)
ReadFails ==
  /\ reader = "reading" /\ reader' = "stopping"
  /\ Shutdown
  /\ UNCHANGED <<call, reply, writer, connection, peer, wire, carried>>

ReadDone ==
  /\ reader = "stopping" /\ down = "complete" /\ reader' = "done"
  /\ UNCHANGED <<call, pending, reply, writer, connection, peer, wire,
                 carried, down, failing>>

(* What a goroutine does that can go on.  Deadlines and successful writes are not
   among it: nobody may depend on one once the connection is down. *)
PcProgress ==
  \/ CloseDone \/ CloseConnection \/ ReadResponse \/ DeliverResponse \/ ReadDone
  \/ connection # "up" /\ ReadFails
  \/ \E c \in Commands : \/ FailOne(c) \/ LockWrite(c) \/ WriteFailed(c)
                         \/ TakeReply(c) \/ SeeDone(c)
                         \/ connection # "up" /\ WriteFails(c)

PcNext ==
  \/ PcProgress \/ CloseClient \/ ReadFails \/ PeerCuts
  \/ \E c \in Commands : RegisterPending(c) \/ WriteSucceeds(c) \/ WriteFails(c) \/ Expire(c) \/ PeerAnswers(c)

PcFairness == WF_pcVars(PcProgress)

---------------------------------------------------------------------------
PcTypeOK ==
  /\ pending \subseteq Commands /\ Cardinality(pending) <= MaxPending
  /\ failing \subseteq Commands /\ (failing # {} => down = "failing")
  /\ writer = 0 \/ call[writer] = "writing"

(* At most one of the reader, shutdown and the map answers a command, and its
   channel then has room: neither ever blocks on a command that has left. *)
Answerers(c) ==
  (IF c \in pending THEN 1 ELSE 0) + (IF c \in failing THEN 1 ELSE 0)
  + (IF carried # <<>> /\ carried[1] = c THEN 1 ELSE 0) + (IF c \in reply THEN 1 ELSE 0)

OneAnswer == \A c \in Commands : Answerers(c) <= 1

(* A command that waits can still be answered: somebody owns its answer, or
   done is closed. *)
NoOrphan ==
  \A c \in Commands : call[c] \in {"registered", "writing", "waiting"} =>
    Answerers(c) = 1 \/ down \in {"done", "complete"}

(* Nothing is left behind in the map by commands that have returned. *)
NothingLeftPending == \A c \in pending : call[c] \in {"registered", "writing", "waiting"}

PcSafe == PcTypeOK /\ OneAnswer /\ NoOrphan /\ NothingLeftPending

(* Once the connection is down every command returns and the reader ends,
   without any deadline. *)
PcAnswered ==
  connection # "up" \/ down # "up" =>
    /\ reader = "done" /\ down = "complete"
    /\ \A c \in Commands : call[c] \in {"idle", "returned"}
=============================================================================
