-------------------------- MODULE TuiRuntimeProofs --------------------------
(***************************************************************************)
(* Proofs about the terminal interface.  Each part has its inductive       *)
(* invariant, kept by its own steps and, as they touch none of its         *)
(* variables, by those of the others; SessionSafe follows from the six:    *)
(*   TaIInv  a verdict is out once the retry that found it has stopped,    *)
(*   PcIInv  the answer to a command has one owner,                        *)
(*   PsIInv  the end of a playback is recorded before the player is gone,  *)
(*   PbIInv  a failure that was reported is in one place,                  *)
(*   WsIInv  what was told of an operation is shown, or kept for its start,*)
(*   TsIInv  a stream has what it is due, and an operation its goroutine.  *)
(***************************************************************************)
EXTENDS TuiRuntime, FiniteSetTheorems, SequenceTheorems, WellFoundedInduction, TLAPS

---------------------------------------------------------------------------
(* Authentication. *)

(* Stages and answers of a retry. *)
Leading == {"loading", "building", "publishing"} \union Verdicts
Answers == {"ready", "badConfiguration", "noLogin"}
RetrierStages == {"idle", "asking", "joined", "told", "aborted"} \union Leading \union Answers

(* What a request has learnt where it stands: a verdict is out once its leader
   has stopped, and says authenticated only of a service that is published. *)
TaFits(r) ==
  /\ verdict[r] # "open" => retrier[r] \in {"told", "aborted"} \union Answers
  /\ retrier[r] \in {"joined", "told"} => joined[r] \in Retriers
  /\ retrier[r] \in {"told", "badConfiguration", "noLogin"} /\ r \notin lost =>
       joined[r] \in Retriers /\ verdict[joined[r]] # "open"
  /\ retrier[r] = "authenticated" \/ verdict[r] = "authenticated" => service

(* The types, what each request knows, and the property itself, which is kept as it is. *)
TaIInv ==
  /\ retrier \in [Retriers -> RetrierStages] /\ joined \in [Retriers -> Retriers \union {NoRetrier}]
  /\ verdict \in [Retriers -> {"open", "invalid", "unavailable", "canceled", "authenticated"}]
  /\ activeRetry \in Retriers \union {NoRetrier} /\ service \in BOOLEAN
  /\ \A r \in Retriers : TaFits(r)
  /\ TaSafe

(* Authentication starts in the invariant. *)
LEMMA TaInitIInv == TaInit => TaIInv
<1> SUFFICES ASSUME TaInit PROVE TaIInv
  OBVIOUS
<1>1. Attempting = {}
  BY DEF TaInit, Attempting, Verdicts
<1> QED
  BY <1>1 DEF TaInit, TaIInv, TaFits, TaSafe, OneAttempt, ToldTruthfully, RetrierStages, Leading, Answers, Verdicts

(* What a request at r does to the others. *)
LEMMA TaRequestStep ==
  ASSUME TaIInv, NEW r \in Retriers,
         \/ AskRetry(r) \/ JoinOrLead(r) \/ LoadConfiguration(r) \/ BuildCandidate(r) \/ PublishService(r)
  PROVE  TaIInv'
<1>0. /\ retrier[r] \notin Answers \union {"told", "aborted", "joined"} /\ verdict[r] = "open"
      /\ \A q \in Retriers \ {r} : retrier'[q] = retrier[q]
      /\ verdict' = verdict /\ lost' = lost /\ leaving' = leaving
      /\ service => service'
  BY DEF TaIInv, TaFits, AskRetry, JoinOrLead, LoadConfiguration, BuildCandidate, PublishService, RetrierTo,
         Answers, RetrierStages, Leading, Verdicts
<1>1. /\ retrier' \in [Retriers -> RetrierStages] /\ joined' \in [Retriers -> Retriers \union {NoRetrier}]
      /\ activeRetry' \in Retriers \union {NoRetrier} /\ service' \in BOOLEAN
      /\ \A q \in Retriers \ {r} : joined'[q] = joined[q]
  BY DEF TaIInv, AskRetry, JoinOrLead, LoadConfiguration, BuildCandidate, PublishService, RetrierTo,
         RetrierStages, Leading, Answers, Verdicts
<1>2. /\ retrier'[r] \in {"ready", "asking", "joined"} \union Leading
      /\ retrier'[r] = "ready" => service'
      /\ retrier'[r] = "authenticated" => service'
      /\ retrier'[r] = "joined" => joined'[r] \in Retriers
  BY DEF TaIInv, AskRetry, JoinOrLead, LoadConfiguration, BuildCandidate, PublishService, RetrierTo,
         RetrierStages, Leading, Answers, Verdicts
<1>3. \A q \in Retriers : TaFits(q)'
  BY <1>0, <1>1, <1>2 DEF TaIInv, TaFits, Answers, Leading, Verdicts
<1>4. OneAttempt'
  <2>1. CASE JoinOrLead(r) /\ activeRetry = NoRetrier
    <3>1. Attempting' = {r}
      BY <2>1, <1>0 DEF TaIInv, TaSafe, OneAttempt, Attempting, JoinOrLead, RetrierTo
    <3> QED
      BY <2>1, <3>1, RetriersAssumption DEF JoinOrLead, OneAttempt, Retriers, NoRetrier
  <2>2. CASE ~(JoinOrLead(r) /\ activeRetry = NoRetrier)
    <3>1. activeRetry' = activeRetry /\ (retrier[r] \in Leading <=> retrier'[r] \in Leading)
      BY <2>2 DEF TaIInv, AskRetry, JoinOrLead, LoadConfiguration, BuildCandidate, PublishService, RetrierTo, Leading, Verdicts
    <3>2. Attempting' = Attempting
      BY <3>1, <1>0 DEF Attempting, Leading
    <3> QED
      BY <3>1, <3>2 DEF TaIInv, TaSafe, OneAttempt
  <2> QED
    BY <2>1, <2>2
<1>5. \A q \in hadService' : q \in hadService \/ (q = r /\ retrier'[r] = "ready")
  BY DEF TaIInv, AskRetry, JoinOrLead, LoadConfiguration, BuildCandidate, PublishService, RetrierTo
<1>6. ToldTruthfully'
  BY <1>0, <1>1, <1>2, <1>5 DEF TaIInv, TaSafe, ToldTruthfully, Answers, Leading, Verdicts
<1> QED
  BY <1>0, <1>1, <1>3, <1>4, <1>6 DEF TaIInv, TaSafe

(* The leader of a retry gives up, fails, or publishes the service. *)
LEMMA TaEndStep ==
  ASSUME TaIInv, NEW r \in Retriers, EndAttempt(r)
  PROVE  TaIInv'
<1>0. retrier[r] \in Verdicts /\ activeRetry = r /\ verdict[r] = "open"
  BY RetriersAssumption DEF EndAttempt, TaIInv, TaSafe, OneAttempt, Attempting, TaFits, Verdicts, Answers, Retriers, NoRetrier
<1>1. /\ retrier' \in [Retriers -> RetrierStages] /\ joined' \in [Retriers -> Retriers \union {NoRetrier}]
      /\ verdict' \in [Retriers -> {"open", "invalid", "unavailable", "canceled", "authenticated"}]
      /\ retrier'[r] \in {"told", "aborted"} /\ joined'[r] = r /\ verdict'[r] # "open"
      /\ verdict'[r] = "authenticated" => retrier[r] = "authenticated"
  BY <1>0 DEF EndAttempt, TaIInv, RetrierStages, Verdicts
<1>2. /\ \A q \in Retriers \ {r} : retrier'[q] = retrier[q] /\ joined'[q] = joined[q] /\ verdict'[q] = verdict[q]
      /\ activeRetry' = NoRetrier /\ service' = service /\ lost' = lost /\ hadService' = hadService
  BY DEF EndAttempt, TaIInv
<1>3. \A q \in Retriers : TaFits(q)'
  BY <1>0, <1>1, <1>2 DEF TaIInv, TaFits, Answers, Verdicts
<1>4. Attempting' = {}
  BY <1>0, <1>1, <1>2 DEF TaIInv, TaSafe, OneAttempt, Attempting, Verdicts
<1>5. ToldTruthfully'
  <2>1. \A q \in Retriers \ {r} : TaFits(q)
    BY DEF TaIInv
  <2> QED
    BY <1>0, <1>1, <1>2, <2>1 DEF TaIInv, TaSafe, ToldTruthfully, TaFits, Answers, Verdicts
<1> QED
  BY <1>1, <1>2, <1>3, <1>4, <1>5 DEF TaIInv, TaSafe, OneAttempt

(* Who joined is told what the leader found. *)
LEMMA TaTellStep ==
  ASSUME TaIInv, NEW r \in Retriers, ShareVerdict(r) \/ AnswerRetry(r) \/ LeaveRetry(r)
  PROVE  TaIInv'
<1>1. /\ retrier' \in [Retriers -> RetrierStages] /\ joined' = joined /\ verdict' = verdict
      /\ \A q \in Retriers \ {r} : retrier'[q] = retrier[q]
      /\ activeRetry' = activeRetry /\ service' = service /\ hadService' = hadService
      /\ \A q \in Retriers : q \in lost' => q \in lost \/ (q = r /\ retrier'[r] = "told")
      /\ lost \subseteq lost'
  BY DEF TaIInv, ShareVerdict, AnswerRetry, LeaveRetry, RetrierTo, RetrierStages, Answers
<1>2. \/ retrier'[r] = retrier[r]
      \/ retrier[r] = "joined" /\ retrier'[r] = "told" /\ (r \in lost' \/ verdict[joined[r]] # "open")
      \/ retrier[r] = "told" /\ retrier'[r] \in Answers /\ (retrier'[r] = "ready" <=> service) /\ lost' = lost
  BY DEF TaIInv, ShareVerdict, AnswerRetry, LeaveRetry, RetrierTo, RetrierStages, Answers
<1>3. \A q \in Retriers : TaFits(q)'
  BY <1>1, <1>2 DEF TaIInv, TaFits, Answers
<1>4. Attempting' = Attempting
  BY <1>1, <1>2 DEF Attempting, Verdicts, Answers
<1>5. ToldTruthfully'
  BY <1>1, <1>2 DEF TaIInv, TaSafe, ToldTruthfully, TaFits, Answers
<1> QED
  BY <1>1, <1>3, <1>4, <1>5 DEF TaIInv, TaSafe, OneAttempt

(* Every step of authentication keeps the invariant. *)
LEMMA TaStep == TaIInv /\ TaNext => TaIInv'
BY TaRequestStep, TaEndStep, TaTellStep DEF TaNext, TaProgress

(* So does a step of another part. *)
LEMMA TaStutter == TaIInv /\ UNCHANGED taVars => TaIInv'
BY DEF TaIInv, TaFits, TaSafe, OneAttempt, Attempting, ToldTruthfully, taVars

(* The invariant contains what the runs check of authentication. *)
LEMMA TaInvariance == TaIInv => TaSafe
BY DEF TaIInv

---------------------------------------------------------------------------
(* The client of the player. *)

(* Where a command stands. *)
Underway == {"registered", "writing", "waiting"}
InHand(c) == carried # <<>> /\ carried[1] = c

(* What the variables of the client may be. *)
PcTypes ==
  /\ call \in [Commands -> {"idle", "failing", "returned"} \union Underway]
  /\ pending \subseteq Commands /\ reply \subseteq Commands /\ failing \subseteq Commands
  /\ IsFiniteSet(pending) /\ Cardinality(pending) <= MaxPending
  /\ writer \in Commands \union {0} /\ (writer = 0 \/ call[writer] = "writing")
  /\ wire \in Seq(Commands) /\ peer \subseteq Commands
  /\ carried \in {<<>>} \union {<<c>> : c \in Commands}
  /\ down \in {"up", "failing", "done", "complete"}

(* Who owns the answer to a command, and what the command does meanwhile. *)
PcFits(c) ==
  /\ c \in pending => c \notin failing /\ c \notin reply /\ ~InHand(c) /\ call[c] \in Underway
  /\ c \in failing => c \notin reply /\ ~InHand(c)
  /\ c \in reply => ~InHand(c)
  /\ call[c] = "idle" => c \notin failing /\ c \notin reply /\ ~InHand(c)
  /\ call[c] \in Underway => c \in pending \/ c \in failing \/ c \in reply \/ InHand(c) \/ down \in {"done", "complete"}

(* The whole, with what a client that is down has dropped. *)
PcIInv ==
  /\ PcTypes /\ \A c \in Commands : PcFits(c)
  /\ reader = "delivering" <=> carried # <<>>
  /\ down # "up" => pending = {}
  /\ down # "failing" => failing = {}

(* The client of the player starts in the invariant. *)
LEMMA PcInitIInv == PcInit => PcIInv
<1> SUFFICES ASSUME PcInit PROVE PcIInv
  OBVIOUS
<1>1. IsFiniteSet({}) /\ Cardinality({}) = 0
  BY FS_EmptySet
<1> QED
  BY <1>1, ClientAssumption DEF PcInit, PcIInv, PcTypes, PcFits, InHand, Underway

(* shutdown moves what is pending to what fails, once. *)
LEMMA ShutdownMoves ==
  ASSUME PcIInv, Shutdown
  PROVE  /\ pending' = {} /\ down' \in {"up", "failing", "done", "complete"} /\ down' # "up"
         /\ failing' = failing \union pending /\ (down' # "failing" => failing' = {})
         /\ (down \in {"done", "complete"} => down' = down)
BY DEF PcIInv, PcTypes, Shutdown

(* Commands register, *)
LEMMA RegisterStep ==
  ASSUME PcIInv, NEW c \in Commands, RegisterPending(c)
  PROVE  PcIInv'
<1>1. call[c] = "idle" /\ call' \in [Commands -> {"idle", "failing", "returned"} \union Underway]
      /\ \A d \in Commands \ {c} : call'[d] = call[d]
  BY DEF RegisterPending, Turn, Returns, PcIInv, PcTypes, Underway
<1>2. UNCHANGED <<reply, writer, connection, peer, wire, reader, carried, down, failing>>
  BY DEF RegisterPending
<1>3. CASE pending' = pending /\ call'[c] = "returned"
  BY <1>1, <1>2, <1>3 DEF PcIInv, PcTypes, PcFits, InHand, Underway
<1>4. CASE down = "up" /\ ~(Cardinality(pending) >= MaxPending) /\ pending' = pending \union {c} /\ call'[c] = "registered"
  <2>1. c \notin pending /\ Cardinality(pending) \in Nat
    BY <1>1, FS_CardinalityType DEF PcIInv, PcTypes, PcFits, Underway
  <2>2. IsFiniteSet(pending') /\ Cardinality(pending') = Cardinality(pending) + 1
    BY <1>4, <2>1, FS_AddElement DEF PcIInv, PcTypes
  <2>3. Cardinality(pending') <= MaxPending
    BY <1>4, <2>1, <2>2, ClientAssumption
  <2>4. writer \in Commands => call'[writer] = call[writer]
    BY <1>1 DEF PcIInv, PcTypes
  <2> QED
    BY <1>1, <1>2, <1>4, <2>1, <2>2, <2>3, <2>4 DEF PcIInv, PcTypes, PcFits, InHand, Underway
<1> QED
  BY <1>3, <1>4 DEF RegisterPending, Returns, PcIInv, PcTypes, Turn

(* write, and wait, *)
LEMMA WriteStep ==
  ASSUME PcIInv, NEW c \in Commands, LockWrite(c) \/ WriteSucceeds(c)
  PROVE  PcIInv'
<1>1. /\ call[c] \in Underway /\ call'[c] \in Underway /\ call' = [call EXCEPT ![c] = call'[c]]
      /\ (writer' = c /\ call'[c] = "writing") \/ writer' = 0
  BY DEF LockWrite, WriteSucceeds, Underway, PcIInv, PcTypes
<1>2. UNCHANGED <<pending, reply, wire, reader, carried, down, failing>> /\ peer' \subseteq Commands
  BY DEF LockWrite, WriteSucceeds, PcIInv, PcTypes
<1> QED
  BY <1>1, <1>2 DEF PcIInv, PcTypes, PcFits, InHand, Underway

(* A command less is pending. *)
LEMMA FinitePart ==
  ASSUME NEW S, IsFiniteSet(S), NEW T, T \subseteq S
  PROVE  IsFiniteSet(T) /\ Cardinality(T) <= Cardinality(S) /\ Cardinality(T) \in Nat /\ Cardinality(S) \in Nat
BY FS_Subset, FS_CardinalityType

(* and return, with an answer or without. *)
LEMMA CallReturnStep ==
  ASSUME PcIInv, NEW c \in Commands, WriteFailed(c) \/ TakeReply(c) \/ Expire(c) \/ SeeDone(c)
  PROVE  PcIInv'
<1>1. call' = [call EXCEPT ![c] = "returned"] /\ call[c] # "writing" /\ pending' \subseteq pending
      /\ c \notin pending' /\ (\A d \in Commands \ {c} : d \in pending' <=> d \in pending)
      /\ reply' \subseteq reply /\ (\A d \in Commands \ {c} : d \in reply' <=> d \in reply)
  BY DEF WriteFailed, TakeReply, Expire, SeeDone, Returns, PcIInv, PcFits, PcTypes, InHand
<1>2. UNCHANGED <<writer, connection, peer, wire, reader, carried, down, failing>>
  BY DEF WriteFailed, TakeReply, Expire, SeeDone
<1>3. IsFiniteSet(pending') /\ Cardinality(pending') <= MaxPending
  BY <1>1, FinitePart, ClientAssumption DEF PcIInv, PcTypes
<1> QED
  BY <1>1, <1>2, <1>3 DEF PcIInv, PcTypes, PcFits, InHand, Underway

(* A write that fails, a read that fails and Close shut the client down. *)
LEMMA DownStep ==
  ASSUME PcIInv, CloseClient \/ ReadFails \/ (\E c \in Commands : WriteFails(c))
  PROVE  PcIInv'
<1>1. Shutdown /\ UNCHANGED <<reply, connection, peer, wire, carried>>
  BY DEF CloseClient, ReadFails, WriteFails
<1>2. \/ call' = call /\ writer' = writer
      \/ writer' = 0 /\ \E c \in Commands : call[c] = "writing" /\ call' = [call EXCEPT ![c] = "failing"]
  BY DEF CloseClient, ReadFails, WriteFails
<1>3. reader' = reader \/ (reader = "reading" /\ reader' = "stopping")
  BY DEF CloseClient, ReadFails, WriteFails
<1>4. /\ pending' = {} /\ down' \in {"up", "failing", "done", "complete"} /\ down' # "up"
      /\ failing' = failing \union pending /\ (down' # "failing" => failing' = {})
      /\ (down \in {"done", "complete"} => down' = down)
  BY <1>1, ShutdownMoves
<1>5. IsFiniteSet({}) /\ Cardinality({}) = 0
  BY FS_EmptySet
<1>6. PcTypes'
  BY <1>1, <1>2, <1>4, <1>5, ClientAssumption DEF PcIInv, PcTypes, Underway
<1>7. \A c \in Commands : PcFits(c)'
  BY <1>1, <1>2, <1>4 DEF PcIInv, PcTypes, PcFits, InHand, Underway
<1> QED
  BY <1>1, <1>3, <1>4, <1>6, <1>7 DEF PcIInv

(* The rest of shutdown. *)
LEMMA FailingStep ==
  ASSUME PcIInv, CloseDone \/ CloseConnection \/ (\E c \in Commands : FailOne(c))
  PROVE  PcIInv'
<1>1. UNCHANGED <<call, pending, writer, peer, wire, reader, carried>>
  BY DEF CloseDone, CloseConnection, FailOne
<1>2. CASE CloseDone \/ CloseConnection
  BY <1>1, <1>2 DEF CloseDone, CloseConnection, PcIInv, PcTypes, PcFits, InHand
<1>3. CASE \E c \in Commands : FailOne(c)
  BY <1>1, <1>3 DEF FailOne, PcIInv, PcTypes, PcFits, InHand
<1> QED
  BY <1>2, <1>3

(* mpv answers, or cuts, and the reader hands the answers over. *)
LEMMA ReaderStep ==
  ASSUME PcIInv, PeerCuts \/ ReadResponse \/ DeliverResponse \/ ReadDone \/ (\E c \in Commands : PeerAnswers(c))
  PROVE  PcIInv'
<1>1. UNCHANGED <<call, writer, down, failing>>
  BY DEF PeerCuts, ReadResponse, DeliverResponse, ReadDone, PeerAnswers
<1>2. CASE PeerCuts \/ ReadDone \/ (\E c \in Commands : PeerAnswers(c))
  <2>1. wire' \in Seq(Commands) /\ peer' \subseteq Commands
    BY <1>2 DEF PeerCuts, ReadDone, PeerAnswers, PcIInv, PcTypes
  <2>2. UNCHANGED <<pending, reply, carried>> /\ (reader' = reader \/ (reader = "stopping" /\ reader' = "done"))
    BY <1>2 DEF PeerCuts, ReadDone, PeerAnswers
  <2> QED
    BY <1>1, <2>1, <2>2 DEF PcIInv, PcTypes, PcFits, InHand
<1>3. CASE ReadResponse
  <2> DEFINE c == wire[1]
  <2>1. c \in Commands /\ wire' \in Seq(Commands) /\ carried = <<>>
    BY <1>3 DEF ReadResponse, PcIInv, PcTypes
  <2>2. /\ pending' = pending \ {c} /\ reply' = reply /\ peer' = peer
        /\ \/ c \in pending /\ carried' = <<c>> /\ reader' = "delivering"
           \/ c \notin pending /\ carried' = carried /\ reader' = reader
    BY <1>3 DEF ReadResponse
  <2>3. IsFiniteSet(pending') /\ Cardinality(pending') <= MaxPending /\ pending' \subseteq pending
    BY <2>2, FinitePart, ClientAssumption DEF PcIInv, PcTypes
  <2> HIDE DEF c
  <2>4. \A d \in Commands : InHand(d)' <=> (d = c /\ c \in pending)
    BY <2>1, <2>2 DEF InHand
  <2>5. \A d \in Commands : PcFits(d) /\ ~InHand(d)
    BY <2>1 DEF PcIInv, InHand
  <2>6. ASSUME NEW d \in Commands PROVE PcFits(d)'
    <3>1. /\ PcFits(d) /\ ~InHand(d)
          /\ InHand(d)' <=> (d = c /\ c \in pending)
          /\ d \in pending' <=> d \in pending /\ d # c
          /\ call'[d] = call[d] /\ reply' = reply /\ failing' = failing /\ down' = down
      BY <1>1, <2>2, <2>4, <2>5
    <3> QED
      BY <3>1 DEF PcFits, Underway
  <2> QED
    BY <1>1, <2>1, <2>2, <2>3, <2>6 DEF PcIInv, PcTypes
<1>4. CASE DeliverResponse
  <2> DEFINE c == carried[1]
  <2>1. c \in Commands /\ InHand(c) /\ \A d \in Commands : InHand(d) => d = c
    BY <1>4 DEF DeliverResponse, PcIInv, PcTypes, InHand
  <2>2. UNCHANGED <<pending, wire, peer>> /\ reply' = reply \union {c} /\ carried' = <<>> /\ reader' = "reading"
    BY <1>4 DEF DeliverResponse
  <2> HIDE DEF c
  <2>3. \A d \in Commands : ~InHand(d)'
    BY <2>2 DEF InHand
  <2>4. \A d \in Commands : PcFits(d)'
    BY <1>1, <2>1, <2>2, <2>3 DEF PcIInv, PcTypes, PcFits
  <2> QED
    BY <1>1, <2>1, <2>2, <2>4 DEF PcIInv, PcTypes
<1> QED
  BY <1>2, <1>3, <1>4

(* Every step of the client keeps it. *)
LEMMA PcStep == PcIInv /\ PcNext => PcIInv'
BY RegisterStep, WriteStep, CallReturnStep, DownStep, FailingStep, ReaderStep DEF PcNext, PcProgress

(* So does a step of another part. *)
LEMMA PcStutter == PcIInv /\ UNCHANGED pcVars => PcIInv'
BY DEF PcIInv, PcTypes, PcFits, InHand, pcVars

(* The invariant implies what the runs check of the client. *)
LEMMA PcInvariance == PcIInv => PcSafe
<1> SUFFICES ASSUME PcIInv PROVE PcSafe
  OBVIOUS
<1>1. PcTypeOK /\ NothingLeftPending
  BY DEF PcIInv, PcTypes, PcFits, PcTypeOK, NothingLeftPending, Underway
<1>2. ASSUME NEW c \in Commands
      PROVE  Answerers(c) <= 1 /\ (c \in pending \/ c \in failing \/ c \in reply \/ InHand(c) => Answerers(c) = 1)
  BY DEF PcIInv, PcFits, Answerers, InHand
<1> QED
  BY <1>1, <1>2 DEF PcIInv, PcFits, PcSafe, OneAnswer, NoOrphan, Underway

---------------------------------------------------------------------------
(* The session of the player. *)

(* How a playback or a player ends, and where a session has gone. *)
Ends == {"ok", "error"}
Ending == {"disconnected", "exited", "quit"}
Recorded == {<<>>, <<"ok">>, <<"error">>}
Gone == {"reaped", "killing", "unreaped", "failed", "leaked"}
Closed == {"closed", "exitError", "error"}

(* What the variables of a player session may be. *)
PsTypes ==
  /\ starting \in {"spawned", "observing", "ready", "aborting"} \union Gone
  /\ mpv \in {"running", "exited", "reaped"} /\ exitError \in BOOLEAN
  /\ inbox \in Seq(Ends) /\ conn \in {"none", "up", "down", "read"} /\ cut \in BOOLEAN
  /\ terminal \in Recorded /\ playEnd \in Recorded
  /\ wait \in {"idle", "waiting", "down", "recheck", "canceling"} \union Results
  /\ polled \in {"no"} \union Ends \union Ending

(* How far the session has come bounds what the others have done. *)
PsOrder ==
  /\ starting = "spawned" => conn = "none" /\ ~stopped
  /\ wait # "idle" \/ polled # "no" \/ close # "no" => starting = "ready"
  /\ starting \in Gone => conn # "up"
  /\ starting \in {"reaped", "failed"} => Reaped
  /\ starting \in {"failed", "leaked"} => cleaned
  /\ close \in Closed => conn # "up" /\ cleaned
  /\ close \in {"closed", "exitError"} => Reaped
  /\ stopped => conn = "read"

(* The end that was recorded waits for WaitForEnd until that returns; after the
   reader nothing is recorded any more. *)
PsEnds ==
  /\ wait \notin Results => playEnd = terminal
  /\ wait = "recheck" => conn = "read"
  /\ wait \in Ending => terminal = <<>> /\ conn = "read"
  /\ wait = "context" => terminal = <<"ok">> \/ (terminal = <<>> /\ conn = "read")
  /\ wait \in Ends => terminal = <<wait>>
  /\ polled \in Ends => terminal = <<polled>>
  /\ polled \in Ending => terminal = <<>> /\ conn = "read"
  /\ conn \in {"down", "read"} /\ ~cut => inbox = <<>>

(* The invariant of the player session. *)
PsIInv == PsTypes /\ PsOrder /\ PsEnds

(* An end that is recorded is the only one. *)
LEMMA OneOrNone ==
  /\ \A e : <<e>> # <<>> /\ (<<e>>)[1] = e /\ Len(<<e>>) = 1
  /\ Len(<<>>) = 0 /\ <<"ok">> # <<"error">>
<1>1. ASSUME NEW e PROVE <<e>> # <<>> /\ (<<e>>)[1] = e /\ Len(<<e>>) = 1
  OBVIOUS
<1> QED
  BY <1>1

(* The session of a player starts in the invariant. *)
LEMMA PsInitIInv == PsInit => PsIInv
<1> SUFFICES ASSUME PsInit PROVE PsIInv
  OBVIOUS
<1>1. PsTypes
  <2>1. inbox \in Seq(Ends) /\ terminal \in Recorded /\ playEnd \in Recorded
    BY DEF PsInit, Recorded
  <2> QED
    BY <2>1 DEF PsInit, PsTypes
<1>2. PsOrder
  BY DEF PsInit, PsOrder, Gone, Closed
<1>3. PsEnds
  BY DEF PsInit, PsEnds, Results, Ends, Ending
<1> QED
  BY <1>1, <1>2, <1>3 DEF PsIInv

(* What mpv and the reader do. *)
LEMMA PsChildStep ==
  ASSUME PsIInv, MpvExits \/ ReapProcess \/ Disconnect \/ ReaderEnds \/ CloseEventsOnDisconnect
                 \/ \E c \in {"session", "wait"} : SessionContextEnds(c)
  PROVE  PsIInv'
<1>1. /\ UNCHANGED <<starting, inbox, cut, terminal, playEnd, wait, polled, close, cleaned>>
      /\ mpv' \in {"running", "exited", "reaped"} /\ exitError' \in BOOLEAN /\ (Reaped => Reaped')
  BY DEF PsIInv, PsTypes, MpvExits, ReapProcess, Disconnect, ReaderEnds, CloseEventsOnDisconnect, SessionContextEnds, Reaped
<1>2. /\ \/ conn' = conn
         \/ conn = "up" /\ conn' = "down" /\ inbox = <<>>
         \/ conn = "down" /\ conn' = "read"
      /\ stopped' = stopped \/ (stopped' = TRUE /\ conn = "read")
  BY DEF MpvExits, ReapProcess, Disconnect, ReaderEnds, CloseEventsOnDisconnect, SessionContextEnds
<1> QED
  BY <1>1, <1>2 DEF PsIInv, PsTypes, PsOrder, PsEnds

(* The connection breaks, and the reader finds out. *)
LEMMA PsBreakStep ==
  ASSUME PsIInv, Break
  PROVE  PsIInv'
<1>1. /\ UNCHANGED <<starting, mpv, exitError, inbox, terminal, playEnd, stopped, wait, polled, close, cleaned>>
      /\ conn = "up" /\ conn' = "down" /\ cut' = TRUE
  BY DEF Break, HangUp, PsIInv, PsTypes
<1> QED
  BY <1>1 DEF PsIInv, PsTypes, PsOrder, PsEnds, Reaped

(* The reader takes an event: the first end is the one that counts. *)
LEMMA PsEventStep ==
  ASSUME PsIInv, MpvEnds \/ AcceptEvent
  PROVE  PsIInv'
<1>1. CASE MpvEnds
  <2>1. /\ UNCHANGED <<starting, mpv, exitError, conn, cut, terminal, playEnd, stopped, wait, polled, close, cleaned>>
        /\ conn = "up" /\ inbox' \in Seq(Ends)
    BY <1>1 DEF MpvEnds, PsIInv, PsTypes, Ends
  <2> QED
    BY <2>1 DEF PsIInv, PsTypes, PsOrder, PsEnds, Reaped
<1>2. CASE AcceptEvent
  <2>1. /\ UNCHANGED <<starting, mpv, exitError, conn, cut, stopped, wait, polled, close, cleaned>>
        /\ conn \in {"up", "down"} /\ inbox # <<>> /\ inbox' = Tail(inbox)
    BY <1>2 DEF AcceptEvent
  <2>2. PICK e \in Ends : e = Head(inbox)
    BY <2>1 DEF PsIInv, PsTypes
  <2>3. Tail(inbox) \in Seq(Ends) /\ <<e>> \in Recorded /\ <<e>> # <<>>
    BY <2>1, <2>2 DEF PsIInv, PsTypes, Recorded, Ends
  <2>4. /\ terminal' = (IF terminal = <<>> THEN <<e>> ELSE terminal)
        /\ playEnd' = (IF playEnd = <<>> THEN <<e>> ELSE playEnd)
    BY <1>2, <2>2 DEF AcceptEvent
  <2>5. PsTypes'
    BY <2>1, <2>3, <2>4 DEF PsIInv, PsTypes
  <2>6. PsEnds'
    BY <2>1, <2>3, <2>4 DEF PsIInv, PsTypes, PsEnds, Recorded, Ends
  <2> QED
    BY <2>1, <2>5, <2>6 DEF PsIInv, PsOrder, Reaped
<1> QED
  BY <1>1, <1>2

(* Start, *)
LEMMA PsStartStep ==
  ASSUME PsIInv, \/ Connect \/ ConnectFails \/ Observed \/ ObserveFails \/ AbortStartup \/ AbortKills \/ StartFailed
  PROVE  PsIInv'
<1>1. /\ UNCHANGED <<mpv, exitError, inbox, terminal, playEnd, stopped, wait, polled, close>>
      /\ starting # "ready" /\ starting \notin {"failed", "leaked"}
  BY DEF Connect, ConnectFails, Observed, ObserveFails, AbortStartup, AbortKills, StartFailed, StartTo
<1>2. \/ starting = "spawned" /\ starting' = "observing" /\ conn' = "up" /\ cut' = cut /\ cleaned' = cleaned
      \/ starting' \in {"ready", "aborting"} /\ UNCHANGED <<conn, cut, cleaned>>
      \/ /\ starting' \in {"reaped", "killing"} /\ conn' # "up" /\ conn' \in {conn, "down"} /\ cleaned' = cleaned
         /\ (starting' = "reaped" => Reaped) /\ cut' \in BOOLEAN
         /\ (conn' = conn /\ cut' = cut) \/ (conn = "up" /\ cut' = TRUE)
      \/ /\ starting = "killing" /\ starting' \in {"reaped", "unreaped"} /\ UNCHANGED <<conn, cut, cleaned>>
         /\ (starting' = "reaped" => Reaped)
      \/ starting = "reaped" /\ starting' = "failed" /\ UNCHANGED <<conn, cut>> /\ cleaned'
      \/ starting = "unreaped" /\ starting' = "leaked" /\ UNCHANGED <<conn, cut>> /\ cleaned'
  BY DEF PsIInv, PsTypes, Connect, ConnectFails, Observed, ObserveFails, AbortStartup, AbortKills, StartFailed, StartTo, HangUp
<1>3. wait = "idle" /\ polled = "no" /\ close = "no"
  BY <1>1 DEF PsIInv, PsOrder
<1>4. PsTypes'
  BY <1>1, <1>2 DEF PsIInv, PsTypes, Gone
<1>5. PsOrder'
  BY <1>1, <1>2, <1>3 DEF PsIInv, PsOrder, PsTypes, Gone, Closed, Reaped
<1>6. PsEnds'
  BY <1>1, <1>2, <1>3 DEF PsIInv, PsOrder, PsEnds, PsTypes, Gone, Results, Ends, Ending
<1> QED
  BY <1>4, <1>5, <1>6 DEF PsIInv

(* WaitForEnd and PollTerminal, *)
LEMMA PsWaitStep ==
  ASSUME PsIInv, CallWait \/ WaitForEnd
  PROVE  PsIInv'
<1>1. /\ UNCHANGED <<starting, mpv, exitError, inbox, terminal, stopped, polled, close, cleaned>>
      /\ starting = "ready" /\ wait \notin Results
  BY DEF PsIInv, PsOrder, CallWait, WaitForEnd, TakeEnd, SeeDisconnected, SeeReadDone, WaitFails, PlayerWaitCanceled,
         CancellationResult, WaitTo, Results
<1>2. playEnd = terminal
  BY <1>1 DEF PsIInv, PsEnds
<1>3. \/ /\ wait' \in {"waiting", "down"} /\ UNCHANGED <<conn, cut, playEnd>>
      \/ /\ wait' = "recheck" /\ conn = "read" /\ UNCHANGED <<conn, cut, playEnd>>
      \/ /\ wait' = "canceling" /\ playEnd' = playEnd /\ HangUp
      \/ /\ terminal = <<>> /\ conn = "read" /\ wait' \in Ending \union {"context"} /\ UNCHANGED <<conn, cut, playEnd>>
      \/ /\ terminal # <<>> /\ playEnd' = <<>> /\ wait' = Result(Head(terminal)) /\ UNCHANGED <<conn, cut>>
  BY <1>2 DEF PsIInv, PsEnds, CallWait, WaitForEnd, TakeEnd, SeeDisconnected, SeeReadDone, WaitFails, PlayerWaitCanceled,
         CancellationResult, WaitTo, Disconnected, Ending
<1>4. CASE ~(wait' = "canceling") /\ ~(terminal # <<>> /\ playEnd' = <<>>)
  <2>1. /\ UNCHANGED <<conn, cut, playEnd>>
        /\ \/ wait' \in {"waiting", "down"} \/ (wait' = "recheck" /\ conn = "read")
           \/ (terminal = <<>> /\ conn = "read" /\ wait' \in Ending \union {"context"})
    BY <1>3, <1>4
  <2> QED
    BY <1>1, <1>2, <2>1 DEF PsIInv, PsTypes, PsOrder, PsEnds, Results, Ends, Ending, Reaped
<1>5. CASE wait' = "canceling"
  <2>1. playEnd' = playEnd /\ HangUp
    <3>1. ASSUME terminal # <<>> PROVE Result(Head(terminal)) # "canceling"
      <4>1. PICK e \in Ends : terminal = <<e>>
        BY <3>1 DEF PsIInv, PsTypes, Recorded, Ends
      <4> QED
        BY <4>1 DEF Result, Ends
    <3> QED
      BY <1>3, <1>5, <3>1 DEF Ending
  <2>2. (conn' = conn /\ cut' = cut) \/ (conn = "up" /\ conn' = "down" /\ cut' = TRUE)
    BY <2>1 DEF HangUp, PsIInv, PsTypes
  <2> QED
    <3>1. PsTypes'
      BY <1>1, <1>5, <2>1, <2>2 DEF PsIInv, PsTypes
    <3>2. PsOrder'
      BY <1>1, <1>5, <2>2 DEF PsIInv, PsOrder, Reaped
    <3>3. PsEnds'
      BY <1>1, <1>2, <1>5, <2>1, <2>2 DEF PsIInv, PsEnds, Results, Ends, Ending
    <3> QED
      BY <3>1, <3>2, <3>3 DEF PsIInv
<1>6. CASE terminal # <<>> /\ playEnd' = <<>> /\ ~(wait' = "canceling")
  <2>1. wait' = Result(Head(terminal)) /\ UNCHANGED <<conn, cut>>
    BY <1>2, <1>3, <1>6
  <2>2. PICK e \in Ends : terminal = <<e>>
    BY <1>6 DEF PsIInv, PsTypes, Recorded, Ends
  <2>3. (wait' = "context" /\ e = "ok") \/ wait' = e
    BY <2>1, <2>2 DEF Result
  <2>4. PsTypes'
    BY <1>1, <1>6, <2>1, <2>2, <2>3 DEF PsIInv, PsTypes, Results, Ends, Recorded
  <2> QED
    BY <1>1, <1>6, <2>1, <2>2, <2>3, <2>4 DEF PsIInv, PsOrder, PsEnds, Results, Ends, Ending, Reaped
<1> QED
  BY <1>4, <1>5, <1>6

(* PollTerminal looks once. *)
LEMMA PsPollStep ==
  ASSUME PsIInv, PollTerminal
  PROVE  PsIInv'
<1>1. /\ UNCHANGED <<starting, mpv, exitError, inbox, conn, cut, terminal, playEnd, stopped, wait, close, cleaned>>
      /\ starting = "ready" /\ wait = "idle"
  BY DEF PollTerminal
<1>2. \/ terminal # <<>> /\ polled' = terminal[1]
      \/ terminal = <<>> /\ conn = "read" /\ polled' \in Ending
  BY DEF PollTerminal, Ending
<1>3. terminal # <<>> => terminal = <<terminal[1]>> /\ terminal[1] \in Ends
  BY DEF PsIInv, PsTypes, Recorded, Ends
<1> QED
  BY <1>1, <1>2, <1>3 DEF PsIInv, PsTypes, PsOrder, PsEnds, Ends, Ending, Reaped

(* and Close. *)
LEMMA PsCloseStep ==
  ASSUME PsIInv, CallClose \/ CloseOnCancellation \/ Closing
  PROVE  PsIInv'
<1>1. /\ UNCHANGED <<starting, mpv, exitError, inbox, terminal, playEnd, stopped, wait, polled>>
      /\ starting = "ready"
  BY DEF PsIInv, PsOrder, CallClose, CloseOnCancellation, Closing, QuitAnswered, Terminate, Kill, KillExactChild, SeeExit,
         CloseGivesUp, CloseTo
<1>2. \/ close' \notin Closed /\ UNCHANGED <<conn, cut, cleaned>>
      \/ close' \in Closed /\ HangUp /\ cleaned' = TRUE /\ (close' # "error" => Reaped)
  BY DEF CallClose, CloseOnCancellation, Closing, QuitAnswered, Terminate, Kill, KillExactChild, SeeExit, CloseGivesUp,
         CloseTo, Closed
<1>3. CASE close' \notin Closed /\ UNCHANGED <<conn, cut, cleaned>>
  BY <1>1, <1>3 DEF PsIInv, PsTypes, PsOrder, PsEnds, Closed, Gone, Reaped
<1>4. CASE close' \in Closed /\ HangUp /\ cleaned' = TRUE /\ (close' # "error" => Reaped)
  <2>1. /\ conn' # "up"
        /\ (conn' = conn /\ cut' = cut) \/ (conn = "up" /\ conn' = "down" /\ cut' = TRUE)
    BY <1>4 DEF HangUp, PsIInv, PsTypes
  <2>2. PsTypes'
    BY <1>1, <2>1 DEF PsIInv, PsTypes
  <2>3. PsOrder'
    BY <1>1, <1>4, <2>1 DEF PsIInv, PsOrder, Closed, Gone, Reaped
  <2>4. PsEnds'
    BY <1>1, <2>1 DEF PsIInv, PsEnds
  <2> QED
    BY <2>2, <2>3, <2>4 DEF PsIInv
<1> QED
  BY <1>2, <1>3, <1>4

(* Every step of the player session keeps it. *)
LEMMA PsStep == PsIInv /\ PsNext => PsIInv'
BY PsChildStep, PsBreakStep, PsEventStep, PsStartStep, PsWaitStep, PsPollStep, PsCloseStep DEF PsNext, PsProgress

(* So does a step of another part. *)
LEMMA PsStutter == PsIInv /\ UNCHANGED psVars => PsIInv'
BY DEF PsIInv, PsTypes, PsOrder, PsEnds, psVars, Reaped

(* The invariant implies what the runs check of the player session. *)
LEMMA PsInvariance == PsIInv => PsSafe
<1> SUFFICES ASSUME PsIInv PROVE PsSafe
  OBVIOUS
<1>1. PsTypeOK /\ EventsClosedLast
  <2>1. playEnd = <<>> \/ \E e \in Ends : playEnd = <<e>>
    BY DEF PsIInv, PsTypes, Recorded, Ends
  <2>2. Len(playEnd) <= 1
    <3>1. CASE playEnd = <<>>
      BY <3>1
    <3>2. ASSUME NEW e \in Ends, playEnd = <<e>> PROVE Len(playEnd) <= 1
      BY <3>2
    <3> QED
      BY <2>1, <3>1, <3>2
  <2> QED
    BY <2>2 DEF PsIInv, PsTypes, PsOrder, PsTypeOK, EventsClosedLast, Results, Ends, Ending
<1>2. EndWins /\ EndNotLost /\ PollAgrees
  BY OneOrNone DEF PsIInv, PsTypes, PsEnds, EndWins, EndNotLost, PollAgrees, Ends, Ending
<1>3. CloseCleans /\ StartCleans
  BY DEF PsIInv, PsOrder, CloseCleans, StartCleans, Closed, Gone
<1> QED
  BY <1>1, <1>2, <1>3 DEF PsSafe

---------------------------------------------------------------------------
(* Playback over the proxy. *)

(* The stages of playback. *)
BeforeWait == {"opening", "starting", "loading", "readying", "draining", "polling", "pollingPlayer", "pollingLast",
               "pollingEnded", "seeking", "started", "ended"}
InWait == {"waiting", "canceled", "checking", "recording"}
Over == {"closing", "cleaning", "returned"}
Flows == BeforeWait \union InWait \union Over
WaitResults == {"ok", "error", "context"}
EventLists == {<<>>, <<"ready">>, <<"end">>, <<"ready", "end">>}

(* What the variables of playback may be. *)
PbTypes ==
  /\ lecture \in 1..MaxLectures /\ flow \in Flows /\ outcome \in Outcomes
  /\ segment \in [Segments -> {"idle", "fetching", "decrypting", "done"}]
  /\ reported \in BOOLEAN /\ sticky \in BOOLEAN /\ end \in {"no", "ok", "error"}
  /\ result \in {"none", "pending"} \union WaitResults

(* What the channels hold. *)
PbLists ==
  /\ failures \in {<<>>, <<"failure">>} /\ events \in EventLists
  /\ end = "no" => events \in {<<>>, <<"ready">>}

(* A failure that was reported is in one place. *)
PbFailure ==
  /\ failures # <<>> => reported /\ flow # "recording" /\ ~sticky
  /\ flow = "recording" => reported /\ ~sticky
  /\ sticky => reported
  /\ reported => failures # <<>> \/ flow = "recording" \/ sticky

(* While somebody waits for the player nothing sticks; a result is returned
   that came before any failure. *)
PbWaits ==
  /\ flow \in BeforeWait => result = "none"
  /\ flow \in InWait => result # "none" /\ ~sticky
  /\ flow = "checking" => result \in WaitResults
  /\ before => reported
  /\ outcome # "none" => flow \in Over
  /\ flow \in Over /\ outcome \in WaitResults => result = "none" \/ (result \in WaitResults /\ ~before)

(* Who times out knew nothing. *)
PbTimeout ==
  /\ knew => reported \/ end # "no"
  /\ flow = "pollingLast" /\ knew => reported
  /\ outcome = "timeout" => ~knew

(* What is owned at which stage. *)
PbOwned ==
  /\ flow = "opening" => proxy = "none" /\ child = "none"
  /\ flow = "starting" => child = "none"
  /\ flow = "cleaning" => child = "closed"
  /\ flow = "returned" => proxy # "serving" /\ key # "material" /\ child # "running"

(* The invariant of playback. *)
PbIInv == PbTypes /\ PbLists /\ PbFailure /\ PbWaits /\ PbTimeout /\ PbOwned

(* Playback starts in the invariant. *)
LEMMA PbInitIInv == PbInit => PbIInv
<1> SUFFICES ASSUME PbInit PROVE PbIInv
  OBVIOUS
<1>1. PbTypes
  <2>1. lecture \in 1..MaxLectures
    <3>1. 1 \in 1..MaxLectures
      BY PlaybackAssumption
    <3>2. lecture = 1
      BY DEF PbInit
    <3> QED
      BY <3>1, <3>2
  <2>2. segment \in [Segments -> {"idle", "fetching", "decrypting", "done"}]
    BY DEF PbInit
  <2>3. outcome \in Outcomes /\ flow \in Flows
    BY DEF PbInit, Outcomes, Flows, BeforeWait
  <2> QED
    BY <2>1, <2>2, <2>3 DEF PbInit, PbTypes
<1>2. PbLists
  BY DEF PbInit, PbLists, EventLists
<1>3. PbFailure /\ PbWaits /\ PbTimeout /\ PbOwned
  BY DEF PbInit, PbFailure, PbWaits, PbTimeout, PbOwned, InWait, Over
<1> QED
  BY <1>1, <1>2, <1>3 DEF PbIInv

(* What is left of the lists fits. *)
LEMMA ListsShrink ==
  ASSUME PbLists, failures' \in {failures, <<>>}, events' \in {events, Tail(events), <<>>}, end' = end
  PROVE  PbLists'
<1>1. failures' \in {<<>>, <<"failure">>}
  BY DEF PbLists
<1>2. CASE events' = events \/ events' = <<>>
  BY <1>1, <1>2 DEF PbLists, EventLists
<1>3. CASE events' = Tail(events)
  <2>1. \/ events = <<>> \/ events = <<"ready">> \/ events = <<"end">> \/ events = <<"ready", "end">>
    BY DEF PbLists, EventLists
  <2>2. CASE events = <<>>
    BY <1>1, <1>3, <2>2 DEF PbLists, EventLists
  <2>3. CASE events = <<"ready">> \/ events = <<"end">>
    <3>1. events' = <<>>
      <4>1. CASE events = <<"ready">>
        BY <1>3, <4>1
      <4>2. CASE events = <<"end">>
        BY <1>3, <4>2
      <4> QED
        BY <2>3, <4>1, <4>2
    <3> QED
      BY <1>1, <3>1 DEF PbLists, EventLists
  <2>4. CASE events = <<"ready", "end">>
    <3>1. events' = <<"end">>
      BY <1>3, <2>4
    <3>2. events \notin {<<>>, <<"ready">>}
      <4>1. Len(events) = 2
        BY <2>4
      <4>2. Len(<<>>) = 0 /\ Len(<<"ready">>) = 1
        OBVIOUS
      <4>3. ASSUME events = <<"ready">> PROVE FALSE
        BY <4>1, <4>3
      <4>4. ASSUME events = <<>> PROVE FALSE
        BY <4>1, <4>4
      <4> QED
        BY <4>3, <4>4
    <3> QED
      BY <1>1, <3>1, <3>2 DEF PbLists, EventLists
  <2> QED
    BY <2>1, <2>2, <2>3, <2>4
<1> QED
  BY <1>2, <1>3

(* A handler of a segment. *)
LEMMA SegmentStep ==
  ASSUME PbIInv, NEW s \in Segments, Request(s) \/ FetchFails(s) \/ Acquire(s) \/ Serve(s)
  PROVE  PbIInv'
<1>1. /\ UNCHANGED <<lecture, flow, outcome, proxy, key, failures, reported, sticky, child, end, events, result, knew, before>>
      /\ segment' \in [Segments -> {"idle", "fetching", "decrypting", "done"}]
  BY DEF Request, FetchFails, Acquire, Serve, SegmentTo, PbIInv, PbTypes
<1> QED
  BY <1>1 DEF PbIInv, PbTypes, PbLists, PbFailure, PbWaits, PbTimeout, PbOwned

(* The proxy refuses a segment once its key is gone. *)
LEMMA RefuseStep ==
  ASSUME PbIInv, NEW s \in Segments, UpstreamRefuses(s)
  PROVE  PbIInv'
<1>1. /\ UNCHANGED <<lecture, flow, outcome, proxy, key, sticky, child, end, events, result, knew, before>>
      /\ segment' \in [Segments -> {"idle", "fetching", "decrypting", "done"}]
      /\ failures' = (IF reported THEN failures ELSE <<"failure">>) /\ reported' = TRUE
  BY DEF UpstreamRefuses, SegmentTo, PbIInv, PbTypes
<1>2. <<"failure">> # <<>>
  OBVIOUS
<1> QED
  BY <1>1, <1>2 DEF PbIInv, PbTypes, PbLists, PbFailure, PbWaits, PbTimeout, PbOwned

(* The player tells that it is ready, or that the lecture has ended. *)
LEMMA PlayerEventStep ==
  ASSUME PbIInv, MediaReady \/ PlayerEnds
  PROVE  PbIInv'
<1>1. /\ UNCHANGED <<lecture, flow, outcome, proxy, key, segment, failures, reported, sticky, child, result, knew, before>>
      /\ end = "no" /\ events \in {<<>>, <<"ready">>}
  BY DEF MediaReady, PlayerEnds, PlayerTo, PbIInv, PbLists, streamVars
<1>2. end' \in {"no", "ok", "error"} /\ events' \in EventLists /\ (end' = "no" => events' \in {<<>>, <<"ready">>})
  <2>1. CASE MediaReady
    <3>1. end' = "no" /\ events' = Append(events, "ready") /\ "ready" \notin {events[i] : i \in DOMAIN events}
      BY <2>1 DEF MediaReady, PlayerTo
    <3>2. events = <<>>
      <4>1. ASSUME events = <<"ready">> PROVE FALSE
        <5>1. 1 \in DOMAIN events /\ events[1] = "ready"
          BY <4>1
        <5> QED
          BY <3>1, <5>1
      <4> QED
        BY <1>1, <4>1
    <3>3. events' = <<"ready">>
      BY <3>1, <3>2
    <3> QED
      BY <3>1, <3>3 DEF EventLists
  <2>2. CASE PlayerEnds
    <3>1. end' \in {"ok", "error"} /\ events' = Append(events, "end")
      BY <2>2 DEF PlayerEnds, PlayerTo
    <3>2. events' = <<"end">> \/ events' = <<"ready", "end">>
      <4>1. CASE events = <<>>
        BY <3>1, <4>1
      <4>2. CASE events = <<"ready">>
        <5>1. Append(<<"ready">>, "end") = <<"ready", "end">>
          <6> DEFINE S == {"ready", "end"}
                     s == Append(<<"ready">>, "end")
                     t == <<"ready", "end">>
          <6>1. s \in Seq(S) /\ Len(s) = 2 /\ s[1] = "ready" /\ s[2] = "end"
            OBVIOUS
          <6>2. t \in Seq(S) /\ Len(t) = 2 /\ t[1] = "ready" /\ t[2] = "end"
            OBVIOUS
          <6>3. \A i \in 1..Len(s) : s[i] = t[i]
            BY <6>1, <6>2
          <6> HIDE DEF s, t, S
          <6>4. s = t
            BY <6>1, <6>2, <6>3, SeqEqual
          <6> QED
            BY <6>4 DEF s, t
        <5> QED
          BY <3>1, <4>2, <5>1
      <4> QED
        BY <1>1, <4>1, <4>2
    <3> QED
      BY <3>1, <3>2 DEF EventLists
  <2> QED
    BY <2>1, <2>2
<1>3. PbTimeout'
  BY <1>1, <1>2 DEF PbIInv, PbTimeout
<1> QED
  BY <1>1, <1>2, <1>3 DEF PbIInv, PbTypes, PbLists, PbFailure, PbWaits, PbOwned

(* The wait for the end of the player has a result. *)
LEMMA PlayerResultStep ==
  ASSUME PbIInv, PlayerResult
  PROVE  PbIInv'
<1>1. /\ UNCHANGED <<lecture, flow, outcome, proxy, key, segment, failures, reported, sticky, child, end, events, knew>>
      /\ result = "pending" /\ result' \in WaitResults /\ before' = reported
  BY DEF PlayerResult, PbIInv, PbTypes, streamVars, playerVars, WaitResults
<1> QED
  BY <1>1 DEF PbIInv, PbTypes, PbLists, PbFailure, PbWaits, PbTimeout, PbOwned, WaitResults

(* The context of playback ends. *)
LEMMA ContextEndsStep ==
  ASSUME PbIInv, CallerContextEnds
  PROVE  PbIInv'
BY DEF CallerContextEnds, PbIInv, PbTypes, PbLists, PbFailure, PbWaits, PbTimeout, PbOwned, streamVars, playerVars

(* The next lecture begins with nothing left of the one before. *)
LEMMA NextLectureStep ==
  ASSUME PbIInv, NextLecture
  PROVE  PbIInv'
<1>1. lecture' \in 1..MaxLectures
  BY PlaybackAssumption DEF NextLecture, PbIInv, PbTypes
<1>2. /\ flow' = "opening" /\ proxy' = "none" /\ segment' = [s \in Segments |-> "idle"]
      /\ failures' = <<>> /\ reported' = FALSE /\ sticky' = FALSE
      /\ child' = "none" /\ end' = "no" /\ events' = <<>> /\ result' = "none"
      /\ outcome' = "none" /\ knew' = FALSE /\ before' = FALSE
  BY DEF NextLecture, Fresh
<1> QED
  BY <1>1, <1>2 DEF PbIInv, PbTypes, PbLists, PbFailure, PbWaits, PbTimeout, PbOwned, Flows, BeforeWait, InWait, Over, WaitResults, EventLists, Outcomes

(* The stream is opened, or not. *)
LEMMA OpenStreamStep ==
  ASSUME PbIInv, OpenStream
  PROVE  PbIInv'
<1> USE DEF FlowTo, Quiet, TakeFailure, playerVars
<1>1. PbTypes'
  BY DEF OpenStream, PbIInv, PbTypes, PbWaits, Flows, BeforeWait, InWait, Over, Outcomes, WaitResults
<1>2. PbLists'
  <2>1. failures' \in {failures, <<>>} /\ events' \in {events, Tail(events), <<>>} /\ end' = end
    BY DEF OpenStream
  <2> QED
    BY <2>1, ListsShrink DEF PbIInv
<1>3. PbFailure'
  <2>1. flow = "opening" /\ flow' # "recording" /\ UNCHANGED <<failures, reported, sticky>>
    BY DEF OpenStream
  <2> QED
    BY <2>1 DEF PbIInv, PbFailure
<1>4. PbWaits'
  BY DEF OpenStream, PbIInv, PbTypes, PbFailure, PbWaits, BeforeWait, InWait, Over, WaitResults
<1>5. PbTimeout'
  BY DEF OpenStream, PbIInv, PbTypes, PbFailure, PbTimeout, PbWaits, InWait, Over, WaitResults
<1>6. PbOwned'
  BY DEF OpenStream, PbIInv, PbTypes, PbOwned
<1> QED
  BY <1>1, <1>2, <1>3, <1>4, <1>5, <1>6 DEF PbIInv

(* The player is started, or not. *)
LEMMA StartPlayerStep ==
  ASSUME PbIInv, StartPlayer
  PROVE  PbIInv'
<1> USE DEF FlowTo, Quiet, TakeFailure, playerVars
<1>1. PbTypes'
  BY DEF StartPlayer, PbIInv, PbTypes, PbWaits, Flows, BeforeWait, InWait, Over, Outcomes, WaitResults
<1>2. PbLists'
  <2>1. failures' \in {failures, <<>>} /\ events' \in {events, Tail(events), <<>>} /\ end' = end
    BY DEF StartPlayer
  <2> QED
    BY <2>1, ListsShrink DEF PbIInv
<1>3. PbFailure'
  BY DEF StartPlayer, PbIInv, PbTypes, PbFailure, PbWaits, BeforeWait
<1>4. PbWaits'
  BY DEF StartPlayer, PbIInv, PbTypes, PbFailure, PbWaits, BeforeWait, InWait, Over, WaitResults
<1>5. PbTimeout'
  BY DEF StartPlayer, PbIInv, PbTypes, PbFailure, PbTimeout, PbWaits, InWait, Over, WaitResults
<1>6. PbOwned'
  BY DEF StartPlayer, PbIInv, PbTypes, PbOwned
<1> QED
  BY <1>1, <1>2, <1>3, <1>4, <1>5, <1>6 DEF PbIInv

(* The lecture is loaded, or not. *)
LEMMA LoadStep ==
  ASSUME PbIInv, Load
  PROVE  PbIInv'
<1> USE DEF FlowTo, Quiet, TakeFailure, playerVars
<1>1. PbTypes'
  BY DEF Load, PbIInv, PbTypes, PbWaits, Flows, BeforeWait, InWait, Over, Outcomes, WaitResults
<1>2. PbLists'
  <2>1. failures' \in {failures, <<>>} /\ events' \in {events, Tail(events), <<>>} /\ end' = end
    BY DEF Load
  <2> QED
    BY <2>1, ListsShrink DEF PbIInv
<1>3. PbFailure'
  BY DEF Load, PbIInv, PbTypes, PbFailure, PbWaits, BeforeWait
<1>4. PbWaits'
  BY DEF Load, PbIInv, PbTypes, PbFailure, PbWaits, BeforeWait, InWait, Over, WaitResults
<1>5. PbTimeout'
  BY DEF Load, PbIInv, PbTypes, PbFailure, PbTimeout, PbWaits, InWait, Over, WaitResults
<1>6. PbOwned'
  BY DEF Load, PbIInv, PbTypes, PbOwned
<1> QED
  BY <1>1, <1>2, <1>3, <1>4, <1>5, <1>6 DEF PbIInv

(* An event of the player is taken while readiness is waited for. *)
LEMMA TakeReadinessStep ==
  ASSUME PbIInv, TakeReadiness
  PROVE  PbIInv'
<1> USE DEF FlowTo, Quiet, TakeFailure, playerVars
<1>1. PbTypes'
  BY DEF TakeReadiness, PbIInv, PbTypes, PbWaits, Flows, BeforeWait, InWait, Over, Outcomes, WaitResults
<1>2. PbLists'
  <2>1. failures' \in {failures, <<>>} /\ events' \in {events, Tail(events), <<>>} /\ end' = end
    BY DEF TakeReadiness
  <2> QED
    BY <2>1, ListsShrink DEF PbIInv
<1>3. PbFailure'
  BY DEF TakeReadiness, PbIInv, PbTypes, PbFailure, PbWaits, BeforeWait
<1>4. PbWaits'
  BY DEF TakeReadiness, PbIInv, PbTypes, PbFailure, PbWaits, BeforeWait, InWait, Over, WaitResults
<1>5. PbTimeout'
  BY DEF TakeReadiness, PbIInv, PbTypes, PbFailure, PbTimeout, PbWaits, InWait, Over, WaitResults
<1>6. PbOwned'
  BY DEF TakeReadiness, PbIInv, PbTypes, PbOwned
<1> QED
  BY <1>1, <1>2, <1>3, <1>4, <1>5, <1>6 DEF PbIInv

(* Readiness takes too long: what is known already is looked at. *)
LEMMA ReadinessTimeoutStep ==
  ASSUME PbIInv, ReadinessTimeout
  PROVE  PbIInv'
<1> USE DEF FlowTo, Quiet, TakeFailure, playerVars
<1>1. PbTypes'
  BY DEF ReadinessTimeout, PbIInv, PbTypes, PbWaits, Flows, BeforeWait, InWait, Over, Outcomes, WaitResults
<1>2. PbLists'
  <2>1. failures' \in {failures, <<>>} /\ events' \in {events, Tail(events), <<>>} /\ end' = end
    BY DEF ReadinessTimeout
  <2> QED
    BY <2>1, ListsShrink DEF PbIInv
<1>3. PbFailure'
  BY DEF ReadinessTimeout, PbIInv, PbTypes, PbFailure, PbWaits, BeforeWait
<1>4. PbWaits'
  BY DEF ReadinessTimeout, PbIInv, PbTypes, PbFailure, PbWaits, BeforeWait, InWait, Over, WaitResults
<1>5. PbTimeout'
  BY DEF ReadinessTimeout, PbIInv, PbTypes, PbFailure, PbTimeout, PbWaits, InWait, Over, WaitResults
<1>6. PbOwned'
  BY DEF ReadinessTimeout, PbIInv, PbTypes, PbOwned
<1> QED
  BY <1>1, <1>2, <1>3, <1>4, <1>5, <1>6 DEF PbIInv

(* One event that is queued is drained. *)
LEMMA DrainOneStep ==
  ASSUME PbIInv, DrainOne
  PROVE  PbIInv'
<1> USE DEF FlowTo, Quiet, TakeFailure, playerVars
<1>1. PbTypes'
  BY DEF DrainOne, PbIInv, PbTypes, PbWaits, Flows, BeforeWait, InWait, Over, Outcomes, WaitResults
<1>2. PbLists'
  <2>1. failures' \in {failures, <<>>} /\ events' \in {events, Tail(events), <<>>} /\ end' = end
    BY DEF DrainOne
  <2> QED
    BY <2>1, ListsShrink DEF PbIInv
<1>3. PbFailure'
  BY DEF DrainOne, PbIInv, PbTypes, PbFailure, PbWaits, BeforeWait
<1>4. PbWaits'
  BY DEF DrainOne, PbIInv, PbTypes, PbFailure, PbWaits, BeforeWait, InWait, Over, WaitResults
<1>5. PbTimeout'
  BY DEF DrainOne, PbIInv, PbTypes, PbFailure, PbTimeout, PbWaits, InWait, Over, WaitResults
<1>6. PbOwned'
  BY DEF DrainOne, PbIInv, PbTypes, PbOwned
<1> QED
  BY <1>1, <1>2, <1>3, <1>4, <1>5, <1>6 DEF PbIInv

(* A failure of the proxy is looked for without waiting. *)
LEMMA PollFailureStep ==
  ASSUME PbIInv, PollFailure
  PROVE  PbIInv'
<1> USE DEF FlowTo, Quiet, TakeFailure, playerVars
<1>1. PbTypes'
  BY DEF PollFailure, PbIInv, PbTypes, PbWaits, Flows, BeforeWait, InWait, Over, Outcomes, WaitResults
<1>2. PbLists'
  <2>1. failures' \in {failures, <<>>} /\ events' \in {events, Tail(events), <<>>} /\ end' = end
    BY DEF PollFailure
  <2> QED
    BY <2>1, ListsShrink DEF PbIInv
<1>3. PbFailure'
  BY DEF PollFailure, PbIInv, PbTypes, PbFailure, PbWaits, BeforeWait
<1>4. PbWaits'
  BY DEF PollFailure, PbIInv, PbTypes, PbFailure, PbWaits, BeforeWait, InWait, Over, WaitResults
<1>5. PbTimeout'
  BY DEF PollFailure, PbIInv, PbTypes, PbFailure, PbTimeout, PbWaits, InWait, Over, WaitResults
<1>6. PbOwned'
  BY DEF PollFailure, PbIInv, PbTypes, PbOwned
<1> QED
  BY <1>1, <1>2, <1>3, <1>4, <1>5, <1>6 DEF PbIInv

(* So is the end of the player. *)
LEMMA PollPlayerStep ==
  ASSUME PbIInv, PollPlayer
  PROVE  PbIInv'
<1> USE DEF FlowTo, Quiet, TakeFailure, playerVars
<1>1. PbTypes'
  BY DEF PollPlayer, PbIInv, PbTypes, PbWaits, Flows, BeforeWait, InWait, Over, Outcomes, WaitResults
<1>2. PbLists'
  <2>1. failures' \in {failures, <<>>} /\ events' \in {events, Tail(events), <<>>} /\ end' = end
    BY DEF PollPlayer
  <2> QED
    BY <2>1, ListsShrink DEF PbIInv
<1>3. PbFailure'
  BY DEF PollPlayer, PbIInv, PbTypes, PbFailure, PbWaits, BeforeWait
<1>4. PbWaits'
  BY DEF PollPlayer, PbIInv, PbTypes, PbFailure, PbWaits, BeforeWait, InWait, Over, WaitResults
<1>5. PbTimeout'
  BY DEF PollPlayer, PbIInv, PbTypes, PbFailure, PbTimeout, PbWaits, InWait, Over, WaitResults
<1>6. PbOwned'
  BY DEF PollPlayer, PbIInv, PbTypes, PbOwned
<1> QED
  BY <1>1, <1>2, <1>3, <1>4, <1>5, <1>6 DEF PbIInv

(* And the failure once more, which the player may have had as its cause. *)
LEMMA PollAgainStep ==
  ASSUME PbIInv, PollAgain
  PROVE  PbIInv'
<1> USE DEF FlowTo, Quiet, TakeFailure, playerVars
<1>1. PbTypes'
  BY DEF PollAgain, PbIInv, PbTypes, PbWaits, Flows, BeforeWait, InWait, Over, Outcomes, WaitResults
<1>2. PbLists'
  <2>1. failures' \in {failures, <<>>} /\ events' \in {events, Tail(events), <<>>} /\ end' = end
    BY DEF PollAgain
  <2> QED
    BY <2>1, ListsShrink DEF PbIInv
<1>3. PbFailure'
  BY DEF PollAgain, PbIInv, PbTypes, PbFailure, PbWaits, BeforeWait
<1>4. PbWaits'
  BY DEF PollAgain, PbIInv, PbTypes, PbFailure, PbWaits, BeforeWait, InWait, Over, WaitResults
<1>5. PbTimeout'
  BY DEF PollAgain, PbIInv, PbTypes, PbFailure, PbTimeout, PbWaits, InWait, Over, WaitResults
<1>6. PbOwned'
  BY DEF PollAgain, PbIInv, PbTypes, PbOwned
<1> QED
  BY <1>1, <1>2, <1>3, <1>4, <1>5, <1>6 DEF PbIInv

(* The player is put at the checkpoint. *)
LEMMA SeekStep ==
  ASSUME PbIInv, Seek
  PROVE  PbIInv'
<1> USE DEF FlowTo, Quiet, TakeFailure, playerVars
<1>1. PbTypes'
  BY DEF Seek, PbIInv, PbTypes, PbWaits, Flows, BeforeWait, InWait, Over, Outcomes, WaitResults
<1>2. PbLists'
  <2>1. failures' \in {failures, <<>>} /\ events' \in {events, Tail(events), <<>>} /\ end' = end
    BY DEF Seek
  <2> QED
    BY <2>1, ListsShrink DEF PbIInv
<1>3. PbFailure'
  BY DEF Seek, PbIInv, PbTypes, PbFailure, PbWaits, BeforeWait
<1>4. PbWaits'
  BY DEF Seek, PbIInv, PbTypes, PbFailure, PbWaits, BeforeWait, InWait, Over, WaitResults
<1>5. PbTimeout'
  BY DEF Seek, PbIInv, PbTypes, PbFailure, PbTimeout, PbWaits, InWait, Over, WaitResults
<1>6. PbOwned'
  BY DEF Seek, PbIInv, PbTypes, PbOwned
<1> QED
  BY <1>1, <1>2, <1>3, <1>4, <1>5, <1>6 DEF PbIInv

(* The end of the player is waited for. *)
LEMMA BeginWaitStep ==
  ASSUME PbIInv, BeginWait
  PROVE  PbIInv'
<1> USE DEF FlowTo, Quiet, TakeFailure, playerVars
<1>1. PbTypes'
  BY DEF BeginWait, Starting, PbIInv, PbTypes, PbWaits, Flows, BeforeWait, InWait, Over, Outcomes, WaitResults
<1>2. PbLists'
  <2>1. failures' \in {failures, <<>>} /\ events' \in {events, Tail(events), <<>>} /\ end' = end
    BY DEF BeginWait, Starting
  <2> QED
    BY <2>1, ListsShrink DEF PbIInv
<1>3. PbFailure'
  BY DEF BeginWait, Starting, PbIInv, PbTypes, PbFailure, PbWaits, BeforeWait
<1>4. PbWaits'
  BY DEF BeginWait, Starting, PbIInv, PbTypes, PbFailure, PbWaits, BeforeWait, InWait, Over, WaitResults
<1>5. PbTimeout'
  BY DEF BeginWait, Starting, PbIInv, PbTypes, PbFailure, PbTimeout, PbWaits, InWait, Over, WaitResults
<1>6. PbOwned'
  BY DEF BeginWait, Starting, PbIInv, PbTypes, PbOwned
<1> QED
  BY <1>1, <1>2, <1>3, <1>4, <1>5, <1>6 DEF PbIInv

(* A failure of the proxy ends the wait, *)
LEMMA ReceiveFailureStep ==
  ASSUME PbIInv, ReceiveFailure
  PROVE  PbIInv'
<1> USE DEF FlowTo, Quiet, TakeFailure, playerVars
<1>1. PbTypes'
  BY DEF ReceiveFailure, PbIInv, PbTypes, PbWaits, Flows, BeforeWait, InWait, Over, Outcomes, WaitResults
<1>2. PbLists'
  <2>1. failures' \in {failures, <<>>} /\ events' \in {events, Tail(events), <<>>} /\ end' = end
    BY DEF ReceiveFailure
  <2> QED
    BY <2>1, ListsShrink DEF PbIInv
<1>3. PbFailure'
  BY DEF ReceiveFailure, PbIInv, PbTypes, PbFailure, PbWaits, BeforeWait
<1>4. PbWaits'
  BY DEF ReceiveFailure, PbIInv, PbTypes, PbFailure, PbWaits, BeforeWait, InWait, Over, WaitResults
<1>5. PbTimeout'
  BY DEF ReceiveFailure, PbIInv, PbTypes, PbFailure, PbTimeout, PbWaits, InWait, Over, WaitResults
<1>6. PbOwned'
  BY DEF ReceiveFailure, PbIInv, PbTypes, PbOwned
<1> QED
  BY <1>1, <1>2, <1>3, <1>4, <1>5, <1>6 DEF PbIInv

(* and sticks. *)
LEMMA RecordFailureStep ==
  ASSUME PbIInv, RecordFailure
  PROVE  PbIInv'
<1> USE DEF FlowTo, Quiet, TakeFailure, playerVars
<1>1. PbTypes'
  BY DEF RecordFailure, PbIInv, PbTypes, PbWaits, Flows, BeforeWait, InWait, Over, Outcomes, WaitResults
<1>2. PbLists'
  <2>1. failures' \in {failures, <<>>} /\ events' \in {events, Tail(events), <<>>} /\ end' = end
    BY DEF RecordFailure
  <2> QED
    BY <2>1, ListsShrink DEF PbIInv
<1>3. PbFailure'
  BY DEF RecordFailure, PbIInv, PbTypes, PbFailure, PbWaits, BeforeWait
<1>4. PbWaits'
  BY DEF RecordFailure, PbIInv, PbTypes, PbFailure, PbWaits, BeforeWait, InWait, Over, WaitResults
<1>5. PbTimeout'
  BY DEF RecordFailure, PbIInv, PbTypes, PbFailure, PbTimeout, PbWaits, InWait, Over, WaitResults
<1>6. PbOwned'
  BY DEF RecordFailure, PbIInv, PbTypes, PbOwned
<1> QED
  BY <1>1, <1>2, <1>3, <1>4, <1>5, <1>6 DEF PbIInv

(* The wait is canceled. *)
LEMMA WaitCanceledStep ==
  ASSUME PbIInv, WaitCanceled
  PROVE  PbIInv'
<1> USE DEF FlowTo, Quiet, TakeFailure, playerVars
<1>1. PbTypes'
  BY DEF WaitCanceled, PbIInv, PbTypes, PbWaits, Flows, BeforeWait, InWait, Over, Outcomes, WaitResults
<1>2. PbLists'
  <2>1. failures' \in {failures, <<>>} /\ events' \in {events, Tail(events), <<>>} /\ end' = end
    BY DEF WaitCanceled
  <2> QED
    BY <2>1, ListsShrink DEF PbIInv
<1>3. PbFailure'
  BY DEF WaitCanceled, PbIInv, PbTypes, PbFailure, PbWaits, BeforeWait
<1>4. PbWaits'
  BY DEF WaitCanceled, PbIInv, PbTypes, PbFailure, PbWaits, BeforeWait, InWait, Over, WaitResults
<1>5. PbTimeout'
  BY DEF WaitCanceled, PbIInv, PbTypes, PbFailure, PbTimeout, PbWaits, InWait, Over, WaitResults
<1>6. PbOwned'
  BY DEF WaitCanceled, PbIInv, PbTypes, PbOwned
<1> QED
  BY <1>1, <1>2, <1>3, <1>4, <1>5, <1>6 DEF PbIInv

(* The player has ended, *)
LEMMA ReceiveResultStep ==
  ASSUME PbIInv, ReceiveResult
  PROVE  PbIInv'
<1> USE DEF FlowTo, Quiet, TakeFailure, playerVars
<1>1. PbTypes'
  BY DEF ReceiveResult, PbIInv, PbTypes, PbWaits, Flows, BeforeWait, InWait, Over, Outcomes, WaitResults
<1>2. PbLists'
  <2>1. failures' \in {failures, <<>>} /\ events' \in {events, Tail(events), <<>>} /\ end' = end
    BY DEF ReceiveResult
  <2> QED
    BY <2>1, ListsShrink DEF PbIInv
<1>3. PbFailure'
  BY DEF ReceiveResult, PbIInv, PbTypes, PbFailure, PbWaits, BeforeWait
<1>4. PbWaits'
  BY DEF ReceiveResult, PbIInv, PbTypes, PbFailure, PbWaits, BeforeWait, InWait, Over, WaitResults
<1>5. PbTimeout'
  BY DEF ReceiveResult, PbIInv, PbTypes, PbFailure, PbTimeout, PbWaits, InWait, Over, WaitResults
<1>6. PbOwned'
  BY DEF ReceiveResult, PbIInv, PbTypes, PbOwned
<1> QED
  BY <1>1, <1>2, <1>3, <1>4, <1>5, <1>6 DEF PbIInv

(* and its result is returned unless a failure came first. *)
LEMMA ReturnResultStep ==
  ASSUME PbIInv, ReturnResult
  PROVE  PbIInv'
<1> USE DEF FlowTo, Quiet, TakeFailure, playerVars
<1>1. PbTypes'
  BY DEF ReturnResult, PbIInv, PbTypes, PbWaits, Flows, BeforeWait, InWait, Over, Outcomes, WaitResults
<1>2. PbLists'
  <2>1. failures' \in {failures, <<>>} /\ events' \in {events, Tail(events), <<>>} /\ end' = end
    BY DEF ReturnResult
  <2> QED
    BY <2>1, ListsShrink DEF PbIInv
<1>3. PbFailure'
  BY DEF ReturnResult, PbIInv, PbTypes, PbFailure, PbWaits, BeforeWait
<1>4. PbWaits'
  BY DEF ReturnResult, PbIInv, PbTypes, PbFailure, PbWaits, BeforeWait, InWait, Over, WaitResults
<1>5. PbTimeout'
  BY DEF ReturnResult, PbIInv, PbTypes, PbFailure, PbTimeout, PbWaits, InWait, Over, WaitResults
<1>6. PbOwned'
  BY DEF ReturnResult, PbIInv, PbTypes, PbOwned
<1> QED
  BY <1>1, <1>2, <1>3, <1>4, <1>5, <1>6 DEF PbIInv

(* Playback that has failed is closed. *)
LEMMA GiveUpStep ==
  ASSUME PbIInv, GiveUp
  PROVE  PbIInv'
<1> USE DEF FlowTo, Quiet, TakeFailure, playerVars
<1>1. PbTypes'
  BY DEF GiveUp, PbIInv, PbTypes, PbWaits, Flows, BeforeWait, InWait, Over, Outcomes, WaitResults
<1>2. PbLists'
  <2>1. failures' \in {failures, <<>>} /\ events' \in {events, Tail(events), <<>>} /\ end' = end
    BY DEF GiveUp
  <2> QED
    BY <2>1, ListsShrink DEF PbIInv
<1>3. PbFailure'
  BY DEF GiveUp, PbIInv, PbTypes, PbFailure, PbWaits, BeforeWait
<1>4. PbWaits'
  BY DEF GiveUp, PbIInv, PbTypes, PbFailure, PbWaits, BeforeWait, InWait, Over, WaitResults
<1>5. PbTimeout'
  BY DEF GiveUp, PbIInv, PbTypes, PbFailure, PbTimeout, PbWaits, InWait, Over, WaitResults
<1>6. PbOwned'
  BY DEF GiveUp, PbIInv, PbTypes, PbOwned
<1> QED
  BY <1>1, <1>2, <1>3, <1>4, <1>5, <1>6 DEF PbIInv

(* The player is closed before the proxy, *)
LEMMA ClosePlayerStep ==
  ASSUME PbIInv, ClosePlayer
  PROVE  PbIInv'
<1> USE DEF FlowTo, Quiet, TakeFailure, playerVars
<1>1. PbTypes'
  BY DEF ClosePlayer, PbIInv, PbTypes, PbWaits, Flows, BeforeWait, InWait, Over, Outcomes, WaitResults
<1>2. PbLists'
  <2>1. failures' \in {failures, <<>>} /\ events' \in {events, Tail(events), <<>>} /\ end' = end
    BY DEF ClosePlayer
  <2> QED
    BY <2>1, ListsShrink DEF PbIInv
<1>3. PbFailure'
  BY DEF ClosePlayer, PbIInv, PbTypes, PbFailure, PbWaits, BeforeWait
<1>4. PbWaits'
  BY DEF ClosePlayer, PbIInv, PbTypes, PbFailure, PbWaits, BeforeWait, InWait, Over, WaitResults
<1>5. PbTimeout'
  BY DEF ClosePlayer, PbIInv, PbTypes, PbFailure, PbTimeout, PbWaits, InWait, Over, WaitResults
<1>6. PbOwned'
  BY DEF ClosePlayer, PbIInv, PbTypes, PbOwned
<1> QED
  BY <1>1, <1>2, <1>3, <1>4, <1>5, <1>6 DEF PbIInv

(* and the proxy before the key is erased. *)
LEMMA CleanUpStep ==
  ASSUME PbIInv, CleanUp
  PROVE  PbIInv'
<1> USE DEF FlowTo, Quiet, TakeFailure, playerVars
<1>1. PbTypes'
  BY DEF CleanUp, PbIInv, PbTypes, PbWaits, Flows, BeforeWait, InWait, Over, Outcomes, WaitResults
<1>2. PbLists'
  <2>1. failures' \in {failures, <<>>} /\ events' \in {events, Tail(events), <<>>} /\ end' = end
    BY DEF CleanUp
  <2> QED
    BY <2>1, ListsShrink DEF PbIInv
<1>3. PbFailure'
  BY DEF CleanUp, PbIInv, PbTypes, PbFailure, PbWaits, BeforeWait
<1>4. PbWaits'
  BY DEF CleanUp, PbIInv, PbTypes, PbFailure, PbWaits, BeforeWait, InWait, Over, WaitResults
<1>5. PbTimeout'
  BY DEF CleanUp, PbIInv, PbTypes, PbFailure, PbTimeout, PbWaits, InWait, Over, WaitResults
<1>6. PbOwned'
  BY DEF CleanUp, PbIInv, PbTypes, PbOwned
<1> QED
  BY <1>1, <1>2, <1>3, <1>4, <1>5, <1>6 DEF PbIInv

(* Every step of playback keeps it. *)
LEMMA PbStep == PbIInv /\ PbNext => PbIInv'
BY SegmentStep, RefuseStep, PlayerEventStep, PlayerResultStep, ContextEndsStep, NextLectureStep,
   OpenStreamStep, StartPlayerStep, LoadStep, TakeReadinessStep, ReadinessTimeoutStep, DrainOneStep, PollFailureStep,
   PollPlayerStep, PollAgainStep, SeekStep, BeginWaitStep, ReceiveFailureStep, RecordFailureStep, WaitCanceledStep,
   ReceiveResultStep, ReturnResultStep, GiveUpStep, ClosePlayerStep, CleanUpStep
DEF PbNext, PbProgress

(* So does a step of another part. *)
LEMMA PbStutter == PbIInv /\ UNCHANGED pbVars => PbIInv'
BY DEF PbIInv, PbTypes, PbLists, PbFailure, PbWaits, PbTimeout, PbOwned, pbVars

(* The invariant implies what the runs check of playback. *)
LEMMA PbInvariance == PbIInv => PbSafe
<1> SUFFICES ASSUME PbIInv PROVE PbSafe
  OBVIOUS
<1>1. PbTypeOK
  <2>1. Len(failures) <= 1
    <3>1. CASE failures = <<>>
      BY <3>1
    <3>2. CASE failures = <<"failure">>
      BY <3>2
    <3> QED
      BY <3>1, <3>2 DEF PbIInv, PbLists
  <2>2. Len(events) <= 2
    <3>1. CASE events = <<>>
      BY <3>1
    <3>2. CASE events = <<"ready">>
      BY <3>2
    <3>3. CASE events = <<"end">>
      BY <3>3
    <3>4. CASE events = <<"ready", "end">>
      BY <3>4
    <3> QED
      BY <3>1, <3>2, <3>3, <3>4 DEF PbIInv, PbLists, EventLists
  <2> QED
    BY <2>1, <2>2 DEF PbIInv, PbTypes, PbTypeOK, WaitResults
<1>2. FailureKept
  BY DEF PbIInv, PbFailure, FailureKept
<1>3. FailureWins
  BY DEF PbIInv, PbWaits, FailureWins, Over, WaitResults
<1>4. TimeoutHonest /\ KeyIntact /\ NothingLeft
  BY DEF PbIInv, PbTypes, PbTimeout, PbOwned, TimeoutHonest, KeyIntact, NothingLeft
<1> QED
  BY <1>1, <1>2, <1>3, <1>4 DEF PbSafe

---------------------------------------------------------------------------
(* The front end. *)

(* What the screen, requests and starts are made of. *)
Screens == {"courses", "lectures", "library", "diagnostics", "playback"}
States == {"running"} \union TerminalStates
OperationKinds == {"playback", "download", "selftest"}
Shown == [id : Operations \union {0}, kind : OperationKinds \union {"none"}, state : States \union {"none"}]
UiStates == [screen : Screens, loading : BOOLEAN, pending : Screens \union {"none"}, auth : {"ready", "unavailable"},
             operation : Shown, course : Courses \union {0}, lectures : Courses \union {0}]
Requests == [target : Screens, course : Courses \union {0}, step : {"load", "authenticate"}]
StartRecords == [kind : OperationKinds, id : Operations \union {0}]

(* What the variables of the front end may be. *)
WsTypes ==
  /\ ui \in UiStates
  /\ early \in [Operations -> States \union {"none"}] /\ told \in [Operations -> States]
  /\ server \in [Operations -> States \union {"none"}]
  /\ queue \in Seq([id : Operations, state : States])
  /\ request # None => request[1] \in Requests
  /\ start # None => start[1] \in StartRecords
  /\ back # None => back[1].cancel \in Operations \union {0}

(* What loads is a request or a start; the lectures are of the course. *)
WsWaits ==
  /\ ~quitting => /\ ui.loading <=> request # None \/ start # None
                  /\ ui.pending # "none" <=> request # None
                  /\ request = None \/ start = None
  /\ quitting => ui.pending = "none" /\ ~ui.loading
  /\ request # None /\ request[1].step = "load" /\ request[1].target = "lectures" => request[1].course = ui.course
  /\ ui.lectures \in {0, ui.course}

(* A navigation that was accepted is one the way back has to notice. *)
WsBack == (accepted => moved) /\ ~undone

(* What was told of an operation is on the screen or kept for the answer of its
   start; of one that is not started nothing was told. *)
Kept(o) == IF early[o] = "none" THEN "running" ELSE early[o]
WsOps ==
  /\ ui.operation.id # 0 => /\ server[ui.operation.id] # "none" /\ early[ui.operation.id] = "none"
                            /\ ui.operation.state = told[ui.operation.id]
  /\ \A o \in Operations : server[o] = "none" => told[o] = "running" /\ early[o] = "none"
  /\ \A i \in 1..Len(queue) : server[queue[i].id] # "none"
  /\ ~StartingOperation(ui) => \A o \in Operations : early[o] = "none"
  /\ start # None /\ start[1].id # 0 =>
       /\ server[start[1].id] # "none" /\ ui.operation.id # start[1].id
       /\ ~quitting => told[start[1].id] = Kept(start[1].id)

(* An operation has two events, one for its start. *)
RunningOps == {o \in Operations : server[o] = "running"}
WsRoom == Len(queue) + 2 * Cardinality(Unstarted) + Cardinality(RunningOps) <= 2 * MaxStarts

(* The invariant of the front end. *)
WsIInv == WsTypes /\ WsWaits /\ WsBack /\ WsOps /\ WsRoom

(* Operations are finitely many, and so is each set of them. *)
LEMMA OpsCounted ==
  /\ IsFiniteSet(Operations) /\ Cardinality(Operations) = MaxStarts
  /\ \A S \in SUBSET Operations : IsFiniteSet(S) /\ Cardinality(S) \in Nat
<1>1. IsFiniteSet(Operations) /\ Cardinality(Operations) = MaxStarts
  BY FS_Interval, WorkspaceAssumption DEF Operations
<1> QED
  BY <1>1, FS_Subset, FS_CardinalityType

(* The front end starts in the invariant. *)
LEMMA WsInitIInv == WsInit => WsIInv
<1> SUFFICES ASSUME WsInit PROVE WsIInv
  OBVIOUS
<1>1. PICK auth \in {"ready", "unavailable"} :
        ui = [screen |-> "courses", loading |-> FALSE, pending |-> "none", auth |-> auth,
              operation |-> NoOperation, course |-> 0, lectures |-> 0]
  BY DEF WsInit
<1>2. NoOperation \in Shown
  BY DEF NoOperation, Shown
<1>3. WsTypes
  <2>1. queue \in Seq([id : Operations, state : States])
    BY DEF WsInit
  <2>2. ui \in UiStates
    BY <1>1, <1>2 DEF UiStates, Screens
  <2>3. request = None /\ start = None /\ back = None
    BY DEF WsInit
  <2> QED
    BY <2>1, <2>2, <2>3 DEF WsInit, WsTypes, States
<1>4. WsWaits /\ WsBack
  BY <1>1 DEF WsInit, WsWaits, WsBack, None
<1>5. WsOps
  BY <1>1 DEF WsInit, WsOps, NoOperation, None
<1>6. WsRoom
  <2>1. Unstarted = Operations /\ RunningOps = {}
    BY DEF WsInit, Unstarted, RunningOps
  <2>2. Cardinality({}) = 0
    BY FS_EmptySet
  <2>3. Len(queue) = 0
    BY DEF WsInit
  <2> QED
    BY <2>1, <2>2, <2>3, OpsCounted, WorkspaceAssumption DEF WsRoom
<1> QED
  BY <1>3, <1>4, <1>5, <1>6 DEF WsIInv

(* The state is set without any change of what is shown but the state of the operation. *)
LEMMA SetQuietly ==
  ASSUME WsIInv, NEW s \in UiStates, SetState(s), s.operation.id \in {0, ui.operation.id}
  PROVE  /\ ui' = s /\ (moved' <=> moved \/ ~SameNavigation(ui, s))
         /\ early' = (IF StartingOperation(s) THEN early ELSE [o \in Operations |-> "none"])
<1>1. ~(s.operation.id # 0 /\ early[s.operation.id] # "none")
  BY DEF WsIInv, WsOps
<1> QED
  BY <1>1 DEF SetState

(* The screen moves and the operations do not. *)
LEMMA ScreenMoves ==
  ASSUME WsIInv, NEW s \in UiStates, SetState(s), s.operation = ui.operation \/ s.operation = NoOperation,
         UNCHANGED serverVars,
         start' # None /\ start'[1].id # 0 => start' = start /\ (~quitting' => StartingOperation(s) /\ ~quitting)
  PROVE  /\ ui' = s /\ (moved' <=> moved \/ ~SameNavigation(ui, s))
         /\ early' \in [Operations -> States \union {"none"}]
         /\ WsOps' /\ WsRoom'
<1>1. s.operation.id \in {0, ui.operation.id}
  BY DEF NoOperation
<1>2. /\ ui' = s /\ (moved' <=> moved \/ ~SameNavigation(ui, s))
      /\ early' = (IF StartingOperation(s) THEN early ELSE [o \in Operations |-> "none"])
  BY <1>1, SetQuietly
<1>3. early' \in [Operations -> States \union {"none"}] /\ \A o \in Operations : early'[o] \in {early[o], "none"}
  BY <1>2 DEF WsIInv, WsTypes
<1>4. ui.operation.id \in Operations \union {0}
  BY DEF WsIInv, WsTypes, UiStates, Shown
<1>5. start' # None /\ start'[1].id # 0 => start[1].id \in Operations
  BY DEF WsIInv, WsTypes, StartRecords
<1>6. server' = server /\ queue' = queue /\ told' = told
  BY DEF serverVars
<1>7. ui'.operation.id # 0 => ui'.operation = ui.operation
  BY <1>2 DEF NoOperation
<1>8. ~StartingOperation(ui)' => \A o \in Operations : early'[o] = "none"
  BY <1>2 DEF StartingOperation
<1>9. start' # None /\ start'[1].id # 0 =>
       /\ server'[start'[1].id] # "none" /\ ui'.operation.id # start'[1].id
       /\ ~quitting' => told'[start'[1].id] = Kept(start[1].id)'
  <2> SUFFICES ASSUME start' # None, start'[1].id # 0
               PROVE  /\ server'[start'[1].id] # "none" /\ ui'.operation.id # start'[1].id
                      /\ ~quitting' => told'[start'[1].id] = Kept(start[1].id)'
    OBVIOUS
  <2>1. start' = start /\ start # None /\ start[1].id # 0 /\ (~quitting' => StartingOperation(s) /\ ~quitting)
    OBVIOUS
  <2>2. server[start[1].id] # "none" /\ ui.operation.id # start[1].id
    BY <2>1 DEF WsIInv, WsOps
  <2>3. ui'.operation.id # start[1].id
    BY <1>7, <2>1, <2>2
  <2>4. ASSUME ~quitting' PROVE told[start[1].id] = Kept(start[1].id)'
    <3>1. early' = early /\ told[start[1].id] = Kept(start[1].id)
      BY <1>2, <2>1, <2>4 DEF WsIInv, WsOps
    <3> QED
      BY <2>1, <3>1 DEF Kept
  <2> QED
    BY <1>6, <2>1, <2>2, <2>3, <2>4
<1>10. WsOps'
  <2>1. ui'.operation.id # 0 => /\ server'[ui'.operation.id] # "none" /\ early'[ui'.operation.id] = "none"
                                /\ ui'.operation.state = told'[ui'.operation.id]
    BY <1>3, <1>4, <1>6, <1>7 DEF WsIInv, WsOps
  <2>2. \A o \in Operations : server'[o] = "none" => told'[o] = "running" /\ early'[o] = "none"
    BY <1>3, <1>6 DEF WsIInv, WsOps
  <2>3. \A i \in 1..Len(queue') : server'[queue'[i].id] # "none"
    BY <1>6 DEF WsIInv, WsOps
  <2> QED
    BY <2>1, <2>2, <2>3, <1>8, <1>9 DEF WsOps
<1>11. WsRoom'
  BY <1>6 DEF WsIInv, WsRoom, Unstarted, RunningOps
<1> QED
  BY <1>2, <1>3, <1>10, <1>11

(* What is loading after a request is begun. *)
LEMMA BeginStep ==
  ASSUME WsIInv, ~quitting, UNCHANGED quitting, ~ui.loading, accepted' = TRUE,
         NEW target \in Screens, NEW course \in Courses \union {0}, NEW step \in {"load", "authenticate"},
         target = "lectures" /\ step = "load" => course # 0,
         BeginRequest(target, course, step)
  PROVE  WsIInv'
<1> DEFINE s == [ui EXCEPT !.loading = TRUE, !.pending = target, !.screen = target,
                           !.course = IF course # 0 THEN course ELSE @,
                           !.lectures = IF course \notin {0, ui.course} THEN 0 ELSE @]
<1>1. /\ SetState(s) /\ UNCHANGED <<start, back, serverVars, undone, quitting>>
      /\ request' = <<[target |-> target, course |-> course, step |-> step]>>
  BY DEF BeginRequest
<1>2. /\ s \in UiStates /\ s.operation = ui.operation /\ s.loading /\ s.pending = target
      /\ s.course = (IF course # 0 THEN course ELSE ui.course)
      /\ s.lectures = (IF course \notin {0, ui.course} THEN 0 ELSE ui.lectures)
  BY DEF WsIInv, WsTypes, UiStates
<1>3. request = None /\ start = None /\ ui.pending = "none"
  BY DEF WsIInv, WsWaits
<1> HIDE DEF s
<1>4. /\ ui' = s /\ (moved' <=> moved \/ ~SameNavigation(ui, s))
      /\ early' \in [Operations -> States \union {"none"}]
      /\ WsOps' /\ WsRoom'
  BY <1>1, <1>2, <1>3, ScreenMoves
<1>5. target # "none"
  BY DEF Screens
<1>6. moved'
  BY <1>2, <1>3, <1>4, <1>5 DEF SameNavigation
<1>7. /\ request' # None /\ request'[1] = [target |-> target, course |-> course, step |-> step]
  BY <1>1 DEF None
<1>8. WsTypes'
  BY <1>1, <1>2, <1>3, <1>4, <1>7 DEF WsIInv, WsTypes, serverVars, Requests
<1>9. WsWaits'
  BY <1>1, <1>2, <1>3, <1>4, <1>5, <1>7 DEF WsIInv, WsWaits
<1>10. WsBack'
  BY <1>1, <1>6 DEF WsIInv, WsBack
<1> QED
  BY <1>4, <1>8, <1>9, <1>10 DEF WsIInv

(* A navigation or a retry of the user. *)
LEMMA NavigateStep ==
  ASSUME WsIInv, Navigate \/ Retry
  PROVE  WsIInv'
<1>1. ~ui.loading /\ ~quitting /\ accepted' = TRUE
  BY DEF Navigate, Retry, Input
<1>2. /\ ui.screen \in Screens /\ ui.course \in Courses \union {0} /\ 0 \notin Courses
      /\ {"courses", "lectures", "library", "diagnostics"} \subseteq Screens
  BY WorkspaceAssumption DEF WsIInv, WsTypes, UiStates, Screens, Courses
<1>3. \E target \in Screens, course \in Courses \union {0}, step \in {"load", "authenticate"} :
        /\ BeginRequest(target, course, step)
        /\ target = "lectures" /\ step = "load" => course # 0
  <2>1. CASE Navigate
    BY <1>2, <2>1 DEF Navigate
  <2>2. CASE Retry /\ ui.auth # "ready"
    BY <1>2, <2>2 DEF Retry
  <2>3. CASE Retry /\ ui.auth = "ready" /\ ui.screen = "lectures" /\ ui.course # 0
    BY <1>2, <2>3 DEF Retry
  <2>4. CASE Retry /\ ui.auth = "ready" /\ ~(ui.screen = "lectures" /\ ui.course # 0)
    <3>1. BeginRequest(IF ui.screen \in {"library", "diagnostics"} THEN ui.screen ELSE "courses", 0, "load")
      BY <2>4 DEF Retry
    <3>2. CASE ui.screen \in {"library", "diagnostics"}
      BY <1>2, <3>1, <3>2
    <3>3. CASE ui.screen \notin {"library", "diagnostics"}
      BY <1>2, <3>1, <3>3
    <3> QED
      BY <3>2, <3>3
  <2> QED
    BY <2>1, <2>2, <2>3, <2>4
<1>4. UNCHANGED quitting
  BY <1>3 DEF BeginRequest
<1> QED
  BY <1>1, <1>3, <1>4, BeginStep

(* A request is answered, refused, or goes on to its second step. *)
LEMMA AnsweredStep ==
  ASSUME WsIInv, RequestAnswered
  PROVE  WsIInv'
<1> DEFINE r == request[1]
           done == [ui EXCEPT !.loading = FALSE, !.pending = "none"]
<1>1. request # None /\ UNCHANGED <<start, back, serverVars, undone, accepted, inputs, quitting>>
  BY DEF RequestAnswered
<1>2. r \in Requests
  BY <1>1 DEF WsIInv, WsTypes
<1>3. CASE ~Current
  <2>1. request' = None /\ UNCHANGED <<ui, early, moved>> /\ quitting
    BY <1>1, <1>3 DEF RequestAnswered, Current, WsIInv, WsWaits
  <2> QED
    BY <1>1, <2>1 DEF WsIInv, WsTypes, WsWaits, WsBack, WsOps, WsRoom, serverVars, StartingOperation, Kept, Unstarted, RunningOps
<1>4. CASE Current
  <2>1. ~quitting /\ start = None
    BY <1>1, <1>4 DEF Current, WsIInv, WsWaits
  <2>2. PICK s \in UiStates :
          /\ SetState(s) /\ s.operation = ui.operation /\ s.course = ui.course
          /\ s.lectures \in {0, ui.course}
          /\ \/ request' = None /\ ~s.loading /\ s.pending = "none"
             \/ /\ request' = <<[target |-> "courses", course |-> 0, step |-> "load"]>>
                /\ s.loading /\ s.pending # "none"
    <3>1. done \in UiStates /\ done.operation = ui.operation /\ done.course = ui.course /\ done.lectures = ui.lectures
          /\ ~done.loading /\ done.pending = "none"
      BY DEF WsIInv, WsTypes, UiStates
    <3>2. ui.lectures \in {0, ui.course} /\ ui.loading
      BY <1>1, <2>1 DEF WsIInv, WsWaits
    <3>3. CASE r.step = "load" /\ request' = None /\ SetState(IF r.target = "lectures" THEN [done EXCEPT !.lectures = r.course] ELSE done)
      <4> DEFINE t == [done EXCEPT !.lectures = r.course]
      <4>1. CASE r.target = "lectures"
        <5>1. r.course = ui.course
          BY <1>1, <3>3, <4>1 DEF WsIInv, WsWaits
        <5>2. t \in UiStates /\ t.operation = ui.operation /\ t.course = ui.course /\ t.lectures = ui.course
              /\ ~t.loading /\ t.pending = "none"
          BY <1>2, <3>1, <5>1 DEF WsIInv, WsTypes, UiStates, Requests
        <5>3. SetState(t)
          BY <3>3, <4>1
        <5> QED
          BY <3>3, <5>2, <5>3
      <4>2. CASE r.target # "lectures"
        BY <3>1, <3>2, <3>3, <4>2
      <4> QED
        BY <4>1, <4>2
    <3>4. CASE request' = None /\ SetState(done)
      BY <3>1, <3>2, <3>4
    <3>5. CASE /\ r.step = "authenticate"
               /\ request' = <<[target |-> "courses", course |-> 0, step |-> "load"]>>
               /\ SetState([ui EXCEPT !.auth = "ready", !.screen = "courses"])
      <4> DEFINE t == [ui EXCEPT !.auth = "ready", !.screen = "courses"]
      <4>1. t \in UiStates /\ t.operation = ui.operation /\ t.course = ui.course /\ t.lectures = ui.lectures
            /\ t.loading = ui.loading /\ t.pending = ui.pending
        BY DEF WsIInv, WsTypes, UiStates, Screens
      <4>2. SetState(t)
        BY <3>5
      <4>3. t.pending # "none" /\ t.loading
        BY <1>4, <3>2, <4>1 DEF Current
      <4> HIDE DEF t
      <4> QED
        BY <3>2, <3>5, <4>1, <4>2, <4>3
    <3> QED
      BY <1>4, <3>3, <3>4, <3>5 DEF RequestAnswered
  <2>3. start' = None
    BY <1>1, <2>1
  <2>4. /\ ui' = s /\ (moved' <=> moved \/ ~SameNavigation(ui, s))
        /\ early' \in [Operations -> States \union {"none"}]
        /\ WsOps' /\ WsRoom'
    BY <1>1, <2>2, <2>3, ScreenMoves
  <2>5. request' # None => request'[1] = [target |-> "courses", course |-> 0, step |-> "load"] /\ ui'.loading /\ ui'.pending # "none"
    BY <2>2, <2>4 DEF None
  <2>6. request' = None => ~ui'.loading /\ ui'.pending = "none"
    BY <2>2, <2>4 DEF None
  <2>7. WsTypes'
    <3>1. [target |-> "courses", course |-> 0, step |-> "load"] \in Requests
      BY DEF Requests, Screens
    <3> QED
      BY <1>1, <2>2, <2>3, <2>4, <2>5, <3>1 DEF WsIInv, WsTypes, serverVars
  <2>8. WsWaits'
    <3>1. ui'.lectures \in {0, ui'.course}
      BY <2>2, <2>4
    <3>2. request' # None => request'[1].target # "lectures"
      BY <2>5
    <3> QED
      BY <1>1, <2>1, <2>3, <2>5, <2>6, <3>1, <3>2 DEF WsWaits
  <2>9. WsBack'
    BY <1>1, <2>4 DEF WsIInv, WsBack
  <2> QED
    BY <2>4, <2>7, <2>8, <2>9 DEF WsIInv
<1> QED
  BY <1>3, <1>4

(* The user starts an operation. *)
LEMMA StartStep ==
  ASSUME WsIInv, NEW kind \in OperationKinds, StartOperation(kind)
  PROVE  WsIInv'
<1> DEFINE s == IF kind = "playback"
                THEN [ui EXCEPT !.loading = TRUE, !.operation = NoOperation, !.screen = "playback"]
                ELSE [ui EXCEPT !.loading = TRUE]
<1>1. /\ ~quitting /\ accepted' = TRUE /\ ~ui.loading /\ start = None
      /\ start' = <<[kind |-> kind, id |-> 0]>> /\ SetState(s)
      /\ UNCHANGED <<request, back, serverVars, undone, quitting>>
  BY DEF StartOperation, Input
<1>2. request = None /\ ui.pending = "none" /\ ui.lectures \in {0, ui.course}
  BY <1>1 DEF WsIInv, WsWaits
<1>3. /\ s \in UiStates /\ (s.operation = ui.operation \/ s.operation = NoOperation) /\ s.loading
      /\ s.pending = ui.pending /\ s.course = ui.course /\ s.lectures = ui.lectures
  <2>1. NoOperation \in Shown
    BY DEF NoOperation, Shown
  <2>2. CASE kind = "playback"
    BY <2>1, <2>2 DEF WsIInv, WsTypes, UiStates, Screens
  <2>3. CASE kind # "playback"
    BY <2>3 DEF WsIInv, WsTypes, UiStates
  <2> QED
    BY <2>2, <2>3
<1> HIDE DEF s
<1>4. start'[1] = [kind |-> kind, id |-> 0] /\ start' # None
  BY <1>1 DEF None
<1>5. /\ ui' = s /\ (moved' <=> moved \/ ~SameNavigation(ui, s))
      /\ early' \in [Operations -> States \union {"none"}]
      /\ WsOps' /\ WsRoom'
  BY <1>1, <1>3, <1>4, ScreenMoves
<1>6. moved'
  BY <1>1, <1>2, <1>3, <1>5 DEF SameNavigation, StartingOperation
<1>7. WsTypes'
  BY <1>1, <1>3, <1>4, <1>5 DEF WsIInv, WsTypes, serverVars, StartRecords
<1>8. WsWaits'
  BY <1>1, <1>2, <1>3, <1>4, <1>5 DEF WsWaits
<1>9. WsBack'
  BY <1>1, <1>6 DEF WsIInv, WsBack
<1> QED
  BY <1>5, <1>7, <1>8, <1>9 DEF WsIInv

(* A set of operations has a first one. *)
LEMMA LeastOperation ==
  ASSUME NEW S, S \subseteq Operations, S # {}
  PROVE  \E n \in S : \A k \in S : n <= k
<1> DEFINE R == OpToRel(<, Nat)
<1>1. IsWellFoundedOn(R, Nat)
  BY NatLessThanWellFounded, Zenon
<1>2. \A k, n \in Nat : k < n => <<k, n>> \in R
  BY DEF OpToRel
<1>3. S \subseteq Nat
  BY WorkspaceAssumption DEF Operations
<1> HIDE DEF R
<1>4. PICK n \in S : \A k \in S : ~(<<k, n>> \in R)
  BY <1>1, <1>3, WFMin
<1>5. \A k \in S : ~(k < n)
  BY <1>2, <1>3, <1>4
<1> QED
  BY <1>3, <1>5

(* The session starts it, and tells so. *)
LEMMA SessionStartsStep ==
  ASSUME WsIInv, SessionStarts
  PROVE  WsIInv'
<1>0. Unstarted # {}
  BY DEF SessionStarts
<1>2. PICK o \in Unstarted : o = CHOOSE n \in Unstarted : \A p \in Unstarted : n <= p
  BY <1>0, LeastOperation DEF Unstarted
<1>1. /\ start # None /\ start[1].id = 0 /\ Unstarted # {}
      /\ start' = <<[start[1] EXCEPT !.id = o]>>
      /\ server' = [server EXCEPT ![o] = "running"]
      /\ queue' = Append(queue, [id |-> o, state |-> "running"])
      /\ UNCHANGED <<ui, early, moved, request, back, told, undone, accepted, inputs, quitting>>
  BY <1>2 DEF SessionStarts
<1>2a. o \in Unstarted
  OBVIOUS
<1>3. o \in Operations /\ server[o] = "none" /\ o # 0
  BY <1>2a, WorkspaceAssumption DEF Unstarted, Operations
<1>4. start[1] \in StartRecords
  BY <1>1 DEF WsIInv, WsTypes
<1>5. start' # None /\ start'[1] = [start[1] EXCEPT !.id = o]
  BY <1>1 DEF None
<1>6. start'[1] \in StartRecords /\ start'[1].id = o
  BY <1>3, <1>4, <1>5 DEF StartRecords
<1>7. /\ queue \in Seq([id : Operations, state : States])
      /\ server \in [Operations -> States \union {"none"}]
  BY DEF WsIInv, WsTypes
<1>8. /\ [id |-> o, state |-> "running"] \in [id : Operations, state : States]
      /\ "running" \in States
  BY <1>3 DEF States
<1>9. /\ queue' \in Seq([id : Operations, state : States])
      /\ Len(queue') = Len(queue) + 1
      /\ queue'[Len(queue) + 1].id = o
      /\ \A i \in 1..Len(queue) : queue'[i] = queue[i]
  BY <1>1, <1>7, <1>8
<1>10. server' \in [Operations -> States \union {"none"}]
  BY <1>1, <1>7, <1>8
<1>11. WsTypes'
  BY <1>1, <1>5, <1>6, <1>9, <1>10 DEF WsIInv, WsTypes
<1>12. WsWaits'
  BY <1>1, <1>5 DEF WsIInv, WsWaits
<1>13. WsOps'
  <2>1. \A p \in Operations : server'[p] = (IF p = o THEN "running" ELSE server[p])
    BY <1>1, <1>7
  <2>2. ui.operation.id # o
    BY <1>3 DEF WsIInv, WsOps
  <2>3. ui.operation.id \in Operations \union {0}
    BY DEF WsIInv, WsTypes, UiStates, Shown
  <2>4. ui'.operation.id # 0 => /\ server'[ui'.operation.id] # "none" /\ early'[ui'.operation.id] = "none"
                                /\ ui'.operation.state = told'[ui'.operation.id]
    BY <1>1, <2>1, <2>3 DEF WsIInv, WsOps
  <2>5. \A p \in Operations : server'[p] = "none" => told'[p] = "running" /\ early'[p] = "none"
    BY <1>1, <2>1 DEF WsIInv, WsOps
  <2>6. \A i \in 1..Len(queue') : server'[queue'[i].id] # "none"
    <3> SUFFICES ASSUME NEW i \in 1..Len(queue') PROVE server'[queue'[i].id] # "none"
      OBVIOUS
    <3>1. CASE i = Len(queue) + 1
      BY <1>3, <1>9, <2>1, <3>1
    <3>2. CASE i # Len(queue) + 1
      <4>1. i \in 1..Len(queue)
        BY <1>7, <1>9, <3>2
      <4>2. queue[i] \in [id : Operations, state : States]
        BY <1>7, <4>1, ElementOfSeq
      <4>3. server[queue[i].id] # "none"
        BY <4>1, Zenon DEF WsIInv, WsOps
      <4> QED
        BY <1>9, <2>1, <4>1, <4>2, <4>3
    <3> QED
      BY <3>1, <3>2
  <2>7. ~StartingOperation(ui)' => \A p \in Operations : early'[p] = "none"
    BY <1>1 DEF WsIInv, WsOps, StartingOperation
  <2>8. told'[o] = Kept(o)'
    BY <1>1, <1>3 DEF WsIInv, WsOps, Kept
  <2>9. start'[1].id # 0 =>
          /\ server'[start'[1].id] # "none" /\ ui'.operation.id # start'[1].id
          /\ ~quitting' => told'[start'[1].id] = Kept(start[1].id)'
    <3>1. server'[start'[1].id] # "none" /\ ui'.operation.id # start'[1].id
      BY <1>1, <1>3, <1>6, <2>1, <2>2
    <3>2. told'[start'[1].id] = Kept(start[1].id)'
      BY <1>6, <2>8 DEF Kept
    <3> QED
      BY <3>1, <3>2
  <2> QED
    BY <2>4, <2>5, <2>6, <2>7, <2>9 DEF WsOps
<1>14. WsRoom'
  <2>1. Unstarted' = Unstarted \ {o} /\ RunningOps' = RunningOps \union {o} /\ o \notin RunningOps
    BY <1>1, <1>3, <1>7 DEF Unstarted, RunningOps
  <2>2. Unstarted \in SUBSET Operations /\ RunningOps \in SUBSET Operations
    BY DEF Unstarted, RunningOps
  <2>3. Cardinality(Unstarted') = Cardinality(Unstarted) - 1 /\ Cardinality(RunningOps') = Cardinality(RunningOps) + 1
    BY <1>2, <2>1, <2>2, OpsCounted, FS_RemoveElement, FS_AddElement
  <2>4. Cardinality(Unstarted) \in Nat /\ Cardinality(RunningOps) \in Nat /\ Len(queue) \in Nat
    BY <1>7, <2>2, OpsCounted
  <2> QED
    BY <1>9, <2>3, <2>4, WorkspaceAssumption DEF WsIInv, WsRoom
<1>15. WsBack'
  BY <1>1 DEF WsIInv, WsBack
<1> QED
  BY <1>11, <1>12, <1>13, <1>14, <1>15 DEF WsIInv

(* The answer installs it in the state that was told meanwhile. *)
LEMMA StartAnsweredStep ==
  ASSUME WsIInv, StartAnswered
  PROVE  WsIInv'
<1>0. start # None /\ start[1] \in StartRecords /\ start[1].id # 0 /\ ~quitting
  BY DEF StartAnswered, WsIInv, WsTypes
<1>1. PICK o \in Operations, kind \in OperationKinds : start[1].id = o /\ start[1].kind = kind /\ o # 0
  BY <1>0 DEF StartRecords
<1> DEFINE s == [ui EXCEPT !.loading = FALSE, !.operation = [id |-> o, kind |-> kind, state |-> "running"]]
           t == [s EXCEPT !.operation.state = early[o]]
<1>2. /\ SetState(s) /\ start' = None
      /\ UNCHANGED <<request, back, serverVars, undone, accepted, inputs, quitting>>
  BY <1>1 DEF StartAnswered
<1>3. request = None /\ ui.pending = "none" /\ ui.lectures \in {0, ui.course}
  BY <1>0 DEF WsIInv, WsWaits
<1>4. [id |-> o, kind |-> kind, state |-> "running"] \in Shown
  BY <1>1 DEF Shown, States
<1>5. ui \in UiStates /\ early \in [Operations -> States \union {"none"}] /\ early[o] \in States \union {"none"}
  BY DEF WsIInv, WsTypes
<1>6. /\ s \in UiStates /\ ~s.loading /\ s.pending = ui.pending /\ s.course = ui.course /\ s.lectures = ui.lectures
      /\ s.operation = [id |-> o, kind |-> kind, state |-> "running"]
  BY <1>4, <1>5 DEF UiStates
<1>7. /\ t \in UiStates /\ ~t.loading /\ t.pending = ui.pending /\ t.course = ui.course /\ t.lectures = ui.lectures
      /\ t.operation.id = o /\ t.operation.state = early[o]
  <2>1. [[id |-> o, kind |-> kind, state |-> "running"] EXCEPT !.state = early[o]] \in Shown
    BY <1>1, <1>5 DEF Shown
  <2>2. t = [s EXCEPT !.operation = [[id |-> o, kind |-> kind, state |-> "running"] EXCEPT !.state = early[o]]]
    BY <1>6
  <2>3. [[id |-> o, kind |-> kind, state |-> "running"] EXCEPT !.state = early[o]] = [id |-> o, kind |-> kind, state |-> early[o]]
    OBVIOUS
  <2> HIDE DEF s
  <2> QED
    BY <1>6, <2>1, <2>2, <2>3 DEF UiStates
<1>8. s.operation.id = o /\ s.operation.state = "running"
  BY <1>6
<1> HIDE DEF s, t
<1>9. /\ ui' = (IF early[o] # "none" THEN t ELSE s)
      /\ early' = [p \in Operations |-> "none"] /\ (moved' <=> moved \/ ~SameNavigation(ui, s))
  <2>1. ~StartingOperation(s)
    BY <1>6 DEF StartingOperation
  <2>2. ui' = (IF early[o] # "none" THEN [s EXCEPT !.operation.state = early[o]] ELSE s)
    BY <1>1, <1>2, <1>8 DEF SetState
  <2>3. ui' = (IF early[o] # "none" THEN t ELSE s)
    BY <2>2 DEF t
  <2> QED
    BY <1>2, <2>1, <2>3 DEF SetState
<1>10. /\ ui' \in UiStates /\ ~ui'.loading /\ ui'.pending = "none" /\ ui'.course = ui.course /\ ui'.lectures = ui.lectures
       /\ ui'.operation.id = o /\ ui'.operation.state = Kept(o)
  BY <1>3, <1>6, <1>7, <1>8, <1>9 DEF Kept
<1>11. WsTypes'
  BY <1>2, <1>9, <1>10 DEF WsIInv, WsTypes, serverVars, States
<1>12. WsWaits'
  BY <1>2, <1>3, <1>10 DEF WsWaits
<1>13. WsBack'
  BY <1>2, <1>9 DEF WsIInv, WsBack
<1>14. WsOps'
  <2>1. server' = server /\ queue' = queue /\ told' = told
    BY <1>2 DEF serverVars
  <2>2. server[o] # "none" /\ told[o] = Kept(o)
    BY <1>0, <1>1 DEF WsIInv, WsOps
  <2>3. \A p \in Operations : early'[p] = "none"
    BY <1>9
  <2>4. \A p \in Operations : server[p] = "none" => told[p] = "running"
    BY DEF WsIInv, WsOps
  <2>5. \A i \in 1..Len(queue') : server'[queue'[i].id] # "none"
    BY <2>1 DEF WsIInv, WsOps
  <2> QED
    BY <1>2, <1>10, <2>1, <2>2, <2>3, <2>4, <2>5 DEF WsOps
<1>15. WsRoom'
  BY <1>2 DEF WsIInv, WsRoom, Unstarted, RunningOps, serverVars
<1> QED
  BY <1>11, <1>12, <1>13, <1>14, <1>15 DEF WsIInv

(* The start has failed. *)
LEMMA StartFailsStep ==
  ASSUME WsIInv, StartFails
  PROVE  WsIInv'
<1> DEFINE s == [ui EXCEPT !.loading = FALSE]
<1>1. /\ start # None /\ ~quitting /\ start' = None /\ SetState(s)
      /\ UNCHANGED <<request, back, serverVars, undone, accepted, inputs, quitting>>
  BY DEF StartFails
<1>2. request = None /\ ui.pending = "none" /\ ui.lectures \in {0, ui.course}
  BY <1>1 DEF WsIInv, WsWaits
<1>3. /\ s \in UiStates /\ s.operation = ui.operation /\ ~s.loading
      /\ s.pending = ui.pending /\ s.course = ui.course /\ s.lectures = ui.lectures
  BY DEF WsIInv, WsTypes, UiStates
<1> HIDE DEF s
<1>4. /\ ui' = s /\ (moved' <=> moved \/ ~SameNavigation(ui, s))
      /\ early' \in [Operations -> States \union {"none"}]
      /\ WsOps' /\ WsRoom'
  BY <1>1, <1>3, ScreenMoves
<1>5. WsTypes'
  BY <1>1, <1>3, <1>4 DEF WsIInv, WsTypes, serverVars
<1>6. WsWaits'
  BY <1>1, <1>2, <1>3, <1>4 DEF WsWaits
<1>7. WsBack'
  BY <1>1, <1>4 DEF WsIInv, WsBack
<1> QED
  BY <1>4, <1>5, <1>6, <1>7 DEF WsIInv

(* The session ends an operation, and tells so. *)
LEMMA SessionEndsStep ==
  ASSUME WsIInv, NEW o \in Operations, NEW state \in TerminalStates, SessionEnds(o, state)
  PROVE  WsIInv'
<1>1. /\ server[o] = "running"
      /\ server' = [server EXCEPT ![o] = state]
      /\ queue' = Append(queue, [id |-> o, state |-> state])
      /\ UNCHANGED <<ui, early, moved, request, start, back, told, undone, accepted, inputs, quitting>>
  BY DEF SessionEnds
<1>2. /\ queue \in Seq([id : Operations, state : States])
      /\ server \in [Operations -> States \union {"none"}]
  BY DEF WsIInv, WsTypes
<1>3. state \in States /\ state # "none" /\ state # "running" /\ [id |-> o, state |-> state] \in [id : Operations, state : States]
  BY DEF States, TerminalStates
<1>4. /\ queue' \in Seq([id : Operations, state : States])
      /\ Len(queue') = Len(queue) + 1
      /\ queue'[Len(queue) + 1].id = o
      /\ \A i \in 1..Len(queue) : queue'[i] = queue[i]
  BY <1>1, <1>2, <1>3
<1>5. \A p \in Operations : server'[p] = (IF p = o THEN state ELSE server[p])
  BY <1>1, <1>2
<1>6. server' \in [Operations -> States \union {"none"}]
  BY <1>1, <1>2, <1>3
<1>7. WsTypes' /\ WsWaits' /\ WsBack'
  <2>1. WsTypes'
    BY <1>1, <1>4, <1>6 DEF WsIInv, WsTypes
  <2>2. WsWaits'
    BY <1>1 DEF WsIInv, WsWaits
  <2>3. WsBack'
    BY <1>1 DEF WsIInv, WsBack
  <2> QED
    BY <2>1, <2>2, <2>3
<1>8. WsOps'
  <2>1. ui.operation.id \in Operations \union {0}
    BY DEF WsIInv, WsTypes, UiStates, Shown
  <2>2. start # None => start[1].id \in Operations \union {0}
    BY DEF WsIInv, WsTypes, StartRecords
  <2>3. \A p \in Operations : server[p] # "none" => server'[p] # "none"
    BY <1>3, <1>5
  <2>4. \A p \in Operations : server'[p] = "none" => server[p] = "none"
    BY <1>3, <1>5
  <2>5. \A i \in 1..Len(queue') : server'[queue'[i].id] # "none"
    <3> SUFFICES ASSUME NEW i \in 1..Len(queue') PROVE server'[queue'[i].id] # "none"
      OBVIOUS
    <3>1. CASE i = Len(queue) + 1
      BY <1>1, <1>4, <2>3, <3>1
    <3>2. CASE i # Len(queue) + 1
      <4>1. i \in 1..Len(queue)
        BY <1>2, <1>4, <3>2
      <4>2. queue[i] \in [id : Operations, state : States]
        BY <1>2, <4>1, ElementOfSeq
      <4>3. server[queue[i].id] # "none"
        BY <4>1, Zenon DEF WsIInv, WsOps
      <4> QED
        BY <1>4, <2>3, <4>1, <4>2, <4>3
    <3> QED
      BY <3>1, <3>2
  <2>6. ui'.operation.id # 0 => /\ server'[ui'.operation.id] # "none" /\ early'[ui'.operation.id] = "none"
                                /\ ui'.operation.state = told'[ui'.operation.id]
    BY <1>1, <2>1, <2>3 DEF WsIInv, WsOps
  <2>7. \A p \in Operations : server'[p] = "none" => told'[p] = "running" /\ early'[p] = "none"
    BY <1>1, <2>4 DEF WsIInv, WsOps
  <2>8. ~StartingOperation(ui)' => \A p \in Operations : early'[p] = "none"
    BY <1>1 DEF WsIInv, WsOps, StartingOperation
  <2>9. start' # None /\ start'[1].id # 0 =>
          /\ server'[start'[1].id] # "none" /\ ui'.operation.id # start'[1].id
          /\ ~quitting' => told'[start'[1].id] = Kept(start[1].id)'
    BY <1>1, <2>2, <2>3 DEF WsIInv, WsOps, Kept
  <2> QED
    BY <2>5, <2>6, <2>7, <2>8, <2>9 DEF WsOps
<1>9. WsRoom'
  <2>1. Unstarted' = Unstarted /\ RunningOps' = RunningOps \ {o} /\ o \in RunningOps
    BY <1>1, <1>3, <1>5 DEF Unstarted, RunningOps
  <2>2. Unstarted \in SUBSET Operations /\ RunningOps \in SUBSET Operations
    BY DEF Unstarted, RunningOps
  <2>3. Cardinality(Unstarted') = Cardinality(Unstarted) /\ Cardinality(RunningOps') = Cardinality(RunningOps) - 1
    BY <2>1, <2>2, OpsCounted, FS_RemoveElement
  <2>4. Cardinality(Unstarted) \in Nat /\ Cardinality(RunningOps) \in Nat /\ Len(queue) \in Nat
    BY <1>2, <2>2, OpsCounted
  <2> QED
    BY <1>4, <2>3, <2>4, WorkspaceAssumption DEF WsIInv, WsRoom
<1> QED
  BY <1>7, <1>8, <1>9 DEF WsIInv

(* An event is delivered: of the operation shown, or too early. *)
LEMMA ApplyStep ==
  ASSUME WsIInv, ApplyEvent
  PROVE  WsIInv'
<1>1. /\ queue \in Seq([id : Operations, state : States]) /\ queue # <<>> /\ ~quitting
      /\ early \in [Operations -> States \union {"none"}] /\ told \in [Operations -> States]
      /\ ui \in UiStates
  BY DEF WsIInv, WsTypes, ApplyEvent
<1>2. queue[1] \in [id : Operations, state : States] /\ Head(queue) = queue[1] /\ 1 \in 1..Len(queue)
  <2>1. 1 \in 1..Len(queue)
    BY <1>1
  <2>2. queue[1] \in [id : Operations, state : States]
    BY <1>1, <2>1, ElementOfSeq
  <2>3. Head(queue) = queue[1]
    BY <1>1
  <2> QED
    BY <2>1, <2>2, <2>3
<1>3. PICK o \in Operations, state \in States : queue[1].id = o /\ queue[1].state = state
  BY <1>2
<1>4. server[o] # "none" /\ o # 0
  <2>1. server[queue[1].id] # "none"
    BY <1>2, Zenon DEF WsIInv, WsOps
  <2> QED
    BY <1>3, <2>1, WorkspaceAssumption DEF Operations
<1>5. /\ queue' = Tail(queue) /\ told' = [told EXCEPT ![o] = state]
      /\ UNCHANGED <<request, start, back, server, undone, accepted, inputs, quitting>>
  BY <1>2, <1>3 DEF ApplyEvent
<1>6. /\ queue' \in Seq([id : Operations, state : States]) /\ Len(queue') = Len(queue) - 1
      /\ \A i \in 1..Len(queue') : i + 1 \in 1..Len(queue) /\ queue'[i] = queue[i + 1]
  BY <1>1, <1>5
<1>7. told' \in [Operations -> States] /\ \A p \in Operations : told'[p] = (IF p = o THEN state ELSE told[p])
  BY <1>1, <1>5
<1>8. \A i \in 1..Len(queue') : server'[queue'[i].id] # "none"
  BY <1>5, <1>6, Zenon DEF WsIInv, WsOps
<1>9. WsRoom'
  <2>1. Unstarted' = Unstarted /\ RunningOps' = RunningOps
    BY <1>5 DEF Unstarted, RunningOps
  <2>2. Cardinality(Unstarted) \in Nat /\ Cardinality(RunningOps) \in Nat /\ Len(queue) \in Nat
    BY <1>1, OpsCounted DEF Unstarted, RunningOps
  <2> QED
    BY <1>6, <2>1, <2>2, WorkspaceAssumption DEF WsIInv, WsRoom
<1>10. /\ ui.operation.id \in Operations \union {0}
       /\ start # None => start[1].id \in Operations \union {0}
  BY DEF WsIInv, WsTypes, UiStates, Shown, StartRecords
<1>11. \A p \in Operations : server'[p] = "none" => told'[p] = "running"
  BY <1>4, <1>5, <1>7 DEF WsIInv, WsOps
<1>12. start # None => StartingOperation(ui)
  BY <1>1 DEF WsIInv, WsWaits, StartingOperation
<1>13. CASE ui.operation.id = o
  <2> DEFINE s == [ui EXCEPT !.operation.state = state]
  <2>1. SetState(s)
    BY <1>2, <1>3, <1>13 DEF ApplyEvent
  <2>2. /\ s \in UiStates /\ s.loading = ui.loading /\ s.pending = ui.pending /\ s.course = ui.course
        /\ s.lectures = ui.lectures /\ s.operation.id = ui.operation.id /\ s.operation.state = state
    <3>1. s = [ui EXCEPT !.operation = [ui.operation EXCEPT !.state = state]]
      OBVIOUS
    <3>2. ui.operation \in Shown
      BY <1>1 DEF UiStates
    <3>3. [ui.operation EXCEPT !.state = state] \in Shown /\ [ui.operation EXCEPT !.state = state].id = ui.operation.id
          /\ [ui.operation EXCEPT !.state = state].state = state
      BY <3>2 DEF Shown
    <3> QED
      BY <1>1, <3>1, <3>3 DEF UiStates
  <2> HIDE DEF s
  <2>3. /\ ui' = s /\ (moved' <=> moved \/ ~SameNavigation(ui, s))
        /\ early' = (IF StartingOperation(s) THEN early ELSE [p \in Operations |-> "none"])
    BY <2>1, <2>2, SetQuietly
  <2>4. early' \in [Operations -> States \union {"none"}] /\ \A p \in Operations : early'[p] \in {early[p], "none"}
    BY <1>1, <2>3
  <2>5. StartingOperation(s) = StartingOperation(ui)
    BY <2>2 DEF StartingOperation
  <2>6. WsTypes'
    BY <1>5, <1>6, <1>7, <2>2, <2>3, <2>4 DEF WsIInv, WsTypes
  <2>7. WsWaits'
    BY <1>5, <2>2, <2>3 DEF WsIInv, WsWaits
  <2>8. WsBack'
    BY <1>5, <2>3 DEF WsIInv, WsBack
  <2>9. WsOps'
    <3>1. ui'.operation.id # 0 => /\ server'[ui'.operation.id] # "none" /\ early'[ui'.operation.id] = "none"
                                  /\ ui'.operation.state = told'[ui'.operation.id]
      <4>1. early[o] = "none"
        BY <1>4, <1>13 DEF WsIInv, WsOps
      <4> QED
        BY <1>4, <1>5, <1>7, <1>13, <2>2, <2>3, <2>4, <4>1
    <3>2. \A p \in Operations : server'[p] = "none" => early'[p] = "none"
      BY <1>5, <2>4 DEF WsIInv, WsOps
    <3>3. ~StartingOperation(ui)' => \A p \in Operations : early'[p] = "none"
      BY <2>3 DEF StartingOperation
    <3>4. start' # None /\ start'[1].id # 0 =>
            /\ server'[start'[1].id] # "none" /\ ui'.operation.id # start'[1].id
            /\ ~quitting' => told'[start'[1].id] = Kept(start[1].id)'
      <4> SUFFICES ASSUME start # None, start[1].id # 0
                   PROVE  /\ server[start[1].id] # "none" /\ ui'.operation.id # start[1].id
                          /\ ~quitting => told'[start[1].id] = Kept(start[1].id)'
        BY <1>5
      <4>1. server[start[1].id] # "none" /\ ui.operation.id # start[1].id /\ told[start[1].id] = Kept(start[1].id)
        BY <1>1 DEF WsIInv, WsOps
      <4>2. early' = early /\ told'[start[1].id] = told[start[1].id]
        BY <1>7, <1>10, <1>12, <1>13, <2>3, <2>5, <4>1
      <4> QED
        BY <1>5, <2>2, <2>3, <4>1, <4>2 DEF Kept
    <3> QED
      BY <1>8, <1>11, <3>1, <3>2, <3>3, <3>4 DEF WsOps
  <2> QED
    BY <1>9, <2>6, <2>7, <2>8, <2>9 DEF WsIInv
<1>14. CASE ui.operation.id # o
  <2>1. /\ early' = (IF StartingOperation(ui) THEN [early EXCEPT ![o] = state] ELSE early)
        /\ UNCHANGED <<ui, moved>>
    BY <1>2, <1>3, <1>14 DEF ApplyEvent
  <2>2. early' \in [Operations -> States \union {"none"}] /\ \A p \in Operations : p # o => early'[p] = early[p]
    BY <1>1, <2>1
  <2>3. WsTypes'
    BY <1>5, <1>6, <1>7, <2>1, <2>2 DEF WsIInv, WsTypes
  <2>4. WsWaits'
    BY <1>5, <2>1 DEF WsIInv, WsWaits
  <2>5. WsBack'
    BY <1>5, <2>1 DEF WsIInv, WsBack
  <2>6. WsOps'
    <3>1. ui'.operation.id # 0 => /\ server'[ui'.operation.id] # "none" /\ early'[ui'.operation.id] = "none"
                                  /\ ui'.operation.state = told'[ui'.operation.id]
      BY <1>5, <1>7, <1>10, <1>14, <2>1, <2>2 DEF WsIInv, WsOps
    <3>2. \A p \in Operations : server'[p] = "none" => early'[p] = "none"
      BY <1>4, <1>5, <2>2 DEF WsIInv, WsOps
    <3>3. ~StartingOperation(ui)' => \A p \in Operations : early'[p] = "none"
      BY <2>1 DEF WsIInv, WsOps, StartingOperation
    <3>4. start' # None /\ start'[1].id # 0 =>
            /\ server'[start'[1].id] # "none" /\ ui'.operation.id # start'[1].id
            /\ ~quitting' => told'[start'[1].id] = Kept(start[1].id)'
      <4> SUFFICES ASSUME start # None, start[1].id # 0
                   PROVE  /\ server[start[1].id] # "none" /\ ui.operation.id # start[1].id
                          /\ ~quitting => told'[start[1].id] = Kept(start[1].id)'
        BY <1>5, <2>1
      <4>1. server[start[1].id] # "none" /\ ui.operation.id # start[1].id /\ told[start[1].id] = Kept(start[1].id)
        BY <1>1 DEF WsIInv, WsOps
      <4>2. CASE start[1].id = o
        <5>1. early'[o] = state /\ told'[o] = state /\ state # "none"
          BY <1>1, <1>7, <1>12, <2>1 DEF States, TerminalStates
        <5> QED
          BY <1>5, <4>1, <4>2, <5>1 DEF Kept
      <4>3. CASE start[1].id # o
        <5>1. early'[start[1].id] = early[start[1].id] /\ told'[start[1].id] = told[start[1].id]
          BY <1>7, <1>10, <2>2, <4>3
        <5> QED
          BY <1>5, <4>1, <5>1 DEF Kept
      <4> QED
        BY <4>2, <4>3
    <3> QED
      BY <1>8, <1>11, <3>1, <3>2, <3>3, <3>4 DEF WsOps
  <2> QED
    BY <1>9, <2>3, <2>4, <2>5, <2>6 DEF WsIInv
<1> QED
  BY <1>13, <1>14

(* The user wants to go back. *)
LEMMA PressBackStep ==
  ASSUME WsIInv, PressBack
  PROVE  WsIInv'
<1>1. /\ ~quitting /\ ~moved' /\ ~accepted'
      /\ back' = <<[screen |-> ui.screen, course |-> ui.course,
                    cancel |-> IF MustCancel THEN ui.operation.id ELSE 0]>>
      /\ UNCHANGED <<ui, early, request, start, serverVars, undone, quitting>>
  BY DEF PressBack
<1>2. back'[1].cancel \in Operations \union {0}
  <2>1. ui.operation.id \in Operations \union {0}
    BY DEF WsIInv, WsTypes, UiStates, Shown
  <2>2. back'[1].cancel = (IF MustCancel THEN ui.operation.id ELSE 0)
    BY <1>1
  <2> QED
    BY <2>1, <2>2
<1>3. WsTypes'
  BY <1>1, <1>2 DEF WsIInv, WsTypes, serverVars
<1>4. WsWaits' /\ WsBack'
  BY <1>1 DEF WsIInv, WsWaits, WsBack
<1>5. WsOps'
  BY <1>1 DEF WsIInv, WsOps, serverVars, StartingOperation, Kept
<1>6. WsRoom'
  BY <1>1 DEF WsIInv, WsRoom, serverVars, Unstarted, RunningOps
<1> QED
  BY <1>3, <1>4, <1>5, <1>6 DEF WsIInv

(* The way back is free, unless the user has gone on meanwhile. *)
LEMMA BackDoneStep ==
  ASSUME WsIInv, BackDone
  PROVE  WsIInv'
<1>1. /\ ~quitting /\ back # None /\ back' = None
      /\ UNCHANGED <<request, start, serverVars, accepted, inputs, quitting>>
  BY DEF BackDone
<1>2. CASE ~moved /\ Completes(back[1])
  <2> DEFINE s == [ui EXCEPT !.screen = BackFrom(ui)]
  <2>1. /\ SetState(s) /\ undone' = (undone \/ accepted) /\ ~ui.loading
    BY <1>2 DEF BackDone, Completes
  <2>2. ~accepted /\ ~undone /\ (undone' <=> undone \/ accepted)
    BY <1>2, <2>1 DEF WsIInv, WsBack
  <2>3. start = None /\ request = None /\ ui.pending = "none" /\ ui.lectures \in {0, ui.course}
    BY <1>1, <2>1 DEF WsIInv, WsWaits
  <2>4. /\ s \in UiStates /\ s.operation = ui.operation /\ s.loading = ui.loading
        /\ s.pending = ui.pending /\ s.course = ui.course /\ s.lectures = ui.lectures
    <3>1. BackFrom(ui) \in Screens
      BY DEF BackFrom, Screens
    <3> QED
      BY <3>1 DEF WsIInv, WsTypes, UiStates
  <2> HIDE DEF s
  <2>5. /\ ui' = s /\ (moved' <=> moved \/ ~SameNavigation(ui, s))
        /\ early' \in [Operations -> States \union {"none"}]
        /\ WsOps' /\ WsRoom'
    BY <1>1, <2>1, <2>3, <2>4, ScreenMoves
  <2>6. WsTypes'
    BY <1>1, <2>4, <2>5 DEF WsIInv, WsTypes, serverVars
  <2>7. WsWaits'
    BY <1>1, <2>1, <2>3, <2>4, <2>5 DEF WsWaits
  <2>8. WsBack'
    BY <1>1, <2>2 DEF WsBack
  <2> QED
    BY <2>5, <2>6, <2>7, <2>8 DEF WsIInv
<1>3. CASE ~(~moved /\ Completes(back[1]))
  <2>1. UNCHANGED <<ui, early, moved, undone>>
    BY <1>3 DEF BackDone
  <2>2. WsTypes'
    BY <1>1, <2>1 DEF WsIInv, WsTypes, serverVars
  <2>3. WsWaits' /\ WsBack'
    BY <1>1, <2>1 DEF WsIInv, WsWaits, WsBack
  <2>4. WsOps'
    BY <1>1, <2>1 DEF WsIInv, WsOps, serverVars, StartingOperation, Kept
  <2>5. WsRoom'
    BY <1>1 DEF WsIInv, WsRoom, serverVars, Unstarted, RunningOps
  <2> QED
    BY <2>2, <2>3, <2>4, <2>5 DEF WsIInv
<1> QED
  BY <1>2, <1>3

(* The user leaves. *)
LEMMA QuitInterfaceStep ==
  ASSUME WsIInv, QuitInterface
  PROVE  WsIInv'
<1> DEFINE s == [ui EXCEPT !.loading = FALSE, !.pending = "none"]
<1>1. /\ ~quitting /\ quitting' = TRUE /\ SetState(s)
      /\ UNCHANGED <<request, start, back, serverVars, undone, accepted, inputs>>
  BY DEF QuitInterface
<1>2. /\ s \in UiStates /\ s.operation = ui.operation /\ ~s.loading
      /\ s.pending = "none" /\ s.course = ui.course /\ s.lectures = ui.lectures
  BY DEF WsIInv, WsTypes, UiStates
<1> HIDE DEF s
<1>3. /\ ui' = s /\ (moved' <=> moved \/ ~SameNavigation(ui, s))
      /\ early' \in [Operations -> States \union {"none"}]
      /\ WsOps' /\ WsRoom'
  BY <1>1, <1>2, ScreenMoves
<1>4. WsTypes'
  BY <1>1, <1>2, <1>3 DEF WsIInv, WsTypes, serverVars
<1>5. WsWaits'
  BY <1>1, <1>2, <1>3 DEF WsIInv, WsWaits
<1>6. WsBack'
  BY <1>1, <1>3 DEF WsIInv, WsBack
<1> QED
  BY <1>3, <1>4, <1>5, <1>6 DEF WsIInv

(* What was in flight is aborted. *)
LEMMA AnswerAbortedStep ==
  ASSUME WsIInv, AnswerAborted
  PROVE  WsIInv'
<1>1. /\ quitting /\ start' = None /\ back' = None
      /\ UNCHANGED <<ui, early, moved, request, serverVars, undone, accepted, inputs, quitting>>
  BY DEF AnswerAborted
<1>2. WsTypes'
  BY <1>1 DEF WsIInv, WsTypes, serverVars
<1>3. WsWaits' /\ WsBack'
  BY <1>1 DEF WsIInv, WsWaits, WsBack
<1>4. WsOps'
  BY <1>1 DEF WsIInv, WsOps, serverVars, StartingOperation
<1>5. WsRoom'
  BY <1>1 DEF WsIInv, WsRoom, serverVars, Unstarted, RunningOps
<1> QED
  BY <1>2, <1>3, <1>4, <1>5 DEF WsIInv

(* Every step of the front end keeps it. *)
LEMMA WsStep == ASSUME WsIInv, WsNext PROVE WsIInv'
<1>1. CASE Navigate \/ Retry
  BY <1>1, NavigateStep
<1>2. CASE RequestAnswered
  BY <1>2, AnsweredStep
<1>3. CASE SessionStarts
  BY <1>3, SessionStartsStep
<1>4. CASE StartAnswered
  BY <1>4, StartAnsweredStep
<1>5. CASE StartFails
  BY <1>5, StartFailsStep
<1>6. CASE ApplyEvent
  BY <1>6, ApplyStep
<1>7. CASE BackDone
  BY <1>7, BackDoneStep
<1>8. CASE AnswerAborted
  BY <1>8, AnswerAbortedStep
<1>9. CASE PressBack
  BY <1>9, PressBackStep
<1>10. CASE SessionCancels
  <2>1. back[1].cancel \in Operations /\ SessionEnds(back[1].cancel, "canceled")
    BY <1>10 DEF SessionCancels, WsIInv, WsTypes
  <2>2. PICK o \in Operations : o = back[1].cancel
    BY <2>1
  <2>3. SessionEnds(o, "canceled") /\ "canceled" \in TerminalStates
    BY <2>1, <2>2 DEF TerminalStates
  <2> QED
    BY <2>3, SessionEndsStep
<1>11. CASE QuitInterface
  BY <1>11, QuitInterfaceStep
<1>12. ASSUME NEW kind \in {"playback", "download", "selftest"}, StartOperation(kind) PROVE WsIInv'
  BY <1>12, StartStep DEF OperationKinds
<1>13. ASSUME NEW o \in Operations, NEW state \in {"completed", "failed"}, SessionEnds(o, state) PROVE WsIInv'
  <2>1. state \in TerminalStates
    BY DEF TerminalStates
  <2> QED
    BY <1>13, <2>1, SessionEndsStep
<1> QED
  BY <1>1, <1>2, <1>3, <1>4, <1>5, <1>6, <1>7, <1>8, <1>9, <1>10, <1>11, <1>12, <1>13 DEF WsNext, WsProgress

(* So does a step of another part. *)
LEMMA WsStutter == ASSUME WsIInv, UNCHANGED wsVars PROVE WsIInv'
<1>1. WsTypes'
  BY DEF WsIInv, WsTypes, wsVars
<1>2. WsWaits' /\ WsBack'
  BY DEF WsIInv, WsWaits, WsBack, wsVars
<1>3. WsOps'
  BY DEF WsIInv, WsOps, wsVars, StartingOperation, Kept
<1>4. WsRoom'
  BY DEF WsIInv, WsRoom, wsVars, Unstarted, RunningOps
<1> QED
  BY <1>1, <1>2, <1>3, <1>4 DEF WsIInv

(* The invariant implies what the runs check of the front end. *)
LEMMA WsInvariance == WsIInv => WsSafe
<1> SUFFICES ASSUME WsIInv PROVE WsSafe
  OBVIOUS
<1>1. Len(queue) <= 2 * MaxStarts
  <2>1. Cardinality(Unstarted) \in Nat /\ Cardinality(RunningOps) \in Nat
    BY OpsCounted DEF Unstarted, RunningOps
  <2>2. Len(queue) \in Nat
    BY DEF WsIInv, WsTypes
  <2> QED
    BY <2>1, <2>2, WorkspaceAssumption DEF WsIInv, WsRoom
<1>2. WsTypeOK
  BY <1>1 DEF WsIInv, WsTypes, WsTypeOK, UiStates, Screens, Shown, States
<1>3. ShownIsTold
  BY DEF WsIInv, WsOps, ShownIsTold
<1>4. BackUndoesNothing
  BY DEF WsIInv, WsBack, BackUndoesNothing
<1>5. LecturesOfCourse
  BY DEF WsIInv, WsWaits, LecturesOfCourse
<1>6. OneWaiting
  BY DEF WsIInv, WsWaits, OneWaiting
<1> QED
  BY <1>2, <1>3, <1>4, <1>5, <1>6 DEF WsSafe

---------------------------------------------------------------------------
(* The event streams of the session. *)

(* The numbers of a queue. *)
Increasing(q) == \A i, j \in DOMAIN q : i < j => q[i] < q[j]

(* What the variables of the hub may be. *)
HubTypes ==
  /\ hub \in [sequence : Nat, closed : BOOLEAN, subscribers : SUBSET Streams]
  /\ buf \in [Streams -> Seq(Nat)] /\ overflow \in [Streams -> Seq(Nat)]
  /\ stream \in [Streams -> {"idle", "open", "gone"}]
  /\ ready \in [Streams -> Nat] /\ last \in [Streams -> Nat]

(* What waits in a queue is newer than what was delivered. *)
StreamQueue(s) ==
  /\ Len(buf[s]) <= QueueDepth /\ Increasing(buf[s])
  /\ \A n \in ToSet(buf[s]) : last[s] < n /\ n <= hub.sequence

(* What was lost is newer still, and told last. *)
StreamOverflow(s) ==
  overflow[s] = <<>> \/ \E n \in 1..hub.sequence : overflow[s] = <<n>> /\ n > last[s] /\ \A m \in ToSet(buf[s]) : m < n

(* How far a stream has come bounds what it holds. *)
StreamStage(s) ==
  /\ last[s] <= hub.sequence /\ ready[s] <= hub.sequence
  /\ stream[s] # "open" => buf[s] = <<>> /\ overflow[s] = <<>> /\ s \notin hub.subscribers
  /\ stream[s] = "idle" => ready[s] = 0
  /\ s \in hub.subscribers => ready[s] > 0 /\ overflow[s] = <<>>
  /\ stream[s] = "open" /\ s \notin hub.subscribers => overflow[s] # <<>> \/ hub.closed

(* A subscriber has everything it is due. *)
StreamDue(s) ==
  s \in hub.subscribers => \A n \in Nat : n \in ToSet(buf[s]) <=> n \in Due(s) /\ n > last[s]

(* The invariant of the hub. *)
TsHub ==
  /\ HubTypes
  /\ \A s \in Streams : StreamQueue(s) /\ StreamOverflow(s) /\ StreamStage(s) /\ StreamDue(s)

(* A number newer than those in a queue is appended to it. *)
LEMMA QueueGrows ==
  ASSUME NEW q \in Seq(Nat), NEW n \in Nat, Increasing(q), \A m \in ToSet(q) : m < n
  PROVE  /\ Append(q, n) \in Seq(Nat) /\ Len(Append(q, n)) = Len(q) + 1
         /\ Increasing(Append(q, n))
         /\ \A m : m \in ToSet(Append(q, n)) <=> m \in ToSet(q) \/ m = n
<1>1. /\ Append(q, n) \in Seq(Nat) /\ Len(Append(q, n)) = Len(q) + 1
      /\ Append(q, n)[Len(q) + 1] = n
      /\ \A i \in 1..Len(q) : Append(q, n)[i] = q[i]
  OBVIOUS
<1>2. DOMAIN Append(q, n) = 1..Len(q) + 1 /\ DOMAIN q = 1..Len(q) /\ Len(q) \in Nat
  BY <1>1
<1> DEFINE a == Append(q, n)
<1> HIDE DEF a
<1>3. \A i \in 1..Len(q) : q[i] \in Nat /\ q[i] < n
  BY <1>2 DEF ToSet
<1>4. Increasing(a)
  BY <1>1, <1>2, <1>3 DEF Increasing, a
<1>5. \A m : m \in ToSet(a) <=> m \in ToSet(q) \/ m = n
  BY <1>1, <1>2 DEF ToSet, a
<1> QED
  BY <1>1, <1>4, <1>5 DEF a

(* The oldest number of a queue is taken from it. *)
LEMMA QueueShrinks ==
  ASSUME NEW q \in Seq(Nat), q # <<>>, Increasing(q)
  PROVE  /\ Tail(q) \in Seq(Nat) /\ Len(Tail(q)) = Len(q) - 1
         /\ Increasing(Tail(q)) /\ Head(q) \in Nat /\ Head(q) \in ToSet(q)
         /\ \A m : m \in ToSet(Tail(q)) <=> m \in ToSet(q) /\ m > Head(q)
<1>1. /\ Tail(q) \in Seq(Nat) /\ Len(Tail(q)) = Len(q) - 1 /\ Len(q) \in Nat \ {0}
      /\ \A i \in 1..Len(q) - 1 : Tail(q)[i] = q[i + 1]
      /\ Head(q) = q[1]
  OBVIOUS
<1> DEFINE t == Tail(q)
           h == Head(q)
<1>2. DOMAIN t = 1..Len(q) - 1 /\ DOMAIN q = 1..Len(q)
  BY <1>1
<1>3. \A i \in 1..Len(q) : q[i] \in Nat
  OBVIOUS
<1>4. Increasing(t)
  BY <1>1, <1>2, <1>3 DEF Increasing
<1>5. h \in Nat /\ h \in ToSet(q)
  BY <1>1, <1>2, <1>3 DEF ToSet
<1> HIDE DEF t, h
<1>6. ASSUME NEW m, m \in ToSet(t) PROVE m \in ToSet(q) /\ m > h
  <2>1. PICK i \in 1..Len(q) - 1 : m = t[i]
    BY <1>2, <1>6 DEF ToSet
  <2>2. m = q[i + 1] /\ i + 1 \in 1..Len(q) /\ 1 < i + 1
    BY <1>1, <2>1 DEF t
  <2>3. q[1] < q[i + 1]
    BY <1>1, <1>2, <2>2 DEF Increasing
  <2> QED
    BY <1>1, <1>2, <1>3, <2>2, <2>3 DEF ToSet, h
<1>7. ASSUME NEW m, m \in ToSet(q), m > h PROVE m \in ToSet(t)
  <2>1. PICK i \in 1..Len(q) : m = q[i]
    BY <1>2, <1>7 DEF ToSet
  <2>2. i # 1
    BY <1>1, <1>3, <1>7, <2>1 DEF h
  <2>3. i - 1 \in 1..Len(q) - 1 /\ m = t[i - 1]
    BY <1>1, <2>1, <2>2 DEF t
  <2> QED
    BY <1>2, <2>3 DEF ToSet
<1> QED
  BY <1>1, <1>4, <1>5, <1>6, <1>7 DEF t, h

(* What is published reaches every subscriber, or costs it its subscription. *)
LEMMA PublishHub ==
  ASSUME TsHub, NEW o, NEW what, Publish(o, what), UNCHANGED <<stream, ready, last>>
  PROVE  TsHub'
<1>1. CASE hub.closed
  <2>1. UNCHANGED <<hub, buf, overflow>>
    BY <1>1 DEF Publish
  <2>2. HubTypes'
    BY <2>1 DEF TsHub, HubTypes
  <2>3. ASSUME NEW s \in Streams PROVE (StreamQueue(s) /\ StreamOverflow(s) /\ StreamStage(s) /\ StreamDue(s))'
    BY <2>1 DEF TsHub, StreamQueue, StreamOverflow, StreamStage, StreamDue, Due
  <2> QED
    BY <2>2, <2>3 DEF TsHub
<1>2. CASE ~hub.closed
  <2> DEFINE n == hub.sequence + 1
             full == {s \in hub.subscribers : Len(buf[s]) >= QueueDepth}
  <2>1. /\ hub' = [hub EXCEPT !.sequence = n, !.subscribers = @ \ full]
        /\ buf' = [s \in Streams |-> IF s \in hub.subscribers \ full THEN Append(buf[s], n) ELSE buf[s]]
        /\ overflow' = [s \in Streams |-> IF s \in full THEN <<n>> ELSE overflow[s]]
    BY <1>2 DEF Publish
  <2>2. hub \in [sequence : Nat, closed : BOOLEAN, subscribers : SUBSET Streams] /\ n \in Nat /\ n > hub.sequence
        /\ hub.sequence \in Nat /\ n \in 1..n /\ 1..hub.sequence \subseteq 1..n
    BY DEF TsHub, HubTypes
  <2>3. /\ hub' \in [sequence : Nat, closed : BOOLEAN, subscribers : SUBSET Streams]
        /\ hub'.sequence = n /\ hub'.subscribers = hub.subscribers \ full /\ hub'.closed = hub.closed
    BY <2>1, <2>2
  <2>4. ASSUME NEW s \in Streams
        PROVE  /\ buf'[s] = (IF s \in hub.subscribers \ full THEN Append(buf[s], n) ELSE buf[s])
               /\ overflow'[s] = (IF s \in full THEN <<n>> ELSE overflow[s])
    BY <2>1
  <2>5. ASSUME NEW s \in Streams
        PROVE  /\ buf[s] \in Seq(Nat) /\ Increasing(buf[s]) /\ \A m \in ToSet(buf[s]) : m < n
               /\ ready[s] \in Nat /\ last[s] \in Nat /\ ready[s] < n /\ last[s] < n
               /\ Len(buf[s]) \in Nat /\ \A m \in ToSet(buf[s]) : m \in Nat
    <3>1. buf[s] \in Seq(Nat) /\ ready[s] \in Nat /\ last[s] \in Nat
      BY DEF TsHub, HubTypes
    <3>2. Len(buf[s]) \in Nat /\ \A m \in ToSet(buf[s]) : m \in Nat
      BY <3>1 DEF ToSet
    <3>3. ready[s] < n /\ last[s] < n
      BY <2>2, <3>1 DEF TsHub, StreamStage
    <3>4. Increasing(buf[s]) /\ \A m \in ToSet(buf[s]) : m < n
      BY <2>2, <3>2 DEF TsHub, StreamQueue
    <3> QED
      BY <3>1, <3>2, <3>3, <3>4
  <2>6. full \subseteq hub.subscribers
    OBVIOUS
  <2> HIDE DEF n
  <2>7. ASSUME NEW s \in Streams, s \in hub.subscribers \ full
        PROVE  /\ buf'[s] \in Seq(Nat) /\ Len(buf'[s]) = Len(buf[s]) + 1 /\ Increasing(buf'[s])
               /\ \A m : m \in ToSet(buf'[s]) <=> m \in ToSet(buf[s]) \/ m = n
               /\ Len(buf[s]) < QueueDepth
    <3>1. buf'[s] = Append(buf[s], n)
      BY <2>4, <2>7
    <3>2. Len(buf[s]) < QueueDepth
      BY <2>5, <2>7, SessionAssumption
    <3>3. /\ Append(buf[s], n) \in Seq(Nat) /\ Len(Append(buf[s], n)) = Len(buf[s]) + 1
          /\ Increasing(Append(buf[s], n))
          /\ \A m : m \in ToSet(Append(buf[s], n)) <=> m \in ToSet(buf[s]) \/ m = n
      BY <2>2, <2>5, QueueGrows
    <3> QED
      BY <3>1, <3>2, <3>3
  <2> HIDE DEF full
  <2>8. ASSUME NEW s \in Streams, s \notin hub.subscribers \ full PROVE buf'[s] = buf[s]
    BY <2>4, <2>8
  <2>9. HubTypes'
    <3>1. buf' \in [Streams -> Seq(Nat)]
      <4>1. \A s \in Streams : buf'[s] \in Seq(Nat)
        BY <2>5, <2>7, <2>8
      <4> QED
        BY <2>1, <4>1
    <3>2. overflow' \in [Streams -> Seq(Nat)]
      <4>1. <<n>> \in Seq(Nat)
        BY <2>2
      <4>2. \A s \in Streams : overflow[s] \in Seq(Nat)
        BY DEF TsHub, HubTypes
      <4> QED
        BY <2>1, <4>1, <4>2
    <3> QED
      BY <2>3, <3>1, <3>2 DEF TsHub, HubTypes
  <2>10. ASSUME NEW s \in Streams PROVE StreamQueue(s)'
    <3>1. last'[s] = last[s]
      OBVIOUS
    <3>2. CASE s \in hub.subscribers \ full
      <4>1. Len(buf'[s]) <= QueueDepth
        BY <2>5, <2>7, <3>2, SessionAssumption
      <4>2. \A m \in ToSet(buf'[s]) : last'[s] < m /\ m <= hub'.sequence
        <5>1. \A m \in ToSet(buf[s]) : last[s] < m /\ m \in Nat /\ m < n
          BY <2>5 DEF TsHub, StreamQueue
        <5>2. hub'.sequence = n /\ last[s] < n
          BY <2>3, <2>5
        <5> QED
          BY <2>2, <2>7, <3>1, <3>2, <5>1, <5>2
      <4> QED
        BY <2>7, <3>2, <4>1, <4>2 DEF StreamQueue
    <3>3. CASE s \notin hub.subscribers \ full
      BY <2>2, <2>3, <2>5, <2>8, <3>1, <3>3 DEF TsHub, StreamQueue
    <3> QED
      BY <3>2, <3>3
  <2>11. ASSUME NEW s \in Streams PROVE StreamOverflow(s)'
    <3>1. CASE s \in full
      <4>1. overflow'[s] = <<n>> /\ buf'[s] = buf[s] /\ n > last'[s] /\ n \in 1..hub'.sequence
        BY <2>2, <2>3, <2>4, <2>5, <2>8, <3>1
      <4> QED
        BY <2>5, <4>1 DEF StreamOverflow
    <3>2. CASE s \notin full /\ s \in hub.subscribers
      BY <2>4, <3>2 DEF TsHub, StreamStage, StreamOverflow
    <3>3. CASE s \notin full /\ s \notin hub.subscribers
      <4>1. overflow'[s] = overflow[s] /\ buf'[s] = buf[s] /\ last'[s] = last[s]
        BY <2>4, <2>8, <3>3
      <4> QED
        BY <2>2, <2>3, <4>1 DEF TsHub, StreamOverflow
    <3> QED
      BY <3>1, <3>2, <3>3
  <2>12. ASSUME NEW s \in Streams PROVE StreamStage(s)'
    <3>1. StreamStage(s)
      BY DEF TsHub
    <3>2. last'[s] <= hub'.sequence /\ ready'[s] <= hub'.sequence
      BY <2>2, <2>3, <2>5
    <3>3. stream[s] # "open" => s \notin hub.subscribers /\ s \notin full /\ buf'[s] = buf[s] /\ overflow'[s] = overflow[s]
      BY <2>4, <2>6, <2>8, <3>1 DEF StreamStage
    <3>4. s \in hub'.subscribers => s \in hub.subscribers /\ s \notin full /\ overflow'[s] = overflow[s]
      BY <2>3, <2>4
    <3>5. stream[s] = "open" /\ s \notin hub'.subscribers => overflow'[s] # <<>> \/ hub'.closed
      <4>1. CASE s \in full
        <5>1. overflow'[s] = <<n>>
          BY <2>4, <4>1
        <5>2. <<n>> # <<>>
          OBVIOUS
        <5> QED
          BY <5>1, <5>2
      <4>2. CASE s \notin full
        BY <2>3, <2>4, <3>1, <4>2 DEF StreamStage
      <4> QED
        BY <4>1, <4>2
    <3> QED
      BY <2>3, <3>1, <3>2, <3>3, <3>4, <3>5 DEF StreamStage
  <2>13. ASSUME NEW s \in Streams PROVE StreamDue(s)'
    <3> SUFFICES ASSUME s \in hub'.subscribers, NEW m \in Nat
                 PROVE  m \in ToSet(buf'[s]) <=> m \in Due(s)' /\ m > last'[s]
      BY DEF StreamDue
    <3>1. s \in hub.subscribers \ full /\ s \in hub.subscribers
      BY <2>3
    <3>2. m \in ToSet(buf[s]) <=> m \in Due(s) /\ m > last[s]
      BY <3>1 DEF TsHub, StreamDue
    <3>3. m \in Due(s)' <=> m \in Due(s) \/ m = n
      <4>1. m \in Due(s)' <=> m \in ready[s]..n /\ \A t \in Streams \ {s} : ready[t] # m
        BY <2>3 DEF Due
      <4>2. m \in Due(s) <=> m \in ready[s]..hub.sequence /\ \A t \in Streams \ {s} : ready[t] # m
        BY DEF Due
      <4>3. m = n => \A t \in Streams \ {s} : ready[t] # m
        BY <2>5
      <4>4. m \in ready[s]..n <=> m \in ready[s]..hub.sequence \/ m = n
        BY <2>2, <2>5 DEF n
      <4> QED
        BY <4>1, <4>2, <4>3, <4>4
    <3>4. m \in ToSet(buf'[s]) <=> m \in ToSet(buf[s]) \/ m = n
      BY <2>7, <3>1
    <3> QED
      BY <2>5, <3>2, <3>3, <3>4
  <2> QED
    BY <2>9, <2>10, <2>11, <2>12, <2>13 DEF TsHub
<1> QED
  BY <1>1, <1>2

(* A step that does not touch the hub keeps its invariant. *)
LEMMA HubUnchanged == ASSUME TsHub, UNCHANGED hubVars PROVE TsHub'
<1>1. UNCHANGED <<hub, buf, overflow, stream, ready, last>>
  BY DEF hubVars
<1>2. HubTypes'
  BY <1>1 DEF TsHub, HubTypes
<1>3. ASSUME NEW s \in Streams PROVE (StreamQueue(s) /\ StreamOverflow(s) /\ StreamStage(s) /\ StreamDue(s))'
  BY <1>1 DEF TsHub, StreamQueue, StreamOverflow, StreamStage, StreamDue, Due
<1> QED
  BY <1>2, <1>3 DEF TsHub

(* One stream moves, and the others keep what they have. *)
LEMMA OneStream ==
  ASSUME TsHub, NEW s \in Streams, hub' \in [sequence : Nat, closed : BOOLEAN, subscribers : SUBSET Streams],
         hub'.sequence >= hub.sequence, hub'.closed = hub.closed,
         \A t \in Streams \ {s} : t \in hub'.subscribers <=> t \in hub.subscribers,
         \A t \in Streams \ {s} : /\ buf'[t] = buf[t] /\ overflow'[t] = overflow[t] /\ stream'[t] = stream[t]
                                  /\ ready'[t] = ready[t] /\ last'[t] = last[t],
         \/ ready'[s] = ready[s] /\ hub'.sequence = hub.sequence
         \/ ready[s] = 0 /\ ready'[s] = hub.sequence + 1 /\ hub'.sequence = hub.sequence + 1,
         NEW t \in Streams \ {s}
  PROVE  (StreamQueue(t) /\ StreamOverflow(t) /\ StreamStage(t) /\ StreamDue(t))'
<1>1. hub.sequence \in Nat /\ hub'.sequence \in Nat /\ 1..hub.sequence \subseteq 1..hub'.sequence
  BY DEF TsHub, HubTypes
<1>2. /\ last[t] \in Nat /\ ready[t] \in Nat /\ buf[t] \in Seq(Nat) /\ last[t] <= hub.sequence /\ ready[t] <= hub.sequence
      /\ \A m \in ToSet(buf[t]) : m \in Nat
  BY DEF TsHub, HubTypes, StreamStage, ToSet
<1>3. StreamQueue(t)'
  BY <1>1, <1>2 DEF TsHub, StreamQueue
<1>4. StreamOverflow(t)'
  BY <1>1, <1>2 DEF TsHub, StreamOverflow
<1>5. StreamStage(t)'
  BY <1>1, <1>2 DEF TsHub, StreamStage
<1>6. StreamDue(t)'
  <2> SUFFICES ASSUME t \in hub.subscribers, NEW m \in Nat
               PROVE  m \in ToSet(buf[t]) <=> m \in Due(t)' /\ m > last[t]
    BY DEF StreamDue
  <2>1. m \in ToSet(buf[t]) <=> m \in Due(t) /\ m > last[t]
    BY DEF TsHub, StreamDue
  <2>2. m \in Due(t)' <=> m \in ready[t]..hub'.sequence /\ \A u \in Streams \ {t} : ready'[u] # m
    BY DEF Due
  <2>3. m \in Due(t) <=> m \in ready[t]..hub.sequence /\ \A u \in Streams \ {t} : ready[u] # m
    BY DEF Due
  <2>4. ready[t] > 0
    BY DEF TsHub, StreamStage
  <2>5. CASE ready'[s] = ready[s] /\ hub'.sequence = hub.sequence
    BY <2>1, <2>2, <2>3, <2>5
  <2>6. CASE ready[s] = 0 /\ ready'[s] = hub.sequence + 1 /\ hub'.sequence = hub.sequence + 1
    <3>1. s \in Streams \ {t}
      OBVIOUS
    <3>2. m \in ready[t]..hub'.sequence /\ ready'[s] # m <=> m \in ready[t]..hub.sequence
      BY <1>1, <1>2, <2>6
    <3>3. m \in ready[t]..hub.sequence => ready[s] # m
      BY <1>1, <1>2, <2>4, <2>6
    <3>4. \A u \in Streams \ {t, s} : ready'[u] = ready[u]
      OBVIOUS
    <3> QED
      BY <2>1, <2>2, <2>3, <3>1, <3>2, <3>3, <3>4
  <2> QED
    BY <2>5, <2>6
<1> QED
  BY <1>3, <1>4, <1>5, <1>6

(* A stream begins with its session.ready, which no other stream is due. *)
LEMMA SubscribeHub ==
  ASSUME TsHub, NEW s \in Streams, Subscribe(s)
  PROVE  TsHub'
<1> DEFINE n == hub.sequence + 1
<1>1. /\ stream[s] = "idle" /\ ~hub.closed
      /\ hub' = [hub EXCEPT !.sequence = n, !.subscribers = @ \union {s}]
      /\ buf' = [buf EXCEPT ![s] = <<n>>]
      /\ ready' = [ready EXCEPT ![s] = n]
      /\ stream' = [stream EXCEPT ![s] = "open"]
      /\ UNCHANGED <<overflow, last>>
  BY DEF Subscribe
<1>2. HubTypes /\ hub.sequence \in Nat /\ n \in Nat
  BY DEF TsHub, HubTypes
<1>3. /\ ready[s] = 0 /\ overflow[s] = <<>> /\ last[s] <= hub.sequence /\ last[s] \in Nat
  BY <1>1 DEF TsHub, HubTypes, StreamStage
<1>4. /\ hub' \in [sequence : Nat, closed : BOOLEAN, subscribers : SUBSET Streams]
      /\ hub'.sequence = n /\ hub'.closed = hub.closed /\ hub'.subscribers = hub.subscribers \union {s}
  <2>1. hub \in [sequence : Nat, closed : BOOLEAN, subscribers : SUBSET Streams]
    BY <1>2 DEF HubTypes
  <2>2. hub.subscribers \union {s} \in SUBSET Streams
    BY <2>1
  <2>3. hub' = [hub EXCEPT !.sequence = n, !.subscribers = hub.subscribers \union {s}]
    BY <1>1
  <2> HIDE DEF n
  <2> QED
    BY <1>2, <2>1, <2>2, <2>3
<1>5. /\ <<n>> \in Seq(Nat) /\ Len(<<n>>) = 1 /\ <<n>>[1] = n /\ DOMAIN <<n>> = {1}
  BY <1>2
<1>6. /\ buf'[s] = <<n>> /\ ready'[s] = n /\ stream'[s] = "open"
      /\ \A t \in Streams \ {s} : buf'[t] = buf[t] /\ ready'[t] = ready[t] /\ stream'[t] = stream[t]
  BY <1>1, <1>2 DEF HubTypes
<1>7. HubTypes'
  <2>1. buf' \in [Streams -> Seq(Nat)]
    BY <1>1, <1>2, <1>5 DEF HubTypes
  <2> QED
    BY <1>1, <1>2, <1>4, <2>1 DEF HubTypes
<1>8. ToSet(<<n>>) = {n} /\ Increasing(<<n>>)
  BY <1>5 DEF ToSet, Increasing
<1> HIDE DEF n
<1>9. hub.sequence < n
  BY <1>2 DEF n
<1>10. StreamQueue(s)'
  <2>1. buf'[s] = <<n>> /\ last'[s] = last[s] /\ hub'.sequence = n /\ last[s] < n /\ n <= n
    BY <1>1, <1>2, <1>3, <1>4, <1>6, <1>9
  <2>2. Len(<<n>>) <= QueueDepth
    BY <1>5, SessionAssumption
  <2>3. \A m \in ToSet(buf'[s]) : last'[s] < m /\ m <= hub'.sequence
    BY <1>8, <2>1
  <2> QED
    BY <1>8, <2>1, <2>2, <2>3 DEF StreamQueue
<1>11. StreamOverflow(s)'
  BY <1>1, <1>3 DEF StreamOverflow
<1>12. StreamStage(s)'
  BY <1>1, <1>2, <1>3, <1>4, <1>6, <1>9 DEF StreamStage
<1>13. StreamDue(s)'
  <2> SUFFICES ASSUME NEW m \in Nat PROVE m \in ToSet(buf'[s]) <=> m \in Due(s)' /\ m > last'[s]
    BY DEF StreamDue
  <2>1. m \in Due(s)' <=> m \in n..n /\ \A u \in Streams \ {s} : ready'[u] # m
    BY <1>4, <1>6 DEF Due
  <2>2. \A u \in Streams \ {s} : ready'[u] # n
    BY <1>2, <1>6, <1>9 DEF TsHub, HubTypes, StreamStage
  <2> QED
    BY <1>1, <1>2, <1>3, <1>6, <1>8, <1>9, <2>1, <2>2
<1>14. ASSUME NEW t \in Streams \ {s} PROVE (StreamQueue(t) /\ StreamOverflow(t) /\ StreamStage(t) /\ StreamDue(t))'
  <2>1. /\ hub'.sequence >= hub.sequence /\ \A u \in Streams \ {s} : u \in hub'.subscribers <=> u \in hub.subscribers
        /\ ready[s] = 0 /\ ready'[s] = hub.sequence + 1 /\ hub'.sequence = hub.sequence + 1
    BY <1>2, <1>3, <1>4, <1>6 DEF n
  <2> QED
    BY <1>1, <1>4, <1>6, <2>1, OneStream
<1> QED
  BY <1>7, <1>10, <1>11, <1>12, <1>13, <1>14 DEF TsHub

(* A stream delivers the oldest event of its queue. *)
LEMMA DeliverHub ==
  ASSUME TsHub, NEW s \in Streams, Deliver(s)
  PROVE  TsHub'
<1> DEFINE q == buf[s]
           h == Head(buf[s])
<1>1. /\ stream[s] = "open" /\ q # <<>>
      /\ last' = [last EXCEPT ![s] = h] /\ buf' = [buf EXCEPT ![s] = Tail(q)]
      /\ UNCHANGED <<hub, overflow, stream, ready>>
  BY DEF Deliver
<1>2. HubTypes /\ q \in Seq(Nat) /\ Increasing(q) /\ hub.sequence \in Nat /\ last[s] \in Nat /\ Len(q) <= QueueDepth
  BY DEF TsHub, HubTypes, StreamQueue
<1>3. /\ Tail(q) \in Seq(Nat) /\ Len(Tail(q)) = Len(q) - 1
      /\ Increasing(Tail(q)) /\ h \in Nat /\ h \in ToSet(q)
      /\ \A m : m \in ToSet(Tail(q)) <=> m \in ToSet(q) /\ m > h
  BY <1>1, <1>2, QueueShrinks
<1>4. /\ buf'[s] = Tail(q) /\ last'[s] = h
      /\ \A t \in Streams \ {s} : buf'[t] = buf[t] /\ last'[t] = last[t]
  BY <1>1, <1>2 DEF HubTypes
<1>5. HubTypes'
  BY <1>1, <1>2, <1>3 DEF HubTypes
<1>6. last[s] < h /\ h <= hub.sequence
  BY <1>3 DEF TsHub, StreamQueue
<1>7. Len(q) \in Nat
  BY <1>2
<1>8. \A m \in ToSet(q) : m \in Nat /\ m <= hub.sequence
  BY <1>2 DEF TsHub, StreamQueue, ToSet
<1> HIDE DEF h
<1>9. StreamQueue(s)'
  <2>1. Len(buf'[s]) <= QueueDepth
    BY <1>2, <1>3, <1>4, <1>7, SessionAssumption
  <2> QED
    BY <1>1, <1>3, <1>4, <1>8, <2>1 DEF StreamQueue
<1>10. StreamOverflow(s)'
  BY <1>1, <1>3, <1>4 DEF TsHub, StreamOverflow
<1>11. StreamStage(s)'
  BY <1>1, <1>4, <1>6 DEF TsHub, StreamStage
<1>12. StreamDue(s)'
  <2> SUFFICES ASSUME s \in hub.subscribers, NEW m \in Nat
               PROVE  m \in ToSet(buf'[s]) <=> m \in Due(s)' /\ m > last'[s]
    BY <1>1 DEF StreamDue
  <2>1. m \in ToSet(q) <=> m \in Due(s) /\ m > last[s]
    BY DEF TsHub, StreamDue
  <2>2. m \in Due(s)' <=> m \in Due(s)
    BY <1>1 DEF Due
  <2> QED
    BY <1>2, <1>3, <1>4, <1>6, <2>1, <2>2
<1>13. ASSUME NEW t \in Streams \ {s} PROVE (StreamQueue(t) /\ StreamOverflow(t) /\ StreamStage(t) /\ StreamDue(t))'
  <2>1. hub' \in [sequence : Nat, closed : BOOLEAN, subscribers : SUBSET Streams] /\ hub'.sequence >= hub.sequence
    BY <1>1, <1>2 DEF HubTypes
  <2>2. \A u \in Streams \ {s} : /\ buf'[u] = buf[u] /\ overflow'[u] = overflow[u] /\ stream'[u] = stream[u]
                               /\ ready'[u] = ready[u] /\ last'[u] = last[u]
    BY <1>1, <1>4
  <2>3. /\ hub'.closed = hub.closed /\ ready'[s] = ready[s] /\ hub'.sequence = hub.sequence
        /\ \A u \in Streams \ {s} : u \in hub'.subscribers <=> u \in hub.subscribers
    BY <1>1
  <2>4. \/ ready'[s] = ready[s] /\ hub'.sequence = hub.sequence
        \/ ready[s] = 0 /\ ready'[s] = hub.sequence + 1 /\ hub'.sequence = hub.sequence + 1
    BY <2>3
  <2> QED
    BY <2>1, <2>2, <2>3, <2>4, OneStream
<1> QED
  BY <1>5, <1>9, <1>10, <1>11, <1>12, <1>13 DEF TsHub

(* A stream is over, whatever it has delivered last. *)
LEMMA StreamEndsHub ==
  ASSUME TsHub, NEW s \in Streams, StreamEnds(s), NEW n \in Nat, n <= hub.sequence,
         last' = [last EXCEPT ![s] = n]
  PROVE  TsHub'
<1>1. /\ stream' = [stream EXCEPT ![s] = "gone"]
      /\ hub' = [hub EXCEPT !.subscribers = @ \ {s}]
      /\ buf' = [buf EXCEPT ![s] = <<>>] /\ overflow' = [overflow EXCEPT ![s] = <<>>]
      /\ UNCHANGED ready
  BY DEF StreamEnds
<1>2. HubTypes /\ hub.sequence \in Nat
  BY DEF TsHub, HubTypes
<1>3. /\ hub' \in [sequence : Nat, closed : BOOLEAN, subscribers : SUBSET Streams]
      /\ hub'.sequence = hub.sequence /\ hub'.closed = hub.closed /\ hub'.subscribers = hub.subscribers \ {s}
  BY <1>1, <1>2 DEF HubTypes
<1>4. <<>> \in Seq(Nat) /\ Len(<<>>) = 0 /\ DOMAIN <<>> = {}
  OBVIOUS
<1>5. /\ buf'[s] = <<>> /\ overflow'[s] = <<>> /\ stream'[s] = "gone" /\ last'[s] = n
      /\ \A t \in Streams \ {s} : /\ buf'[t] = buf[t] /\ overflow'[t] = overflow[t] /\ stream'[t] = stream[t]
                                 /\ ready'[t] = ready[t] /\ last'[t] = last[t]
  BY <1>1, <1>2 DEF HubTypes
<1>6. HubTypes'
  BY <1>1, <1>2, <1>3, <1>4 DEF HubTypes
<1>7. ToSet(<<>>) = {} /\ Increasing(<<>>)
  BY <1>4 DEF ToSet, Increasing
<1>8. StreamQueue(s)'
  BY <1>4, <1>5, <1>7, SessionAssumption DEF StreamQueue
<1>9. StreamOverflow(s)' /\ StreamDue(s)'
  BY <1>3, <1>5 DEF StreamOverflow, StreamDue
<1>10. StreamStage(s)'
  BY <1>1, <1>3, <1>5 DEF TsHub, StreamStage
<1>11. ASSUME NEW t \in Streams \ {s} PROVE (StreamQueue(t) /\ StreamOverflow(t) /\ StreamStage(t) /\ StreamDue(t))'
  <2>1. hub'.sequence >= hub.sequence /\ ready'[s] = ready[s] /\ hub'.sequence = hub.sequence
    BY <1>1, <1>2, <1>3
  <2>2. \A u \in Streams \ {s} : u \in hub'.subscribers <=> u \in hub.subscribers
    BY <1>3
  <2>3. \A u \in Streams \ {s} : /\ buf'[u] = buf[u] /\ overflow'[u] = overflow[u] /\ stream'[u] = stream[u]
                               /\ ready'[u] = ready[u] /\ last'[u] = last[u]
    BY <1>5
  <2>4. hub' \in [sequence : Nat, closed : BOOLEAN, subscribers : SUBSET Streams] /\ hub'.closed = hub.closed
    BY <1>3
  <2>5. \/ ready'[s] = ready[s] /\ hub'.sequence = hub.sequence
        \/ ready[s] = 0 /\ ready'[s] = hub.sequence + 1 /\ hub'.sequence = hub.sequence + 1
    BY <2>1
  <2> QED
    BY <2>1, <2>2, <2>3, <2>4, <2>5, OneStream
<1> QED
  BY <1>6, <1>8, <1>9, <1>10, <1>11 DEF TsHub

(* A stream that ends takes its queue and its overflow with it. *)
LEMMA StreamLeaves ==
  ASSUME TsHub, NEW s \in Streams, DeliverOverflow(s) \/ ClientLeaves(s) \/ StreamDone(s)
  PROVE  TsHub'
<1>1. last \in [Streams -> Nat] /\ last[s] \in Nat /\ last[s] <= hub.sequence /\ hub.sequence \in Nat
  BY DEF TsHub, HubTypes, StreamStage
<1>2. CASE DeliverOverflow(s)
  <2>1. /\ overflow[s] # <<>> /\ last' = [last EXCEPT ![s] = overflow[s][1]] /\ StreamEnds(s)
    BY <1>2 DEF DeliverOverflow
  <2>2. PICK n \in 1..hub.sequence : overflow[s] = <<n>>
    BY <2>1 DEF TsHub, StreamOverflow
  <2>3. overflow[s][1] = n /\ n \in Nat /\ n <= hub.sequence
    BY <1>1, <2>2
  <2> QED
    BY <2>1, <2>3, StreamEndsHub
<1>3. CASE ClientLeaves(s) \/ StreamDone(s)
  <2>1. StreamEnds(s) /\ last' = last
    BY <1>3 DEF ClientLeaves, StreamDone
  <2>2. last' = [last EXCEPT ![s] = last[s]]
    BY <1>1, <2>1
  <2> QED
    BY <1>1, <2>1, <2>2, StreamEndsHub
<1> QED
  BY <1>2, <1>3

(* The hub is closed. *)
LEMMA CloseEventsHub ==
  ASSUME TsHub, CloseEvents
  PROVE  TsHub'
<1>1. hub' = [hub EXCEPT !.closed = TRUE, !.subscribers = {}] /\ UNCHANGED <<buf, overflow, stream, ready, last>>
  BY DEF CloseEvents
<1>2. /\ hub' \in [sequence : Nat, closed : BOOLEAN, subscribers : SUBSET Streams]
      /\ hub'.sequence = hub.sequence /\ hub'.closed /\ hub'.subscribers = {}
  BY <1>1 DEF TsHub, HubTypes
<1>3. HubTypes'
  BY <1>1, <1>2 DEF TsHub, HubTypes
<1>4. ASSUME NEW s \in Streams PROVE (StreamQueue(s) /\ StreamOverflow(s) /\ StreamStage(s) /\ StreamDue(s))'
  <2>1. StreamQueue(s)'
    BY <1>1, <1>2 DEF TsHub, StreamQueue
  <2>2. StreamOverflow(s)'
    BY <1>1, <1>2 DEF TsHub, StreamOverflow
  <2>3. StreamStage(s)' /\ StreamDue(s)'
    BY <1>1, <1>2 DEF TsHub, StreamStage, StreamDue
  <2> QED
    BY <2>1, <2>2, <2>3
<1> QED
  BY <1>3, <1>4 DEF TsHub

(* The hub starts in its invariant. *)
LEMMA InitHub == TsInit => TsHub
<1> SUFFICES ASSUME TsInit PROVE TsHub
  OBVIOUS
<1>1. /\ hub = [sequence |-> 0, closed |-> FALSE, subscribers |-> {}]
      /\ buf = [s \in Streams |-> <<>>] /\ overflow = [s \in Streams |-> <<>>]
      /\ stream \in [Streams -> {"idle", "gone"}]
      /\ ready = [s \in Streams |-> 0] /\ last = [s \in Streams |-> 0]
  BY DEF TsInit
<1>2. <<>> \in Seq(Nat) /\ Len(<<>>) = 0 /\ DOMAIN <<>> = {}
  OBVIOUS
<1>3. ToSet(<<>>) = {} /\ Increasing(<<>>)
  BY <1>2 DEF ToSet, Increasing
<1>4. HubTypes
  BY <1>1, <1>2 DEF HubTypes
<1>5. ASSUME NEW s \in Streams PROVE StreamQueue(s) /\ StreamOverflow(s) /\ StreamStage(s) /\ StreamDue(s)
  <2>1. buf[s] = <<>> /\ overflow[s] = <<>> /\ ready[s] = 0 /\ last[s] = 0 /\ stream[s] \in {"idle", "gone"}
    BY <1>1
  <2>2. hub.sequence = 0 /\ hub.subscribers = {}
    BY <1>1
  <2>3. StreamQueue(s)
    BY <1>2, <1>3, <2>1, SessionAssumption DEF StreamQueue
  <2>4. StreamOverflow(s) /\ StreamStage(s) /\ StreamDue(s)
    BY <2>1, <2>2 DEF StreamOverflow, StreamStage, StreamDue
  <2> QED
    BY <2>3, <2>4
<1> QED
  BY <1>4, <1>5 DEF TsHub

(* What the invariant of the hub says to the outside. *)
LEMMA HubTells ==
  ASSUME TsHub
  PROVE  /\ StreamsTellAll /\ hub.subscribers \subseteq Streams
         /\ \A s \in Streams : Len(buf[s]) <= QueueDepth /\ Len(overflow[s]) <= 1
<1>1. hub.subscribers \subseteq Streams /\ hub.sequence \in Nat
  BY DEF TsHub, HubTypes
<1>2. ASSUME NEW s \in Streams
      PROVE  /\ buf[s] \in Seq(Nat) /\ Len(buf[s]) <= QueueDepth /\ Increasing(buf[s])
             /\ last[s] \in Nat /\ ready[s] \in Nat
             /\ StreamOverflow(s) /\ StreamStage(s) /\ StreamDue(s)
  BY DEF TsHub, HubTypes, StreamQueue
<1>3. ASSUME NEW s \in Streams PROVE Len(overflow[s]) <= 1
  <2>1. CASE overflow[s] = <<>>
    BY <2>1
  <2>2. CASE overflow[s] # <<>>
    <3>1. PICK n \in 1..hub.sequence : overflow[s] = <<n>>
      BY <1>2, <2>2 DEF StreamOverflow
    <3>2. Len(<<n>>) = 1
      OBVIOUS
    <3> QED
      BY <3>1, <3>2
  <2> QED
    BY <2>1, <2>2
<1>4. ASSUME NEW s \in Streams, s \in hub.subscribers PROVE ToSet(buf[s]) = {n \in Due(s) : n > last[s]}
  <2>1. \A n \in ToSet(buf[s]) : n \in Nat
    BY <1>2 DEF ToSet
  <2>2. \A n \in Due(s) : n \in Nat
    BY <1>1, <1>2 DEF Due
  <2>3. \A n \in Nat : n \in ToSet(buf[s]) <=> n \in Due(s) /\ n > last[s]
    BY <1>2, <1>4 DEF StreamDue
  <2> QED
    BY <2>1, <2>2, <2>3
<1>5. ASSUME NEW s \in Streams
      PROVE  \A i \in DOMAIN overflow[s] : overflow[s][i] > last[s] /\ \A n \in ToSet(buf[s]) : n < overflow[s][i]
  <2>1. CASE overflow[s] = <<>>
    BY <2>1
  <2>2. CASE overflow[s] # <<>>
    <3>1. PICK n \in 1..hub.sequence : overflow[s] = <<n>> /\ n > last[s] /\ \A m \in ToSet(buf[s]) : m < n
      BY <1>2, <2>2 DEF StreamOverflow
    <3>2. DOMAIN <<n>> = {1} /\ <<n>>[1] = n
      OBVIOUS
    <3> QED
      BY <3>1, <3>2
  <2> QED
    BY <2>1, <2>2
<1>6. StreamsTellAll
  BY <1>2, <1>4, <1>5 DEF StreamsTellAll, StreamStage, Increasing
<1> QED
  BY <1>1, <1>2, <1>3, <1>6

---------------------------------------------------------------------------
(* The operations of the session. *)

(* Stages of the session, of its operations and of their playbacks. *)
Phases == {"open", "canceled", "stopping", "stopped", "muted", "closed"}
Goals == {"selftest", "download", "playback"}
Works == {"selftest", "download", "playback", "starting", "playing", "closing", "draining", "recorded"}
PlayEvents == [at : Nat, eof : BOOLEAN]
Plays == [known : BOOLEAN, at : Nat, ended : {"no", "eof", "quit", "error"}, open : BOOLEAN, feed : Seq(PlayEvents),
          position : Nat, eof : BOOLEAN, failed : BOOLEAN]
Checkpoints == [position : Nat, completed : BOOLEAN]

(* What the variables of the operations may be. *)
OpTypes ==
  /\ phase \in Phases /\ canceled \subseteq Ops
  /\ post \in [Ops -> Goals \union {"announcing", "answered"}]
  /\ entry \in [Ops -> {"none", "running"} \union Terminal]
  /\ worker \in [Ops -> Works \union {"none", "returning", "gone"}]
  /\ count \in [Ops -> 0..Steps]
  /\ consumer \in [Ops -> {"none", "on", "gone"}]
  /\ said \in [Ops -> {"nothing", "started", "progress", "ended"}]
  /\ play \in [Ops -> Plays]
  /\ checkpoint \in [Ops -> Seq(Checkpoints)]

(* Where the request, the registry, the goroutine and the events of an operation stand together. *)
OpStage(o) ==
  \/ entry[o] = "none" /\ post[o] \in Goals \union {"answered"} /\ worker[o] = "none" /\ said[o] = "nothing" /\ o \notin canceled
  \/ entry[o] = "running" /\ post[o] = "announcing" /\ worker[o] \in Goals /\ said[o] = "nothing"
  \/ entry[o] = "running" /\ post[o] = "answered" /\ worker[o] \in Works /\ said[o] \in {"started", "progress"}
  \/ entry[o] \in Terminal /\ post[o] = "answered" /\ worker[o] \in {"returning", "gone"} /\ said[o] = "ended"

(* A player and its consumer live within some stages. *)
OpPlay(o) ==
  /\ play[o].open => worker[o] \in {"playing", "closing"}
  /\ consumer[o] = "on" => worker[o] \in {"playing", "closing", "draining"}

(* The last position the player told is the position known, or on its way. *)
OpFeed(o) ==
  /\ play[o].feed = <<>> => play[o].position = play[o].at
  /\ play[o].feed # <<>> => play[o].feed[Len(play[o].feed)].at = play[o].at
  /\ play[o].eof => play[o].ended = "eof"
  /\ \A i \in 1..Len(play[o].feed) : play[o].feed[i].eof => play[o].ended = "eof"
  /\ consumer[o] = "gone" /\ ~Ended(o) => ~play[o].open /\ play[o].feed = <<>>

(* A checkpoint is recorded once, when the player is closed. *)
OpRecord(o) ==
  /\ checkpoint[o] # <<>> => worker[o] \in {"recorded", "returning", "gone"}
  /\ \A i \in DOMAIN checkpoint[o] :
       /\ checkpoint[o][i].completed => play[o].ended = "eof" /\ ~play[o].failed
       /\ ~Ended(o) => checkpoint[o][i].position = play[o].at

(* The invariant of one operation. *)
OpInv(o) == OpStage(o) /\ OpPlay(o) /\ OpFeed(o) /\ OpRecord(o)

(* A session that has stopped has no goroutine left. *)
TsIdle == phase \in {"stopped", "muted", "closed"} => \A o \in Ops : entry[o] = "none" \/ worker[o] = "gone"

(* The invariant of all of them, and of the session. *)
TsOps == OpTypes /\ TsIdle /\ \A o \in Ops : OpInv(o)
TsIInv == TsOps /\ TsHub

(* An operation that does not move. *)
SameOp(p) ==
  /\ post'[p] = post[p] /\ entry'[p] = entry[p] /\ worker'[p] = worker[p] /\ consumer'[p] = consumer[p]
  /\ said'[p] = said[p] /\ play'[p] = play[p] /\ checkpoint'[p] = checkpoint[p]

(* Operations that do not move keep their part of the invariant, even when they are told to end. *)
LEMMA SameOpKeeps ==
  ASSUME NEW p \in Ops, OpInv(p), SameOp(p), Ended(p) => Ended(p)', entry[p] = "none" => p \notin canceled'
  PROVE  OpInv(p)'
<1>1. OpStage(p)'
  BY DEF OpInv, SameOp, OpStage
<1>2. OpPlay(p)'
  BY DEF OpInv, SameOp, OpPlay
<1>3. OpFeed(p)'
  BY DEF OpInv, SameOp, OpFeed
<1>4. OpRecord(p)'
  BY DEF OpInv, SameOp, OpRecord
<1> QED
  BY <1>1, <1>2, <1>3, <1>4 DEF OpInv

(* One operation moves; the session does not change its phase. *)
LEMMA OneOp ==
  ASSUME TsIInv, NEW o \in Ops, OpTypes', phase' = phase, \A p \in Ops \ {o} : SameOp(p),
         \A p \in Ops \ {o} : p \in canceled' <=> p \in canceled,
         OpInv(o)', worker[o] = "gone" => worker'[o] = "gone", Stopping /\ entry[o] = "none" => entry'[o] = "none"
  PROVE  TsOps'
<1>1. ASSUME NEW p \in Ops \ {o} PROVE OpInv(p)'
  <2>1. OpInv(p) /\ SameOp(p)
    BY DEF TsIInv, TsOps
  <2>2. (Ended(p) => Ended(p)') /\ (entry[p] = "none" => p \notin canceled')
    BY <2>1 DEF Ended, OpInv, OpStage, Terminal
  <2> QED
    BY <2>1, <2>2, SameOpKeeps
<1>2. TsIdle'
  <2> SUFFICES ASSUME phase \in {"stopped", "muted", "closed"}, NEW p \in Ops
               PROVE  entry'[p] = "none" \/ worker'[p] = "gone"
    BY DEF TsIdle
  <2>1. entry[p] = "none" \/ worker[p] = "gone"
    BY DEF TsIInv, TsOps, TsIdle
  <2>2. Stopping
    BY DEF Stopping
  <2> QED
    BY <2>1, <2>2 DEF SameOp
<1> QED
  BY <1>1, <1>2 DEF TsOps

(* What is published of an operation that is under way. *)
LEMMA PublishSaid ==
  ASSUME OpTypes, NEW o \in Ops, NEW what \in {"started", "progress", "ended"}, Publish(o, what),
         IF what = "started" THEN said[o] = "nothing" ELSE said[o] \in {"started", "progress"}
  PROVE  /\ said' \in [Ops -> {"nothing", "started", "progress", "ended"}] /\ said'[o] = what
         /\ \A p \in Ops \ {o} : said'[p] = said[p]
<1>1. said' = [said EXCEPT ![o] = Said(said[o], what)]
  BY DEF Publish
<1>2. Said(said[o], what) = what
  BY DEF Said
<1> QED
  BY <1>1, <1>2 DEF OpTypes

(* An operation whose goroutine works is registered, running and announced. *)
LEMMA AtWork ==
  ASSUME TsIInv, NEW o \in Ops, NEW pc \in Works, At(o, pc)
  PROVE  /\ worker[o] = pc /\ post[o] = "answered" /\ entry[o] = "running" /\ said[o] \in {"started", "progress"}
         /\ OpTypes /\ TsHub /\ OpInv(o)
<1>1. worker[o] = pc /\ post[o] = "answered" /\ OpTypes /\ TsHub /\ OpInv(o)
  BY DEF TsIInv, TsOps, At
<1> QED
  BY <1>1 DEF OpInv, OpStage, Works

(* The goroutine of an operation ends it. *)
LEMMA FinishStep ==
  ASSUME TsIInv, NEW o \in Ops, NEW state \in Terminal, Finish(o, state), NEW pc \in Works, At(o, pc),
         ~play[o].open, consumer[o] # "on"
  PROVE  TsIInv'
<1>1. /\ worker[o] = pc /\ post[o] = "answered" /\ entry[o] = "running" /\ said[o] \in {"started", "progress"}
      /\ OpTypes /\ TsHub /\ OpInv(o)
  BY AtWork
<1>2. /\ entry' = [entry EXCEPT ![o] = state] /\ Publish(o, "ended")
      /\ worker' = [worker EXCEPT ![o] = "returning"]
      /\ UNCHANGED <<phase, post, delete, canceled, count, play, consumer, checkpoint, stream, ready, last>>
  BY DEF Finish
<1>3. TsHub'
  BY <1>1, <1>2, PublishHub
<1>4. /\ said' \in [Ops -> {"nothing", "started", "progress", "ended"}] /\ said'[o] = "ended"
      /\ \A p \in Ops \ {o} : said'[p] = said[p]
  BY <1>1, <1>2, PublishSaid
<1>5. OpTypes'
  BY <1>1, <1>2, <1>4 DEF OpTypes
<1>6. entry'[o] = state /\ worker'[o] = "returning" /\ \A p \in Ops \ {o} : SameOp(p)
  BY <1>1, <1>2, <1>4 DEF OpTypes, SameOp
<1>7. OpStage(o)'
  BY <1>1, <1>2, <1>4, <1>6 DEF OpStage
<1>8. OpPlay(o)'
  BY <1>2 DEF OpPlay
<1>9. OpFeed(o)'
  BY <1>1, <1>2 DEF OpInv, OpFeed, Ended
<1>10. OpRecord(o)'
  BY <1>1, <1>2, <1>6 DEF OpInv, OpRecord, Ended
<1>11. TsOps'
  BY <1>1, <1>2, <1>5, <1>6, <1>7, <1>8, <1>9, <1>10, OneOp DEF OpInv, Works
<1> QED
  BY <1>3, <1>11 DEF TsIInv

(* It tells its progress. *)
LEMMA ProgressStep ==
  ASSUME TsIInv, NEW o \in Ops, NEW pc \in Works, At(o, pc), Progress(o)
  PROVE  TsIInv'
<1>1. /\ worker[o] = pc /\ post[o] = "answered" /\ entry[o] = "running" /\ said[o] \in {"started", "progress"}
      /\ OpTypes /\ TsHub /\ OpInv(o)
  BY AtWork
<1>2. /\ count[o] < Steps /\ count' = [count EXCEPT ![o] = @ + 1] /\ Publish(o, "progress")
      /\ UNCHANGED <<phase, post, delete, entry, canceled, worker, play, consumer, checkpoint, stream, ready, last>>
  BY DEF Progress
<1>3. TsHub'
  BY <1>1, <1>2, PublishHub
<1>4. /\ said' \in [Ops -> {"nothing", "started", "progress", "ended"}] /\ said'[o] = "progress"
      /\ \A p \in Ops \ {o} : said'[p] = said[p]
  BY <1>1, <1>2, PublishSaid
<1>5. count' \in [Ops -> 0..Steps]
  BY <1>1, <1>2, SessionAssumption DEF OpTypes
<1>6. OpTypes'
  BY <1>1, <1>2, <1>4, <1>5 DEF OpTypes
<1>7. \A p \in Ops \ {o} : SameOp(p)
  BY <1>2, <1>4 DEF SameOp
<1>8. OpStage(o)'
  BY <1>1, <1>2, <1>4 DEF OpStage
<1>9. OpPlay(o)' /\ OpFeed(o)' /\ OpRecord(o)'
  BY <1>1, <1>2 DEF OpInv, OpPlay, OpFeed, OpRecord, Ended
<1>10. TsOps'
  BY <1>1, <1>2, <1>6, <1>7, <1>8, <1>9, OneOp DEF OpInv
<1> QED
  BY <1>3, <1>10 DEF TsIInv

(* The goroutines that publish and end. *)
LEMMA SelfTestStep ==
  ASSUME TsIInv, NEW o \in Ops, SelfTest(o) \/ Reports(o) \/ DownloadReturns(o) \/ FinishPlayback(o)
  PROVE  TsIInv'
<1>1. PICK pc \in {"selftest", "download", "recorded"} : At(o, pc)
  BY DEF SelfTest, Reports, DownloadReturns, FinishPlayback
<1>2. pc \in Works /\ worker[o] = pc /\ OpInv(o)
  BY <1>1 DEF Works, At, TsIInv, TsOps
<1>3. ~play[o].open /\ consumer[o] # "on"
  BY <1>2 DEF OpInv, OpPlay
<1>4. Progress(o) \/ \E state \in Terminal : Finish(o, state)
  BY DEF SelfTest, Reports, DownloadReturns, FinishPlayback, Terminal
<1> QED
  BY <1>1, <1>2, <1>3, <1>4, ProgressStep, FinishStep

(* It returns. *)
LEMMA ReturnStep ==
  ASSUME TsIInv, NEW o \in Ops, Return(o)
  PROVE  TsIInv'
<1>1. OpTypes /\ OpInv(o) /\ TsHub
  BY DEF TsIInv, TsOps
<1>2. /\ worker[o] = "returning" /\ worker' = [worker EXCEPT ![o] = "gone"]
      /\ UNCHANGED <<phase, post, delete, entry, canceled, count, play, consumer, checkpoint, said, hubVars>>
  BY DEF Return
<1>3. TsHub'
  BY <1>1, <1>2, HubUnchanged
<1>4. OpTypes' /\ worker'[o] = "gone" /\ \A p \in Ops \ {o} : SameOp(p)
  BY <1>1, <1>2 DEF OpTypes, SameOp
<1>5. OpStage(o)'
  BY <1>1, <1>2, <1>4 DEF OpInv, OpStage, Works, Goals
<1>6. OpPlay(o)' /\ OpFeed(o)' /\ OpRecord(o)'
  BY <1>1, <1>2, <1>4 DEF OpInv, OpPlay, OpFeed, OpRecord, Ended
<1>7. TsOps'
  BY <1>2, <1>4, <1>5, <1>6, OneOp DEF OpInv
<1> QED
  BY <1>3, <1>7 DEF TsIInv

(* Requests. *)
LEMMA RefuseEarlyStep ==
  ASSUME TsIInv, NEW o \in Ops, RefuseEarly(o)
  PROVE  TsIInv'
<1>1. OpTypes /\ OpInv(o) /\ TsHub
  BY DEF TsIInv, TsOps
<1>2. /\ post[o] \in Kinds /\ post' = [post EXCEPT ![o] = "answered"]
      /\ UNCHANGED <<phase, delete, opVars, hubVars>>
  BY DEF RefuseEarly
<1>3. TsHub'
  BY <1>1, <1>2, HubUnchanged
<1>4. OpTypes' /\ post'[o] = "answered" /\ \A p \in Ops \ {o} : SameOp(p)
  BY <1>1, <1>2 DEF OpTypes, SameOp, opVars
<1>5. post[o] \in Goals
  BY <1>2, SessionAssumption DEF Goals
<1>6. OpStage(o)'
  BY <1>1, <1>2, <1>4, <1>5 DEF OpInv, OpStage, opVars, Goals
<1>7. OpPlay(o)' /\ OpFeed(o)' /\ OpRecord(o)'
  BY <1>1, <1>2 DEF OpInv, OpPlay, OpFeed, OpRecord, Ended, opVars
<1>8. TsOps'
  BY <1>2, <1>4, <1>6, <1>7, OneOp DEF OpInv, opVars
<1> QED
  BY <1>3, <1>8 DEF TsIInv

(* An operation is registered, or refused. *)
LEMMA RegisterOpStep ==
  ASSUME TsIInv, NEW o \in Ops, Register(o)
  PROVE  TsIInv'
<1>1. OpTypes /\ OpInv(o) /\ TsHub
  BY DEF TsIInv, TsOps
<1>2. /\ post[o] \in Kinds
      /\ UNCHANGED <<phase, delete, canceled, count, play, consumer, checkpoint, said, hubVars>>
  BY DEF Register
<1>3. TsHub'
  BY <1>1, <1>2, HubUnchanged
<1>4. post[o] \in Goals
  BY <1>2, SessionAssumption DEF Goals
<1>5. entry[o] = "none" /\ worker[o] = "none" /\ said[o] = "nothing" /\ o \notin canceled
  BY <1>1, <1>4 DEF OpInv, OpStage, Goals
<1>6. OpPlay(o) /\ ~play[o].open /\ consumer[o] # "on" /\ checkpoint[o] = <<>>
  BY <1>1, <1>5 DEF OpInv, OpPlay, OpRecord
<1>7. OpFeed(o)'
  BY <1>1, <1>2 DEF OpInv, OpFeed, Ended
<1>8. CASE RegistryRefuses
  <2>1. post' = [post EXCEPT ![o] = "answered"] /\ UNCHANGED <<entry, worker>>
    BY <1>8 DEF Register
  <2>2. OpTypes' /\ post'[o] = "answered" /\ \A p \in Ops \ {o} : SameOp(p)
    BY <1>1, <1>2, <2>1 DEF OpTypes, SameOp
  <2>3. OpStage(o)'
    BY <1>2, <1>5, <2>1, <2>2 DEF OpStage
  <2>4. OpPlay(o)' /\ OpRecord(o)'
    BY <1>2, <1>6, <2>1 DEF OpPlay, OpRecord
  <2>5. TsOps'
    BY <1>2, <1>5, <1>7, <2>1, <2>2, <2>3, <2>4, OneOp DEF OpInv
  <2> QED
    BY <1>3, <2>5 DEF TsIInv
<1>9. CASE ~RegistryRefuses
  <2>1. /\ entry' = [entry EXCEPT ![o] = "running"] /\ worker' = [worker EXCEPT ![o] = post[o]]
        /\ post' = [post EXCEPT ![o] = "announcing"] /\ ~Stopping
    BY <1>9 DEF Register, RegistryRefuses
  <2>2. post[o] \in Works
    BY <1>4 DEF Goals, Works
  <2>3. OpTypes' /\ post'[o] = "announcing" /\ entry'[o] = "running" /\ worker'[o] \in Goals
        /\ \A p \in Ops \ {o} : SameOp(p)
    BY <1>1, <1>2, <1>4, <2>1, <2>2 DEF OpTypes, SameOp
  <2>4. OpStage(o)'
    BY <1>2, <1>5, <2>3 DEF OpStage
  <2>5. OpPlay(o)' /\ OpRecord(o)'
    BY <1>2, <1>6 DEF OpPlay, OpRecord
  <2>6. TsOps'
    BY <1>2, <1>5, <1>7, <2>1, <2>3, <2>4, <2>5, OneOp DEF OpInv
  <2> QED
    BY <1>3, <2>6 DEF TsIInv
<1> QED
  BY <1>8, <1>9

(* Its start is told. *)
LEMMA AnnounceStep ==
  ASSUME TsIInv, NEW o \in Ops, Announce(o)
  PROVE  TsIInv'
<1>1. OpTypes /\ OpInv(o) /\ TsHub
  BY DEF TsIInv, TsOps
<1>2. /\ post[o] = "announcing" /\ Publish(o, "started") /\ post' = [post EXCEPT ![o] = "answered"]
      /\ UNCHANGED <<phase, delete, entry, canceled, worker, count, play, consumer, checkpoint, stream, ready, last>>
  BY DEF Announce
<1>3. TsHub'
  BY <1>1, <1>2, PublishHub
<1>4. entry[o] = "running" /\ worker[o] \in Goals /\ said[o] = "nothing"
  BY <1>1, <1>2 DEF OpInv, OpStage, Goals
<1>5. /\ said' \in [Ops -> {"nothing", "started", "progress", "ended"}] /\ said'[o] = "started"
      /\ \A p \in Ops \ {o} : said'[p] = said[p]
  BY <1>1, <1>2, <1>4, PublishSaid
<1>6. OpTypes' /\ post'[o] = "answered" /\ \A p \in Ops \ {o} : SameOp(p)
  BY <1>1, <1>2, <1>5 DEF OpTypes, SameOp
<1>7. OpStage(o)'
  BY <1>2, <1>4, <1>5, <1>6 DEF OpStage, Goals, Works
<1>8. OpPlay(o)' /\ OpFeed(o)' /\ OpRecord(o)'
  BY <1>1, <1>2 DEF OpInv, OpPlay, OpFeed, OpRecord, Ended
<1>9. TsOps'
  BY <1>2, <1>6, <1>7, <1>8, OneOp DEF OpInv
<1> QED
  BY <1>3, <1>9 DEF TsIInv

(* It is canceled. *)
LEMMA DeleteOpStep ==
  ASSUME TsIInv, NEW d, NEW o \in Ops, Delete(d, o)
  PROVE  TsIInv'
<1>1. OpTypes /\ OpInv(o) /\ TsHub
  BY DEF TsIInv, TsOps
<1>2. /\ phase = "open" /\ said[o] # "nothing" /\ canceled' = canceled \union {o}
      /\ UNCHANGED <<phase, post, entry, worker, count, play, consumer, checkpoint, said, hubVars>>
  BY DEF Delete
<1>3. TsHub'
  BY <1>1, <1>2, HubUnchanged
<1>4. OpTypes' /\ \A p \in Ops \ {o} : SameOp(p)
  BY <1>1, <1>2 DEF OpTypes, SameOp
<1>5. OpStage(o)'
  BY <1>1, <1>2 DEF OpInv, OpStage
<1>6. Ended(o)'
  BY <1>2 DEF Ended
<1>7. OpPlay(o)' /\ OpFeed(o)' /\ OpRecord(o)'
  BY <1>1, <1>2, <1>6 DEF OpInv, OpPlay, OpFeed, OpRecord
<1>8. TsOps'
  BY <1>2, <1>4, <1>5, <1>7, OneOp DEF OpInv
<1> QED
  BY <1>3, <1>8 DEF TsIInv

(* Steps that leave every operation and the hub alone. *)
LEMMA OpsUnchanged ==
  ASSUME TsOps, UNCHANGED <<phase, post, opVars>>
  PROVE  TsOps'
<1>1. ASSUME NEW p \in Ops PROVE OpInv(p)'
  BY SameOpKeeps DEF TsOps, SameOp, opVars, Ended, OpInv, OpStage, Terminal
<1>2. OpTypes'
  BY DEF TsOps, OpTypes, opVars
<1>3. TsIdle'
  BY DEF TsOps, TsIdle, opVars
<1> QED
  BY <1>1, <1>2, <1>3 DEF TsOps

(* Session.Close. *)
LEMMA CloseStep ==
  ASSUME TsIInv, CloseCancels \/ CloseStops \/ CloseWaited \/ CloseEvents \/ CloseServer
  PROVE  TsIInv'
<1>1. UNCHANGED <<post, delete, opVars>> /\ phase # phase'
  BY DEF CloseCancels, CloseStops, CloseWaited, CloseEvents, CloseServer, PhaseTo
<1>2. phase' \in Phases /\ phase' # "open"
  BY DEF CloseCancels, CloseStops, CloseWaited, CloseEvents, CloseServer, PhaseTo, Phases
<1>3. TsHub'
  BY CloseEventsHub, HubUnchanged DEF TsIInv, CloseCancels, CloseStops, CloseWaited, CloseServer
<1>4. OpTypes'
  BY <1>1, <1>2 DEF TsIInv, TsOps, OpTypes, opVars
<1>5. ASSUME NEW p \in Ops PROVE OpInv(p)'
  <2>1. OpInv(p) /\ SameOp(p)
    BY <1>1 DEF TsIInv, TsOps, SameOp, opVars
  <2>2. Ended(p)'
    BY <1>2 DEF Ended
  <2>3. entry[p] = "none" => p \notin canceled'
    BY <1>1, <2>1 DEF OpInv, OpStage, Terminal, opVars
  <2> QED
    BY <2>1, <2>2, <2>3, SameOpKeeps
<1>6. TsIdle'
  <2> SUFFICES ASSUME phase' \in {"stopped", "muted", "closed"}, NEW p \in Ops
               PROVE  entry[p] = "none" \/ worker[p] = "gone"
    BY <1>1 DEF TsIdle, opVars
  <2>1. CASE CloseWaited
    BY <2>1 DEF CloseWaited, Busy, Registered
  <2>2. CASE CloseEvents \/ CloseServer
    BY <2>2 DEF CloseEvents, CloseServer, PhaseTo, TsIInv, TsOps, TsIdle
  <2>3. CASE CloseCancels \/ CloseStops
    BY <2>3 DEF CloseCancels, CloseStops, PhaseTo
  <2> QED
    BY <2>1, <2>2, <2>3
<1> QED
  BY <1>3, <1>4, <1>5, <1>6 DEF TsIInv, TsOps

(* The goroutine of a playback goes on to another stage. *)
LEMMA PlaybackMoves ==
  ASSUME TsIInv, NEW o \in Ops, NEW from \in {"playback", "starting", "playing", "closing"},
         NEW to \in {"starting", "playing", "closing", "draining"}, NEW new \in Plays, Playback(o, from, to, new),
         consumer' \in [Ops -> {"none", "on", "gone"}], \A p \in Ops \ {o} : consumer'[p] = consumer[p],
         checkpoint' = checkpoint,
         new.feed = play[o].feed, new.position = play[o].position, new.at = play[o].at,
         new.eof = play[o].eof, new.ended = play[o].ended,
         new.open => to \in {"playing", "closing"},
         consumer'[o] = "on" => to \in {"playing", "closing", "draining"},
         consumer'[o] = "gone" => consumer[o] = "gone" /\ (new.open => play[o].open)
  PROVE  TsIInv'
<1>1. from \in Works /\ to \in Works /\ At(o, from)
  BY DEF Works, Playback
<1>2. /\ worker[o] = from /\ post[o] = "answered" /\ entry[o] = "running" /\ said[o] \in {"started", "progress"}
      /\ OpTypes /\ TsHub /\ OpInv(o)
  BY <1>1, AtWork
<1>3. /\ worker' = [worker EXCEPT ![o] = to] /\ play' = [play EXCEPT ![o] = new]
      /\ UNCHANGED <<phase, post, delete, entry, canceled, count, said, hubVars>>
  BY DEF Playback
<1>4. TsHub'
  BY <1>2, <1>3, HubUnchanged
<1>5. OpTypes' /\ worker'[o] = to /\ play'[o] = new /\ \A p \in Ops \ {o} : SameOp(p)
  BY <1>1, <1>2, <1>3 DEF OpTypes, SameOp
<1>6. OpStage(o)'
  BY <1>1, <1>2, <1>3, <1>5 DEF OpStage
<1>7. OpPlay(o)'
  BY <1>5 DEF OpPlay
<1>8. OpFeed(o)'
  BY <1>2, <1>3, <1>5 DEF OpInv, OpFeed, Ended
<1>9. OpRecord(o)'
  <2>1. checkpoint[o] = <<>>
    BY <1>2 DEF OpInv, OpRecord
  <2> QED
    BY <2>1 DEF OpRecord
<1>10. TsOps'
  BY <1>2, <1>3, <1>5, <1>6, <1>7, <1>8, <1>9, OneOp DEF OpInv
<1> QED
  BY <1>4, <1>10 DEF TsIInv

(* It has its checkpoint, or fails. *)
LEMMA ResumeOpStep ==
  ASSUME TsIInv, NEW o \in Ops, Resume(o)
  PROVE  TsIInv'
<1>1. At(o, "playback") /\ "playback" \in Works
  BY DEF Resume, Playback, Works
<1>2. OpTypes /\ OpInv(o) /\ worker[o] = "playback"
  BY <1>1, AtWork
<1>3. ~play[o].open /\ consumer[o] # "on" /\ play[o] \in Plays
  BY <1>2 DEF OpInv, OpPlay, OpTypes
<1>4. ASSUME NEW known \in BOOLEAN, Playback(o, "playback", "starting", [play[o] EXCEPT !.known = known]),
             UNCHANGED <<consumer, checkpoint>>
      PROVE  TsIInv'
  <2> DEFINE new == [play[o] EXCEPT !.known = known]
  <2>1. /\ new \in Plays /\ new.feed = play[o].feed /\ new.position = play[o].position /\ new.at = play[o].at
        /\ new.eof = play[o].eof /\ new.ended = play[o].ended /\ new.open = play[o].open
    BY <1>3 DEF Plays
  <2>2. Playback(o, "playback", "starting", new)
    BY <1>4
  <2> HIDE DEF new
  <2>3. consumer' \in [Ops -> {"none", "on", "gone"}] /\ consumer' = consumer /\ checkpoint' = checkpoint
    BY <1>2, <1>4 DEF OpTypes
  <2> QED
    BY <1>3, <2>1, <2>2, <2>3, PlaybackMoves
<1>5. CASE Finish(o, "failed")
  BY <1>1, <1>3, <1>5, FinishStep DEF Terminal
<1> QED
  BY <1>4, <1>5 DEF Resume

(* It has its player and its consumer, or fails. *)
LEMMA StartOpStep ==
  ASSUME TsIInv, NEW o \in Ops, Start(o)
  PROVE  TsIInv'
<1>1. At(o, "starting") /\ "starting" \in Works
  BY DEF Start, Playback, Works
<1>2. OpTypes /\ OpInv(o) /\ worker[o] = "starting"
  BY <1>1, AtWork
<1>3. ~play[o].open /\ consumer[o] # "on" /\ play[o] \in Plays
  BY <1>2 DEF OpInv, OpPlay, OpTypes
<1>4. CASE /\ Playback(o, "starting", "playing", [play[o] EXCEPT !.open = TRUE])
           /\ consumer' = [consumer EXCEPT ![o] = "on"] /\ UNCHANGED checkpoint
  <2> DEFINE new == [play[o] EXCEPT !.open = TRUE]
  <2>1. /\ new \in Plays /\ new.feed = play[o].feed /\ new.position = play[o].position /\ new.at = play[o].at
        /\ new.eof = play[o].eof /\ new.ended = play[o].ended
    BY <1>3 DEF Plays
  <2>2. Playback(o, "starting", "playing", new)
    BY <1>4
  <2> HIDE DEF new
  <2>3. /\ consumer' \in [Ops -> {"none", "on", "gone"}] /\ consumer'[o] = "on"
        /\ \A p \in Ops \ {o} : consumer'[p] = consumer[p]
    BY <1>2, <1>4 DEF OpTypes
  <2> QED
    BY <1>4, <2>1, <2>2, <2>3, PlaybackMoves
<1>5. CASE \E state \in Terminal : Finish(o, state)
  BY <1>1, <1>3, <1>5, FinishStep
<1>6. ~(/\ Playback(o, "starting", "playing", [play[o] EXCEPT !.open = TRUE])
        /\ consumer' = [consumer EXCEPT ![o] = "on"] /\ UNCHANGED checkpoint)
        => \E state \in Terminal : Finish(o, state)
  BY DEF Start, Terminal
<1> QED
  BY <1>4, <1>5, <1>6

(* The player is over, and closed. *)
LEMMA OverOpStep ==
  ASSUME TsIInv, NEW o \in Ops, PlaybackOver(o) \/ ClosePlaybackOf(o)
  PROVE  TsIInv'
<1>1. PICK from \in {"playing", "closing"} : At(o, from)
  BY DEF PlaybackOver, ClosePlaybackOf, Playback
<1>2. OpTypes /\ OpInv(o) /\ worker[o] = from
  BY <1>1, AtWork DEF Works
<1>3. /\ play[o] \in Plays
      /\ consumer' \in [Ops -> {"none", "on", "gone"}] /\ consumer' = consumer /\ checkpoint' = checkpoint
  BY <1>2 DEF OpTypes, PlaybackOver, ClosePlaybackOf
<1>4. ASSUME NEW failed \in BOOLEAN, Playback(o, "playing", "closing", [play[o] EXCEPT !.failed = failed])
      PROVE  TsIInv'
  <2> DEFINE new == [play[o] EXCEPT !.failed = failed]
  <2>1. /\ new \in Plays /\ new.feed = play[o].feed /\ new.position = play[o].position /\ new.at = play[o].at
        /\ new.eof = play[o].eof /\ new.ended = play[o].ended /\ new.open = play[o].open
    BY <1>3 DEF Plays
  <2>2. Playback(o, "playing", "closing", new)
    BY <1>4
  <2> HIDE DEF new
  <2> QED
    BY <1>3, <2>1, <2>2, PlaybackMoves
<1>5. ASSUME NEW failed \in BOOLEAN, Playback(o, "closing", "draining", [play[o] EXCEPT !.open = FALSE, !.failed = failed])
      PROVE  TsIInv'
  <2> DEFINE new == [play[o] EXCEPT !.open = FALSE, !.failed = failed]
  <2>1. /\ new \in Plays /\ new.feed = play[o].feed /\ new.position = play[o].position /\ new.at = play[o].at
        /\ new.eof = play[o].eof /\ new.ended = play[o].ended /\ ~new.open
    BY <1>3 DEF Plays
  <2>2. Playback(o, "closing", "draining", new)
    BY <1>5
  <2> HIDE DEF new
  <2> QED
    BY <1>3, <2>1, <2>2, PlaybackMoves
<1>6. play[o].failed \in BOOLEAN
  BY <1>3 DEF Plays
<1>7. CASE PlaybackOver(o)
  <2>1. \/ Playback(o, "playing", "closing", [play[o] EXCEPT !.failed = play[o].failed \/ play[o].ended = "error"])
        \/ Playback(o, "playing", "closing", [play[o] EXCEPT !.failed = TRUE])
    BY <1>7 DEF PlaybackOver
  <2>2. (play[o].failed \/ play[o].ended = "error") \in BOOLEAN
    OBVIOUS
  <2> QED
    BY <1>4, <2>1, <2>2
<1>8. CASE ClosePlaybackOf(o)
  <2>1. PICK failed \in BOOLEAN : Playback(o, "closing", "draining", [play[o] EXCEPT !.open = FALSE, !.failed = play[o].failed \/ failed])
    BY <1>8 DEF ClosePlaybackOf
  <2>2. (play[o].failed \/ failed) \in BOOLEAN
    OBVIOUS
  <2> QED
    BY <1>5, <2>1, <2>2
<1> QED
  BY <1>7, <1>8

(* What only the telemetry of one playback and its consumer do. *)
LEMMA PlayMoves ==
  ASSUME TsIInv, NEW o \in Ops, NEW new \in Plays, play' = [play EXCEPT ![o] = new],
         TsHub', said' \in [Ops -> {"nothing", "started", "progress", "ended"}], OpStage(o)',
         \A p \in Ops \ {o} : said'[p] = said[p],
         UNCHANGED <<phase, post, entry, canceled, worker, count, consumer, checkpoint>>,
         new.open = play[o].open, worker[o] \in {"playing", "closing", "draining"},
         OpFeed(o)'
  PROVE  TsIInv'
<1>1. OpTypes /\ OpInv(o)
  BY DEF TsIInv, TsOps
<1>2. OpTypes' /\ play'[o] = new /\ \A p \in Ops \ {o} : SameOp(p)
  BY <1>1 DEF OpTypes, SameOp
<1>3. OpPlay(o)'
  BY <1>1, <1>2 DEF OpInv, OpPlay
<1>4. OpRecord(o)'
  <2>1. checkpoint[o] = <<>>
    BY <1>1 DEF OpInv, OpRecord
  <2> QED
    BY <2>1 DEF OpRecord
<1>5. TsOps'
  BY <1>2, <1>3, <1>4, OneOp DEF OpInv
<1> QED
  BY <1>5 DEF TsIInv

(* The player moves on, or ends. *)
LEMMA PlayerActsStep ==
  ASSUME TsIInv, NEW o \in Ops, PlayerActs(o)
  PROVE  TsIInv'
<1>1. OpTypes /\ OpInv(o) /\ TsHub
  BY DEF TsIInv, TsOps
<1>2. /\ play[o].open /\ play[o].ended = "no"
      /\ UNCHANGED <<phase, post, delete, entry, canceled, worker, count, consumer, checkpoint, said, hubVars>>
  BY DEF PlayerActs
<1>3. play[o] \in Plays /\ play[o].at \in Nat /\ play[o].feed \in Seq(PlayEvents)
  BY <1>1 DEF OpTypes, Plays
<1>4. PICK at \in Nat, over \in {"no", "eof", "quit", "error"} :
        play' = [play EXCEPT ![o] = [play[o] EXCEPT !.at = at, !.ended = over,
                                       !.feed = Append(play[o].feed, [at |-> at, eof |-> over = "eof"])]]
  <2>1. CASE play' = [play EXCEPT ![o].at = @ + 1, ![o].feed = Append(@, [at |-> play[o].at + 1, eof |-> FALSE])]
    <3>1. play' = [play EXCEPT ![o] = [play[o] EXCEPT !.at = play[o].at + 1,
                                         !.feed = Append(play[o].feed, [at |-> play[o].at + 1, eof |-> FALSE])]]
      BY <2>1
    <3>2. [play[o] EXCEPT !.at = play[o].at + 1, !.feed = Append(play[o].feed, [at |-> play[o].at + 1, eof |-> FALSE])]
          = [play[o] EXCEPT !.at = play[o].at + 1, !.ended = "no",
                            !.feed = Append(play[o].feed, [at |-> play[o].at + 1, eof |-> "no" = "eof"])]
      BY <1>2, <1>3 DEF Plays
    <3>3. play[o].at + 1 \in Nat
      BY <1>3
    <3> QED
      BY <3>1, <3>2, <3>3
  <2>2. ASSUME NEW how \in {"eof", "quit", "error"},
               play' = [play EXCEPT ![o].ended = how, ![o].feed = Append(@, [at |-> play[o].at, eof |-> how = "eof"])]
        PROVE  play' = [play EXCEPT ![o] = [play[o] EXCEPT !.at = play[o].at, !.ended = how,
                                              !.feed = Append(play[o].feed, [at |-> play[o].at, eof |-> how = "eof"])]]
    <3>1. play' = [play EXCEPT ![o] = [play[o] EXCEPT !.ended = how,
                                         !.feed = Append(play[o].feed, [at |-> play[o].at, eof |-> how = "eof"])]]
      BY <2>2
    <3>2. [play[o] EXCEPT !.ended = how, !.feed = Append(play[o].feed, [at |-> play[o].at, eof |-> how = "eof"])]
          = [play[o] EXCEPT !.at = play[o].at, !.ended = how,
                            !.feed = Append(play[o].feed, [at |-> play[o].at, eof |-> how = "eof"])]
      BY <1>3 DEF Plays
    <3> QED
      BY <3>1, <3>2
  <2> QED
    BY <1>3, <2>1, <2>2 DEF PlayerActs
<1> DEFINE e == [at |-> at, eof |-> over = "eof"]
           new == [play[o] EXCEPT !.at = at, !.ended = over, !.feed = Append(play[o].feed, e)]
<1>5. e \in PlayEvents /\ e.at = at /\ e.eof = (over = "eof")
  BY DEF PlayEvents
<1> HIDE DEF e
<1>6. /\ Append(play[o].feed, e) \in Seq(PlayEvents) /\ Len(Append(play[o].feed, e)) = Len(play[o].feed) + 1
      /\ Append(play[o].feed, e)[Len(play[o].feed) + 1] = e /\ Len(play[o].feed) \in Nat
      /\ \A i \in 1..Len(play[o].feed) : Append(play[o].feed, e)[i] = play[o].feed[i]
  BY <1>3, <1>5
<1>7. /\ new \in Plays /\ new.at = at /\ new.ended = over /\ new.feed = Append(play[o].feed, e)
      /\ new.open = play[o].open /\ new.eof = play[o].eof /\ new.position = play[o].position
  BY <1>3, <1>6 DEF Plays
<1>8. play' = [play EXCEPT ![o] = new]
  BY <1>4 DEF e
<1> HIDE DEF new
<1>9. play'[o] = new
  BY <1>1, <1>8 DEF OpTypes
<1>10. OpFeed(o)'
  <2>1. new.feed # <<>> /\ new.feed[Len(new.feed)].at = new.at
    BY <1>5, <1>6, <1>7
  <2>2. ~play[o].eof /\ \A i \in 1..Len(play[o].feed) : ~play[o].feed[i].eof
    BY <1>1, <1>2 DEF OpInv, OpFeed
  <2>3. ASSUME NEW i \in 1..Len(new.feed), new.feed[i].eof PROVE over = "eof"
    <3>1. CASE i = Len(play[o].feed) + 1
      BY <1>5, <1>6, <1>7, <2>3, <3>1
    <3>2. CASE i # Len(play[o].feed) + 1
      <4>1. i \in 1..Len(play[o].feed)
        BY <1>6, <1>7, <3>2
      <4> QED
        BY <1>6, <1>7, <2>2, <2>3, <4>1
    <3> QED
      BY <3>1, <3>2
  <2>4. consumer[o] = "gone" => Ended(o)
    BY <1>1, <1>2 DEF OpInv, OpFeed
  <2>5. Ended(o)' = Ended(o) /\ consumer'[o] = consumer[o]
    BY <1>2 DEF Ended
  <2> QED
    BY <1>7, <1>9, <2>1, <2>2, <2>3, <2>4, <2>5 DEF OpFeed
<1>11. TsHub'
  BY <1>1, <1>2, HubUnchanged
<1>12. OpStage(o)'
  BY <1>1, <1>2 DEF OpInv, OpStage
<1>13. worker[o] \in {"playing", "closing", "draining"}
  BY <1>1, <1>2 DEF OpInv, OpPlay
<1> QED
  BY <1>1, <1>2, <1>7, <1>8, <1>10, <1>11, <1>12, <1>13, PlayMoves DEF OpTypes

(* What is left of a queue, and which of its elements come from where. *)
LEMMA FeedShrinks ==
  ASSUME NEW S, NEW q \in Seq(S), q # <<>>
  PROVE  /\ Tail(q) \in Seq(S) /\ Head(q) \in S
         /\ \E j \in 1..Len(q) : Head(q) = q[j]
         /\ Tail(q) = <<>> => q[Len(q)] = Head(q)
         /\ Tail(q) # <<>> => Tail(q)[Len(Tail(q))] = q[Len(q)]
         /\ \A i \in 1..Len(Tail(q)) : \E j \in 1..Len(q) : Tail(q)[i] = q[j]
<1> DEFINE t == Tail(q)
<1>1. /\ Len(q) \in Nat \ {0} /\ t \in Seq(S) /\ Len(t) = Len(q) - 1
      /\ \A i \in 1..Len(q) - 1 : t[i] = q[i + 1]
      /\ Head(q) = q[1]
  OBVIOUS
<1>2. 1 \in 1..Len(q)
  BY <1>1
<1>3. q[1] \in S
  BY <1>2, ElementOfSeq
<1> HIDE DEF t
<1>4. \A i \in 1..Len(t) : i + 1 \in 1..Len(q) /\ t[i] = q[i + 1]
  BY <1>1
<1>5. t = <<>> => q[Len(q)] = Head(q)
  <2>1. t = <<>> => Len(t) = 0
    OBVIOUS
  <2>2. Len(t) = 0 => Len(q) = 1
    BY <1>1
  <2>3. Len(q) = 1 => q[Len(q)] = Head(q)
    BY <1>1, Zenon
  <2> QED
    BY <2>1, <2>2, <2>3, Zenon
<1>6. t # <<>> => t[Len(t)] = q[Len(q)]
  <2>1. t # <<>> => Len(t) # 0
    BY <1>1
  <2>2. t # <<>> => Len(t) \in 1..Len(q) - 1 /\ Len(t) + 1 = Len(q)
    BY <1>1, <2>1
  <2> QED
    BY <1>1, <2>2
<1> QED
  BY <1>1, <1>2, <1>3, <1>4, <1>5, <1>6 DEF t

(* The consumer takes an event of the player. *)
LEMMA ConsumeStep ==
  ASSUME TsIInv, NEW o \in Ops, Consume(o)
  PROVE  TsIInv'
<1>1. OpTypes /\ OpInv(o) /\ TsHub
  BY DEF TsIInv, TsOps
<1> DEFINE feed == play[o].feed
           event == Head(play[o].feed)
           new == [play[o] EXCEPT !.feed = Tail(@), !.position = event.at, !.eof = @ \/ event.eof]
<1>2. /\ consumer[o] = "on" /\ feed # <<>> /\ Publish(o, "progress")
      /\ play' = [play EXCEPT ![o].feed = Tail(@), ![o].position = event.at, ![o].eof = @ \/ event.eof]
      /\ UNCHANGED <<phase, post, delete, entry, canceled, worker, count, consumer, checkpoint, stream, ready, last>>
  BY DEF Consume
<1>3. play[o] \in Plays /\ feed \in Seq(PlayEvents)
  BY <1>1 DEF OpTypes, Plays
<1>4. play' = [play EXCEPT ![o] = new]
  BY <1>2
<1>5. /\ Tail(feed) \in Seq(PlayEvents) /\ event \in PlayEvents
      /\ \E j \in 1..Len(feed) : event = feed[j]
      /\ Tail(feed) = <<>> => feed[Len(feed)] = event
      /\ Tail(feed) # <<>> => Tail(feed)[Len(Tail(feed))] = feed[Len(feed)]
      /\ \A i \in 1..Len(Tail(feed)) : \E j \in 1..Len(feed) : Tail(feed)[i] = feed[j]
  BY <1>2, <1>3, FeedShrinks
<1>6. event \in PlayEvents
  BY <1>5
<1>7. /\ new \in Plays /\ new.feed = Tail(feed) /\ new.position = event.at
      /\ new.eof = (play[o].eof \/ event.eof) /\ new.at = play[o].at /\ new.ended = play[o].ended
      /\ new.open = play[o].open
  BY <1>3, <1>5, <1>6 DEF Plays, PlayEvents
<1>8. worker[o] \in {"playing", "closing", "draining"}
  BY <1>1, <1>2 DEF OpInv, OpPlay
<1>9. entry[o] = "running" /\ post[o] = "answered" /\ said[o] \in {"started", "progress"}
  BY <1>1, <1>8 DEF OpInv, OpStage, Goals
<1>10. /\ said' \in [Ops -> {"nothing", "started", "progress", "ended"}] /\ said'[o] = "progress"
       /\ \A p \in Ops \ {o} : said'[p] = said[p]
  BY <1>1, <1>2, <1>9, PublishSaid
<1>11. TsHub'
  BY <1>1, <1>2, PublishHub
<1>12. OpStage(o)'
  BY <1>2, <1>8, <1>9, <1>10 DEF OpStage, Works
<1> DEFINE t == Tail(feed)
<1> HIDE DEF new, t, event, feed
<1>13. play'[o] = new
  BY <1>1, <1>4 DEF OpTypes
<1>14. OpFeed(o)'
  <2>1. feed[Len(feed)].at = play[o].at /\ (play[o].eof => play[o].ended = "eof")
        /\ \A i \in 1..Len(feed) : feed[i].eof => play[o].ended = "eof"
    BY <1>1, <1>2 DEF OpInv, OpFeed, feed
  <2>2. /\ \E j \in 1..Len(feed) : event = feed[j]
        /\ t = <<>> => feed[Len(feed)] = event
        /\ t # <<>> => t[Len(t)] = feed[Len(feed)]
        /\ \A i \in 1..Len(t) : \E j \in 1..Len(feed) : t[i] = feed[j]
    BY <1>5 DEF t
  <2>3. new.feed = t
    BY <1>7 DEF t
  <2>4. new.eof => new.ended = "eof"
    BY <1>7, <2>1, <2>2
  <2>5. t = <<>> => new.position = new.at
    BY <1>7, <2>1, <2>2
  <2>6. t # <<>> => t[Len(t)].at = new.at
    BY <1>7, <2>1, <2>2
  <2>7. \A i \in 1..Len(t) : t[i].eof => new.ended = "eof"
    BY <1>7, <2>1, <2>2
  <2>8. consumer'[o] # "gone"
    BY <1>2
  <2> QED
    BY <1>13, <2>3, <2>4, <2>5, <2>6, <2>7, <2>8 DEF OpFeed
<1> QED
  BY <1>2, <1>4, <1>7, <1>8, <1>10, <1>11, <1>12, <1>14, PlayMoves

(* The consumer ends, with nothing left unless the operation was told to end. *)
LEMMA ConsumerEndsStep ==
  ASSUME TsIInv, NEW o \in Ops, ConsumerEnds(o)
  PROVE  TsIInv'
<1>1. OpTypes /\ OpInv(o) /\ TsHub
  BY DEF TsIInv, TsOps
<1>2. /\ consumer' = [consumer EXCEPT ![o] = "gone"]
      /\ (~play[o].open /\ play[o].feed = <<>>) \/ Ended(o)
      /\ UNCHANGED <<phase, post, delete, entry, canceled, worker, count, play, checkpoint, said, hubVars>>
  BY DEF ConsumerEnds
<1>3. TsHub'
  BY <1>1, <1>2, HubUnchanged
<1>4. OpTypes' /\ consumer'[o] = "gone" /\ \A p \in Ops \ {o} : SameOp(p)
  BY <1>1, <1>2 DEF OpTypes, SameOp
<1>5. OpStage(o)' /\ OpPlay(o)' /\ OpRecord(o)'
  BY <1>1, <1>2, <1>4 DEF OpInv, OpStage, OpPlay, OpRecord, Ended
<1>6. OpFeed(o)'
  BY <1>1, <1>2 DEF OpInv, OpFeed, Ended
<1>7. TsOps'
  BY <1>2, <1>4, <1>5, <1>6, OneOp DEF OpInv
<1> QED
  BY <1>3, <1>7 DEF TsIInv

(* The checkpoint is recorded after the consumer has ended, or a warning told. *)
LEMMA RecordStep ==
  ASSUME TsIInv, NEW o \in Ops, Record(o)
  PROVE  TsIInv'
<1>1. At(o, "draining") /\ "draining" \in Works
  BY DEF Record, Works
<1>2. /\ worker[o] = "draining" /\ post[o] = "answered" /\ entry[o] = "running" /\ said[o] \in {"started", "progress"}
      /\ OpTypes /\ TsHub /\ OpInv(o)
  BY <1>1, AtWork
<1>3. /\ consumer[o] = "gone" /\ worker' = [worker EXCEPT ![o] = "recorded"]
      /\ UNCHANGED <<phase, post, delete, entry, canceled, count, play, consumer>>
  BY DEF Record
<1>4. /\ worker' \in [Ops -> Works \union {"none", "returning", "gone"}] /\ worker'[o] = "recorded"
      /\ \A p \in Ops \ {o} : worker'[p] = worker[p]
  BY <1>2, <1>3 DEF OpTypes, Works
<1>5. ~play[o].open /\ play[o] \in Plays /\ (~Ended(o) => play[o].position = play[o].at) /\ (play[o].eof => play[o].ended = "eof")
      /\ checkpoint[o] = <<>>
  BY <1>2, <1>3 DEF OpInv, OpPlay, OpFeed, OpRecord, OpTypes
<1>6. OpPlay(o)' /\ OpFeed(o)'
  BY <1>2, <1>3, <1>5 DEF OpInv, OpPlay, OpFeed, Ended
<1>7. CASE checkpoint' = [checkpoint EXCEPT ![o] = Checkpoint(o)] /\ UNCHANGED <<said, hubVars>>
  <2>1. Checkpoint(o) = <<>> \/ \E c \in Checkpoints :
           /\ Checkpoint(o) = <<c>>
           /\ c.completed => play[o].ended = "eof" /\ ~play[o].failed
           /\ ~Ended(o) => c.position = play[o].at
    <3> DEFINE c == [position |-> play[o].position, completed |-> ~Ended(o) /\ ~play[o].failed /\ play[o].eof]
    <3>1. c \in Checkpoints /\ c.position = play[o].position /\ c.completed = (~Ended(o) /\ ~play[o].failed /\ play[o].eof)
      <4>1. play[o].position \in Nat
        BY <1>5 DEF Plays
      <4>2. (~Ended(o) /\ ~play[o].failed /\ play[o].eof) \in BOOLEAN
        OBVIOUS
      <4> QED
        BY <4>1, <4>2 DEF Checkpoints
    <3>2. Checkpoint(o) = IF play[o].known THEN <<c>> ELSE <<>>
      BY DEF Checkpoint
    <3> HIDE DEF c
    <3> QED
      BY <1>5, <3>1, <3>2
  <2>2. /\ Checkpoint(o) \in Seq(Checkpoints)
        /\ \A i \in DOMAIN Checkpoint(o) :
             /\ Checkpoint(o)[i].completed => play[o].ended = "eof" /\ ~play[o].failed
             /\ ~Ended(o) => Checkpoint(o)[i].position = play[o].at
    <3>1. CASE Checkpoint(o) = <<>>
      BY <3>1
    <3>2. ASSUME NEW c \in Checkpoints, Checkpoint(o) = <<c>>,
                 c.completed => play[o].ended = "eof" /\ ~play[o].failed, ~Ended(o) => c.position = play[o].at
          PROVE  /\ Checkpoint(o) \in Seq(Checkpoints)
                 /\ \A i \in DOMAIN Checkpoint(o) :
                      /\ Checkpoint(o)[i].completed => play[o].ended = "eof" /\ ~play[o].failed
                      /\ ~Ended(o) => Checkpoint(o)[i].position = play[o].at
      <4>1. <<c>> \in Seq(Checkpoints) /\ DOMAIN <<c>> = {1} /\ <<c>>[1] = c
        OBVIOUS
      <4> QED
        BY <3>2, <4>1
    <3> QED
      BY <2>1, <3>1, <3>2
  <2>3. /\ checkpoint' \in [Ops -> Seq(Checkpoints)] /\ checkpoint'[o] = Checkpoint(o)
        /\ \A p \in Ops \ {o} : checkpoint'[p] = checkpoint[p]
    BY <1>2, <1>7, <2>2 DEF OpTypes
  <2>4. OpTypes' /\ \A p \in Ops \ {o} : SameOp(p)
    BY <1>2, <1>3, <1>4, <1>7, <2>3 DEF OpTypes, SameOp
  <2>5. OpStage(o)'
    BY <1>2, <1>3, <1>4, <1>7 DEF OpStage, Works
  <2>6. OpRecord(o)'
    BY <1>3, <1>4, <2>2, <2>3 DEF OpRecord, Ended
  <2>7. TsOps'
    BY <1>2, <1>3, <1>4, <1>6, <2>4, <2>5, <2>6, OneOp DEF OpInv
  <2>8. TsHub'
    BY <1>2, <1>7, HubUnchanged
  <2> QED
    BY <2>7, <2>8 DEF TsIInv
<1>8. CASE Publish(o, "progress") /\ UNCHANGED <<checkpoint, stream, ready, last>>
  <2>1. TsHub'
    BY <1>2, <1>8, PublishHub
  <2>2. /\ said' \in [Ops -> {"nothing", "started", "progress", "ended"}] /\ said'[o] = "progress"
        /\ \A p \in Ops \ {o} : said'[p] = said[p]
    BY <1>2, <1>8, PublishSaid
  <2>3. OpTypes' /\ \A p \in Ops \ {o} : SameOp(p)
    BY <1>2, <1>3, <1>4, <1>8, <2>2 DEF OpTypes, SameOp
  <2>4. OpStage(o)'
    BY <1>2, <1>3, <1>4, <2>2 DEF OpStage, Works
  <2>5. OpRecord(o)'
    BY <1>5, <1>8 DEF OpRecord
  <2>6. TsOps'
    BY <1>2, <1>3, <1>4, <1>6, <2>3, <2>4, <2>5, OneOp DEF OpInv
  <2> QED
    BY <2>1, <2>6 DEF TsIInv
<1> QED
  BY <1>7, <1>8 DEF Record

(* The session starts in the invariant. *)
LEMMA TsInitIInv == TsInit => TsIInv
<1> SUFFICES ASSUME TsInit PROVE TsIInv
  OBVIOUS
<1>1. NoPlay \in Plays /\ NoPlay.feed = <<>> /\ Len(<<>>) = 0 /\ DOMAIN <<>> = {}
  <2>1. <<>> \in Seq(PlayEvents)
    OBVIOUS
  <2> QED
    BY <2>1 DEF NoPlay, Plays
<1>2. OpTypes
  <2>1. <<>> \in Seq(Checkpoints)
    OBVIOUS
  <2>2. post \in [Ops -> Goals \union {"announcing", "answered"}]
    BY SessionAssumption DEF TsInit, Goals
  <2>3. 0 \in 0..Steps
    BY SessionAssumption
  <2> QED
    BY <1>1, <2>1, <2>2, <2>3 DEF TsInit, OpTypes, Phases, Works
<1>3. ASSUME NEW o \in Ops PROVE OpInv(o)
  <2>1. post[o] \in Goals \union {"answered"}
    BY SessionAssumption DEF TsInit, Goals
  <2>2. entry[o] = "none" /\ worker[o] = "none" /\ said[o] = "nothing" /\ o \notin canceled /\ consumer[o] = "none"
        /\ checkpoint[o] = <<>> /\ play[o] = NoPlay
    BY DEF TsInit
  <2>3. ~NoPlay.open /\ NoPlay.position = NoPlay.at /\ ~NoPlay.eof
    BY DEF NoPlay
  <2>4. OpStage(o)
    BY <2>1, <2>2 DEF OpStage
  <2>5. OpPlay(o) /\ OpRecord(o)
    BY <2>2, <2>3 DEF OpPlay, OpRecord
  <2>6. OpFeed(o)
    BY <1>1, <2>2, <2>3 DEF OpFeed
  <2> QED
    BY <2>4, <2>5, <2>6 DEF OpInv
<1>4. TsIdle
  BY DEF TsInit, TsIdle
<1> QED
  BY <1>2, <1>3, <1>4, InitHub DEF TsIInv, TsOps

(* Every step of the session keeps it. *)
LEMMA TsStep == ASSUME TsIInv, TsNext PROVE TsIInv'
<1>1. ASSUME NEW s \in Streams, Subscribe(s) \/ Deliver(s) \/ DeliverOverflow(s) \/ ClientLeaves(s) \/ StreamDone(s)
      PROVE  TsIInv'
  <2>1. TsHub'
    BY <1>1, SubscribeHub, DeliverHub, StreamLeaves DEF TsIInv
  <2>2. UNCHANGED <<phase, post, opVars>>
    BY <1>1 DEF Subscribe, Deliver, DeliverOverflow, ClientLeaves, StreamDone, StreamEnds
  <2> QED
    BY <2>1, <2>2, OpsUnchanged DEF TsIInv
<1>2. ASSUME NEW d \in Deleters, Deleted(d) PROVE TsIInv'
  BY <1>2, OpsUnchanged, HubUnchanged DEF TsIInv, Deleted
<1>3. ASSUME NEW d \in Deleters, NEW o \in Ops, Delete(d, o) PROVE TsIInv'
  BY <1>3, DeleteOpStep
<1>4. CASE CloseCancels \/ CloseStops \/ CloseWaited \/ CloseEvents \/ CloseServer
  BY <1>4, CloseStep
<1>5. ASSUME NEW o \in Ops, RefuseEarly(o) \/ Register(o) \/ Announce(o) \/ Return(o) PROVE TsIInv'
  BY <1>5, RefuseEarlyStep, RegisterOpStep, AnnounceStep, ReturnStep
<1>6. ASSUME NEW o \in Ops, SelfTest(o) \/ Reports(o) \/ DownloadReturns(o) \/ FinishPlayback(o) PROVE TsIInv'
  BY <1>6, SelfTestStep
<1>7. ASSUME NEW o \in Ops, \/ Resume(o) \/ Start(o) \/ PlaybackOver(o) \/ ClosePlaybackOf(o)
                            \/ PlayerActs(o) \/ Consume(o) \/ ConsumerEnds(o) \/ Record(o)
      PROVE  TsIInv'
  BY <1>7, ResumeOpStep, StartOpStep, OverOpStep, PlayerActsStep, ConsumeStep, ConsumerEndsStep, RecordStep
<1> QED
  BY <1>1, <1>2, <1>3, <1>4, <1>5, <1>6, <1>7 DEF TsNext, TsProgress

(* So does a step of another part. *)
LEMMA TsStutter == ASSUME TsIInv, UNCHANGED tsVars PROVE TsIInv'
BY OpsUnchanged, HubUnchanged DEF TsIInv, tsVars

(* The invariant implies what the runs check of the session. *)
LEMMA TsInvariance == TsIInv => TsSafe
<1> SUFFICES ASSUME TsIInv PROVE TsSafe
  OBVIOUS
<1>1. OpTypes /\ TsHub /\ TsIdle
  BY DEF TsIInv, TsOps
<1>2. ASSUME NEW o \in Ops PROVE OpStage(o) /\ OpPlay(o) /\ OpRecord(o)
  BY DEF TsIInv, TsOps, OpInv
<1>3. TsTypeOK
  <2>1. canceled \subseteq Registered
    BY <1>1, <1>2 DEF OpTypes, OpStage, Registered, Terminal
  <2> QED
    BY <1>1, <2>1, HubTells DEF OpTypes, TsTypeOK, Phases
<1>4. OperationToldInOrder
  BY <1>2 DEF OperationToldInOrder, OpStage, Terminal
<1>5. StreamsTellAll
  BY <1>1, HubTells
<1>6. StoppedIsIdle
  <2> SUFFICES ASSUME phase \in {"stopped", "muted", "closed"} PROVE StoppedIsIdle
    BY DEF StoppedIsIdle
  <2>1. ASSUME NEW o \in Ops
        PROVE  /\ entry[o] = "none" \/ worker[o] = "gone"
               /\ post[o] # "announcing" /\ consumer[o] # "on" /\ (entry[o] # "none" => entry[o] \in Terminal)
    BY <1>1, <1>2 DEF TsIdle, OpStage, OpPlay, Goals, Works
  <2> QED
    BY <2>1 DEF StoppedIsIdle, Busy, Registered
<1>7. CheckpointHonest
  BY <1>2 DEF CheckpointHonest, OpRecord
<1>8. PlayersClosed
  BY <1>2 DEF PlayersClosed, OpStage, OpPlay, Terminal
<1> QED
  BY <1>3, <1>4, <1>5, <1>6, <1>7, <1>8 DEF TsSafe

---------------------------------------------------------------------------
(* The whole: what every part keeps. *)
SessionIInv == TsIInv /\ PcIInv /\ PsIInv /\ PbIInv /\ WsIInv /\ TaIInv

(* The interface starts in the invariant, whichever part is followed. *)
LEMMA SessionInit ==
  ASSUME Init
  PROVE  SessionIInv
<1>1. TsInit /\ PcInit /\ PsInit /\ PbInit /\ WsInit /\ TaInit
  BY DEF Init
<1> QED
  BY <1>1, TsInitIInv, PcInitIInv, PsInitIInv, PbInitIInv, WsInitIInv, TaInitIInv DEF SessionIInv

(* A step of one part keeps its invariant and leaves the variables of the others alone. *)
LEMMA SessionStep ==
  ASSUME SessionIInv, [Next]_vars
  PROVE  SessionIInv'
<1> USE DEF SessionIInv
<1>1. CASE Session /\ TsNext
  BY <1>1, TsStep, PcStutter, PsStutter, PbStutter, WsStutter, TaStutter DEF Session
<1>2. CASE Client /\ PcNext
  BY <1>2, TsStutter, PcStep, PsStutter, PbStutter, WsStutter, TaStutter DEF Client
<1>3. CASE Player /\ PsNext
  BY <1>3, TsStutter, PcStutter, PsStep, PbStutter, WsStutter, TaStutter DEF Player
<1>4. CASE Playing /\ PbNext
  BY <1>4, TsStutter, PcStutter, PsStutter, PbStep, WsStutter, TaStutter DEF Playing
<1>5. CASE FrontEnd /\ WsNext
  BY <1>5, TsStutter, PcStutter, PsStutter, PbStutter, WsStep, TaStutter DEF FrontEnd
<1>6. CASE Authentication /\ TaNext
  BY <1>6, TsStutter, PcStutter, PsStutter, PbStutter, WsStutter, TaStep DEF Authentication
<1>7. CASE UNCHANGED vars
  BY <1>7, TsStutter, PcStutter, PsStutter, PbStutter, WsStutter, TaStutter DEF vars
<1> QED
  BY <1>1, <1>2, <1>3, <1>4, <1>5, <1>6, <1>7 DEF Next

(* The inductive invariant of the terminal interface holds in every behaviour. *)
THEOREM SessionInvariant == Spec => []SessionIInv
<1>1. Init => SessionIInv
  BY SessionInit
<1>2. SessionIInv /\ [Next]_vars => SessionIInv'
  BY SessionStep
<1> QED
  BY <1>1, <1>2, PTL DEF Spec

(* What the interface keeps at every moment: a stream has every event or ends
   with an overflow, a stopped session runs nothing, one answer to a command,
   the end of playback and a failure of the proxy are not lost to a race, the
   screen shows what was told, one login at a time. *)
THEOREM SessionIsSafe == Spec => []SessionSafe
<1>1. SessionIInv => SessionSafe
  BY TsInvariance, PcInvariance, PsInvariance, PbInvariance, WsInvariance, TaInvariance DEF SessionIInv, SessionSafe
<1> QED
  BY <1>1, SessionInvariant, PTL
=============================================================================
