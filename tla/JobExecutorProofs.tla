--------------------------- MODULE JobExecutorProofs ---------------------------
(***************************************************************************)
(* Proofs about JobExecutor, for any jobs, workers, lectures and slots:    *)
(* its types, that the event stream tells the truth, that a completed job  *)
(* is complete, that a job fails for a cause and is orphaned for one, and  *)
(* that it uses the store as JobRegistry allows.                           *)
(*                                                                         *)
(* Every action concerns one job, so the inductive invariant is a          *)
(* conjunction JobInv(j) over the jobs, and what an action leaves alone of *)
(* a job it leaves true of it: the lemmas ...Kept say of each conjunct on  *)
(* which variables it depends.                                             *)
(***************************************************************************)
EXTENDS JobExecutor, FiniteSetTheorems, SequenceTheorems, TLAPS

Counts == [total : Nat, next : Nat, completed : Nat, outputs : Nat, err : BOOLEAN,
           done : [Workers -> Nat]]
Messages == [job : Jobs, by : Workers \cup {"executor", "request"},
             kinds : {<<"progress", "started">>} \cup {<<k>> : k \in Kinds}]

(* The types, but for the bounds of the counters.                          *)
TypeInv ==
  /\ status \in [Jobs -> {"none", "pending", "running"} \cup Terminal]
  /\ progress \in [Jobs -> 0..100]
  /\ ctxDone \subseteq Jobs
  /\ storeClosed \in BOOLEAN
  /\ faults \in 0..MaxFaults
  /\ slots \subseteq Jobs
  /\ Cardinality(slots) <= Slots
  /\ pc \in [Jobs -> Places]
  /\ phase \in [Jobs -> Phases]
  /\ slide \in [Jobs -> Nat]
  /\ stopped \subseteq Jobs
  /\ runner \in [Jobs -> Counts]
  /\ worker \in [Jobs -> [Workers -> WorkerPlaces]]
  /\ feed \in [Jobs -> Seq(Kinds)]
  /\ sending \in {Unlocked} \cup Messages
  /\ blamed \subseteq Jobs

Early == {"none", "queued", "report", "call"}     \* before the downloads
Running == {"dispatch", "drain"}                  \* playlistDownloadRunner.run

(* How far status, phase and the executor's place go together.  Only a     *)
(* DELETE ends a job under its executor, so an executor that is to cancel  *)
(* finds its job canceled.                                                 *)
StageInv(j) ==
  /\ status[j] = "none" <=> pc[j] = "none"
  /\ pc[j] \in {"none", "queued"} => phase[j] = "initializing"
  /\ pc[j] = "queued" => status[j] \in {"pending", "canceled"}
  /\ pc[j] = "report" =>
       status[j] \in IF phase[j] = "initializing" THEN {"pending", "canceled"}
                     ELSE {"running", "canceled"}
  /\ pc[j] \in Running \cup {"call", "fail", "complete"} =>
       status[j] \in {"running", "canceled"}
  /\ pc[j] = "cancel" => status[j] = "canceled"
  /\ j \in ctxDone <=> status[j] = "canceled"

(* The workers are there between the first and the last of the downloads,  *)
(* one at a time reports (progressMu), and the one that broadcasts is the  *)
(* one that holds jobEventMu.                                              *)
WorkersInv(j) ==
  /\ pc[j] \in Early => \A w \in Workers : worker[j][w] = "off"
  /\ pc[j] \in Running => \A w \in Workers : worker[j][w] # "off"
  /\ pc[j] \notin Running => \A w \in Workers : worker[j][w] \in {"off", "gone"}
  /\ \A w \in Workers : worker[j][w] = "announce" <=> sending.job = j /\ sending.by = w
  /\ \A v, w \in Workers :
       worker[j][v] \in {"report", "announce"} /\ worker[j][w] \in {"report", "announce"}
       => v = w

Live == {<<>>, <<"progress", "started">>, <<"progress", "started", "progress">>}
Begun == {<<"progress", "started">>, <<"progress", "started", "progress">>}

(* What the stream has told of a job and what jobEventMu's holder is about *)
(* to add make what its status says.                                       *)
FeedInv(j) ==
  IF sending.job = j
  THEN \/ /\ status[j] = "running"
          /\ \/ sending.kinds = <<"progress", "started">> /\ feed[j] = <<>>
             \/ sending.kinds = <<"progress">> /\ feed[j] \in Begun
       \/ /\ status[j] \in Terminal
          /\ sending.kinds = <<EventOf[status[j]]>> /\ feed[j] \in Live
  ELSE \/ status[j] \in {"none", "pending"} /\ feed[j] = <<>>
       \/ status[j] = "running" /\ feed[j] \in Begun
       \/ /\ status[j] \in Terminal
          /\ feed[j] \in {Append(f, EventOf[status[j]]) : f \in Live}

(* The progress of a job never passes the next update it is going to get:  *)
(* no update is refused for being out of order.                            *)
Share(n, percent, of) == (n * percent) \div of
Reached(j) ==
  IF pc[j] \in Running THEN 40 + Share(runner[j].completed, 55, runner[j].total)
  ELSE PhasePercent(j)
ProgressInv(j) ==
  /\ slide[j] < Lectures[j]
  /\ status[j] \notin Terminal /\ pc[j] \in Early \cup Running => progress[j] <= Reached(j)
  /\ \A w \in Workers : worker[j][w] = "report" => runner[j].done[w] = runner[j].completed

(* Every lecture handed out is with a worker, done, or was lost to an      *)
(* error or a cancellation, and then the local context is done.  The       *)
(* counters go up to the lectures that have a playlist.                    *)
Downloading(j) == {w \in Workers : worker[j][w] = "downloading"}
Busy(j) == {w \in Workers : worker[j][w] \in {"downloading", "advance"}}
CountInv(j) ==
  /\ pc[j] \in Early =>
       /\ runner[j].next = 1 /\ runner[j].completed = 0 /\ runner[j].outputs = 0
       /\ ~runner[j].err
       /\ \A w \in Workers : runner[j].done[w] = 0
  /\ pc[j] \in Running \/ (pc[j] = "report" /\ phase[j] = "downloading") =>
       runner[j].total > 0
  /\ runner[j].total \in 0..Lectures[j]
  /\ runner[j].next \in 1..(runner[j].total + 1)
  /\ runner[j].completed \in 0..runner[j].total
  /\ runner[j].outputs \in 0..Lectures[j]
  /\ \A w \in Workers : runner[j].done[w] \in 0..Lectures[j]
  /\ pc[j] \in Running =>
       /\ runner[j].completed + Cardinality(Busy(j)) < runner[j].next
       /\ runner[j].outputs + Cardinality(Downloading(j)) < runner[j].next
       /\ ~LocalErr(j) =>
            /\ runner[j].completed + Cardinality(Busy(j)) + 1 = runner[j].next
            /\ pc[j] = "drain" => runner[j].next = runner[j].total + 1

Complete(j) ==
  /\ runner[j].completed = runner[j].total
  /\ runner[j].outputs > 0
  /\ ~runner[j].err
  /\ j \notin blamed

(* Whoever stops, fails or gives up a job has a reason.                    *)
CauseInv(j) ==
  /\ pc[j] \in Early => j \notin stopped \cup blamed
  /\ pc[j] \in Running =>
       /\ j \in stopped => j \in blamed \/ storeClosed \/ ~Active(j)
       /\ j \in blamed <=> runner[j].err
       /\ j \in blamed => j \in stopped
  /\ pc[j] = "fail" => j \in blamed \/ storeClosed \/ ~Active(j)
  /\ status[j] = "failed" => j \in blamed
  /\ pc[j] = "complete" => Complete(j)
  /\ pc[j] = "leave" /\ status[j] = "completed" => Complete(j)
  /\ pc[j] \in {"leave", "gone"} /\ Active(j) => faults > 0 \/ storeClosed

JobInv(j) ==
  /\ StageInv(j)
  /\ WorkersInv(j)
  /\ FeedInv(j)
  /\ ProgressInv(j)
  /\ CountInv(j)
  /\ CauseInv(j)

ExecutorIInv == TypeInv /\ \A j \in Jobs : JobInv(j)
-------------------------------------------------------------------------------
(* Shares of a percentage and the kinds of a feed.                         *)

(* Quotients by a lecture count are monotone.                              *)
LEMMA Quotient ==
  ASSUME NEW a \in Nat, NEW b \in Nat, NEW d \in Nat \ {0}, a <= b
  PROVE  /\ a \div d \in Nat
         /\ a \div d <= b \div d
<1> DEFINE p == a \div d
           q == b \div d
<1>1. p \in Int /\ d * p <= a /\ a < d * p + d
  BY SMT
<1>2. q \in Int /\ d * q <= b /\ b < d * q + d
  BY SMT
<1>3. p \in Nat
  <2>1. SUFFICES ASSUME p < 0 PROVE FALSE
    BY <1>1
  <2>2. p <= -1
    BY <1>1, <2>1
  <2> HIDE DEF p
  <2>3. d * p + d <= 0
    <3>1. PICK n \in Nat : p = -1 - n
      <4>1. -1 - p \in Nat /\ p = -1 - (-1 - p)
        BY <1>1, <2>2
      <4> QED BY <4>1
    <3>2. d * p + d = -(d * n)
      BY <3>1, SMT
    <3>3. d * n \in Nat
      BY <3>1, SMT
    <3> QED BY <3>2, <3>3
  <2> QED BY <1>1, <2>3
<1>4. p <= q
  <2>1. SUFFICES ASSUME p > q PROVE FALSE
    BY <1>1, <1>2
  <2> HIDE DEF p, q
  <2>2. PICK n \in Nat : p = q + 1 + n
    <3>1. p - q - 1 \in Nat /\ p = q + 1 + (p - q - 1)
      BY <1>1, <1>2, <2>1
    <3> QED BY <3>1
  <2>3. d * p = d * q + d + d * n /\ d * n \in Nat
    BY <2>2, <1>2, SMT
  <2> QED BY <1>1, <1>2, <2>3
<1> QED BY <1>3, <1>4

(* n of d lectures are at most `percent` of the progress, and more         *)
(* lectures are never less.                                                *)
LEMMA Shares ==
  ASSUME NEW d \in Nat \ {0}, NEW percent \in {10, 55},
         NEW m \in 0..d, NEW n \in 0..d, m <= n
  PROVE  /\ Share(m, percent, d) \in 0..percent
         /\ Share(m, percent, d) <= Share(n, percent, d)
<1>1. d \in Nat \ {0}
  OBVIOUS
<1>2. /\ m * percent \in Nat /\ n * percent \in Nat /\ d * percent \in Nat
      /\ m * percent <= n * percent
      /\ m * percent <= d * percent
  BY <1>1
<1>3. (d * percent) \div d = percent
  <2>1. CASE percent = 10
    BY <1>1, <2>1, SMT
  <2>2. CASE percent = 55
    BY <1>1, <2>2, SMT
  <2> QED BY <2>1, <2>2
<1>4. (m * percent) \div d <= (d * percent) \div d /\ (m * percent) \div d \in Nat
  BY <1>1, <1>2, Quotient
<1>5. (m * percent) \div d <= (n * percent) \div d
  BY <1>1, <1>2, Quotient
<1> QED BY <1>3, <1>4, <1>5 DEF Share

(* A sequence with the elements of another and one more is what Append     *)
(* makes of it.                                                            *)
LEMMA Appended ==
  ASSUME NEW S, NEW s \in Seq(S), NEW e \in S, NEW t \in Seq(S),
         Len(t) = Len(s) + 1,
         \A n \in 1..Len(s) : t[n] = s[n],
         \A n \in Nat : n = Len(s) + 1 => t[n] = e
  PROVE  Append(s, e) = t
<1> DEFINE u == Append(s, e)
<1>1. /\ u \in Seq(S) /\ Len(u) = Len(s) + 1
      /\ \A n \in 1..Len(s) : u[n] = s[n]
      /\ \A n \in Nat : n = Len(s) + 1 => u[n] = e
  BY AppendProperties
<1> HIDE DEF u
<1>2. \A n \in 1..Len(u) : u[n] = t[n]
  BY <1>1
<1>3. u = t
  BY <1>1, <1>2, SeqEqual
<1> QED BY <1>3 DEF u

(* The same for the first events of a feed.                                *)
LEMMA FirstEvents ==
  /\ Append(<<"progress">>, "started") = <<"progress", "started">>
  /\ Append(<<"progress", "started">>, "progress") = <<"progress", "started", "progress">>
<1> DEFINE S == {"progress", "started"}
           a == <<"progress">>
           b == <<"progress", "started">>
           c == <<"progress", "started", "progress">>
<1>1. a \in Seq(S) /\ Len(a) = 1 /\ a[1] = "progress"
  OBVIOUS
<1>2. b \in Seq(S) /\ Len(b) = 2 /\ b[1] = "progress" /\ b[2] = "started"
  OBVIOUS
<1>3. c \in Seq(S) /\ Len(c) = 3 /\ c[1] = "progress" /\ c[2] = "started" /\ c[3] = "progress"
  OBVIOUS
<1>4. "progress" \in S /\ "started" \in S
  OBVIOUS
<1> HIDE DEF S, a, b, c
<1>5. Append(a, "started") = b
  <2>1. /\ Len(b) = Len(a) + 1
        /\ \A n \in 1..Len(a) : b[n] = a[n]
        /\ \A n \in Nat : n = Len(a) + 1 => b[n] = "started"
    BY <1>1, <1>2
  <2> QED BY <1>1, <1>2, <1>4, <2>1, Appended
<1>6. Append(b, "progress") = c
  <2>1. /\ Len(c) = Len(b) + 1
        /\ \A n \in 1..Len(b) : c[n] = b[n]
        /\ \A n \in Nat : n = Len(b) + 1 => c[n] = "progress"
    BY <1>2, <1>3
  <2> QED BY <1>2, <1>3, <1>4, <2>1, Appended
<1> QED BY <1>5, <1>6 DEF a, b, c

(* Append1 keeps one progress event of a row and appends everything else.  *)
LEMMA Appending ==
  /\ Append1(<<>>, "progress") = <<"progress">>
  /\ Append1(<<"progress">>, "started") = <<"progress", "started">>
  /\ \A f \in Begun : Append1(f, "progress") \in Begun
  /\ \A f \in Live : \A k \in Kinds \ {"progress"} : Append1(f, k) = Append(f, k)
<1>1. Append1(<<>>, "progress") = <<"progress">>
  <2>1. Append1(<<>>, "progress") = Append(<<>>, "progress")
    BY DEF Append1
  <2>2. Append(<<>>, "progress") = <<"progress">>
    OBVIOUS
  <2> QED BY <2>1, <2>2
<1>2. Append1(<<"progress">>, "started") = <<"progress", "started">>
  BY FirstEvents DEF Append1
<1>3. Append1(<<"progress", "started">>, "progress") = <<"progress", "started", "progress">>
  BY FirstEvents DEF Append1
<1>4. Append1(<<"progress", "started", "progress">>, "progress")
        = <<"progress", "started", "progress">>
  BY DEF Append1
<1>5. \A f \in Live : \A k \in Kinds \ {"progress"} : Append1(f, k) = Append(f, k)
  BY DEF Append1
<1> QED BY <1>1, <1>2, <1>3, <1>4, <1>5 DEF Begun
-------------------------------------------------------------------------------
(* What each conjunct depends on.                                          *)

(* The stage of a job is about its status, its context and its executor.   *)
LEMMA StageKept ==
  ASSUME NEW j, StageInv(j),
         status'[j] = status[j], pc'[j] = pc[j], phase'[j] = phase[j],
         j \in ctxDone' <=> j \in ctxDone
  PROVE  StageInv(j)'
  BY DEF StageInv, Running

SameSender(j) == /\ (sending'.job = j) <=> (sending.job = j)
                 /\ sending.job = j => sending' = sending

(* The workers of a job are about its executor and jobEventMu.             *)
LEMMA WorkersKept ==
  ASSUME NEW j, WorkersInv(j),
         pc'[j] = pc[j], worker'[j] = worker[j], SameSender(j)
  PROVE  WorkersInv(j)'
  BY DEF WorkersInv, SameSender, Early, Running

(* The feed of a job is about its status and jobEventMu.                   *)
LEMMA FeedKept ==
  ASSUME NEW j, FeedInv(j),
         status'[j] = status[j], feed'[j] = feed[j], SameSender(j)
  PROVE  FeedInv(j)'
<1>1. CASE sending.job = j
  <2>1. sending' = sending /\ sending'.job = j
    BY <1>1 DEF SameSender
  <2>2. \/ /\ status[j] = "running"
           /\ \/ sending.kinds = <<"progress", "started">> /\ feed[j] = <<>>
              \/ sending.kinds = <<"progress">> /\ feed[j] \in Begun
        \/ /\ status[j] \in Terminal
           /\ sending.kinds = <<EventOf[status[j]]>> /\ feed[j] \in Live
    BY <1>1 DEF FeedInv
  <2>3. \/ /\ status'[j] = "running"
           /\ \/ sending'.kinds = <<"progress", "started">> /\ feed'[j] = <<>>
              \/ sending'.kinds = <<"progress">> /\ feed'[j] \in Begun
        \/ /\ status'[j] \in Terminal
           /\ sending'.kinds = <<EventOf[status'[j]]>> /\ feed'[j] \in Live
    BY <2>1, <2>2, Zenon
  <2> QED BY <2>1, <2>3, Zenon DEF FeedInv
<1>2. CASE sending.job # j
  <2>1. sending'.job # j
    BY <1>2 DEF SameSender
  <2>2. \/ status[j] \in {"none", "pending"} /\ feed[j] = <<>>
        \/ status[j] = "running" /\ feed[j] \in Begun
        \/ /\ status[j] \in Terminal
           /\ feed[j] \in {Append(f, EventOf[status[j]]) : f \in Live}
    BY <1>2 DEF FeedInv
  <2>3. \/ status'[j] \in {"none", "pending"} /\ feed'[j] = <<>>
        \/ status'[j] = "running" /\ feed'[j] \in Begun
        \/ /\ status'[j] \in Terminal
           /\ feed'[j] \in {Append(f, EventOf[status'[j]]) : f \in Live}
    BY <2>2, Zenon
  <2> QED BY <2>1, <2>3, Zenon DEF FeedInv
<1> QED BY <1>1, <1>2

(* Progress is about the executor, its counters and the reporting worker.  *)
LEMMA ProgressKept ==
  ASSUME NEW j, ProgressInv(j),
         status'[j] = status[j], progress'[j] = progress[j],
         pc'[j] = pc[j], phase'[j] = phase[j], slide'[j] = slide[j],
         runner'[j].total = runner[j].total,
         runner'[j].completed = runner[j].completed,
         runner'[j].done = runner[j].done,
         \A w \in Workers : worker'[j][w] = "report" => worker[j][w] = "report"
  PROVE  ProgressInv(j)'
<1>1. Reached(j)' = Reached(j)
  BY DEF Reached, Share, PhasePercent
<1> QED BY <1>1 DEF ProgressInv, Active

(* The counts are about the executor, its workers and whether its local    *)
(* context is done.                                                        *)
LEMMA CountKept ==
  ASSUME NEW j, CountInv(j),
         pc'[j] = pc[j], phase'[j] = phase[j],
         runner'[j] = runner[j], worker'[j] = worker[j],
         LocalErr(j) => LocalErr(j)'
  PROVE  CountInv(j)'
<1>1. Busy(j)' = Busy(j) /\ Downloading(j)' = Downloading(j)
  BY DEF Busy, Downloading
<1> QED BY <1>1 DEF CountInv

(* The causes are about the executor, its run and the store.               *)
LEMMA CauseKept ==
  ASSUME NEW j, CauseInv(j),
         status'[j] = status[j], pc'[j] = pc[j], runner'[j] = runner[j],
         j \in stopped' <=> j \in stopped,
         j \in blamed' <=> j \in blamed,
         storeClosed => storeClosed', faults > 0 => faults' > 0
  PROVE  CauseInv(j)'
  BY DEF CauseInv, Active, Complete

(* A job whose own part of the state an action leaves alone.               *)
Kept(j) ==
  /\ status'[j] = status[j] /\ progress'[j] = progress[j]
  /\ j \in ctxDone' <=> j \in ctxDone
  /\ pc'[j] = pc[j] /\ phase'[j] = phase[j] /\ slide'[j] = slide[j]
  /\ j \in stopped' <=> j \in stopped
  /\ j \in blamed' <=> j \in blamed
  /\ runner'[j] = runner[j] /\ worker'[j] = worker[j]
  /\ feed'[j] = feed[j]
  /\ SameSender(j)
  /\ storeClosed => storeClosed'
  /\ faults > 0 => faults' > 0

(* Its part of the invariant stays true.                                   *)
LEMMA JobKept ==
  ASSUME NEW j, JobInv(j), Kept(j)
  PROVE  JobInv(j)'
<1>1. StageInv(j)'
  BY StageKept DEF JobInv, Kept
<1>2. WorkersInv(j)'
  BY WorkersKept DEF JobInv, Kept
<1>3. FeedInv(j)'
  BY FeedKept DEF JobInv, Kept
<1>4. ProgressInv(j)'
  BY ProgressKept DEF JobInv, Kept
<1>5. CountInv(j)'
  BY CountKept DEF JobInv, Kept, LocalErr
<1>6. CauseInv(j)'
  BY CauseKept DEF JobInv, Kept
<1> QED BY <1>1, <1>2, <1>3, <1>4, <1>5, <1>6 DEF JobInv
-------------------------------------------------------------------------------
(* The initial state and, one lemma per action, the steps.                 *)

USE DEF Terminal, Phases, Places, WorkerPlaces, Kinds, Early, Running, Live, Begun,
        store, executor, downloads, events

(* No job, no goroutine, no event.                                         *)
LEMMA InitExecutorIInv == Init => ExecutorIInv
<1> SUFFICES ASSUME Init PROVE ExecutorIInv
  OBVIOUS
<1>1. NoRun \in Counts
  BY DEF NoRun, Counts
<1>2. Cardinality(slots) = 0
  BY FS_EmptySet DEF Init
<1>3. TypeInv
  <2>1. feed \in [Jobs -> Seq(Kinds)] /\ runner \in [Jobs -> Counts]
    BY <1>1 DEF Init
  <2>2. worker \in [Jobs -> [Workers -> WorkerPlaces]]
    BY DEF Init
  <2>3. Cardinality(slots) <= Slots /\ faults \in 0..MaxFaults
    BY <1>2, ExecutorAssumption DEF Init
  <2>4. /\ status \in [Jobs -> {"none", "pending", "running"} \cup Terminal]
        /\ progress \in [Jobs -> 0..100] /\ slide \in [Jobs -> Nat]
        /\ pc \in [Jobs -> Places] /\ phase \in [Jobs -> Phases]
    BY DEF Init
  <2> QED BY <2>1, <2>2, <2>3, <2>4 DEF Init, TypeInv
<1>4. ASSUME NEW j \in Jobs PROVE JobInv(j)
  <2>1. sending.job # j /\ \A w \in Workers : worker[j][w] = "off"
    BY ExecutorAssumption DEF Init, Unlocked
  <2>2. StageInv(j)
    BY DEF Init, StageInv
  <2>3. WorkersInv(j)
    BY <2>1 DEF Init, WorkersInv
  <2>4. FeedInv(j)
    BY <2>1 DEF Init, FeedInv
  <2>5. ProgressInv(j)
    BY <2>1, ExecutorAssumption DEF Init, ProgressInv, Reached, PhasePercent
  <2>6. CountInv(j)
    BY ExecutorAssumption DEF Init, CountInv, NoRun
  <2>7. CauseInv(j)
    BY DEF Init, CauseInv, Active
  <2> QED BY <2>2, <2>3, <2>4, <2>5, <2>6, <2>7 DEF JobInv
<1> QED BY <1>3, <1>4 DEF ExecutorIInv

(* An action preserves the invariant when it preserves the types and its   *)
(* own job's part and leaves the other jobs alone.                         *)
LEMMA OneJob ==
  ASSUME ExecutorIInv, NEW j \in Jobs, TypeInv', JobInv(j)',
         \A k \in Jobs \ {j} : Kept(k)
  PROVE  ExecutorIInv'
  BY JobKept DEF ExecutorIInv

(* jobEventMu free: nobody is about to broadcast.                          *)
LEMMA NoSender ==
  /\ \A j \in Jobs : Unlocked.job # j
  /\ Unlocked \notin Messages
  BY ExecutorAssumption DEF Unlocked, Messages

(* The invariant, as a step about one job uses it.                         *)
LEMMA Facts ==
  ASSUME ExecutorIInv, NEW j \in Jobs
  PROVE  /\ TypeInv
         /\ JobInv(j)
         /\ status[j] \in {"none", "pending", "running"} \cup Terminal
         /\ progress[j] \in 0..100 /\ progress[j] \in Nat
         /\ pc[j] \in Places /\ phase[j] \in Phases
         /\ slide[j] \in Nat
         /\ runner[j] \in Counts
         /\ worker[j] \in [Workers -> WorkerPlaces]
         /\ Lectures[j] \in Nat \ {0}
<1>1. TypeInv /\ JobInv(j)
  BY DEF ExecutorIInv
<1>2. progress[j] \in 0..100
  BY <1>1 DEF TypeInv
<1>3. progress[j] \in Nat
  BY <1>2
<1>4. Lectures[j] \in Nat \ {0}
  BY ExecutorAssumption
<1>5. /\ status[j] \in {"none", "pending", "running"} \cup Terminal
      /\ pc[j] \in Places /\ phase[j] \in Phases
      /\ slide[j] \in Nat
      /\ runner[j] \in Counts
      /\ worker[j] \in [Workers -> WorkerPlaces]
  BY <1>1 DEF TypeInv
<1> QED BY <1>1, <1>2, <1>3, <1>4, <1>5

(* A goroutine takes one of the free places of jobSem.                     *)
LEMMA AcquireSlotStep ==
  ASSUME ExecutorIInv, NEW j \in Jobs, AcquireSlot(j)
  PROVE  ExecutorIInv'
<1> USE DEF AcquireSlot
<1>1. /\ pc' = [pc EXCEPT ![j] = "report"] /\ pc[j] = "queued"
      /\ UNCHANGED <<store, phase, slide, stopped, downloads, events, blamed>>
  OBVIOUS
<1>2. TypeInv'
  <2>1. Cardinality(slots \cup {j}) <= Slots
    <3>1. IsFiniteSet(slots)
      BY FS_Subset, ExecutorAssumption DEF ExecutorIInv, TypeInv
    <3>2. Cardinality(slots) \in Nat /\ Cardinality(slots) < Slots
      BY <3>1, FS_CardinalityType
    <3>3. \/ Cardinality(slots \cup {j}) = Cardinality(slots)
          \/ Cardinality(slots \cup {j}) = Cardinality(slots) + 1
      BY <3>1, FS_AddElement
    <3> QED BY <3>2, <3>3, ExecutorAssumption
  <2> QED BY <1>1, <2>1 DEF ExecutorIInv, TypeInv
<1>3. \A k \in Jobs \ {j} : Kept(k)
  BY <1>1 DEF ExecutorIInv, TypeInv, Kept, SameSender
<1>4. JobInv(j)'
  <2>1. JobInv(j) /\ pc'[j] = "report"
    BY <1>1 DEF ExecutorIInv, TypeInv
  <2>2. StageInv(j)'
    BY <1>1, <2>1 DEF JobInv, StageInv
  <2>3. WorkersInv(j)'
    BY <1>1, <2>1 DEF JobInv, WorkersInv
  <2>4. FeedInv(j)'
    BY <1>1, <2>1, FeedKept DEF JobInv, SameSender
  <2>5. ProgressInv(j)'
    BY <1>1, <2>1 DEF JobInv, ProgressInv, Reached, PhasePercent, Active, Share
  <2>6. CountInv(j)'
    BY <1>1, <2>1 DEF JobInv, StageInv, CountInv
  <2>7. CauseInv(j)'
    BY <1>1, <2>1 DEF JobInv, CauseInv, Active
  <2> QED BY <2>2, <2>3, <2>4, <2>5, <2>6, <2>7 DEF JobInv
<1> QED BY <1>2, <1>3, <1>4, OneJob
(* A move of an executor that neither the store, the stream nor the        *)
(* downloads see.                                                          *)
LEMMA Moving ==
  ASSUME ExecutorIInv, NEW j \in Jobs,
         UNCHANGED <<store, slots, downloads, events>>,
         pc' \in [Jobs -> Places], phase' \in [Jobs -> Phases], slide' \in [Jobs -> Nat],
         stopped' \subseteq Jobs, blamed' \subseteq Jobs,
         \A k \in Jobs \ {j} :
           /\ pc'[k] = pc[k] /\ phase'[k] = phase[k] /\ slide'[k] = slide[k]
           /\ k \in stopped' <=> k \in stopped
           /\ k \in blamed' <=> k \in blamed,
         StageInv(j)', WorkersInv(j)', ProgressInv(j)', CountInv(j)', CauseInv(j)'
  PROVE  ExecutorIInv'
<1>1. TypeInv'
  BY DEF ExecutorIInv, TypeInv
<1>2. \A k \in Jobs \ {j} : Kept(k)
  BY DEF Kept, SameSender
<1>3. FeedInv(j)'
  BY FeedKept DEF ExecutorIInv, JobInv, SameSender
<1>4. JobInv(j)'
  BY <1>3 DEF JobInv
<1> QED BY <1>1, <1>2, <1>4, OneJob

(* The slides are worth at most the ten percent between their neighbours'. *)
LEMMA SlidesShare ==
  ASSUME NEW j \in Jobs, NEW n \in Nat, NEW m \in Nat, m <= n, n < Lectures[j]
  PROVE  /\ 15 + ((m + 1) * 10) \div Lectures[j] \in 15..25
         /\ 15 + ((m + 1) * 10) \div Lectures[j] <= 15 + ((n + 1) * 10) \div Lectures[j]
<1>1. Lectures[j] \in Nat
  BY ExecutorAssumption
<1>2. m + 1 \in 0..Lectures[j] /\ n + 1 \in 0..Lectures[j] /\ m + 1 <= n + 1
  BY <1>1
<1>3. /\ Share(m + 1, 10, Lectures[j]) \in 0..10
      /\ Share(m + 1, 10, Lectures[j]) <= Share(n + 1, 10, Lectures[j])
      /\ Share(n + 1, 10, Lectures[j]) \in 0..10
  BY <1>2, Shares, ExecutorAssumption
<1> QED BY <1>3 DEF Share

(* An upstream call returns: the next phase begins with no less progress.  *)
LEMMA CallReturnsStep ==
  ASSUME ExecutorIInv, NEW j \in Jobs, CallReturns(j)
  PROVE  ExecutorIInv'
<1>1. PICK next \in Phases :
        /\ Enter(j, next)
        /\ \/ phase[j] = "initializing" /\ next = "logging_in"
           \/ phase[j] = "logging_in" /\ next = "fetching_lectures"
           \/ phase[j] = "fetching_lectures" /\ next = "downloading_slides"
           \/ phase[j] = "fetching_lectures" /\ next = "fetching_playlists"
  BY DEF CallReturns
<1>2. /\ pc[j] = "call" /\ pc' = [pc EXCEPT ![j] = "report"]
      /\ phase' = [phase EXCEPT ![j] = next]
      /\ UNCHANGED <<store, slots, slide, stopped, downloads, events, blamed>>
  BY <1>1 DEF CallReturns, Calling, Enter
<1>3. /\ JobInv(j) /\ pc'[j] = "report" /\ phase'[j] = next
      /\ slide[j] \in Nat /\ progress[j] \in Nat
  BY <1>2, Facts DEF TypeInv
<1>4. pc' \in [Jobs -> Places] /\ phase' \in [Jobs -> Phases] /\ slide' \in [Jobs -> Nat]
  BY <1>2 DEF ExecutorIInv, TypeInv
<1>5. StageInv(j)'
  BY <1>1, <1>2, <1>3 DEF JobInv, StageInv
<1>6. WorkersInv(j)'
  BY <1>2, <1>3 DEF JobInv, WorkersInv
<1>7. ProgressInv(j)'
  <2>1. 15 + ((slide[j] + 1) * 10) \div Lectures[j] \in 15..25
    BY <1>3, SlidesShare DEF JobInv, ProgressInv
  <2>2. PhasePercent(j) <= PhasePercent(j)' /\ PhasePercent(j) \in Nat /\ PhasePercent(j)' \in Nat
    BY <1>1, <1>2, <1>3, <2>1 DEF PhasePercent
  <2>3. Reached(j) = PhasePercent(j) /\ Reached(j)' = PhasePercent(j)'
    BY <1>2, <1>3 DEF Reached
  <2>4. status'[j] \notin Terminal => progress'[j] <= Reached(j)'
    BY <1>2, <1>3, <2>2, <2>3 DEF JobInv, ProgressInv
  <2> QED BY <1>2, <1>3, <2>4 DEF JobInv, ProgressInv
<1>8. CountInv(j)'
  BY <1>1, <1>2, <1>3 DEF JobInv, CountInv
<1>9. CauseInv(j)'
  BY <1>2, <1>3 DEF JobInv, CauseInv, Active
<1> QED
  <2>1. stopped' \subseteq Jobs /\ blamed' \subseteq Jobs
    BY <1>2 DEF ExecutorIInv, TypeInv
  <2>2. \A k \in Jobs \ {j} :
          /\ pc'[k] = pc[k] /\ phase'[k] = phase[k] /\ slide'[k] = slide[k]
          /\ k \in stopped' <=> k \in stopped
          /\ k \in blamed' <=> k \in blamed
    BY <1>2 DEF ExecutorIInv, TypeInv
  <2> QED BY <1>2, <1>4, <1>5, <1>6, <1>7, <1>8, <1>9, <2>1, <2>2, Moving
(* The playlists are there: those of at least one lecture and of at most   *)
(* all that were selected, which from here on are the total.               *)
LEMMA PlaylistsReturnStep ==
  ASSUME ExecutorIInv, NEW j \in Jobs, PlaylistsReturn(j)
  PROVE  ExecutorIInv'
<1>1. PICK n \in 1..Lectures[j] : runner' = [runner EXCEPT ![j].total = n]
  BY DEF PlaylistsReturn
<1>2. /\ pc[j] = "call" /\ phase[j] = "fetching_playlists"
      /\ pc' = [pc EXCEPT ![j] = "report"]
      /\ phase' = [phase EXCEPT ![j] = "downloading"]
      /\ UNCHANGED <<store, slots, slide, stopped, worker, events, blamed>>
  BY DEF PlaylistsReturn, Calling, Enter
<1>3. /\ JobInv(j) /\ TypeInv /\ runner[j] \in Counts
      /\ pc'[j] = "report" /\ phase'[j] = "downloading"
      /\ Lectures[j] \in Nat \ {0} /\ progress[j] \in Nat
  BY <1>2, Facts DEF TypeInv
<1>4. /\ runner' \in [Jobs -> Counts]
      /\ \A k \in Jobs \ {j} : runner'[k] = runner[k]
      /\ runner'[j].total = n
      /\ runner'[j].next = runner[j].next /\ runner'[j].completed = runner[j].completed
      /\ runner'[j].outputs = runner[j].outputs /\ runner'[j].err = runner[j].err
      /\ runner'[j].done = runner[j].done
  <2> DEFINE r == [runner[j] EXCEPT !.total = n]
  <2>1. /\ r \in Counts /\ r.total = n /\ r.next = runner[j].next
        /\ r.completed = runner[j].completed /\ r.outputs = runner[j].outputs
        /\ r.err = runner[j].err /\ r.done = runner[j].done
    BY <1>3 DEF Counts
  <2>2. runner' = [runner EXCEPT ![j] = r]
    BY <1>1
  <2> HIDE DEF r
  <2> QED BY <1>3, <2>1, <2>2 DEF TypeInv
<1>5. TypeInv'
  BY <1>2, <1>3, <1>4 DEF TypeInv
<1>6. \A k \in Jobs \ {j} : Kept(k)
  BY <1>2, <1>3, <1>4 DEF TypeInv, Kept, SameSender
<1>7. JobInv(j)'
  <2>1. StageInv(j)'
    BY <1>2, <1>3 DEF JobInv, StageInv
  <2>2. WorkersInv(j)'
    BY <1>2, <1>3 DEF JobInv, WorkersInv
  <2>3. FeedInv(j)'
    BY <1>2, <1>3, FeedKept DEF JobInv, SameSender
  <2>4. ProgressInv(j)'
    <3>1. Reached(j) = 30 /\ Reached(j)' = 40
      BY <1>2, <1>3 DEF Reached, PhasePercent
    <3> QED BY <1>2, <1>3, <3>1 DEF JobInv, ProgressInv, WorkersInv
  <2>5. CountInv(j)'
    BY <1>2, <1>3, <1>4 DEF JobInv, CountInv
  <2>6. CauseInv(j)'
    BY <1>2, <1>3 DEF JobInv, CauseInv, Active
  <2> QED BY <2>1, <2>2, <2>3, <2>4, <2>5, <2>6 DEF JobInv
<1> QED BY <1>5, <1>6, <1>7, OneJob

(* A slide is fetched or missing: the next one, or the next phase.         *)
LEMMA SlideReturnsStep ==
  ASSUME ExecutorIInv, NEW j \in Jobs, SlideReturns(j)
  PROVE  ExecutorIInv'
<1>1. /\ pc[j] = "call" /\ phase[j] = "downloading_slides"
      /\ pc' = [pc EXCEPT ![j] = "report"]
      /\ slide' = [slide EXCEPT ![j] = (slide[j] + 1) % Lectures[j]]
      /\ phase' = IF slide[j] + 1 = Lectures[j]
                  THEN [phase EXCEPT ![j] = "fetching_playlists"] ELSE phase
      /\ UNCHANGED <<store, slots, stopped, downloads, events, blamed>>
  BY DEF SlideReturns, Calling
<1>2. /\ JobInv(j) /\ pc'[j] = "report"
      /\ slide[j] \in Nat /\ progress[j] \in Nat /\ Lectures[j] \in Nat \ {0}
  BY <1>1, Facts DEF TypeInv
<1>3. slide[j] < Lectures[j]
  BY <1>2 DEF JobInv, ProgressInv
<1>4. /\ slide'[j] \in Nat
      /\ \/ slide[j] + 1 = Lectures[j] /\ slide'[j] = 0 /\ phase'[j] = "fetching_playlists"
         \/ /\ slide[j] + 1 < Lectures[j] /\ slide'[j] = slide[j] + 1
            /\ phase'[j] = "downloading_slides"
  <2>1. slide'[j] = (slide[j] + 1) % Lectures[j]
    BY <1>1, Facts DEF TypeInv
  <2>2. CASE slide[j] + 1 = Lectures[j]
    <3>1. Lectures[j] % Lectures[j] = 0
      BY <1>2
    <3> QED BY <1>1, <2>1, <2>2, <3>1, Facts DEF TypeInv
  <2>3. CASE slide[j] + 1 < Lectures[j]
    <3>1. (slide[j] + 1) % Lectures[j] = slide[j] + 1
      BY <1>2, <2>3
    <3> QED BY <1>1, <1>2, <2>1, <2>3, <3>1, Facts DEF TypeInv
  <2> QED BY <1>2, <1>3, <2>2, <2>3
<1>5. pc' \in [Jobs -> Places] /\ phase' \in [Jobs -> Phases] /\ slide' \in [Jobs -> Nat]
  BY <1>1, <1>4, Facts DEF TypeInv
<1>6. StageInv(j)'
  BY <1>1, <1>2, <1>4 DEF JobInv, StageInv
<1>7. WorkersInv(j)'
  BY <1>1, <1>2 DEF JobInv, WorkersInv
<1>8. ProgressInv(j)'
  <2>1. 15 + ((slide[j] + 1) * 10) \div Lectures[j] \in 15..25
    BY <1>2, <1>3, SlidesShare
  <2>2. PhasePercent(j) <= PhasePercent(j)' /\ PhasePercent(j) \in Nat /\ PhasePercent(j)' \in Nat
    <3>1. CASE slide[j] + 1 = Lectures[j]
      BY <1>1, <1>4, <2>1, <3>1 DEF PhasePercent
    <3>2. CASE slide[j] + 1 < Lectures[j]
      <4>1. /\ 15 + ((slide'[j] + 1) * 10) \div Lectures[j] \in 15..25
            /\ 15 + ((slide[j] + 1) * 10) \div Lectures[j]
                 <= 15 + ((slide'[j] + 1) * 10) \div Lectures[j]
        BY <1>2, <1>4, <3>2, SlidesShare
      <4> QED BY <1>1, <1>4, <2>1, <3>2, <4>1 DEF PhasePercent
    <3> QED BY <1>2, <1>3, <3>1, <3>2
  <2>3. Reached(j) = PhasePercent(j) /\ Reached(j)' = PhasePercent(j)'
    BY <1>1, <1>2 DEF Reached
  <2>4. status'[j] \notin Terminal => progress'[j] <= Reached(j)'
    BY <1>1, <1>2, <2>2, <2>3 DEF JobInv, ProgressInv
  <2> QED BY <1>1, <1>2, <1>4, <2>4 DEF JobInv, ProgressInv
<1>9. CountInv(j)'
  BY <1>1, <1>2 DEF JobInv, CountInv
<1>10. CauseInv(j)'
  BY <1>1, <1>2 DEF JobInv, CauseInv, Active
<1> QED
  <2>1. stopped' \subseteq Jobs /\ blamed' \subseteq Jobs
    BY <1>1, Facts DEF TypeInv
  <2>2. \A k \in Jobs \ {j} :
          /\ pc'[k] = pc[k] /\ phase'[k] = phase[k] /\ slide'[k] = slide[k]
          /\ k \in stopped' <=> k \in stopped
          /\ k \in blamed' <=> k \in blamed
    BY <1>1, Facts DEF TypeInv
  <2> QED BY <1>1, <1>5, <1>6, <1>7, <1>8, <1>9, <1>10, <2>1, <2>2, Moving

(* CallFails, CallRejects and CallPanics: the job is to blame.             *)
LEMMA CallEndsStep ==
  ASSUME ExecutorIInv, NEW j \in Jobs, CallFails(j) \/ CallRejects(j) \/ CallPanics(j)
  PROVE  ExecutorIInv'
<1>1. PICK place \in {"cancel", "fail"} :
        /\ pc[j] = "call" /\ pc' = [pc EXCEPT ![j] = place]
        /\ place = "cancel" => CtxErr(j)
        /\ blamed' = blamed \cup {j}
        /\ stopped' = stopped \/ stopped' = stopped \cup {j}
        /\ UNCHANGED <<store, slots, phase, slide, downloads, events>>
  BY DEF CallFails, CallRejects, CallPanics, Calling, Goto
<1>2. JobInv(j) /\ pc'[j] = place
  BY <1>1, Facts DEF TypeInv
<1>3. /\ pc' \in [Jobs -> Places] /\ phase' \in [Jobs -> Phases] /\ slide' \in [Jobs -> Nat]
      /\ stopped' \subseteq Jobs /\ blamed' \subseteq Jobs
  BY <1>1, Facts DEF TypeInv
<1>4. StageInv(j)'
  BY <1>1, <1>2 DEF JobInv, StageInv, CtxErr
<1>5. WorkersInv(j)'
  BY <1>1, <1>2 DEF JobInv, WorkersInv
<1>6. ProgressInv(j)'
  BY <1>1, <1>2 DEF JobInv, ProgressInv
<1>7. CountInv(j)'
  BY <1>1, <1>2 DEF JobInv, CountInv
<1>8. CauseInv(j)'
  BY <1>1, <1>2 DEF JobInv, CauseInv, StageInv, Active
<1> QED
  <2>1. \A k \in Jobs \ {j} :
          /\ pc'[k] = pc[k] /\ phase'[k] = phase[k] /\ slide'[k] = slide[k]
          /\ k \in stopped' <=> k \in stopped
          /\ k \in blamed' <=> k \in blamed
    BY <1>1, Facts DEF TypeInv
  <2> QED BY <1>1, <1>3, <1>4, <1>5, <1>6, <1>7, <1>8, <2>1, Moving

(* The dispatcher stops: everything is handed out, or the context is done. *)
LEMMA CloseTasksStep ==
  ASSUME ExecutorIInv, NEW j \in Jobs, CloseTasks(j)
  PROVE  ExecutorIInv'
<1>1. /\ pc[j] = "dispatch" /\ pc' = [pc EXCEPT ![j] = "drain"]
      /\ runner[j].next > runner[j].total \/ LocalErr(j)
      /\ UNCHANGED <<store, slots, phase, slide, stopped, downloads, events, blamed>>
  BY DEF CloseTasks, Goto
<1>2. /\ JobInv(j) /\ pc'[j] = "drain" /\ runner[j] \in Counts
  BY <1>1, Facts DEF TypeInv
<1>3. /\ pc' \in [Jobs -> Places] /\ phase' \in [Jobs -> Phases] /\ slide' \in [Jobs -> Nat]
      /\ stopped' \subseteq Jobs /\ blamed' \subseteq Jobs
  BY <1>1, Facts DEF TypeInv
<1>4. StageInv(j)'
  BY <1>1, <1>2 DEF JobInv, StageInv
<1>5. WorkersInv(j)'
  BY <1>1, <1>2 DEF JobInv, WorkersInv
<1>6. ProgressInv(j)'
  BY <1>1, <1>2 DEF JobInv, ProgressInv, Reached, Share, Active
<1>7. CountInv(j)'
  <2>1. Busy(j)' = Busy(j) /\ Downloading(j)' = Downloading(j) /\ LocalErr(j)' = LocalErr(j)
    BY <1>1 DEF Busy, Downloading, LocalErr
  <2>2. ~LocalErr(j) => runner[j].next = runner[j].total + 1
    BY <1>1, <1>2 DEF JobInv, CountInv, Counts
  <2> QED BY <1>1, <1>2, <2>1, <2>2 DEF JobInv, CountInv
<1>8. CauseInv(j)'
  BY <1>1, <1>2 DEF JobInv, CauseInv, Active
<1> QED
  <2>1. \A k \in Jobs \ {j} :
          /\ pc'[k] = pc[k] /\ phase'[k] = phase[k] /\ slide'[k] = slide[k]
          /\ k \in stopped' <=> k \in stopped
          /\ k \in blamed' <=> k \in blamed
    BY <1>1, Facts DEF TypeInv
  <2> QED BY <1>1, <1>3, <1>4, <1>5, <1>6, <1>7, <1>8, <2>1, Moving

(* All workers are gone: without an error and a cancellation none of the   *)
(* lectures is missing, and without an output the job is to blame.         *)
LEMMA RunReturnsStep ==
  ASSUME ExecutorIInv, NEW j \in Jobs, RunReturns(j)
  PROVE  ExecutorIInv'
<1> DEFINE ok == ~runner[j].err /\ ~LocalErr(j) /\ runner[j].outputs > 0
           empty == ~runner[j].err /\ ~LocalErr(j) /\ runner[j].outputs = 0
<1>1. PICK place \in {"cancel", "fail", "complete"} :
        /\ pc[j] = "drain" /\ pc' = [pc EXCEPT ![j] = place]
        /\ \A w \in Workers : worker[j][w] = "gone"
        /\ place = "cancel" <=> CtxErr(j)
        /\ place = "complete" <=> ok /\ ~CtxErr(j)
        /\ blamed' = IF empty THEN blamed \cup {j} ELSE blamed
        /\ UNCHANGED <<store, slots, phase, slide, stopped, downloads, events>>
  BY DEF RunReturns, Goto
<1>2. JobInv(j) /\ pc'[j] = place /\ runner[j] \in Counts
  BY <1>1, Facts DEF TypeInv
<1>3. /\ pc' \in [Jobs -> Places] /\ phase' \in [Jobs -> Phases] /\ slide' \in [Jobs -> Nat]
      /\ stopped' \subseteq Jobs /\ blamed' \subseteq Jobs
  BY <1>1, Facts DEF TypeInv
<1>4. StageInv(j)'
  BY <1>1, <1>2 DEF JobInv, StageInv, CtxErr
<1>5. WorkersInv(j)'
  BY <1>1, <1>2 DEF JobInv, WorkersInv
<1>6. ProgressInv(j)'
  BY <1>1, <1>2 DEF JobInv, ProgressInv
<1>7. CountInv(j)'
  BY <1>1, <1>2 DEF JobInv, CountInv
<1>8. ok => runner[j].completed = runner[j].total
  <2>1. Cardinality(Busy(j)) = 0
    <3>1. Busy(j) = {}
      BY <1>1 DEF Busy
    <3> QED BY <3>1, FS_EmptySet
  <2> QED BY <1>1, <1>2, <2>1 DEF JobInv, CountInv, Counts
<1>9. CauseInv(j)'
  <2>1. place = "complete" => Complete(j)'
    BY <1>1, <1>2, <1>8 DEF JobInv, CauseInv, Complete
  <2>2. place = "fail" => j \in blamed' \/ storeClosed' \/ ~Active(j)'
    <3>1. CASE empty
      BY <1>1, <3>1
    <3>2. CASE ~empty /\ place = "fail"
      <4>1. runner[j].err \/ j \in stopped
        BY <1>1, <1>2, <3>2 DEF CtxErr, LocalErr, Counts
      <4> QED BY <1>1, <1>2, <3>2, <4>1 DEF JobInv, CauseInv, Active
    <3> QED BY <3>1, <3>2
  <2>3. status'[j] = "failed" => j \in blamed'
    BY <1>1, <1>2 DEF JobInv, CauseInv
  <2> QED BY <1>1, <1>2, <2>1, <2>2, <2>3 DEF CauseInv
<1> QED
  <2>1. \A k \in Jobs \ {j} :
          /\ pc'[k] = pc[k] /\ phase'[k] = phase[k] /\ slide'[k] = slide[k]
          /\ k \in stopped' <=> k \in stopped
          /\ k \in blamed' <=> k \in blamed
    BY <1>1, Facts DEF TypeInv
  <2> QED BY <1>1, <1>3, <1>4, <1>5, <1>6, <1>7, <1>9, <2>1, Moving
-------------------------------------------------------------------------------
(* The steps that end or report a job: the store and the stream.           *)

(* Nothing of any job changes.                                             *)
LEMMA AllKept ==
  ASSUME ExecutorIInv, TypeInv', \A k \in Jobs : Kept(k)
  PROVE  ExecutorIInv'
  BY JobKept DEF ExecutorIInv

(* The store is closed under the running jobs.                             *)
LEMMA CloseStoreStep ==
  ASSUME ExecutorIInv, CloseStore
  PROVE  ExecutorIInv'
<1>1. TypeInv'
  BY DEF CloseStore, ExecutorIInv, TypeInv
<1>2. \A k \in Jobs : Kept(k)
  BY DEF CloseStore, Kept, SameSender
<1> QED BY <1>1, <1>2, AllKept

(* A new job and its goroutine.                                            *)
LEMMA CreateJobStep ==
  ASSUME ExecutorIInv, NEW j \in Jobs, CreateJob(j)
  PROVE  ExecutorIInv'
<1>1. /\ status[j] = "none" /\ status' = [status EXCEPT ![j] = "pending"]
      /\ pc' = [pc EXCEPT ![j] = "queued"]
      /\ UNCHANGED <<progress, ctxDone, storeClosed, faults, slots, phase, slide,
                     stopped, downloads, events, blamed>>
  BY DEF CreateJob
<1>2. /\ JobInv(j) /\ pc'[j] = "queued" /\ status'[j] = "pending" /\ pc[j] = "none"
      /\ phase[j] = "initializing" /\ progress[j] \in Nat
  BY <1>1, Facts DEF TypeInv, JobInv, StageInv
<1>3. TypeInv'
  BY <1>1, Facts DEF TypeInv
<1>4. \A k \in Jobs \ {j} : Kept(k)
  BY <1>1, Facts DEF TypeInv, Kept, SameSender
<1>5. JobInv(j)'
  <2>1. StageInv(j)'
    BY <1>1, <1>2 DEF JobInv, StageInv
  <2>2. WorkersInv(j)'
    BY <1>1, <1>2 DEF JobInv, WorkersInv
  <2>3. FeedInv(j)'
    BY <1>1, <1>2 DEF JobInv, FeedInv
  <2>4. ProgressInv(j)'
    BY <1>1, <1>2 DEF JobInv, ProgressInv, Reached, PhasePercent, Active
  <2>5. CountInv(j)'
    BY <1>1, <1>2 DEF JobInv, CountInv
  <2>6. CauseInv(j)'
    BY <1>1, <1>2 DEF JobInv, CauseInv
  <2> QED BY <2>1, <2>2, <2>3, <2>4, <2>5, <2>6 DEF JobInv
<1> QED BY <1>3, <1>4, <1>5, OneJob
(* A job that ends in the store, and what its own part then says.          *)
LEMMA Ending ==
  ASSUME ExecutorIInv, NEW j \in Jobs, NEW outcome \in Terminal, Ends(j, outcome)
  PROVE  /\ Active(j) /\ ~storeClosed
         /\ status' = [status EXCEPT ![j] = outcome] /\ status'[j] = outcome
         /\ status' \in [Jobs -> {"none", "pending", "running"} \cup Terminal]
         /\ progress' \in [Jobs -> 0..100]
         /\ \A k \in Jobs \ {j} : status'[k] = status[k] /\ progress'[k] = progress[k]
         /\ ctxDone' \subseteq Jobs
         /\ j \in ctxDone' <=> outcome = "canceled"
         /\ \A k \in Jobs \ {j} : k \in ctxDone' <=> k \in ctxDone
         /\ UNCHANGED <<storeClosed, faults>>
<1>1. j \notin ctxDone
  BY Facts DEF Ends, Active, JobInv, StageInv
<1>2. progress' \in [Jobs -> 0..100] /\ \A k \in Jobs \ {j} : progress'[k] = progress[k]
  <2>1. Percent(outcome, progress[j]) \in 0..100
    BY Facts DEF Percent
  <2>2. progress' = [progress EXCEPT ![j] = Percent(outcome, progress[j])]
    BY DEF Ends
  <2> QED BY <2>1, <2>2, Facts DEF TypeInv
<1> QED BY <1>1, <1>2, Facts DEF Ends, TypeInv

(* What jobEventMu's holder is about to send of job j says nothing of the  *)
(* other jobs.                                                             *)
LEMMA Announcing ==
  ASSUME ExecutorIInv, NEW j \in Jobs, NEW by \in Workers \cup {"executor", "request"},
         NEW kinds \in {<<"progress", "started">>} \cup {<<k>> : k \in Kinds},
         sending = Unlocked, Announce(j, by, kinds)
  PROVE  /\ sending' \in Messages /\ sending'.job = j /\ sending'.by = by
         /\ sending'.kinds = kinds
         /\ \A k \in Jobs : sending.job # k
         /\ \A k \in Jobs \ {j} : SameSender(k)
         /\ UNCHANGED feed
  BY NoSender DEF Announce, Messages, SameSender

(* A DELETE request cancels an active job and announces it.                *)
LEMMA DeleteJobStep ==
  ASSUME ExecutorIInv, NEW j \in Jobs, DeleteJob(j)
  PROVE  ExecutorIInv'
<1>1. /\ sending = Unlocked /\ Ends(j, "canceled")
      /\ Announce(j, "request", <<"cancelled">>)
      /\ UNCHANGED <<executor, stopped, downloads, blamed>>
  BY DEF DeleteJob
<1>2. /\ Active(j) /\ status'[j] = "canceled" /\ j \in ctxDone'
      /\ status' \in [Jobs -> {"none", "pending", "running"} \cup Terminal]
      /\ progress' \in [Jobs -> 0..100]
      /\ \A k \in Jobs \ {j} : status'[k] = status[k] /\ progress'[k] = progress[k]
      /\ ctxDone' \subseteq Jobs
      /\ \A k \in Jobs \ {j} : k \in ctxDone' <=> k \in ctxDone
      /\ UNCHANGED <<storeClosed, faults>>
  BY <1>1, Ending
<1>3. /\ sending' \in Messages /\ sending'.job = j /\ sending'.by = "request"
      /\ sending'.kinds = <<"cancelled">>
      /\ \A k \in Jobs : sending.job # k
      /\ \A k \in Jobs \ {j} : SameSender(k)
      /\ UNCHANGED feed
  BY <1>1, Announcing
<1>4. TypeInv'
  BY <1>1, <1>2, <1>3, Facts DEF TypeInv
<1>5. \A k \in Jobs \ {j} : Kept(k)
  BY <1>1, <1>2, <1>3 DEF Kept
<1>6. JobInv(j)'
  <2>1. JobInv(j)
    BY Facts
  <2>2. StageInv(j)'
    BY <1>1, <1>2, <2>1 DEF JobInv, StageInv, Active
  <2>3. WorkersInv(j)'
    BY <1>1, <1>3, <2>1, ExecutorAssumption DEF JobInv, WorkersInv
  <2>4. FeedInv(j)'
    <3>1. feed[j] \in Live
      BY <1>2, <1>3, <2>1 DEF JobInv, FeedInv, Active
    <3>2. EventOf["canceled"] = "cancelled"
      BY DEF EventOf
    <3> QED BY <1>2, <1>3, <3>1, <3>2 DEF FeedInv
  <2>5. ProgressInv(j)'
    BY <1>1, <1>2, <2>1 DEF JobInv, ProgressInv
  <2>6. CountInv(j)'
    BY <1>1, <1>2, <2>1, CountKept DEF JobInv, LocalErr
  <2>7. CauseInv(j)'
    BY <1>1, <1>2, <2>1 DEF JobInv, CauseInv, Active, Complete
  <2> QED BY <2>2, <2>3, <2>4, <2>5, <2>6, <2>7 DEF JobInv
<1> QED BY <1>4, <1>5, <1>6, OneJob

(* completeJob and failJob.                                                *)
LEMMA FinishStep ==
  ASSUME ExecutorIInv, NEW j \in Jobs, NEW place, NEW outcome, Finish(j, place, outcome),
         \/ place = "complete" /\ outcome = "completed"
         \/ place = "fail" /\ outcome = "failed"
  PROVE  ExecutorIInv'
<1>1. /\ pc[j] = place /\ sending = Unlocked
      /\ pc' = [pc EXCEPT ![j] = "leave"]
      /\ UNCHANGED <<slots, phase, slide, stopped, downloads, blamed>>
  BY DEF Finish, Goto
<1>2. JobInv(j) /\ pc'[j] = "leave" /\ pc' \in [Jobs -> Places]
  BY <1>1, Facts DEF TypeInv
<1>3. \A k \in Jobs : sending.job # k
  BY <1>1, NoSender
<1>4. CASE Ends(j, outcome) /\ Announce(j, "executor", <<outcome>>)
  <2>1. /\ Active(j) /\ status'[j] = outcome /\ j \notin ctxDone' /\ ~storeClosed
        /\ status' \in [Jobs -> {"none", "pending", "running"} \cup Terminal]
        /\ progress' \in [Jobs -> 0..100]
        /\ \A k \in Jobs \ {j} : status'[k] = status[k] /\ progress'[k] = progress[k]
        /\ ctxDone' \subseteq Jobs
        /\ \A k \in Jobs \ {j} : k \in ctxDone' <=> k \in ctxDone
        /\ UNCHANGED <<storeClosed, faults>>
    BY <1>4, Ending
  <2>2. /\ sending' \in Messages /\ sending'.job = j /\ sending'.by = "executor"
        /\ sending'.kinds = <<outcome>>
        /\ \A k \in Jobs \ {j} : SameSender(k)
        /\ UNCHANGED feed
    BY <1>1, <1>4, Announcing
  <2>3. TypeInv'
    BY <1>1, <1>2, <2>1, <2>2, Facts DEF TypeInv
  <2>4. \A k \in Jobs \ {j} : Kept(k)
    BY <1>1, <2>1, <2>2, Facts DEF Kept, TypeInv
  <2>5. JobInv(j)'
    <3>1. StageInv(j)'
      BY <1>1, <1>2, <2>1 DEF JobInv, StageInv, Active
    <3>2. WorkersInv(j)'
      BY <1>1, <1>2, <2>2, ExecutorAssumption DEF JobInv, WorkersInv
    <3>3. FeedInv(j)'
      <4>1. feed[j] \in Live
        BY <1>2, <1>3, <2>1 DEF JobInv, FeedInv, Active
      <4>2. EventOf[outcome] = outcome
        BY DEF EventOf
      <4> QED BY <2>1, <2>2, <4>1, <4>2 DEF FeedInv
    <3>4. ProgressInv(j)'
      BY <1>1, <1>2, <2>1 DEF JobInv, ProgressInv
    <3>5. CountInv(j)'
      BY <1>1, <1>2 DEF JobInv, CountInv
    <3>6. CauseInv(j)'
      BY <1>1, <1>2, <2>1 DEF JobInv, CauseInv, Active, Complete
    <3> QED BY <3>1, <3>2, <3>3, <3>4, <3>5, <3>6 DEF JobInv
  <2> QED BY <2>3, <2>4, <2>5, OneJob
<1>5. CASE EndRefused(j) /\ UNCHANGED events
  <2>1. /\ UNCHANGED <<status, progress, ctxDone, storeClosed>>
        /\ faults' \in 0..MaxFaults
        /\ faults > 0 => faults' > 0
        /\ storeClosed \/ ~Active(j) \/ faults' > 0
    BY <1>5, Facts, ExecutorAssumption DEF EndRefused, TypeInv
  <2>2. TypeInv'
    BY <1>1, <1>2, <1>5, <2>1, Facts DEF TypeInv
  <2>3. \A k \in Jobs \ {j} : Kept(k)
    BY <1>1, <1>5, <2>1, Facts DEF Kept, TypeInv, SameSender
  <2>4. JobInv(j)'
    <3>1. StageInv(j)'
      BY <1>1, <1>2, <2>1 DEF JobInv, StageInv
    <3>2. WorkersInv(j)'
      BY <1>1, <1>2, <1>5 DEF JobInv, WorkersInv
    <3>3. FeedInv(j)'
      BY <1>2, <1>5, <2>1, FeedKept DEF JobInv, SameSender
    <3>4. ProgressInv(j)'
      BY <1>1, <1>2, <2>1 DEF JobInv, ProgressInv
    <3>5. CountInv(j)'
      BY <1>1, <1>2 DEF JobInv, CountInv
    <3>6. CauseInv(j)'
      BY <1>1, <1>2, <2>1 DEF JobInv, StageInv, CauseInv, Active, Complete
    <3> QED BY <3>1, <3>2, <3>3, <3>4, <3>5, <3>6 DEF JobInv
  <2> QED BY <2>2, <2>3, <2>4, OneJob
<1> QED BY <1>4, <1>5 DEF Finish

(* handleCancelIfNeeded finds its job canceled: CancelJob refuses.         *)
LEMMA CancelIfNeededStep ==
  ASSUME ExecutorIInv, NEW j \in Jobs, CancelIfNeeded(j)
  PROVE  ExecutorIInv'
<1>1. /\ pc[j] = "cancel" /\ pc' = [pc EXCEPT ![j] = "leave"]
      /\ UNCHANGED <<slots, phase, slide, stopped, downloads, events, blamed>>
  BY DEF CancelIfNeeded, Goto
<1>2. /\ JobInv(j) /\ pc'[j] = "leave" /\ pc' \in [Jobs -> Places]
      /\ status[j] = "canceled" /\ ~Active(j)
  BY <1>1, Facts DEF TypeInv, JobInv, StageInv, Active
<1>3. EndRefused(j)
  BY <1>2 DEF CancelIfNeeded, Ends
<1>4. UNCHANGED <<status, progress, ctxDone, storeClosed, faults>>
  BY <1>2, <1>3 DEF EndRefused
<1>5. StageInv(j)'
  BY <1>1, <1>2, <1>4 DEF JobInv, StageInv
<1>6. WorkersInv(j)'
  BY <1>1, <1>2 DEF JobInv, WorkersInv
<1>7. ProgressInv(j)'
  BY <1>1, <1>2, <1>4 DEF JobInv, ProgressInv
<1>8. CountInv(j)'
  BY <1>1, <1>2 DEF JobInv, CountInv
<1>9. CauseInv(j)'
  BY <1>1, <1>2, <1>4 DEF JobInv, CauseInv, Active
<1> QED
  <2>1. /\ phase' \in [Jobs -> Phases] /\ slide' \in [Jobs -> Nat]
        /\ stopped' \subseteq Jobs /\ blamed' \subseteq Jobs
    BY <1>1, Facts DEF TypeInv
  <2>2. \A k \in Jobs \ {j} :
          /\ pc'[k] = pc[k] /\ phase'[k] = phase[k] /\ slide'[k] = slide[k]
          /\ k \in stopped' <=> k \in stopped
          /\ k \in blamed' <=> k \in blamed
    BY <1>1, Facts DEF TypeInv
  <2> QED BY <1>1, <1>2, <1>4, <1>5, <1>6, <1>7, <1>8, <1>9, <2>1, <2>2, Moving
(* The deferred calls of an executor, after its last broadcast.            *)
LEMMA LeaveStep ==
  ASSUME ExecutorIInv, NEW j \in Jobs, Leave(j)
  PROVE  ExecutorIInv'
<1>1. /\ pc[j] = "leave" /\ pc' = [pc EXCEPT ![j] = "gone"]
      /\ slots' = slots \ {j}
      /\ stopped' = stopped \cup {j}
      /\ phase' = [phase EXCEPT ![j] = "initializing"]
      /\ slide' = [slide EXCEPT ![j] = 0]
      /\ runner' = [runner EXCEPT ![j] = NoRun]
      /\ worker' = [worker EXCEPT ![j] = [w \in Workers |-> "off"]]
      /\ UNCHANGED <<store, events, blamed>>
  BY DEF Leave, Forget
<1>2. /\ JobInv(j) /\ pc'[j] = "gone" /\ phase'[j] = "initializing" /\ slide'[j] = 0
      /\ runner'[j] = NoRun /\ \A w \in Workers : worker'[j][w] = "off"
      /\ Lectures[j] \in Nat \ {0}
  BY <1>1, Facts DEF TypeInv
<1>3. TypeInv'
  <2>1. NoRun \in Counts
    BY DEF NoRun, Counts
  <2>2. Cardinality(slots \ {j}) <= Slots
    <3>1. IsFiniteSet(slots)
      BY Facts, FS_Subset, ExecutorAssumption DEF TypeInv
    <3>2. Cardinality(slots) \in Nat /\ Cardinality(slots \ {j}) \in Nat
      BY <3>1, FS_CardinalityType, FS_Subset
    <3>3. Cardinality(slots \ {j}) <= Cardinality(slots)
      BY <3>1, FS_Subset
    <3> QED BY <3>2, <3>3, Facts, ExecutorAssumption DEF TypeInv
  <2> QED BY <1>1, <2>1, <2>2, Facts DEF TypeInv
<1>4. \A k \in Jobs \ {j} : Kept(k)
  BY <1>1, Facts DEF TypeInv, Kept, SameSender
<1>5. JobInv(j)'
  <2>1. StageInv(j)'
    BY <1>1, <1>2 DEF JobInv, StageInv
  <2>2. WorkersInv(j)'
    <3>1. \A w \in Workers : worker[j][w] # "announce"
      BY <1>1, <1>2 DEF JobInv, WorkersInv
    <3>2. \A w \in Workers : ~(sending.job = j /\ sending.by = w)
      BY <1>2, <3>1 DEF JobInv, WorkersInv
    <3> QED BY <1>1, <1>2, <3>2 DEF WorkersInv
  <2>3. FeedInv(j)'
    BY <1>1, <1>2, FeedKept DEF JobInv, SameSender
  <2>4. ProgressInv(j)'
    BY <1>2 DEF ProgressInv
  <2>5. CountInv(j)'
    BY <1>2 DEF CountInv, NoRun
  <2>6. CauseInv(j)'
    BY <1>1, <1>2 DEF JobInv, CauseInv, Active
  <2> QED BY <2>1, <2>2, <2>3, <2>4, <2>5, <2>6 DEF JobInv
<1> QED BY <1>3, <1>4, <1>5, OneJob

(* The percentage a phase begins with.                                     *)
LEMMA PhasePercents ==
  ASSUME ExecutorIInv, NEW j \in Jobs
  PROVE  PhasePercent(j) \in 0..40 /\ (phase[j] = "downloading" => PhasePercent(j) = 40)
<1>1. 15 + ((slide[j] + 1) * 10) \div Lectures[j] \in 15..25
  BY Facts, SlidesShare DEF JobInv, ProgressInv
<1> QED BY <1>1, Facts DEF PhasePercent

(* A live executor's update is refused for a reason: its job is over or    *)
(* the store closed.                                                       *)
LEMMA ReportRefusedStep ==
  ASSUME ExecutorIInv, NEW j \in Jobs, ReportRefused(j)
  PROVE  ExecutorIInv'
<1>1. PICK place \in {"report", "leave"} :
        /\ pc[j] = "report" /\ pc' = [pc EXCEPT ![j] = place]
        /\ \/ /\ place = "report" /\ phase[j] = "downloading_slides"
              /\ phase' = [phase EXCEPT ![j] = "fetching_playlists"]
           \/ place = "leave" /\ UNCHANGED phase
        /\ UNCHANGED <<store, slots, slide, stopped, downloads, events, blamed>>
  BY DEF ReportRefused, UpdateRefused, Enter, Goto
<1>2. /\ JobInv(j) /\ pc'[j] = place
      /\ place = "report" => phase'[j] = "fetching_playlists"
      /\ progress[j] \in Nat /\ phase[j] \in Phases
  BY <1>1, Facts DEF TypeInv
<1>3. PhasePercent(j) \in 0..40
  BY PhasePercents
<1>4. storeClosed \/ ~Active(j)
  <2>1. status[j] \notin Terminal => progress[j] <= PhasePercent(j)
    BY <1>1, <1>2 DEF JobInv, ProgressInv, Reached
  <2> QED BY <1>2, <1>3, <2>1 DEF ReportRefused, UpdateRefused, RefusesUpdate, Active
<1>5. /\ pc' \in [Jobs -> Places] /\ phase' \in [Jobs -> Phases] /\ slide' \in [Jobs -> Nat]
      /\ stopped' \subseteq Jobs /\ blamed' \subseteq Jobs
  BY <1>1, Facts DEF TypeInv
<1>6. StageInv(j)'
  BY <1>1, <1>2 DEF JobInv, StageInv
<1>7. WorkersInv(j)'
  BY <1>1, <1>2 DEF JobInv, WorkersInv
<1>8. ProgressInv(j)'
  <2>1. CASE place = "report"
    <3>1. PhasePercent(j) <= 25
      <4>1. 15 + ((slide[j] + 1) * 10) \div Lectures[j] \in 15..25
        BY Facts, SlidesShare DEF JobInv, ProgressInv
      <4> QED BY <1>1, <2>1, <4>1 DEF PhasePercent
    <3>2. Reached(j)' = 30 /\ Reached(j) = PhasePercent(j)
      BY <1>1, <1>2, <2>1 DEF Reached, PhasePercent
    <3> QED BY <1>1, <1>2, <1>3, <3>1, <3>2 DEF JobInv, ProgressInv
  <2>2. CASE place = "leave"
    BY <1>1, <1>2, <2>2 DEF JobInv, ProgressInv
  <2> QED BY <2>1, <2>2
<1>9. CountInv(j)'
  BY <1>1, <1>2 DEF JobInv, CountInv
<1>10. CauseInv(j)'
  BY <1>1, <1>2, <1>4 DEF JobInv, StageInv, CauseInv, Active
<1> QED
  <2>1. \A k \in Jobs \ {j} :
          /\ pc'[k] = pc[k] /\ phase'[k] = phase[k] /\ slide'[k] = slide[k]
          /\ k \in stopped' <=> k \in stopped
          /\ k \in blamed' <=> k \in blamed
    BY <1>1, Facts DEF TypeInv
  <2> QED BY <1>1, <1>5, <1>6, <1>7, <1>8, <1>9, <1>10, <2>1, Moving

(* UpdateRunningIfActive accepts.                                          *)
LEMMA Updating ==
  ASSUME ExecutorIInv, NEW j \in Jobs, NEW percent \in 0..100,
         NEW by \in Workers \cup {"executor"},
         NEW kinds \in {<<"progress", "started">>, <<"progress">>},
         UpdateRunning(j, percent, by, kinds)
  PROVE  /\ Active(j) /\ status'[j] = "running" /\ progress'[j] = percent
         /\ status' \in [Jobs -> {"none", "pending", "running"} \cup Terminal]
         /\ progress' \in [Jobs -> 0..100]
         /\ \A k \in Jobs \ {j} : status'[k] = status[k] /\ progress'[k] = progress[k]
         /\ UNCHANGED <<ctxDone, storeClosed, faults>>
         /\ sending' \in Messages /\ sending'.job = j /\ sending'.by = by
         /\ sending'.kinds = kinds
         /\ \A k \in Jobs : sending.job # k
         /\ \A k \in Jobs \ {j} : SameSender(k)
         /\ UNCHANGED feed
<1>1. /\ sending' \in Messages /\ sending'.job = j /\ sending'.by = by
      /\ sending'.kinds = kinds
      /\ \A k \in Jobs : sending.job # k
      /\ \A k \in Jobs \ {j} : SameSender(k)
      /\ UNCHANGED feed
  <2>1. kinds \in {<<"progress", "started">>} \cup {<<k>> : k \in Kinds}
    OBVIOUS
  <2> QED BY <2>1, Announcing DEF UpdateRunning
<1>2. Active(j)
  BY DEF UpdateRunning, RefusesUpdate
<1> QED BY <1>1, <1>2, Facts DEF UpdateRunning, TypeInv

(* A phase begins: the first one announces the start, the last one starts  *)
(* the workers.                                                            *)
LEMMA ReportStep ==
  ASSUME ExecutorIInv, NEW j \in Jobs, Report(j)
  PROVE  ExecutorIInv'
<1> DEFINE first == phase[j] = "initializing"
           last == phase[j] = "downloading"
           kinds == IF first THEN <<"progress", "started">> ELSE <<"progress">>
<1>1. /\ pc[j] = "report"
      /\ UpdateRunning(j, PhasePercent(j), "executor", kinds)
      /\ pc' = [pc EXCEPT ![j] = IF last THEN "dispatch" ELSE "call"]
      /\ worker' = IF last THEN [worker EXCEPT ![j] = [w \in Workers |-> "idle"]]
                   ELSE worker
      /\ UNCHANGED <<slots, phase, slide, stopped, runner, blamed>>
  BY DEF Report, Goto
<1>2. /\ JobInv(j) /\ pc'[j] = IF last THEN "dispatch" ELSE "call"
      /\ \A w \in Workers : worker[j][w] = "off"
      /\ \A w \in Workers : worker'[j][w] = IF last THEN "idle" ELSE "off"
      /\ Lectures[j] \in Nat \ {0}
  <2>1. JobInv(j) /\ \A w \in Workers : worker[j][w] = "off"
    BY <1>1, Facts DEF JobInv, WorkersInv
  <2>2. pc'[j] = IF last THEN "dispatch" ELSE "call"
    BY <1>1, Facts DEF TypeInv
  <2>3. \A w \in Workers : worker'[j][w] = IF last THEN "idle" ELSE "off"
    BY <1>1, <2>1, Facts DEF TypeInv
  <2> QED BY <2>1, <2>2, <2>3, Facts
<1>3. PhasePercent(j) \in 0..100 /\ PhasePercent(j) \in 0..40 /\ (last => PhasePercent(j) = 40)
  BY PhasePercents
<1>4. /\ Active(j) /\ status'[j] = "running" /\ progress'[j] = PhasePercent(j)
      /\ status' \in [Jobs -> {"none", "pending", "running"} \cup Terminal]
      /\ progress' \in [Jobs -> 0..100]
      /\ \A k \in Jobs \ {j} : status'[k] = status[k] /\ progress'[k] = progress[k]
      /\ UNCHANGED <<ctxDone, storeClosed, faults>>
      /\ sending' \in Messages /\ sending'.job = j /\ sending'.by = "executor"
      /\ sending'.kinds = kinds
      /\ \A k \in Jobs : sending.job # k
      /\ \A k \in Jobs \ {j} : SameSender(k)
      /\ UNCHANGED feed
  <2>1. kinds \in {<<"progress", "started">>, <<"progress">>}
    OBVIOUS
  <2> HIDE DEF kinds
  <2> QED BY <1>1, <1>3, <2>1, Updating
<1>5. TypeInv'
  <2>1. worker' \in [Jobs -> [Workers -> WorkerPlaces]] /\ pc' \in [Jobs -> Places]
    BY <1>1, Facts DEF TypeInv
  <2> QED BY <1>1, <1>4, <2>1, Facts DEF TypeInv
<1>6. \A k \in Jobs \ {j} : Kept(k)
  BY <1>1, <1>4, Facts DEF TypeInv, Kept
<1>7. JobInv(j)'
  <2>1. StageInv(j)'
    BY <1>1, <1>2, <1>4 DEF JobInv, StageInv, Active
  <2>2. WorkersInv(j)'
    BY <1>1, <1>2, <1>4, ExecutorAssumption DEF WorkersInv
  <2>3. FeedInv(j)'
    <3>1. CASE first
      <4>1. status[j] = "pending" /\ feed[j] = <<>>
        BY <1>1, <1>2, <1>4, <3>1 DEF JobInv, StageInv, FeedInv, Active
      <4> QED BY <1>4, <3>1, <4>1 DEF FeedInv
    <3>2. CASE ~first
      <4>1. status[j] = "running" /\ feed[j] \in Begun
        BY <1>1, <1>2, <1>4, <3>2 DEF JobInv, StageInv, FeedInv, Active
      <4> QED BY <1>4, <3>2, <4>1 DEF FeedInv
    <3> QED BY <3>1, <3>2
  <2>4. ProgressInv(j)'
    <3>1. CASE last
      <4>1. /\ runner'[j].completed = 0
            /\ runner'[j].total \in Nat \ {0}
        BY <1>1, <1>2, <3>1 DEF JobInv, CountInv
      <4> DEFINE d == runner'[j].total
      <4>2. Share(0, 55, d) \in 0..55
        <5>1. d \in Nat \ {0} /\ 0 \in 0..d /\ 0 <= 0 /\ 55 \in {10, 55}
          BY <4>1
        <5> HIDE DEF d
        <5> QED BY <5>1, Shares, Zenon
      <4>3. progress'[j] <= Reached(j)'
        BY <1>1, <1>2, <1>3, <1>4, <3>1, <4>1, <4>2 DEF Reached, Share
      <4> QED BY <1>1, <1>2, <3>1, <4>3 DEF JobInv, ProgressInv
    <3>2. CASE ~last
      <4>1. PhasePercent(j)' = PhasePercent(j)
        BY <1>1 DEF PhasePercent
      <4>2. progress'[j] <= Reached(j)'
        BY <1>2, <1>3, <1>4, <3>2, <4>1 DEF Reached
      <4> QED BY <1>1, <1>2, <3>2, <4>2 DEF JobInv, ProgressInv
    <3> QED BY <3>1, <3>2
  <2>5. CountInv(j)'
    <3>1. Busy(j)' = {} /\ Downloading(j)' = {}
      BY <1>2 DEF Busy, Downloading
    <3>2. Cardinality(Busy(j)') = 0 /\ Cardinality(Downloading(j)') = 0
      BY <3>1, FS_EmptySet
    <3>3. /\ runner'[j].next = 1 /\ runner'[j].completed = 0 /\ runner'[j].outputs = 0
          /\ ~runner'[j].err /\ \A w \in Workers : runner'[j].done[w] = 0
          /\ runner'[j].total \in 0..Lectures[j]
          /\ last => runner'[j].total > 0
      BY <1>1, <1>2 DEF JobInv, CountInv
    <3>4. pc'[j] = "drain" => FALSE
      BY <1>2
    <3> QED BY <1>1, <1>2, <3>2, <3>3, <3>4 DEF CountInv
  <2>6. CauseInv(j)'
    <3>1. ~runner'[j].err /\ j \notin stopped' \cup blamed'
      BY <1>1, <1>2 DEF JobInv, CountInv, CauseInv
    <3> QED BY <1>1, <1>2, <1>4, <3>1 DEF CauseInv
  <2> QED BY <2>1, <2>2, <2>3, <2>4, <2>5, <2>6 DEF JobInv
<1> QED BY <1>5, <1>6, <1>7, OneJob
(* jobEventMu is released: the feed of its job grows by what was to be     *)
(* sent.                                                                   *)
LEMMA BroadcastStep ==
  ASSUME ExecutorIInv, Broadcast
  PROVE  ExecutorIInv'
<1>1. PICK j \in Jobs, w0 \in Workers \cup {"executor", "request"} :
        /\ sending.job = j /\ sending.by = w0 /\ sending' = Unlocked
        /\ feed' = [feed EXCEPT ![j] =
             IF Len(sending.kinds) = 1 THEN Append1(feed[j], sending.kinds[1])
             ELSE Append1(Append1(feed[j], sending.kinds[1]), sending.kinds[2])]
        /\ worker' = [worker EXCEPT ![j] =
             [w \in Workers |-> IF w = w0 THEN "idle" ELSE worker[j][w]]]
        /\ UNCHANGED <<store, executor, stopped, runner, blamed>>
  <2>1. sending \in Messages
    BY DEF Broadcast, ExecutorIInv, TypeInv
  <2>2. sending.job \in Jobs /\ sending.by \in Workers \cup {"executor", "request"}
    BY <2>1 DEF Messages
  <2> QED BY <2>2, Zenon DEF Broadcast
<1>2. /\ JobInv(j) /\ TypeInv
      /\ worker[j] \in [Workers -> WorkerPlaces]
  BY Facts
<1>3. /\ worker' \in [Jobs -> [Workers -> WorkerPlaces]]
      /\ \A w \in Workers : worker'[j][w] = IF w = w0 THEN "idle" ELSE worker[j][w]
      /\ \A k \in Jobs \ {j} : worker'[k] = worker[k]
  BY <1>1, <1>2 DEF TypeInv
<1> DEFINE first == Append1(feed[j], sending.kinds[1])
           all == IF Len(sending.kinds) = 1 THEN first ELSE Append1(first, sending.kinds[2])
<1>4. feed' = [feed EXCEPT ![j] = all]
  BY <1>1
<1>5. \/ status[j] = "running" /\ all \in Begun
      \/ /\ status[j] \in Terminal
         /\ all \in {Append(f, EventOf[status[j]]) : f \in Live}
  <2>1. \/ /\ status[j] = "running"
           /\ \/ sending.kinds = <<"progress", "started">> /\ feed[j] = <<>>
              \/ sending.kinds = <<"progress">> /\ feed[j] \in Begun
        \/ /\ status[j] \in Terminal
           /\ sending.kinds = <<EventOf[status[j]]>> /\ feed[j] \in Live
    BY <1>1, <1>2 DEF JobInv, FeedInv
  <2>2. CASE status[j] = "running" /\ sending.kinds = <<"progress", "started">> /\ feed[j] = <<>>
    <3>1. first = <<"progress">>
      BY <2>2, Appending
    <3>2. all = <<"progress", "started">>
      BY <2>2, <3>1, Appending
    <3> QED BY <2>2, <3>2
  <2>3. CASE status[j] = "running" /\ sending.kinds = <<"progress">> /\ feed[j] \in Begun
    <3>1. all = Append1(feed[j], "progress")
      BY <2>3
    <3>2. Append1(feed[j], "progress") \in Begun
      BY <2>3, Appending
    <3> QED BY <2>3, <3>1, <3>2
  <2>4. CASE /\ status[j] \in Terminal
             /\ sending.kinds = <<EventOf[status[j]]>> /\ feed[j] \in Live
    <3>1. EventOf[status[j]] \in Kinds \ {"progress"}
      BY <2>4 DEF EventOf
    <3>2. all = Append1(feed[j], EventOf[status[j]])
      BY <2>4
    <3>3. Append1(feed[j], EventOf[status[j]]) = Append(feed[j], EventOf[status[j]])
      BY <2>4, <3>1, Appending
    <3> QED BY <2>4, <3>2, <3>3
  <2> QED BY <2>1, <2>2, <2>3, <2>4
<1> HIDE DEF all
<1>6. all \in Seq(Kinds)
  <2>1. \A f \in Live : f \in Seq(Kinds)
    <3>1. <<>> \in Seq(Kinds)
      OBVIOUS
    <3>2. <<"progress", "started">> \in Seq(Kinds)
      OBVIOUS
    <3>3. <<"progress", "started", "progress">> \in Seq(Kinds)
      OBVIOUS
    <3> QED BY <3>1, <3>2, <3>3
  <2>2. CASE status[j] = "running"
    BY <1>5, <2>1, <2>2
  <2>3. CASE status[j] \in Terminal
    <3>1. EventOf[status[j]] \in Kinds
      BY <2>3 DEF EventOf
    <3>2. PICK f \in Live : all = Append(f, EventOf[status[j]])
      BY <1>5, <2>3
    <3> QED BY <2>1, <3>1, <3>2, AppendProperties
  <2> QED BY <1>5, <2>2, <2>3
<1>7. TypeInv'
  BY <1>1, <1>2, <1>3, <1>4, <1>6 DEF TypeInv
<1>8. \A k \in Jobs : sending'.job # k
  BY <1>1, NoSender
<1>9. \A k \in Jobs \ {j} : Kept(k)
  BY <1>1, <1>2, <1>3, <1>4, <1>8 DEF TypeInv, Kept, SameSender
<1>10. JobInv(j)'
  <2>1. StageInv(j)'
    BY <1>1, <1>2, StageKept DEF JobInv
  <2>2. WorkersInv(j)'
    <3>1. \A w \in Workers : worker[j][w] = "announce" <=> w = w0
      BY <1>1, <1>2 DEF JobInv, WorkersInv
    <3>2. \A w \in Workers : w = w0 => pc[j] \in Running
      BY <1>2, <3>1 DEF JobInv, WorkersInv
    <3> QED BY <1>1, <1>2, <1>3, <1>8, <3>1, <3>2 DEF JobInv, WorkersInv
  <2>3. FeedInv(j)'
    <3>1. feed'[j] = all
      BY <1>1, <1>2, <1>4 DEF TypeInv
    <3> QED BY <1>1, <1>5, <1>8, <3>1 DEF FeedInv
  <2>4. ProgressInv(j)'
    BY <1>1, <1>2, <1>3, ProgressKept DEF JobInv
  <2>5. CountInv(j)'
    <3>1. Busy(j)' = Busy(j) /\ Downloading(j)' = Downloading(j)
      <4>1. \A w \in Workers : w = w0 => worker[j][w] = "announce"
        BY <1>1, <1>2 DEF JobInv, WorkersInv
      <4> QED BY <1>1, <1>3, <4>1 DEF Busy, Downloading
    <3> QED BY <1>1, <1>2, <3>1 DEF JobInv, CountInv, LocalErr
  <2>6. CauseInv(j)'
    BY <1>1, <1>2, CauseKept DEF JobInv
  <2> QED BY <2>1, <2>2, <2>3, <2>4, <2>5, <2>6 DEF JobInv
<1> QED BY <1>1, <1>7, <1>9, <1>10, OneJob
-------------------------------------------------------------------------------
(* The steps of the workers.                                               *)

(* A worker moves, and neither the store nor the stream sees it.           *)
LEMMA WorkerMoving ==
  ASSUME ExecutorIInv, NEW j \in Jobs, NEW w \in Workers,
         NEW place \in {"downloading", "advance", "report", "gone"},
         worker[j][w] \in {"idle", "downloading", "advance"},
         place = "report" => ~Reporting(j),
         Place(j, w, place),
         UNCHANGED <<store, executor, events>>,
         runner' \in [Jobs -> Counts],
         stopped' \subseteq Jobs, blamed' \subseteq Jobs,
         \A k \in Jobs \ {j} :
           /\ runner'[k] = runner[k]
           /\ k \in stopped' <=> k \in stopped
           /\ k \in blamed' <=> k \in blamed,
         ProgressInv(j)', CountInv(j)', CauseInv(j)'
  PROVE  ExecutorIInv'
<1>1. /\ JobInv(j) /\ TypeInv
      /\ worker' \in [Jobs -> [Workers -> WorkerPlaces]]
      /\ \A v \in Workers : worker'[j][v] = IF v = w THEN place ELSE worker[j][v]
      /\ \A k \in Jobs \ {j} : worker'[k] = worker[k]
  BY Facts DEF Place, TypeInv
<1>2. TypeInv'
  BY <1>1 DEF TypeInv
<1>3. \A k \in Jobs \ {j} : Kept(k)
  BY <1>1 DEF Kept, SameSender
<1>4. StageInv(j)'
  BY <1>1, StageKept DEF JobInv
<1>5. WorkersInv(j)'
  <2>1. WorkersInv(j) /\ pc' = pc /\ sending' = sending
    BY <1>1 DEF JobInv
  <2>2. \A v \in Workers : worker'[j][v] = "announce" <=> sending'.job = j /\ sending'.by = v
    BY <1>1, <2>1 DEF WorkersInv
  <2>3. \A u, v \in Workers :
          worker'[j][u] \in {"report", "announce"} /\ worker'[j][v] \in {"report", "announce"}
          => u = v
    BY <1>1, <2>1 DEF WorkersInv, Reporting
  <2>4. pc[j] \in Running
    BY <1>1, <2>1, Facts DEF WorkersInv
  <2>5. \A v \in Workers : worker'[j][v] # "off"
    BY <1>1, <2>1, <2>4 DEF WorkersInv
  <2> QED BY <2>1, <2>2, <2>3, <2>4, <2>5 DEF WorkersInv
<1>6. FeedInv(j)'
  BY <1>1, FeedKept DEF JobInv, SameSender
<1> QED
  <2>1. JobInv(j)'
    BY <1>4, <1>5, <1>6 DEF JobInv
  <2> QED BY <1>2, <1>3, <2>1, OneJob

(* What a worker's next move does to the two counts of workers.            *)
LEMMA WorkerCounts ==
  ASSUME ExecutorIInv, NEW j \in Jobs, NEW w \in Workers, NEW place \in WorkerPlaces,
         Place(j, w, place)
  PROVE  LET busy == {"downloading", "advance"}
         IN  /\ Cardinality(Busy(j)) \in Nat /\ Cardinality(Downloading(j)) \in Nat
             /\ worker[j][w] \in busy <=> place \in busy =>
                  Cardinality(Busy(j)') = Cardinality(Busy(j))
             /\ worker[j][w] \in busy /\ place \notin busy =>
                  Cardinality(Busy(j)') = Cardinality(Busy(j)) - 1
             /\ worker[j][w] \notin busy /\ place \in busy =>
                  Cardinality(Busy(j)') = Cardinality(Busy(j)) + 1
             /\ worker[j][w] = "downloading" <=> place = "downloading" =>
                  Cardinality(Downloading(j)') = Cardinality(Downloading(j))
             /\ worker[j][w] = "downloading" /\ place # "downloading" =>
                  Cardinality(Downloading(j)') = Cardinality(Downloading(j)) - 1
             /\ worker[j][w] # "downloading" /\ place = "downloading" =>
                  Cardinality(Downloading(j)') = Cardinality(Downloading(j)) + 1
<1> DEFINE busy == {"downloading", "advance"}
<1>1. \A v \in Workers : worker'[j][v] = IF v = w THEN place ELSE worker[j][v]
  BY Facts DEF Place, TypeInv
<1>2. IsFiniteSet(Busy(j)) /\ IsFiniteSet(Downloading(j))
  <2>1. Busy(j) \subseteq Workers /\ Downloading(j) \subseteq Workers
    BY DEF Busy, Downloading
  <2> QED BY <2>1, ExecutorAssumption, FS_Subset
<1>3. Cardinality(Busy(j)) \in Nat /\ Cardinality(Downloading(j)) \in Nat
  BY <1>2, FS_CardinalityType
<1>4. /\ (worker[j][w] \in busy <=> place \in busy) => Busy(j)' = Busy(j)
      /\ worker[j][w] \in busy /\ place \notin busy => w \in Busy(j) /\ Busy(j)' = Busy(j) \ {w}
      /\ worker[j][w] \notin busy /\ place \in busy =>
           w \notin Busy(j) /\ Busy(j)' = Busy(j) \cup {w}
  BY <1>1 DEF Busy
<1>5. /\ (worker[j][w] = "downloading" <=> place = "downloading") =>
           Downloading(j)' = Downloading(j)
      /\ worker[j][w] = "downloading" /\ place # "downloading" =>
           w \in Downloading(j) /\ Downloading(j)' = Downloading(j) \ {w}
      /\ worker[j][w] # "downloading" /\ place = "downloading" =>
           w \notin Downloading(j) /\ Downloading(j)' = Downloading(j) \cup {w}
  BY <1>1 DEF Downloading
<1>6. \A S : IsFiniteSet(S) =>
        /\ w \in S => Cardinality(S \ {w}) = Cardinality(S) - 1
        /\ w \notin S => Cardinality(S \cup {w}) = Cardinality(S) + 1
  BY FS_AddElement, FS_RemoveElement
<1> QED BY <1>2, <1>3, <1>4, <1>5, <1>6
(* A worker at work is there during the downloads only.                    *)
LEMMA AtWork ==
  ASSUME ExecutorIInv, NEW j \in Jobs, NEW w \in Workers,
         worker[j][w] \notin {"off", "gone"}
  PROVE  pc[j] \in Running
  BY Facts DEF JobInv, WorkersInv

(* The run of one job is replaced.                                         *)
LEMMA RunReplaced ==
  ASSUME ExecutorIInv, NEW j \in Jobs, NEW r \in Counts,
         runner' = [runner EXCEPT ![j] = r]
  PROVE  /\ runner' \in [Jobs -> Counts] /\ runner'[j] = r
         /\ \A k \in Jobs \ {j} : runner'[k] = runner[k]
  BY Facts DEF TypeInv

(* One counter of a run is replaced.                                       *)
LEMMA CounterReplaced ==
  ASSUME NEW r \in Counts, NEW n \in Nat
  PROVE  /\ LET next == [r EXCEPT !.next = n]
            IN  /\ next \in Counts /\ next.next = n /\ next.total = r.total
                /\ next.completed = r.completed /\ next.outputs = r.outputs
                /\ next.err = r.err /\ next.done = r.done
         /\ LET more == [r EXCEPT !.outputs = n]
            IN  /\ more \in Counts /\ more.outputs = n /\ more.total = r.total
                /\ more.completed = r.completed /\ more.next = r.next
                /\ more.err = r.err /\ more.done = r.done
  BY DEF Counts

(* A run meets an error.                                                   *)
LEMMA ErrorRecorded ==
  ASSUME NEW r \in Counts
  PROVE  LET failed == [r EXCEPT !.err = TRUE]
         IN  /\ failed \in Counts /\ failed.err /\ failed.total = r.total
             /\ failed.next = r.next /\ failed.outputs = r.outputs
             /\ failed.completed = r.completed /\ failed.done = r.done
  BY DEF Counts

(* A lecture is handed to an idle worker.                                  *)
LEMMA DispatchStep ==
  ASSUME ExecutorIInv, NEW j \in Jobs, NEW w \in Workers, Dispatch(j, w)
  PROVE  ExecutorIInv'
<1>1. /\ pc[j] = "dispatch" /\ runner[j].next <= runner[j].total
      /\ worker[j][w] = "idle" /\ Place(j, w, "downloading")
      /\ runner' = [runner EXCEPT ![j].next = runner[j].next + 1]
      /\ UNCHANGED <<store, executor, stopped, events, blamed>>
  BY DEF Dispatch
<1>2. JobInv(j) /\ TypeInv /\ runner[j] \in Counts /\ Lectures[j] \in Nat \ {0}
  BY Facts
<1>3. /\ runner' \in [Jobs -> Counts]
      /\ \A k \in Jobs \ {j} : runner'[k] = runner[k]
      /\ runner'[j].next = runner[j].next + 1 /\ runner'[j].total = runner[j].total
      /\ runner'[j].completed = runner[j].completed /\ runner'[j].outputs = runner[j].outputs
      /\ runner'[j].err = runner[j].err /\ runner'[j].done = runner[j].done
  <2> DEFINE r == [runner[j] EXCEPT !.next = runner[j].next + 1]
  <2>1. runner[j].next + 1 \in Nat
    BY <1>2 DEF Counts
  <2>2. /\ r \in Counts /\ r.next = runner[j].next + 1 /\ r.total = runner[j].total
        /\ r.completed = runner[j].completed /\ r.outputs = runner[j].outputs
        /\ r.err = runner[j].err /\ r.done = runner[j].done
    BY <1>2, <2>1, CounterReplaced
  <2>3. runner' = [runner EXCEPT ![j] = r]
    BY <1>1
  <2> HIDE DEF r
  <2> QED BY <2>2, <2>3, RunReplaced
<1>4. \A v \in Workers : worker'[j][v] = IF v = w THEN "downloading" ELSE worker[j][v]
  BY <1>1, <1>2 DEF TypeInv, Place
<1>5. ProgressInv(j)'
  BY <1>1, <1>2, <1>3, <1>4, ProgressKept DEF JobInv
<1>6. CountInv(j)'
  <2>1. /\ Cardinality(Busy(j)) \in Nat /\ Cardinality(Downloading(j)) \in Nat
        /\ Cardinality(Busy(j)') = Cardinality(Busy(j)) + 1
        /\ Cardinality(Downloading(j)') = Cardinality(Downloading(j)) + 1
    BY <1>1, WorkerCounts
  <2> QED BY <1>1, <1>2, <1>3, <2>1 DEF JobInv, CountInv, LocalErr, Counts
<1>7. CauseInv(j)'
  BY <1>1, <1>2, <1>3 DEF JobInv, CauseInv, Active
<1> QED
  <2>1. stopped' \subseteq Jobs /\ blamed' \subseteq Jobs
    BY <1>1, <1>2 DEF TypeInv
  <2> QED BY <1>1, <1>3, <1>5, <1>6, <1>7, <2>1, WorkerMoving

(* An idle worker finds the tasks closed.                                  *)
LEMMA NoMoreTasksStep ==
  ASSUME ExecutorIInv, NEW j \in Jobs, NEW w \in Workers, NoMoreTasks(j, w)
  PROVE  ExecutorIInv'
<1>1. /\ pc[j] = "drain" /\ worker[j][w] = "idle" /\ Place(j, w, "gone")
      /\ UNCHANGED <<store, executor, stopped, runner, events, blamed>>
  BY DEF NoMoreTasks
<1>2. JobInv(j) /\ TypeInv
  BY Facts
<1>3. \A v \in Workers : worker'[j][v] = IF v = w THEN "gone" ELSE worker[j][v]
  BY <1>1, <1>2 DEF TypeInv, Place
<1>4. ProgressInv(j)'
  BY <1>1, <1>2, <1>3, ProgressKept DEF JobInv
<1>5. CountInv(j)'
  <2>1. /\ Cardinality(Busy(j)') = Cardinality(Busy(j))
        /\ Cardinality(Downloading(j)') = Cardinality(Downloading(j))
    BY <1>1, WorkerCounts
  <2> QED BY <1>1, <1>2, <2>1 DEF JobInv, CountInv, LocalErr
<1>6. CauseInv(j)'
  BY <1>1, <1>2 DEF JobInv, CauseInv, Active
<1> QED
  <2>1. /\ stopped' \subseteq Jobs /\ blamed' \subseteq Jobs
        /\ runner' \in [Jobs -> Counts]
    BY <1>1, <1>2 DEF TypeInv
  <2> QED BY <1>1, <1>4, <1>5, <1>6, <2>1, WorkerMoving

(* A lecture is downloaded, or has no media in the selected views.         *)
LEMMA DownloadReturnsStep ==
  ASSUME ExecutorIInv, NEW j \in Jobs, NEW w \in Workers, DownloadReturns(j, w)
  PROVE  ExecutorIInv'
<1>1. PICK new \in {0, 1} :
        /\ worker[j][w] = "downloading" /\ Place(j, w, "advance")
        /\ runner' = [runner EXCEPT ![j].outputs = runner[j].outputs + new]
        /\ UNCHANGED <<store, executor, stopped, events, blamed>>
  BY DEF DownloadReturns
<1>2. JobInv(j) /\ TypeInv /\ runner[j] \in Counts /\ Lectures[j] \in Nat \ {0}
  BY Facts
<1>3. /\ runner' \in [Jobs -> Counts]
      /\ \A k \in Jobs \ {j} : runner'[k] = runner[k]
      /\ runner'[j].outputs = runner[j].outputs + new /\ runner'[j].total = runner[j].total
      /\ runner'[j].completed = runner[j].completed /\ runner'[j].next = runner[j].next
      /\ runner'[j].err = runner[j].err /\ runner'[j].done = runner[j].done
  <2> DEFINE r == [runner[j] EXCEPT !.outputs = runner[j].outputs + new]
  <2>1. runner[j].outputs + new \in Nat
    BY <1>2 DEF Counts
  <2>2. /\ r \in Counts /\ r.outputs = runner[j].outputs + new /\ r.total = runner[j].total
        /\ r.completed = runner[j].completed /\ r.next = runner[j].next
        /\ r.err = runner[j].err /\ r.done = runner[j].done
    BY <1>2, <2>1, CounterReplaced
  <2>3. runner' = [runner EXCEPT ![j] = r]
    BY <1>1
  <2> HIDE DEF r
  <2> QED BY <2>2, <2>3, RunReplaced
<1>4. \A v \in Workers : worker'[j][v] = IF v = w THEN "advance" ELSE worker[j][v]
  BY <1>1, <1>2 DEF TypeInv, Place
<1>5. ProgressInv(j)'
  BY <1>1, <1>2, <1>3, <1>4, ProgressKept DEF JobInv
<1>6. CountInv(j)'
  <2>1. /\ Cardinality(Busy(j)) \in Nat /\ Cardinality(Downloading(j)) \in Nat
        /\ Cardinality(Busy(j)') = Cardinality(Busy(j))
        /\ Cardinality(Downloading(j)') = Cardinality(Downloading(j)) - 1
        /\ Cardinality(Downloading(j)') \in Nat
    <3>1. Cardinality(Downloading(j)') \in Nat
      <4>1. Downloading(j)' \subseteq Workers
        BY DEF Downloading
      <4> QED BY <4>1, ExecutorAssumption, FS_Subset, FS_CardinalityType
    <3> QED BY <1>1, <3>1, WorkerCounts
  <2>2. pc[j] \in Running
    BY <1>1, AtWork
  <2> QED BY <1>1, <1>2, <1>3, <2>1, <2>2 DEF JobInv, CountInv, LocalErr, Counts
<1>7. CauseInv(j)'
  <2>1. pc[j] \in Running
    BY <1>1, AtWork
  <2> QED BY <1>1, <1>2, <1>3, <2>1 DEF JobInv, StageInv, CauseInv, Active
<1> QED
  <2>1. stopped' \subseteq Jobs /\ blamed' \subseteq Jobs
    BY <1>1, <1>2 DEF TypeInv
  <2> QED BY <1>1, <1>3, <1>5, <1>6, <1>7, <2>1, WorkerMoving

(* DownloadAborted and DownloadFails: the lecture is lost, and the local   *)
(* context is done.                                                        *)
LEMMA DownloadLostStep ==
  ASSUME ExecutorIInv, NEW j \in Jobs, NEW w \in Workers,
         DownloadAborted(j, w) \/ DownloadFails(j, w)
  PROVE  ExecutorIInv'
<1>1. /\ worker[j][w] = "downloading" /\ Place(j, w, "gone")
      /\ LocalErr(j)'
      /\ \/ /\ runner' = [runner EXCEPT ![j].err = TRUE]
            /\ stopped' = stopped \cup {j} /\ blamed' = blamed \cup {j}
         \/ UNCHANGED <<runner, stopped, blamed>>
      /\ UNCHANGED <<store, executor, events>>
  BY DEF DownloadAborted, DownloadFails, LocalErr
<1>2. /\ JobInv(j) /\ TypeInv /\ runner[j] \in Counts /\ Lectures[j] \in Nat \ {0}
      /\ pc[j] \in Running
  BY <1>1, Facts, AtWork
<1>3. /\ runner' \in [Jobs -> Counts]
      /\ \A k \in Jobs \ {j} :
           /\ runner'[k] = runner[k]
           /\ k \in stopped' <=> k \in stopped
           /\ k \in blamed' <=> k \in blamed
      /\ runner'[j].outputs = runner[j].outputs /\ runner'[j].total = runner[j].total
      /\ runner'[j].completed = runner[j].completed /\ runner'[j].next = runner[j].next
      /\ runner'[j].done = runner[j].done
  <2> DEFINE r == [runner[j] EXCEPT !.err = TRUE]
  <2>1. /\ r \in Counts /\ r.outputs = runner[j].outputs /\ r.total = runner[j].total
        /\ r.completed = runner[j].completed /\ r.next = runner[j].next
        /\ r.done = runner[j].done
    BY <1>2, ErrorRecorded
  <2>2. CASE UNCHANGED <<runner, stopped, blamed>>
    BY <1>2, <2>2 DEF TypeInv
  <2>3. CASE /\ runner' = [runner EXCEPT ![j].err = TRUE]
             /\ stopped' = stopped \cup {j} /\ blamed' = blamed \cup {j}
    <3>1. runner' = [runner EXCEPT ![j] = r]
      BY <2>3
    <3> HIDE DEF r
    <3> QED BY <2>1, <2>3, <3>1, RunReplaced
  <2> QED BY <1>1, <2>2, <2>3
<1>4. \A v \in Workers : worker'[j][v] = IF v = w THEN "gone" ELSE worker[j][v]
  BY <1>1, <1>2 DEF TypeInv, Place
<1>5. ProgressInv(j)'
  BY <1>1, <1>2, <1>3, <1>4, ProgressKept DEF JobInv
<1>6. CountInv(j)'
  <2>1. /\ Cardinality(Busy(j)) \in Nat /\ Cardinality(Downloading(j)) \in Nat
        /\ Cardinality(Busy(j)') = Cardinality(Busy(j)) - 1
        /\ Cardinality(Downloading(j)') = Cardinality(Downloading(j)) - 1
    BY <1>1, WorkerCounts
  <2> QED BY <1>1, <1>2, <1>3, <2>1 DEF JobInv, CountInv, Counts
<1>7. CauseInv(j)'
  <2>1. CASE UNCHANGED <<runner, stopped, blamed>>
    BY <1>1, <1>2, <2>1 DEF JobInv, CauseInv, Active
  <2>2. CASE /\ runner' = [runner EXCEPT ![j].err = TRUE]
             /\ stopped' = stopped \cup {j} /\ blamed' = blamed \cup {j}
    <3>1. runner'[j].err /\ j \in stopped' /\ j \in blamed'
      BY <1>2, <2>2 DEF TypeInv, Counts
    <3> QED BY <1>1, <1>2, <3>1 DEF CauseInv
  <2> QED BY <1>1, <2>1, <2>2
<1> QED
  <2>1. stopped' \subseteq Jobs /\ blamed' \subseteq Jobs
    BY <1>1, <1>2 DEF TypeInv
  <2> QED BY <1>1, <1>3, <1>5, <1>6, <1>7, <2>1, WorkerMoving

(* A downloaded lecture is counted and is to be reported, or is lost to    *)
(* the local context.                                                      *)
LEMMA AdvanceStep ==
  ASSUME ExecutorIInv, NEW j \in Jobs, NEW w \in Workers, Advance(j, w)
  PROVE  ExecutorIInv'
<1>1. /\ worker[j][w] = "advance" /\ ~Reporting(j)
      /\ UNCHANGED <<store, executor, stopped, events, blamed>>
  BY DEF Advance
<1>2. /\ JobInv(j) /\ TypeInv /\ runner[j] \in Counts /\ Lectures[j] \in Nat \ {0}
      /\ pc[j] \in Running
  BY <1>1, Facts, AtWork
<1>3. CASE LocalErr(j) /\ Place(j, w, "gone") /\ UNCHANGED runner
  <2>1. \A v \in Workers : worker'[j][v] = IF v = w THEN "gone" ELSE worker[j][v]
    BY <1>2, <1>3 DEF TypeInv, Place
  <2>2. ProgressInv(j)'
    BY <1>1, <1>2, <1>3, <2>1, ProgressKept DEF JobInv
  <2>3. CountInv(j)'
    <3>1. /\ Cardinality(Busy(j)) \in Nat /\ Cardinality(Downloading(j)) \in Nat
          /\ Cardinality(Busy(j)') = Cardinality(Busy(j)) - 1
          /\ Cardinality(Downloading(j)') = Cardinality(Downloading(j))
      BY <1>1, <1>3, WorkerCounts
    <3> QED BY <1>1, <1>2, <1>3, <3>1 DEF JobInv, CountInv, LocalErr, Counts
  <2>4. CauseInv(j)'
    BY <1>1, <1>2, <1>3 DEF JobInv, CauseInv, Active
  <2> QED
    <3>1. /\ stopped' \subseteq Jobs /\ blamed' \subseteq Jobs
          /\ runner' \in [Jobs -> Counts]
      BY <1>1, <1>2, <1>3 DEF TypeInv
    <3> QED BY <1>1, <1>3, <2>2, <2>3, <2>4, <3>1, WorkerMoving
<1>4. CASE /\ ~LocalErr(j) /\ Place(j, w, "report")
           /\ runner' = [runner EXCEPT ![j].completed = runner[j].completed + 1,
                                       ![j].done[w] = runner[j].completed + 1]
  <2>1. \A v \in Workers : worker'[j][v] = IF v = w THEN "report" ELSE worker[j][v]
    BY <1>2, <1>4 DEF TypeInv, Place
  <2>2. /\ runner' \in [Jobs -> Counts]
        /\ \A k \in Jobs \ {j} : runner'[k] = runner[k]
        /\ runner'[j].completed = runner[j].completed + 1
        /\ runner'[j].total = runner[j].total
        /\ runner'[j].outputs = runner[j].outputs /\ runner'[j].next = runner[j].next
        /\ runner'[j].err = runner[j].err
        /\ \A v \in Workers :
             runner'[j].done[v] = IF v = w THEN runner[j].completed + 1 ELSE runner[j].done[v]
    <3> DEFINE n == runner[j].completed + 1
               r == [runner[j] EXCEPT !.completed = n, !.done[w] = n]
    <3>1. n \in Nat
      BY <1>2 DEF Counts
    <3>2. runner' = [runner EXCEPT ![j] = r]
      BY <1>4
    <3> HIDE DEF n
    <3>3. /\ r \in Counts /\ r.completed = n /\ r.total = runner[j].total
          /\ r.outputs = runner[j].outputs /\ r.next = runner[j].next
          /\ r.err = runner[j].err
          /\ \A v \in Workers : r.done[v] = IF v = w THEN n ELSE runner[j].done[v]
      BY <1>2, <3>1 DEF Counts
    <3> HIDE DEF r
    <3> QED BY <3>2, <3>3, RunReplaced DEF n
  <2>3. /\ Cardinality(Busy(j)) \in Nat /\ Cardinality(Downloading(j)) \in Nat
        /\ Cardinality(Busy(j)') = Cardinality(Busy(j)) - 1
        /\ Cardinality(Busy(j)') \in Nat
        /\ Cardinality(Downloading(j)') = Cardinality(Downloading(j))
    <3>1. Cardinality(Busy(j)') \in Nat
      <4>1. Busy(j)' \subseteq Workers
        BY DEF Busy
      <4> QED BY <4>1, ExecutorAssumption, FS_Subset, FS_CardinalityType
    <3> QED BY <1>1, <1>4, <3>1, WorkerCounts
  <2>4. runner[j].completed + 1 <= runner[j].total
    BY <1>2, <2>3 DEF JobInv, CountInv, Counts
  <2>5. ProgressInv(j)'
    <3> DEFINE m == runner[j].completed
               n == runner[j].completed + 1
               d == runner[j].total
    <3>1. /\ Share(m, 55, d) <= Share(n, 55, d)
          /\ Share(m, 55, d) \in 0..55 /\ Share(n, 55, d) \in 0..55
      <4>1. d \in Nat \ {0} /\ m \in 0..d /\ n \in 0..d /\ m <= n
        BY <1>2, <2>4 DEF Counts
      <4> HIDE DEF m, n, d
      <4>2. n <= n /\ 55 \in {10, 55}
        BY <4>1
      <4>3. Share(m, 55, d) \in 0..55 /\ Share(m, 55, d) <= Share(n, 55, d)
        BY <4>1, <4>2, Shares, Zenon
      <4>4. Share(n, 55, d) \in 0..55
        BY <4>1, <4>2, Shares, Zenon
      <4> QED BY <4>3, <4>4
    <3>2. Reached(j) <= Reached(j)' /\ Reached(j) \in Nat /\ Reached(j)' \in Nat
      BY <1>1, <1>2, <2>2, <3>1 DEF Reached, Share
    <3>3. status'[j] \notin Terminal => progress'[j] <= Reached(j)'
      <4>1. progress[j] \in Nat
        BY Facts
      <4> QED BY <1>1, <1>2, <3>2, <4>1 DEF JobInv, ProgressInv
    <3>4. \A v \in Workers : worker'[j][v] = "report" => v = w
      BY <1>1, <2>1 DEF Reporting
    <3> QED BY <1>1, <1>2, <2>2, <3>3, <3>4 DEF JobInv, ProgressInv
  <2>6. CountInv(j)'
    BY <1>1, <1>2, <1>4, <2>2, <2>3, <2>4 DEF JobInv, CountInv, LocalErr, Counts
  <2>7. CauseInv(j)'
    BY <1>1, <1>2, <2>2 DEF JobInv, StageInv, CauseInv, Active
  <2> QED
    <3>1. stopped' \subseteq Jobs /\ blamed' \subseteq Jobs
      BY <1>1, <1>2 DEF TypeInv
    <3> QED BY <1>1, <1>4, <2>2, <2>5, <2>6, <2>7, <3>1, WorkerMoving
<1> QED BY <1>3, <1>4 DEF Advance
(* A worker that reports: it is the only one, its percentage is what the   *)
(* job has reached, and what it reported is forgotten.                     *)
LEMMA Reporter ==
  ASSUME ExecutorIInv, NEW j \in Jobs, NEW w \in Workers, worker[j][w] = "report",
         Reported(j, w)
  PROVE  /\ pc[j] \in Running
         /\ \A v \in Workers : worker[j][v] \in {"report", "announce"} => v = w
         /\ DonePercent(j, w) = Reached(j) /\ DonePercent(j, w) \in 0..100
         /\ status[j] \notin Terminal => progress[j] <= DonePercent(j, w)
         /\ runner' \in [Jobs -> Counts]
         /\ \A k \in Jobs \ {j} : runner'[k] = runner[k]
         /\ runner'[j].next = runner[j].next /\ runner'[j].total = runner[j].total
         /\ runner'[j].completed = runner[j].completed
         /\ runner'[j].outputs = runner[j].outputs /\ runner'[j].err = runner[j].err
         /\ \A v \in Workers : runner'[j].done[v] = IF v = w THEN 0 ELSE runner[j].done[v]
<1>1. /\ JobInv(j) /\ TypeInv /\ runner[j] \in Counts /\ Lectures[j] \in Nat \ {0}
      /\ pc[j] \in Running
  BY Facts, AtWork
<1>2. \A v \in Workers : worker[j][v] \in {"report", "announce"} => v = w
  BY <1>1 DEF JobInv, WorkersInv
<1>3. runner[j].done[w] = runner[j].completed
  BY <1>1 DEF JobInv, ProgressInv
<1>4. DonePercent(j, w) = Reached(j)
  BY <1>1, <1>3 DEF DonePercent, Reached, Share
<1>5. DonePercent(j, w) \in 0..100
  <2> DEFINE d == runner[j].total
  <2> DEFINE m == runner[j].completed
  <2>1. d \in Nat \ {0} /\ m \in 0..d /\ m <= m /\ 55 \in {10, 55}
    <3>1. CountInv(j)
      BY <1>1 DEF JobInv
    <3>2. d \in 0..Lectures[j] /\ m \in 0..d
      BY <3>1 DEF CountInv
    <3>3. d > 0
      BY <1>1, <3>1 DEF CountInv
    <3> HIDE DEF d, m
    <3> QED BY <1>1, <3>2, <3>3
  <2> HIDE DEF d, m
  <2>2. Share(m, 55, d) \in 0..55
    BY <2>1, Shares, Zenon
  <2> QED BY <1>1, <1>4, <2>2 DEF Reached, d, m
<1>6. status[j] \notin Terminal => progress[j] <= DonePercent(j, w)
  BY <1>1, <1>4 DEF JobInv, ProgressInv
<1> DEFINE r == [runner[j] EXCEPT !.done[w] = 0]
<1>7. /\ r \in Counts /\ r.next = runner[j].next /\ r.total = runner[j].total
      /\ r.completed = runner[j].completed
      /\ r.outputs = runner[j].outputs /\ r.err = runner[j].err
      /\ \A v \in Workers : r.done[v] = IF v = w THEN 0 ELSE runner[j].done[v]
  BY <1>1 DEF Counts
<1>8. runner' = [runner EXCEPT ![j] = r]
  BY DEF Reported
<1> HIDE DEF r
<1> QED BY <1>1, <1>2, <1>4, <1>5, <1>6, <1>7, <1>8, RunReplaced

(* The store takes a worker's report: what the job has reached.            *)
LEMMA ReportLectureStep ==
  ASSUME ExecutorIInv, NEW j \in Jobs, NEW w \in Workers, ReportLecture(j, w)
  PROVE  ExecutorIInv'
<1>1. /\ worker[j][w] = "report" /\ Reported(j, w) /\ Place(j, w, "announce")
      /\ UpdateRunning(j, DonePercent(j, w), w, <<"progress">>)
      /\ UNCHANGED <<executor, stopped, blamed>>
  BY DEF ReportLecture
<1>2. /\ pc[j] \in Running
      /\ \A v \in Workers : worker[j][v] \in {"report", "announce"} => v = w
      /\ DonePercent(j, w) = Reached(j) /\ DonePercent(j, w) \in 0..100
      /\ runner' \in [Jobs -> Counts]
      /\ \A k \in Jobs \ {j} : runner'[k] = runner[k]
      /\ runner'[j].next = runner[j].next /\ runner'[j].total = runner[j].total
      /\ runner'[j].completed = runner[j].completed
      /\ runner'[j].outputs = runner[j].outputs /\ runner'[j].err = runner[j].err
      /\ \A v \in Workers : runner'[j].done[v] = IF v = w THEN 0 ELSE runner[j].done[v]
  BY <1>1, Reporter
<1>3. /\ JobInv(j) /\ TypeInv /\ Lectures[j] \in Nat \ {0}
  BY Facts
<1>4. /\ Active(j) /\ status'[j] = "running" /\ progress'[j] = DonePercent(j, w)
      /\ status' \in [Jobs -> {"none", "pending", "running"} \cup Terminal]
      /\ progress' \in [Jobs -> 0..100]
      /\ \A k \in Jobs \ {j} : status'[k] = status[k] /\ progress'[k] = progress[k]
      /\ UNCHANGED <<ctxDone, storeClosed, faults>>
      /\ sending' \in Messages /\ sending'.job = j /\ sending'.by = w
      /\ sending'.kinds = <<"progress">>
      /\ \A k \in Jobs : sending.job # k
      /\ \A k \in Jobs \ {j} : SameSender(k)
      /\ UNCHANGED feed
  BY <1>1, <1>2, Updating
<1>5. /\ worker' \in [Jobs -> [Workers -> WorkerPlaces]]
      /\ \A v \in Workers : worker'[j][v] = IF v = w THEN "announce" ELSE worker[j][v]
      /\ \A k \in Jobs \ {j} : worker'[k] = worker[k]
  BY <1>1, <1>3 DEF TypeInv, Place
<1>6. TypeInv'
  BY <1>1, <1>2, <1>3, <1>4, <1>5 DEF TypeInv
<1>7. \A k \in Jobs \ {j} : Kept(k)
  BY <1>1, <1>2, <1>4, <1>5 DEF Kept
<1>8. JobInv(j)'
  <2>1. StageInv(j)'
    BY <1>1, <1>2, <1>3, <1>4 DEF JobInv, StageInv, Active
  <2>2. WorkersInv(j)'
    <3>1. \A v \in Workers : worker'[j][v] = "announce" <=> v = w
      BY <1>2, <1>5
    <3>2. \A v \in Workers : worker'[j][v] # "report"
      BY <1>2, <1>5
    <3>3. pc' = pc /\ \A v \in Workers : worker'[j][v] # "off"
      BY <1>1, <1>2, <1>3, <1>5 DEF JobInv, WorkersInv
    <3>4. \A v \in Workers : v = w <=> sending'.job = j /\ sending'.by = v
      BY <1>4
    <3> QED BY <1>2, <3>1, <3>2, <3>3, <3>4 DEF WorkersInv
  <2>3. FeedInv(j)'
    <3>1. status[j] = "running" /\ feed[j] \in Begun
      BY <1>2, <1>3, <1>4 DEF JobInv, StageInv, FeedInv, Active
    <3> QED BY <1>4, <3>1 DEF FeedInv
  <2>4. ProgressInv(j)'
    <3>1. Reached(j)' = Reached(j)
      BY <1>1, <1>2 DEF Reached, Share
    <3>2. progress'[j] = Reached(j)' /\ Reached(j)' \in 0..100
      BY <1>2, <1>4, <3>1
    <3>3. \A v \in Workers : worker'[j][v] # "report"
      BY <1>2, <1>5
    <3>4. slide'[j] < Lectures[j]
      BY <1>1, <1>3 DEF JobInv, ProgressInv
    <3> QED BY <3>2, <3>3, <3>4 DEF ProgressInv
  <2>5. CountInv(j)'
    <3>1. Busy(j)' = Busy(j) /\ Downloading(j)' = Downloading(j)
      BY <1>1, <1>5 DEF Busy, Downloading
    <3> QED BY <1>1, <1>2, <1>3, <1>4, <3>1 DEF JobInv, CountInv, LocalErr
  <2>6. CauseInv(j)'
    BY <1>1, <1>2, <1>3, <1>4 DEF JobInv, CauseInv, Active
  <2> QED BY <2>1, <2>2, <2>3, <2>4, <2>5, <2>6 DEF JobInv
<1> QED BY <1>6, <1>7, <1>8, OneJob

(* The store refuses a worker's report only when the job is over or the    *)
(* store closed, so the worker stops the others for a reason.              *)
LEMMA ReportLectureRefusedStep ==
  ASSUME ExecutorIInv, NEW j \in Jobs, NEW w \in Workers, ReportLectureRefused(j, w)
  PROVE  ExecutorIInv'
<1>1. /\ worker[j][w] = "report" /\ Reported(j, w) /\ Place(j, w, "gone")
      /\ RefusesUpdate(j, DonePercent(j, w))
      /\ stopped' = stopped \cup {j}
      /\ UNCHANGED <<store, events, executor, blamed>>
  BY DEF ReportLectureRefused, UpdateRefused
<1>2. /\ pc[j] \in Running
      /\ \A v \in Workers : worker[j][v] \in {"report", "announce"} => v = w
      /\ DonePercent(j, w) \in 0..100
      /\ status[j] \notin Terminal => progress[j] <= DonePercent(j, w)
      /\ runner' \in [Jobs -> Counts]
      /\ \A k \in Jobs \ {j} : runner'[k] = runner[k]
      /\ runner'[j].next = runner[j].next /\ runner'[j].total = runner[j].total
      /\ runner'[j].completed = runner[j].completed
      /\ runner'[j].outputs = runner[j].outputs /\ runner'[j].err = runner[j].err
      /\ \A v \in Workers : runner'[j].done[v] = IF v = w THEN 0 ELSE runner[j].done[v]
  BY <1>1, Reporter
<1>3. /\ JobInv(j) /\ TypeInv /\ Lectures[j] \in Nat \ {0} /\ progress[j] \in Nat
  BY Facts
<1>4. storeClosed \/ ~Active(j)
  BY <1>1, <1>2, <1>3 DEF RefusesUpdate, Active
<1>5. /\ worker' \in [Jobs -> [Workers -> WorkerPlaces]]
      /\ \A v \in Workers : worker'[j][v] = IF v = w THEN "gone" ELSE worker[j][v]
      /\ \A k \in Jobs \ {j} : worker'[k] = worker[k]
  BY <1>1, <1>3 DEF TypeInv, Place
<1>6. TypeInv'
  BY <1>1, <1>2, <1>3, <1>5 DEF TypeInv
<1>7. \A k \in Jobs \ {j} : Kept(k)
  BY <1>1, <1>2, <1>5 DEF Kept, SameSender
<1>8. JobInv(j)'
  <2>1. StageInv(j)'
    BY <1>1, <1>3, StageKept DEF JobInv
  <2>2. WorkersInv(j)'
    <3>1. WorkersInv(j) /\ pc' = pc /\ sending' = sending
      BY <1>1, <1>3 DEF JobInv
    <3>2. \A v \in Workers :
            worker'[j][v] = "announce" <=> sending'.job = j /\ sending'.by = v
      BY <1>1, <1>5, <3>1 DEF WorkersInv
    <3>3. \A v \in Workers : worker'[j][v] \notin {"report", "announce"}
      BY <1>1, <1>2, <1>5
    <3>4. \A v \in Workers : worker'[j][v] # "off"
      BY <1>2, <1>5, <3>1 DEF WorkersInv
    <3> QED BY <1>2, <3>1, <3>2, <3>3, <3>4 DEF WorkersInv
  <2>3. FeedInv(j)'
    BY <1>1, <1>3, FeedKept DEF JobInv, SameSender
  <2>4. ProgressInv(j)'
    <3>1. Reached(j)' = Reached(j)
      BY <1>1, <1>2 DEF Reached, Share
    <3> QED BY <1>1, <1>2, <1>3, <1>5, <3>1 DEF JobInv, ProgressInv
  <2>5. CountInv(j)'
    <3>1. Busy(j)' = Busy(j) /\ Downloading(j)' = Downloading(j)
      BY <1>1, <1>5 DEF Busy, Downloading
    <3> QED BY <1>1, <1>2, <1>3, <3>1 DEF JobInv, CountInv, LocalErr
  <2>6. CauseInv(j)'
    BY <1>1, <1>2, <1>3, <1>4 DEF JobInv, StageInv, CauseInv, Active
  <2> QED BY <2>1, <2>2, <2>3, <2>4, <2>5, <2>6 DEF JobInv
<1> QED BY <1>6, <1>7, <1>8, OneJob
-------------------------------------------------------------------------------
(* The theorems.                                                           *)

(* Every step preserves the invariant.                                     *)
LEMMA NextExecutorIInv ==
  ASSUME ExecutorIInv, [Next]_vars
  PROVE  ExecutorIInv'
<1>1. CASE UNCHANGED vars
  <2>1. TypeInv'
    BY <1>1 DEF vars, ExecutorIInv, TypeInv
  <2>2. \A k \in Jobs : Kept(k)
    BY <1>1 DEF vars, Kept, SameSender
  <2> QED BY <2>1, <2>2, AllKept
<1>2. ASSUME NEW j \in Jobs, CreateJob(j) \/ DeleteJob(j) PROVE ExecutorIInv'
  BY <1>2, CreateJobStep, DeleteJobStep
<1>3. ASSUME NEW j \in Jobs, Executor(j) PROVE ExecutorIInv'
  <2>1. CASE AcquireSlot(j)
    BY <2>1, AcquireSlotStep
  <2>2. CASE Report(j)
    BY <2>2, ReportStep
  <2>3. CASE ReportRefused(j)
    BY <2>3, ReportRefusedStep
  <2>4. CASE CallReturns(j)
    BY <2>4, CallReturnsStep
  <2>14. CASE PlaylistsReturn(j)
    BY <2>14, PlaylistsReturnStep
  <2>5. CASE SlideReturns(j)
    BY <2>5, SlideReturnsStep
  <2>6. CASE CallFails(j) \/ CallRejects(j) \/ CallPanics(j)
    BY <2>6, CallEndsStep
  <2>7. CASE CancelIfNeeded(j)
    BY <2>7, CancelIfNeededStep
  <2>8. CASE CompleteJob(j)
    BY <2>8, FinishStep DEF CompleteJob
  <2>9. CASE FailJob(j)
    BY <2>9, FinishStep DEF FailJob
  <2>10. CASE Leave(j)
    BY <2>10, LeaveStep
  <2>11. CASE \E w \in Workers : Dispatch(j, w)
    BY <2>11, DispatchStep
  <2>12. CASE CloseTasks(j)
    BY <2>12, CloseTasksStep
  <2>13. CASE RunReturns(j)
    BY <2>13, RunReturnsStep
  <2> QED BY <1>3, <2>1, <2>2, <2>3, <2>4, <2>5, <2>6, <2>7, <2>8, <2>9, <2>10,
             <2>11, <2>12, <2>13, <2>14 DEF Executor
<1>4. ASSUME NEW j \in Jobs, NEW w \in Workers, Worker(j, w) PROVE ExecutorIInv'
  BY <1>4, NoMoreTasksStep, DownloadReturnsStep, DownloadLostStep, AdvanceStep,
     ReportLectureStep, ReportLectureRefusedStep DEF Worker
<1>5. CASE Broadcast \/ CloseStore
  BY <1>5, BroadcastStep, CloseStoreStep
<1> QED BY <1>1, <1>2, <1>3, <1>4, <1>5 DEF Next

(* In every reachable state the status of each job, its executor, its      *)
(* workers, its counters, the events sent of it and who holds jobEventMu   *)
(* fit together.                                                           *)
THEOREM ExecutorInvariance == Spec => []ExecutorIInv
<1>1. Init => ExecutorIInv
  BY InitExecutorIInv
<1>2. ExecutorIInv /\ [Next]_vars => ExecutorIInv'
  BY NextExecutorIInv
<1> QED BY <1>1, <1>2, PTL DEF Spec

(* The types of JobExecutor, its counters within the lectures of their     *)
(* job, the progress a percentage, and never more than Slots jobs at work. *)
THEOREM ExecutorTypeCorrect == Spec => []TypeOK
<1>1. ExecutorIInv => TypeOK
  <2> SUFFICES ASSUME ExecutorIInv PROVE TypeOK
    OBVIOUS
  <2>1. TypeInv
    BY DEF ExecutorIInv
  <2>2. ASSUME NEW j \in Jobs
        PROVE  /\ slide[j] \in 0..(Lectures[j] - 1)
               /\ runner[j] \in [total : 0..Lectures[j],
                                 next : 1..(Lectures[j] + 1), completed : 0..Lectures[j],
                                 outputs : 0..Lectures[j], err : BOOLEAN,
                                 done : [Workers -> 0..Lectures[j]]]
    <3>1. slide[j] \in 0..(Lectures[j] - 1)
      BY Facts DEF JobInv, ProgressInv
    <3>2. /\ runner[j] \in Counts
          /\ runner[j].total \in 0..Lectures[j]
          /\ runner[j].next \in 1..(Lectures[j] + 1)
          /\ runner[j].completed \in 0..Lectures[j]
          /\ runner[j].outputs \in 0..Lectures[j]
          /\ \A w \in Workers : runner[j].done[w] \in 0..Lectures[j]
      BY Facts DEF JobInv, CountInv
    <3>3. runner[j].done \in [Workers -> 0..Lectures[j]]
      BY <3>2 DEF Counts
    <3> QED BY <3>1, <3>2, <3>3 DEF Counts
  <2>3. \A j \in Jobs : \A n \in DOMAIN feed[j] : feed[j][n] \in Kinds
    BY <2>1 DEF TypeInv
  <2>4. sending.job \in Jobs \cup {Absent}
    BY <2>1 DEF TypeInv, Messages, Unlocked
  <2> QED BY <2>1, <2>2, <2>3, <2>4 DEF TypeInv, TypeOK
<1> QED BY <1>1, ExecutorInvariance, PTL

(* Whenever nobody is about to broadcast of a job, the events sent of it   *)
(* are the ones its status in the store calls for, in their order.         *)
THEOREM FeedHeld == Spec => []FeedTruthful
<1>1. ExecutorIInv => FeedTruthful
  BY DEF ExecutorIInv, JobInv, FeedInv, FeedTruthful, TypeInv
<1> QED BY <1>1, ExecutorInvariance, PTL

(* A job that completes has every lecture behind it that the service       *)
(* offered a playlist for, an output and no error.                         *)
THEOREM CompletionHeld == Spec => []CompletedIsComplete
<1>1. ExecutorIInv => CompletedIsComplete
  BY Facts DEF JobInv, StageInv, CauseInv, Complete, CompletedIsComplete
<1> QED BY <1>1, ExecutorInvariance, PTL

(* Only an outcome that could not be persisted, or a closed store, leaves  *)
(* a job active with nobody at work on it.                                 *)
THEOREM OrphansHeld == Spec => []OrphansExplained
<1>1. ExecutorIInv => OrphansExplained
  BY DEF ExecutorIInv, JobInv, CauseInv, OrphansExplained
<1> QED BY <1>1, ExecutorInvariance, PTL

(* A job fails for an error of its own, never because its workers took     *)
(* each other's progress for one.                                          *)
THEOREM FailuresHeld == Spec => []FailsForCause
<1>1. ExecutorIInv => FailsForCause
  BY DEF ExecutorIInv, JobInv, CauseInv, FailsForCause
<1> QED BY <1>1, ExecutorInvariance, PTL
-------------------------------------------------------------------------------
(* The executors and the requests use the store as JobRegistry allows.     *)

Seen(s) ==
  IF s = "none" THEN Absent
  ELSE [state |-> IF s \in Terminal THEN s ELSE "active", key |-> Absent]

(* A reader tells jobs that are not there from jobs that are, and active   *)
(* ones from ended ones.                                                   *)
LEMMA Reads ==
  /\ Reading = [j \in Jobs |-> Seen(status[j])]
  /\ \A s \in {"pending", "running"} \cup Terminal :
       /\ Seen(s) # Absent
       /\ Seen(s) \in Registry!RegistryEntries
       /\ Seen(s).state = IF s \in Terminal THEN s ELSE "active"
       /\ Seen(s).key = Absent
  /\ Seen("none") = Absent
<1>1. \A s \in {"pending", "running"} \cup Terminal :
        /\ Seen(s) \in [state : {"active"} \cup Terminal, key : {Absent}]
        /\ Seen(s).state = IF s \in Terminal THEN s ELSE "active"
        /\ Seen(s).key = Absent
  BY DEF Seen
<1>2. \A s \in {"pending", "running"} \cup Terminal : Seen(s) # Absent
  BY <1>1, RegistryAssumption
<1>3. \A s \in {"pending", "running"} \cup Terminal : Seen(s) \in Registry!RegistryEntries
  BY <1>1 DEF Registry!RegistryEntries, Registry!Outcomes
<1> QED BY <1>1, <1>2, <1>3 DEF Reading, Seen

(* What a step does to the store, as far as statuses go.                   *)
LEMMA StatusSteps ==
  ASSUME ExecutorIInv, [Next]_vars
  PROVE  \/ UNCHANGED status
         \/ \E j \in Jobs : Active(j) /\ status' = [status EXCEPT ![j] = "running"]
         \/ \E j \in Jobs : status[j] = "none" /\ status' = [status EXCEPT ![j] = "pending"]
         \/ \E j \in Jobs, o \in Terminal : Active(j) /\ status' = [status EXCEPT ![j] = o]
<1>1. CASE UNCHANGED vars
  BY <1>1 DEF vars
<1>2. ASSUME NEW j \in Jobs, CreateJob(j) \/ DeleteJob(j)
      PROVE  \/ status[j] = "none" /\ status' = [status EXCEPT ![j] = "pending"]
             \/ Active(j) /\ status' = [status EXCEPT ![j] = "canceled"]
  BY <1>2 DEF CreateJob, DeleteJob, Ends
<1>3. ASSUME NEW j \in Jobs, Executor(j)
      PROVE  \/ UNCHANGED status
             \/ Active(j) /\ status' = [status EXCEPT ![j] = "running"]
             \/ \E o \in Terminal : Active(j) /\ status' = [status EXCEPT ![j] = o]
  <2>1. CASE Report(j)
    BY <2>1 DEF Report, UpdateRunning, RefusesUpdate
  <2>2. CASE CompleteJob(j) \/ FailJob(j) \/ CancelIfNeeded(j)
    BY <2>2 DEF CompleteJob, FailJob, CancelIfNeeded, Finish, Ends, EndRefused
  <2>3. CASE ReportRefused(j)
    BY <2>3 DEF ReportRefused, UpdateRefused
  <2> QED BY <1>3, <2>1, <2>2, <2>3
          DEF Executor, AcquireSlot, CallReturns, PlaylistsReturn, SlideReturns, CallFails,
              CallRejects,
              CallPanics, Leave, Dispatch, CloseTasks, RunReturns
<1>4. ASSUME NEW j \in Jobs, NEW w \in Workers, Worker(j, w)
      PROVE  \/ UNCHANGED status
             \/ Active(j) /\ status' = [status EXCEPT ![j] = "running"]
  <2>1. CASE ReportLecture(j, w)
    BY <2>1 DEF ReportLecture, UpdateRunning, RefusesUpdate
  <2>2. CASE ReportLectureRefused(j, w)
    BY <2>2 DEF ReportLectureRefused, UpdateRefused
  <2> QED BY <1>4, <2>1, <2>2
          DEF Worker, NoMoreTasks, DownloadReturns, DownloadAborted, DownloadFails, Advance
<1>5. CASE Broadcast \/ CloseStore
  BY <1>5 DEF Broadcast, CloseStore
<1>6. "canceled" \in Terminal
  OBVIOUS
<1> QED BY <1>1, <1>2, <1>3, <1>4, <1>5, <1>6, Zenon DEF Next

(* The cardinality JobRegistry speaks of is the one of this module.        *)
LEMMA SameCardinality == \A S : Registry!Cardinality(S) = Cardinality(S)
  BY DEF Registry!Cardinality, Cardinality

(* A job that is created is created in the registry.                       *)
LEMMA CreatesAsRegistry ==
  ASSUME ExecutorIInv, NEW j \in Jobs, status[j] = "none",
         status' = [status EXCEPT ![j] = "pending"]
  PROVE  Registry!Next
<1>1. TypeInv
  BY DEF ExecutorIInv
<1>2. Reading[j] = Absent /\ Reading' = [Reading EXCEPT ![j] = Seen("pending")]
  <2>1. Reading' = [k \in Jobs |-> Seen(status'[k])]
    BY Reads, Zenon DEF Reading, Seen
  <2> QED BY <1>1, <2>1, Reads DEF TypeInv
<1>3. Seen("pending") = [state |-> "active", key |-> Absent]
  BY DEF Seen
<1>4. Registry!Create(j, Absent)
  BY <1>2, <1>3 DEF Registry!Create, Registry!Known
<1> QED BY <1>4 DEF Registry!Next

(* A job that ends, ends in the registry, and nothing is forgotten.        *)
LEMMA EndsAsRegistry ==
  ASSUME ExecutorIInv, NEW j \in Jobs, NEW o \in Terminal, Active(j),
         status' = [status EXCEPT ![j] = o]
  PROVE  Registry!Next
<1>1. TypeInv /\ status[j] \in {"pending", "running"}
  BY DEF ExecutorIInv, Active
<1>2. /\ Reading[j] = Seen(status[j]) /\ Reading[j] # Absent /\ Reading[j].state = "active"
      /\ Reading[j].key = Absent
  BY <1>1, Reads DEF TypeInv
<1>3. Reading' = [k \in Jobs |-> Seen(status'[k])]
  BY Reads, Zenon DEF Reading, Seen
<1>4. Reading' \in [Jobs -> Registry!RegistryEntries \cup {Absent}]
  <2>1. \A k \in Jobs : status'[k] \in {"none", "pending", "running"} \cup Terminal
    BY <1>1 DEF TypeInv
  <2>2. \A k \in Jobs : Seen(status'[k]) \in Registry!RegistryEntries \cup {Absent}
    BY <2>1, Reads
  <2> QED BY <1>3, <2>2
<1>5. Reading' = [Reading EXCEPT ![j].state = o]
  <2>1. Seen(o) = [Seen(status[j]) EXCEPT !.state = o]
    BY <1>1 DEF Seen
  <2>2. Reading' = [Reading EXCEPT ![j] = Seen(o)]
    BY <1>1, <1>3, Reads DEF TypeInv
  <2> QED BY <1>2, <2>1, <2>2
<1>6. j \in Registry!Known(Reading) /\ j \in Registry!Known(Reading')
  <2>1. Reading'[j] = Seen(o)
    BY <1>1, <1>3 DEF TypeInv
  <2> QED BY <1>2, <2>1, Reads DEF Registry!Known
<1>7. Registry!Forgets([Reading EXCEPT ![j].state = o], Reading')
  <2>1. Registry!Known(Reading') \ Registry!Known(Reading') = {}
    OBVIOUS
  <2>2. Cardinality(Registry!Ended(Reading')) <= Cardinality(Jobs)
    <3>1. Registry!Ended(Reading') \subseteq Jobs
      BY DEF Registry!Ended, Registry!Known
    <3> QED BY <3>1, ExecutorAssumption, FS_Subset
  <2> QED BY <1>5, <2>1, <2>2, SameCardinality DEF Registry!Forgets
<1>8. Registry!Finish(j, o)
  BY <1>2, <1>4, <1>6, <1>7 DEF Registry!Finish
<1> QED BY <1>8 DEF Registry!Next, Registry!Outcomes

(* Every step is one of the registry or leaves it as it is.                *)
LEMMA NextAsRegistry ==
  ASSUME ExecutorIInv, [Next]_vars
  PROVE  [Registry!Next]_Reading
<1>1. TypeInv
  BY DEF ExecutorIInv
<1>2. CASE UNCHANGED status
  BY <1>2 DEF Reading
<1>3. ASSUME NEW j \in Jobs, Active(j), status' = [status EXCEPT ![j] = "running"]
      PROVE  UNCHANGED Reading
  <2>1. Seen("running") = Seen(status[j])
    BY <1>3 DEF Seen, Active
  <2>2. \A k \in Jobs : Seen(status'[k]) = Seen(status[k])
    BY <1>1, <1>3, <2>1 DEF TypeInv
  <2>3. Reading' = [k \in Jobs |-> Seen(status'[k])]
    BY Reads, Zenon DEF Reading, Seen
  <2> QED BY <2>2, <2>3, Reads
<1> QED BY <1>2, <1>3, StatusSteps, CreatesAsRegistry, EndsAsRegistry

(* Readers of the store see a JobRegistry: whatever executors, their       *)
(* workers and requests race for, a job is created once and ends once.     *)
THEOREM ExecutorKeepsRegistry == Spec => KeepsRegistry
<1>1. Init => Registry!Init
  <2> SUFFICES ASSUME Init PROVE Registry!Init
    OBVIOUS
  <2>1. \A j \in Jobs : Seen(status[j]) = Absent
    BY Reads DEF Init
  <2> QED BY <2>1, Reads DEF Registry!Init
<1>2. ExecutorIInv /\ [Next]_vars => [Registry!Next]_Reading
  BY NextAsRegistry
<1> QED BY <1>1, <1>2, ExecutorInvariance, PTL DEF Spec, KeepsRegistry, Registry!Spec
===============================================================================
