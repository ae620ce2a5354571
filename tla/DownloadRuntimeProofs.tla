----------------------- MODULE DownloadRuntimeProofs -----------------------
(***************************************************************************)
(* Proofs about downloading.  Each part has its inductive invariant, kept  *)
(* by its own steps and, as they touch none of its variables, by those of  *)
(* the others; DownloadSafe follows from the five of them:                 *)
(*   DpIInv  a chunk is in one place, with the memory it was given,        *)
(*   LdIInv  an output is planned, to do or made, and has one writer,      *)
(*   PtIInv  what is reported is counted, and the last report is 100,      *)
(*   AlIInv  a digest is of the file that is recorded,                     *)
(*   CdIInv  a decision stands as long as its lock is held.                *)
(***************************************************************************)
EXTENDS DownloadRuntime, FiniteSetTheorems, SequenceTheorems, WellFoundedInduction, TLAPS

---------------------------------------------------------------------------
(* The pipeline of one lecture. *)

Errs == {"none", "failed", "canceled"}
FullPart == [chunk : Chunks, bytes : Nat, err : Errs]
BusyAt == {"fetching", "pausing", "acquiring", "enrolling", "waiting", "sending"}
WorkerRecords == [at : BusyAt \union {"idle", "gone"}, try : Nat, part : FullPart \union {NoPart}]
DecrypterRecords == [at : {"idle", "decrypting", "sending", "gone"}, part : FullPart \union {NoPart}]

DpTypes ==
  /\ canceled \in BOOLEAN /\ broadcast \in BOOLEAN
  /\ submitter \in {"submitting", "refused", "submitted", "gaveUp", "finished"}
  /\ offered \in 0..(FirstChunks + SecondChunks)
  /\ submitter = "submitting" => offered < FirstChunks + SecondChunks
  /\ submitter \in {"submitted", "finished"} => offered = FirstChunks + SecondChunks
  /\ queue \in Seq(Chunks) /\ downloaded \in Seq(FullPart) /\ decrypted \in Seq(FullPart)
  /\ downloadsOver \in BOOLEAN /\ decryptsOver \in BOOLEAN /\ inFlight \in Nat
  /\ collected \in [Chunks -> {"none", "ok", "failed", "canceled"}]
  /\ key \in {"held", "zeroed"}

WorkerFits(r) ==
  /\ r.at = "idle" => r.part = NoPart
  /\ r.at \in BusyAt => r.part \in FullPart
  /\ r.at \in {"acquiring", "enrolling", "waiting"} => r.part.err = "none"

(* Each worker has the part that fits where it is; who is in the wait queue waits, once. *)
CrewFits(f) == f \in [Crew -> WorkerRecords] /\ \A w \in Crew : WorkerFits(f[w])
DpWaiting ==
  /\ waiting \in Seq(Crew)
  /\ \A i \in 1..Len(waiting) : worker[waiting[i]].at = "waiting"
  /\ \A i, j \in 1..Len(waiting) : waiting[i] = waiting[j] => i = j

DecrypterFits(r) ==
  /\ r.at = "idle" => r.part = NoPart
  /\ r.at \in {"decrypting", "sending"} => r.part \in FullPart
  /\ r.at = "decrypting" => r.part.err = "none"
DpDecrypters == decrypter \in [Decrypters -> DecrypterRecords] /\ \A x \in Decrypters : DecrypterFits(decrypter[x])

InQueue == {queue[i] : i \in 1..Len(queue)}
ChunksOf(s) == {s[i].chunk : i \in 1..Len(s)}
AtWorkers == {worker[w].part.chunk : w \in {w \in Crew : worker[w].at \in BusyAt}}
AtDecrypters == {decrypter[x].part.chunk : x \in {x \in Decrypters : decrypter[x].at \in {"decrypting", "sending"}}}
WithResult == {c \in Chunks : collected[c] # "none"}

QueueOnce == \A i, j \in 1..Len(queue) : queue[i] = queue[j] => i = j
PartsOnce(s) == \A i, j \in 1..Len(s) : s[i].chunk = s[j].chunk => i = j
WorkersOnce == \A v, w \in Crew : worker[v].at \in BusyAt /\ worker[w].at \in BusyAt
                                  /\ worker[v].part.chunk = worker[w].part.chunk => v = w
DecryptersOnce ==
  \A x, y \in Decrypters : decrypter[x].at \in {"decrypting", "sending"} /\ decrypter[y].at \in {"decrypting", "sending"}
                           /\ decrypter[x].part.chunk = decrypter[y].part.chunk => x = y
DpOnce == QueueOnce /\ PartsOnce(downloaded) /\ PartsOnce(decrypted) /\ WorkersOnce /\ DecryptersOnce

Apart(q, w, d, x, e, k) ==
  \A c : /\ c \in q => c \notin w /\ c \notin d /\ c \notin x /\ c \notin e /\ c \notin k
         /\ c \in w => c \notin d /\ c \notin x /\ c \notin e /\ c \notin k
         /\ c \in d => c \notin x /\ c \notin e /\ c \notin k
         /\ c \in x => c \notin e /\ c \notin k
         /\ c \in e => c \notin k
All(q, w, d, x, e, k) == q \union w \union d \union x \union e \union k
DpPlaced ==
  /\ Apart(InQueue, AtWorkers, ChunksOf(downloaded), AtDecrypters, ChunksOf(decrypted), WithResult)
  /\ All(InQueue, AtWorkers, ChunksOf(downloaded), AtDecrypters, ChunksOf(decrypted), WithResult) \subseteq 1..offered
  /\ ~canceled => 1..offered \subseteq All(InQueue, AtWorkers, ChunksOf(downloaded), AtDecrypters, ChunksOf(decrypted), WithResult)

HeldBytes == UNION {BytesOf(p) : p \in Holding}
DpBudget == IsFiniteSet(HeldBytes) /\ BudgetKept

DpEnds ==
  /\ downloadsOver => AllGone
  /\ decryptsOver => downloadsOver /\ DecryptersGone
  /\ key = "zeroed" => decryptsOver /\ decrypted = <<>>
  /\ returned # "none" => key = "zeroed" /\ QueueClosed /\ returned = Outcome

DpUncanceled ==
  ~canceled =>
    /\ submitter \in {"submitting", "submitted", "finished"}
    /\ \A w \in Crew : worker[w].at = "gone" => QueueClosed /\ queue = <<>>
    /\ \A x \in Decrypters : decrypter[x].at = "gone" => downloadsOver /\ downloaded = <<>>
    /\ \A w \in Crew : worker[w].part.err # "canceled"
    /\ \A i \in 1..Len(downloaded) : downloaded[i].err # "canceled"
    /\ \A x \in Decrypters : decrypter[x].part.err # "canceled"
    /\ \A i \in 1..Len(decrypted) : decrypted[i].err # "canceled"
    /\ \A c \in Chunks : collected[c] # "canceled"

DpIInv ==
  /\ DpTypes /\ CrewFits(worker) /\ DpWaiting /\ DpDecrypters
  /\ DpOnce /\ DpPlaced /\ DpBudget /\ DpEnds /\ DpUncanceled

---------------------------------------------------------------------------

(* The lecture has the chunks of its first and of its second view. *)
LEMMA ChunksCounted == Cardinality(Chunks) = FirstChunks + SecondChunks
  BY FS_Interval, PipelineAssumption DEF Chunks

(* The first of a sequence leaves it. *)
LEMMA FirstLeaves ==
  ASSUME NEW S, NEW s \in Seq(S), s # <<>>
  PROVE  /\ Head(s) \in S /\ Head(s) = s[1] /\ Tail(s) \in Seq(S) /\ Len(s) \in Nat \ {0}
         /\ Len(Tail(s)) = Len(s) - 1 /\ \A i \in 1..Len(Tail(s)) : Tail(s)[i] = s[i + 1] /\ s[i + 1] \in S
         /\ \A i \in 1..Len(s) : s[i] \in S
<1>1. Len(s) \in Nat \ {0}
  OBVIOUS
<1> QED
  BY <1>1

(* The chunks of a channel whose first part is taken. *)
LEMMA PartTaken ==
  ASSUME NEW s \in Seq(FullPart), s # <<>>, PartsOnce(s)
  PROVE  /\ ChunksOf(Tail(s)) = ChunksOf(s) \ {Head(s).chunk} /\ Head(s).chunk \in ChunksOf(s) /\ PartsOnce(Tail(s))
<1>1. /\ Head(s) = s[1] /\ Len(s) \in Nat \ {0} /\ Len(Tail(s)) = Len(s) - 1
      /\ \A i \in 1..Len(Tail(s)) : Tail(s)[i] = s[i + 1]
  BY FirstLeaves
<1>2. \A i \in 1..Len(Tail(s)) : i + 1 \in 1..Len(s) /\ i + 1 # 1
  BY <1>1
<1>3. ChunksOf(Tail(s)) \subseteq ChunksOf(s) \ {Head(s).chunk}
  <2> SUFFICES ASSUME NEW i \in 1..Len(Tail(s)) PROVE Tail(s)[i].chunk \in ChunksOf(s) \ {Head(s).chunk}
    BY DEF ChunksOf
  <2> QED
    BY <1>1, <1>2 DEF ChunksOf, PartsOnce
<1>4. ASSUME NEW i \in 1..Len(s), s[i].chunk # Head(s).chunk PROVE s[i].chunk \in ChunksOf(Tail(s))
  <2>1. i - 1 \in 1..Len(Tail(s)) /\ (i - 1) + 1 = i
    BY <1>1, <1>4
  <2>2. Tail(s)[i - 1] = s[i]
    BY <1>1, <2>1
  <2> QED
    BY <2>1, <2>2 DEF ChunksOf
<1>5. ASSUME NEW i \in 1..Len(Tail(s)), NEW j \in 1..Len(Tail(s)), Tail(s)[i].chunk = Tail(s)[j].chunk PROVE i = j
  <2>1. i + 1 \in 1..Len(s) /\ j + 1 \in 1..Len(s) /\ s[i + 1].chunk = s[j + 1].chunk
    BY <1>1, <1>2, <1>5
  <2>2. i + 1 = j + 1
    BY <2>1 DEF PartsOnce
  <2> QED
    BY <2>2, <1>1
<1>6. Head(s).chunk \in ChunksOf(s)
  BY <1>1 DEF ChunksOf
<1>7. ChunksOf(s) \ {Head(s).chunk} \subseteq ChunksOf(Tail(s))
  <2> SUFFICES ASSUME NEW c \in ChunksOf(s), c # Head(s).chunk PROVE c \in ChunksOf(Tail(s))
    OBVIOUS
  <2>1. PICK i \in 1..Len(s) : c = s[i].chunk
    BY DEF ChunksOf
  <2> QED
    BY <1>4, <2>1
<1>8. PartsOnce(Tail(s))
  BY <1>5 DEF PartsOnce
<1> QED
  BY <1>3, <1>6, <1>7, <1>8

(* The chunks of a channel with one more part. *)
LEMMA PartSent ==
  ASSUME NEW s \in Seq(FullPart), NEW p \in FullPart, PartsOnce(s), p.chunk \notin ChunksOf(s)
  PROVE  /\ Append(s, p) \in Seq(FullPart) /\ ChunksOf(Append(s, p)) = ChunksOf(s) \union {p.chunk} /\ PartsOnce(Append(s, p))
         /\ Len(Append(s, p)) = Len(s) + 1
         /\ \A i \in 1..(Len(s) + 1) : Append(s, p)[i] = IF i = Len(s) + 1 THEN p ELSE s[i]
<1> DEFINE t == Append(s, p)
<1>1. /\ t \in Seq(FullPart) /\ Len(t) = Len(s) + 1 /\ Len(s) \in Nat
      /\ \A i \in 1..Len(s) : t[i] = s[i]
      /\ t[Len(s) + 1] = p
  OBVIOUS
<1> HIDE DEF t
<1>2. \A i \in 1..Len(t) : t[i] = IF i = Len(s) + 1 THEN p ELSE s[i]
  BY <1>1
<1>3. \A i \in 1..Len(t) : i = Len(s) + 1 \/ i \in 1..Len(s)
  BY <1>1
<1>4. ChunksOf(t) \subseteq ChunksOf(s) \union {p.chunk}
  BY <1>2, <1>3 DEF ChunksOf
<1>5. ChunksOf(s) \union {p.chunk} \subseteq ChunksOf(t)
  <2>1. \A i \in 1..Len(s) : i \in 1..Len(t)
    BY <1>1
  <2>2. Len(s) + 1 \in 1..Len(t)
    BY <1>1
  <2> QED
    BY <1>1, <2>1, <2>2 DEF ChunksOf
<1>6. PartsOnce(t)
  BY <1>1, <1>2, <1>3 DEF PartsOnce, ChunksOf
<1> QED
  BY <1>1, <1>2, <1>4, <1>5, <1>6 DEF t

(* The queue, as the first chunk is taken, *)
LEMMA QueueTaken ==
  ASSUME queue \in Seq(Chunks), queue # <<>>, QueueOnce, queue' = Tail(queue)
  PROVE  InQueue' = InQueue \ {Head(queue)} /\ Head(queue) \in InQueue /\ QueueOnce' /\ queue' \in Seq(Chunks) /\ Head(queue) \in Chunks
<1>1. /\ Head(queue) = queue[1] /\ Len(queue) \in Nat \ {0} /\ Len(queue') = Len(queue) - 1
      /\ \A i \in 1..Len(queue') : queue'[i] = queue[i + 1]
      /\ queue' \in Seq(Chunks) /\ Head(queue) \in Chunks
  BY FirstLeaves
<1>2. \A i \in 1..Len(queue') : i + 1 \in 1..Len(queue) /\ i + 1 # 1
  BY <1>1
<1>3. ASSUME NEW i \in 1..Len(queue') PROVE queue'[i] \in InQueue \ {Head(queue)}
  BY <1>1, <1>2 DEF InQueue, QueueOnce
<1>4. ASSUME NEW i \in 1..Len(queue), queue[i] # Head(queue) PROVE queue[i] \in InQueue'
  <2>1. i - 1 \in 1..Len(queue') /\ (i - 1) + 1 = i
    BY <1>1, <1>4
  <2>2. queue'[i - 1] = queue[i]
    BY <1>1, <2>1
  <2> QED
    BY <2>1, <2>2 DEF InQueue
<1>5. ASSUME NEW i \in 1..Len(queue'), NEW j \in 1..Len(queue'), queue'[i] = queue'[j] PROVE i = j
  <2>1. i + 1 \in 1..Len(queue) /\ j + 1 \in 1..Len(queue) /\ queue[i + 1] = queue[j + 1]
    BY <1>1, <1>2, <1>5
  <2>2. i + 1 = j + 1
    BY <2>1 DEF QueueOnce
  <2> QED
    BY <2>2, <1>1
<1>6. Head(queue) \in InQueue
  BY <1>1 DEF InQueue
<1>7. InQueue \ {Head(queue)} \subseteq InQueue'
  <2> SUFFICES ASSUME NEW c \in InQueue, c # Head(queue) PROVE c \in InQueue'
    OBVIOUS
  <2>1. PICK i \in 1..Len(queue) : c = queue[i]
    BY DEF InQueue
  <2> QED
    BY <1>4, <2>1
<1>8. InQueue' \subseteq InQueue \ {Head(queue)}
  BY <1>3 DEF InQueue
<1>9. QueueOnce'
  BY <1>5 DEF QueueOnce
<1> QED
  BY <1>1, <1>6, <1>7, <1>8, <1>9

(* and as a chunk is submitted. *)
LEMMA QueueSubmitted ==
  ASSUME queue \in Seq(Chunks), QueueOnce, NEW c \in Chunks, c \notin InQueue, queue' = Append(queue, c)
  PROVE  InQueue' = InQueue \union {c} /\ QueueOnce' /\ queue' \in Seq(Chunks)
<1>1. /\ queue' \in Seq(Chunks) /\ Len(queue') = Len(queue) + 1 /\ Len(queue) \in Nat
      /\ \A i \in 1..Len(queue) : queue'[i] = queue[i]
      /\ queue'[Len(queue) + 1] = c
  OBVIOUS
<1>2. \A i \in 1..Len(queue') : queue'[i] = IF i = Len(queue) + 1 THEN c ELSE queue[i]
  BY <1>1
<1>3. \A i \in 1..Len(queue') : i = Len(queue) + 1 \/ i \in 1..Len(queue)
  BY <1>1
<1>4. InQueue' \subseteq InQueue \union {c}
  BY <1>2, <1>3 DEF InQueue
<1>5. InQueue \union {c} \subseteq InQueue'
  <2>1. \A i \in 1..Len(queue) : i \in 1..Len(queue')
    BY <1>1
  <2>2. Len(queue) + 1 \in 1..Len(queue')
    BY <1>1
  <2> QED
    BY <1>1, <2>1, <2>2 DEF InQueue
<1>6. QueueOnce'
  BY <1>1, <1>2, <1>3 DEF QueueOnce, InQueue
<1> QED
  BY <1>1, <1>4, <1>5, <1>6

(* What a step does to the workers but w: at most it wakes one that waits. *)
OthersRest(w) ==
  \A v \in Crew \ {w} : /\ worker'[v].part = worker[v].part
                        /\ worker'[v].at = worker[v].at \/ (worker[v].at = "waiting" /\ worker'[v].at = "acquiring")

(* A worker that goes on with its chunk, lays it down, or takes one. *)
LEMMA WorkerPlaces ==
  ASSUME NEW w \in Crew, OthersRest(w), WorkersOnce
  PROVE  /\ worker[w].at \in BusyAt /\ worker'[w].at \in BusyAt /\ worker'[w].part.chunk = worker[w].part.chunk
              => AtWorkers' = AtWorkers /\ WorkersOnce'
         /\ worker[w].at \in BusyAt /\ worker'[w].at \notin BusyAt
              => /\ AtWorkers' = AtWorkers \ {worker[w].part.chunk} /\ worker[w].part.chunk \in AtWorkers /\ WorkersOnce'
         /\ worker[w].at \notin BusyAt /\ worker'[w].at \notin BusyAt => AtWorkers' = AtWorkers /\ WorkersOnce'
         /\ worker[w].at \notin BusyAt /\ worker'[w].at \in BusyAt /\ worker'[w].part.chunk \notin AtWorkers
              => AtWorkers' = AtWorkers \union {worker'[w].part.chunk} /\ WorkersOnce'
<1>1. \A v \in Crew \ {w} : (worker'[v].at \in BusyAt <=> worker[v].at \in BusyAt) /\ worker'[v].part = worker[v].part
  BY DEF OthersRest, BusyAt
<1> DEFINE Others == {worker[v].part.chunk : v \in {v \in Crew \ {w} : worker[v].at \in BusyAt}}
<1>2. AtWorkers = Others \union (IF worker[w].at \in BusyAt THEN {worker[w].part.chunk} ELSE {})
  BY DEF AtWorkers
<1>3. AtWorkers' = Others \union (IF worker'[w].at \in BusyAt THEN {worker'[w].part.chunk} ELSE {})
  BY <1>1 DEF AtWorkers
<1>4. worker[w].at \in BusyAt => worker[w].part.chunk \notin Others
  BY DEF WorkersOnce
<1>5. (worker'[w].at \in BusyAt => worker'[w].part.chunk \notin Others) => WorkersOnce'
  BY <1>1 DEF WorkersOnce
<1> HIDE DEF Others
<1> QED
  BY <1>2, <1>3, <1>4, <1>5

(* A decrypt worker that goes on with its chunk, lays it down, or takes one. *)
LEMMA DecrypterPlaces ==
  ASSUME NEW x \in Decrypters, NEW r, decrypter \in [Decrypters -> DecrypterRecords],
         decrypter' = [decrypter EXCEPT ![x] = r], DecryptersOnce
  PROVE  LET going == decrypter[x].at \in {"decrypting", "sending"}
             goes == r.at \in {"decrypting", "sending"}
         IN  /\ going /\ goes /\ r.part.chunk = decrypter[x].part.chunk => AtDecrypters' = AtDecrypters /\ DecryptersOnce'
             /\ going /\ ~goes => /\ AtDecrypters' = AtDecrypters \ {decrypter[x].part.chunk}
                                  /\ decrypter[x].part.chunk \in AtDecrypters /\ DecryptersOnce'
             /\ ~going /\ ~goes => AtDecrypters' = AtDecrypters /\ DecryptersOnce'
             /\ ~going /\ goes /\ r.part.chunk \notin AtDecrypters
                  => AtDecrypters' = AtDecrypters \union {r.part.chunk} /\ DecryptersOnce'
<1> DEFINE Busy == {"decrypting", "sending"}
           Others == {decrypter[y].part.chunk : y \in {y \in Decrypters \ {x} : decrypter[y].at \in Busy}}
<1>1. decrypter'[x] = r /\ \A y \in Decrypters \ {x} : decrypter'[y] = decrypter[y]
  OBVIOUS
<1>2. AtDecrypters = Others \union (IF decrypter[x].at \in Busy THEN {decrypter[x].part.chunk} ELSE {})
  BY DEF AtDecrypters
<1>3. AtDecrypters' = Others \union (IF r.at \in Busy THEN {r.part.chunk} ELSE {})
  BY <1>1 DEF AtDecrypters
<1>4. decrypter[x].at \in Busy => decrypter[x].part.chunk \notin Others
  BY DEF DecryptersOnce
<1>5. (r.at \in Busy => r.part.chunk \notin Others) => DecryptersOnce'
  BY <1>1 DEF DecryptersOnce
<1> HIDE DEF Others
<1> QED
  BY <1>2, <1>3, <1>4, <1>5

(* The bytes of a part, and those of the others. *)
LEMMA BytesCounted ==
  ASSUME NEW p, p.bytes \in Nat
  PROVE  IsFiniteSet(BytesOf(p)) /\ Cardinality(BytesOf(p)) = p.bytes
<1>1. IsFiniteSet({p}) /\ Cardinality({p}) = 1
  BY FS_Singleton
<1>2. IsFiniteSet(1..p.bytes) /\ Cardinality(1..p.bytes) = p.bytes
  BY FS_Interval
<1>3. IsFiniteSet({p} \X (1..p.bytes)) /\ Cardinality({p} \X (1..p.bytes)) = 1 * p.bytes
  BY <1>1, <1>2, FS_Product
<1> QED
  BY <1>3 DEF BytesOf

(* The bytes of a chunk are none of those of other chunks. *)
LEMMA BytesApart ==
  ASSUME NEW H, NEW p, p \notin H
  PROVE  BytesOf(p) \cap UNION {BytesOf(q) : q \in H} = {}
BY DEF BytesOf

(* Memory is acquired by a part that did not hold any. *)
LEMMA BudgetAcquired ==
  ASSUME DpBudget, inFlight \in Nat, NEW p, p.bytes \in Nat, p \notin Holding, Holding' = Holding \union {p}, ~MustWait(p.bytes),
         inFlight' = inFlight + p.bytes
  PROVE  DpBudget' /\ inFlight' \in Nat
<1>1. HeldBytes' = HeldBytes \union BytesOf(p) /\ HeldBytes \cap BytesOf(p) = {}
  BY BytesApart DEF HeldBytes
<1>2. IsFiniteSet(BytesOf(p)) /\ Cardinality(BytesOf(p)) = p.bytes
  BY BytesCounted
<1>3. /\ IsFiniteSet(HeldBytes \union BytesOf(p))
      /\ Cardinality(HeldBytes \union BytesOf(p)) = Cardinality(HeldBytes) + Cardinality(BytesOf(p)) - Cardinality(HeldBytes \cap BytesOf(p))
  BY <1>2, FS_Union DEF DpBudget
<1>4. Cardinality(HeldBytes \cap BytesOf(p)) = 0
  BY <1>1, FS_EmptySet
<1>5. inFlight = Cardinality(HeldBytes)
  BY DEF DpBudget, BudgetKept, HeldBytes
<1>6. IsFiniteSet(HeldBytes') /\ inFlight' = Cardinality(HeldBytes')
  BY <1>1, <1>2, <1>3, <1>4, <1>5
<1>7. inFlight' <= Budget \/ p.bytes = inFlight'
  BY PipelineAssumption DEF MustWait
<1>8. p \in Holding' /\ inFlight' \in Nat
  OBVIOUS
<1> QED
  BY <1>6, <1>7, <1>8 DEF DpBudget, BudgetKept, HeldBytes

(* Memory is released by one of the parts that held it. *)
LEMMA BudgetReleased ==
  ASSUME DpBudget, inFlight \in Nat, NEW p \in Holding, \A q \in Holding : q.bytes \in Nat, Holding' = Holding \ {p},
         inFlight' = inFlight - p.bytes
  PROVE  DpBudget' /\ inFlight' \in Nat
<1>1. HeldBytes = HeldBytes' \union BytesOf(p) /\ HeldBytes' \cap BytesOf(p) = {}
  <2>1. p \notin Holding \ {p}
    OBVIOUS
  <2>2. BytesOf(p) \cap HeldBytes' = {}
    BY <2>1, BytesApart DEF HeldBytes
  <2> QED
    BY <2>2 DEF HeldBytes
<1>2. IsFiniteSet(BytesOf(p)) /\ Cardinality(BytesOf(p)) = p.bytes
  BY BytesCounted
<1>3. IsFiniteSet(HeldBytes')
  BY <1>1, FS_Subset DEF DpBudget
<1>4. /\ Cardinality(HeldBytes' \union BytesOf(p)) = Cardinality(HeldBytes') + Cardinality(BytesOf(p)) - Cardinality(HeldBytes' \cap BytesOf(p))
      /\ Cardinality(HeldBytes' \cap BytesOf(p)) = 0 /\ Cardinality(HeldBytes') \in Nat
  BY <1>1, <1>2, <1>3, FS_Union, FS_EmptySet, FS_CardinalityType
<1>5. inFlight = Cardinality(HeldBytes)
  BY DEF DpBudget, BudgetKept, HeldBytes
<1>6. inFlight' = Cardinality(HeldBytes') /\ inFlight' \in Nat
  BY <1>1, <1>2, <1>4, <1>5
<1>7. inFlight' <= Budget \/ \E q \in Holding' : q.bytes = inFlight'
  <2>1. CASE inFlight <= Budget
    BY <1>2, <1>6, <2>1, PipelineAssumption
  <2>2. ASSUME NEW q \in Holding, q.bytes = inFlight PROVE inFlight' <= Budget \/ \E r \in Holding' : r.bytes = inFlight'
    <3>1. CASE q = p
      BY <1>6, <2>2, <3>1, PipelineAssumption
    <3>2. CASE q # p
      <4>1. q \in Holding' /\ BytesOf(q) \subseteq HeldBytes'
        BY <2>2, <3>2 DEF HeldBytes
      <4>2. Cardinality(BytesOf(q)) = q.bytes /\ Cardinality(BytesOf(q)) <= Cardinality(HeldBytes')
        BY <1>3, <4>1, <2>2, BytesCounted, FS_Subset
      <4>3. inFlight' >= inFlight
        BY <1>6, <2>2, <4>2
      <4>4. inFlight' = inFlight
        BY <1>6, <4>3
      <4> QED
        BY <2>2, <4>1, <4>4
    <3> QED
      BY <3>1, <3>2
  <2> QED
    BY <2>1, <2>2 DEF DpBudget, BudgetKept
<1> QED
  BY <1>3, <1>6, <1>7 DEF DpBudget, BudgetKept, HeldBytes

(* Nobody takes or gives back memory. *)
LEMMA BudgetRests ==
  ASSUME DpBudget, Holding' = Holding, inFlight' = inFlight
  PROVE  DpBudget'
BY DEF DpBudget, BudgetKept, HeldBytes

(* What holds memory. *)
LEMMA HoldingMeans ==
  \A p : p \in Holding <=> \/ \E w \in Crew : worker[w].at = "sending" /\ worker[w].part.err = "none" /\ p = worker[w].part
                           \/ \E i \in 1..Len(downloaded) : downloaded[i].err = "none" /\ p = downloaded[i]
                           \/ \E x \in Decrypters : decrypter[x].at = "decrypting" /\ p = decrypter[x].part
BY DEF Holding

(* What holds memory after a step. *)
LEMMA HoldingMeansNext ==
  \A p : p \in Holding' <=> \/ \E w \in Crew : worker'[w].at = "sending" /\ worker'[w].part.err = "none" /\ p = worker'[w].part
                            \/ \E i \in 1..Len(downloaded') : downloaded'[i].err = "none" /\ p = downloaded'[i]
                            \/ \E x \in Decrypters : decrypter'[x].at = "decrypting" /\ p = decrypter'[x].part
BY DEF Holding

(* A Signal: the first in the wait queue checks again, everyone else is as in f. *)
LEMMA Released ==
  ASSUME CrewFits(worker), DpWaiting, NEW f, CrewFits(f), \A i \in 1..Len(waiting) : f[waiting[i]] = worker[waiting[i]],
         NEW bytes, ReleaseMemory(bytes, f)
  PROVE  /\ CrewFits(worker') /\ DpWaiting' /\ inFlight' = inFlight - bytes
         /\ \A v \in Crew : /\ worker'[v].part = f[v].part
                            /\ worker'[v].at = f[v].at \/ (f[v].at = "waiting" /\ worker[v].at = "waiting" /\ worker'[v].at = "acquiring")
<1>1. CASE waiting = <<>>
  BY <1>1 DEF ReleaseMemory, DpWaiting
<1>2. CASE waiting # <<>>
  <2> DEFINE h == Head(waiting)
  <2>1. /\ h \in Crew /\ h = waiting[1] /\ Tail(waiting) \in Seq(Crew) /\ Len(waiting) \in Nat \ {0}
        /\ Len(Tail(waiting)) = Len(waiting) - 1 /\ \A i \in 1..Len(Tail(waiting)) : Tail(waiting)[i] = waiting[i + 1]
    BY <1>2, FirstLeaves DEF DpWaiting
  <2>2. worker' = [f EXCEPT ![h].at = "acquiring"] /\ waiting' = Tail(waiting) /\ inFlight' = inFlight - bytes
    BY <1>2 DEF ReleaseMemory
  <2>3. f[h] = worker[h] /\ f[h].at = "waiting" /\ f[h] \in WorkerRecords /\ WorkerFits(f[h])
    BY <2>1 DEF DpWaiting, CrewFits
  <2> HIDE DEF h
  <2>4. worker'[h] = [f[h] EXCEPT !.at = "acquiring"] /\ \A v \in Crew \ {h} : worker'[v] = f[v]
    BY <2>1, <2>2 DEF CrewFits
  <2>5. worker'[h] \in WorkerRecords /\ WorkerFits(worker'[h]) /\ worker'[h].part = f[h].part /\ worker'[h].at = "acquiring"
    BY <2>3, <2>4 DEF WorkerRecords, WorkerFits, BusyAt
  <2>6. worker' \in [Crew -> WorkerRecords]
    BY <2>1, <2>2, <2>3, <2>4, <2>5 DEF CrewFits
  <2>7. CrewFits(worker')
    BY <2>4, <2>5, <2>6 DEF CrewFits
  <2>8. ASSUME NEW i \in 1..Len(waiting') PROVE i + 1 \in 1..Len(waiting) /\ waiting'[i] = waiting[i + 1] /\ waiting'[i] # h /\ waiting'[i] \in Crew
    <3>1. i + 1 \in 1..Len(waiting) /\ i + 1 # 1 /\ 1 \in 1..Len(waiting)
      BY <2>1, <2>2
    <3> QED
      BY <2>1, <2>2, <3>1 DEF DpWaiting
  <2>9. \A i \in 1..Len(waiting') : worker'[waiting'[i]].at = "waiting"
    BY <2>4, <2>8 DEF DpWaiting
  <2>10. ASSUME NEW i \in 1..Len(waiting'), NEW j \in 1..Len(waiting'), waiting'[i] = waiting'[j] PROVE i = j
    <3>1. i + 1 = j + 1
      BY <2>8, <2>10 DEF DpWaiting
    <3> QED
      BY <3>1, <2>1, <2>2
  <2>11. DpWaiting'
    BY <2>1, <2>2, <2>9, <2>10 DEF DpWaiting
  <2> QED
    BY <2>2, <2>3, <2>4, <2>5, <2>7, <2>11
<1> QED
  BY <1>1, <1>2

(* As long as a worker is not gone nothing is closed, and as long as a decrypt
   worker is not, nothing returns. *)
LEMMA WorkerKeepsOpen ==
  ASSUME DpEnds, NEW w \in Crew, worker[w].at # "gone"
  PROVE  ~downloadsOver /\ ~decryptsOver /\ key # "zeroed" /\ returned = "none"
BY DEF DpEnds, AllGone

(* As long as a decrypt worker is there the key is, nothing is closed, and the caller waits. *)
LEMMA DecrypterKeepsOpen ==
  ASSUME DpEnds, NEW x \in Decrypters, decrypter[x].at # "gone"
  PROVE  ~decryptsOver /\ key # "zeroed" /\ returned = "none"
BY DEF DpEnds, DecryptersGone

(* A worker that does not wait leaves the queue of those that do as it is. *)
LEMMA WaitingRests ==
  ASSUME DpWaiting, CrewFits(worker), NEW w \in Crew, worker[w].at # "waiting", NEW r, worker' = [worker EXCEPT ![w] = r], waiting' = waiting
  PROVE  DpWaiting'
<1>1. \A v \in Crew \ {w} : worker'[v] = worker[v]
  BY DEF CrewFits
<1>2. \A i \in 1..Len(waiting) : waiting[i] \in Crew /\ waiting[i] # w
  BY DEF DpWaiting
<1> QED
  BY <1>1, <1>2 DEF DpWaiting

(* One worker moves, and what it becomes fits. *)
LEMMA OneWorker ==
  ASSUME CrewFits(worker), NEW w \in Crew, NEW r \in WorkerRecords, WorkerFits(r), worker' = [worker EXCEPT ![w] = r]
  PROVE  CrewFits(worker') /\ worker'[w] = r /\ OthersRest(w)
BY DEF CrewFits, OthersRest

(* A worker that moves without a chunk to hand over holds no memory before or after. *)
LEMMA HoldingRests ==
  ASSUME NEW w \in Crew, OthersRest(w), UNCHANGED <<downloaded, decrypter>>,
         ~(worker[w].at = "sending" /\ worker[w].part.err = "none"), ~(worker'[w].at = "sending" /\ worker'[w].part.err = "none")
  PROVE  Holding' = Holding
<1>1. ASSUME NEW v \in Crew
      PROVE  /\ (worker'[v].at = "sending" /\ worker'[v].part.err = "none") <=> (worker[v].at = "sending" /\ worker[v].part.err = "none")
             /\ v # w => worker'[v].part = worker[v].part
  BY DEF OthersRest
<1>2. {worker'[v].part : v \in {v \in Crew : worker'[v].at = "sending" /\ worker'[v].part.err = "none"}}
        = {worker[v].part : v \in {v \in Crew : worker[v].at = "sending" /\ worker[v].part.err = "none"}}
  BY <1>1
<1> QED
  BY <1>2 DEF Holding

(* A worker goes on with its chunk, or is gone. *)
LEMMA CrewStep ==
  ASSUME DpIInv, NEW w \in Crew, OthersRest(w), worker[w].at # "gone", CrewFits(worker'), DpWaiting', DpBudget', inFlight' \in Nat,
         UNCHANGED <<canceled, submitVars, queue, downloaded, decrypter, decrypted, collectVars>>,
         \/ worker[w].at \in BusyAt /\ worker'[w].at \in BusyAt /\ worker'[w].part.chunk = worker[w].part.chunk
         \/ worker'[w].at = "gone" /\ (canceled \/ (worker[w].at = "idle" /\ QueueClosed /\ queue = <<>>)),
         worker'[w].part.err = "canceled" => canceled
  PROVE  DpIInv'
<1> USE DEF submitVars, collectVars
<1>1. DpTypes' /\ DpDecrypters'
  BY DEF DpIInv, DpTypes, DpDecrypters
<1>2. InQueue' = InQueue /\ ChunksOf(downloaded)' = ChunksOf(downloaded) /\ ChunksOf(decrypted)' = ChunksOf(decrypted)
      /\ AtDecrypters' = AtDecrypters /\ WithResult' = WithResult
  BY DEF InQueue, ChunksOf, AtDecrypters, WithResult
<1>3. /\ WorkersOnce' /\ AtWorkers' \subseteq AtWorkers /\ (~canceled => AtWorkers' = AtWorkers)
  <2>1. "gone" \notin BusyAt /\ "idle" \notin BusyAt
    BY DEF BusyAt
  <2> QED
    BY <2>1, WorkerPlaces DEF DpIInv, DpOnce
<1>4. DpOnce'
  BY <1>3 DEF DpIInv, DpOnce, QueueOnce, PartsOnce, DecryptersOnce
<1>5. DpPlaced'
  BY <1>2, <1>3 DEF DpIInv, DpPlaced, Apart, All
<1>6. DpEnds'
  BY WorkerKeepsOpen DEF DpIInv, DpEnds
<1>7. DpUncanceled'
  <2> SUFFICES ASSUME ~canceled PROVE DpUncanceled'
    BY DEF DpUncanceled
  <2>1. \A v \in Crew : /\ worker'[v].at = "gone" => worker[v].at = "gone" \/ (QueueClosed /\ queue = <<>>)
                        /\ worker'[v].part.err # "canceled"
    BY DEF OthersRest, DpIInv, DpUncanceled, BusyAt
  <2> QED
    BY <2>1 DEF DpIInv, DpUncanceled, QueueClosed
<1> QED
  BY <1>1, <1>4, <1>5, <1>6, <1>7 DEF DpIInv

(* A worker that neither waits nor holds memory goes on with its chunk. *)
LEMMA WorkerTries ==
  ASSUME DpIInv, NEW w \in Crew, worker[w].at \in {"fetching", "pausing"},
         UNCHANGED <<canceled, submitVars, queue, waiting, downloaded, decrypter, decrypted, inFlight, collectVars>>,
         NEW r \in WorkerRecords, worker' = [worker EXCEPT ![w] = r], r.part \in FullPart, r.part.chunk = worker[w].part.chunk,
         r.at \in {"fetching", "pausing", "acquiring", "sending"}, r.part.err = "canceled" => canceled,
         r.at = "acquiring" => r.part.err = "none", r.at = "sending" => r.part.err # "none"
  PROVE  DpIInv'
<1>1. worker[w] \in WorkerRecords /\ CrewFits(worker) /\ WorkerFits(r)
  BY DEF DpIInv, CrewFits, WorkerFits, BusyAt
<1>2. CrewFits(worker') /\ worker'[w] = r /\ OthersRest(w)
  BY <1>1, OneWorker
<1>3. DpWaiting'
  BY <1>1, WaitingRests DEF DpIInv
<1>4. Holding' = Holding
  BY <1>2, HoldingRests
<1>5. DpBudget'
  BY <1>4, BudgetRests DEF DpIInv
<1>6. inFlight' \in Nat
  BY DEF DpIInv, DpTypes
<1>7. worker[w].at \in BusyAt /\ worker[w].at # "gone" /\ worker'[w].at \in BusyAt
      /\ worker'[w].part.chunk = worker[w].part.chunk /\ (worker'[w].part.err = "canceled" => canceled)
  BY <1>2 DEF BusyAt
<1> QED
  BY <1>2, <1>3, <1>5, <1>6, <1>7, CrewStep

(* A download worker asks for a chunk. *)
LEMMA FetchStep == ASSUME DpIInv, NEW w \in Crew, Fetch(w) PROVE DpIInv'
<1> DEFINE q == worker[w]
<1>1. /\ q.at = "fetching" /\ q \in WorkerRecords /\ q.part \in FullPart /\ worker \in [Crew -> WorkerRecords]
      /\ q.part.err = "canceled" => canceled
      /\ UNCHANGED <<canceled, submitVars, queue, waiting, downloaded, decrypter, decrypted, inFlight, collectVars>>
  BY DEF Fetch, DpIInv, CrewFits, WorkerFits, BusyAt, DpUncanceled
<1>2. ASSUME NEW at \in {"acquiring", "sending"}, NEW bytes \in Nat, NEW err \in Errs, WorkerWith(w, at, bytes, err),
             at = "acquiring" => err = "none", at = "sending" => err # "none", err = "canceled" => canceled
      PROVE  DpIInv'
  <2> DEFINE r == [q EXCEPT !.at = at, !.part.bytes = bytes, !.part.err = err, !.try = 0]
  <2>1. worker' = [worker EXCEPT ![w] = r]
    BY <1>1, <1>2 DEF WorkerWith
  <2>2. r \in WorkerRecords /\ r.at = at /\ r.part \in FullPart /\ r.part.chunk = q.part.chunk /\ r.part.err = err
    BY <1>1, <1>2 DEF WorkerRecords, FullPart, BusyAt
  <2> HIDE DEF r
  <2> QED
    BY <1>1, <1>2, <2>1, <2>2, WorkerTries
<1>3. CASE \E n \in ChunkSizes : WorkerWith(w, "acquiring", n, "none")
  BY <1>2, <1>3, PipelineAssumption DEF Errs
<1>4. CASE WorkerTo(w, "pausing")
  <2> DEFINE r == [q EXCEPT !.at = "pausing"]
  <2>1. worker' = [worker EXCEPT ![w] = r]
    BY <1>1, <1>4 DEF WorkerTo
  <2>2. r \in WorkerRecords /\ r.at = "pausing" /\ r.part = q.part
    BY <1>1 DEF WorkerRecords, BusyAt
  <2> HIDE DEF r
  <2> QED
    BY <1>1, <2>1, <2>2, WorkerTries
<1>5. CASE WorkerWith(w, "sending", 0, IF canceled THEN "canceled" ELSE "failed")
  BY <1>2, <1>5 DEF Errs
<1> QED
  BY <1>3, <1>4, <1>5 DEF Fetch

(* A failed request is repeated, or its error becomes the result. *)
LEMMA RetryStep == ASSUME DpIInv, NEW w \in Crew, WaitForRetry(w) PROVE DpIInv'
<1> DEFINE q == worker[w]
<1>1. /\ q.at = "pausing" /\ q \in WorkerRecords /\ q.part \in FullPart /\ worker \in [Crew -> WorkerRecords]
      /\ q.part.err = "canceled" => canceled
      /\ UNCHANGED <<canceled, submitVars, queue, waiting, downloaded, decrypter, decrypted, inFlight, collectVars>>
  BY DEF WaitForRetry, DpIInv, CrewFits, WorkerFits, BusyAt, DpUncanceled
<1>2. CASE worker' = [worker EXCEPT ![w].at = "fetching", ![w].try = @ + 1]
  <2> DEFINE r == [q EXCEPT !.at = "fetching", !.try = q.try + 1]
  <2>1. worker' = [worker EXCEPT ![w] = r]
    BY <1>1, <1>2
  <2>2. q.try + 1 \in Nat
    BY <1>1 DEF WorkerRecords
  <2>3. r \in WorkerRecords /\ r.at = "fetching" /\ r.part = q.part
    BY <1>1, <2>2 DEF WorkerRecords, BusyAt
  <2> HIDE DEF r
  <2> QED
    BY <1>1, <2>1, <2>3, WorkerTries
<1>3. CASE canceled /\ WorkerWith(w, "sending", 0, "canceled")
  <2> DEFINE r == [q EXCEPT !.at = "sending", !.part.bytes = 0, !.part.err = "canceled", !.try = 0]
  <2>1. worker' = [worker EXCEPT ![w] = r]
    BY <1>1, <1>3 DEF WorkerWith
  <2>2. r \in WorkerRecords /\ r.at = "sending" /\ r.part \in FullPart /\ r.part.chunk = q.part.chunk /\ r.part.err = "canceled"
    BY <1>1 DEF WorkerRecords, FullPart, BusyAt, Errs
  <2> HIDE DEF r
  <2> QED
    BY <1>1, <1>3, <2>1, <2>2, WorkerTries
<1> QED
  BY <1>2, <1>3 DEF WaitForRetry

(* A downloaded chunk gets its memory, or its worker has to wait for it. *)
LEMMA AcquireStep == ASSUME DpIInv, NEW w \in Crew, AcquireMemory(w) PROVE DpIInv'
<1> DEFINE q == worker[w]
<1>1. /\ q.at = "acquiring" /\ q \in WorkerRecords /\ q.part \in FullPart /\ q.part.err = "none" /\ worker \in [Crew -> WorkerRecords]
      /\ CrewFits(worker) /\ inFlight \in Nat
      /\ UNCHANGED <<canceled, submitVars, queue, waiting, downloaded, decrypter, decrypted, collectVars>>
  BY DEF AcquireMemory, DpIInv, DpTypes, CrewFits, WorkerFits, BusyAt
<1>2. ASSUME NEW at \in {"gone", "enrolling", "sending"}, WorkerTo(w, at)
      PROVE  /\ CrewFits(worker') /\ worker'[w] = [q EXCEPT !.at = at] /\ OthersRest(w) /\ DpWaiting'
             /\ worker'[w].at = at /\ worker'[w].part = q.part
  <2> DEFINE r == [q EXCEPT !.at = at]
  <2>1. r \in WorkerRecords /\ WorkerFits(r) /\ r.at = at /\ r.part = q.part
    BY <1>1, <1>2 DEF WorkerRecords, WorkerFits, BusyAt
  <2>2. worker' = [worker EXCEPT ![w] = r]
    BY <1>1, <1>2 DEF WorkerTo
  <2> QED
    BY <1>1, <2>1, <2>2, OneWorker, WaitingRests DEF DpIInv
<1>3. ASSUME NEW at \in {"gone", "enrolling"}, WorkerTo(w, at), UNCHANGED inFlight, at = "gone" => canceled PROVE DpIInv'
  <2>1. Holding' = Holding
    BY <1>1, <1>2, <1>3, HoldingRests
  <2>2. DpBudget'
    BY <1>3, <2>1, BudgetRests DEF DpIInv
  <2> QED
    BY <1>1, <1>2, <1>3, <2>2, CrewStep DEF BusyAt
<1>4. ASSUME ~canceled, ~MustWait(q.part.bytes), WorkerTo(w, "sending"), inFlight' = inFlight + q.part.bytes PROVE DpIInv'
  <2>1. /\ worker'[w].at = "sending" /\ worker'[w].part = q.part
        /\ \A v \in Crew \ {w} : worker'[v] = worker[v]
    BY <1>1, <1>2, <1>4 DEF WorkerTo
  <2>2. Holding' = Holding \union {q.part}
    BY <1>1, <2>1 DEF Holding
  <2>3. q.part.chunk \in AtWorkers
    BY <1>1 DEF AtWorkers, BusyAt
  <2>4. q.part \notin Holding
    <3>1. ASSUME NEW v \in Crew, worker[v].at = "sending", worker[v].part = q.part PROVE FALSE
      BY <1>1, <3>1 DEF DpIInv, DpOnce, WorkersOnce, BusyAt
    <3>2. ASSUME NEW i \in 1..Len(downloaded), downloaded[i] = q.part PROVE FALSE
      BY <2>3, <3>2 DEF DpIInv, DpPlaced, Apart, ChunksOf
    <3>3. ASSUME NEW x \in Decrypters, decrypter[x].at = "decrypting", decrypter[x].part = q.part PROVE FALSE
      BY <2>3, <3>3 DEF DpIInv, DpPlaced, Apart, AtDecrypters
    <3> QED
      BY <3>1, <3>2, <3>3, HoldingMeans
  <2>5. DpBudget' /\ inFlight' \in Nat
    BY <1>1, <1>4, <2>2, <2>4, BudgetAcquired DEF DpIInv, FullPart
  <2> QED
    BY <1>1, <1>2, <1>4, <2>1, <2>5, CrewStep DEF BusyAt
<1> QED
  BY <1>3, <1>4 DEF AcquireMemory

(* A worker that has to wait joins the wait queue. *)
LEMMA EnrollStep == ASSUME DpIInv, NEW w \in Crew, Enroll(w) PROVE DpIInv'
<1> DEFINE q == worker[w]
           r == [q EXCEPT !.at = "waiting"]
<1>1. /\ q.at = "enrolling" /\ q \in WorkerRecords /\ q.part \in FullPart /\ q.part.err = "none" /\ worker \in [Crew -> WorkerRecords]
      /\ CrewFits(worker) /\ inFlight \in Nat /\ waiting' = Append(waiting, w)
      /\ UNCHANGED <<canceled, submitVars, queue, downloaded, decrypter, decrypted, inFlight, collectVars>>
  BY DEF Enroll, DpIInv, DpTypes, CrewFits, WorkerFits, BusyAt
<1>2. r \in WorkerRecords /\ WorkerFits(r) /\ r.at = "waiting" /\ r.part = q.part
  BY <1>1 DEF WorkerRecords, WorkerFits, BusyAt
<1>3. worker' = [worker EXCEPT ![w] = r]
  BY <1>1 DEF Enroll, WorkerTo
<1>4. CrewFits(worker') /\ worker'[w] = r /\ OthersRest(w) /\ \A v \in Crew \ {w} : worker'[v] = worker[v]
  BY <1>1, <1>2, <1>3, OneWorker
<1>5. DpWaiting'
  <2>1. /\ waiting' \in Seq(Crew) /\ Len(waiting') = Len(waiting) + 1 /\ Len(waiting) \in Nat
        /\ \A i \in 1..Len(waiting) : waiting'[i] = waiting[i] /\ waiting[i] \in Crew
        /\ waiting'[Len(waiting) + 1] = w
    BY <1>1 DEF DpIInv, DpWaiting
  <2>2. \A i \in 1..Len(waiting) : worker[waiting[i]].at = "waiting" /\ waiting[i] # w
    BY <1>1 DEF DpIInv, DpWaiting
  <2>3. \A i \in 1..Len(waiting') : i = Len(waiting) + 1 \/ i \in 1..Len(waiting)
    BY <2>1
  <2>4. \A i \in 1..Len(waiting') : worker'[waiting'[i]].at = "waiting"
    <3>0. worker'[w].at = "waiting"
      BY <1>2, <1>4
    <3>1. worker'[waiting'[Len(waiting) + 1]].at = "waiting"
      BY <2>1, <3>0
    <3>2. \A i \in 1..Len(waiting) : worker'[waiting'[i]].at = "waiting"
      BY <1>4, <2>1, <2>2
    <3> QED
      BY <2>3, <3>1, <3>2
  <2>5. \A i, j \in 1..Len(waiting') : waiting'[i] = waiting'[j] => i = j
    BY <2>1, <2>2, <2>3 DEF DpIInv, DpWaiting
  <2> QED
    BY <2>1, <2>4, <2>5 DEF DpWaiting
<1>6. Holding' = Holding
  BY <1>1, <1>2, <1>4, HoldingRests
<1>7. DpBudget'
  BY <1>1, <1>6, BudgetRests DEF DpIInv
<1> QED
  BY <1>1, <1>2, <1>4, <1>5, <1>7, CrewStep DEF BusyAt, DpIInv, DpUncanceled

(* Nobody takes the place of a chunk: what a worker holds in its hands is
   nowhere else. *)
LEMMA WorkerHasItAlone ==
  ASSUME DpIInv, NEW w \in Crew, worker[w].at \in BusyAt
  PROVE  LET c == worker[w].part.chunk
         IN  /\ c \in AtWorkers /\ c \notin InQueue /\ c \notin ChunksOf(downloaded) /\ c \notin AtDecrypters
             /\ c \notin ChunksOf(decrypted) /\ c \notin WithResult
             /\ \A v \in Crew : worker[v].at \in BusyAt /\ worker[v].part.chunk = c => v = w
<1>1. worker[w].part.chunk \in AtWorkers
  BY DEF AtWorkers
<1> QED
  BY <1>1 DEF DpIInv, DpPlaced, Apart, DpOnce, WorkersOnce

(* A chunk is handed to the decrypt workers. *)
LEMMA SendStep == ASSUME DpIInv, NEW w \in Crew, SendDownloaded(w) PROVE DpIInv'
<1> DEFINE q == worker[w]
           p == worker[w].part
<1>1. /\ q.at = "sending" /\ q \in WorkerRecords /\ p \in FullPart /\ worker \in [Crew -> WorkerRecords]
      /\ CrewFits(worker) /\ inFlight \in Nat /\ (p.err = "canceled" => canceled)
      /\ UNCHANGED <<canceled, submitVars, queue, decrypter, decrypted, collectVars>>
  BY DEF SendDownloaded, DpIInv, DpTypes, DpUncanceled, CrewFits, WorkerFits, BusyAt
<1>2. /\ p.chunk \in AtWorkers /\ p.chunk \notin InQueue /\ p.chunk \notin ChunksOf(downloaded) /\ p.chunk \notin AtDecrypters
      /\ \A v \in Crew : worker[v].at \in BusyAt /\ worker[v].part.chunk = p.chunk => v = w
  BY <1>1, WorkerHasItAlone DEF BusyAt
<1>3. ASSUME NEW at \in {"idle", "gone"}, NEW m \in {p, NoPart}, at = "idle" => m = NoPart
      PROVE  [q EXCEPT !.at = at, !.part = m] \in WorkerRecords /\ WorkerFits([q EXCEPT !.at = at, !.part = m])
             /\ [q EXCEPT !.at = at, !.part = m].at = at /\ [q EXCEPT !.at = at, !.part = m].part = m
  BY <1>1, <1>3 DEF WorkerRecords, WorkerFits, BusyAt
<1>4. ASSUME downloaded' = Append(downloaded, p), worker' = [worker EXCEPT ![w].at = "idle", ![w].part = NoPart], UNCHANGED <<waiting, inFlight>>
      PROVE  DpIInv'
  <2> DEFINE r == [q EXCEPT !.at = "idle", !.part = NoPart]
  <2>1. r \in WorkerRecords /\ WorkerFits(r) /\ r.at = "idle" /\ r.part = NoPart
    BY <1>3
  <2>2. worker' = [worker EXCEPT ![w] = r]
    BY <1>1, <1>4
  <2> HIDE DEF r
  <2>3. CrewFits(worker') /\ worker'[w] = r /\ OthersRest(w) /\ DpWaiting' /\ \A v \in Crew \ {w} : worker'[v] = worker[v]
    BY <1>1, <1>4, <2>1, <2>2, OneWorker, WaitingRests DEF DpIInv
  <2>4. AtWorkers' = AtWorkers \ {p.chunk} /\ WorkersOnce'
    BY <1>1, <2>1, <2>3, WorkerPlaces DEF DpIInv, DpOnce, BusyAt
  <2>5. /\ downloaded' \in Seq(FullPart) /\ ChunksOf(downloaded)' = ChunksOf(downloaded) \union {p.chunk} /\ PartsOnce(downloaded)'
        /\ Len(downloaded') = Len(downloaded) + 1 /\ Len(downloaded) \in Nat
        /\ \A i \in 1..(Len(downloaded) + 1) : downloaded'[i] = IF i = Len(downloaded) + 1 THEN p ELSE downloaded[i]
    <3>1. downloaded \in Seq(FullPart) /\ PartsOnce(downloaded) /\ Len(downloaded) \in Nat
      BY DEF DpIInv, DpTypes, DpOnce
    <3>2. /\ Append(downloaded, p) \in Seq(FullPart)
          /\ ChunksOf(Append(downloaded, p)) = ChunksOf(downloaded) \union {p.chunk} /\ PartsOnce(Append(downloaded, p))
          /\ Len(Append(downloaded, p)) = Len(downloaded) + 1
          /\ \A i \in 1..(Len(downloaded) + 1) : Append(downloaded, p)[i] = IF i = Len(downloaded) + 1 THEN p ELSE downloaded[i]
      BY <1>1, <1>2, <3>1, PartSent
    <3>3. ChunksOf(downloaded)' = ChunksOf(downloaded') /\ PartsOnce(downloaded)' = PartsOnce(downloaded')
      BY DEF ChunksOf, PartsOnce
    <3> QED
      BY <1>4, <3>1, <3>2, <3>3
  <2>6. InQueue' = InQueue /\ ChunksOf(decrypted)' = ChunksOf(decrypted) /\ AtDecrypters' = AtDecrypters /\ WithResult' = WithResult
    BY <1>1 DEF InQueue, ChunksOf, AtDecrypters, WithResult, collectVars
  <2>7. DpTypes' /\ DpDecrypters'
    BY <1>1, <1>4, <2>5 DEF DpIInv, DpTypes, DpDecrypters, submitVars, collectVars
  <2>8. DpOnce'
    BY <1>1, <2>4, <2>5 DEF DpIInv, DpOnce, QueueOnce, PartsOnce, DecryptersOnce
  <2>9. DpPlaced'
    BY <1>1, <1>2, <2>4, <2>5, <2>6 DEF DpIInv, DpPlaced, Apart, All, submitVars
  <2>10. DpEnds'
    BY <1>1, WorkerKeepsOpen DEF DpIInv, DpEnds, collectVars
  <2>11. DpUncanceled'
    <3> SUFFICES ASSUME ~canceled PROVE DpUncanceled'
      BY <1>1 DEF DpUncanceled
    <3>1. p.err # "canceled" /\ NoPart.err # "canceled" /\ ~downloadsOver
      BY <1>1, WorkerKeepsOpen DEF DpIInv, NoPart
    <3>2. \A v \in Crew : worker'[v].at = "gone" => worker[v].at = "gone"
      BY <2>1, <2>3
    <3>3. \A v \in Crew : worker'[v].part.err # "canceled"
      BY <2>1, <2>3, <3>1 DEF DpIInv, DpUncanceled
    <3>4. \A i \in 1..Len(downloaded') : downloaded'[i].err # "canceled"
      BY <2>5, <3>1 DEF DpIInv, DpUncanceled
    <3>5. \A x \in Decrypters : decrypter[x].at # "gone"
      BY <3>1 DEF DpIInv, DpUncanceled
    <3> QED
      BY <1>1, <3>2, <3>3, <3>4, <3>5 DEF DpIInv, DpUncanceled, QueueClosed, submitVars, collectVars
  <2>12. Holding' = Holding
    <3>1. ASSUME NEW m \in Holding PROVE m \in Holding'
      <4>1. CASE \E v \in Crew : worker[v].at = "sending" /\ worker[v].part.err = "none" /\ m = worker[v].part
        <5>1. PICK v \in Crew : worker[v].at = "sending" /\ worker[v].part.err = "none" /\ m = worker[v].part
          BY <4>1
        <5>2. CASE v = w
          <6>1. Len(downloaded) + 1 \in 1..Len(downloaded') /\ downloaded'[Len(downloaded) + 1] = p
            BY <2>5
          <6> QED
            BY <5>1, <5>2, <6>1 DEF Holding
        <5>3. CASE v # w
          BY <2>3, <5>1, <5>3 DEF Holding
        <5> QED
          BY <5>2, <5>3
      <4>2. CASE \E i \in 1..Len(downloaded) : downloaded[i].err = "none" /\ m = downloaded[i]
        <5>1. \A i \in 1..Len(downloaded) : i \in 1..Len(downloaded') /\ downloaded'[i] = downloaded[i]
          BY <2>5
        <5> QED
          BY <4>2, <5>1 DEF Holding
      <4>3. CASE \E x \in Decrypters : decrypter[x].at = "decrypting" /\ m = decrypter[x].part
        BY <1>1, <4>3 DEF Holding
      <4> QED
        BY <4>1, <4>2, <4>3, HoldingMeans
    <3>2. ASSUME NEW m \in Holding' PROVE m \in Holding
      <4>1. CASE \E v \in Crew : worker'[v].at = "sending" /\ worker'[v].part.err = "none" /\ m = worker'[v].part
        BY <2>1, <2>3, <4>1 DEF Holding
      <4>2. CASE \E i \in 1..Len(downloaded') : downloaded'[i].err = "none" /\ m = downloaded'[i]
        <5>1. \A i \in 1..Len(downloaded') : i \in 1..Len(downloaded) \/ downloaded'[i] = p
          BY <2>5
        <5>2. \A i \in 1..Len(downloaded) : downloaded'[i] = downloaded[i]
          BY <2>5
        <5>3. p.err = "none" => p \in Holding
          BY <1>1 DEF Holding
        <5>4. \A i \in 1..Len(downloaded) : downloaded[i].err = "none" => downloaded[i] \in Holding
          BY HoldingMeans
        <5> QED
          BY <4>2, <5>1, <5>2, <5>3, <5>4
      <4>3. CASE \E x \in Decrypters : decrypter'[x].at = "decrypting" /\ m = decrypter'[x].part
        BY <1>1, <4>3 DEF Holding
      <4> QED
        BY <4>1, <4>2, <4>3, <3>2, HoldingMeansNext
    <3> QED
      BY <3>1, <3>2
  <2>13. DpBudget'
    BY <1>4, <2>12, BudgetRests DEF DpIInv
  <2> QED
    BY <2>3, <2>7, <2>8, <2>9, <2>10, <2>11, <2>13 DEF DpIInv
<1>5. ASSUME canceled, p.err = "none", ReleaseMemory(p.bytes, [worker EXCEPT ![w].at = "gone"]), UNCHANGED downloaded PROVE DpIInv'
  <2> DEFINE r == [q EXCEPT !.at = "gone", !.part = p]
             f == [worker EXCEPT ![w].at = "gone"]
  <2>1. r \in WorkerRecords /\ WorkerFits(r) /\ r.at = "gone" /\ r.part = p /\ r = [q EXCEPT !.at = "gone"]
    BY <1>1, <1>3 DEF WorkerRecords
  <2>2. f = [worker EXCEPT ![w] = r] /\ f[w] = r /\ \A v \in Crew \ {w} : f[v] = worker[v]
    BY <1>1, <2>1
  <2> HIDE DEF r
  <2>3. CrewFits(f)
    BY <1>1, <2>1, <2>2 DEF CrewFits
  <2>4. \A i \in 1..Len(waiting) : f[waiting[i]] = worker[waiting[i]]
    BY <1>1, <2>2 DEF DpIInv, DpWaiting
  <2> HIDE DEF f
  <2>5. /\ CrewFits(worker') /\ DpWaiting' /\ inFlight' = inFlight - p.bytes
        /\ \A v \in Crew : /\ worker'[v].part = f[v].part
                           /\ worker'[v].at = f[v].at \/ (f[v].at = "waiting" /\ worker[v].at = "waiting" /\ worker'[v].at = "acquiring")
    BY <1>1, <1>5, <2>3, <2>4, Released DEF DpIInv, f
  <2>6. OthersRest(w) /\ worker'[w].at = "gone" /\ worker'[w].part = p
    BY <2>1, <2>2, <2>5 DEF OthersRest
  <2>7. Holding' = Holding \ {p}
    <3>1. {worker'[v].part : v \in {v \in Crew : worker'[v].at = "sending" /\ worker'[v].part.err = "none"}}
           = {worker[v].part : v \in {v \in Crew : worker[v].at = "sending" /\ worker[v].part.err = "none"}} \ {p}
      <4>1. \A v \in Crew \ {w} : (worker'[v].at = "sending" <=> worker[v].at = "sending") /\ worker'[v].part = worker[v].part
        BY <2>6 DEF OthersRest
      <4>2. \A v \in Crew \ {w} : worker[v].at = "sending" => worker[v].part # p
        BY <1>2 DEF BusyAt
      <4> QED
        BY <2>6, <4>1, <4>2
    <3>2. \A i \in 1..Len(downloaded) : downloaded[i] # p
      BY <1>2 DEF ChunksOf
    <3>3. \A x \in Decrypters : decrypter[x].at = "decrypting" => decrypter[x].part # p
      BY <1>2 DEF AtDecrypters
    <3> DEFINE A == {worker[v].part : v \in {v \in Crew : worker[v].at = "sending" /\ worker[v].part.err = "none"}}
               B == {downloaded[i] : i \in {i \in DOMAIN downloaded : downloaded[i].err = "none"}}
               C == {decrypter[x].part : x \in {x \in Decrypters : decrypter[x].at = "decrypting"}}
    <3>4. DOMAIN downloaded = 1..Len(downloaded)
      BY DEF DpIInv, DpTypes
    <3>5. p \notin B
      BY <3>2, <3>4
    <3>6. p \notin C
      BY <3>3
    <3>7. Holding = A \union B \union C
      BY DEF Holding
    <3>8. Holding' = (A \ {p}) \union B \union C
      BY <1>1, <1>5, <3>1 DEF Holding
    <3> HIDE DEF A, B, C
    <3> QED
      BY <3>5, <3>6, <3>7, <3>8
  <2>8. p \in Holding /\ \A m \in Holding : m.bytes \in Nat
    <3>1. \A v \in Crew : worker[v].at = "sending" => worker[v].part \in FullPart
      BY <1>1 DEF CrewFits, WorkerFits, BusyAt
    <3>2. \A i \in 1..Len(downloaded) : downloaded[i] \in FullPart
      BY DEF DpIInv, DpTypes
    <3>3. \A x \in Decrypters : decrypter[x].at = "decrypting" => decrypter[x].part \in FullPart
      BY DEF DpIInv, DpDecrypters, DecrypterFits
    <3>4. \A m \in FullPart : m.bytes \in Nat
      BY DEF FullPart
    <3> QED
      BY <1>1, <1>5, <3>1, <3>2, <3>3, <3>4, HoldingMeans
  <2>9. DpBudget' /\ inFlight' \in Nat
    BY <1>1, <2>5, <2>7, <2>8, BudgetReleased DEF DpIInv
  <2> QED
    BY <1>1, <1>5, <2>5, <2>6, <2>9, CrewStep
<1>6. ASSUME canceled, p.err # "none", UNCHANGED <<waiting, downloaded, inFlight>>, WorkerTo(w, "gone") PROVE DpIInv'
  <2> DEFINE r == [q EXCEPT !.at = "gone", !.part = p]
  <2>1. r \in WorkerRecords /\ WorkerFits(r) /\ r.at = "gone" /\ r.part = p /\ r = [q EXCEPT !.at = "gone"]
    BY <1>1, <1>3 DEF WorkerRecords
  <2>2. worker' = [worker EXCEPT ![w] = r]
    BY <1>1, <1>6, <2>1 DEF WorkerTo
  <2> HIDE DEF r
  <2>3. CrewFits(worker') /\ worker'[w] = r /\ OthersRest(w) /\ DpWaiting'
    BY <1>1, <1>6, <2>1, <2>2, OneWorker, WaitingRests DEF DpIInv
  <2>4. Holding' = Holding
    BY <1>1, <1>6, <2>1, <2>3, HoldingRests
  <2>5. DpBudget'
    BY <1>6, <2>4, BudgetRests DEF DpIInv
  <2> QED
    BY <1>1, <1>6, <2>1, <2>3, <2>5, CrewStep
<1> QED
  BY <1>4, <1>5, <1>6 DEF SendDownloaded

(* A download worker takes the next chunk, or goes. *)
LEMMA TakeTaskStep == ASSUME DpIInv, NEW w \in Crew, TakeTask(w) PROVE DpIInv'
<1> DEFINE q == worker[w]
<1>1. /\ q.at = "idle" /\ q \in WorkerRecords /\ q.part = NoPart /\ worker \in [Crew -> WorkerRecords]
      /\ CrewFits(worker) /\ inFlight' = inFlight /\ inFlight \in Nat
      /\ UNCHANGED <<canceled, submitVars, waiting, downloaded, decrypter, decrypted, inFlight, collectVars>>
  BY DEF TakeTask, DpIInv, DpTypes, CrewFits, WorkerFits
<1>2. ASSUME queue # <<>>, queue' = Tail(queue),
             worker' = [worker EXCEPT ![w] = [at |-> "fetching", try |-> 1, part |-> [NoPart EXCEPT !.chunk = Head(queue)]]]
      PROVE  DpIInv'
  <2> DEFINE c == Head(queue)
             r == [at |-> "fetching", try |-> 1, part |-> [NoPart EXCEPT !.chunk = c]]
  <2>1. InQueue' = InQueue \ {c} /\ c \in InQueue /\ QueueOnce' /\ queue' \in Seq(Chunks) /\ c \in Chunks
    BY <1>2, QueueTaken DEF DpIInv, DpTypes, DpOnce
  <2> HIDE DEF c
  <2>2. r.part = [chunk |-> c, bytes |-> 0, err |-> "none"]
    BY DEF NoPart
  <2>3. r \in WorkerRecords /\ WorkerFits(r) /\ r.at = "fetching" /\ r.part.chunk = c /\ r.part.err = "none"
    BY <2>1, <2>2 DEF WorkerRecords, WorkerFits, BusyAt, FullPart, Errs
  <2>4. worker' = [worker EXCEPT ![w] = r]
    BY <1>2 DEF c
  <2> HIDE DEF r
  <2>5. CrewFits(worker') /\ worker'[w] = r /\ OthersRest(w) /\ DpWaiting' /\ \A v \in Crew \ {w} : worker'[v] = worker[v]
    BY <1>1, <2>3, <2>4, OneWorker, WaitingRests DEF DpIInv
  <2>6. c \notin AtWorkers /\ c \notin ChunksOf(downloaded) /\ c \notin AtDecrypters /\ c \notin ChunksOf(decrypted) /\ c \notin WithResult
    BY <2>1 DEF DpIInv, DpPlaced, Apart
  <2>7. AtWorkers' = AtWorkers \union {c} /\ WorkersOnce'
    BY <1>1, <2>3, <2>5, <2>6, WorkerPlaces DEF DpIInv, DpOnce, BusyAt
  <2>8. ChunksOf(downloaded)' = ChunksOf(downloaded) /\ ChunksOf(decrypted)' = ChunksOf(decrypted)
        /\ AtDecrypters' = AtDecrypters /\ WithResult' = WithResult
    BY <1>1 DEF ChunksOf, AtDecrypters, WithResult, collectVars
  <2>9. DpTypes' /\ DpDecrypters'
    BY <1>1, <2>1 DEF DpIInv, DpTypes, DpDecrypters, submitVars, collectVars
  <2>10. DpOnce'
    BY <1>1, <2>1, <2>7 DEF DpIInv, DpOnce, PartsOnce, DecryptersOnce
  <2>11. DpPlaced'
    BY <1>1, <2>1, <2>6, <2>7, <2>8 DEF DpIInv, DpPlaced, Apart, All, submitVars
  <2>12. DpEnds'
    BY <1>1, WorkerKeepsOpen DEF DpIInv, DpEnds, collectVars
  <2>13. DpUncanceled'
    <3> SUFFICES ASSUME ~canceled PROVE DpUncanceled'
      BY <1>1 DEF DpUncanceled
    <3>1. \A v \in Crew : worker'[v].at # "gone" /\ worker'[v].part.err # "canceled"
      BY <1>2, <2>3, <2>5 DEF DpIInv, DpUncanceled
    <3> QED
      BY <1>1, <3>1 DEF DpIInv, DpUncanceled, submitVars, collectVars
  <2>14. Holding' = Holding
    BY <1>1, <2>3, <2>5, HoldingRests
  <2>15. DpBudget'
    BY <1>1, <2>14, BudgetRests DEF DpIInv
  <2> QED
    BY <2>5, <2>9, <2>10, <2>11, <2>12, <2>13, <2>15 DEF DpIInv
<1>3. ASSUME canceled \/ (QueueClosed /\ queue = <<>>), WorkerTo(w, "gone"), UNCHANGED queue PROVE DpIInv'
  <2> DEFINE r == [q EXCEPT !.at = "gone"]
  <2>1. r \in WorkerRecords /\ WorkerFits(r) /\ r.at = "gone" /\ r.part = NoPart
    BY <1>1 DEF WorkerRecords, WorkerFits, BusyAt
  <2>2. worker' = [worker EXCEPT ![w] = r]
    BY <1>1, <1>3 DEF WorkerTo
  <2> HIDE DEF r
  <2>3. CrewFits(worker') /\ worker'[w] = r /\ OthersRest(w) /\ DpWaiting'
    BY <1>1, <2>1, <2>2, OneWorker, WaitingRests DEF DpIInv
  <2>4. Holding' = Holding
    BY <1>1, <2>1, <2>3, HoldingRests
  <2>5. DpBudget'
    BY <1>1, <2>4, BudgetRests DEF DpIInv
  <2>6. worker'[w].at = "gone" /\ worker'[w].part.err # "canceled"
    BY <2>1, <2>3 DEF NoPart
  <2> QED
    BY <1>1, <1>3, <2>3, <2>5, <2>6, CrewStep
<1> QED
  BY <1>2, <1>3 DEF TakeTask

(* The submitter and the caller. *)
LEMMA SubmitStep == ASSUME DpIInv, SubmitDownload PROVE DpIInv'
<1>1. /\ submitter = "submitting" /\ offered \in Nat /\ offered < FirstChunks + SecondChunks
      /\ UNCHANGED <<canceled, broadcast, worker, waiting, downloaded, decrypter, decrypted, inFlight, collectVars>>
  BY PipelineAssumption DEF DpIInv, DpTypes, SubmitDownload
<1>2. CrewFits(worker)' /\ DpWaiting' /\ DpDecrypters' /\ Holding' = Holding
  BY <1>1 DEF DpIInv, CrewFits, DpWaiting, DpDecrypters, Holding
<1>3. DpBudget'
  BY <1>1, <1>2, BudgetRests DEF DpIInv
<1>4. ChunksOf(downloaded)' = ChunksOf(downloaded) /\ ChunksOf(decrypted)' = ChunksOf(decrypted)
      /\ AtDecrypters' = AtDecrypters /\ WithResult' = WithResult /\ AtWorkers' = AtWorkers
  BY <1>1 DEF ChunksOf, AtDecrypters, WithResult, AtWorkers, collectVars
<1>5. DpEnds'
  BY <1>1 DEF DpIInv, DpEnds, QueueClosed, AllGone, DecryptersGone, collectVars
<1>6. ASSUME ~canceled, offered' = offered + 1, queue' = Append(queue, offered + 1),
             submitter' = IF offered' = Cardinality(Chunks) THEN "submitted" ELSE "submitting"
      PROVE  DpIInv'
  <2> DEFINE c == offered + 1
  <2>1. c \in Chunks /\ c \notin 1..offered
    BY <1>1, PipelineAssumption DEF Chunks
  <2>2. /\ c \notin InQueue /\ c \notin AtWorkers /\ c \notin ChunksOf(downloaded) /\ c \notin AtDecrypters
        /\ c \notin ChunksOf(decrypted) /\ c \notin WithResult
    BY <2>1 DEF DpIInv, DpPlaced, All
  <2>3. InQueue' = InQueue \union {c} /\ QueueOnce' /\ queue' \in Seq(Chunks)
    BY <1>6, <2>1, <2>2, QueueSubmitted DEF DpIInv, DpTypes, DpOnce
  <2>4. DpTypes'
    <3>1. /\ offered' \in 0..(FirstChunks + SecondChunks)
          /\ submitter' = "submitting" => offered' < FirstChunks + SecondChunks
          /\ submitter' = "submitted" => offered' = FirstChunks + SecondChunks
          /\ submitter' \in {"submitted", "submitting"}
      BY <1>1, <1>6, ChunksCounted, PipelineAssumption
    <3> QED
      BY <1>1, <2>3, <3>1 DEF DpIInv, DpTypes, collectVars
  <2>5. DpOnce'
    BY <1>1, <2>3 DEF DpIInv, DpOnce, PartsOnce, WorkersOnce, DecryptersOnce
  <2>6. DpPlaced'
    <3>1. 1..offered' = (1..offered) \union {c}
      BY <1>1, <1>6
    <3> QED
      BY <1>1, <1>4, <2>2, <2>3, <3>1 DEF DpIInv, DpPlaced, Apart, All
  <2>7. DpUncanceled'
    <3>1. \A w \in Crew : worker[w].at # "gone"
      BY <1>1, <1>6 DEF DpIInv, DpUncanceled, QueueClosed
    <3> QED
      BY <1>1, <1>6, <3>1 DEF DpIInv, DpUncanceled, collectVars
  <2> QED
    BY <1>2, <1>3, <1>5, <2>4, <2>5, <2>6, <2>7 DEF DpIInv
<1>7. ASSUME canceled, submitter' = "refused", UNCHANGED <<offered, queue>> PROVE DpIInv'
  <2>1. DpTypes' /\ DpOnce' /\ DpUncanceled' /\ InQueue' = InQueue
    BY <1>1, <1>7 DEF DpIInv, DpTypes, DpOnce, QueueOnce, PartsOnce, WorkersOnce, DecryptersOnce, DpUncanceled, InQueue, collectVars
  <2>2. DpPlaced'
    BY <1>1, <1>4, <1>7, <2>1 DEF DpIInv, DpPlaced, Apart, All
  <2> QED
    BY <1>2, <1>3, <1>5, <2>1, <2>2 DEF DpIInv
<1> QED
  BY <1>6, <1>7 DEF SubmitDownload

(* A download worker that is done, and the last one that closes the channel. *)
LEMMA FinishStep == ASSUME DpIInv, FinishSubmission \/ CancelDownload PROVE DpIInv'
<1>1. /\ UNCHANGED <<broadcast, offered, queue, worker, waiting, downloaded, decrypter, decrypted, inFlight, collectVars>>
      /\ canceled' = canceled \/ canceled'
      /\ canceled' \in BOOLEAN
  BY DEF FinishSubmission, CancelDownload, submitVars, DpIInv, DpTypes
<1>2. \/ submitter = "refused" /\ submitter' = "gaveUp" /\ canceled' = canceled
      \/ submitter = "submitted" /\ submitter' = "finished" /\ canceled' = canceled
      \/ submitter' = submitter /\ ~canceled /\ canceled' /\ returned = "none"
  BY DEF FinishSubmission, CancelDownload, submitVars
<1>3. CrewFits(worker)' /\ DpWaiting' /\ DpDecrypters' /\ Holding' = Holding
  BY <1>1 DEF DpIInv, CrewFits, DpWaiting, DpDecrypters, Holding
<1>4. DpBudget'
  BY <1>1, <1>3, BudgetRests DEF DpIInv
<1>5. ChunksOf(downloaded)' = ChunksOf(downloaded) /\ ChunksOf(decrypted)' = ChunksOf(decrypted)
      /\ AtDecrypters' = AtDecrypters /\ WithResult' = WithResult /\ AtWorkers' = AtWorkers /\ InQueue' = InQueue
  BY <1>1 DEF ChunksOf, AtDecrypters, WithResult, AtWorkers, InQueue, collectVars
<1>6. DpTypes' /\ DpOnce'
  BY <1>1, <1>2 DEF DpIInv, DpTypes, DpOnce, QueueOnce, PartsOnce, WorkersOnce, DecryptersOnce, collectVars
<1>7. DpPlaced'
  BY <1>1, <1>2, <1>5 DEF DpIInv, DpPlaced, Apart, All
<1>8. DpEnds'
  BY <1>1, <1>2 DEF DpIInv, DpEnds, QueueClosed, AllGone, DecryptersGone, Outcome, Results, collectVars
<1>9. DpUncanceled'
  BY <1>1, <1>2 DEF DpIInv, DpUncanceled, QueueClosed, collectVars
<1> QED
  BY <1>3, <1>4, <1>6, <1>7, <1>8, <1>9 DEF DpIInv

(* Every worker that waits checks again, where it is. *)
LEMMA BroadcastStep == ASSUME DpIInv, Broadcast PROVE DpIInv'
<1>1. /\ canceled /\ broadcast' /\ waiting' = <<>>
      /\ UNCHANGED <<canceled, submitter, offered, queue, downloaded, decrypter, decrypted, inFlight, collectVars>>
      /\ worker \in [Crew -> WorkerRecords]
  BY DEF Broadcast, DpIInv, CrewFits
<1>2. ASSUME NEW w \in Crew
      PROVE  /\ worker'[w] = worker[w] \/ (worker[w].at = "waiting" /\ worker'[w] = [worker[w] EXCEPT !.at = "acquiring"])
  <2>1. Contains(waiting, w) => worker[w].at = "waiting"
    BY DEF Contains, DpIInv, DpWaiting
  <2> QED
    BY <2>1 DEF Broadcast
<1>3. ASSUME NEW w \in Crew
      PROVE  /\ worker'[w] \in WorkerRecords /\ WorkerFits(worker'[w]) /\ worker'[w].part = worker[w].part
             /\ worker'[w].at \in BusyAt <=> worker[w].at \in BusyAt
             /\ worker'[w].at = "sending" <=> worker[w].at = "sending"
             /\ worker'[w].at = "gone" <=> worker[w].at = "gone"
  <2>1. worker[w] \in WorkerRecords /\ WorkerFits(worker[w])
    BY DEF DpIInv, CrewFits
  <2> QED
    BY <1>2, <2>1 DEF WorkerRecords, WorkerFits, BusyAt
<1>4. worker' \in [Crew -> WorkerRecords]
  BY <1>3 DEF Broadcast
<1>5. CrewFits(worker')
  BY <1>3, <1>4 DEF CrewFits
<1>6. DpWaiting' /\ DpDecrypters' /\ DpTypes'
  BY <1>1 DEF DpIInv, DpWaiting, DpDecrypters, DpTypes, collectVars
<1>7. Holding' = Holding
  BY <1>1, <1>3 DEF Holding
<1>8. DpBudget'
  BY <1>1, <1>7, BudgetRests DEF DpIInv
<1>9. ChunksOf(downloaded)' = ChunksOf(downloaded) /\ ChunksOf(decrypted)' = ChunksOf(decrypted)
      /\ AtDecrypters' = AtDecrypters /\ WithResult' = WithResult /\ InQueue' = InQueue
  BY <1>1 DEF ChunksOf, AtDecrypters, WithResult, InQueue, collectVars
<1>10. AtWorkers' = AtWorkers /\ WorkersOnce'
  BY <1>3 DEF AtWorkers, WorkersOnce, DpIInv, DpOnce
<1>11. DpOnce'
  BY <1>1, <1>10 DEF DpIInv, DpOnce, QueueOnce, PartsOnce, DecryptersOnce
<1>12. DpPlaced'
  BY <1>1, <1>9, <1>10 DEF DpIInv, DpPlaced, Apart, All
<1>13. DpEnds'
  BY <1>1, <1>3 DEF DpIInv, DpEnds, QueueClosed, AllGone, DecryptersGone, Outcome, Results, collectVars
<1>14. DpUncanceled'
  BY <1>1 DEF DpUncanceled
<1> QED
  BY <1>5, <1>6, <1>8, <1>11, <1>12, <1>13, <1>14 DEF DpIInv

(* A decrypt worker takes a part, with its memory. *)
LEMMA TakeDownloadedStep == ASSUME DpIInv, NEW x \in Decrypters, TakeDownloaded(x) PROVE DpIInv'
<1> DEFINE q == decrypter[x]
<1>1. /\ q.at = "idle" /\ q \in DecrypterRecords /\ q.part = NoPart /\ decrypter \in [Decrypters -> DecrypterRecords]
      /\ UNCHANGED <<canceled, submitVars, queue, worker, waiting, decrypted, inFlight, collectVars>>
  BY DEF TakeDownloaded, DpIInv, DpDecrypters, DecrypterFits
<1>2. CrewFits(worker)' /\ DpWaiting'
  BY <1>1 DEF DpIInv, CrewFits, DpWaiting
<1>3. ChunksOf(decrypted)' = ChunksOf(decrypted) /\ WithResult' = WithResult /\ AtWorkers' = AtWorkers /\ InQueue' = InQueue
  BY <1>1 DEF ChunksOf, WithResult, AtWorkers, InQueue, collectVars
<1>4. DpEnds'
  BY <1>1, DecrypterKeepsOpen DEF DpIInv, DpEnds, AllGone, collectVars
<1>5. ASSUME downloaded # <<>>, downloaded' = Tail(downloaded),
             decrypter' = [decrypter EXCEPT ![x] = [at |-> IF Head(downloaded).err = "none" THEN "decrypting" ELSE "sending",
                                                    part |-> Head(downloaded)]]
      PROVE  DpIInv'
  <2> DEFINE p == Head(downloaded)
             r == [at |-> IF p.err = "none" THEN "decrypting" ELSE "sending", part |-> p]
  <2>1. downloaded \in Seq(FullPart) /\ PartsOnce(downloaded)
    BY DEF DpIInv, DpTypes, DpOnce
  <2>2. /\ p \in FullPart /\ p = downloaded[1] /\ downloaded' \in Seq(FullPart) /\ Len(downloaded) \in Nat \ {0}
        /\ Len(downloaded') = Len(downloaded) - 1 /\ \A i \in 1..Len(downloaded') : downloaded'[i] = downloaded[i + 1]
    BY <1>5, <2>1, FirstLeaves
  <2>3. ChunksOf(downloaded)' = ChunksOf(downloaded) \ {p.chunk} /\ p.chunk \in ChunksOf(downloaded) /\ PartsOnce(downloaded)'
    <3>1. ChunksOf(Tail(downloaded)) = ChunksOf(downloaded) \ {p.chunk} /\ p.chunk \in ChunksOf(downloaded) /\ PartsOnce(Tail(downloaded))
      BY <1>5, <2>1, PartTaken
    <3>2. ChunksOf(downloaded)' = ChunksOf(downloaded') /\ PartsOnce(downloaded)' = PartsOnce(downloaded')
      BY DEF ChunksOf, PartsOnce
    <3> QED
      BY <1>5, <3>1, <3>2
  <2>4. decrypter' = [decrypter EXCEPT ![x] = r]
    BY <1>5
  <2> HIDE DEF p
  <2>5. r \in DecrypterRecords /\ DecrypterFits(r) /\ r.at \in {"decrypting", "sending"} /\ r.part = p
        /\ (r.at = "decrypting" <=> p.err = "none")
    BY <2>2 DEF DecrypterRecords, DecrypterFits
  <2> HIDE DEF r
  <2>6. decrypter'[x] = r /\ (\A y \in Decrypters \ {x} : decrypter'[y] = decrypter[y]) /\ decrypter' \in [Decrypters -> DecrypterRecords]
    BY <1>1, <2>4, <2>5
  <2>7. DpDecrypters'
    BY <2>5, <2>6 DEF DpIInv, DpDecrypters
  <2>8. p.chunk \notin InQueue /\ p.chunk \notin AtWorkers /\ p.chunk \notin AtDecrypters /\ p.chunk \notin ChunksOf(decrypted)
        /\ p.chunk \notin WithResult
    BY <2>3 DEF DpIInv, DpPlaced, Apart
  <2>9. AtDecrypters' = AtDecrypters \union {p.chunk} /\ DecryptersOnce'
    BY <1>1, <2>4, <2>5, <2>8, DecrypterPlaces DEF DpIInv, DpOnce
  <2>10. DpTypes'
    BY <1>1, <2>2 DEF DpIInv, DpTypes, submitVars, collectVars
  <2>11. DpOnce'
    BY <1>1, <2>3, <2>9 DEF DpIInv, DpOnce, QueueOnce, PartsOnce, WorkersOnce
  <2>12. DpPlaced'
    BY <1>1, <1>3, <2>3, <2>8, <2>9 DEF DpIInv, DpPlaced, Apart, All, submitVars
  <2>13. DpUncanceled'
    <3> SUFFICES ASSUME ~canceled PROVE DpUncanceled'
      BY <1>1 DEF DpUncanceled
    <3>1. p.err # "canceled" /\ \A i \in 1..Len(downloaded') : downloaded'[i].err # "canceled"
      <4>1. 1 \in 1..Len(downloaded) /\ \A i \in 1..Len(downloaded') : i + 1 \in 1..Len(downloaded)
        BY <2>2
      <4> QED
        BY <2>2, <4>1 DEF DpIInv, DpUncanceled
    <3>2. \A y \in Decrypters : decrypter'[y].at # "gone" /\ decrypter'[y].part.err # "canceled"
      BY <1>5, <2>5, <2>6, <3>1 DEF DpIInv, DpUncanceled
    <3> QED
      BY <1>1, <3>1, <3>2 DEF DpIInv, DpUncanceled, QueueClosed, submitVars, collectVars
  <2>14. Holding' = Holding
    <3>1. \A i \in 1..Len(downloaded') : i + 1 \in 1..Len(downloaded)
      BY <2>2
    <3>2. \A i \in 1..Len(downloaded) : i = 1 \/ (i - 1 \in 1..Len(downloaded') /\ (i - 1) + 1 = i)
      BY <2>2
    <3>3. ASSUME NEW m \in Holding PROVE m \in Holding'
      <4>1. CASE \E v \in Crew : worker[v].at = "sending" /\ worker[v].part.err = "none" /\ m = worker[v].part
        BY <1>1, <4>1, HoldingMeansNext
      <4>2. CASE \E i \in 1..Len(downloaded) : downloaded[i].err = "none" /\ m = downloaded[i]
        <5>1. PICK i \in 1..Len(downloaded) : downloaded[i].err = "none" /\ m = downloaded[i]
          BY <4>2
        <5>2. CASE i = 1
          BY <2>2, <2>5, <2>6, <5>1, <5>2, HoldingMeansNext
        <5>3. CASE i # 1
          <6>1. i - 1 \in 1..Len(downloaded') /\ downloaded'[i - 1] = m
            BY <2>2, <3>2, <5>1, <5>3
          <6> QED
            BY <5>1, <6>1, HoldingMeansNext
        <5> QED
          BY <5>2, <5>3
      <4>3. CASE \E y \in Decrypters : decrypter[y].at = "decrypting" /\ m = decrypter[y].part
        <5>1. PICK y \in Decrypters : decrypter[y].at = "decrypting" /\ m = decrypter[y].part
          BY <4>3
        <5>2. y # x
          BY <1>1, <5>1
        <5>3. decrypter'[y].at = "decrypting" /\ m = decrypter'[y].part
          BY <2>6, <5>1, <5>2
        <5> QED
          BY <5>3, HoldingMeansNext
      <4> QED
        BY <4>1, <4>2, <4>3, HoldingMeans
    <3>4. ASSUME NEW m \in Holding' PROVE m \in Holding
      <4>1. CASE \E v \in Crew : worker'[v].at = "sending" /\ worker'[v].part.err = "none" /\ m = worker'[v].part
        BY <1>1, <4>1, HoldingMeans
      <4>2. CASE \E i \in 1..Len(downloaded') : downloaded'[i].err = "none" /\ m = downloaded'[i]
        BY <2>2, <3>1, <4>2, HoldingMeans
      <4>3. CASE \E y \in Decrypters : decrypter'[y].at = "decrypting" /\ m = decrypter'[y].part
        <5>1. PICK y \in Decrypters : decrypter'[y].at = "decrypting" /\ m = decrypter'[y].part
          BY <4>3
        <5>2. CASE y = x
          <6>1. 1 \in 1..Len(downloaded) /\ m = downloaded[1] /\ downloaded[1].err = "none"
            BY <2>2, <2>5, <2>6, <5>1, <5>2
          <6> QED
            BY <6>1, HoldingMeans
        <5>3. CASE y # x
          BY <2>6, <5>1, <5>3, HoldingMeans
        <5> QED
          BY <5>2, <5>3
      <4> QED
        BY <4>1, <4>2, <4>3, <3>4, HoldingMeansNext
    <3> QED
      BY <3>3, <3>4
  <2>15. DpBudget'
    BY <1>1, <2>14, BudgetRests DEF DpIInv
  <2> QED
    BY <1>2, <1>4, <2>7, <2>10, <2>11, <2>12, <2>13, <2>15 DEF DpIInv
<1>6. ASSUME canceled \/ (downloadsOver /\ downloaded = <<>>), decrypter' = [decrypter EXCEPT ![x].at = "gone"], UNCHANGED downloaded
      PROVE  DpIInv'
  <2> DEFINE r == [q EXCEPT !.at = "gone"]
  <2>1. r \in DecrypterRecords /\ DecrypterFits(r) /\ r.at = "gone" /\ r.part = NoPart
    BY <1>1 DEF DecrypterRecords, DecrypterFits
  <2>2. decrypter' = [decrypter EXCEPT ![x] = r]
    BY <1>1, <1>6
  <2> HIDE DEF r
  <2>3. decrypter'[x] = r /\ (\A y \in Decrypters \ {x} : decrypter'[y] = decrypter[y]) /\ decrypter' \in [Decrypters -> DecrypterRecords]
    BY <1>1, <2>1, <2>2
  <2>4. DpDecrypters'
    BY <2>1, <2>3 DEF DpIInv, DpDecrypters
  <2>5. AtDecrypters' = AtDecrypters /\ DecryptersOnce'
    BY <1>1, <2>1, <2>2, DecrypterPlaces DEF DpIInv, DpOnce
  <2>6. ChunksOf(downloaded)' = ChunksOf(downloaded)
    BY <1>6 DEF ChunksOf
  <2>7. DpTypes' /\ DpOnce'
    BY <1>1, <1>6, <2>5 DEF DpIInv, DpTypes, DpOnce, QueueOnce, PartsOnce, WorkersOnce, submitVars, collectVars
  <2>8. DpPlaced'
    BY <1>1, <1>3, <2>5, <2>6 DEF DpIInv, DpPlaced, Apart, All, submitVars
  <2>9. DpUncanceled'
    <3> SUFFICES ASSUME ~canceled PROVE DpUncanceled'
      BY <1>1 DEF DpUncanceled
    <3>1. \A y \in Decrypters : decrypter'[y].part.err # "canceled"
      BY <2>1, <2>3 DEF DpIInv, DpUncanceled, NoPart
    <3> QED
      BY <1>1, <1>6, <3>1 DEF DpIInv, DpUncanceled, QueueClosed, submitVars, collectVars
  <2>10. Holding' = Holding
    <3>1. {decrypter'[y].part : y \in {y \in Decrypters : decrypter'[y].at = "decrypting"}}
           = {decrypter[y].part : y \in {y \in Decrypters : decrypter[y].at = "decrypting"}}
      BY <1>1, <2>1, <2>3
    <3> QED
      BY <1>1, <1>6, <3>1 DEF Holding
  <2>11. DpBudget'
    BY <1>1, <2>10, BudgetRests DEF DpIInv
  <2> QED
    BY <1>2, <1>4, <2>4, <2>7, <2>8, <2>9, <2>11 DEF DpIInv
<1> QED
  BY <1>5, <1>6 DEF TakeDownloaded

(* A decrypt worker takes a chunk, or goes. *)
LEMMA DecryptStep == ASSUME DpIInv, NEW x \in Decrypters, Decrypt(x) PROVE DpIInv'
<1> DEFINE q == decrypter[x]
           p == decrypter[x].part
<1>1. /\ q.at = "decrypting" /\ q \in DecrypterRecords /\ p \in FullPart /\ decrypter \in [Decrypters -> DecrypterRecords]
      /\ CrewFits(worker) /\ inFlight \in Nat /\ p.err = "none"
      /\ UNCHANGED <<canceled, submitVars, queue, downloaded, decrypted, collectVars>>
  BY DEF Decrypt, DpIInv, DpTypes, DpDecrypters, DecrypterFits
<1>2. PICK e \in {"none", "failed"} : decrypter' = [decrypter EXCEPT ![x].at = "sending", ![x].part.bytes = 0, ![x].part.err = e]
  BY DEF Decrypt
<1> DEFINE r == [q EXCEPT !.at = "sending", !.part.bytes = 0, !.part.err = e]
<1>3. r \in DecrypterRecords /\ DecrypterFits(r) /\ r.at = "sending" /\ r.part.chunk = p.chunk /\ r.part.err = e
  BY <1>1 DEF DecrypterRecords, DecrypterFits, FullPart, Errs
<1>4. decrypter' = [decrypter EXCEPT ![x] = r]
  BY <1>1, <1>2
<1> HIDE DEF r
<1>5. decrypter'[x] = r /\ (\A y \in Decrypters \ {x} : decrypter'[y] = decrypter[y]) /\ decrypter' \in [Decrypters -> DecrypterRecords]
  BY <1>1, <1>3, <1>4
<1>6. DpDecrypters'
  BY <1>3, <1>5 DEF DpIInv, DpDecrypters
<1>7. AtDecrypters' = AtDecrypters /\ DecryptersOnce'
  BY <1>1, <1>3, <1>4, DecrypterPlaces DEF DpIInv, DpOnce
<1>8. /\ CrewFits(worker') /\ DpWaiting' /\ inFlight' = inFlight - p.bytes
      /\ \A v \in Crew : /\ worker'[v].part = worker[v].part
                         /\ worker'[v].at = worker[v].at \/ (worker[v].at = "waiting" /\ worker[v].at = "waiting" /\ worker'[v].at = "acquiring")
  <2>1. ReleaseMemory(p.bytes, worker)
    BY DEF Decrypt
  <2> QED
    BY <1>1, <2>1, Released DEF DpIInv
<1>9. \A v \in Crew : /\ worker'[v].part = worker[v].part
                      /\ worker'[v].at \in BusyAt <=> worker[v].at \in BusyAt
                      /\ worker'[v].at = "sending" <=> worker[v].at = "sending"
                      /\ worker'[v].at = "gone" <=> worker[v].at = "gone"
  BY <1>8 DEF BusyAt
<1>10. AtWorkers' = AtWorkers /\ WorkersOnce'
  BY <1>9 DEF AtWorkers, WorkersOnce, DpIInv, DpOnce
<1>11. ChunksOf(downloaded)' = ChunksOf(downloaded) /\ ChunksOf(decrypted)' = ChunksOf(decrypted)
       /\ WithResult' = WithResult /\ InQueue' = InQueue
  BY <1>1 DEF ChunksOf, WithResult, InQueue, collectVars
<1>12. p.chunk \in AtDecrypters
  BY <1>1 DEF AtDecrypters
<1>13. /\ \A v \in Crew : worker[v].at = "sending" => worker[v].part # p
       /\ \A i \in 1..Len(downloaded) : downloaded[i] # p
       /\ \A y \in Decrypters \ {x} : decrypter[y].at = "decrypting" => decrypter[y].part # p
  <2>1. p.chunk \notin AtWorkers /\ p.chunk \notin ChunksOf(downloaded)
    BY <1>12 DEF DpIInv, DpPlaced, Apart
  <2>2. \A y \in Decrypters \ {x} : decrypter[y].at = "decrypting" => decrypter[y].part.chunk # p.chunk
    BY <1>1 DEF DpIInv, DpOnce, DecryptersOnce
  <2> QED
    BY <2>1, <2>2 DEF AtWorkers, ChunksOf, BusyAt
<1>14. Holding' = Holding \ {p}
  <2> DEFINE A == {worker[v].part : v \in {v \in Crew : worker[v].at = "sending" /\ worker[v].part.err = "none"}}
             B == {downloaded[i] : i \in {i \in DOMAIN downloaded : downloaded[i].err = "none"}}
             C == {decrypter[y].part : y \in {y \in Decrypters : decrypter[y].at = "decrypting"}}
  <2>1. {worker'[v].part : v \in {v \in Crew : worker'[v].at = "sending" /\ worker'[v].part.err = "none"}} = A
    BY <1>9
  <2>2. {decrypter'[y].part : y \in {y \in Decrypters : decrypter'[y].at = "decrypting"}} = C \ {p}
    BY <1>1, <1>3, <1>5, <1>13
  <2>3. DOMAIN downloaded = 1..Len(downloaded)
    BY DEF DpIInv, DpTypes
  <2>4. p \notin A /\ p \notin B
    BY <1>13, <2>3
  <2>5. Holding = A \union B \union C
    BY DEF Holding
  <2>6. Holding' = A \union B \union (C \ {p})
    BY <1>1, <2>1, <2>2 DEF Holding
  <2> HIDE DEF A, B, C
  <2> QED
    BY <2>4, <2>5, <2>6
<1>15. p \in Holding /\ \A m \in Holding : m.bytes \in Nat
  <2>1. \A v \in Crew : worker[v].at = "sending" => worker[v].part \in FullPart
    BY <1>1 DEF CrewFits, WorkerFits, BusyAt
  <2>2. \A i \in 1..Len(downloaded) : downloaded[i] \in FullPart
    BY DEF DpIInv, DpTypes
  <2>3. \A y \in Decrypters : decrypter[y].at = "decrypting" => decrypter[y].part \in FullPart
    BY DEF DpIInv, DpDecrypters, DecrypterFits
  <2>4. \A m \in FullPart : m.bytes \in Nat
    BY DEF FullPart
  <2> QED
    BY <1>1, <2>1, <2>2, <2>3, <2>4, HoldingMeans
<1>16. DpBudget' /\ inFlight' \in Nat
  BY <1>1, <1>8, <1>14, <1>15, BudgetReleased DEF DpIInv
<1>17. DpTypes'
  BY <1>1, <1>16 DEF DpIInv, DpTypes, submitVars, collectVars
<1>18. DpOnce'
  BY <1>1, <1>7, <1>10 DEF DpIInv, DpOnce, QueueOnce, PartsOnce
<1>19. DpPlaced'
  BY <1>1, <1>7, <1>10, <1>11 DEF DpIInv, DpPlaced, Apart, All, submitVars
<1>20. DpEnds'
  <2>1. AllGone' <=> AllGone
    BY <1>9 DEF AllGone
  <2> QED
    BY <1>1, <2>1, DecrypterKeepsOpen DEF DpIInv, DpEnds, collectVars
<1>21. DpUncanceled'
  <2> SUFFICES ASSUME ~canceled PROVE DpUncanceled'
    BY <1>1 DEF DpUncanceled
  <2>1. \A y \in Decrypters : decrypter'[y].part.err # "canceled" /\ (decrypter'[y].at = "gone" => decrypter[y].at = "gone")
    BY <1>3, <1>5 DEF DpIInv, DpUncanceled
  <2> QED
    BY <1>1, <1>9, <2>1 DEF DpIInv, DpUncanceled, QueueClosed, submitVars, collectVars
<1> QED
  BY <1>6, <1>8, <1>16, <1>17, <1>18, <1>19, <1>20, <1>21 DEF DpIInv

(* A decrypted chunk goes to its place, and its memory is released. *)
LEMMA SendDecryptedStep == ASSUME DpIInv, NEW x \in Decrypters, SendDecrypted(x) PROVE DpIInv'
<1> DEFINE q == decrypter[x]
           p == decrypter[x].part
<1>1. /\ q.at = "sending" /\ q \in DecrypterRecords /\ p \in FullPart /\ decrypter \in [Decrypters -> DecrypterRecords]
      /\ UNCHANGED <<canceled, submitVars, queue, worker, waiting, downloaded, inFlight, collectVars>>
  BY DEF SendDecrypted, DpIInv, DpDecrypters, DecrypterFits
<1>2. CrewFits(worker)' /\ DpWaiting'
  BY <1>1 DEF DpIInv, CrewFits, DpWaiting
<1>3. ChunksOf(downloaded)' = ChunksOf(downloaded) /\ WithResult' = WithResult /\ AtWorkers' = AtWorkers /\ InQueue' = InQueue
  BY <1>1 DEF ChunksOf, WithResult, AtWorkers, InQueue, collectVars
<1>4. DpEnds'
  BY <1>1, DecrypterKeepsOpen DEF DpIInv, DpEnds, AllGone, collectVars
<1>5. p.chunk \in AtDecrypters /\ p.chunk \notin InQueue /\ p.chunk \notin AtWorkers /\ p.chunk \notin ChunksOf(downloaded)
      /\ p.chunk \notin ChunksOf(decrypted) /\ p.chunk \notin WithResult
  <2>1. p.chunk \in AtDecrypters
    BY <1>1 DEF AtDecrypters
  <2> QED
    BY <2>1 DEF DpIInv, DpPlaced, Apart
<1>6. ASSUME NEW r \in DecrypterRecords, DecrypterFits(r), r.at \in {"idle", "gone"}, decrypter' = [decrypter EXCEPT ![x] = r]
      PROVE  /\ DpDecrypters' /\ AtDecrypters' = AtDecrypters \ {p.chunk} /\ DecryptersOnce'
             /\ decrypter'[x] = r /\ \A y \in Decrypters \ {x} : decrypter'[y] = decrypter[y]
  <2>1. decrypter'[x] = r /\ (\A y \in Decrypters \ {x} : decrypter'[y] = decrypter[y]) /\ decrypter' \in [Decrypters -> DecrypterRecords]
    BY <1>1, <1>6
  <2>2. DpDecrypters'
    BY <1>6, <2>1 DEF DpIInv, DpDecrypters
  <2>3. AtDecrypters' = AtDecrypters \ {p.chunk} /\ DecryptersOnce'
    BY <1>1, <1>6, DecrypterPlaces DEF DpIInv, DpOnce
  <2> QED
    BY <2>1, <2>2, <2>3
<1>7. ASSUME decrypter'[x].at \in {"idle", "gone"}, \A y \in Decrypters \ {x} : decrypter'[y] = decrypter[y] PROVE DpBudget'
  <2>1. {decrypter'[y].part : y \in {y \in Decrypters : decrypter'[y].at = "decrypting"}}
           = {decrypter[y].part : y \in {y \in Decrypters : decrypter[y].at = "decrypting"}}
    BY <1>1, <1>7
  <2>2. Holding' = Holding
    BY <1>1, <2>1 DEF Holding
  <2> QED
    BY <1>1, <2>2, BudgetRests DEF DpIInv
<1>8. ASSUME decrypted' = Append(decrypted, p), decrypter' = [decrypter EXCEPT ![x] = [at |-> "idle", part |-> NoPart]] PROVE DpIInv'
  <2> DEFINE r == [at |-> "idle", part |-> NoPart]
  <2>1. r \in DecrypterRecords /\ DecrypterFits(r) /\ r.at = "idle" /\ r.part = NoPart
    BY DEF DecrypterRecords, DecrypterFits
  <2>2. decrypter' = [decrypter EXCEPT ![x] = r]
    BY <1>8
  <2> HIDE DEF r
  <2>3. /\ DpDecrypters' /\ AtDecrypters' = AtDecrypters \ {p.chunk} /\ DecryptersOnce' /\ DpBudget'
        /\ decrypter'[x] = r /\ \A y \in Decrypters \ {x} : decrypter'[y] = decrypter[y]
    <3>1. r.at \in {"idle", "gone"}
      BY <2>1
    <3>2. /\ DpDecrypters' /\ AtDecrypters' = AtDecrypters \ {p.chunk} /\ DecryptersOnce'
          /\ decrypter'[x] = r /\ \A y \in Decrypters \ {x} : decrypter'[y] = decrypter[y]
      BY <1>6, <2>1, <2>2, <3>1
    <3>3. DpBudget'
      BY <1>7, <3>1, <3>2
    <3> QED
      BY <3>2, <3>3
  <2>4. /\ decrypted' \in Seq(FullPart) /\ ChunksOf(decrypted)' = ChunksOf(decrypted) \union {p.chunk} /\ PartsOnce(decrypted)'
        /\ Len(decrypted') = Len(decrypted) + 1 /\ Len(decrypted) \in Nat
        /\ \A i \in 1..(Len(decrypted) + 1) : decrypted'[i] = IF i = Len(decrypted) + 1 THEN p ELSE decrypted[i]
    <3>1. decrypted \in Seq(FullPart) /\ PartsOnce(decrypted) /\ Len(decrypted) \in Nat
      BY DEF DpIInv, DpTypes, DpOnce
    <3>2. /\ Append(decrypted, p) \in Seq(FullPart)
          /\ ChunksOf(Append(decrypted, p)) = ChunksOf(decrypted) \union {p.chunk} /\ PartsOnce(Append(decrypted, p))
          /\ Len(Append(decrypted, p)) = Len(decrypted) + 1
          /\ \A i \in 1..(Len(decrypted) + 1) : Append(decrypted, p)[i] = IF i = Len(decrypted) + 1 THEN p ELSE decrypted[i]
      BY <1>1, <1>5, <3>1, PartSent
    <3>3. ChunksOf(decrypted)' = ChunksOf(decrypted') /\ PartsOnce(decrypted)' = PartsOnce(decrypted')
      BY DEF ChunksOf, PartsOnce
    <3> QED
      BY <1>8, <3>1, <3>2, <3>3
  <2>5. DpTypes'
    BY <1>1, <2>4 DEF DpIInv, DpTypes, submitVars, collectVars
  <2>6. DpOnce'
    BY <1>1, <2>3, <2>4 DEF DpIInv, DpOnce, QueueOnce, PartsOnce, WorkersOnce
  <2>7. DpPlaced'
    BY <1>1, <1>3, <1>5, <2>3, <2>4 DEF DpIInv, DpPlaced, Apart, All, submitVars
  <2>8. DpUncanceled'
    <3> SUFFICES ASSUME ~canceled PROVE DpUncanceled'
      BY <1>1 DEF DpUncanceled
    <3>1. \A y \in Decrypters : decrypter'[y].part.err # "canceled" /\ (decrypter'[y].at = "gone" => decrypter[y].at = "gone")
      BY <2>1, <2>3 DEF DpIInv, DpUncanceled, NoPart
    <3>2. \A i \in 1..Len(decrypted') : decrypted'[i].err # "canceled"
      BY <2>4 DEF DpIInv, DpUncanceled
    <3> QED
      BY <1>1, <3>1, <3>2 DEF DpIInv, DpUncanceled, QueueClosed, submitVars, collectVars
  <2> QED
    BY <1>2, <1>4, <2>3, <2>5, <2>6, <2>7, <2>8 DEF DpIInv
<1>9. ASSUME canceled, decrypter' = [decrypter EXCEPT ![x].at = "gone"], UNCHANGED decrypted PROVE DpIInv'
  <2> DEFINE r == [q EXCEPT !.at = "gone"]
  <2>1. r \in DecrypterRecords /\ DecrypterFits(r) /\ r.at = "gone"
    BY <1>1 DEF DecrypterRecords, DecrypterFits
  <2>2. decrypter' = [decrypter EXCEPT ![x] = r]
    BY <1>1, <1>9
  <2> HIDE DEF r
  <2>3. DpDecrypters' /\ AtDecrypters' = AtDecrypters \ {p.chunk} /\ DecryptersOnce' /\ DpBudget'
    <3>1. r.at \in {"idle", "gone"}
      BY <2>1
    <3>2. /\ DpDecrypters' /\ AtDecrypters' = AtDecrypters \ {p.chunk} /\ DecryptersOnce'
          /\ decrypter'[x] = r /\ \A y \in Decrypters \ {x} : decrypter'[y] = decrypter[y]
      BY <1>6, <2>1, <2>2, <3>1
    <3>3. DpBudget'
      BY <1>7, <3>1, <3>2
    <3> QED
      BY <3>2, <3>3
  <2>4. DpTypes' /\ DpOnce' /\ ChunksOf(decrypted)' = ChunksOf(decrypted)
    BY <1>1, <1>9, <2>3 DEF DpIInv, DpTypes, DpOnce, QueueOnce, PartsOnce, WorkersOnce, submitVars, collectVars, ChunksOf
  <2>5. DpPlaced'
    BY <1>1, <1>3, <1>9, <2>3, <2>4 DEF DpIInv, DpPlaced, Apart, All, submitVars
  <2>6. DpUncanceled'
    BY <1>1, <1>9 DEF DpUncanceled
  <2> QED
    BY <1>2, <1>4, <2>3, <2>4, <2>5, <2>6 DEF DpIInv
<1> QED
  BY <1>8, <1>9 DEF SendDecrypted

(* The channels are closed behind the last of their workers. *)
LEMMA CloseStep == ASSUME DpIInv, CloseChannels PROVE DpIInv'
<1>1. /\ UNCHANGED <<canceled, submitVars, queue, worker, waiting, downloaded, decrypter, decrypted, inFlight, collected, key, returned>>
      /\ \/ AllGone /\ ~downloadsOver /\ downloadsOver' = TRUE /\ UNCHANGED decryptsOver
         \/ downloadsOver /\ DecryptersGone /\ ~decryptsOver /\ decryptsOver' = TRUE /\ UNCHANGED downloadsOver
  BY DEF CloseChannels
<1>2. CrewFits(worker)' /\ DpWaiting' /\ DpDecrypters' /\ Holding' = Holding /\ DpTypes' /\ DpOnce'
  <2>1. CrewFits(worker)' /\ DpWaiting' /\ DpDecrypters' /\ Holding' = Holding
    BY <1>1 DEF DpIInv, CrewFits, DpWaiting, DpDecrypters, Holding
  <2>2. DpTypes'
    BY <1>1 DEF DpIInv, DpTypes, submitVars
  <2>3. DpOnce'
    BY <1>1 DEF DpIInv, DpOnce, QueueOnce, PartsOnce, WorkersOnce, DecryptersOnce
  <2> QED
    BY <2>1, <2>2, <2>3
<1>3. DpBudget'
  BY <1>1, <1>2, BudgetRests DEF DpIInv
<1>4. DpPlaced'
  BY <1>1 DEF DpIInv, DpPlaced, Apart, All, InQueue, AtWorkers, ChunksOf, AtDecrypters, WithResult, submitVars
<1>5. DpEnds' /\ DpUncanceled'
  BY <1>1 DEF DpIInv, DpEnds, DpUncanceled, AllGone, DecryptersGone, QueueClosed, Outcome, Results, submitVars
<1> QED
  BY <1>2, <1>3, <1>4, <1>5 DEF DpIInv

(* A result is put in its place, or its error ends the download. *)
LEMMA CollectStep == ASSUME DpIInv, Collect PROVE DpIInv'
<1>1. /\ key = "held" /\ returned = "none"
      /\ UNCHANGED <<canceled, submitVars, queue, worker, waiting, downloaded, downloadsOver, decrypter, decryptsOver, inFlight, returned>>
  BY DEF Collect, DpIInv, DpEnds
<1>2. CrewFits(worker)' /\ DpWaiting' /\ DpDecrypters' /\ Holding' = Holding
  BY <1>1 DEF DpIInv, CrewFits, DpWaiting, DpDecrypters, Holding
<1>3. DpBudget'
  BY <1>1, <1>2, BudgetRests DEF DpIInv
<1>4. ChunksOf(downloaded)' = ChunksOf(downloaded) /\ AtDecrypters' = AtDecrypters /\ AtWorkers' = AtWorkers /\ InQueue' = InQueue
  BY <1>1 DEF ChunksOf, AtDecrypters, AtWorkers, InQueue
<1>5. ASSUME decrypted # <<>>, decrypted' = Tail(decrypted), UNCHANGED key,
             collected' = [collected EXCEPT ![Head(decrypted).chunk] = IF Head(decrypted).err = "none" THEN "ok" ELSE Head(decrypted).err]
      PROVE  DpIInv'
  <2> DEFINE p == Head(decrypted)
  <2>1. decrypted \in Seq(FullPart) /\ PartsOnce(decrypted) /\ collected \in [Chunks -> {"none", "ok", "failed", "canceled"}]
    BY DEF DpIInv, DpTypes, DpOnce
  <2>2. /\ p \in FullPart /\ p = decrypted[1] /\ decrypted' \in Seq(FullPart) /\ Len(decrypted) \in Nat \ {0}
        /\ Len(decrypted') = Len(decrypted) - 1 /\ \A i \in 1..Len(decrypted') : decrypted'[i] = decrypted[i + 1]
    BY <1>5, <2>1, FirstLeaves
  <2>3. ChunksOf(decrypted)' = ChunksOf(decrypted) \ {p.chunk} /\ p.chunk \in ChunksOf(decrypted) /\ PartsOnce(decrypted)'
    <3>1. ChunksOf(Tail(decrypted)) = ChunksOf(decrypted) \ {p.chunk} /\ p.chunk \in ChunksOf(decrypted) /\ PartsOnce(Tail(decrypted))
      BY <1>5, <2>1, PartTaken
    <3>2. ChunksOf(decrypted)' = ChunksOf(decrypted') /\ PartsOnce(decrypted)' = PartsOnce(decrypted')
      BY DEF ChunksOf, PartsOnce
    <3> QED
      BY <1>5, <3>1, <3>2
  <2>4. collected' = [collected EXCEPT ![p.chunk] = IF p.err = "none" THEN "ok" ELSE p.err]
    BY <1>5
  <2> HIDE DEF p
  <2>5. p.chunk \in Chunks /\ p.err \in Errs
    BY <2>2 DEF FullPart
  <2>6. /\ collected'[p.chunk] \in {"ok", "failed", "canceled"} /\ (collected'[p.chunk] = "canceled" => p.err = "canceled")
        /\ \A c \in Chunks \ {p.chunk} : collected'[c] = collected[c]
        /\ collected' \in [Chunks -> {"none", "ok", "failed", "canceled"}]
    BY <2>1, <2>4, <2>5 DEF Errs
  <2>7. WithResult' = WithResult \union {p.chunk}
    BY <2>5, <2>6 DEF WithResult
  <2>8. p.chunk \notin InQueue /\ p.chunk \notin AtWorkers /\ p.chunk \notin AtDecrypters /\ p.chunk \notin ChunksOf(downloaded)
        /\ p.chunk \notin WithResult
    BY <2>3 DEF DpIInv, DpPlaced, Apart
  <2>9. DpTypes'
    BY <1>1, <1>5, <2>2, <2>6 DEF DpIInv, DpTypes, submitVars
  <2>10. DpOnce'
    BY <1>1, <2>3 DEF DpIInv, DpOnce, QueueOnce, PartsOnce, WorkersOnce, DecryptersOnce
  <2>11. DpPlaced'
    BY <1>1, <1>4, <2>3, <2>7, <2>8 DEF DpIInv, DpPlaced, Apart, All, submitVars
  <2>12. DpEnds'
    BY <1>1, <1>5 DEF DpIInv, DpEnds, AllGone, DecryptersGone
  <2>13. DpUncanceled'
    <3> SUFFICES ASSUME ~canceled PROVE DpUncanceled'
      BY <1>1 DEF DpUncanceled
    <3>1. p.err # "canceled" /\ \A i \in 1..Len(decrypted') : decrypted'[i].err # "canceled"
      <4>1. 1 \in 1..Len(decrypted) /\ \A i \in 1..Len(decrypted') : i + 1 \in 1..Len(decrypted)
        BY <2>2
      <4> QED
        BY <2>2, <4>1 DEF DpIInv, DpUncanceled
    <3>2. \A c \in Chunks : collected'[c] # "canceled"
      BY <2>6, <3>1 DEF DpIInv, DpUncanceled
    <3> QED
      BY <1>1, <3>1, <3>2 DEF DpIInv, DpUncanceled, QueueClosed, submitVars
  <2> QED
    BY <1>2, <1>3, <2>9, <2>10, <2>11, <2>12, <2>13 DEF DpIInv
<1>6. ASSUME decrypted = <<>>, decryptsOver, key' = "zeroed", UNCHANGED <<decrypted, collected>> PROVE DpIInv'
  <2>1. DpTypes' /\ DpOnce'
    BY <1>1, <1>6 DEF DpIInv, DpTypes, DpOnce, QueueOnce, PartsOnce, WorkersOnce, DecryptersOnce, submitVars
  <2>2. DpPlaced'
    BY <1>1, <1>4, <1>6 DEF DpIInv, DpPlaced, Apart, All, ChunksOf, WithResult, submitVars
  <2>3. DpEnds' /\ DpUncanceled'
    BY <1>1, <1>6 DEF DpIInv, DpEnds, DpUncanceled, AllGone, DecryptersGone, QueueClosed, submitVars
  <2> QED
    BY <1>2, <1>3, <2>1, <2>2, <2>3 DEF DpIInv
<1> QED
  BY <1>5, <1>6 DEF Collect

(* The call returns when everyone is gone. *)
LEMMA ReturnStep == ASSUME DpIInv, ReturnPlaylist PROVE DpIInv'
<1>1. /\ key = "zeroed" /\ QueueClosed /\ returned = "none" /\ returned' = Outcome
      /\ UNCHANGED <<canceled, submitVars, queue, worker, waiting, downloaded, downloadsOver, decrypter, decrypted,
                     decryptsOver, inFlight, collected, key>>
  BY DEF ReturnPlaylist
<1>2. CrewFits(worker)' /\ DpWaiting' /\ DpDecrypters' /\ Holding' = Holding /\ DpTypes' /\ DpOnce'
  BY <1>1 DEF DpIInv, CrewFits, DpWaiting, DpDecrypters, Holding, DpTypes, DpOnce, QueueOnce, PartsOnce, WorkersOnce, DecryptersOnce, submitVars
<1>3. DpBudget'
  BY <1>1, <1>2, BudgetRests DEF DpIInv
<1>4. DpPlaced'
  BY <1>1 DEF DpIInv, DpPlaced, Apart, All, InQueue, AtWorkers, ChunksOf, AtDecrypters, WithResult, submitVars
<1>5. Outcome' = Outcome /\ AllGone' = AllGone /\ DecryptersGone' = DecryptersGone /\ QueueClosed' = QueueClosed
  BY <1>1 DEF Outcome, Results, AllGone, DecryptersGone, QueueClosed, submitVars
<1>6. DpEnds'
  BY <1>1, <1>5 DEF DpIInv, DpEnds
<1>7. DpUncanceled'
  BY <1>1, <1>5 DEF DpIInv, DpUncanceled, submitVars
<1> QED
  BY <1>2, <1>3, <1>4, <1>6, <1>7 DEF DpIInv

(* The pipeline starts in the invariant. *)
LEMMA DpInitIInv == DpInit => DpIInv
<1> SUFFICES ASSUME DpInit PROVE DpIInv
  OBVIOUS
<1>1. DpTypes
  <2>1. offered \in 0..(FirstChunks + SecondChunks) /\ offered < FirstChunks + SecondChunks
    BY PipelineAssumption DEF DpInit
  <2>2. queue \in Seq(Chunks) /\ downloaded \in Seq(FullPart) /\ decrypted \in Seq(FullPart)
    BY DEF DpInit
  <2>3. collected \in [Chunks -> {"none", "ok", "failed", "canceled"}]
    BY DEF DpInit
  <2> QED
    BY <2>1, <2>2, <2>3 DEF DpInit, DpTypes
<1>2. CrewFits(worker) /\ DpWaiting /\ DpDecrypters
  <2>1. [at |-> "idle", try |-> 0, part |-> NoPart] \in WorkerRecords /\ WorkerFits([at |-> "idle", try |-> 0, part |-> NoPart])
    BY DEF WorkerRecords, WorkerFits, BusyAt
  <2>2. [at |-> "idle", part |-> NoPart] \in DecrypterRecords /\ DecrypterFits([at |-> "idle", part |-> NoPart])
    BY DEF DecrypterRecords, DecrypterFits
  <2> QED
    BY <2>1, <2>2 DEF DpInit, CrewFits, DpWaiting, DpDecrypters
<1>3. /\ \A w \in Crew : worker[w].at = "idle" /\ worker[w].part.err = "none"
      /\ \A x \in Decrypters : decrypter[x].at = "idle" /\ decrypter[x].part.err = "none"
  BY DEF DpInit, NoPart
<1>4. 1..Len(queue) = {} /\ 1..Len(downloaded) = {} /\ 1..Len(decrypted) = {} /\ 1..offered = {}
  BY DEF DpInit
<1>5. InQueue = {} /\ AtWorkers = {} /\ ChunksOf(downloaded) = {} /\ AtDecrypters = {} /\ ChunksOf(decrypted) = {} /\ WithResult = {}
  BY <1>3, <1>4 DEF InQueue, AtWorkers, ChunksOf, AtDecrypters, WithResult, BusyAt, DpInit
<1>6. DpOnce
  BY <1>3, <1>4 DEF DpOnce, QueueOnce, PartsOnce, WorkersOnce, DecryptersOnce, BusyAt
<1>7. DpPlaced
  BY <1>4, <1>5 DEF DpPlaced, Apart, All
<1>8. Holding = {}
  BY <1>3, <1>4, HoldingMeans
<1>9. DpBudget
  <2>1. HeldBytes = {}
    BY <1>8 DEF HeldBytes
  <2>2. IsFiniteSet(HeldBytes) /\ Cardinality(HeldBytes) = 0
    BY <2>1, FS_EmptySet
  <2>3. inFlight = 0 /\ 0 <= Budget
    BY PipelineAssumption DEF DpInit
  <2> QED
    BY <2>2, <2>3 DEF DpBudget, BudgetKept, HeldBytes
<1>10. DpEnds
  BY DEF DpEnds, DpInit
<1>11. DpUncanceled
  BY <1>3, <1>4 DEF DpUncanceled, DpInit
<1> QED
  BY <1>1, <1>2, <1>6, <1>7, <1>9, <1>10, <1>11 DEF DpIInv

(* Every step of the pipeline keeps it. *)
LEMMA DpStep == DpIInv /\ DpNext => DpIInv'
BY FetchStep, RetryStep, AcquireStep, EnrollStep, SendStep, TakeTaskStep, SubmitStep, FinishStep, BroadcastStep, TakeDownloadedStep,
   DecryptStep, SendDecryptedStep, CloseStep, CollectStep, ReturnStep DEF DpNext, DpProgress

(* So does a step of another part. *)
LEMMA DpStutter == DpIInv /\ UNCHANGED dpVars => DpIInv'
<1> SUFFICES ASSUME DpIInv, UNCHANGED dpVars PROVE DpIInv'
  OBVIOUS
<1> USE DEF dpVars
<1>1. CrewFits(worker)' /\ DpWaiting' /\ DpDecrypters' /\ Holding' = Holding
  BY DEF DpIInv, CrewFits, DpWaiting, DpDecrypters, Holding
<1>2. DpTypes'
  BY DEF DpIInv, DpTypes
<1>3. DpOnce'
  BY DEF DpIInv, DpOnce, QueueOnce, PartsOnce, WorkersOnce, DecryptersOnce
<1>4. DpBudget'
  BY <1>1, BudgetRests DEF DpIInv
<1>5. DpPlaced'
  BY DEF DpIInv, DpPlaced, Apart, All, InQueue, AtWorkers, ChunksOf, AtDecrypters, WithResult
<1>6. DpEnds'
  BY DEF DpIInv, DpEnds, AllGone, DecryptersGone, QueueClosed, Outcome, Results
<1>7. DpUncanceled'
  BY DEF DpIInv, DpUncanceled, QueueClosed
<1> QED
  BY <1>1, <1>2, <1>3, <1>4, <1>5, <1>6, <1>7 DEF DpIInv

(* A set of at most one element. *)
LEMMA AtMostOne ==
  ASSUME NEW S, NEW a, S \subseteq {a}
  PROVE  Cardinality(S) <= 1
<1>1. IsFiniteSet({a}) /\ Cardinality({a}) = 1
  BY FS_Singleton
<1>2. Cardinality(S) <= Cardinality({a})
  BY <1>1, FS_Subset
<1> QED
  BY <1>1, <1>2

(* No chunk is lost: chunks are placed, failed, held or still to be taken. *)
LEMMA PlacesFew == DpIInv => NoChunkLost
<1> SUFFICES ASSUME DpIInv, NEW c \in Chunks
             PROVE  /\ Cardinality(Places(c)) <= 1
                    /\ c <= offered /\ Places(c) = {} => canceled
                    /\ c > offered => Places(c) = {}
  BY DEF NoChunkLost
<1> DEFINE Q == {i \in DOMAIN queue : queue[i] = c}
           W == {w \in Crew : worker[w].part.chunk = c /\ worker[w].at # "gone"}
           D == {i \in DOMAIN downloaded : downloaded[i].chunk = c}
           X == {x \in Decrypters : decrypter[x].part.chunk = c /\ decrypter[x].at # "gone"}
           E == {i \in DOMAIN decrypted : decrypted[i].chunk = c}
<1>1. DOMAIN queue = 1..Len(queue) /\ DOMAIN downloaded = 1..Len(downloaded) /\ DOMAIN decrypted = 1..Len(decrypted)
      /\ c \in Nat \ {0}
  BY PipelineAssumption DEF DpIInv, DpTypes, Chunks
<1>2. Q = {} <=> c \notin InQueue
  BY <1>1 DEF InQueue
<1>3. W = {w \in Crew : worker[w].at \in BusyAt /\ worker[w].part.chunk = c} /\ (W = {} <=> c \notin AtWorkers)
  <2>1. \A w \in Crew : worker[w].at \in BusyAt \union {"idle", "gone"} /\ (worker[w].at = "idle" => worker[w].part.chunk # c)
    BY <1>1 DEF DpIInv, CrewFits, WorkerRecords, WorkerFits, NoPart
  <2> QED
    BY <2>1 DEF AtWorkers, BusyAt
<1>4. D = {} <=> c \notin ChunksOf(downloaded)
  BY <1>1 DEF ChunksOf
<1>5. X = {x \in Decrypters : decrypter[x].at \in {"decrypting", "sending"} /\ decrypter[x].part.chunk = c}
      /\ (X = {} <=> c \notin AtDecrypters)
  <2>1. \A x \in Decrypters : decrypter[x].at \in {"idle", "decrypting", "sending", "gone"}
                              /\ (decrypter[x].at = "idle" => decrypter[x].part.chunk # c)
    BY <1>1 DEF DpIInv, DpDecrypters, DecrypterRecords, DecrypterFits, NoPart
  <2> QED
    BY <2>1 DEF AtDecrypters
<1>6. E = {} <=> c \notin ChunksOf(decrypted)
  BY <1>1 DEF ChunksOf
<1>7. /\ \A i, j \in Q : i = j
      /\ \A v, w \in W : v = w
      /\ \A i, j \in D : i = j
      /\ \A x, y \in X : x = y
      /\ \A i, j \in E : i = j
  BY <1>1, <1>3, <1>5 DEF DpIInv, DpOnce, QueueOnce, PartsOnce, WorkersOnce, DecryptersOnce
<1>8. Places(c) = {<<"queue", i>> : i \in Q} \union {<<"worker", w>> : w \in W} \union {<<"downloaded", i>> : i \in D}
                  \union {<<"decrypter", x>> : x \in X} \union {<<"decrypted", i>> : i \in E}
                  \union (IF c \in WithResult THEN {<<"collected", 0>>} ELSE {})
  BY DEF Places, WithResult
<1> HIDE DEF Q, W, D, X, E
<1>9. Places(c) = {} <=> c \notin All(InQueue, AtWorkers, ChunksOf(downloaded), AtDecrypters, ChunksOf(decrypted), WithResult)
  <2>1. Places(c) = {} <=> Q = {} /\ W = {} /\ D = {} /\ X = {} /\ E = {} /\ c \notin WithResult
    BY <1>8
  <2> QED
    BY <1>2, <1>3, <1>4, <1>5, <1>6, <2>1 DEF All
<1>10. offered \in Nat
  BY PipelineAssumption DEF DpIInv, DpTypes
<1>11. c <= offered /\ Places(c) = {} => canceled
  BY <1>1, <1>9, <1>10 DEF DpIInv, DpPlaced
<1>12. c > offered => Places(c) = {}
  BY <1>1, <1>9, <1>10 DEF DpIInv, DpPlaced
<1>13. Cardinality(Places(c)) <= 1
  <2>1. Apart(InQueue, AtWorkers, ChunksOf(downloaded), AtDecrypters, ChunksOf(decrypted), WithResult)
    BY DEF DpIInv, DpPlaced
  <2>2. \E a : Places(c) \subseteq {a}
    <3>1. ASSUME NEW i \in Q PROVE Places(c) \subseteq {<<"queue", i>>}
      BY <1>2, <1>3, <1>4, <1>5, <1>6, <1>7, <1>8, <2>1, <3>1 DEF Apart
    <3>2. ASSUME NEW i \in W PROVE Places(c) \subseteq {<<"worker", i>>}
      BY <1>2, <1>3, <1>4, <1>5, <1>6, <1>7, <1>8, <2>1, <3>2 DEF Apart
    <3>3. ASSUME NEW i \in D PROVE Places(c) \subseteq {<<"downloaded", i>>}
      BY <1>2, <1>3, <1>4, <1>5, <1>6, <1>7, <1>8, <2>1, <3>3 DEF Apart
    <3>4. ASSUME NEW i \in X PROVE Places(c) \subseteq {<<"decrypter", i>>}
      BY <1>2, <1>3, <1>4, <1>5, <1>6, <1>7, <1>8, <2>1, <3>4 DEF Apart
    <3>5. ASSUME NEW i \in E PROVE Places(c) \subseteq {<<"decrypted", i>>}
      BY <1>2, <1>3, <1>4, <1>5, <1>6, <1>7, <1>8, <2>1, <3>5 DEF Apart
    <3>6. ASSUME Q = {}, W = {}, D = {}, X = {}, E = {} PROVE Places(c) \subseteq {<<"collected", 0>>}
      BY <1>8, <3>6
    <3> QED
      BY <3>1, <3>2, <3>3, <3>4, <3>5, <3>6
  <2> QED
    BY <2>2, AtMostOne
<1> QED
  BY <1>11, <1>12, <1>13

(* What DownloadPlaylist returns is true of the chunks that are there. *)
LEMMA OutcomeHolds == DpIInv => OutcomeTrue
<1> SUFFICES ASSUME DpIInv, returned # "none" PROVE OutcomeTrue
  BY DEF OutcomeTrue
<1>1. /\ key = "zeroed" /\ QueueClosed /\ returned = Outcome
      /\ decryptsOver /\ decrypted = <<>> /\ downloadsOver /\ AllGone /\ DecryptersGone
  BY DEF DpIInv, DpEnds
<1>2. collected \in [Chunks -> {"none", "ok", "failed", "canceled"}]
  BY DEF DpIInv, DpTypes
<1>3. ASSUME ~canceled PROVE Results("none") = {} /\ Results("canceled") = {}
  <2>1. 1 \in Crew /\ 1 \in Decrypters
    BY PipelineAssumption DEF Crew, Decrypters
  <2>2. queue = <<>> /\ downloaded = <<>> /\ submitter = "finished"
    BY <1>1, <1>3, <2>1 DEF DpIInv, DpUncanceled, AllGone, DecryptersGone, QueueClosed
  <2>3. InQueue = {} /\ ChunksOf(downloaded) = {} /\ ChunksOf(decrypted) = {}
    BY <1>1, <2>2 DEF InQueue, ChunksOf
  <2>4. AtWorkers = {} /\ AtDecrypters = {}
    BY <1>1 DEF AtWorkers, AtDecrypters, AllGone, DecryptersGone, BusyAt
  <2>5. Chunks \subseteq WithResult
    BY <1>3, <2>2, <2>3, <2>4 DEF DpIInv, DpPlaced, DpTypes, All, Chunks
  <2> QED
    BY <1>3, <2>5 DEF Results, WithResult, DpIInv, DpUncanceled
<1>4. 1 \in Chunks
  BY PipelineAssumption DEF Chunks
<1> QED
  BY <1>1, <1>2, <1>3, <1>4 DEF OutcomeTrue, Outcome, Results

(* The invariant implies what the runs check of the pipeline. *)
LEMMA DpInvariance == DpIInv => DpSafe
<1> SUFFICES ASSUME DpIInv PROVE DpSafe
  OBVIOUS
<1>1. BudgetKept /\ KeyOutlivesWorkers
  BY DEF DpIInv, DpBudget, DpEnds, KeyOutlivesWorkers
<1> QED
  BY <1>1, PlacesFew, OutcomeHolds DEF DpSafe

---------------------------------------------------------------------------
(* Lectures of one process. *)

Joined == Views \union {"both"}
Inside == {"stale", "muxing", "publishing"}
AtOutput == Inside \union {"gate"}
WithSlot == {"key", "chunks"}
Stages == {"idle", "slot", "manifests", "joining", "leaving", "killed"} \union WithSlot \union AtOutput \union Verdicts
FileRecords == [by : Nat, whole : BOOLEAN]

LdTypes ==
  /\ asked \in [Invocations -> Asked] /\ stage \in [Invocations -> Stages]
  /\ verdict \in [Invocations -> Verdicts \union {"none"}]
  /\ chunkLists \in [Invocations -> SUBSET Views] /\ todo \in [Invocations -> Seq(Joined)]
  /\ made \in [Invocations -> SUBSET Joined]
  /\ gate \in [Outputs -> [refs : Int, free : BOOLEAN]]
  /\ partial \in [Outputs -> FileRecords] /\ final \in [Outputs -> FileRecords]

Planned(job, outputs) == outputs = PlanJoinResult(job) /\ outputs # {}
Elements(s) == {s[k] : k \in 1..Len(s)}
StepsLeft(i) == Elements(todo[i])

(* What an invocation has done and has to do, where it stands. *)
LdFits(i) ==
  /\ stage[i] \in {"slot", "manifests"} \union WithSlot => Selected(asked[i]) # {}
  /\ stage[i] \in {"idle", "slot", "manifests"} \union WithSlot => made[i] = {}
  /\ stage[i] = "manifests" => chunkLists[i] = Selected(asked[i])
  /\ stage[i] \in {"joining"} \union AtOutput => Planned(asked[i], made[i] \union StepsLeft(i))
  /\ stage[i] \in AtOutput => todo[i] # <<>>
  /\ stage[i] = "leaving" => verdict[i] \in Verdicts
  /\ stage[i] = "ok" \/ (stage[i] = "leaving" /\ verdict[i] = "ok") => Planned(asked[i], made[i])
  /\ \A v \in made[i] : final[<<v, asked[i].audio>>].whole
  /\ stage[i] = "publishing" => partial[Output(i)].whole

LdIInv ==
  /\ LdTypes /\ \A i \in Invocations : LdFits(i)
  /\ FinalsWhole /\ GatesExact /\ AllReturned

---------------------------------------------------------------------------
(* The invocations but i stay as they are. *)
OthersStay(i) ==
  /\ asked' = asked
  /\ \A j \in Invocations \ {i} : /\ stage'[j] = stage[j] /\ verdict'[j] = verdict[j] /\ chunkLists'[j] = chunkLists[j]
                                  /\ todo'[j] = todo[j] /\ made'[j] = made[j]

(* Invocations are finitely many, so are those at a gate. *)
LEMMA Listed ==
  /\ IsFiniteSet(Invocations)
  /\ \A S : IsFiniteSet({i \in Invocations : i \in S})
  /\ \A o \in Outputs : \A S : IsFiniteSet(AtGate(o, S)) /\ AtGate(o, S) \subseteq Invocations
<1>1. IsFiniteSet(Invocations)
  BY FS_Interval, LectureAssumption DEF Invocations
<1>2. \A T \in SUBSET Invocations : IsFiniteSet(T)
  BY <1>1, FS_Subset
<1> QED
  BY <1>1, <1>2 DEF AtGate

(* An invocation that has something to join has an output. *)
LEMMA OutputOf ==
  ASSUME LdTypes, NEW i \in Invocations, todo[i] # <<>>
  PROVE  Output(i) \in Outputs /\ Head(todo[i]) \in Joined
<1>1. asked[i].audio \in BOOLEAN
  BY LectureAssumption DEF LdTypes
<1>2. Head(todo[i]) \in Joined
  BY DEF LdTypes
<1> QED
  BY <1>1, <1>2 DEF Output, Outputs, Joined, Views

(* Who is at the gate of an output, when one invocation moves. *)
Here(i, o, S) == stage[i] \in S /\ todo[i] # <<>> /\ Output(i) = o

(* Who is at the gate of an output, when one invocation moves. *)
LEMMA AtGateMoves ==
  ASSUME NEW i \in Invocations, OthersStay(i), NEW o, NEW S
  PROVE  /\ i \in AtGate(o, S) <=> Here(i, o, S)
         /\ (Here(i, o, S)' <=> Here(i, o, S)) => AtGate(o, S)' = AtGate(o, S)
         /\ Here(i, o, S)' => AtGate(o, S)' = AtGate(o, S) \union {i}
         /\ ~Here(i, o, S)' => AtGate(o, S)' = AtGate(o, S) \ {i}
<1> DEFINE A == AtGate(o, S)
           B == AtGate(o, S)'
           h == Here(i, o, S)
           k == Here(i, o, S)'
<1>1. asked' = asked /\ \A j \in Invocations \ {i} : stage'[j] = stage[j] /\ todo'[j] = todo[j]
  BY DEF OthersStay
<1>2. \A j \in Invocations \ {i} : Output(j)' = Output(j)
  BY <1>1 DEF Output
<1>3. (i \in A <=> h) /\ (i \in B <=> k)
  BY DEF AtGate, Here
<1>4. \A j \in Invocations \ {i} : j \in B <=> j \in A
  BY <1>1, <1>2 DEF AtGate
<1>5. A \subseteq Invocations /\ B \subseteq Invocations
  BY DEF AtGate
<1> HIDE DEF A, B, h, k
<1>6. (k <=> h) => B = A
  BY <1>3, <1>4, <1>5
<1>7. k => B = A \union {i}
  BY <1>3, <1>4, <1>5
<1>8. ~k => B = A \ {i}
  BY <1>3, <1>4, <1>5
<1> QED
  BY <1>3, <1>6, <1>7, <1>8 DEF A, B, h, k

(* The same, for those inside and those that wait. *)
LEMMA GateSets ==
  ASSUME NEW i \in Invocations, OthersStay(i), NEW o
  PROVE  /\ i \in AtGate(o, Inside) <=> Here(i, o, Inside)
         /\ i \in AtGate(o, {"gate"}) <=> Here(i, o, {"gate"})
         /\ (Here(i, o, Inside)' <=> Here(i, o, Inside)) => AtGate(o, Inside)' = AtGate(o, Inside)
         /\ (Here(i, o, {"gate"})' <=> Here(i, o, {"gate"})) => AtGate(o, {"gate"})' = AtGate(o, {"gate"})
         /\ Here(i, o, Inside)' => AtGate(o, Inside)' = AtGate(o, Inside) \union {i}
         /\ Here(i, o, {"gate"})' => AtGate(o, {"gate"})' = AtGate(o, {"gate"}) \union {i}
         /\ ~Here(i, o, Inside)' => AtGate(o, Inside)' = AtGate(o, Inside) \ {i}
         /\ ~Here(i, o, {"gate"})' => AtGate(o, {"gate"})' = AtGate(o, {"gate"}) \ {i}
BY AtGateMoves

(* Nobody comes to a gate and nobody leaves it. *)
LEMMA GatesRest ==
  ASSUME GatesExact, NEW i \in Invocations, OthersStay(i), gate' = gate,
         \/ stage[i] \notin AtOutput /\ stage'[i] \notin AtOutput
         \/ stage[i] \in Inside /\ stage'[i] \in Inside /\ todo'[i] = todo[i]
  PROVE  GatesExact'
<1>1. ASSUME NEW o PROVE AtGate(o, Inside)' = AtGate(o, Inside) /\ AtGate(o, {"gate"})' = AtGate(o, {"gate"})
  <2>1. asked' = asked
    BY DEF OthersStay
  <2>2. (Here(i, o, Inside)' <=> Here(i, o, Inside)) /\ (Here(i, o, {"gate"})' <=> Here(i, o, {"gate"}))
    BY <2>1 DEF Here, Output, AtOutput, Inside
  <2> QED
    BY <2>2, GateSets
<1> QED
  BY <1>1 DEF GatesExact, Inside

(* An invocation comes to a gate, *)
LEMMA GateReferenced ==
  ASSUME LdTypes, GatesExact, NEW i \in Invocations, OthersStay(i), stage[i] \notin AtOutput, stage'[i] = "gate",
         todo'[i] = todo[i], todo[i] # <<>>, gate' = [gate EXCEPT ![Output(i)].refs = @ + 1]
  PROVE  GatesExact'
<1>1. asked' = asked /\ Output(i)' = Output(i) /\ Output(i) \in Outputs
  BY OutputOf DEF OthersStay, Output
<1>2. ASSUME NEW o \in Outputs
      PROVE  /\ AtGate(o, Inside)' = AtGate(o, Inside)
             /\ AtGate(o, {"gate"})' = AtGate(o, {"gate"}) \union (IF o = Output(i) THEN {i} ELSE {})
             /\ i \notin AtGate(o, Inside) \union AtGate(o, {"gate"})
  <2>1. /\ ~Here(i, o, Inside) /\ ~Here(i, o, {"gate"}) /\ ~Here(i, o, Inside)'
        /\ Here(i, o, {"gate"})' <=> o = Output(i)
    BY <1>1 DEF Here, AtOutput, Inside
  <2> QED
    BY <2>1, GateSets
<1>3. ASSUME NEW o \in Outputs PROVE gate'[o] = IF o = Output(i) THEN [gate[o] EXCEPT !.refs = @ + 1] ELSE gate[o]
  BY <1>1 DEF LdTypes
<1>4. ASSUME NEW o \in Outputs
      PROVE  LET inside == AtGate(o, Inside)'
             IN  /\ Cardinality(inside) <= 1 /\ gate'[o].free = (inside = {})
                 /\ gate'[o].refs = Cardinality(inside \union AtGate(o, {"gate"})')
  <2> DEFINE T == AtGate(o, Inside) \union AtGate(o, {"gate"})
  <2>1. Cardinality(AtGate(o, Inside)) <= 1 /\ gate[o].free = (AtGate(o, Inside) = {}) /\ gate[o].refs = Cardinality(T)
    BY DEF GatesExact, Inside
  <2>2. IsFiniteSet(T)
    BY Listed, FS_Union
  <2>3. i \notin T => Cardinality(T \union {i}) = Cardinality(T) + 1
    BY <2>2, FS_AddElement
  <2>4. gate'[o].free = gate[o].free /\ gate'[o].refs = IF o = Output(i) THEN gate[o].refs + 1 ELSE gate[o].refs
    BY <1>3 DEF LdTypes
  <2>5. AtGate(o, Inside)' \union AtGate(o, {"gate"})' = IF o = Output(i) THEN T \union {i} ELSE T
    BY <1>2
  <2>6. gate[o].refs \in Int
    BY DEF LdTypes
  <2>7. CASE o = Output(i)
    <3>1. i \notin T
      BY <1>2
    <3> QED
      BY <1>2, <2>1, <2>3, <2>4, <2>5, <2>7, <3>1
  <2>8. CASE o # Output(i)
    BY <1>2, <2>1, <2>4, <2>5, <2>8
  <2> QED
    BY <2>7, <2>8
<1> QED
  BY <1>4 DEF GatesExact, Inside

(* gets its token, *)
LEMMA GateEntered ==
  ASSUME LdTypes, GatesExact, NEW i \in Invocations, OthersStay(i), stage[i] = "gate", stage'[i] \in Inside,
         todo'[i] = todo[i], todo[i] # <<>>, gate[Output(i)].free, gate' = [gate EXCEPT ![Output(i)].free = FALSE]
  PROVE  GatesExact'
<1>1. asked' = asked /\ Output(i)' = Output(i) /\ Output(i) \in Outputs
  BY OutputOf DEF OthersStay, Output
<1>2. ASSUME NEW o \in Outputs
      PROVE  /\ AtGate(o, Inside)' = AtGate(o, Inside) \union (IF o = Output(i) THEN {i} ELSE {})
             /\ AtGate(o, {"gate"})' = AtGate(o, {"gate"}) \ {i}
             /\ i \in AtGate(o, {"gate"}) <=> o = Output(i)
  <2>1. /\ ~Here(i, o, Inside) /\ ~Here(i, o, {"gate"})'
        /\ Here(i, o, Inside)' <=> o = Output(i)
        /\ Here(i, o, {"gate"}) <=> o = Output(i)
    BY <1>1 DEF Here, AtOutput, Inside
  <2> QED
    BY <2>1, GateSets
<1>3. ASSUME NEW o \in Outputs PROVE gate'[o] = IF o = Output(i) THEN [gate[o] EXCEPT !.free = FALSE] ELSE gate[o]
  BY <1>1 DEF LdTypes
<1>4. ASSUME NEW o \in Outputs
      PROVE  LET inside == AtGate(o, Inside)'
             IN  /\ Cardinality(inside) <= 1 /\ gate'[o].free = (inside = {})
                 /\ gate'[o].refs = Cardinality(inside \union AtGate(o, {"gate"})')
  <2>1. Cardinality(AtGate(o, Inside)) <= 1 /\ gate[o].free = (AtGate(o, Inside) = {})
        /\ gate[o].refs = Cardinality(AtGate(o, Inside) \union AtGate(o, {"gate"}))
    BY DEF GatesExact, Inside
  <2>2. AtGate(o, Inside)' \union AtGate(o, {"gate"})' = AtGate(o, Inside) \union AtGate(o, {"gate"})
    BY <1>2
  <2>3. gate'[o].free = (IF o = Output(i) THEN FALSE ELSE gate[o].free) /\ gate'[o].refs = gate[o].refs
    BY <1>3 DEF LdTypes
  <2>4. Cardinality({i}) = 1
    BY FS_Singleton
  <2>5. o = Output(i) => AtGate(o, Inside)' = {i}
    BY <1>2, <2>1
  <2>6. o # Output(i) => AtGate(o, Inside)' = AtGate(o, Inside)
    BY <1>2
  <2>7. CASE o = Output(i)
    <3>1. AtGate(o, Inside)' = {i} /\ Cardinality(AtGate(o, Inside)') = 1 /\ gate'[o].free = FALSE
      BY <2>3, <2>4, <2>5, <2>7
    <3>2. gate'[o].free = (AtGate(o, Inside)' = {})
      BY <3>1
    <3>3. gate'[o].refs = Cardinality(AtGate(o, Inside)' \union AtGate(o, {"gate"})')
      BY <2>1, <2>2, <2>3
    <3>4. Cardinality(AtGate(o, Inside)') <= 1
      BY <3>1
    <3> QED
      BY <3>2, <3>3, <3>4
  <2>8. CASE o # Output(i)
    BY <2>1, <2>2, <2>3, <2>6, <2>8
  <2> QED
    BY <2>7, <2>8
<1> QED
  BY <1>4 DEF GatesExact, Inside

(* gives up waiting for it, *)
LEMMA GateGivenUp ==
  ASSUME LdTypes, GatesExact, NEW i \in Invocations, OthersStay(i), stage[i] = "gate", stage'[i] \notin AtOutput,
         todo[i] # <<>>, gate' = [gate EXCEPT ![Output(i)].refs = @ - 1]
  PROVE  GatesExact'
<1>1. Output(i) \in Outputs
  BY OutputOf
<1>2. ASSUME NEW o \in Outputs
      PROVE  /\ AtGate(o, Inside)' = AtGate(o, Inside) /\ i \notin AtGate(o, Inside)
             /\ AtGate(o, {"gate"})' = AtGate(o, {"gate"}) \ {i}
             /\ i \in AtGate(o, {"gate"}) <=> o = Output(i)
  <2>1. /\ ~Here(i, o, Inside) /\ ~Here(i, o, {"gate"})' /\ ~Here(i, o, Inside)'
        /\ Here(i, o, {"gate"}) <=> o = Output(i)
    BY <1>1 DEF Here, AtOutput, Inside
  <2> QED
    BY <2>1, GateSets
<1>3. ASSUME NEW o \in Outputs PROVE gate'[o] = IF o = Output(i) THEN [gate[o] EXCEPT !.refs = @ - 1] ELSE gate[o]
  BY <1>1 DEF LdTypes
<1>4. ASSUME NEW o \in Outputs
      PROVE  LET inside == AtGate(o, Inside)'
             IN  /\ Cardinality(inside) <= 1 /\ gate'[o].free = (inside = {})
                 /\ gate'[o].refs = Cardinality(inside \union AtGate(o, {"gate"})')
  <2> DEFINE T == AtGate(o, Inside) \union AtGate(o, {"gate"})
  <2>1. Cardinality(AtGate(o, Inside)) <= 1 /\ gate[o].free = (AtGate(o, Inside) = {}) /\ gate[o].refs = Cardinality(T)
    BY DEF GatesExact, Inside
  <2>2. IsFiniteSet(T)
    BY Listed, FS_Union
  <2>3. i \in T => Cardinality(T \ {i}) = Cardinality(T) - 1
    BY <2>2, FS_RemoveElement
  <2>4. gate'[o].free = gate[o].free /\ gate'[o].refs = IF o = Output(i) THEN gate[o].refs - 1 ELSE gate[o].refs
    BY <1>3 DEF LdTypes
  <2>5. AtGate(o, Inside)' \union AtGate(o, {"gate"})' = IF o = Output(i) THEN T \ {i} ELSE T
    BY <1>2
  <2>6. o = Output(i) => i \in T
    BY <1>2
  <2>7. CASE o = Output(i)
    BY <1>2, <2>1, <2>3, <2>4, <2>5, <2>6, <2>7
  <2>8. CASE o # Output(i)
    <3>1. i \notin T
      BY <1>2, <2>8
    <3> QED
      BY <1>2, <2>1, <2>4, <2>5, <2>8, <3>1
  <2> QED
    BY <2>7, <2>8
<1> QED
  BY <1>4 DEF GatesExact, Inside

(* and leaves it. *)
LEMMA GateReleased ==
  ASSUME LdTypes, GatesExact, NEW i \in Invocations, OthersStay(i), stage[i] \in Inside, stage'[i] \notin AtOutput,
         todo[i] # <<>>, Release(Output(i))
  PROVE  GatesExact'
<1>1. Output(i) \in Outputs
  BY OutputOf
<1>2. ASSUME NEW o \in Outputs
      PROVE  /\ AtGate(o, Inside)' = AtGate(o, Inside) \ {i} /\ (i \in AtGate(o, Inside) <=> o = Output(i))
             /\ AtGate(o, {"gate"})' = AtGate(o, {"gate"}) /\ i \notin AtGate(o, {"gate"})
  <2>1. /\ ~Here(i, o, {"gate"}) /\ ~Here(i, o, {"gate"})' /\ ~Here(i, o, Inside)'
        /\ Here(i, o, Inside) <=> o = Output(i)
    BY <1>1 DEF Here, AtOutput, Inside
  <2> QED
    BY <2>1, GateSets
<1>3. ASSUME NEW o \in Outputs
      PROVE  /\ o = Output(i) => gate'[o] = [refs |-> gate[o].refs - 1, free |-> TRUE]
             /\ o # Output(i) => gate'[o] = gate[o]
  BY <1>1 DEF LdTypes, Release
<1>4. ASSUME NEW o \in Outputs
      PROVE  LET inside == AtGate(o, Inside)'
             IN  /\ Cardinality(inside) <= 1 /\ gate'[o].free = (inside = {})
                 /\ gate'[o].refs = Cardinality(inside \union AtGate(o, {"gate"})')
  <2> DEFINE T == AtGate(o, Inside) \union AtGate(o, {"gate"})
  <2>1. Cardinality(AtGate(o, Inside)) <= 1 /\ gate[o].free = (AtGate(o, Inside) = {}) /\ gate[o].refs = Cardinality(T)
    BY DEF GatesExact, Inside
  <2>2. IsFiniteSet(T) /\ IsFiniteSet(AtGate(o, Inside))
    BY Listed, FS_Union
  <2>3. /\ i \in T => Cardinality(T \ {i}) = Cardinality(T) - 1
        /\ i \in AtGate(o, Inside) => Cardinality(AtGate(o, Inside) \ {i}) = Cardinality(AtGate(o, Inside)) - 1
    BY <2>2, FS_RemoveElement
  <2>4. /\ o = Output(i) => gate'[o].free = TRUE /\ gate'[o].refs = gate[o].refs - 1
        /\ o # Output(i) => gate'[o] = gate[o]
    <3>1. gate'[o] = [refs |-> gate[o].refs - 1, free |-> TRUE] => gate'[o].free = TRUE /\ gate'[o].refs = gate[o].refs - 1
      OBVIOUS
    <3> QED
      BY <1>3, <3>1
  <2>5. AtGate(o, Inside)' \union AtGate(o, {"gate"})' = IF o = Output(i) THEN T \ {i} ELSE T
    BY <1>2
  <2>6. o = Output(i) => i \in T /\ AtGate(o, Inside)' = {} /\ Cardinality(AtGate(o, Inside)') = 0
    <3>1. ASSUME o = Output(i) PROVE Cardinality(AtGate(o, Inside)') = 0
      <4>1. IsFiniteSet(AtGate(o, Inside) \ {i})
        BY <2>2, FS_RemoveElement
      <4>2. Cardinality(AtGate(o, Inside)) \in Nat /\ Cardinality(AtGate(o, Inside) \ {i}) \in Nat
        BY <2>2, <4>1, FS_CardinalityType
      <4>3. Cardinality(AtGate(o, Inside) \ {i}) = Cardinality(AtGate(o, Inside)) - 1
        BY <1>2, <2>3, <3>1
      <4>4. Cardinality(AtGate(o, Inside) \ {i}) = 0
        BY <2>1, <4>2, <4>3
      <4> QED
        BY <1>2, <4>4
    <3>2. IsFiniteSet(AtGate(o, Inside)')
      BY <1>2, <2>2, FS_RemoveElement
    <3> QED
      BY <1>2, <3>1, <3>2, FS_EmptySet
  <2>7. o # Output(i) => AtGate(o, Inside)' = AtGate(o, Inside)
    BY <1>2
  <2>8. CASE o = Output(i)
    <3>1. AtGate(o, Inside)' = {} /\ Cardinality(AtGate(o, Inside)') = 0
      BY <2>6, <2>8
    <3>2. gate'[o].free = TRUE /\ gate'[o].refs = Cardinality(T) - 1
      BY <2>1, <2>4, <2>8
    <3>3. Cardinality(AtGate(o, Inside)' \union AtGate(o, {"gate"})') = Cardinality(T) - 1
      BY <2>3, <2>5, <2>6, <2>8
    <3>4. gate'[o].free = (AtGate(o, Inside)' = {})
      BY <3>1, <3>2
    <3> QED
      BY <3>1, <3>2, <3>3, <3>4
  <2>9. CASE o # Output(i)
    <3>1. i \notin T
      BY <1>2, <2>9
    <3> QED
      BY <2>1, <2>4, <2>5, <2>7, <2>9, <3>1
  <2> QED
    BY <2>8, <2>9
<1> QED
  BY <1>4 DEF GatesExact, Inside

(* Who is inside is there alone. *)
LEMMA InsideAlone ==
  ASSUME LdTypes, GatesExact, NEW i \in Invocations, NEW j \in Invocations, stage[i] \in Inside, stage[j] \in Inside,
         todo[i] # <<>>, todo[j] # <<>>, Output(i) = Output(j)
  PROVE  i = j
<1> DEFINE T == AtGate(Output(i), Inside)
<1>1. Output(i) \in Outputs
  BY OutputOf
<1>2. i \in T /\ j \in T
  BY DEF AtGate
<1>3. IsFiniteSet(T) /\ Cardinality(T) <= 1
  BY <1>1, Listed DEF GatesExact, Inside
<1> HIDE DEF T
<1>4. Cardinality(T) \in Nat /\ Cardinality(T) # 0
  BY <1>2, <1>3, FS_CardinalityType, FS_EmptySet
<1>5. Cardinality(T) = 1
  BY <1>3, <1>4
<1>6. PICK x : T = {x}
  BY <1>3, <1>5, FS_Singleton
<1> QED
  BY <1>2, <1>6

---------------------------------------------------------------------------
(* What a list of outputs holds. *)
LEMMA ElementsOf ==
  /\ Elements(<<>>) = {} /\ \A a : Elements(<<a>>) = {a}
  /\ \A S : \A s, t \in Seq(S) : s \o t \in Seq(S) /\ Elements(s \o t) = Elements(s) \union Elements(t)
  /\ \A S : \A s \in Seq(S) : s # <<>> => Elements(s) = {Head(s)} \union Elements(Tail(s)) /\ Tail(s) \in Seq(S)
<1>1. Elements(<<>>) = {}
  BY DEF Elements
<1>2. ASSUME NEW a PROVE Elements(<<a>>) = {a}
  <2>1. Len(<<a>>) = 1 /\ <<a>>[1] = a
    OBVIOUS
  <2> QED
    BY <2>1 DEF Elements
<1>3. ASSUME NEW S, NEW s \in Seq(S), NEW t \in Seq(S)
      PROVE  s \o t \in Seq(S) /\ Elements(s \o t) = Elements(s) \union Elements(t)
  <2>1. s \o t \in Seq(S) /\ Len(s \o t) = Len(s) + Len(t) /\ Len(s) \in Nat /\ Len(t) \in Nat
    OBVIOUS
  <2>2. \A k \in 1..Len(s) + Len(t) : (s \o t)[k] = IF k <= Len(s) THEN s[k] ELSE t[k - Len(s)]
    OBVIOUS
  <2>3. \A x : x \in Elements(s \o t) => x \in Elements(s) \union Elements(t)
    <3>1. ASSUME NEW k \in 1..Len(s) + Len(t) PROVE (s \o t)[k] \in Elements(s) \union Elements(t)
      <4>1. CASE k <= Len(s)
        BY <2>1, <2>2, <4>1 DEF Elements
      <4>2. CASE k > Len(s)
        <5>1. k - Len(s) \in 1..Len(t) /\ (s \o t)[k] = t[k - Len(s)]
          BY <2>1, <2>2, <4>2
        <5> QED
          BY <5>1 DEF Elements
      <4> QED
        BY <2>1, <4>1, <4>2
    <3> QED
      BY <2>1, <3>1 DEF Elements
  <2>4. \A x : x \in Elements(s) => x \in Elements(s \o t)
    <3>1. ASSUME NEW k \in 1..Len(s) PROVE k \in 1..Len(s) + Len(t) /\ (s \o t)[k] = s[k]
      BY <2>1, <2>2
    <3> QED
      BY <2>1, <3>1 DEF Elements
  <2>5. \A x : x \in Elements(t) => x \in Elements(s \o t)
    <3>1. ASSUME NEW k \in 1..Len(t) PROVE k + Len(s) \in 1..Len(s) + Len(t) /\ (s \o t)[k + Len(s)] = t[k]
      BY <2>1, <2>2
    <3> QED
      BY <2>1, <3>1 DEF Elements
  <2> QED
    BY <2>1, <2>3, <2>4, <2>5
<1>4. ASSUME NEW S, NEW s \in Seq(S), s # <<>>
      PROVE  Elements(s) = {Head(s)} \union Elements(Tail(s)) /\ Tail(s) \in Seq(S)
  <2>1. Tail(s) \in Seq(S) /\ Len(Tail(s)) = Len(s) - 1 /\ Len(s) \in Nat \ {0} /\ Head(s) = s[1]
    BY <1>4
  <2>2. \A k \in 1..Len(s) - 1 : Tail(s)[k] = s[k + 1]
    BY <2>1
  <2>3. \A x : x \in Elements(s) => x \in {Head(s)} \union Elements(Tail(s))
    <3>1. ASSUME NEW k \in 1..Len(s) PROVE s[k] \in {Head(s)} \union Elements(Tail(s))
      <4>1. CASE k = 1
        BY <2>1, <4>1
      <4>2. CASE k # 1
        <5>1. k - 1 \in 1..Len(Tail(s)) /\ Tail(s)[k - 1] = s[k]
          BY <2>1, <2>2, <4>2
        <5> QED
          BY <5>1 DEF Elements
      <4> QED
        BY <4>1, <4>2
    <3> QED
      BY <3>1 DEF Elements
  <2>4. \A x : x \in Elements(Tail(s)) => x \in Elements(s)
    <3>1. ASSUME NEW k \in 1..Len(Tail(s)) PROVE k + 1 \in 1..Len(s) /\ s[k + 1] = Tail(s)[k]
      BY <2>1, <2>2
    <3> QED
      BY <3>1 DEF Elements
  <2>5. Head(s) \in Elements(s)
    BY <2>1 DEF Elements
  <2> QED
    BY <2>1, <2>3, <2>4, <2>5
<1> QED
  BY <1>1, <1>2, <1>3, <1>4

(* With the manifests of all selected views, what is joined is what was planned. *)
LEMMA JoinsThePlan ==
  ASSUME NEW job \in Asked
  PROVE  /\ JoinOrder(job, Selected(job)) \in Seq(Joined)
         /\ Elements(JoinOrder(job, Selected(job))) = PlanJoinResult(job)
         /\ Selected(job) \subseteq PlanJoinResult(job) /\ Selected(job) \subseteq Views
<1> DEFINE L == IF "left" \in Selected(job) /\ Includes(job, "left") THEN <<"left">> ELSE <<>>
           R == IF "right" \in Selected(job) /\ Includes(job, "right") THEN <<"right">> ELSE <<>>
           B == IF Selected(job) = Views /\ job.views = "both" THEN <<"both">> ELSE <<>>
<1>1. JoinOrder(job, Selected(job)) = L \o R \o B
  BY DEF JoinOrder
<1>2. /\ L \in Seq(Joined) /\ Elements(L) = IF "left" \in Selected(job) THEN {"left"} ELSE {}
      /\ R \in Seq(Joined) /\ Elements(R) = IF "right" \in Selected(job) THEN {"right"} ELSE {}
      /\ B \in Seq(Joined) /\ Elements(B) = IF job.views = "both" /\ Selected(job) = Views THEN {"both"} ELSE {}
  <2>1. <<"left">> \in Seq(Joined) /\ <<"right">> \in Seq(Joined) /\ <<"both">> \in Seq(Joined) /\ <<>> \in Seq(Joined)
    BY DEF Joined, Views
  <2>2. Elements(<<"left">>) = {"left"} /\ Elements(<<"right">>) = {"right"} /\ Elements(<<"both">>) = {"both"} /\ Elements(<<>>) = {}
    BY ElementsOf
  <2>3. \A v \in Selected(job) : Includes(job, v)
    BY DEF Selected
  <2> QED
    BY <2>1, <2>2, <2>3
<1> HIDE DEF L, R, B
<1>3. L \o R \in Seq(Joined) /\ Elements(L \o R) = Elements(L) \union Elements(R)
  BY <1>2, ElementsOf
<1>4. (L \o R) \o B \in Seq(Joined) /\ Elements((L \o R) \o B) = Elements(L) \union Elements(R) \union Elements(B)
  <2> DEFINE P == L \o R
  <2>1. P \in Seq(Joined)
    BY <1>3
  <2> HIDE DEF P
  <2>2. P \o B \in Seq(Joined) /\ Elements(P \o B) = Elements(P) \union Elements(B)
    BY <1>2, <2>1, ElementsOf
  <2> QED
    BY <1>3, <2>2 DEF P
<1>5. Elements(L) \union Elements(R) = Selected(job)
  BY <1>2 DEF Selected, Views
<1>6. Selected(job) \subseteq Views
  BY DEF Selected
<1> QED
  BY <1>1, <1>2, <1>4, <1>5, <1>6 DEF PlanJoinResult

---------------------------------------------------------------------------
(* The cause that is told of one or two failed chunks. *)
Told(c, before) == IF c = "login" \/ (c = "origin" /\ before = "error") THEN c ELSE before

(* chunkFailureCause of one failed chunk and of two. *)
LEMMA CauseTold ==
  /\ \A a : ChunkFailureCause(<<a>>) = Told(a, "error")
  /\ \A a, b : ChunkFailureCause(<<a, b>>) = Told(b, Told(a, "error"))
<1>1. ASSUME NEW a PROVE ChunkFailureCause(<<a>>) = Told(a, "error")
  <2> DEFINE c == <<a>>
             g == [n \in 0..Len(c) |-> IF n = 0 THEN "error" ELSE Told(a, "error")]
             Ok(f) == f = [n \in 0..Len(c) |-> IF n = 0 THEN "error"
                             ELSE IF c[n] = "login" \/ (c[n] = "origin" /\ f[n - 1] = "error") THEN c[n] ELSE f[n - 1]]
             h == CHOOSE f : Ok(f)
  <2>1. Len(c) = 1 /\ c[1] = a
    OBVIOUS
  <2>2. Ok(g)
    <3>1. \A n \in 0..1 : n = 0 \/ n = 1
      OBVIOUS
    <3>2. g[0] = "error"
      BY <2>1
    <3> QED
      BY <2>1, <3>1, <3>2 DEF Told
  <2>3. Ok(h)
    BY <2>2
  <2>4. ChunkFailureCause(c) = h[Len(c)]
    BY DEF ChunkFailureCause
  <2> HIDE DEF h, c, g
  <2>5. h[0] = "error"
    BY <2>1, <2>3
  <2>6. h[1] = Told(a, "error")
    BY <2>1, <2>3, <2>5 DEF Told
  <2> QED
    BY <2>1, <2>4, <2>6 DEF c
<1>2. ASSUME NEW a, NEW b PROVE ChunkFailureCause(<<a, b>>) = Told(b, Told(a, "error"))
  <2> DEFINE c == <<a, b>>
             g == [n \in 0..Len(c) |-> IF n = 0 THEN "error" ELSE IF n = 1 THEN Told(a, "error") ELSE Told(b, Told(a, "error"))]
             Ok(f) == f = [n \in 0..Len(c) |-> IF n = 0 THEN "error"
                             ELSE IF c[n] = "login" \/ (c[n] = "origin" /\ f[n - 1] = "error") THEN c[n] ELSE f[n - 1]]
             h == CHOOSE f : Ok(f)
  <2>1. Len(c) = 2 /\ c[1] = a /\ c[2] = b
    OBVIOUS
  <2>2. Ok(g)
    <3>1. \A n \in 0..2 : n = 0 \/ n = 1 \/ n = 2
      OBVIOUS
    <3>2. g[0] = "error" /\ g[1] = Told(a, "error")
      BY <2>1
    <3> QED
      BY <2>1, <3>1, <3>2 DEF Told
  <2>3. Ok(h)
    BY <2>2
  <2>4. ChunkFailureCause(c) = h[Len(c)]
    BY DEF ChunkFailureCause
  <2> HIDE DEF h, c, g
  <2>5. h[0] = "error"
    BY <2>1, <2>3
  <2>6. h[1] = Told(a, "error")
    BY <2>1, <2>3, <2>5 DEF Told
  <2>7. h[2] = Told(b, Told(a, "error"))
    BY <2>1, <2>3, <2>6 DEF Told
  <2> QED
    BY <2>1, <2>4, <2>7 DEF c
<1> QED
  BY <1>1, <1>2

(* A login failure of any chunk is told as one. *)
LEMMA Ranked ==
  CausesRanked /\ \A causes \in ChunkErrors : ChunkFailureCause(causes) \in {"login", "origin", "error"}
<1> DEFINE E == {"login", "origin", "error"}
<1>1. ASSUME NEW a \in E
      PROVE  /\ ChunkFailureCause(<<a>>) \in E /\ (ChunkFailureCause(<<a>>) = "login" <=> Contains(<<a>>, "login"))
             /\ ChunkFailureCause(<<a>>) = "error" <=> ToSet(<<a>>) = {"error"}
  <2>1. Contains(<<a>>, "login") <=> a = "login"
    BY DEF Contains
  <2>2. ToSet(<<a>>) = {a}
    BY DEF ToSet
  <2> QED
    BY <2>1, <2>2, CauseTold DEF Told
<1>2. ASSUME NEW a \in E, NEW b \in E
      PROVE  /\ ChunkFailureCause(<<a, b>>) \in E /\ (ChunkFailureCause(<<a, b>>) = "login" <=> Contains(<<a, b>>, "login"))
             /\ ChunkFailureCause(<<a, b>>) = "error" <=> ToSet(<<a, b>>) = {"error"}
  <2>1. Contains(<<a, b>>, "login") <=> a = "login" \/ b = "login"
    BY DEF Contains
  <2>2. ToSet(<<a, b>>) = {a, b}
    BY DEF ToSet
  <2> QED
    BY <2>1, <2>2, CauseTold DEF Told
<1> QED
  BY <1>1, <1>2 DEF CausesRanked, ChunkErrors

---------------------------------------------------------------------------
(* Slots, keys and workspaces when one invocation moves. *)
LEMMA ReturnedStays ==
  ASSUME AllReturned, NEW i \in Invocations, OthersStay(i),
         \/ (stage[i] \in WithSlot <=> stage'[i] \in WithSlot) /\ slots' = slots
         \/ stage[i] \notin WithSlot /\ stage'[i] \in WithSlot /\ slots < PlaylistSlots /\ slots' = slots + 1
         \/ stage[i] \in WithSlot /\ stage'[i] \notin WithSlot /\ slots' = slots - 1,
         holdsKey' = IF stage'[i] = "chunks" THEN holdsKey \union {i} ELSE holdsKey \ {i},
         workspace \ {i} \subseteq workspace', stage'[i] \in Over \union {"idle"} \/ i \in workspace'
  PROVE  AllReturned'
<1> DEFINE K == {j \in Invocations : stage[j] \in {"key", "chunks"}}
           M == {j \in Invocations : stage'[j] \in {"key", "chunks"}}
<1>1. slots = Cardinality(K) /\ slots <= PlaylistSlots /\ holdsKey = {j \in Invocations : stage[j] = "chunks"} /\ Running \subseteq workspace
  BY DEF AllReturned
<1>2. \A j \in Invocations \ {i} : stage'[j] = stage[j]
  BY DEF OthersStay
<1>3. holdsKey' = {j \in Invocations : stage'[j] = "chunks"}
  BY <1>1, <1>2
<1>4. Running' \subseteq workspace'
  BY <1>1, <1>2 DEF Running, Over, Verdicts, Failures
<1>5. IsFiniteSet(K)
  BY Listed, FS_Subset
<1>6. Cardinality(K) \in Nat /\ PlaylistSlots \in Nat
  BY <1>5, FS_CardinalityType, LectureAssumption
<1>7. slots' = Cardinality(M) /\ slots' <= PlaylistSlots
  <2>1. CASE (stage[i] \in WithSlot <=> stage'[i] \in WithSlot) /\ slots' = slots
    <3>1. M = K
      BY <1>2, <2>1 DEF WithSlot
    <3> QED
      BY <1>1, <2>1, <3>1
  <2>2. CASE stage[i] \notin WithSlot /\ stage'[i] \in WithSlot /\ slots < PlaylistSlots /\ slots' = slots + 1
    <3>1. M = K \union {i} /\ i \notin K
      BY <1>2, <2>2 DEF WithSlot
    <3>2. Cardinality(M) = Cardinality(K) + 1
      BY <1>5, <3>1, FS_AddElement
    <3> QED
      BY <1>1, <1>6, <2>2, <3>2
  <2>3. CASE stage[i] \in WithSlot /\ stage'[i] \notin WithSlot /\ slots' = slots - 1
    <3>1. M = K \ {i} /\ i \in K
      BY <1>2, <2>3 DEF WithSlot
    <3>2. Cardinality(M) = Cardinality(K) - 1
      BY <1>5, <3>1, FS_RemoveElement
    <3> QED
      BY <1>1, <1>6, <2>3, <3>2
  <2> QED
    BY <2>1, <2>2, <2>3
<1> QED
  BY <1>3, <1>4, <1>7 DEF AllReturned

(* What the files come to when one invocation moves, and what the others rely on. *)
LEMMA FilesStay ==
  ASSUME LdIInv, NEW i \in Invocations, OthersStay(i), LdFits(i)',
         \/ final' = final
         \/ stage[i] = "publishing" /\ final' = [final EXCEPT ![Output(i)] = partial[Output(i)]],
         \/ partial' = partial
         \/ stage[i] \in Inside /\ \E r : partial' = [partial EXCEPT ![Output(i)] = r]
  PROVE  (\A j \in Invocations : LdFits(j)') /\ FinalsWhole'
<1>1. LdTypes /\ GatesExact /\ FinalsWhole /\ LdFits(i)
  BY DEF LdIInv
<1>2. stage[i] \in Inside => todo[i] # <<>> /\ Output(i) \in Outputs
  BY <1>1, OutputOf DEF LdFits, AtOutput
<1>3. stage[i] = "publishing" => stage[i] \in Inside /\ partial[Output(i)].whole
  BY <1>1 DEF LdFits, Inside
<1>4. \A o \in Outputs : final'[o] = final[o] \/ final'[o].whole
  BY <1>1, <1>2, <1>3 DEF LdTypes
<1>5. FinalsWhole'
  BY <1>1, <1>4 DEF FinalsWhole
<1>6. ASSUME NEW j \in Invocations \ {i} PROVE LdFits(j)'
  <2>1. LdFits(j) /\ asked' = asked /\ stage'[j] = stage[j] /\ verdict'[j] = verdict[j] /\ chunkLists'[j] = chunkLists[j]
        /\ todo'[j] = todo[j] /\ made'[j] = made[j]
    BY DEF LdIInv, OthersStay
  <2>2. Output(j)' = Output(j) /\ StepsLeft(j)' = StepsLeft(j)
    BY <2>1 DEF Output, StepsLeft
  <2>3. \A v \in made[j] : <<v, asked[j].audio>> \in Outputs
    BY <1>1, LectureAssumption DEF LdTypes, Outputs, Joined
  <2>4. \A v \in made'[j] : final'[<<v, asked'[j].audio>>].whole
    BY <1>4, <2>1, <2>3 DEF LdFits
  <2>5. stage'[j] = "publishing" => partial'[Output(j)].whole
    <3>1. SUFFICES ASSUME stage[j] = "publishing" PROVE partial'[Output(j)].whole
      BY <2>1
    <3>2. todo[j] # <<>> /\ stage[j] \in Inside /\ partial[Output(j)].whole
      BY <2>1, <3>1 DEF LdFits, AtOutput, Inside
    <3>3. Output(j) \in Outputs
      BY <1>1, <3>2, OutputOf
    <3>4. CASE partial' = partial
      BY <3>2, <3>4
    <3>5. CASE stage[i] \in Inside /\ \E r : partial' = [partial EXCEPT ![Output(i)] = r]
      <4>1. Output(i) # Output(j)
        BY <1>1, <1>2, <3>2, <3>5, InsideAlone
      <4> QED
        BY <1>1, <3>2, <3>3, <3>5, <4>1 DEF LdTypes
    <3> QED
      BY <3>4, <3>5
  <2>6. /\ stage[j] \in {"slot", "manifests"} \union WithSlot => Selected(asked[j]) # {}
        /\ stage[j] \in {"idle", "slot", "manifests"} \union WithSlot => made[j] = {}
        /\ stage[j] = "manifests" => chunkLists[j] = Selected(asked[j])
        /\ stage[j] \in {"joining"} \union AtOutput => Planned(asked[j], made[j] \union StepsLeft(j))
        /\ stage[j] \in AtOutput => todo[j] # <<>>
        /\ stage[j] = "leaving" => verdict[j] \in Verdicts
        /\ stage[j] = "ok" \/ (stage[j] = "leaving" /\ verdict[j] = "ok") => Planned(asked[j], made[j])
    BY <2>1 DEF LdFits
  <2> QED
    BY <2>1, <2>2, <2>4, <2>5, <2>6 DEF LdFits
<1> QED
  BY <1>5, <1>6

(* What an action of one invocation has to show. *)
LEMMA OneMoves ==
  ASSUME LdIInv, NEW i \in Invocations, OthersStay(i), LdTypes', LdFits(i)', GatesExact', AllReturned',
         \/ final' = final
         \/ stage[i] = "publishing" /\ final' = [final EXCEPT ![Output(i)] = partial[Output(i)]],
         \/ partial' = partial
         \/ stage[i] \in Inside /\ \E r : partial' = [partial EXCEPT ![Output(i)] = r]
  PROVE  LdIInv'
BY FilesStay DEF LdIInv

---------------------------------------------------------------------------

(* An invocation goes on to another stage. *)
LEMMA WentOn ==
  ASSUME LdTypes, NEW i \in Invocations, NEW from, NEW to \in Stages, StageTo(i, from, to)
  PROVE  /\ stage[i] = from /\ stage'[i] = to /\ stage' \in [Invocations -> Stages]
         /\ verdict' = verdict /\ verdict' \in [Invocations -> Verdicts \union {"none"}]
         /\ \A j \in Invocations \ {i} : stage'[j] = stage[j]
BY DEF LdTypes, StageTo

(* It is on its way out, with what it will return. *)
LEMMA WentOut ==
  ASSUME LdTypes, NEW i \in Invocations, NEW from, NEW w \in Verdicts, LeaveWith(i, from, w)
  PROVE  /\ stage[i] = from /\ stage'[i] = "leaving" /\ stage' \in [Invocations -> Stages]
         /\ verdict'[i] = w /\ verdict' \in [Invocations -> Verdicts \union {"none"}]
         /\ \A j \in Invocations \ {i} : stage'[j] = stage[j] /\ verdict'[j] = verdict[j]
BY DEF LdTypes, LeaveWith, Stages

(* An invocation that leaves with a failure relies on nothing any more. *)
LEMMA LeavesFailed ==
  ASSUME LdIInv, NEW i \in Invocations, NEW from, NEW w \in Failures, LeaveWith(i, from, w),
         asked' = asked, todo' = todo, made' = made, final' = final,
         \A j \in Invocations \ {i} : chunkLists'[j] = chunkLists[j]
  PROVE  OthersStay(i) /\ LdFits(i)' /\ stage[i] = from /\ stage'[i] = "leaving"
         /\ stage' \in [Invocations -> Stages] /\ verdict' \in [Invocations -> Verdicts \union {"none"}]
<1>1. LdTypes /\ LdFits(i) /\ w \in Verdicts /\ w # "ok"
  BY DEF LdIInv, Verdicts, Failures
<1>2. /\ stage[i] = from /\ stage'[i] = "leaving" /\ stage' \in [Invocations -> Stages]
      /\ verdict'[i] = w /\ verdict' \in [Invocations -> Verdicts \union {"none"}]
      /\ \A j \in Invocations \ {i} : stage'[j] = stage[j] /\ verdict'[j] = verdict[j]
  BY <1>1, WentOut
<1>3. OthersStay(i)
  BY <1>2 DEF OthersStay
<1>4. \A v \in made'[i] : final'[<<v, asked'[i].audio>>].whole
  BY <1>1 DEF LdFits
<1>5. LdFits(i)'
  BY <1>1, <1>2, <1>4 DEF LdFits, WithSlot, AtOutput, Inside
<1> QED
  BY <1>2, <1>3, <1>5

(* The files, the gates and what is joined stay as they are, outside of the gates. *)
LEMMA OutsideMoves ==
  ASSUME LdIInv, NEW i \in Invocations, OthersStay(i), LdFits(i)', UNCHANGED fileVars,
         stage[i] \notin AtOutput, stage'[i] \notin AtOutput,
         stage' \in [Invocations -> Stages], verdict' \in [Invocations -> Verdicts \union {"none"}],
         chunkLists' \in [Invocations -> SUBSET Views], todo' \in [Invocations -> Seq(Joined)],
         made' = made, AllReturned'
  PROVE  LdIInv'
<1>1. gate' = gate /\ partial' = partial /\ final' = final /\ asked' = asked
  BY DEF fileVars, OthersStay
<1>2. LdTypes'
  BY <1>1 DEF LdIInv, LdTypes
<1>3. GatesExact'
  BY <1>1, GatesRest DEF LdIInv
<1> QED
  BY <1>1, <1>2, <1>3, OneMoves

(* The checks and the workspace. *)
LEMMA BeginDownloadStep ==
  ASSUME LdIInv, NEW i \in Invocations, BeginDownload(i)
  PROVE  LdIInv'
<1>1. /\ asked' = asked /\ ending' = ending /\ holdsKey' = holdsKey /\ slots' = slots
      /\ chunkLists' = chunkLists /\ todo' = todo /\ made' = made /\ UNCHANGED fileVars
  BY DEF BeginDownload, joinVars
<1>2. LdTypes /\ LdFits(i) /\ AllReturned
  BY DEF LdIInv
<1>3. PICK to \in {"canceled", "noMedia", "error", "slot"} :
        /\ StageTo(i, "idle", to) /\ workspace \subseteq workspace'
        /\ to = "slot" => Selected(asked[i]) # {} /\ i \in workspace'
  BY DEF BeginDownload
<1>4. /\ stage[i] = "idle" /\ stage'[i] = to /\ stage' \in [Invocations -> Stages]
      /\ verdict' = verdict /\ verdict' \in [Invocations -> Verdicts \union {"none"}]
      /\ \A j \in Invocations \ {i} : stage'[j] = stage[j]
  <2>1. to \in Stages
    BY DEF Stages, Verdicts, Failures
  <2> QED
    BY <1>2, <1>3, <2>1, WentOn
<1>5. OthersStay(i)
  BY <1>1, <1>4 DEF OthersStay
<1>6. LdFits(i)'
  <2>1. made[i] = {}
    BY <1>2, <1>4 DEF LdFits
  <2> QED
    BY <1>1, <1>3, <1>4, <2>1 DEF LdFits, WithSlot, AtOutput, Inside
<1>7. AllReturned'
  <2>1. i \notin holdsKey
    BY <1>2, <1>4 DEF AllReturned
  <2>2. holdsKey' = IF stage'[i] = "chunks" THEN holdsKey \union {i} ELSE holdsKey \ {i}
    BY <1>1, <1>4, <2>1
  <2>3. stage'[i] \in Over \union {"idle"} \/ i \in workspace'
    BY <1>3, <1>4 DEF Over, Verdicts, Failures
  <2>4. (stage[i] \in WithSlot <=> stage'[i] \in WithSlot) /\ slots' = slots
    BY <1>1, <1>4 DEF WithSlot
  <2> QED
    BY <1>2, <1>3, <1>5, <2>2, <2>3, <2>4, ReturnedStays
<1>8. stage[i] \notin AtOutput /\ stage'[i] \notin AtOutput
  BY <1>4 DEF AtOutput, Inside
<1> QED
  BY <1>1, <1>2, <1>4, <1>5, <1>6, <1>7, <1>8, OutsideMoves DEF LdTypes

(* Slots and keys of an invocation that runs and keeps its workspace. *)
LEMMA RunningReturns ==
  ASSUME AllReturned, NEW i \in Invocations, OthersStay(i), workspace' = workspace, stage[i] \notin Over \union {"idle"},
         \/ (stage[i] \in WithSlot <=> stage'[i] \in WithSlot) /\ slots' = slots
         \/ stage[i] \notin WithSlot /\ stage'[i] \in WithSlot /\ slots < PlaylistSlots /\ slots' = slots + 1
         \/ stage[i] \in WithSlot /\ stage'[i] \notin WithSlot /\ slots' = slots - 1,
         holdsKey' = IF stage'[i] = "chunks" THEN holdsKey \union {i} ELSE holdsKey \ {i}
  PROVE  AllReturned'
<1>1. i \in workspace
  BY DEF AllReturned, Running
<1> QED
  BY <1>1, ReturnedStays

(* A playlist slot is taken, or waited for in vain. *)
LEMMA AcquirePlaylistSlotStep ==
  ASSUME LdIInv, NEW i \in Invocations, AcquirePlaylistSlot(i)
  PROVE  LdIInv'
<1>1. /\ asked' = asked /\ ending' = ending /\ holdsKey' = holdsKey /\ workspace' = workspace
      /\ chunkLists' = chunkLists /\ todo' = todo /\ made' = made /\ UNCHANGED fileVars /\ final' = final
  BY DEF AcquirePlaylistSlot, joinVars, fileVars
<1>2. LdTypes /\ LdFits(i) /\ AllReturned
  BY DEF LdIInv
<1>3. /\ OthersStay(i) /\ LdFits(i)' /\ stage[i] = "slot" /\ stage'[i] \in {"key", "leaving"}
      /\ stage' \in [Invocations -> Stages] /\ verdict' \in [Invocations -> Verdicts \union {"none"}]
      /\ stage'[i] = "key" => slots < PlaylistSlots /\ slots' = slots + 1
      /\ stage'[i] = "leaving" => slots' = slots
  <2>1. CASE slots < PlaylistSlots /\ StageTo(i, "slot", "key") /\ slots' = slots + 1
    <3>1. "key" \in Stages
      BY DEF Stages, WithSlot
    <3>2. /\ stage[i] = "slot" /\ stage'[i] = "key" /\ stage' \in [Invocations -> Stages]
          /\ verdict' = verdict /\ verdict' \in [Invocations -> Verdicts \union {"none"}]
          /\ \A j \in Invocations \ {i} : stage'[j] = stage[j]
      BY <1>2, <2>1, <3>1, WentOn
    <3>3. OthersStay(i)
      BY <1>1, <3>2 DEF OthersStay
    <3>4. LdFits(i)'
      BY <1>1, <1>2, <3>2 DEF LdFits, WithSlot, AtOutput, Inside
    <3> QED
      BY <2>1, <3>2, <3>3, <3>4
  <2>2. CASE Leave(i, "slot", Canceled(i)) /\ slots' = slots
    <3>1. PICK w \in Failures : LeaveWith(i, "slot", w)
      BY <2>2 DEF Leave, Canceled, Failures
    <3> QED
      BY <1>1, <2>2, <3>1, LeavesFailed
  <2> QED
    BY <2>1, <2>2 DEF AcquirePlaylistSlot
<1>4. AllReturned'
  <2>1. i \notin holdsKey
    BY <1>2, <1>3 DEF AllReturned
  <2>2. holdsKey' = IF stage'[i] = "chunks" THEN holdsKey \union {i} ELSE holdsKey \ {i}
    BY <1>1, <1>3, <2>1
  <2>3. stage[i] \notin Over \union {"idle"}
    BY <1>3 DEF Over, Verdicts, Failures
  <2>4. \/ (stage[i] \in WithSlot <=> stage'[i] \in WithSlot) /\ slots' = slots
        \/ stage[i] \notin WithSlot /\ stage'[i] \in WithSlot /\ slots < PlaylistSlots /\ slots' = slots + 1
    BY <1>3 DEF WithSlot
  <2> QED
    BY <1>1, <1>2, <1>3, <2>2, <2>3, <2>4, RunningReturns
<1>5. stage[i] \notin AtOutput /\ stage'[i] \notin AtOutput
  BY <1>3 DEF AtOutput, Inside
<1> QED
  BY <1>1, <1>2, <1>3, <1>4, <1>5, OutsideMoves DEF LdTypes

(* The key is fetched, or the slot given back. *)
LEMMA FetchDecryptionKeyStep ==
  ASSUME LdIInv, NEW i \in Invocations, FetchDecryptionKey(i)
  PROVE  LdIInv'
<1>1. /\ asked' = asked /\ ending' = ending /\ workspace' = workspace
      /\ chunkLists' = chunkLists /\ todo' = todo /\ made' = made /\ UNCHANGED fileVars /\ final' = final
  BY DEF FetchDecryptionKey, joinVars, fileVars
<1>2. LdTypes /\ LdFits(i) /\ AllReturned
  BY DEF LdIInv
<1>3. /\ OthersStay(i) /\ LdFits(i)' /\ stage[i] = "key" /\ stage'[i] \in {"chunks", "leaving"}
      /\ stage' \in [Invocations -> Stages] /\ verdict' \in [Invocations -> Verdicts \union {"none"}]
      /\ stage'[i] = "chunks" => holdsKey' = holdsKey \union {i} /\ slots' = slots
      /\ stage'[i] = "leaving" => slots' = slots - 1 /\ holdsKey' = holdsKey
  <2>1. CASE StageTo(i, "key", "chunks") /\ holdsKey' = holdsKey \union {i} /\ slots' = slots
    <3>1. "chunks" \in Stages
      BY DEF Stages, WithSlot
    <3>2. /\ stage[i] = "key" /\ stage'[i] = "chunks" /\ stage' \in [Invocations -> Stages]
          /\ verdict' = verdict /\ verdict' \in [Invocations -> Verdicts \union {"none"}]
          /\ \A j \in Invocations \ {i} : stage'[j] = stage[j]
      BY <1>2, <2>1, <3>1, WentOn
    <3>3. OthersStay(i)
      BY <1>1, <3>2 DEF OthersStay
    <3>4. LdFits(i)'
      BY <1>1, <1>2, <3>2 DEF LdFits, WithSlot, AtOutput, Inside
    <3> QED
      BY <2>1, <3>2, <3>3, <3>4
  <2>2. CASE Leave(i, "key", {"login", "error"} \union Canceled(i)) /\ slots' = slots - 1 /\ holdsKey' = holdsKey
    <3>1. PICK w \in Failures : LeaveWith(i, "key", w)
      BY <2>2 DEF Leave, Canceled, Failures
    <3> QED
      BY <1>1, <2>2, <3>1, LeavesFailed
  <2> QED
    BY <2>1, <2>2 DEF FetchDecryptionKey
<1>4. AllReturned'
  <2>1. i \notin holdsKey
    BY <1>2, <1>3 DEF AllReturned
  <2>2. holdsKey' = IF stage'[i] = "chunks" THEN holdsKey \union {i} ELSE holdsKey \ {i}
    BY <1>1, <1>3, <2>1
  <2>3. stage[i] \notin Over \union {"idle"}
    BY <1>3 DEF Over, Verdicts, Failures
  <2>4. \/ (stage[i] \in WithSlot <=> stage'[i] \in WithSlot) /\ slots' = slots
        \/ stage[i] \in WithSlot /\ stage'[i] \notin WithSlot /\ slots' = slots - 1
    BY <1>3 DEF WithSlot
  <2> QED
    BY <1>1, <1>2, <1>3, <2>2, <2>3, <2>4, RunningReturns
<1>5. stage[i] \notin AtOutput /\ stage'[i] \notin AtOutput
  BY <1>3 DEF AtOutput, Inside
<1> QED
  BY <1>1, <1>2, <1>3, <1>4, <1>5, OutsideMoves DEF LdTypes

(* The chunks are there or have failed; slot and key are given back. *)
LEMMA DownloadChunksStep ==
  ASSUME LdIInv, NEW i \in Invocations, DownloadChunks(i)
  PROVE  LdIInv'
<1>1. /\ asked' = asked /\ ending' = ending /\ workspace' = workspace
      /\ todo' = todo /\ made' = made /\ UNCHANGED fileVars /\ final' = final
      /\ slots' = slots - 1 /\ holdsKey' = holdsKey \ {i}
  BY DEF DownloadChunks, joinVars, fileVars
<1>2. LdTypes /\ LdFits(i) /\ AllReturned
  BY DEF LdIInv
<1>3. /\ OthersStay(i) /\ LdFits(i)' /\ stage[i] = "chunks" /\ stage'[i] \in {"manifests", "leaving"}
      /\ stage' \in [Invocations -> Stages] /\ verdict' \in [Invocations -> Verdicts \union {"none"}]
      /\ chunkLists' \in [Invocations -> SUBSET Views]
  <2>1. CASE StageTo(i, "chunks", "manifests") /\ chunkLists' = [chunkLists EXCEPT ![i] = Selected(asked[i])]
    <3>1. "manifests" \in Stages
      BY DEF Stages
    <3>2. /\ stage[i] = "chunks" /\ stage'[i] = "manifests" /\ stage' \in [Invocations -> Stages]
          /\ verdict' = verdict /\ verdict' \in [Invocations -> Verdicts \union {"none"}]
          /\ \A j \in Invocations \ {i} : stage'[j] = stage[j]
      BY <1>2, <2>1, <3>1, WentOn
    <3>3. /\ chunkLists' \in [Invocations -> SUBSET Views] /\ chunkLists'[i] = Selected(asked[i])
          /\ \A j \in Invocations \ {i} : chunkLists'[j] = chunkLists[j]
      <4>1. Selected(asked[i]) \subseteq Views
        BY DEF Selected
      <4> QED
        BY <1>2, <2>1, <4>1 DEF LdTypes
    <3>4. OthersStay(i)
      BY <1>1, <3>2, <3>3 DEF OthersStay
    <3>5. LdFits(i)'
      BY <1>1, <1>2, <3>2, <3>3 DEF LdFits, WithSlot, AtOutput, Inside
    <3> QED
      BY <2>1, <3>2, <3>3, <3>4, <3>5
  <2>2. CASE (\E w \in Failures : LeaveWith(i, "chunks", w)) /\ chunkLists' = chunkLists
    <3>1. PICK w \in Failures : LeaveWith(i, "chunks", w)
      BY <2>2
    <3> QED
      BY <1>1, <1>2, <2>2, <3>1, LeavesFailed DEF LdTypes
  <2>3. \A causes \in ChunkErrors : ChunkFailureCause(causes) \in Failures
    BY Ranked DEF Failures
  <2>4. Canceled(i) \subseteq Failures
    BY DEF Canceled, Failures
  <2> QED
    BY <2>1, <2>2, <2>3, <2>4 DEF DownloadChunks, Leave
<1>4. AllReturned'
  <2>1. holdsKey' = IF stage'[i] = "chunks" THEN holdsKey \union {i} ELSE holdsKey \ {i}
    BY <1>1, <1>3
  <2>2. stage[i] \notin Over \union {"idle"}
    BY <1>3 DEF Over, Verdicts, Failures
  <2>3. stage[i] \in WithSlot /\ stage'[i] \notin WithSlot /\ slots' = slots - 1
    BY <1>1, <1>3 DEF WithSlot
  <2> QED
    BY <1>1, <1>2, <1>3, <2>1, <2>2, <2>3, RunningReturns
<1>5. stage[i] \notin AtOutput /\ stage'[i] \notin AtOutput
  BY <1>3 DEF AtOutput, Inside
<1> QED
  BY <1>1, <1>2, <1>3, <1>4, <1>5, OutsideMoves DEF LdTypes

(* Slots and keys of an invocation that has given them back. *)
LEMMA NothingHeld ==
  ASSUME AllReturned, NEW i \in Invocations, OthersStay(i), workspace' = workspace, stage[i] \notin Over \union {"idle"},
         slots' = slots, holdsKey' = holdsKey, stage[i] \notin WithSlot, stage'[i] \notin WithSlot
  PROVE  AllReturned'
<1>1. i \notin holdsKey
  BY DEF AllReturned, WithSlot
<1>2. holdsKey' = IF stage'[i] = "chunks" THEN holdsKey \union {i} ELSE holdsKey \ {i}
  BY <1>1 DEF WithSlot
<1> QED
  BY <1>2, RunningReturns

(* The manifests name what is joined, which is what was planned. *)
LEMMA CreateTempM3U8FileStep ==
  ASSUME LdIInv, NEW i \in Invocations, CreateTempM3U8File(i)
  PROVE  LdIInv'
<1>1. /\ asked' = asked /\ ending' = ending /\ workspace' = workspace /\ slots' = slots /\ holdsKey' = holdsKey
      /\ chunkLists' = chunkLists /\ made' = made /\ UNCHANGED fileVars /\ final' = final
  BY DEF CreateTempM3U8File, fileVars
<1>2. LdTypes /\ LdFits(i) /\ AllReturned
  BY DEF LdIInv
<1>3. /\ OthersStay(i) /\ LdFits(i)' /\ stage[i] = "manifests" /\ stage'[i] \in {"joining", "leaving"}
      /\ stage' \in [Invocations -> Stages] /\ verdict' \in [Invocations -> Verdicts \union {"none"}]
      /\ todo' \in [Invocations -> Seq(Joined)]
  <2>1. CASE StageTo(i, "manifests", "joining") /\ todo' = [todo EXCEPT ![i] = JoinOrder(asked[i], chunkLists[i])]
    <3>1. "joining" \in Stages
      BY DEF Stages
    <3>2. /\ stage[i] = "manifests" /\ stage'[i] = "joining" /\ stage' \in [Invocations -> Stages]
          /\ verdict' = verdict /\ verdict' \in [Invocations -> Verdicts \union {"none"}]
          /\ \A j \in Invocations \ {i} : stage'[j] = stage[j]
      BY <1>2, <2>1, <3>1, WentOn
    <3>3. made[i] = {} /\ chunkLists[i] = Selected(asked[i]) /\ Selected(asked[i]) # {} /\ asked[i] \in Asked
      BY <1>2, <3>2 DEF LdFits, LdTypes
    <3>4. /\ JoinOrder(asked[i], chunkLists[i]) \in Seq(Joined)
          /\ Elements(JoinOrder(asked[i], chunkLists[i])) = PlanJoinResult(asked[i]) /\ PlanJoinResult(asked[i]) # {}
      BY <3>3, JoinsThePlan
    <3>5. /\ todo' \in [Invocations -> Seq(Joined)] /\ todo'[i] = JoinOrder(asked[i], chunkLists[i])
          /\ \A j \in Invocations \ {i} : todo'[j] = todo[j]
      BY <1>2, <2>1, <3>4 DEF LdTypes
    <3>6. OthersStay(i)
      BY <1>1, <3>2, <3>5 DEF OthersStay
    <3>7. Planned(asked'[i], made'[i] \union StepsLeft(i)')
      BY <1>1, <3>3, <3>4, <3>5 DEF Planned, StepsLeft
    <3>8. LdFits(i)'
      BY <1>1, <3>2, <3>3, <3>7 DEF LdFits, WithSlot, AtOutput, Inside
    <3> QED
      BY <2>1, <3>2, <3>5, <3>6, <3>8
  <2>2. CASE Leave(i, "manifests", Fails) /\ todo' = todo
    <3>1. PICK w \in Failures : LeaveWith(i, "manifests", w)
      BY <2>2 DEF Leave, Fails, Failures
    <3> QED
      BY <1>1, <1>2, <2>2, <3>1, LeavesFailed DEF LdTypes
  <2> QED
    BY <2>1, <2>2 DEF CreateTempM3U8File
<1>4. AllReturned'
  <2>1. stage[i] \notin Over \union {"idle"} /\ stage[i] \notin WithSlot /\ stage'[i] \notin WithSlot
    BY <1>3 DEF Over, Verdicts, Failures, WithSlot
  <2> QED
    BY <1>1, <1>2, <1>3, <2>1, NothingHeld
<1>5. stage[i] \notin AtOutput /\ stage'[i] \notin AtOutput
  BY <1>3 DEF AtOutput, Inside
<1> QED
  BY <1>1, <1>2, <1>3, <1>4, <1>5, OutsideMoves DEF LdTypes

---------------------------------------------------------------------------

(* The next output is taken up at its gate; after the last one all is well. *)
LEMMA JoinNextStep ==
  ASSUME LdIInv, NEW i \in Invocations, JoinNext(i)
  PROVE  LdIInv'
<1>1. /\ asked' = asked /\ ending' = ending /\ workspace' = workspace /\ slots' = slots /\ holdsKey' = holdsKey
      /\ chunkLists' = chunkLists /\ todo' = todo /\ made' = made /\ partial' = partial /\ final' = final
  BY DEF JoinNext, joinVars
<1>2. LdTypes /\ LdFits(i) /\ AllReturned /\ GatesExact
  BY DEF LdIInv
<1>3. CASE todo[i] = <<>> /\ LeaveWith(i, "joining", "ok") /\ gate' = gate
  <2>1. /\ stage[i] = "joining" /\ stage'[i] = "leaving" /\ stage' \in [Invocations -> Stages]
        /\ verdict'[i] = "ok" /\ verdict' \in [Invocations -> Verdicts \union {"none"}]
        /\ \A j \in Invocations \ {i} : stage'[j] = stage[j] /\ verdict'[j] = verdict[j]
    BY <1>2, <1>3, WentOut DEF Verdicts
  <2>2. OthersStay(i)
    BY <1>1, <2>1 DEF OthersStay
  <2>3. Planned(asked[i], made[i])
    <3>1. StepsLeft(i) = {}
      BY <1>3, ElementsOf DEF StepsLeft
    <3>2. Planned(asked[i], made[i] \union StepsLeft(i))
      BY <1>2, <2>1 DEF LdFits
    <3>3. made[i] \union StepsLeft(i) = made[i]
      BY <3>1
    <3> QED
      BY <3>2, <3>3
  <2>4. LdFits(i)'
    BY <1>1, <1>2, <2>1, <2>3 DEF LdFits, WithSlot, AtOutput, Inside, Verdicts
  <2>5. AllReturned'
    <3>1. stage[i] \notin Over \union {"idle"} /\ stage[i] \notin WithSlot /\ stage'[i] \notin WithSlot
      BY <2>1 DEF Over, Verdicts, Failures, WithSlot
    <3> QED
      BY <1>1, <1>2, <2>2, <3>1, NothingHeld
  <2>6. stage[i] \notin AtOutput /\ stage'[i] \notin AtOutput
    BY <2>1 DEF AtOutput, Inside
  <2> QED
    BY <1>1, <1>2, <1>3, <2>1, <2>2, <2>4, <2>5, <2>6, OutsideMoves DEF LdTypes, fileVars
<1>4. CASE todo[i] # <<>> /\ StageTo(i, "joining", "gate") /\ gate' = [gate EXCEPT ![Output(i)].refs = @ + 1]
  <2>1. "gate" \in Stages
    BY DEF Stages, AtOutput
  <2>2. /\ stage[i] = "joining" /\ stage'[i] = "gate" /\ stage' \in [Invocations -> Stages]
        /\ verdict' = verdict /\ verdict' \in [Invocations -> Verdicts \union {"none"}]
        /\ \A j \in Invocations \ {i} : stage'[j] = stage[j]
    BY <1>2, <1>4, <2>1, WentOn
  <2>3. OthersStay(i)
    BY <1>1, <2>2 DEF OthersStay
  <2>4. StepsLeft(i)' = StepsLeft(i)
    BY <1>1 DEF StepsLeft
  <2>5. LdFits(i)'
    BY <1>1, <1>2, <1>4, <2>2, <2>4 DEF LdFits, WithSlot, AtOutput, Inside
  <2>6. stage[i] \notin AtOutput /\ todo'[i] = todo[i]
    BY <1>1, <2>2 DEF AtOutput, Inside
  <2>7. GatesExact'
    BY <1>2, <1>4, <2>2, <2>3, <2>6, GateReferenced
  <2>8. AllReturned'
    <3>1. stage[i] \notin Over \union {"idle"} /\ stage[i] \notin WithSlot /\ stage'[i] \notin WithSlot
      BY <2>2 DEF Over, Verdicts, Failures, WithSlot
    <3> QED
      BY <1>1, <1>2, <2>3, <3>1, NothingHeld
  <2>9. gate' \in [Outputs -> [refs : Int, free : BOOLEAN]]
    <3> DEFINE o == Output(i)
    <3>1. o \in Outputs
      BY <1>2, <1>4, OutputOf
    <3>2. gate' = [gate EXCEPT ![o].refs = @ + 1]
      BY <1>4
    <3> HIDE DEF o
    <3>3. gate[o] \in [refs : Int, free : BOOLEAN] /\ gate \in [Outputs -> [refs : Int, free : BOOLEAN]]
      BY <1>2, <3>1 DEF LdTypes
    <3> QED
      BY <3>1, <3>2, <3>3
  <2>10. LdTypes'
    BY <1>1, <1>2, <2>2, <2>9 DEF LdTypes
  <2> QED
    BY <1>1, <2>3, <2>5, <2>7, <2>8, <2>10, OneMoves
<1> QED
  BY <1>3, <1>4 DEF JoinNext

(* An invocation at its output: what it relies on there, *)
LEMMA AtItsOutput ==
  ASSUME LdIInv, NEW i \in Invocations, stage[i] \in AtOutput
  PROVE  /\ LdTypes /\ LdFits(i) /\ AllReturned /\ GatesExact /\ todo[i] # <<>> /\ Output(i) \in Outputs /\ Head(todo[i]) \in Joined
         /\ made[i] \union StepsLeft(i) = PlanJoinResult(asked[i]) /\ PlanJoinResult(asked[i]) # {}
         /\ Planned(asked[i], made[i] \union StepsLeft(i))
         /\ \A v \in made[i] : final[<<v, asked[i].audio>>].whole
         /\ stage[i] \notin Over \union {"idle"} /\ stage[i] \notin WithSlot
<1>1. LdTypes /\ LdFits(i) /\ AllReturned /\ GatesExact
  BY DEF LdIInv
<1>2. todo[i] # <<>>
  BY <1>1 DEF LdFits
<1>3. stage[i] \notin Over \union {"idle"} /\ stage[i] \notin WithSlot
  BY DEF AtOutput, Inside, Over, Verdicts, Failures, WithSlot
<1>4. Planned(asked[i], made[i] \union StepsLeft(i)) /\ \A v \in made[i] : final[<<v, asked[i].audio>>].whole
  BY <1>1 DEF LdFits
<1> QED
  BY <1>1, <1>2, <1>3, <1>4, OutputOf DEF Planned

(* and what is left of the proof when it does not publish. *)
LEMMA OutputMoves ==
  ASSUME LdIInv, NEW i \in Invocations, OthersStay(i), LdFits(i)', GatesExact',
         stage[i] \in AtOutput, stage'[i] \notin WithSlot,
         stage' \in [Invocations -> Stages], verdict' \in [Invocations -> Verdicts \union {"none"}],
         UNCHANGED <<ending, workspace, holdsKey, slots, joinVars, final>>,
         \/ gate' = gate \/ gate' = [gate EXCEPT ![Output(i)].free = FALSE]
         \/ gate' = [gate EXCEPT ![Output(i)].refs = @ - 1] \/ Release(Output(i)),
         \/ partial' = partial
         \/ stage[i] \in Inside /\ \E r \in FileRecords : partial' = [partial EXCEPT ![Output(i)] = r]
  PROVE  LdIInv'
<1>1. workspace' = workspace /\ slots' = slots /\ holdsKey' = holdsKey
      /\ chunkLists' = chunkLists /\ todo' = todo /\ made' = made /\ final' = final
  BY DEF joinVars
<1>2. AllReturned'
  BY <1>1, AtItsOutput, NothingHeld
<1>3. LdTypes /\ Output(i) \in Outputs
  BY AtItsOutput
<1>4. gate' \in [Outputs -> [refs : Int, free : BOOLEAN]]
  <2>1. gate[Output(i)] \in [refs : Int, free : BOOLEAN] /\ gate \in [Outputs -> [refs : Int, free : BOOLEAN]]
    BY <1>3 DEF LdTypes
  <2> DEFINE o == Output(i)
  <2> HIDE DEF o
  <2>2. o \in Outputs /\ gate[o] \in [refs : Int, free : BOOLEAN]
    BY <1>3, <2>1 DEF o
  <2>3. CASE gate' = gate
    BY <2>1, <2>3
  <2>4. CASE gate' = [gate EXCEPT ![o].free = FALSE]
    BY <2>1, <2>2, <2>4
  <2>5. CASE gate' = [gate EXCEPT ![o].refs = @ - 1]
    BY <2>1, <2>2, <2>5
  <2>6. CASE Release(o)
    BY <2>1, <2>2, <2>6 DEF Release
  <2> QED
    BY <2>3, <2>4, <2>5, <2>6 DEF o
<1>5. partial' \in [Outputs -> FileRecords]
  BY <1>3 DEF LdTypes
<1>6. LdTypes'
  BY <1>1, <1>3, <1>4, <1>5 DEF LdTypes, OthersStay
<1> QED
  BY <1>1, <1>2, <1>6, OneMoves

(* An invocation that fails inside gives its gate back. *)
LEMMA LeavesItsOutput ==
  ASSUME LdIInv, NEW i \in Invocations, NEW from \in Inside, Leave(i, from, Fails), Release(Output(i)),
         asked' = asked, UNCHANGED <<ending, workspace, holdsKey, slots, joinVars, final>>,
         partial' \in {partial, [partial EXCEPT ![Output(i)] = NoPartial]}
  PROVE  LdIInv'
<1>1. PICK w \in Failures : LeaveWith(i, from, w)
  BY DEF Leave, Fails, Failures
<1>2. todo' = todo /\ made' = made /\ chunkLists' = chunkLists /\ final' = final
  BY DEF joinVars
<1>3. OthersStay(i) /\ LdFits(i)' /\ stage[i] = from /\ stage'[i] = "leaving"
      /\ stage' \in [Invocations -> Stages] /\ verdict' \in [Invocations -> Verdicts \union {"none"}]
  BY <1>1, <1>2, LeavesFailed
<1>4. stage[i] \in Inside /\ stage[i] \in AtOutput /\ stage'[i] \notin AtOutput /\ stage'[i] \notin WithSlot
  BY <1>3 DEF AtOutput, Inside, WithSlot
<1>5. GatesExact'
  BY <1>3, <1>4, AtItsOutput, GateReleased
<1>6. NoPartial \in FileRecords
  BY DEF NoPartial, FileRecords
<1> QED
  BY <1>3, <1>4, <1>5, <1>6, OutputMoves

(* The token of a gate is taken, or waited for in vain. *)
LEMMA AcquireFinalOutputStep ==
  ASSUME LdIInv, NEW i \in Invocations, AcquireFinalOutput(i)
  PROVE  LdIInv'
<1>1. asked' = asked /\ todo' = todo /\ made' = made /\ chunkLists' = chunkLists /\ partial' = partial /\ final' = final
      /\ UNCHANGED <<ending, workspace, holdsKey, slots, joinVars, final>>
  BY DEF AcquireFinalOutput, joinVars
<1>2. CASE StageTo(i, "gate", "stale") /\ gate[Output(i)].free /\ gate' = [gate EXCEPT ![Output(i)].free = FALSE]
  <2>1. "stale" \in Stages /\ LdTypes
    BY DEF Stages, AtOutput, Inside, LdIInv
  <2>2. /\ stage[i] = "gate" /\ stage'[i] = "stale" /\ stage' \in [Invocations -> Stages]
        /\ verdict' = verdict /\ verdict' \in [Invocations -> Verdicts \union {"none"}]
        /\ \A j \in Invocations \ {i} : stage'[j] = stage[j]
    BY <1>2, <2>1, WentOn
  <2>3. OthersStay(i)
    BY <1>1, <2>2 DEF OthersStay
  <2>4. stage[i] \in AtOutput /\ stage'[i] \in Inside /\ stage'[i] \notin WithSlot
    BY <2>2 DEF AtOutput, Inside, WithSlot
  <2>5. LdFits(i)'
    <3>1. StepsLeft(i)' = StepsLeft(i)
      BY <1>1 DEF StepsLeft
    <3> QED
      BY <1>1, <2>2, <2>4, <3>1, AtItsOutput DEF LdFits, WithSlot, AtOutput, Inside
  <2>6. GatesExact'
    BY <1>1, <1>2, <2>2, <2>3, <2>4, AtItsOutput, GateEntered
  <2> QED
    BY <1>1, <1>2, <2>2, <2>3, <2>4, <2>5, <2>6, OutputMoves
<1>3. CASE Leave(i, "gate", Canceled(i)) /\ gate' = [gate EXCEPT ![Output(i)].refs = @ - 1]
  <2>1. PICK w \in Failures : LeaveWith(i, "gate", w)
    BY <1>3 DEF Leave, Canceled, Failures
  <2>2. OthersStay(i) /\ LdFits(i)' /\ stage[i] = "gate" /\ stage'[i] = "leaving"
        /\ stage' \in [Invocations -> Stages] /\ verdict' \in [Invocations -> Verdicts \union {"none"}]
    BY <1>1, <2>1, LeavesFailed
  <2>3. stage[i] \in AtOutput /\ stage'[i] \notin AtOutput /\ stage'[i] \notin WithSlot
    BY <2>2 DEF AtOutput, Inside, WithSlot
  <2>4. GatesExact'
    BY <1>3, <2>2, <2>3, AtItsOutput, GateGivenUp
  <2> QED
    BY <1>1, <1>3, <2>2, <2>3, <2>4, OutputMoves
<1> QED
  BY <1>2, <1>3 DEF AcquireFinalOutput

(* Inside, from one step to the next. *)
LEMMA GoesOnInside ==
  ASSUME LdIInv, NEW i \in Invocations, NEW from \in Inside, NEW to \in Inside, StageTo(i, from, to),
         asked' = asked, gate' = gate, UNCHANGED <<ending, workspace, holdsKey, slots, joinVars, final>>,
         NEW r \in FileRecords, partial' = [partial EXCEPT ![Output(i)] = r], to = "publishing" => r.whole
  PROVE  LdIInv'
<1>1. todo' = todo /\ made' = made /\ chunkLists' = chunkLists /\ final' = final
  BY DEF joinVars
<1>2. to \in Stages /\ LdTypes
  BY DEF Stages, AtOutput, LdIInv
<1>3. /\ stage[i] = from /\ stage'[i] = to /\ stage' \in [Invocations -> Stages]
      /\ verdict' = verdict /\ verdict' \in [Invocations -> Verdicts \union {"none"}]
      /\ \A j \in Invocations \ {i} : stage'[j] = stage[j]
  BY <1>2, WentOn
<1>4. OthersStay(i)
  BY <1>1, <1>3 DEF OthersStay
<1>5. stage[i] \in AtOutput /\ stage'[i] \in Inside /\ stage'[i] \notin WithSlot /\ stage'[i] \in AtOutput
  BY <1>3 DEF AtOutput, Inside, WithSlot
<1>6. LdFits(i)'
  <2>1. StepsLeft(i)' = StepsLeft(i) /\ Output(i)' = Output(i)
    BY <1>1 DEF StepsLeft, Output
  <2>2. stage'[i] = "publishing" => partial'[Output(i)].whole
    BY <1>2, <1>3, <1>5, AtItsOutput DEF LdTypes
  <2>3. stage'[i] \in {"stale", "muxing", "publishing"}
    BY <1>5 DEF Inside
  <2> QED
    BY <1>1, <2>1, <2>2, <2>3, <1>5, AtItsOutput DEF LdFits, WithSlot, AtOutput, Inside
<1>7. GatesExact'
  BY <1>1, <1>3, <1>4, <1>5, AtItsOutput, GatesRest
<1> QED
  BY <1>3, <1>4, <1>5, <1>6, <1>7, OutputMoves

(* A partial file of its own replaces a stale one. *)
LEMMA RemoveStaleStep ==
  ASSUME LdIInv, NEW i \in Invocations, RemoveStale(i)
  PROVE  LdIInv'
<1>1. asked' = asked /\ UNCHANGED <<ending, workspace, holdsKey, slots, joinVars, final>> /\ {"stale", "muxing"} \subseteq Inside
  BY DEF RemoveStale, joinVars, Inside
<1>2. CASE StageTo(i, "stale", "muxing") /\ partial' = [partial EXCEPT ![Output(i)] = [by |-> i, whole |-> FALSE]] /\ gate' = gate
  <2>1. [by |-> i, whole |-> FALSE] \in FileRecords
    BY LectureAssumption DEF FileRecords, Invocations
  <2> QED
    BY <1>1, <1>2, <2>1, GoesOnInside
<1>3. CASE Leave(i, "stale", Fails) /\ Release(Output(i)) /\ partial' = partial
  BY <1>1, <1>3, LeavesItsOutput
<1> QED
  BY <1>2, <1>3 DEF RemoveStale

(* ffmpeg leaves a whole partial file, or fails. *)
LEMMA MuxEndsStep ==
  ASSUME LdIInv, NEW i \in Invocations, MuxEnds(i)
  PROVE  LdIInv'
<1>1. asked' = asked /\ UNCHANGED <<ending, workspace, holdsKey, slots, joinVars, final>> /\ {"muxing", "publishing"} \subseteq Inside
  BY DEF MuxEnds, joinVars, Inside
<1>2. CASE StageTo(i, "muxing", "publishing") /\ partial' = [partial EXCEPT ![Output(i)].whole = TRUE] /\ gate' = gate
  <2>1. stage[i] \in AtOutput
    BY <1>2 DEF StageTo, AtOutput, Inside
  <2>2. LdTypes /\ Output(i) \in Outputs
    BY <2>1, AtItsOutput
  <2> DEFINE r == [partial[Output(i)] EXCEPT !.whole = TRUE]
  <2>3. partial[Output(i)] \in FileRecords
    BY <2>2 DEF LdTypes
  <2>4. r \in FileRecords /\ r.whole
    BY <2>3 DEF FileRecords
  <2>5. partial' = [partial EXCEPT ![Output(i)] = r]
    BY <1>2
  <2> HIDE DEF r
  <2> QED
    BY <1>1, <1>2, <2>4, <2>5, GoesOnInside
<1>3. CASE Leave(i, "muxing", Fails) /\ Release(Output(i)) /\ partial' \in {partial, [partial EXCEPT ![Output(i)] = NoPartial]}
  BY <1>1, <1>3, LeavesItsOutput
<1> QED
  BY <1>2, <1>3 DEF MuxEnds

(* The partial file becomes the final one: one output more is made, one less to do. *)
LEMMA SyncAndReplaceOutputStep ==
  ASSUME LdIInv, NEW i \in Invocations, SyncAndReplaceOutput(i)
  PROVE  LdIInv'
<1>1. asked' = asked /\ UNCHANGED <<ending, workspace, holdsKey, slots, chunkLists>> /\ "publishing" \in Inside /\ Release(Output(i))
  BY DEF SyncAndReplaceOutput, Inside
<1>2. CASE /\ StageTo(i, "publishing", "joining")
           /\ made' = [made EXCEPT ![i] = @ \union {Head(todo[i])}] /\ todo' = [todo EXCEPT ![i] = Tail(@)]
           /\ final' = [final EXCEPT ![Output(i)] = partial[Output(i)]]
           /\ partial' = [partial EXCEPT ![Output(i)] = NoPartial]
  <2>1. "joining" \in Stages /\ LdTypes
    BY DEF Stages, LdIInv
  <2>2. /\ stage[i] = "publishing" /\ stage'[i] = "joining" /\ stage' \in [Invocations -> Stages]
        /\ verdict' = verdict /\ verdict' \in [Invocations -> Verdicts \union {"none"}]
        /\ \A j \in Invocations \ {i} : stage'[j] = stage[j]
    BY <1>2, <2>1, WentOn
  <2>3. stage[i] \in AtOutput /\ stage[i] \in Inside /\ stage'[i] \notin AtOutput /\ stage'[i] \notin WithSlot
    BY <2>2 DEF AtOutput, Inside, WithSlot
  <2>4. /\ LdFits(i) /\ AllReturned /\ GatesExact /\ todo[i] # <<>> /\ Output(i) \in Outputs /\ Head(todo[i]) \in Joined
        /\ Planned(asked[i], made[i] \union StepsLeft(i))
        /\ stage[i] \notin Over \union {"idle"} /\ stage[i] \notin WithSlot
        /\ \A v \in made[i] : final[<<v, asked[i].audio>>].whole
    BY <2>3, AtItsOutput
  <2>5. todo[i] \in Seq(Joined) /\ Elements(todo[i]) = {Head(todo[i])} \union Elements(Tail(todo[i])) /\ Tail(todo[i]) \in Seq(Joined)
    BY <2>1, <2>4, ElementsOf DEF LdTypes
  <2>6. /\ todo' \in [Invocations -> Seq(Joined)] /\ todo'[i] = Tail(todo[i])
        /\ made' \in [Invocations -> SUBSET Joined] /\ made'[i] = made[i] \union {Head(todo[i])}
        /\ \A j \in Invocations \ {i} : todo'[j] = todo[j] /\ made'[j] = made[j]
    BY <1>2, <2>1, <2>4, <2>5 DEF LdTypes
  <2>7. OthersStay(i)
    BY <1>1, <2>2, <2>6 DEF OthersStay
  <2>8. /\ final' \in [Outputs -> FileRecords] /\ partial' \in [Outputs -> FileRecords]
        /\ final'[Output(i)].whole /\ \A o \in Outputs \ {Output(i)} : final'[o] = final[o]
    <3>1. NoPartial \in FileRecords /\ partial[Output(i)] \in FileRecords /\ partial[Output(i)].whole
      BY <2>1, <2>2, <2>4 DEF NoPartial, FileRecords, LdTypes, LdFits
    <3> QED
      BY <1>2, <2>1, <2>4, <3>1 DEF LdTypes
  <2>9. \A v \in made'[i] : final'[<<v, asked'[i].audio>>].whole
    <3>1. Output(i) = <<Head(todo[i]), asked[i].audio>>
      BY DEF Output
    <3>2. \A v \in made[i] : <<v, asked[i].audio>> \in Outputs
      BY <2>1, LectureAssumption DEF LdTypes, Outputs, Joined
    <3>3. ASSUME NEW v \in made'[i] PROVE final'[<<v, asked[i].audio>>].whole
      <4>1. CASE <<v, asked[i].audio>> = Output(i)
        BY <2>8, <4>1
      <4>2. CASE <<v, asked[i].audio>> # Output(i)
        <5>1. v \in made[i]
          BY <2>6, <3>1, <4>2
        <5> QED
          BY <2>4, <2>8, <3>2, <4>2, <5>1
      <4> QED
        BY <4>1, <4>2
    <3> QED
      BY <1>1, <3>3
  <2>10. Planned(asked'[i], made'[i] \union StepsLeft(i)')
    <3>1. made'[i] \union StepsLeft(i)' = made[i] \union StepsLeft(i)
      BY <2>5, <2>6 DEF StepsLeft
    <3> QED
      BY <1>1, <2>4, <3>1
  <2>11. LdFits(i)'
    BY <2>2, <2>9, <2>10 DEF LdFits, WithSlot, AtOutput, Inside
  <2>12. GatesExact'
    BY <1>1, <2>1, <2>3, <2>4, <2>7, GateReleased
  <2>13. AllReturned'
    BY <1>1, <2>3, <2>4, <2>7, NothingHeld
  <2>14. gate' \in [Outputs -> [refs : Int, free : BOOLEAN]]
    BY <1>1, <2>1, <2>4 DEF LdTypes, Release
  <2>15. LdTypes'
    BY <1>1, <2>1, <2>2, <2>6, <2>8, <2>14 DEF LdTypes
  <2> QED
    BY <1>2, <2>2, <2>3, <2>7, <2>11, <2>12, <2>13, <2>15, OneMoves
<1>3. CASE Leave(i, "publishing", Fails) /\ UNCHANGED <<final, made, todo>> /\ partial' \in {partial, [partial EXCEPT ![Output(i)] = NoPartial]}
  <2>1. UNCHANGED joinVars
    BY <1>1, <1>3 DEF joinVars
  <2> QED
    BY <1>1, <1>3, <2>1, LeavesItsOutput
<1> QED
  BY <1>2, <1>3 DEF SyncAndReplaceOutput

---------------------------------------------------------------------------

(* The workspace is removed, if it can be, and the result returned. *)
LEMMA RemoveWorkspaceStep ==
  ASSUME LdIInv, NEW i \in Invocations, RemoveWorkspace(i)
  PROVE  LdIInv'
<1>1. /\ asked' = asked /\ ending' = ending /\ slots' = slots /\ holdsKey' = holdsKey /\ workspace \ {i} \subseteq workspace'
      /\ chunkLists' = chunkLists /\ todo' = todo /\ made' = made /\ UNCHANGED fileVars /\ final' = final
      /\ StageTo(i, "leaving", verdict[i])
  BY DEF RemoveWorkspace, joinVars, fileVars
<1>2. LdTypes /\ LdFits(i) /\ AllReturned
  BY DEF LdIInv
<1>3. stage[i] = "leaving"
  BY <1>1 DEF StageTo
<1>4. verdict[i] \in Verdicts /\ verdict[i] \in Stages
  BY <1>2, <1>3 DEF LdFits, Stages
<1>5. /\ stage'[i] = verdict[i] /\ stage' \in [Invocations -> Stages]
      /\ verdict' = verdict /\ verdict' \in [Invocations -> Verdicts \union {"none"}]
      /\ \A j \in Invocations \ {i} : stage'[j] = stage[j]
  BY <1>1, <1>2, <1>4, WentOn
<1>6. OthersStay(i)
  BY <1>1, <1>5 DEF OthersStay
<1>7. LdFits(i)'
  BY <1>1, <1>2, <1>3, <1>4, <1>5 DEF LdFits, WithSlot, AtOutput, Inside, Verdicts, Failures
<1>8. stage[i] \notin AtOutput /\ stage'[i] \notin AtOutput
  BY <1>3, <1>4, <1>5 DEF AtOutput, Inside, Verdicts, Failures
<1>9. AllReturned'
  <2>1. stage'[i] \in Over \union {"idle"} /\ i \notin holdsKey /\ stage'[i] # "chunks"
    BY <1>2, <1>3, <1>4, <1>5 DEF Over, AllReturned, Verdicts, Failures
  <2>2. holdsKey' = IF stage'[i] = "chunks" THEN holdsKey \union {i} ELSE holdsKey \ {i}
    BY <1>1, <2>1
  <2>3. (stage[i] \in WithSlot <=> stage'[i] \in WithSlot) /\ slots' = slots
    BY <1>1, <1>3, <1>4, <1>5 DEF WithSlot, Verdicts, Failures
  <2> QED
    BY <1>1, <1>2, <1>6, <2>1, <2>2, <2>3, ReturnedStays
<1> QED
  BY <1>1, <1>2, <1>5, <1>6, <1>7, <1>8, <1>9, OutsideMoves DEF LdTypes

(* Nothing but the end of a context. *)
LEMMA LdRests ==
  ASSUME LdIInv, UNCHANGED <<asked, stage, verdict, workspace, holdsKey, slots, joinVars, fileVars>>
  PROVE  LdIInv'
<1>1. /\ asked' = asked /\ stage' = stage /\ verdict' = verdict /\ workspace' = workspace /\ holdsKey' = holdsKey /\ slots' = slots
      /\ chunkLists' = chunkLists /\ todo' = todo /\ made' = made /\ gate' = gate /\ partial' = partial /\ final' = final
  BY DEF joinVars, fileVars
<1>2. LdTypes'
  BY <1>1 DEF LdIInv, LdTypes
<1>3. ASSUME NEW i \in Invocations PROVE LdFits(i)'
  <2>1. Output(i)' = Output(i) /\ StepsLeft(i)' = StepsLeft(i) /\ LdFits(i)
    BY <1>1 DEF Output, StepsLeft, LdIInv
  <2> QED
    BY <1>1, <2>1 DEF LdFits
<1>4. FinalsWhole'
  BY <1>1 DEF LdIInv, FinalsWhole
<1>5. AllReturned'
  BY <1>1 DEF LdIInv, AllReturned, Running
<1>6. GatesExact'
  <2>1. \A o, S : AtGate(o, S)' = AtGate(o, S)
    BY <1>1 DEF AtGate, Output
  <2> QED
    BY <1>1, <2>1 DEF LdIInv, GatesExact
<1> QED
  BY <1>2, <1>3, <1>4, <1>5, <1>6 DEF LdIInv

(* The process is killed: gates and slots are as in a new one, the files stay. *)
LEMMA KillProcessStep ==
  ASSUME LdIInv, KillProcess
  PROVE  LdIInv'
<1>1. /\ asked' = asked /\ verdict' = verdict /\ workspace' = workspace /\ holdsKey' = {} /\ slots' = 0
      /\ chunkLists' = chunkLists /\ todo' = todo /\ made' = made /\ partial' = partial /\ final' = final
      /\ gate' = [o \in Outputs |-> [refs |-> 0, free |-> TRUE]]
      /\ stage' = [i \in Invocations |-> IF i \in Running THEN "killed" ELSE stage[i]]
  BY DEF KillProcess, joinVars
<1>2. LdTypes
  BY DEF LdIInv
<1>3. \A i \in Invocations : stage'[i] \in Over \union {"idle"} /\ (stage'[i] = "killed" \/ stage'[i] = stage[i])
  BY <1>1 DEF Running, Over
<1>4. \A i \in Invocations : stage'[i] \notin AtOutput /\ stage'[i] \notin WithSlot
  BY <1>3 DEF Over, Verdicts, Failures, AtOutput, Inside, WithSlot
<1>5. LdTypes'
  <2>1. stage' \in [Invocations -> Stages]
    BY <1>1, <1>2 DEF LdTypes, Stages
  <2>2. gate' \in [Outputs -> [refs : Int, free : BOOLEAN]]
    BY <1>1
  <2> QED
    BY <1>1, <1>2, <2>1, <2>2 DEF LdTypes
<1>6. ASSUME NEW i \in Invocations PROVE LdFits(i)'
  <2>1. LdFits(i)
    BY DEF LdIInv
  <2>2. stage'[i] = "killed" \/ (stage'[i] = stage[i] /\ stage[i] \in {"idle", "killed", "ok"} \union Failures)
    BY <1>3 DEF Over, Verdicts
  <2> QED
    BY <1>1, <2>1, <2>2 DEF LdFits, WithSlot, AtOutput, Inside, Failures
<1>7. FinalsWhole'
  BY <1>1 DEF LdIInv, FinalsWhole
<1>8. AllReturned'
  <2>1. {i \in Invocations : stage'[i] \in {"key", "chunks"}} = {} /\ {i \in Invocations : stage'[i] = "chunks"} = {}
    BY <1>4 DEF WithSlot
  <2>2. Running' = {}
    BY <1>3 DEF Running, Over, Verdicts, Failures
  <2>3. Cardinality({}) = 0 /\ 0 <= PlaylistSlots
    BY FS_EmptySet, LectureAssumption
  <2> QED
    BY <1>1, <2>1, <2>2, <2>3 DEF AllReturned
<1>9. GatesExact'
  <2>1. \A o : AtGate(o, Inside)' = {} /\ AtGate(o, {"gate"})' = {}
    BY <1>4 DEF AtGate, AtOutput
  <2>2. Cardinality({}) = 0 /\ {} \union {} = {}
    BY FS_EmptySet
  <2>3. ASSUME NEW o \in Outputs
        PROVE  LET inside == AtGate(o, Inside)'
               IN  /\ Cardinality(inside) <= 1 /\ gate'[o].free = (inside = {})
                   /\ gate'[o].refs = Cardinality(inside \union AtGate(o, {"gate"})')
    <3>1. gate'[o].free = TRUE /\ gate'[o].refs = 0
      BY <1>1
    <3>2. gate'[o].free = (AtGate(o, Inside)' = {})
      BY <2>1, <3>1
    <3>3. Cardinality(AtGate(o, Inside)') = 0 /\ Cardinality(AtGate(o, Inside)' \union AtGate(o, {"gate"})') = 0
      BY <2>1, <2>2
    <3> QED
      BY <3>1, <3>2, <3>3
  <2> QED
    BY <2>3 DEF GatesExact, Inside
<1> QED
  BY <1>5, <1>6, <1>7, <1>8, <1>9 DEF LdIInv

(* The lectures start in the invariant. *)
LEMMA LdInitIInv ==
  ASSUME LdInit
  PROVE  LdIInv
<1>1. /\ asked \in [Invocations -> Asked] /\ stage = [i \in Invocations |-> "idle"] /\ verdict = [i \in Invocations |-> "none"]
      /\ workspace = {} /\ holdsKey = {} /\ slots = 0 /\ chunkLists = [i \in Invocations |-> {}]
      /\ todo = [i \in Invocations |-> <<>>] /\ made = [i \in Invocations |-> {}]
      /\ gate = [o \in Outputs |-> [refs |-> 0, free |-> TRUE]]
      /\ partial = [o \in Outputs |-> NoPartial] /\ final = [o \in Outputs |-> NoPartial]
  BY DEF LdInit
<1>2. NoPartial \in FileRecords
  BY DEF NoPartial, FileRecords
<1>3. LdTypes
  BY <1>1, <1>2 DEF LdTypes, Stages
<1>4. ASSUME NEW i \in Invocations PROVE LdFits(i)
  BY <1>1 DEF LdFits, WithSlot, AtOutput, Inside
<1>5. FinalsWhole
  BY <1>1 DEF FinalsWhole
<1>6. AllReturned
  <2>1. {i \in Invocations : stage[i] \in {"key", "chunks"}} = {} /\ {i \in Invocations : stage[i] = "chunks"} = {} /\ Running = {}
    BY <1>1 DEF Running
  <2>2. Cardinality({}) = 0 /\ 0 <= PlaylistSlots
    BY FS_EmptySet, LectureAssumption
  <2> QED
    BY <1>1, <2>1, <2>2 DEF AllReturned
<1>7. GatesExact
  <2>1. \A o : AtGate(o, Inside) = {} /\ AtGate(o, {"gate"}) = {}
    BY <1>1 DEF AtGate, Inside
  <2>2. Cardinality({}) = 0 /\ {} \union {} = {}
    BY FS_EmptySet
  <2>3. ASSUME NEW o \in Outputs
        PROVE  LET inside == AtGate(o, Inside)
               IN  /\ Cardinality(inside) <= 1 /\ gate[o].free = (inside = {})
                   /\ gate[o].refs = Cardinality(inside \union AtGate(o, {"gate"}))
    <3>1. gate[o].free = TRUE /\ gate[o].refs = 0
      BY <1>1
    <3>2. gate[o].free = (AtGate(o, Inside) = {})
      BY <2>1, <3>1
    <3>3. Cardinality(AtGate(o, Inside)) = 0 /\ Cardinality(AtGate(o, Inside) \union AtGate(o, {"gate"})) = 0
      BY <2>1, <2>2
    <3> QED
      BY <3>1, <3>2, <3>3
  <2> QED
    BY <2>3 DEF GatesExact, Inside
<1> QED
  BY <1>3, <1>4, <1>5, <1>6, <1>7 DEF LdIInv

(* Every step of the lectures keeps it. *)
LEMMA LdStep ==
  ASSUME LdIInv, LdNext
  PROVE  LdIInv'
<1>1. CASE KillProcess
  BY <1>1, KillProcessStep
<1>2. ASSUME NEW i \in Invocations,
             \/ AcquirePlaylistSlot(i) \/ FetchDecryptionKey(i) \/ DownloadChunks(i) \/ CreateTempM3U8File(i)
             \/ JoinNext(i) \/ AcquireFinalOutput(i) \/ RemoveStale(i) \/ MuxEnds(i) \/ SyncAndReplaceOutput(i)
             \/ RemoveWorkspace(i) \/ BeginDownload(i)
      PROVE  LdIInv'
  BY <1>2, AcquirePlaylistSlotStep, FetchDecryptionKeyStep, DownloadChunksStep, CreateTempM3U8FileStep, JoinNextStep,
     AcquireFinalOutputStep, RemoveStaleStep, MuxEndsStep, SyncAndReplaceOutputStep, RemoveWorkspaceStep, BeginDownloadStep
<1>3. ASSUME NEW i \in Invocations, EndContext(i) PROVE LdIInv'
  BY <1>3, LdRests DEF EndContext
<1> QED
  BY <1>1, <1>2, <1>3 DEF LdNext, LdProgress

(* So does a step of another part. *)
LEMMA LdStutter ==
  ASSUME LdIInv, UNCHANGED ldVars
  PROVE  LdIInv'
BY LdRests DEF ldVars, joinVars, fileVars

(* The invariant implies what the runs check of the lectures. *)
LEMMA LdInvariance ==
  ASSUME LdIInv
  PROVE  LdSafe
<1>1. FinalsWhole /\ GatesExact /\ AllReturned /\ \A i \in Invocations : LdFits(i)
  BY DEF LdIInv
<1>2. OkAsPlanned
  BY <1>1 DEF OkAsPlanned, LdFits, Planned
<1> QED
  BY <1>1, <1>2, Ranked DEF LdSafe

---------------------------------------------------------------------------
(* The progress of a download. *)

(* Counted are the workers past the count; the estimate of everything is what
   the last of them computes. *)
Counted == {c \in Tracked : finishing[c] # "counting"}
Estimated == {"reporting", "calling", "done"}
FullEstimate == (downloadedBytes \div TrackedChunks) * TrackedChunks

(* One worker holds progressMu; once every estimate is made the total is the
   full one, and a worker that is the last to report has read it. *)
PtIInv ==
  /\ finishing \in [Tracked -> {"counting", "adding", "estimating"} \union Estimated]
  /\ completedChunks = Cardinality(Counted)
  /\ downloadedBytes \in Nat /\ totalBytes \in Nat /\ totalRead \in [Tracked -> Nat]
  /\ \A c \in Tracked : finishing[c] = "calling" <=> reporter = c
  /\ (\A c \in Tracked : finishing[c] \in Estimated) => totalBytes = FullEstimate
  /\ \A c \in Tracked : finishing[c] = "calling" /\ (\A d \in Tracked \ {c} : finishing[d] = "done")
                          => totalRead[c] = FullEstimate
  /\ (\A c \in Tracked : finishing[c] = "done") => reported = 100
  /\ reported \in -1..100
  /\ samples \in Seq(Nat) /\ Len(samples) <= SpeedWindow
  /\ \A i \in 1..Len(samples) : samples[i] <= downloadedBytes
  /\ \A i \in 1..(Len(samples) - 1) : samples[i] <= samples[i + 1]

(* The chunks that were counted are as many as there are, when all were. *)
LEMMA CountedBound ==
  ASSUME finishing \in [Tracked -> {"counting", "adding", "estimating"} \union Estimated]
  PROVE  /\ IsFiniteSet(Counted) /\ Cardinality(Counted) \in 0..TrackedChunks
         /\ \A c \in Counted : Cardinality(Counted) > 0
         /\ Counted = Tracked => Cardinality(Counted) = TrackedChunks
<1>1. IsFiniteSet(Tracked) /\ Cardinality(Tracked) = TrackedChunks
  BY FS_Interval, TrackerAssumption DEF Tracked
<1>2. Counted \in SUBSET Tracked
  BY DEF Counted
<1>3. IsFiniteSet(Counted) /\ Cardinality(Counted) <= TrackedChunks
  BY <1>1, <1>2, FS_Subset
<1>4. Cardinality(Counted) \in Nat /\ (Cardinality(Counted) = 0 <=> Counted = {})
  BY <1>3, FS_CardinalityType, FS_EmptySet
<1> QED
  BY <1>1, <1>3, <1>4, TrackerAssumption

(* A quotient is a number, and not too large. *)
LEMMA QuotientBound ==
  ASSUME NEW d \in Nat, NEW n \in Nat \ {0}
  PROVE  (d \div n) \in Nat /\ (d \div n) * n <= d
  OBVIOUS

(* A part of a whole is at most 100 percent of it, the whole 100. *)
LEMMA ShareBound ==
  ASSUME NEW d \in Nat, NEW n \in Nat \ {0}, d <= n
  PROVE  ((d * 100) \div n) \in 0..100 /\ (d = n => (d * 100) \div n = 100)
  OBVIOUS

(* A percentage is one, and 100 when all chunks are done. *)
LEMMA PercentageBound ==
  ASSUME completedChunks \in 0..TrackedChunks, downloadedBytes \in Nat, NEW total \in Nat
  PROVE  /\ Percentage(total) \in 0..100
         /\ completedChunks = TrackedChunks /\ total = FullEstimate => Percentage(total) = 100
<1>1. TrackedChunks \in Nat \ {0} /\ completedChunks \in Nat /\ completedChunks <= TrackedChunks
  BY TrackerAssumption
<1>2. CASE total = 0
  <2>1. Percentage(total) = (completedChunks * 100) \div TrackedChunks
    BY <1>2 DEF Percentage
  <2> QED
    BY <1>1, <2>1, ShareBound
<1>3. CASE total > 0 /\ downloadedBytes >= total
  BY <1>3 DEF Percentage
<1>4. CASE total > 0 /\ downloadedBytes < total
  <2>1. Percentage(total) = (downloadedBytes * 100) \div total
    BY <1>4 DEF Percentage
  <2>2. (downloadedBytes * 100) \div total \in 0..100
    BY <1>4, ShareBound
  <2>3. FullEstimate <= downloadedBytes /\ FullEstimate \in Nat
    BY <1>1, QuotientBound DEF FullEstimate
  <2> QED
    BY <1>4, <2>1, <2>2, <2>3
<1> QED
  BY <1>2, <1>3, <1>4

(* A worker that goes on within what is counted leaves the count alone.    *)
LEMMA CountedKept ==
  ASSUME NEW c \in Tracked, NEW to, finishing \in [Tracked -> {"counting", "adding", "estimating"} \union Estimated],
         finishing' = [finishing EXCEPT ![c] = to], finishing[c] # "counting", to # "counting"
  PROVE  Counted' = Counted
BY DEF Counted

(* The tracker starts in the invariant. *)
LEMMA PtInitIInv == PtInit => PtIInv
<1> SUFFICES ASSUME PtInit PROVE PtIInv
  OBVIOUS
<1>1. Counted = {}
  BY DEF PtInit, Counted
<1>2. 1 \in Tracked
  BY TrackerAssumption DEF Tracked
<1>3. Cardinality(Counted) = 0
  BY <1>1, FS_EmptySet
<1>4. \A c \in Tracked : finishing[c] = "counting" /\ c # 0
  BY DEF PtInit, Tracked
<1>5. ~(\A c \in Tracked : finishing[c] \in Estimated) /\ ~(\A c \in Tracked : finishing[c] = "done")
  BY <1>2, <1>4 DEF Estimated
<1>6. /\ samples \in Seq(Nat) /\ Len(samples) = 0 /\ SpeedWindow \in Nat
  BY TrackerAssumption DEF PtInit
<1> QED
  BY <1>3, <1>4, <1>5, <1>6 DEF PtInit, PtIInv

(* Every step of the tracker keeps it. *)
LEMMA PtStep == PtIInv /\ PtNext => PtIInv'
<1> SUFFICES ASSUME PtIInv, PtNext PROVE PtIInv'
  OBVIOUS
<1> DEFINE Finishes == {"counting", "adding", "estimating"} \union Estimated
<1>1. /\ IsFiniteSet(Counted) /\ completedChunks = Cardinality(Counted) /\ completedChunks \in 0..TrackedChunks
      /\ \A c \in Counted : completedChunks > 0
      /\ Counted = Tracked => completedChunks = TrackedChunks
  BY CountedBound DEF PtIInv
<1>2. /\ TrackedChunks \in Nat \ {0} /\ \A c \in Tracked : c # 0
      /\ SpeedWindow \in Nat /\ TrackedSizes \subseteq Nat
  BY TrackerAssumption DEF Tracked
<1>3. ASSUME NEW c \in Tracked, CountChunk(c) PROVE PtIInv'
  <2>1. Counted' = Counted \union {c} /\ c \notin Counted
    BY <1>3 DEF PtIInv, CountChunk, Chunk, Counted
  <2>2. Cardinality(Counted') = Cardinality(Counted) + 1
    BY <1>1, <2>1, FS_AddElement
  <2>3. completedChunks' = Cardinality(Counted')
    BY <1>1, <1>3, <2>2 DEF CountChunk
  <2>4. finishing'[c] = "adding" /\ finishing' \in [Tracked -> Finishes]
        /\ \A d \in Tracked \ {c} : finishing'[d] = finishing[d]
    BY <1>3 DEF PtIInv, CountChunk, Chunk
  <2>5. \A d \in Tracked : finishing'[d] = "calling" <=> reporter = d
    BY <1>3, <2>4 DEF PtIInv, CountChunk, Chunk
  <2>6. ASSUME NEW d \in Tracked, finishing'[d] = "calling", \A e \in Tracked \ {d} : finishing'[e] = "done"
        PROVE FALSE
    BY <2>4, <2>6
  <2> QED
    BY <1>3, <2>3, <2>4, <2>5, <2>6 DEF PtIInv, CountChunk, countVars, reportVars, loopVars, Estimated, FullEstimate
<1>4. ASSUME NEW c \in Tracked, AddBytes(c) PROVE PtIInv'
  <2>1. PICK n \in TrackedSizes : downloadedBytes' = downloadedBytes + n
    BY <1>4 DEF AddBytes
  <2>2. Counted' = Counted
    BY <1>4, CountedKept DEF PtIInv, AddBytes, Chunk
  <2>3. finishing'[c] = "estimating" /\ finishing' \in [Tracked -> Finishes]
        /\ \A d \in Tracked \ {c} : finishing'[d] = finishing[d]
    BY <1>4 DEF PtIInv, AddBytes, Chunk
  <2>4. \A d \in Tracked : finishing'[d] = "calling" <=> reporter = d
    BY <1>4, <2>3 DEF PtIInv, AddBytes, Chunk
  <2>5. ASSUME NEW d \in Tracked, finishing'[d] = "calling", \A e \in Tracked \ {d} : finishing'[e] = "done"
        PROVE FALSE
    BY <2>3, <2>5
  <2>6. downloadedBytes' \in Nat /\ downloadedBytes' >= downloadedBytes
    BY <1>2, <2>1 DEF PtIInv
  <2>7. \A i \in 1..Len(samples) : samples[i] <= downloadedBytes'
    BY <2>6 DEF PtIInv
  <2> QED
    BY <1>4, <2>2, <2>3, <2>4, <2>5, <2>6, <2>7 DEF PtIInv, AddBytes, reportVars, loopVars, Estimated
<1>5. ASSUME NEW c \in Tracked, UpdateTotalBytesEstimate(c) PROVE PtIInv'
  <2>1. Counted' = Counted
    BY <1>5, CountedKept DEF PtIInv, UpdateTotalBytesEstimate, Chunk
  <2>2. finishing'[c] = "reporting" /\ finishing' \in [Tracked -> Finishes] /\ finishing[c] = "estimating"
        /\ \A d \in Tracked \ {c} : finishing'[d] = finishing[d]
    BY <1>5 DEF PtIInv, UpdateTotalBytesEstimate, Chunk, Estimated
  <2>3. c \in Counted /\ completedChunks \in Nat \ {0}
    BY <1>1, <2>2 DEF Counted
  <2>4. totalBytes' \in Nat
    <3>1. (downloadedBytes \div completedChunks) \in Nat
      BY <2>3, QuotientBound DEF PtIInv
    <3> QED
      BY <1>2, <1>5, <3>1 DEF UpdateTotalBytesEstimate
  <2>5. ASSUME \A d \in Tracked : finishing'[d] \in Estimated PROVE totalBytes' = FullEstimate
    <3>1. Counted = Tracked
      BY <2>1, <2>2, <2>5 DEF Counted, Estimated
    <3> QED
      BY <1>1, <1>5, <3>1 DEF UpdateTotalBytesEstimate, FullEstimate
  <2>6. \A d \in Tracked : finishing'[d] = "calling" <=> reporter = d
    BY <2>2 DEF PtIInv
  <2>7. ASSUME NEW d \in Tracked, finishing'[d] = "calling", \A e \in Tracked \ {d} : finishing'[e] = "done"
        PROVE FALSE
    BY <2>2, <2>7
  <2>8. ~(\A d \in Tracked : finishing'[d] = "done")
    BY <2>2
  <2> QED
    BY <1>5, <2>1, <2>2, <2>4, <2>5, <2>6, <2>7, <2>8
       DEF PtIInv, UpdateTotalBytesEstimate, reportVars, loopVars, FullEstimate
<1>6. ASSUME NEW c \in Tracked, ReadTotal(c) PROVE PtIInv'
  <2>1. Counted' = Counted
    BY <1>6, CountedKept DEF PtIInv, ReadTotal, Chunk
  <2>2. finishing'[c] = "calling" /\ finishing' \in [Tracked -> Finishes] /\ finishing[c] = "reporting"
        /\ \A d \in Tracked \ {c} : finishing'[d] = finishing[d]
    BY <1>6 DEF PtIInv, ReadTotal, Chunk, Estimated
  <2>3. reporter = 0 /\ reporter' = c /\ totalRead' = [totalRead EXCEPT ![c] = totalBytes]
    BY <1>6 DEF ReadTotal
  <2>4. \A d \in Tracked : finishing'[d] = "calling" <=> reporter' = d
    BY <1>2, <2>2, <2>3 DEF PtIInv
  <2>5. (\A d \in Tracked : finishing'[d] \in Estimated) => totalBytes = FullEstimate
    BY <2>2 DEF PtIInv, Estimated
  <2>6. ASSUME NEW d \in Tracked, finishing'[d] = "calling", \A e \in Tracked \ {d} : finishing'[e] = "done"
        PROVE totalRead'[d] = FullEstimate
    <3>1. d = c
      BY <2>2, <2>6
    <3>2. \A e \in Tracked : finishing'[e] \in Estimated
      BY <2>2, <2>6, <3>1 DEF Estimated
    <3> QED
      BY <2>3, <2>5, <3>1, <3>2 DEF PtIInv
  <2>7. totalRead' \in [Tracked -> Nat]
    BY <2>3 DEF PtIInv
  <2> QED
    BY <1>6, <2>1, <2>2, <2>4, <2>5, <2>6, <2>7 DEF PtIInv, ReadTotal, countVars, loopVars, FullEstimate
<1>7. ASSUME NEW c \in Tracked, ReportProgress(c) PROVE PtIInv'
  <2>1. Counted' = Counted
    BY <1>7, CountedKept DEF PtIInv, ReportProgress, Chunk
  <2>2. finishing'[c] = "done" /\ finishing' \in [Tracked -> Finishes] /\ finishing[c] = "calling"
        /\ \A d \in Tracked \ {c} : finishing'[d] = finishing[d]
    BY <1>7 DEF PtIInv, ReportProgress, Chunk, Estimated
  <2>3. reporter' = 0 /\ totalRead' = [totalRead EXCEPT ![c] = 0] /\ reported' = Percentage(totalRead[c])
    BY <1>7 DEF ReportProgress
  <2>4. \A d \in Tracked : finishing'[d] = "calling" <=> reporter' = d
    BY <1>2, <2>2, <2>3 DEF PtIInv
  <2>5. (\A d \in Tracked : finishing'[d] \in Estimated) => totalBytes = FullEstimate
    BY <2>2 DEF PtIInv, Estimated
  <2>6. ASSUME NEW d \in Tracked, finishing'[d] = "calling" PROVE FALSE
    BY <2>2, <2>6 DEF PtIInv
  <2>7. totalRead' \in [Tracked -> Nat] /\ totalRead[c] \in Nat
    BY <2>3 DEF PtIInv
  <2>8. reported' \in 0..100
    BY <1>1, <2>3, <2>7, PercentageBound DEF PtIInv
  <2>9. ASSUME \A d \in Tracked : finishing'[d] = "done" PROVE reported' = 100
    <3>1. Counted = Tracked
      BY <2>1, <2>9 DEF Counted
    <3>2. totalRead[c] = FullEstimate
      BY <2>2, <2>9 DEF PtIInv
    <3> QED
      BY <1>1, <2>3, <2>7, <3>1, <3>2, PercentageBound DEF PtIInv
  <2> QED
    BY <1>7, <2>1, <2>2, <2>4, <2>5, <2>6, <2>7, <2>8, <2>9 DEF PtIInv, ReportProgress, countVars, loopVars, FullEstimate
<1>8. CASE UpdateSpeedSample
  <2> DEFINE longer == Append(samples, downloadedBytes)
  <2>1. /\ longer \in Seq(Nat) /\ Len(longer) = Len(samples) + 1 /\ Len(samples) \in Nat
        /\ \A i \in 1..Len(samples) : longer[i] = samples[i]
        /\ longer[Len(samples) + 1] = downloadedBytes
    BY DEF PtIInv
  <2>2. samples' = IF Len(longer) > SpeedWindow THEN Tail(longer) ELSE longer
    BY <1>8 DEF UpdateSpeedSample
  <2> HIDE DEF longer
  <2>3. /\ \A i \in 1..Len(longer) : longer[i] <= downloadedBytes
        /\ \A i \in 1..(Len(longer) - 1) : longer[i] <= longer[i + 1]
    <3>1. ASSUME NEW i \in 1..Len(longer) PROVE longer[i] <= downloadedBytes
      <4>1. downloadedBytes \in Nat /\ \A j \in 1..Len(samples) : samples[j] <= downloadedBytes
        BY DEF PtIInv
      <4>2. CASE i = Len(samples) + 1
        BY <2>1, <4>1, <4>2
      <4>3. CASE i \in 1..Len(samples)
        BY <2>1, <4>1, <4>3
      <4> QED
        BY <2>1, <3>1, <4>2, <4>3
    <3>2. ASSUME NEW i \in 1..(Len(longer) - 1) PROVE longer[i] <= longer[i + 1]
      <4>1. CASE i = Len(samples)
        BY <2>1, <3>2, <4>1 DEF PtIInv
      <4>2. CASE i < Len(samples)
        <5>1. i + 1 \in 1..Len(samples) /\ i \in 1..Len(samples) /\ i \in 1..(Len(samples) - 1)
          BY <2>1, <3>2, <4>2
        <5> QED
          BY <2>1, <5>1 DEF PtIInv
      <4> QED
        BY <2>1, <3>2, <4>1, <4>2
    <3> QED
      BY <3>1, <3>2
  <2>4. /\ samples' \in Seq(Nat) /\ Len(samples') <= SpeedWindow
        /\ \A i \in 1..Len(samples') : samples'[i] <= downloadedBytes
        /\ \A i \in 1..(Len(samples') - 1) : samples'[i] <= samples'[i + 1]
    <3>1. CASE Len(longer) > SpeedWindow
      <4>1. longer # <<>>
        BY <2>1
      <4>2. /\ Tail(longer) \in Seq(Nat) /\ Len(Tail(longer)) = Len(longer) - 1
            /\ \A i \in 1..Len(Tail(longer)) : Tail(longer)[i] = longer[i + 1]
        BY <2>1, <4>1
      <4>3. samples' = Tail(longer)
        BY <2>2, <3>1
      <4>4. Len(samples) <= SpeedWindow
        BY DEF PtIInv
      <4>5. ASSUME NEW i \in 1..(Len(samples') - 1) PROVE samples'[i] <= samples'[i + 1]
        <5>0. Len(Tail(longer)) = Len(samples) /\ Len(samples') = Len(samples) /\ Len(longer) - 1 = Len(samples)
          BY <2>1, <4>2, <4>3
        <5>1. i \in 1..Len(Tail(longer)) /\ i + 1 \in 1..Len(Tail(longer)) /\ i + 1 \in 1..(Len(longer) - 1)
          BY <2>1, <4>5, <5>0
        <5>2. samples'[i] = longer[i + 1] /\ samples'[i + 1] = longer[(i + 1) + 1]
          BY <4>2, <4>3, <5>1
        <5> QED
          BY <2>3, <5>1, <5>2
      <4> QED
        BY <1>2, <2>1, <2>3, <4>2, <4>3, <4>4, <4>5
    <3>2. CASE ~(Len(longer) > SpeedWindow)
      BY <1>2, <2>1, <2>2, <2>3, <3>2
    <3> QED
      BY <3>1, <3>2
  <2>5. UNCHANGED <<finishing, countVars, reportVars>>
    BY <1>8 DEF UpdateSpeedSample
  <2>6. Counted' = Counted /\ FullEstimate' = FullEstimate
    BY <2>5 DEF Counted, FullEstimate, countVars
  <2> QED
    BY <2>4, <2>5, <2>6 DEF PtIInv, countVars, reportVars
<1>9. CASE LoopReturns \/ StopTracker
  <2>1. UNCHANGED <<finishing, countVars, reportVars, samples, ticks>> /\ tracking' \in {"on", "stopped", "off"}
    BY <1>9 DEF LoopReturns, StopTracker
  <2>2. Counted' = Counted /\ FullEstimate' = FullEstimate
    BY <2>1 DEF Counted, FullEstimate, countVars
  <2> QED
    BY <2>1, <2>2 DEF PtIInv, countVars, reportVars
<1> QED
  BY <1>3, <1>4, <1>5, <1>6, <1>7, <1>8, <1>9 DEF PtNext, PtProgress

(* So does a step of another part. *)
LEMMA PtStutter == PtIInv /\ UNCHANGED ptVars => PtIInv'
BY DEF PtIInv, ptVars, Counted, FullEstimate

(* The invariant implies what the runs check of the progress. *)
LEMMA PtInvariance == PtIInv => PtSafe
BY DEF PtIInv, PtSafe

---------------------------------------------------------------------------
(* The library's record of a file. *)

CallKinds == {"none", "record", "verify"}
CallRecords ==
  [kind : CallKinds, hash : BOOLEAN, at : {"idle", "opening", "hashing", "confirming", "committing", "done", "failed"},
   read : [bytes : Nat, digest : Int, present : BOOLEAN],
   seen : [inode : Nat, version : Nat, bytes : Nat],
   digest : Int, found : {"none", "present", "missing", "size", "hash", "notRegular"}]

(* What a call has in hand: a verification started from a row that had no
   digest if the row has none now; the file it reads was there and had the
   expected size; the digest is that file's, unless the file is gone. *)
CallFits(k) ==
  /\ k.at \in {"opening", "hashing", "confirming", "committing"} => k.kind # "none"
  /\ k.kind = "verify" => known /\ (row.digest = NoDigest => k.read.bytes = row.bytes /\ k.read.digest = NoDigest)
  /\ k.kind = "record" => k.hash /\ (k.at = "committing" => k.found = "present")
  /\ k.at \in {"hashing", "confirming"} => <<k.read.bytes, k.seen.version>> \in everMedia /\ k.seen.bytes = k.read.bytes
  /\ k.at = "hashing" => k.hash
  /\ k.at = "confirming" /\ k.hash => k.digest = k.seen.version \/ media # k.seen
  /\ k.at \in {"opening", "confirming"} /\ ~k.hash => k.digest = k.read.digest
  /\ k.at = "committing" /\ k.found = "present" /\ k.hash => <<k.read.bytes, k.digest>> \in everMedia
  /\ k.at = "committing" /\ k.found = "present" /\ ~k.hash => k.digest = k.read.digest

(* Versions are made one after the other and never return. *)
AlIInv ==
  /\ media \in [inode : Nat, version : Nat, bytes : Nat]
  /\ everMedia \subseteq Nat \X Nat /\ IsFiniteSet(everMedia) /\ everMedia # {}
  /\ \A e \in everMedia : e[2] \in 1..Cardinality(everMedia)
  /\ media # NoMedia => <<media.bytes, media.version>> \in everMedia
  /\ known \in BOOLEAN
  /\ row \in [bytes : Nat, digest : Int, present : BOOLEAN]
  /\ storedManifest \in [bytes : Nat, digest : Int]
  /\ RowDescribesMedia /\ ManifestKept
  /\ call \in [Calls -> CallRecords]
  /\ \A l \in Calls : CallFits(call[l])

(* The recording starts in the invariant. *)
LEMMA AlInitIInv == AlInit => AlIInv
<1> SUFFICES ASSUME AlInit PROVE AlIInv
  OBVIOUS
<1>1. IsFiniteSet({<<1, 1>>}) /\ Cardinality({<<1, 1>>}) = 1
  BY FS_Singleton
<1>2. NoCall \in CallRecords /\ CallFits(NoCall)
  BY DEF NoCall, CallRecords, CallKinds, CallFits, NoRow, NoMedia, NoDigest
<1>3. call \in [Calls -> CallRecords] /\ \A l \in Calls : CallFits(call[l])
  BY <1>2 DEF AlInit
<1>4. row \in [bytes : Nat, digest : Int, present : BOOLEAN] /\ RowDescribesMedia /\ ManifestKept
      /\ storedManifest \in [bytes : Nat, digest : Int]
  <2>1. \/ known = FALSE /\ row = [bytes |-> 0, digest |-> 0, present |-> FALSE]
        \/ known = TRUE /\ row = [bytes |-> 1, digest |-> 0, present |-> TRUE]
    BY DEF AlInit, NoRow, NoDigest
  <2>2. storedManifest = [bytes |-> row.bytes, digest |-> row.digest]
    BY DEF AlInit
  <2>3. row \in [bytes : Nat, digest : Int, present : BOOLEAN] /\ row.digest = 0
    <3>1. CASE row = [bytes |-> 0, digest |-> 0, present |-> FALSE]
      BY <3>1
    <3>2. CASE row = [bytes |-> 1, digest |-> 0, present |-> TRUE]
      BY <3>2
    <3> QED
      BY <2>1, <3>1, <3>2
  <2>4. storedManifest \in [bytes : Nat, digest : Int] /\ storedManifest.bytes = row.bytes /\ storedManifest.digest = 0
    BY <2>2, <2>3
  <2> QED
    BY <2>3, <2>4 DEF RowDescribesMedia, ManifestKept, NoDigest
<1>5. media \in [inode : Nat, version : Nat, bytes : Nat] /\ media.bytes = 1 /\ media.version = 1 /\ everMedia = {<<1, 1>>}
      /\ known \in BOOLEAN
  BY DEF AlInit
<1>6. everMedia \subseteq Nat \X Nat /\ \A e \in everMedia : e[2] \in 1..1
  BY <1>5
<1> QED
  BY <1>1, <1>3, <1>4, <1>5, <1>6 DEF AlIInv

(* A step of one call alone. *)
LEMMA OneCall ==
  ASSUME AlIInv, UNCHANGED <<mediaVars, storeVars>>, NEW l \in Calls, NEW k \in CallRecords, CallFits(k),
         call' = [call EXCEPT ![l] = k]
  PROVE  AlIInv'
<1>1. call' \in [Calls -> CallRecords]
  BY DEF AlIInv
<1>2. ASSUME NEW m \in Calls PROVE CallFits(call[m])'
  <2>1. call'[m] = IF m = l THEN k ELSE call[m]
    BY DEF AlIInv
  <2>2. CallFits(call'[m])
    BY <2>1 DEF AlIInv
  <2> QED
    BY <2>2 DEF CallFits, mediaVars, storeVars
<1> QED
  BY <1>1, <1>2 DEF AlIInv, mediaVars, storeVars, RowDescribesMedia, ManifestKept

(* A call that has ended stays as it is. *)
LEMMA EndedCall ==
  ASSUME NEW how \in {"done", "failed"}
  PROVE  [NoCall EXCEPT !.at = how] \in CallRecords /\ CallFits([NoCall EXCEPT !.at = how])
<1> DEFINE k == [NoCall EXCEPT !.at = how]
<1>1. NoCall \in CallRecords /\ NoCall.kind = "none" /\ NoCall.hash = FALSE /\ NoCall.found = "none"
  BY DEF NoCall, CallRecords, CallKinds, NoRow, NoMedia, NoDigest
<1>2. k \in CallRecords /\ k.kind = "none" /\ k.at = how /\ k.hash = FALSE /\ k.found = "none"
  BY <1>1 DEF CallRecords
<1>3. CallFits(k)
  BY <1>2 DEF CallFits
<1> QED
  BY <1>2, <1>3

(* Every step of the recording keeps it. *)
LEMMA AlStep == AlIInv /\ AlNext => AlIInv'
<1> SUFFICES ASSUME AlIInv, AlNext PROVE AlIInv'
  OBVIOUS
<1>1. ASSUME NEW l \in Calls, BuildManifest(l) PROVE AlIInv'
  <2> DEFINE k == [call[l] EXCEPT !.kind = "record", !.hash = TRUE, !.at = "opening", !.read.bytes = media.bytes]
  <2>1. call[l] \in CallRecords /\ call[l].at = "idle"
    BY <1>1 DEF AlIInv, BuildManifest, NextCall
  <2>2. k \in CallRecords /\ CallFits(k)
    BY <2>1 DEF AlIInv, CallRecords, CallKinds, CallFits
  <2>3. call' = [call EXCEPT ![l] = k]
    BY <1>1 DEF BuildManifest
  <2> QED
    BY <1>1, <2>2, <2>3, OneCall DEF BuildManifest
<1>2. ASSUME NEW l \in Calls, GetArtifact(l) PROVE AlIInv'
  <2>1. PICK h \in BOOLEAN : call' = [call EXCEPT ![l] = [@ EXCEPT !.kind = "verify", !.hash = h, !.at = "opening",
                                                                   !.read = row, !.digest = row.digest]]
    BY <1>2 DEF GetArtifact
  <2> DEFINE k == [call[l] EXCEPT !.kind = "verify", !.hash = h, !.at = "opening", !.read = row, !.digest = row.digest]
  <2>2. call[l] \in CallRecords /\ known
    BY <1>2 DEF AlIInv, GetArtifact
  <2>3. k \in CallRecords /\ CallFits(k)
    BY <2>2 DEF AlIInv, CallRecords, CallKinds, CallFits
  <2> QED
    BY <1>2, <2>1, <2>3, OneCall DEF GetArtifact
<1>3. ASSUME NEW l \in Calls, OpenMedia(l) PROVE AlIInv'
  <2>1. call[l] \in CallRecords /\ CallFits(call[l]) /\ call[l].at = "opening" /\ UNCHANGED <<mediaVars, storeVars>>
    BY <1>3 DEF AlIInv, OpenMedia
  <2>2. CASE media # NoMedia /\ media.bytes = call[l].read.bytes
    <3> DEFINE k == [call[l] EXCEPT !.at = IF call[l].hash THEN "hashing" ELSE "confirming", !.seen = media]
    <3>1. call' = [call EXCEPT ![l] = k]
      BY <1>3, <2>1, <2>2 DEF OpenMedia, AlIInv
    <3>2. k \in CallRecords /\ CallFits(k)
      BY <2>1, <2>2 DEF AlIInv, CallRecords, CallKinds, CallFits
    <3> QED
      BY <2>1, <3>1, <3>2, OneCall
  <2>3. CASE ~(media # NoMedia /\ media.bytes = call[l].read.bytes) /\ call[l].kind = "record"
    BY <1>3, <2>1, <2>3, OneCall, EndedCall DEF OpenMedia, LibraryFails, EndCall
  <2>4. CASE ~(media # NoMedia /\ media.bytes = call[l].read.bytes) /\ call[l].kind # "record"
    <3> DEFINE k == [call[l] EXCEPT !.at = "committing", !.found = IF media = NoMedia THEN "missing" ELSE "size"]
    <3>1. call' = [call EXCEPT ![l] = k]
      BY <1>3, <2>1, <2>4 DEF OpenMedia, Found, AlIInv
    <3>2. k \in CallRecords /\ CallFits(k)
      BY <2>1, <2>4 DEF AlIInv, CallRecords, CallKinds, CallFits
    <3> QED
      BY <2>1, <3>1, <3>2, OneCall
  <2> QED
    BY <2>2, <2>3, <2>4
<1>4. ASSUME NEW l \in Calls, HashMedia(l) PROVE AlIInv'
  <2>1. call[l] \in CallRecords /\ CallFits(call[l]) /\ call[l].at = "hashing" /\ UNCHANGED <<mediaVars, storeVars>>
    BY <1>4 DEF AlIInv, HashMedia
  <2>2. PICK d \in {call[l].seen.version} \union (IF media = call[l].seen THEN {} ELSE {TornDigest}) :
          IF call[l].kind = "verify" /\ call[l].read.digest \notin {NoDigest, d} THEN Found(l, "hash")
          ELSE call' = [call EXCEPT ![l].at = "confirming", ![l].digest = d]
    BY <1>4 DEF HashMedia
  <2>3. d \in Int /\ (d = call[l].seen.version \/ media # call[l].seen)
    BY <2>1 DEF CallRecords, TornDigest
  <2>4. CASE call[l].kind = "verify" /\ call[l].read.digest \notin {NoDigest, d}
    <3> DEFINE k == [call[l] EXCEPT !.at = "committing", !.found = "hash"]
    <3>1. call' = [call EXCEPT ![l] = k]
      BY <2>2, <2>4 DEF Found, AlIInv
    <3>2. k \in CallRecords /\ CallFits(k)
      BY <2>1, <2>4 DEF AlIInv, CallRecords, CallKinds, CallFits
    <3> QED
      BY <2>1, <3>1, <3>2, OneCall
  <2>5. CASE ~(call[l].kind = "verify" /\ call[l].read.digest \notin {NoDigest, d})
    <3> DEFINE k == [call[l] EXCEPT !.at = "confirming", !.digest = d]
    <3>1. call' = [call EXCEPT ![l] = k]
      BY <2>2, <2>5 DEF AlIInv
    <3>2. k \in CallRecords /\ CallFits(k)
      BY <2>1, <2>3, <2>5 DEF AlIInv, CallRecords, CallKinds, CallFits
    <3> QED
      BY <2>1, <3>1, <3>2, OneCall
  <2> QED
    BY <2>4, <2>5
<1>5. ASSUME NEW l \in Calls, ConfirmStable(l) PROVE AlIInv'
  <2>1. call[l] \in CallRecords /\ CallFits(call[l]) /\ call[l].at = "confirming" /\ UNCHANGED <<mediaVars, storeVars>>
    BY <1>5 DEF AlIInv, ConfirmStable
  <2>2. CASE media = call[l].seen
    <3> DEFINE k == [call[l] EXCEPT !.at = "committing", !.found = "present"]
    <3>1. call' = [call EXCEPT ![l] = k]
      BY <1>5, <2>1, <2>2 DEF ConfirmStable, Found, AlIInv
    <3>2. k \in CallRecords /\ CallFits(k)
      BY <2>1, <2>2 DEF AlIInv, CallRecords, CallKinds, CallFits
    <3> QED
      BY <2>1, <3>1, <3>2, OneCall
  <2>3. CASE media # call[l].seen /\ call[l].kind = "record"
    BY <1>5, <2>1, <2>3, OneCall, EndedCall DEF ConfirmStable, LibraryFails, EndCall
  <2>4. CASE media # call[l].seen /\ call[l].kind # "record"
    <3> DEFINE k == [call[l] EXCEPT !.at = "committing", !.found = "notRegular", !.digest = call[l].read.digest]
    <3>1. call' = [call EXCEPT ![l] = k]
      BY <1>5, <2>1, <2>4 DEF ConfirmStable, AlIInv
    <3>2. k \in CallRecords /\ CallFits(k)
      BY <2>1, <2>4 DEF AlIInv, CallRecords, CallKinds, CallFits
    <3> QED
      BY <2>1, <3>1, <3>2, OneCall
  <2> QED
    BY <2>2, <2>3, <2>4
<1>6. ASSUME NEW l \in Calls, CommitManifest(l) PROVE AlIInv'
  <2>1. call[l] \in CallRecords /\ CallFits(call[l]) /\ call[l].at = "committing" /\ call[l].kind = "record" /\ UNCHANGED mediaVars
    BY <1>6 DEF AlIInv, CommitManifest, CallAt
  <2>2. CASE LibraryFails(l) /\ UNCHANGED storeVars
    BY <2>1, <2>2, OneCall, EndedCall DEF LibraryFails, EndCall
  <2>3. CASE /\ known' = TRUE /\ row' = [bytes |-> call[l].read.bytes, digest |-> call[l].digest, present |-> TRUE]
             /\ storedManifest' = [bytes |-> call[l].read.bytes, digest |-> call[l].digest]
             /\ EndCall(l, "done")
    <3>1. <<call[l].read.bytes, call[l].digest>> \in everMedia
      BY <2>1 DEF CallFits
    <3>2. call[l].digest # NoDigest
      BY <3>1, <2>1 DEF AlIInv, NoDigest
    <3>3. call' \in [Calls -> CallRecords]
      BY <2>3, EndedCall DEF EndCall, AlIInv
    <3>4. ASSUME NEW m \in Calls PROVE CallFits(call[m])'
      <4>1. call'[m] = IF m = l THEN [NoCall EXCEPT !.at = "done"] ELSE call[m]
        BY <2>3 DEF AlIInv, EndCall
      <4>2. CallFits(call'[m])
        BY <4>1, EndedCall DEF AlIInv
      <4> QED
        BY <2>1, <2>3, <3>2, <4>2 DEF CallFits, mediaVars
    <3>5. row' \in [bytes : Nat, digest : Int, present : BOOLEAN] /\ storedManifest' \in [bytes : Nat, digest : Int]
      BY <2>1, <2>3 DEF CallRecords
    <3> QED
      BY <2>1, <2>3, <3>1, <3>3, <3>4, <3>5 DEF AlIInv, mediaVars, RowDescribesMedia, ManifestKept
  <2> QED
    BY <1>6, <2>2, <2>3 DEF CommitManifest
<1>7. ASSUME NEW l \in Calls, RecordVerification(l) PROVE AlIInv'
  <2>1. call[l] \in CallRecords /\ CallFits(call[l]) /\ call[l].at = "committing" /\ call[l].kind = "verify" /\ UNCHANGED mediaVars
    BY <1>7 DEF AlIInv, RecordVerification, CallAt
  <2>2. CASE LibraryFails(l) /\ UNCHANGED storeVars
    BY <2>1, <2>2, OneCall, EndedCall DEF LibraryFails, EndCall
  <2>3. CASE /\ EndCall(l, "done")
             /\ row' = [row EXCEPT !.present = (call[l].found = "present"),
                              !.digest = IF call[l].found = "present" /\ @ = NoDigest THEN call[l].digest ELSE @]
             /\ UNCHANGED <<known, storedManifest>>
    <3>1. /\ row' \in [bytes : Nat, digest : Int, present : BOOLEAN] /\ row'.bytes = row.bytes
          /\ row.digest # NoDigest => row'.digest = row.digest
          /\ row'.digest = row.digest \/ (call[l].found = "present" /\ row.digest = NoDigest /\ row'.digest = call[l].digest)
      BY <2>1, <2>3 DEF AlIInv, CallRecords
    <3>2. row.digest = NoDigest /\ row'.digest # NoDigest => <<row.bytes, row'.digest>> \in everMedia
      BY <2>1, <3>1 DEF CallFits, CallRecords
    <3>3. call' \in [Calls -> CallRecords]
      BY <2>3, EndedCall DEF EndCall, AlIInv
    <3>4. ASSUME NEW m \in Calls PROVE CallFits(call[m])'
      <4>1. call'[m] = IF m = l THEN [NoCall EXCEPT !.at = "done"] ELSE call[m]
        BY <2>3 DEF AlIInv, EndCall
      <4>2. CallFits(call'[m])
        BY <4>1, EndedCall DEF AlIInv
      <4> QED
        BY <2>1, <2>3, <3>1, <4>2 DEF CallFits, mediaVars
    <3> QED
      BY <2>1, <2>3, <3>1, <3>2, <3>3, <3>4 DEF AlIInv, mediaVars, RowDescribesMedia, ManifestKept
  <2> QED
    BY <1>7, <2>2, <2>3 DEF RecordVerification
<1>8. CASE ReplaceMedia
  <2> DEFINE n == Cardinality(everMedia)
  <2>0. n \in Nat /\ n > 0
    BY FS_CardinalityType, FS_EmptySet DEF AlIInv
  <2>1. PICK b \in MediaBytes, i \in {media.inode, n + 1} :
          media' = [inode |-> i, version |-> n + 1, bytes |-> b] /\ everMedia' = everMedia \union {<<b, n + 1>>}
    <3>1. Changes + 2 = n + 1
      BY <2>0 DEF Changes
    <3> HIDE DEF n
    <3> QED
      BY <1>8, <3>1 DEF ReplaceMedia, Put
  <2> HIDE DEF n
  <2>2. b \in Nat /\ i \in Nat /\ UNCHANGED <<storeVars, call>>
    BY <1>8, <2>0, <2>1, MediaAssumption DEF AlIInv, ReplaceMedia
  <2>3. <<b, n + 1>> \notin everMedia /\ \A e \in everMedia : e[2] \in 1..n
    BY <2>0 DEF AlIInv, n
  <2>4. IsFiniteSet(everMedia') /\ Cardinality(everMedia') = n + 1
    BY <2>1, <2>3, FS_AddElement DEF AlIInv, n
  <2>5. everMedia' \subseteq Nat \X Nat /\ \A e \in everMedia' : e[2] \in 1..(n + 1)
    BY <2>0, <2>1, <2>2, <2>3 DEF AlIInv
  <2>6. ASSUME NEW m \in Calls PROVE CallFits(call[m])'
    <3>1. CallFits(call[m]) /\ call'[m] = call[m]
      BY <2>2 DEF AlIInv
    <3>2. call[m].at \in {"hashing", "confirming"} => media' # call[m].seen
      <4>1. call[m].at \in {"hashing", "confirming"} => call[m].seen.version \in 1..n
        BY <2>3, <3>1 DEF CallFits
      <4> QED
        BY <2>0, <2>1, <4>1
    <3> QED
      BY <2>1, <2>2, <3>1, <3>2 DEF CallFits, storeVars
  <2> QED
    BY <2>0, <2>1, <2>2, <2>4, <2>5, <2>6 DEF AlIInv, storeVars, RowDescribesMedia, ManifestKept
<1>9. CASE RemoveMedia
  <2>1. media' = NoMedia /\ UNCHANGED <<everMedia, storeVars, call>>
    BY <1>9 DEF RemoveMedia
  <2>2. ASSUME NEW m \in Calls PROVE CallFits(call[m])'
    <3>1. CallFits(call[m]) /\ call'[m] = call[m]
      BY <2>1 DEF AlIInv
    <3>2. call[m].at = "confirming" => call[m].seen.version \in 1..Cardinality(everMedia)
      BY <3>1 DEF AlIInv, CallFits
    <3>3. call[m].at = "confirming" => media' # call[m].seen
      BY <2>1, <3>2 DEF NoMedia
    <3> QED
      BY <2>1, <3>1, <3>3 DEF CallFits, storeVars
  <2> QED
    BY <2>1, <2>2 DEF AlIInv, NoMedia, storeVars, RowDescribesMedia, ManifestKept
<1> QED
  BY <1>1, <1>2, <1>3, <1>4, <1>5, <1>6, <1>7, <1>8, <1>9 DEF AlNext, AlProgress

(* So does a step of another part. *)
LEMMA AlStutter == AlIInv /\ UNCHANGED alVars => AlIInv'
<1> SUFFICES ASSUME AlIInv, UNCHANGED alVars PROVE AlIInv'
  OBVIOUS
<1>1. \A m \in Calls : CallFits(call[m])'
  BY DEF AlIInv, alVars, CallFits
<1> QED
  BY <1>1 DEF AlIInv, alVars, RowDescribesMedia, ManifestKept

(* The invariant implies what the runs check of the recording. *)
LEMMA AlInvariance == AlIInv => AlSafe
BY DEF AlIInv, AlSafe

---------------------------------------------------------------------------
(* Download commands. *)

Early == {"idle", "locking", "verifying", "reusing"}
Loading == {"playlists", "lecture", "downloading", "building", "telling"}
Finished == {"finishing", "over"}
CommandStages == Early \union Loading \union Finished \union {"recording", "closing"}
Missing == {"notFound", "damaged"}
Terminals == {"none", "completed", "canceled", "failed", "undelivered"}
Streams == [open : 0..2, completed : SUBSET Artifacts, terminal : Terminals]

CdTypes ==
  /\ flags \in CommandLines /\ command \in [Commands -> CommandStages] /\ cursor \in [Commands -> 0..2]
  /\ decided \in [Commands -> [Artifacts -> {"download", "busy", "reused"} \union Missing]]
  /\ playlists \in [Commands -> SUBSET Artifacts] /\ built \in [Commands -> SUBSET Artifacts]
  /\ reused \in [Commands -> SUBSET Artifacts] /\ recorded \in [Commands -> BOOLEAN]
  /\ cause \in [Commands -> {"none"} \union Errors] /\ stream \in [Commands -> Streams] /\ exit \in [Commands -> Int]
  /\ lockOwner \in [Artifacts -> {0} \union Commands] /\ unguarded \subseteq Artifacts
  /\ versions \in Nat /\ onDisk \in [Artifacts -> 0..versions] /\ library \in [Artifacts -> 0..versions]

(* Nothing is told, built or blamed before its time. *)
Fresh(c) ==
  /\ command[c] \in Early => /\ built[c] = {} /\ reused[c] = {} /\ ~recorded[c]
                             /\ stream[c].completed = {} /\ stream[c].open = 0
  /\ command[c] \in Early \union Loading => cause[c] = "none"

(* Where a command is in its selection; what lies ahead is undecided. *)
Ahead(c) ==
  /\ command[c] = "idle" => \A a \in Artifacts : decided[c][a] = "download"
  /\ command[c] \in {"locking", "verifying"} =>
       cursor[c] \in Chosen(c) /\ \A a \in Artifacts : a >= cursor[c] => decided[c][a] = "download"
  /\ command[c] \in {"lecture", "downloading", "building", "telling"} => cursor[c] \in Artifacts

(* It has the locks of what it has to download. *)
Locks(c) ==
  /\ \A a \in Artifacts : decided[c][a] \in Missing /\ command[c] \notin Finished => lockOwner[a] = c
  /\ command[c] = "verifying" => lockOwner[cursor[c]] = c
  /\ \A a \in Artifacts : lockOwner[a] = c => command[c] \notin Finished \union {"idle"}

(* What it decided is still so when it downloads. *)
Stands(c) ==
  \A a \in Artifacts :
    /\ decided[c][a] = "reused" => library[a] # NoVersion
    /\ command[c] \in Early \union Loading \union {"recording"} /\ a \notin unguarded =>
         /\ decided[c][a] = "notFound" => library[a] = NoVersion
         /\ decided[c][a] = "damaged" => library[a] # NoVersion /\ onDisk[a] # library[a]

(* What it publishes without having decided on it under the lock is known. *)
Guarded(c) ==
  /\ \A a \in built[c] : a \in unguarded \/ decided[c][a] \in Missing
  /\ command[c] = "building" => cursor[c] \in unguarded \/ decided[c][cursor[c]] \in Missing

(* What its stream has told, compared with its result. *)
Tells(c) ==
  /\ stream[c].completed \subseteq built[c] \union Hits(c) /\ reused[c] \subseteq Hits(c)
  /\ command[c] = "telling" => cursor[c] \in built[c]
  /\ Emits(c) /\ cause[c] = "none" =>
       /\ command[c] \in {"playlists", "lecture", "downloading", "building", "recording", "closing", "finishing"} =>
            stream[c].completed = built[c] \union reused[c]
       /\ command[c] \in {"playlists", "lecture", "recording", "closing", "finishing"} => stream[c].open = 0
       /\ command[c] = "telling" => stream[c].completed \union {cursor[c]} = built[c] \union reused[c]

(* What it has recorded, and said at its end. *)
Says(c) ==
  /\ command[c] \in Finished \union {"closing"} /\ recorded[c] => \A a \in built[c] : library[a] # NoVersion
  /\ command[c] # "over" => stream[c].terminal = "none"
  /\ command[c] = "over" /\ Emits(c) =>
       /\ stream[c].terminal # "none"
       /\ built[c] # {} /\ ~recorded[c] => exit[c] = 1 /\ stream[c].terminal \in {"failed", "undelivered"}
  /\ stream[c].terminal = "completed" =>
       stream[c].open = 0 /\ stream[c].completed = built[c] \union reused[c] /\ recorded[c]

CdFits(c) == Fresh(c) /\ Ahead(c) /\ Locks(c) /\ Stands(c) /\ Guarded(c) /\ Tells(c) /\ Says(c)

CdIInv == CdTypes /\ \A c \in Commands : CdFits(c)

(* Files are at least as new as what was recorded or published of them, and
   who has recorded its artifacts finds what it published in the library, or
   newer: versions only grow, in the library too. *)
Settled == Finished \union {"closing"}
CdLasts ==
  /\ published \in [Commands -> [Artifacts -> 0..versions]]
  /\ \A a \in Artifacts : onDisk[a] # NoVersion =>
       library[a] <= onDisk[a] /\ \A c \in Commands : published[c][a] <= onDisk[a]
  /\ \A c \in Commands : command[c] \in Settled /\ recorded[c] =>
       \A a \in built[c] : published[c][a] <= library[a]

---------------------------------------------------------------------------

(* The invariants imply what the runs check of the commands. *)
LEMMA CdInvariance ==
  ASSUME CdIInv, CdLasts
  PROVE  CdSafe
<1>1. CdTypes /\ \A c \in Commands : CdFits(c)
  BY DEF CdIInv
<1>2. DecisionsHold
  BY <1>1 DEF DecisionsHold, CdFits, Stands, At, Loading, Missing
<1>3. ASSUME NEW c \in Commands
      PROVE  /\ stream[c].completed \subseteq built[c] \union Hits(c)
             /\ stream[c].terminal = "completed" => /\ stream[c].open = 0 /\ stream[c].completed = built[c] \union reused[c]
                                                    /\ \A a \in stream[c].completed : library[a] # NoVersion
             /\ At(c, "over") /\ Emits(c) => stream[c].terminal # "none"
  <2>1. Fresh(c) /\ Stands(c) /\ Tells(c) /\ Says(c)
    BY <1>1 DEF CdFits
  <2>2. reused[c] \subseteq Hits(c) /\ \A a \in Hits(c) : library[a] # NoVersion
    BY <2>1 DEF Tells, Stands, Hits, Decided
  <2>3. stream[c].terminal = "completed" => \A a \in built[c] : library[a] # NoVersion
    BY <2>1 DEF Says, Finished
  <2> QED
    BY <2>1, <2>2, <2>3 DEF Tells, Says, At
<1>4. TruthTold
  BY <1>3 DEF TruthTold
<1>5. ASSUME NEW c \in Commands, NEW a \in Artifacts, At(c, "over"), a \in built[c], library[a] < published[c][a]
      PROVE  IF Emits(c) THEN exit[c] = 1 /\ stream[c].terminal \in {"failed", "undelivered"} ELSE ~recorded[c]
  <2>1. Says(c)
    BY <1>1 DEF CdFits
  <2>2. ~recorded[c]
    <3>1. library[a] \in Nat /\ published[c][a] \in Nat
      BY <1>1 DEF CdLasts, CdTypes
    <3>2. ~(published[c][a] <= library[a])
      BY <1>5, <3>1
    <3> QED
      BY <1>5, <3>2 DEF CdLasts, At, Settled, Finished
  <2> QED
    BY <1>5, <2>1, <2>2 DEF Says, At
<1>6. NothingUnrecorded
  BY <1>5 DEF NothingUnrecorded
<1>7. Offered
  BY <1>1 DEF Offered, CdFits, Tells, At
<1>8. LocksReturned
  BY <1>1 DEF LocksReturned, CdFits, Locks, CdTypes, At, Finished
<1> QED
  BY <1>2, <1>4, <1>6, <1>7, <1>8 DEF CdSafe

(* The commands start in the invariant. *)
LEMMA CdInitIInv ==
  ASSUME CdInit
  PROVE  CdIInv
<1>1. /\ flags \in CommandLines
      /\ command = [c \in Commands |-> "idle"] /\ cursor = [c \in Commands |-> 0]
      /\ decided = [c \in Commands |-> [a \in Artifacts |-> "download"]]
      /\ playlists = [c \in Commands |-> {}] /\ built = [c \in Commands |-> {}] /\ reused = [c \in Commands |-> {}]
      /\ recorded = [c \in Commands |-> FALSE] /\ cause = [c \in Commands |-> "none"]
      /\ stream = [c \in Commands |-> [open |-> 0, completed |-> {}, terminal |-> "none"]] /\ exit = [c \in Commands |-> -1]
      /\ lockOwner = [a \in Artifacts |-> 0]
      /\ onDisk = [a \in Artifacts |-> NoVersion] /\ library = [a \in Artifacts |-> NoVersion]
      /\ versions = 0 /\ unguarded = {}
  BY DEF CdInit
<1>2. [open |-> 0, completed |-> {}, terminal |-> "none"] \in Streams
  BY DEF Streams, Terminals
<1>3. CdTypes
  BY <1>1, <1>2 DEF CdTypes, CommandStages, Early, NoVersion
<1>4. ASSUME NEW c \in Commands PROVE CdFits(c)
  <2>1. command[c] = "idle" /\ built[c] = {} /\ reused[c] = {} /\ recorded[c] = FALSE /\ cause[c] = "none"
        /\ stream[c].open = 0 /\ stream[c].completed = {} /\ stream[c].terminal = "none"
    BY <1>1
  <2>2. \A a \in Artifacts : decided[c][a] = "download" /\ lockOwner[a] = 0
    BY <1>1
  <2>3. c # 0
    BY DEF Commands
  <2>4. Fresh(c) /\ Ahead(c) /\ Locks(c)
    BY <2>1, <2>2, <2>3 DEF Fresh, Ahead, Locks, Missing
  <2>5. Stands(c) /\ Guarded(c) /\ Tells(c)
    BY <2>1, <2>2, <2>3 DEF Stands, Guarded, Tells, Missing
  <2>6. Says(c)
    BY <2>1 DEF Says, Finished
  <2> QED
    BY <2>4, <2>5, <2>6 DEF CdFits
<1> QED
  BY <1>3, <1>4 DEF CdIInv

---------------------------------------------------------------------------
(* The commands but c stay as they are. *)
CommandsStay(c) ==
  /\ flags' = flags /\ unguarded \subseteq unguarded'
  /\ \A d \in Commands \ {c} :
       /\ command'[d] = command[d] /\ cursor'[d] = cursor[d] /\ decided'[d] = decided[d]
       /\ built'[d] = built[d] /\ reused'[d] = reused[d] /\ recorded'[d] = recorded[d] /\ cause'[d] = cause[d]
       /\ stream'[d] = stream[d] /\ exit'[d] = exit[d]
       /\ \A a \in Artifacts : (lockOwner'[a] = d) = (lockOwner[a] = d)

StandsStill(d) ==
  \A a \in Artifacts :
    /\ library[a] # NoVersion => library'[a] # NoVersion
    /\ command[d] \in Early \union Loading \union {"recording"} /\ a \notin unguarded' =>
         /\ decided[d][a] = "notFound" /\ library[a] = NoVersion => library'[a] = NoVersion
         /\ decided[d][a] = "damaged" /\ onDisk[a] # library[a] /\ library[a] # NoVersion => onDisk'[a] # library'[a]

(* A command that does not move fits as before, if what it decided still stands. *)
LEMMA OtherFits ==
  ASSUME CdIInv, NEW c \in Commands, CommandsStay(c), NEW d \in Commands \ {c}, StandsStill(d)
  PROVE  CdFits(d)'
<1>1. CdFits(d)
  BY DEF CdIInv
<1>2. /\ command'[d] = command[d] /\ cursor'[d] = cursor[d] /\ decided'[d] = decided[d] /\ flags' = flags
      /\ built'[d] = built[d] /\ reused'[d] = reused[d] /\ recorded'[d] = recorded[d] /\ cause'[d] = cause[d]
      /\ stream'[d] = stream[d] /\ exit'[d] = exit[d]
  BY DEF CommandsStay
<1>3. \A a \in Artifacts : lockOwner'[a] = d <=> lockOwner[a] = d
  BY DEF CommandsStay
<1>4. Hits(d)' = Hits(d) /\ Emits(d)' = Emits(d) /\ Chosen(d)' = Chosen(d)
  BY <1>2 DEF Hits, Decided, Emits, Chosen
<1>5. Fresh(d)'
  BY <1>1, <1>2 DEF CdFits, Fresh
<1>6. Ahead(d)'
  BY <1>1, <1>2, <1>4 DEF CdFits, Ahead
<1>7. Locks(d)'
  <2>1. command[d] = "verifying" => cursor[d] \in Artifacts
    BY <1>1, CliAssumption DEF CdFits, Ahead, CdIInv, CdTypes, Chosen, Artifacts, Commands
  <2> QED
    BY <1>1, <1>2, <1>3, <2>1 DEF CdFits, Locks
<1>8. Stands(d)'
  BY <1>1, <1>2 DEF CdFits, Stands, StandsStill, CommandsStay
<1>9. Guarded(d)'
  BY <1>1, <1>2 DEF CdFits, Guarded, CommandsStay
<1>10. Tells(d)'
  BY <1>1, <1>2, <1>4 DEF CdFits, Tells
<1>11. Says(d)'
  <2>1. \A a \in built[d] : library[a] # NoVersion => library'[a] # NoVersion
    BY DEF StandsStill, CdIInv, CdTypes
  <2> QED
    BY <1>1, <1>2, <1>4, <2>1 DEF CdFits, Says
<1> QED
  BY <1>5, <1>6, <1>7, <1>8, <1>9, <1>10, <1>11 DEF CdFits

(* What an action of one command has to show. *)
LEMMA OneCommands ==
  ASSUME CdIInv, NEW c \in Commands, CommandsStay(c), CdTypes', CdFits(c)', \A d \in Commands \ {c} : StandsStill(d)
  PROVE  CdIInv'
BY OtherFits DEF CdIInv

(* The files and the library stay as they are, *)
LEMMA WorldStands ==
  ASSUME CdTypes, onDisk' = onDisk, library' = library
  PROVE  \A d \in Commands : StandsStill(d)
BY DEF StandsStill

(* an artifact gets files of a new version, *)
LEMMA PublishingStands ==
  ASSUME CdTypes, NEW b \in Artifacts, onDisk' = [onDisk EXCEPT ![b] = versions + 1], library' = library
  PROVE  \A d \in Commands : StandsStill(d)
<1>1. \A a \in Artifacts : library[a] # versions + 1
  BY DEF CdTypes
<1>2. \A a \in Artifacts : onDisk'[a] = onDisk[a] \/ onDisk'[a] = versions + 1
  BY DEF CdTypes
<1> QED
  BY <1>1, <1>2 DEF StandsStill

(* or loses its files. *)
LEMMA RemovingStands ==
  ASSUME CdTypes, NEW b \in Artifacts, onDisk' = [onDisk EXCEPT ![b] = NoVersion], library' = library
  PROVE  \A d \in Commands : StandsStill(d)
<1>1. \A a \in Artifacts : onDisk'[a] = onDisk[a] \/ onDisk'[a] = NoVersion
  BY DEF CdTypes
<1> QED
  BY <1>1 DEF StandsStill

(* A recording changes what nobody else has the lock of. *)
LEMMA RecordingStands ==
  ASSUME CdIInv, NEW c \in Commands, command[c] = "recording", unguarded' = unguarded, onDisk' = onDisk,
         \A a \in built[c] : onDisk[a] # NoVersion,
         library' = [a \in Artifacts |-> IF a \in built[c] THEN onDisk[a] ELSE library[a]]
  PROVE  \A d \in Commands \ {c} : StandsStill(d)
<1>1. ASSUME NEW d \in Commands \ {c}, NEW a \in Artifacts, a \in built[c], a \notin unguarded,
             command[d] \in Early \union Loading \union {"recording"}
      PROVE  decided[d][a] \notin Missing
  <2>1. CdFits(c) /\ CdFits(d)
    BY DEF CdIInv
  <2>2. lockOwner[a] = c
    BY <1>1, <2>1 DEF CdFits, Guarded, Locks, Finished
  <2> QED
    BY <1>1, <2>1, <2>2 DEF CdFits, Locks, Finished, Early, Loading
<1>2. ASSUME NEW d \in Commands \ {c} PROVE StandsStill(d)
  <2>1. \A a \in Artifacts : library[a] # NoVersion => library'[a] # NoVersion
    OBVIOUS
  <2>2. ASSUME NEW a \in Artifacts, command[d] \in Early \union Loading \union {"recording"}, a \notin unguarded',
               decided[d][a] \in Missing
        PROVE  library'[a] = library[a] /\ onDisk'[a] = onDisk[a]
    BY <1>1, <2>2
  <2> QED
    BY <2>1, <2>2 DEF StandsStill, Missing
<1> QED
  BY <1>2

(* The user removes files. *)
LEMMA RemoveFilesStep ==
  ASSUME CdIInv, NEW b \in Artifacts, RemoveFiles(b)
  PROVE  CdIInv'
<1>1. /\ flags' = flags /\ command' = command /\ cursor' = cursor /\ decided' = decided /\ playlists' = playlists
      /\ built' = built /\ reused' = reused /\ recorded' = recorded /\ cause' = cause /\ stream' = stream /\ exit' = exit
      /\ lockOwner' = lockOwner /\ library' = library /\ versions' = versions /\ unguarded' = unguarded
      /\ onDisk' = [onDisk EXCEPT ![b] = NoVersion]
  BY DEF RemoveFiles, resultVars
<1>2. CdTypes
  BY DEF CdIInv
<1>3. CdTypes'
  BY <1>1, <1>2 DEF CdTypes, NoVersion
<1>4. ASSUME NEW d \in Commands PROVE CdFits(d)'
  <2>1. PICK c \in Commands : d \in Commands \ {c}
    BY DEF Commands
  <2>2. CommandsStay(c)
    BY <1>1 DEF CommandsStay
  <2>3. StandsStill(d)
    BY <1>1, <1>2, RemovingStands
  <2> QED
    BY <2>1, <2>2, <2>3, OtherFits
<1> QED
  BY <1>3, <1>4 DEF CdIInv

(* Nothing but an interruption. *)
LEMMA CdRests ==
  ASSUME CdIInv, UNCHANGED <<flags, command, cursor, decided, playlists, resultVars, lockOwner, worldVars>>
  PROVE  CdIInv'
<1>1. /\ flags' = flags /\ command' = command /\ cursor' = cursor /\ decided' = decided /\ playlists' = playlists
      /\ built' = built /\ reused' = reused /\ recorded' = recorded /\ cause' = cause /\ stream' = stream /\ exit' = exit
      /\ lockOwner' = lockOwner /\ library' = library /\ versions' = versions /\ unguarded' = unguarded /\ onDisk' = onDisk
  BY DEF worldVars, resultVars
<1>2. CdTypes /\ CdTypes'
  BY <1>1 DEF CdTypes, CdIInv
<1>3. ASSUME NEW d \in Commands PROVE CdFits(d)'
  <2>1. PICK c \in Commands : d \in Commands \ {c}
    BY DEF Commands
  <2>2. CommandsStay(c)
    BY <1>1 DEF CommandsStay
  <2>3. StandsStill(d)
    BY <1>1, <1>2, WorldStands
  <2> QED
    BY <2>1, <2>2, <2>3, OtherFits
<1> QED
  BY <1>2, <1>3 DEF CdIInv

---------------------------------------------------------------------------
(* The first and the last of some artifacts. *)
LEMMA Ends ==
  ASSUME NEW S, S \subseteq Artifacts, S # {}
  PROVE  /\ Min(S) \in S /\ \A a \in S : Min(S) <= a
         /\ Max(S) \in S /\ \A a \in S : a <= Max(S)
<1>1. \A a \in S : a = 1 \/ a = 2
  BY DEF Artifacts
<1>2. \E x \in S : \A y \in S : x <= y
  BY <1>1
<1>3. \E x \in S : \A y \in S : x >= y
  BY <1>1
<1>4. Min(S) \in S /\ \A a \in S : Min(S) <= a
  BY <1>2 DEF Min
<1>5. Max(S) \in S /\ \A a \in S : Max(S) >= a
  BY <1>3 DEF Max
<1> QED
  BY <1>1, <1>4, <1>5

(* What a command selects, has reused and wants are artifacts. *)
LEMMA Selects ==
  ASSUME CdTypes, NEW c \in Commands
  PROVE  /\ Chosen(c) \subseteq Artifacts /\ flags[c].reuse \in BOOLEAN /\ Emits(c) \in BOOLEAN /\ Artifacts \subseteq 0..2 /\ c # 0
         /\ Hits(c) \subseteq Artifacts /\ Wanted(c) \subseteq Artifacts
BY CliAssumption DEF CdTypes, Chosen, Emits, Artifacts, Commands, Hits, Decided, Wanted

(* A command goes on to another stage. *)
LEMMA Goes ==
  ASSUME CdTypes, NEW c \in Commands, NEW s \in CommandStages, Go(c, s)
  PROVE  command'[c] = s /\ command' \in [Commands -> CommandStages] /\ \A d \in Commands \ {c} : command'[d] = command[d]
BY DEF CdTypes, Go

(* It has an error from now on. *)
LEMMA Raises ==
  ASSUME CdTypes, NEW c \in Commands, NEW e \in Errors, Raise(c, e)
  PROVE  cause'[c] = e /\ cause' \in [Commands -> {"none"} \union Errors] /\ \A d \in Commands \ {c} : cause'[d] = cause[d]
BY DEF CdTypes, Raise

(* A command begins: with its locks, its playlists, or an error. *)
LEMMA PrepareCommandStep ==
  ASSUME CdIInv, NEW c \in Commands, PrepareCommand(c)
  PROVE  CdIInv'
<1>1. /\ flags' = flags /\ decided' = decided /\ playlists' = playlists
      /\ built' = built /\ reused' = reused /\ recorded' = recorded /\ stream' = stream /\ exit' = exit
      /\ lockOwner' = lockOwner /\ library' = library /\ versions' = versions /\ unguarded' = unguarded /\ onDisk' = onDisk
      /\ command[c] = "idle" /\ Chosen(c) # {}
  BY DEF PrepareCommand, worldVars, At
<1>2. CdTypes /\ CdFits(c)
  BY DEF CdIInv
<1>3. /\ Chosen(c) \subseteq Artifacts /\ Min(Chosen(c)) \in Chosen(c) /\ Min(Chosen(c)) \in 0..2
      /\ {"locking", "playlists", "finishing"} \subseteq CommandStages /\ {"failed", "canceled"} \subseteq Errors /\ c # 0
  BY <1>1, <1>2, Selects, Ends DEF CommandStages, Early, Loading, Finished, Errors
<1>4. /\ command' \in [Commands -> CommandStages] /\ cursor' \in [Commands -> 0..2] /\ cause' \in [Commands -> {"none"} \union Errors]
      /\ \A d \in Commands \ {c} : command'[d] = command[d] /\ cursor'[d] = cursor[d] /\ cause'[d] = cause[d]
      /\ \/ command'[c] = "locking" /\ cursor'[c] \in Chosen(c) /\ cause' = cause
         \/ command'[c] = "playlists" /\ cause' = cause
         \/ command'[c] = "finishing" /\ cause'[c] # "none"
  <2>1. CASE cause' = cause /\ flags[c].reuse /\ Go(c, "locking") /\ cursor' = [cursor EXCEPT ![c] = Min(Chosen(c))]
    BY <1>2, <1>3, <2>1, Goes DEF CdTypes
  <2>2. CASE cause' = cause /\ Go(c, "playlists") /\ cursor' = cursor
    BY <1>2, <1>3, <2>2, Goes DEF CdTypes
  <2>3. CASE (\E e \in {"failed", "canceled"} : Raise(c, e)) /\ Go(c, "finishing") /\ cursor' = cursor
    BY <1>2, <1>3, <2>3, Goes, Raises DEF CdTypes, Errors
  <2> QED
    BY <2>1, <2>2, <2>3 DEF PrepareCommand
<1>5. CommandsStay(c)
  BY <1>1, <1>4 DEF CommandsStay
<1>6. CdTypes'
  BY <1>1, <1>2, <1>4 DEF CdTypes
<1>7. Hits(c)' = Hits(c) /\ Emits(c)' = Emits(c) /\ Chosen(c)' = Chosen(c) /\ Hits(c) = {}
  BY <1>1, <1>2 DEF Hits, Decided, Emits, Chosen, CdFits, Ahead
<1>8. /\ \A a \in Artifacts : decided[c][a] = "download" /\ lockOwner[a] # c
      /\ built[c] = {} /\ reused[c] = {} /\ ~recorded[c] /\ stream[c].completed = {} /\ stream[c].open = 0
      /\ cause[c] = "none" /\ stream[c].terminal = "none"
  BY <1>1, <1>2 DEF CdFits, Fresh, Ahead, Locks, Says, Early
<1>9. Fresh(c)'
  BY <1>1, <1>4, <1>8 DEF Fresh, Early, Loading
<1>10. Ahead(c)'
  BY <1>1, <1>4, <1>7, <1>8 DEF Ahead
<1>11. Locks(c)'
  BY <1>1, <1>4, <1>8 DEF Locks, Missing
<1>12. Stands(c)'
  BY <1>1, <1>8 DEF Stands
<1>13. Guarded(c)'
  BY <1>1, <1>4, <1>8 DEF Guarded
<1>14. Tells(c)'
  BY <1>1, <1>4, <1>7, <1>8 DEF Tells
<1>15. Says(c)'
  BY <1>1, <1>4, <1>8 DEF Says
<1>16. \A d \in Commands \ {c} : StandsStill(d)
  BY <1>1, <1>2, WorldStands
<1> QED
  BY <1>5, <1>6, <1>9, <1>10, <1>11, <1>12, <1>13, <1>14, <1>15, <1>16, OneCommands DEF CdFits

(* What holds while a command decides. *)
LEMMA WhileDeciding ==
  ASSUME CdIInv, NEW c \in Commands, command[c] \in {"locking", "verifying"}
  PROVE  /\ CdTypes /\ CdFits(c) /\ cursor[c] \in Chosen(c) /\ cursor[c] \in Artifacts /\ c # 0
         /\ \A a \in Artifacts : a >= cursor[c] => decided[c][a] = "download"
         /\ \A a \in Artifacts : decided[c][a] \in Missing => lockOwner[a] = c
         /\ command[c] = "verifying" => lockOwner[cursor[c]] = c
         /\ built[c] = {} /\ reused[c] = {} /\ ~recorded[c] /\ stream[c].completed = {} /\ stream[c].open = 0
         /\ cause[c] = "none" /\ stream[c].terminal = "none"
<1>1. CdTypes /\ CdFits(c)
  BY DEF CdIInv
<1> QED
  BY <1>1, Selects DEF CdFits, Ahead, Locks, Fresh, Says, Finished, Early

(* After a decision comes the next lecture of the selection, or the reuse. *)
LEMMA NextDecides ==
  ASSUME CdTypes, NEW c \in Commands, cursor[c] \in Chosen(c), NextDecision(c)
  PROVE  /\ command' \in [Commands -> CommandStages] /\ cursor' \in [Commands -> 0..2]
         /\ \A d \in Commands \ {c} : command'[d] = command[d] /\ cursor'[d] = cursor[d]
         /\ \/ command'[c] = "reusing"
            \/ command'[c] = "locking" /\ cursor'[c] \in Chosen(c) /\ cursor'[c] > cursor[c]
<1>1. {"locking", "reusing"} \subseteq CommandStages
  BY DEF CommandStages, Early
<1>2. CASE Go(c, "reusing") /\ cursor' = cursor
  BY <1>1, <1>2, Goes DEF CdTypes
<1>3. CASE cursor[c] # Max(Chosen(c)) /\ Go(c, "locking")
           /\ cursor' = [cursor EXCEPT ![c] = Min({a \in Chosen(c) : a > @})]
  <2> DEFINE S == {a \in Chosen(c) : a > cursor[c]}
  <2>1. Chosen(c) \subseteq Artifacts /\ Artifacts \subseteq 0..2 /\ cursor[c] \in Artifacts
    BY Selects
  <2>2. Max(Chosen(c)) \in Chosen(c) /\ \A a \in Chosen(c) : a <= Max(Chosen(c))
    BY <2>1, Ends
  <2>3. Max(Chosen(c)) \in S
    <3> DEFINE m == Max(Chosen(c))
               k == cursor[c]
    <3>1. m \in 0..2 /\ k \in 0..2 /\ k <= m /\ k # m /\ m \in Chosen(c)
      BY <1>3, <2>1, <2>2
    <3> HIDE DEF m, k
    <3>2. m > k
      BY <3>1
    <3> QED
      BY <3>1, <3>2 DEF m, k
  <2>4. S \subseteq Artifacts /\ S # {}
    BY <2>1, <2>3
  <2>5. Min(S) \in S
    BY <2>4, Ends
  <2>6. Min(S) \in Chosen(c) /\ Min(S) > cursor[c] /\ Min(S) \in 0..2
    BY <2>1, <2>5
  <2>7. cursor' = [cursor EXCEPT ![c] = Min(S)]
    BY <1>3
  <2> HIDE DEF S
  <2> QED
    BY <1>1, <1>3, <2>6, <2>7, Goes DEF CdTypes
<1> QED
  BY <1>2, <1>3 DEF NextDecision

(* A decision on a lecture: what it says of the library is so, and what is missing stays locked. *)
LEMMA DecisionMade ==
  ASSUME CdIInv, NEW c \in Commands, command[c] \in {"locking", "verifying"},
         NEW w \in {"busy", "reused"} \union Missing, Decide(c, w), NextDecision(c),
         UNCHANGED <<flags, playlists, resultVars, worldVars>>,
         \/ lockOwner' = lockOwner
         \/ lockOwner[cursor[c]] = c /\ w \notin Missing /\ Unlock(cursor[c]),
         w \in Missing => lockOwner[cursor[c]] = c /\ lockOwner' = lockOwner,
         w = "reused" => library[cursor[c]] # NoVersion,
         w = "notFound" => library[cursor[c]] = NoVersion,
         w = "damaged" => library[cursor[c]] # NoVersion /\ onDisk[cursor[c]] # library[cursor[c]]
  PROVE  CdIInv'
<1>1. /\ flags' = flags /\ playlists' = playlists
      /\ built' = built /\ reused' = reused /\ recorded' = recorded /\ cause' = cause /\ stream' = stream /\ exit' = exit
      /\ library' = library /\ versions' = versions /\ unguarded' = unguarded /\ onDisk' = onDisk
  BY DEF worldVars, resultVars
<1>2. /\ CdTypes /\ CdFits(c) /\ cursor[c] \in Chosen(c) /\ cursor[c] \in Artifacts /\ c # 0
      /\ \A a \in Artifacts : a >= cursor[c] => decided[c][a] = "download"
      /\ \A a \in Artifacts : decided[c][a] \in Missing => lockOwner[a] = c
      /\ built[c] = {} /\ reused[c] = {} /\ ~recorded[c] /\ stream[c].completed = {} /\ stream[c].open = 0
      /\ cause[c] = "none" /\ stream[c].terminal = "none"
  BY WhileDeciding
<1>3. /\ command' \in [Commands -> CommandStages] /\ cursor' \in [Commands -> 0..2]
      /\ \A d \in Commands \ {c} : command'[d] = command[d] /\ cursor'[d] = cursor[d]
      /\ \/ command'[c] = "reusing"
         \/ command'[c] = "locking" /\ cursor'[c] \in Chosen(c) /\ cursor'[c] > cursor[c]
  BY <1>2, NextDecides
<1>4. /\ decided' \in [Commands -> [Artifacts -> {"download", "busy", "reused"} \union Missing]]
      /\ decided'[c][cursor[c]] = w /\ \A a \in Artifacts \ {cursor[c]} : decided'[c][a] = decided[c][a]
      /\ \A d \in Commands \ {c} : decided'[d] = decided[d]
  BY <1>2 DEF CdTypes, Decide
<1>5. /\ lockOwner' \in [Artifacts -> {0} \union Commands]
      /\ \A a \in Artifacts \ {cursor[c]} : lockOwner'[a] = lockOwner[a]
      /\ \/ lockOwner'[cursor[c]] = lockOwner[cursor[c]]
         \/ lockOwner'[cursor[c]] = 0 /\ lockOwner[cursor[c]] = c /\ w \notin Missing
  BY <1>2 DEF CdTypes, Unlock
<1>6. CommandsStay(c)
  <2>1. \A d \in Commands \ {c} : \A a \in Artifacts : (lockOwner'[a] = d) = (lockOwner[a] = d)
    BY <1>5 DEF Commands
  <2> QED
    BY <1>1, <1>3, <1>4, <2>1 DEF CommandsStay
<1>7. CdTypes'
  BY <1>1, <1>2, <1>3, <1>4, <1>5 DEF CdTypes
<1>8. Emits(c)' = Emits(c) /\ Chosen(c)' = Chosen(c)
  BY <1>1 DEF Emits, Chosen
<1>9. Fresh(c)'
  BY <1>1, <1>2 DEF Fresh
<1>10. Ahead(c)'
  <2>1. Artifacts \subseteq 0..2 /\ Chosen(c) \subseteq Artifacts
    BY <1>2, Selects
  <2>2. ASSUME command'[c] = "locking", NEW a \in Artifacts, a >= cursor'[c] PROVE decided'[c][a] = "download"
    <3>1. a \in 0..2 /\ cursor[c] \in 0..2 /\ cursor'[c] \in 0..2 /\ cursor'[c] > cursor[c]
      BY <1>2, <1>3, <2>1, <2>2
    <3>2. a # cursor[c] /\ a >= cursor[c]
      BY <2>2, <3>1
    <3> QED
      BY <1>2, <1>4, <3>2
  <2> QED
    BY <1>3, <1>8, <2>2 DEF Ahead
<1>11. Locks(c)'
  <2>1. \A a \in Artifacts : decided'[c][a] \in Missing => lockOwner'[a] = c
    BY <1>2, <1>4, <1>5
  <2>2. command'[c] \notin Finished \union {"idle", "verifying"}
    BY <1>3 DEF Finished
  <2> QED
    BY <2>1, <2>2 DEF Locks
<1>12. Stands(c)'
  <2>1. \A a \in Artifacts \ {cursor[c]} : decided'[c][a] = decided[c][a]
    BY <1>4
  <2>2. Stands(c) /\ command[c] \in Early \union Loading \union {"recording"}
    BY <1>2 DEF CdFits, Early
  <2> QED
    BY <1>1, <1>2, <1>4, <2>1, <2>2 DEF Stands, Missing
<1>13. Guarded(c)'
  BY <1>1, <1>2, <1>3 DEF Guarded
<1>14. Tells(c)'
  BY <1>1, <1>2, <1>3 DEF Tells
<1>15. Says(c)'
  BY <1>1, <1>2, <1>3 DEF Says, Finished
<1>16. \A d \in Commands \ {c} : StandsStill(d)
  BY <1>1, <1>2, WorldStands
<1> QED
  BY <1>6, <1>7, <1>9, <1>10, <1>11, <1>12, <1>13, <1>14, <1>15, <1>16, OneCommands DEF CdFits

(* A decision that fails or is interrupted: the lock at hand is given back. *)
LEMMA DecisionGivenUp ==
  ASSUME CdIInv, NEW c \in Commands, command[c] \in {"locking", "verifying"}, NEW e \in Errors, Raise(c, e), Go(c, "closing"),
         UNCHANGED <<flags, cursor, decided, playlists, built, reused, recorded, stream, exit, worldVars>>,
         lockOwner' = lockOwner \/ (command[c] = "verifying" /\ Unlock(cursor[c]))
  PROVE  CdIInv'
<1>1. /\ flags' = flags /\ playlists' = playlists /\ cursor' = cursor /\ decided' = decided
      /\ built' = built /\ reused' = reused /\ recorded' = recorded /\ stream' = stream /\ exit' = exit
      /\ library' = library /\ versions' = versions /\ unguarded' = unguarded /\ onDisk' = onDisk
  BY DEF worldVars
<1>2. /\ CdTypes /\ CdFits(c) /\ cursor[c] \in Artifacts /\ c # 0 /\ decided[c][cursor[c]] = "download"
      /\ \A a \in Artifacts : decided[c][a] \in Missing => lockOwner[a] = c
      /\ command[c] = "verifying" => lockOwner[cursor[c]] = c
      /\ built[c] = {} /\ reused[c] = {} /\ ~recorded[c] /\ stream[c].completed = {} /\ stream[c].open = 0
      /\ stream[c].terminal = "none"
  BY WhileDeciding DEF Artifacts
<1>3. /\ command'[c] = "closing" /\ command' \in [Commands -> CommandStages] /\ \A d \in Commands \ {c} : command'[d] = command[d]
      /\ cause'[c] # "none" /\ cause' \in [Commands -> {"none"} \union Errors] /\ \A d \in Commands \ {c} : cause'[d] = cause[d]
  <2>1. "closing" \in CommandStages /\ "none" \notin Errors
    BY DEF CommandStages, Errors
  <2> QED
    BY <1>2, <2>1, Goes, Raises
<1>4. /\ lockOwner' \in [Artifacts -> {0} \union Commands]
      /\ \A a \in Artifacts \ {cursor[c]} : lockOwner'[a] = lockOwner[a]
      /\ \/ lockOwner'[cursor[c]] = lockOwner[cursor[c]]
         \/ lockOwner'[cursor[c]] = 0 /\ lockOwner[cursor[c]] = c
  BY <1>2 DEF CdTypes, Unlock
<1>5. CommandsStay(c)
  <2>1. \A d \in Commands \ {c} : \A a \in Artifacts : (lockOwner'[a] = d) = (lockOwner[a] = d)
    BY <1>4 DEF Commands
  <2> QED
    BY <1>1, <1>3, <2>1 DEF CommandsStay
<1>6. CdTypes'
  BY <1>1, <1>2, <1>3, <1>4 DEF CdTypes
<1>7. Fresh(c)' /\ Ahead(c)' /\ Guarded(c)'
  BY <1>1, <1>2, <1>3 DEF Fresh, Ahead, Guarded, Early, Loading
<1>8. Locks(c)'
  <2>1. \A a \in Artifacts : decided'[c][a] \in Missing => lockOwner'[a] = c
    <3>1. "download" \notin Missing
      BY DEF Missing
    <3> QED
      BY <1>1, <1>2, <1>4, <3>1
  <2> QED
    BY <1>3, <2>1 DEF Locks, Finished
<1>9. Stands(c)'
  BY <1>1, <1>2, <1>3 DEF CdFits, Stands, Early, Loading
<1>10. Tells(c)' /\ Says(c)'
  BY <1>1, <1>2, <1>3 DEF Tells, Says
<1>11. \A d \in Commands \ {c} : StandsStill(d)
  BY <1>1, <1>2, WorldStands
<1> QED
  BY <1>5, <1>6, <1>7, <1>8, <1>9, <1>10, <1>11, OneCommands DEF CdFits

(* The lock of an artifact is taken, found busy, or the command is canceled. *)
LEMMA AcquireLockStep ==
  ASSUME CdIInv, NEW c \in Commands, AcquireLock(c)
  PROVE  CdIInv'
<1>1. /\ flags' = flags /\ playlists' = playlists /\ UNCHANGED worldVars
      /\ built' = built /\ reused' = reused /\ recorded' = recorded /\ stream' = stream /\ exit' = exit
      /\ library' = library /\ versions' = versions /\ unguarded' = unguarded /\ onDisk' = onDisk /\ command[c] = "locking"
  BY DEF AcquireLock, worldVars, At
<1>2. CASE Decide(c, "busy") /\ NextDecision(c) /\ UNCHANGED <<lockOwner, cause>>
  BY <1>1, <1>2, DecisionMade DEF resultVars, Missing
<1>3. CASE Raise(c, "canceled") /\ Go(c, "closing") /\ UNCHANGED <<cursor, decided, lockOwner>>
  BY <1>1, <1>3, DecisionGivenUp DEF Errors
<1>4. CASE /\ lockOwner[cursor[c]] = 0 /\ lockOwner' = [lockOwner EXCEPT ![cursor[c]] = c]
           /\ Go(c, "verifying") /\ UNCHANGED <<cursor, decided, cause>>
  <2>1. /\ CdTypes /\ CdFits(c) /\ cursor[c] \in Chosen(c) /\ cursor[c] \in Artifacts /\ c # 0
        /\ \A a \in Artifacts : a >= cursor[c] => decided[c][a] = "download"
        /\ \A a \in Artifacts : decided[c][a] \in Missing => lockOwner[a] = c
        /\ built[c] = {} /\ reused[c] = {} /\ ~recorded[c] /\ stream[c].completed = {} /\ stream[c].open = 0
        /\ cause[c] = "none" /\ stream[c].terminal = "none"
    BY <1>1, WhileDeciding
  <2>2. command'[c] = "verifying" /\ command' \in [Commands -> CommandStages] /\ \A d \in Commands \ {c} : command'[d] = command[d]
    <3>1. "verifying" \in CommandStages
      BY DEF CommandStages, Early
    <3> QED
      BY <1>4, <2>1, <3>1, Goes
  <2>3. /\ lockOwner' \in [Artifacts -> {0} \union Commands] /\ lockOwner'[cursor[c]] = c
        /\ \A a \in Artifacts \ {cursor[c]} : lockOwner'[a] = lockOwner[a]
    BY <1>4, <2>1 DEF CdTypes
  <2>4. CommandsStay(c)
    <3>1. \A d \in Commands \ {c} : \A a \in Artifacts : (lockOwner'[a] = d) = (lockOwner[a] = d)
      BY <1>4, <2>3 DEF Commands
    <3> QED
      BY <1>1, <1>4, <2>2, <3>1 DEF CommandsStay
  <2>5. CdTypes'
    BY <1>1, <1>4, <2>1, <2>2, <2>3 DEF CdTypes
  <2>6. Fresh(c)' /\ Guarded(c)' /\ Tells(c)' /\ Says(c)'
    BY <1>1, <1>4, <2>1, <2>2 DEF Fresh, Guarded, Tells, Says, Finished
  <2>7. Ahead(c)'
    <3>1. Chosen(c)' = Chosen(c)
      BY <1>1 DEF Chosen
    <3> QED
      BY <1>4, <2>1, <2>2, <3>1 DEF Ahead
  <2>8. Locks(c)'
    BY <1>4, <2>1, <2>2, <2>3 DEF Locks, Finished
  <2>9. Stands(c)'
    BY <1>1, <1>4, <2>1 DEF CdFits, Stands, Early
  <2>10. \A d \in Commands \ {c} : StandsStill(d)
    BY <1>1, <2>1, WorldStands
  <2> QED
    BY <2>4, <2>5, <2>6, <2>7, <2>8, <2>9, <2>10, OneCommands DEF CdFits
<1> QED
  BY <1>2, <1>3, <1>4 DEF AcquireLock

(* The library and the files are compared under the lock. *)
LEMMA VerifyReusableStep ==
  ASSUME CdIInv, NEW c \in Commands, VerifyReusable(c)
  PROVE  CdIInv'
<1>1. /\ UNCHANGED <<flags, playlists, built, reused, recorded, stream, exit, worldVars>> /\ command[c] = "verifying"
  BY DEF VerifyReusable, At
<1>2. lockOwner[cursor[c]] = c
  BY <1>1, WhileDeciding
<1>3. CASE \/ library[cursor[c]] = NoVersion /\ Decide(c, "notFound") /\ NextDecision(c) /\ UNCHANGED <<lockOwner, cause>>
           \/ /\ library[cursor[c]] # NoVersion /\ onDisk[cursor[c]] # library[cursor[c]]
              /\ Decide(c, "damaged") /\ NextDecision(c) /\ UNCHANGED <<lockOwner, cause>>
  BY <1>1, <1>2, <1>3, DecisionMade DEF resultVars, Missing
<1>4. CASE /\ library[cursor[c]] # NoVersion
           /\ Decide(c, "reused") /\ NextDecision(c) /\ Unlock(cursor[c]) /\ UNCHANGED cause
  BY <1>1, <1>2, <1>4, DecisionMade DEF resultVars, Missing
<1>5. CASE /\ \E e \in {"failed", "canceled"} : Raise(c, e)
           /\ Unlock(cursor[c]) /\ Go(c, "closing") /\ UNCHANGED <<cursor, decided>>
  BY <1>1, <1>5, DecisionGivenUp DEF Errors
<1> QED
  BY <1>3, <1>4, <1>5 DEF VerifyReusable

---------------------------------------------------------------------------
(* What is told of a lecture changes one part of the stream, or two. *)
LEMMA TellsCompleted ==
  ASSUME CdTypes, NEW c \in Commands, NEW X \in SUBSET Artifacts,
         stream' = [stream EXCEPT ![c].completed = X]
  PROVE  /\ stream' \in [Commands -> Streams] /\ \A d \in Commands \ {c} : stream'[d] = stream[d]
         /\ stream'[c].open = stream[c].open /\ stream'[c].completed = X /\ stream'[c].terminal = stream[c].terminal
<1>1. stream[c] \in Streams /\ stream \in [Commands -> Streams]
  BY DEF CdTypes
<1> QED
  BY <1>1 DEF Streams

(* A lecture is begun among completed ones, *)
LEMMA TellsBegun ==
  ASSUME CdTypes, NEW c \in Commands, NEW X \in SUBSET Artifacts, NEW o \in 0..2,
         stream' = [stream EXCEPT ![c].completed = X, ![c].open = o]
  PROVE  /\ stream' \in [Commands -> Streams] /\ \A d \in Commands \ {c} : stream'[d] = stream[d]
         /\ stream'[c].open = o /\ stream'[c].completed = X /\ stream'[c].terminal = stream[c].terminal
<1>1. stream[c] \in Streams /\ stream \in [Commands -> Streams]
  BY DEF CdTypes
<1> QED
  BY <1>1 DEF Streams

(* is open or closed, *)
LEMMA TellsOpen ==
  ASSUME CdTypes, NEW c \in Commands, NEW o \in 0..2,
         stream' = [stream EXCEPT ![c].open = o]
  PROVE  /\ stream' \in [Commands -> Streams] /\ \A d \in Commands \ {c} : stream'[d] = stream[d]
         /\ stream'[c].open = o /\ stream'[c].completed = stream[c].completed /\ stream'[c].terminal = stream[c].terminal
<1>1. stream[c] \in Streams /\ stream \in [Commands -> Streams]
  BY DEF CdTypes
<1> QED
  BY <1>1 DEF Streams

(* is completed, *)
LEMMA TellsDone ==
  ASSUME CdTypes, NEW c \in Commands, NEW o \in Artifacts,
         stream' = [stream EXCEPT ![c].open = 0, ![c].completed = @ \union {o}]
  PROVE  /\ stream' \in [Commands -> Streams] /\ \A d \in Commands \ {c} : stream'[d] = stream[d]
         /\ stream'[c].open = 0 /\ stream'[c].completed = stream[c].completed \union {o} /\ stream'[c].terminal = stream[c].terminal
<1>1. stream[c] \in Streams /\ stream \in [Commands -> Streams]
  BY DEF CdTypes
<1> DEFINE X == stream[c].completed \union {o}
           z == 0
<1>2. stream' = [stream EXCEPT ![c].completed = X, ![c].open = z]
  BY <1>1 DEF Streams
<1>3. X \in SUBSET Artifacts
  BY <1>1 DEF Streams
<1>5. z \in 0..2
  OBVIOUS
<1> HIDE DEF X, z
<1>4. /\ stream' \in [Commands -> Streams] /\ \A d \in Commands \ {c} : stream'[d] = stream[d]
      /\ stream'[c].open = z /\ stream'[c].completed = X /\ stream'[c].terminal = stream[c].terminal
  BY <1>2, <1>3, <1>5, TellsBegun
<1> QED
  BY <1>4 DEF X, z

(* and the stream gets its terminal event. *)
LEMMA TellsEnd ==
  ASSUME CdTypes, NEW c \in Commands, NEW t \in Terminals,
         stream' = [stream EXCEPT ![c].terminal = t]
  PROVE  /\ stream' \in [Commands -> Streams] /\ \A d \in Commands \ {c} : stream'[d] = stream[d]
         /\ stream'[c].open = stream[c].open /\ stream'[c].completed = stream[c].completed /\ stream'[c].terminal = t
<1>1. stream[c] \in Streams /\ stream \in [Commands -> Streams]
  BY DEF CdTypes
<1> QED
  BY <1>1 DEF Streams

(* The reused lectures are told, as far as they can be delivered. *)
LEMMA EmitReusedStep ==
  ASSUME CdIInv, NEW c \in Commands, EmitReused(c)
  PROVE  CdIInv'
<1>1. /\ flags' = flags /\ cursor' = cursor /\ decided' = decided /\ playlists' = playlists
      /\ built' = built /\ exit' = exit /\ lockOwner' = lockOwner
      /\ library' = library /\ versions' = versions /\ unguarded' = unguarded /\ onDisk' = onDisk /\ command[c] = "reusing"
  BY DEF EmitReused, worldVars, At
<1>2. CdTypes /\ CdFits(c)
  BY DEF CdIInv
<1>3. /\ Hits(c) \subseteq Artifacts /\ Emits(c) \in BOOLEAN /\ c # 0 /\ Artifacts \subseteq 0..2
      /\ built[c] = {} /\ reused[c] = {} /\ ~recorded[c] /\ stream[c].completed = {} /\ stream[c].open = 0
      /\ cause[c] = "none" /\ stream[c].terminal = "none"
  BY <1>1, <1>2, Selects DEF CdFits, Fresh, Says, Early
<1>4. /\ reused' \in [Commands -> SUBSET Artifacts] /\ \A d \in Commands \ {c} : reused'[d] = reused[d]
      /\ recorded' \in [Commands -> BOOLEAN] /\ \A d \in Commands \ {c} : recorded'[d] = recorded[d]
      /\ reused'[c] \in {{}, Hits(c)}
  <2>1. CASE recorded' = [recorded EXCEPT ![c] = Hits(c) # {}] /\ reused' = [reused EXCEPT ![c] = Hits(c)]
    BY <1>2, <1>3, <2>1 DEF CdTypes
  <2>2. CASE recorded' = recorded /\ reused' = reused
    BY <1>2, <1>3, <2>2 DEF CdTypes
  <2> QED
    BY <2>1, <2>2 DEF EmitReused
<1>5. /\ stream' \in [Commands -> Streams] /\ \A d \in Commands \ {c} : stream'[d] = stream[d]
      /\ stream'[c].completed \subseteq Hits(c) /\ stream'[c].terminal = "none"
      /\ cause' = cause /\ Emits(c) => stream'[c].completed = reused'[c] /\ stream'[c].open = 0
  <2>1. CASE stream' = IF Emits(c) THEN [stream EXCEPT ![c].completed = Hits(c)] ELSE stream
    <3>1. CASE Emits(c)
      <4>1. stream' = [stream EXCEPT ![c].completed = Hits(c)]
        BY <2>1, <3>1
      <4>2. /\ stream' \in [Commands -> Streams] /\ \A d \in Commands \ {c} : stream'[d] = stream[d]
            /\ stream'[c].open = 0 /\ stream'[c].completed = Hits(c) /\ stream'[c].terminal = "none"
        BY <1>2, <1>3, <4>1, TellsCompleted
      <4>3. cause' = cause => reused'[c] = Hits(c)
        <5>1. cause' = cause => reused' = [reused EXCEPT ![c] = Hits(c)]
          <6>1. Raise(c, "delivery") => cause'[c] # cause[c]
            BY <1>2, <1>3 DEF Raise, CdTypes
          <6> QED
            BY <6>1 DEF EmitReused
        <5> QED
          BY <1>2, <5>1 DEF CdTypes
      <4> QED
        BY <4>2, <4>3
    <3>2. CASE ~Emits(c)
      BY <1>2, <1>3, <2>1, <3>2 DEF CdTypes
    <3> QED
      BY <1>3, <3>1, <3>2
  <2>2. ASSUME Raise(c, "delivery"), NEW a \in Hits(c),
               stream' \in {[stream EXCEPT ![c].completed = {b \in Hits(c) : b < a}],
                            [stream EXCEPT ![c].completed = {b \in Hits(c) : b < a}, ![c].open = a]}
        PROVE  /\ stream' \in [Commands -> Streams] /\ \A d \in Commands \ {c} : stream'[d] = stream[d]
               /\ stream'[c].completed \subseteq Hits(c) /\ stream'[c].terminal = "none" /\ cause' # cause
    <3> DEFINE X == {b \in Hits(c) : b < a}
    <3>1. X \in SUBSET Artifacts /\ a \in 0..2 /\ X \subseteq Hits(c)
      BY <1>3
    <3>2. cause' # cause
      <4>1. cause'[c] # cause[c]
        BY <1>2, <1>3, <2>2 DEF Raise, CdTypes
      <4> QED
        BY <4>1
    <3>3. stream' = [stream EXCEPT ![c].completed = X] \/ stream' = [stream EXCEPT ![c].completed = X, ![c].open = a]
      BY <2>2
    <3> HIDE DEF X
    <3>4. CASE stream' = [stream EXCEPT ![c].completed = X]
      <4>1. /\ stream' \in [Commands -> Streams] /\ \A d \in Commands \ {c} : stream'[d] = stream[d]
            /\ stream'[c].completed = X /\ stream'[c].terminal = stream[c].terminal
        BY <1>2, <3>1, <3>4, TellsCompleted
      <4> QED
        BY <1>3, <3>1, <3>2, <4>1
    <3>5. CASE stream' = [stream EXCEPT ![c].completed = X, ![c].open = a]
      <4>1. /\ stream' \in [Commands -> Streams] /\ \A d \in Commands \ {c} : stream'[d] = stream[d]
            /\ stream'[c].completed = X /\ stream'[c].terminal = stream[c].terminal
        BY <1>2, <3>1, <3>5, TellsBegun
      <4> QED
        BY <1>3, <3>1, <3>2, <4>1
    <3> QED
      BY <3>3, <3>4, <3>5
  <2> QED
    BY <2>1, <2>2 DEF EmitReused
<1>6. /\ command' \in [Commands -> CommandStages] /\ \A d \in Commands \ {c} : command'[d] = command[d]
      /\ cause' \in [Commands -> {"none"} \union Errors] /\ \A d \in Commands \ {c} : cause'[d] = cause[d]
      /\ command'[c] \in {"playlists", "closing"}
      /\ cause'[c] = "none" => cause' = cause
      /\ command'[c] = "playlists" => cause' = cause
  <2>1. {"playlists", "closing"} \subseteq CommandStages /\ {"delivery", "failed"} \subseteq Errors /\ "none" \notin Errors
    BY DEF CommandStages, Loading, Errors
  <2>2. CASE cause' = cause /\ Go(c, IF Wanted(c) = {} THEN "closing" ELSE "playlists")
    BY <1>2, <2>1, <2>2, Goes DEF CdTypes
  <2>3. CASE (\E e \in {"delivery", "failed"} : Raise(c, e)) /\ Go(c, "closing")
    BY <1>2, <2>1, <2>3, Goes, Raises
  <2> QED
    BY <2>2, <2>3 DEF EmitReused
<1>7. CommandsStay(c)
  BY <1>1, <1>4, <1>5, <1>6 DEF CommandsStay
<1>8. CdTypes'
  BY <1>1, <1>2, <1>4, <1>5, <1>6 DEF CdTypes
<1>9. Hits(c)' = Hits(c) /\ Emits(c)' = Emits(c)
  BY <1>1 DEF Hits, Decided, Emits
<1>10. Fresh(c)'
  BY <1>3, <1>6 DEF Fresh, Early, Loading
<1>11. Ahead(c)'
  BY <1>6 DEF Ahead
<1>12. Locks(c)'
  BY <1>1, <1>2, <1>6 DEF CdFits, Locks, Finished
<1>13. Stands(c)'
  BY <1>1, <1>2, <1>6 DEF CdFits, Stands, Early
<1>14. Guarded(c)'
  BY <1>1, <1>3, <1>6 DEF Guarded
<1>15. Tells(c)'
  <2>1. reused'[c] \subseteq Hits(c)
    BY <1>4
  <2> QED
    BY <1>1, <1>3, <1>5, <1>6, <1>9, <2>1 DEF Tells
<1>16. Says(c)'
  BY <1>1, <1>3, <1>5, <1>6 DEF Says
<1>17. \A d \in Commands \ {c} : StandsStill(d)
  BY <1>1, <1>2, WorldStands
<1> QED
  BY <1>7, <1>8, <1>10, <1>11, <1>12, <1>13, <1>14, <1>15, <1>16, <1>17, OneCommands DEF CdFits

---------------------------------------------------------------------------
(* A command that goes on to the next step of its lectures, or to the recording. *)
LEMMA LecturesGoOn ==
  ASSUME CdIInv, NEW c \in Commands, command[c] \in Loading, CdTypes',
         UNCHANGED <<flags, decided, lockOwner, reused, recorded, exit>>,
         unguarded \subseteq unguarded', \A d \in Commands : StandsStill(d),
         \A d \in Commands \ {c} : /\ command'[d] = command[d] /\ cursor'[d] = cursor[d] /\ built'[d] = built[d]
                                    /\ cause'[d] = cause[d] /\ stream'[d] = stream[d],
         command'[c] \in Loading \union {"recording"}, command'[c] \in Loading => cause'[c] = "none",
         command'[c] \in {"lecture", "downloading", "building", "telling"} => cursor'[c] \in Artifacts,
         stream'[c].terminal = "none", Guarded(c)', Tells(c)'
  PROVE  CdIInv'
<1>1. CdFits(c) /\ CdTypes
  BY DEF CdIInv
<1>2. CommandsStay(c)
  BY DEF CommandsStay
<1>3. command'[c] \notin Early \union Finished \union {"idle", "verifying", "locking", "closing", "over"}
  BY DEF Early, Loading, Finished
<1>4. command[c] \in Loading /\ command[c] \notin Finished \union {"idle"}
  BY DEF Loading, Finished
<1>5. Fresh(c)'
  BY <1>3 DEF Fresh
<1>6. Ahead(c)'
  BY <1>3 DEF Ahead
<1>7. Locks(c)'
  BY <1>1, <1>3, <1>4 DEF CdFits, Locks
<1>8. Stands(c)'
  BY <1>1, <1>4 DEF CdFits, Stands, StandsStill
<1>9. Says(c)'
  BY <1>3 DEF Says
<1> QED
  BY <1>2, <1>5, <1>6, <1>7, <1>8, <1>9, OneCommands DEF CdFits

(* What holds while it is at its lectures. *)
LEMMA AtLectures ==
  ASSUME CdIInv, NEW c \in Commands, command[c] \in Loading
  PROVE  /\ CdTypes /\ CdFits(c) /\ Guarded(c) /\ Tells(c) /\ cause[c] = "none" /\ stream[c].terminal = "none" /\ c # 0
         /\ Artifacts \subseteq 0..2 /\ Emits(c) \in BOOLEAN /\ playlists[c] \subseteq Artifacts
         /\ command[c] \in {"lecture", "downloading", "building", "telling"} => cursor[c] \in Artifacts
<1>1. CdTypes /\ CdFits(c)
  BY DEF CdIInv
<1>2. command[c] # "over"
  BY DEF Loading
<1> QED
  BY <1>1, <1>2, Selects DEF CdFits, Fresh, Says, Ahead, CdTypes

(* It fails, or is canceled, and leaves for the recording. *)
LEMMA LecturesFail ==
  ASSUME CdIInv, NEW c \in Commands, command[c] \in Loading, NEW e \in Errors, Raise(c, e), Go(c, "recording"),
         UNCHANGED <<flags, decided, lockOwner, reused, recorded, exit, cursor, playlists, built, worldVars>>,
         stream' = stream \/ TellLectureFailed(c)
  PROVE  CdIInv'
<1>1. /\ flags' = flags /\ cursor' = cursor /\ decided' = decided /\ playlists' = playlists
      /\ built' = built /\ exit' = exit /\ lockOwner' = lockOwner /\ reused' = reused /\ recorded' = recorded
      /\ library' = library /\ versions' = versions /\ unguarded' = unguarded /\ onDisk' = onDisk
  BY DEF worldVars
<1>2. /\ CdTypes /\ Guarded(c) /\ Tells(c) /\ stream[c].terminal = "none" /\ Emits(c) \in BOOLEAN
  BY AtLectures
<1>3. /\ stream' \in [Commands -> Streams] /\ \A d \in Commands \ {c} : stream'[d] = stream[d]
      /\ stream'[c].completed = stream[c].completed /\ stream'[c].terminal = "none"
  <2>1. CASE stream' = stream
    BY <1>2, <2>1 DEF CdTypes
  <2>2. CASE stream' = [stream EXCEPT ![c].open = 0]
    <3> DEFINE z == 0
    <3>1. z \in 0..2 /\ stream' = [stream EXCEPT ![c].open = z]
      BY <2>2
    <3> HIDE DEF z
    <3> QED
      BY <1>2, <3>1, TellsOpen
  <2> QED
    BY <1>2, <2>1, <2>2 DEF TellLectureFailed
<1>4. /\ command'[c] = "recording" /\ command' \in [Commands -> CommandStages] /\ \A d \in Commands \ {c} : command'[d] = command[d]
      /\ cause'[c] # "none" /\ cause' \in [Commands -> {"none"} \union Errors] /\ \A d \in Commands \ {c} : cause'[d] = cause[d]
  <2>1. "recording" \in CommandStages /\ "none" \notin Errors
    BY DEF CommandStages, Errors
  <2> QED
    BY <1>2, <2>1, Goes, Raises
<1>5. CdTypes'
  BY <1>1, <1>2, <1>3, <1>4 DEF CdTypes
<1>6. Guarded(c)'
  BY <1>1, <1>2, <1>4 DEF Guarded
<1>7. Tells(c)'
  BY <1>1, <1>2, <1>3, <1>4 DEF Tells, Hits, Decided
<1>8. \A d \in Commands : StandsStill(d)
  BY <1>1, <1>2, WorldStands
<1>9. "recording" \notin Loading
  BY DEF Loading
<1> QED
  BY <1>1, <1>3, <1>4, <1>5, <1>6, <1>7, <1>8, <1>9, LecturesGoOn

(* The lecture after this one, or the recording; without any artifact it is an error. *)
LEMMA NextLectures ==
  ASSUME CdTypes, NEW c \in Commands, playlists[c] \subseteq Artifacts, Artifacts \subseteq 0..2, cause[c] = "none", NextLecture(c)
  PROVE  /\ command' \in [Commands -> CommandStages] /\ \A d \in Commands \ {c} : command'[d] = command[d]
         /\ cursor' \in [Commands -> 0..2] /\ \A d \in Commands \ {c} : cursor'[d] = cursor[d]
         /\ cause' \in [Commands -> {"none"} \union Errors] /\ \A d \in Commands \ {c} : cause'[d] = cause[d]
         /\ \/ command'[c] = "lecture" /\ cursor'[c] \in Artifacts /\ cause'[c] = "none"
            \/ command'[c] = "recording"
<1>1. {"lecture", "recording"} \subseteq CommandStages /\ "failed" \in Errors
  BY DEF CommandStages, Loading, Errors
<1>2. CASE Later(c) # {} /\ Go(c, "lecture") /\ cursor' = [cursor EXCEPT ![c] = Min(Later(c))] /\ cause' = cause
  <2>1. Later(c) \subseteq Artifacts
    BY DEF Later
  <2>2. Min(Later(c)) \in Artifacts /\ Min(Later(c)) \in 0..2
    BY <1>2, <2>1, Ends
  <2> QED
    BY <1>1, <1>2, <2>2, Goes DEF CdTypes
<1>3. CASE Go(c, "recording") /\ cursor' = cursor /\ (Raise(c, "failed") \/ cause' = cause)
  BY <1>1, <1>3, Goes, Raises DEF CdTypes
<1> QED
  BY <1>2, <1>3 DEF NextLecture

(* The playlists of some of the wanted lectures arrive, or an error. *)
LEMMA FetchPlaylistsStep ==
  ASSUME CdIInv, NEW c \in Commands, FetchPlaylists(c)
  PROVE  CdIInv'
<1>1. /\ flags' = flags /\ decided' = decided /\ built' = built /\ exit' = exit /\ lockOwner' = lockOwner /\ reused' = reused
      /\ recorded' = recorded /\ stream' = stream /\ UNCHANGED worldVars
      /\ library' = library /\ versions' = versions /\ unguarded' = unguarded /\ onDisk' = onDisk
      /\ command[c] = "playlists" /\ command[c] \in Loading
  BY DEF FetchPlaylists, worldVars, At, Loading
<1>2. CASE (\E e \in {"failed", "canceled"} : Raise(c, e)) /\ Go(c, "recording") /\ cursor' = cursor /\ playlists' = playlists
  BY <1>1, <1>2, LecturesFail DEF Errors
<1>3. ASSUME cause' = cause, NEW given \in (SUBSET Wanted(c)) \ {{}}, playlists' = [playlists EXCEPT ![c] = given],
             cursor' = [cursor EXCEPT ![c] = Min(given)], Go(c, "lecture")
      PROVE  CdIInv'
  <2>1. CdTypes /\ Guarded(c) /\ Tells(c) /\ cause[c] = "none" /\ stream[c].terminal = "none" /\ Artifacts \subseteq 0..2
    BY <1>1, AtLectures
  <2>2. given \subseteq Artifacts /\ Min(given) \in Artifacts /\ Min(given) \in 0..2
    <3>1. given \subseteq Wanted(c) /\ given # {}
      OBVIOUS
    <3>2. Wanted(c) \subseteq Artifacts
      BY <2>1, Selects
    <3>3. given \subseteq Artifacts
      BY <3>1, <3>2
    <3> QED
      BY <2>1, <3>1, <3>3, Ends
  <2>3. /\ command'[c] = "lecture" /\ command' \in [Commands -> CommandStages] /\ \A d \in Commands \ {c} : command'[d] = command[d]
        /\ cursor'[c] \in Artifacts /\ cursor' \in [Commands -> 0..2] /\ \A d \in Commands \ {c} : cursor'[d] = cursor[d]
        /\ playlists' \in [Commands -> SUBSET Artifacts]
    <3>1. "lecture" \in CommandStages
      BY DEF CommandStages, Loading
    <3> QED
      BY <1>3, <2>1, <2>2, <3>1, Goes DEF CdTypes
  <2>4. CdTypes'
    BY <1>1, <1>3, <2>1, <2>3 DEF CdTypes
  <2>5. Guarded(c)' /\ Tells(c)'
    BY <1>1, <1>3, <2>1, <2>3 DEF Guarded, Tells, Hits, Decided, Emits
  <2>6. \A d \in Commands : StandsStill(d)
    BY <1>1, <2>1, WorldStands
  <2>7. "lecture" \in Loading
    BY DEF Loading
  <2> QED
    BY <1>1, <1>3, <2>1, <2>3, <2>4, <2>5, <2>6, <2>7, LecturesGoOn
<1> QED
  BY <1>2, <1>3 DEF FetchPlaylists

(* A lecture is begun, passed over, or the command ends there. *)
LEMMA StartLectureDownloadStep ==
  ASSUME CdIInv, NEW c \in Commands, StartLectureDownload(c)
  PROVE  CdIInv'
<1>1. /\ flags' = flags /\ decided' = decided /\ playlists' = playlists /\ exit' = exit /\ lockOwner' = lockOwner /\ reused' = reused
      /\ recorded' = recorded /\ UNCHANGED worldVars /\ built' = built
      /\ library' = library /\ versions' = versions /\ unguarded' = unguarded /\ onDisk' = onDisk
      /\ command[c] = "lecture" /\ command[c] \in Loading
  BY DEF StartLectureDownload, worldVars, At, Loading
<1>2. /\ CdTypes /\ Guarded(c) /\ Tells(c) /\ cause[c] = "none" /\ stream[c].terminal = "none" /\ Artifacts \subseteq 0..2
      /\ cursor[c] \in Artifacts /\ playlists[c] \subseteq Artifacts /\ Emits(c) \in BOOLEAN
  BY <1>1, AtLectures
<1>3. \A d \in Commands : StandsStill(d)
  BY <1>1, <1>2, WorldStands
<1>4. CASE (\E e \in {"delivery", "canceled"} : Raise(c, e)) /\ Go(c, "recording") /\ cursor' = cursor /\ stream' = stream
  BY <1>1, <1>4, LecturesFail DEF Errors
<1>5. CASE stream' = stream /\ NextLecture(c)
  <2>1. /\ command' \in [Commands -> CommandStages] /\ \A d \in Commands \ {c} : command'[d] = command[d]
        /\ cursor' \in [Commands -> 0..2] /\ \A d \in Commands \ {c} : cursor'[d] = cursor[d]
        /\ cause' \in [Commands -> {"none"} \union Errors] /\ \A d \in Commands \ {c} : cause'[d] = cause[d]
        /\ \/ command'[c] = "lecture" /\ cursor'[c] \in Artifacts /\ cause'[c] = "none"
           \/ command'[c] = "recording"
    BY <1>2, <1>5, NextLectures
  <2>2. CdTypes'
    BY <1>1, <1>2, <1>5, <2>1 DEF CdTypes
  <2>3. Guarded(c)' /\ Tells(c)'
    BY <1>1, <1>2, <1>5, <2>1 DEF Guarded, Tells, Hits, Decided, Emits
  <2>4. "lecture" \in Loading /\ "recording" \notin Loading
    BY DEF Loading
  <2> QED
    BY <1>1, <1>2, <1>3, <1>5, <2>1, <2>2, <2>3, <2>4, LecturesGoOn
<1>6. CASE /\ Go(c, "downloading") /\ cursor' = cursor /\ cause' = cause
           /\ stream' = IF Emits(c) THEN [stream EXCEPT ![c].open = cursor[c]] ELSE stream
  <2>1. command'[c] = "downloading" /\ command' \in [Commands -> CommandStages] /\ \A d \in Commands \ {c} : command'[d] = command[d]
    <3>1. "downloading" \in CommandStages
      BY DEF CommandStages, Loading
    <3> QED
      BY <1>2, <1>6, <3>1, Goes
  <2>2. /\ stream' \in [Commands -> Streams] /\ \A d \in Commands \ {c} : stream'[d] = stream[d]
        /\ stream'[c].completed = stream[c].completed /\ stream'[c].terminal = "none"
    <3>1. cursor[c] \in 0..2
      BY <1>2
    <3>2. CASE Emits(c)
      BY <1>2, <1>6, <3>1, <3>2, TellsOpen
    <3>3. CASE ~Emits(c)
      BY <1>2, <1>6, <3>3 DEF CdTypes
    <3> QED
      BY <3>2, <3>3
  <2>3. CdTypes'
    BY <1>1, <1>2, <1>6, <2>1, <2>2 DEF CdTypes
  <2>4. Guarded(c)' /\ Tells(c)'
    BY <1>1, <1>2, <1>6, <2>1, <2>2 DEF Guarded, Tells, Hits, Decided, Emits
  <2>5. "downloading" \in Loading
    BY DEF Loading
  <2> QED
    BY <1>1, <1>2, <1>3, <1>6, <2>1, <2>2, <2>3, <2>4, <2>5, LecturesGoOn
<1> QED
  BY <1>4, <1>5, <1>6 DEF StartLectureDownload

(* A lecture has new files, or has failed. *)
LEMMA DownloadLectureStep ==
  ASSUME CdIInv, NEW c \in Commands, DownloadLecture(c)
  PROVE  CdIInv'
<1>1. /\ flags' = flags /\ decided' = decided /\ playlists' = playlists /\ exit' = exit /\ lockOwner' = lockOwner /\ reused' = reused
      /\ recorded' = recorded /\ built' = built /\ cursor' = cursor /\ library' = library
      /\ command[c] = "downloading" /\ command[c] \in Loading
  BY DEF DownloadLecture, At, Loading
<1>2. CASE (\E e \in {"failed", "canceled"} : Raise(c, e)) /\ Go(c, "recording")
           /\ UNCHANGED <<versions, onDisk, unguarded, published>> /\ (stream' = stream \/ TellLectureFailed(c))
  BY <1>1, <1>2, LecturesFail DEF Errors, worldVars
<1>3. CASE /\ versions' = versions + 1 /\ onDisk' = [onDisk EXCEPT ![cursor[c]] = versions + 1]
           /\ unguarded' = IF decided[c][cursor[c]] \in {"notFound", "damaged"} THEN unguarded ELSE unguarded \union {cursor[c]}
           /\ Go(c, "building") /\ cause' = cause /\ stream' = stream
  <2>1. /\ CdTypes /\ Guarded(c) /\ Tells(c) /\ cause[c] = "none" /\ stream[c].terminal = "none" /\ cursor[c] \in Artifacts
    BY <1>1, AtLectures
  <2>2. command'[c] = "building" /\ command' \in [Commands -> CommandStages] /\ \A d \in Commands \ {c} : command'[d] = command[d]
    <3>1. "building" \in CommandStages
      BY DEF CommandStages, Loading
    <3> QED
      BY <1>3, <2>1, <3>1, Goes
  <2>3. unguarded \subseteq unguarded' /\ unguarded' \subseteq Artifacts /\ (cursor[c] \in unguarded' \/ decided[c][cursor[c]] \in Missing)
    BY <1>3, <2>1 DEF CdTypes, Missing
  <2>4. versions' \in Nat /\ onDisk' \in [Artifacts -> 0..versions'] /\ library \in [Artifacts -> 0..versions']
    <3>1. versions \in Nat /\ onDisk \in [Artifacts -> 0..versions] /\ library \in [Artifacts -> 0..versions]
      BY <2>1 DEF CdTypes
    <3>2. \A a \in Artifacts : onDisk[a] \in 0..(versions + 1) /\ library[a] \in 0..(versions + 1)
      BY <3>1
    <3>3. versions + 1 \in 0..(versions + 1) /\ versions + 1 \in Nat
      BY <3>1
    <3>4. \A a \in Artifacts : onDisk'[a] \in 0..(versions + 1)
      BY <1>3, <2>1, <3>1, <3>2, <3>3
    <3> QED
      BY <1>3, <2>1, <3>1, <3>2, <3>3, <3>4
  <2>5. CdTypes'
    BY <1>1, <1>3, <2>1, <2>2, <2>3, <2>4 DEF CdTypes
  <2>6. Guarded(c)'
    BY <1>1, <2>1, <2>2, <2>3 DEF Guarded
  <2>7. Tells(c)'
    BY <1>1, <1>3, <2>1, <2>2 DEF Tells, Hits, Decided, Emits
  <2>8. \A d \in Commands : StandsStill(d)
    BY <1>1, <1>3, <2>1, PublishingStands
  <2>9. "building" \in Loading
    BY DEF Loading
  <2> QED
    BY <1>1, <1>3, <2>1, <2>2, <2>3, <2>5, <2>6, <2>7, <2>8, <2>9, LecturesGoOn
<1> QED
  BY <1>2, <1>3 DEF DownloadLecture

(* Its manifest joins the result. *)
LEMMA BuildArtifactStep ==
  ASSUME CdIInv, NEW c \in Commands, BuildArtifact(c)
  PROVE  CdIInv'
<1>1. /\ flags' = flags /\ decided' = decided /\ playlists' = playlists /\ exit' = exit /\ lockOwner' = lockOwner /\ reused' = reused
      /\ recorded' = recorded /\ cursor' = cursor /\ UNCHANGED worldVars
      /\ library' = library /\ versions' = versions /\ unguarded' = unguarded /\ onDisk' = onDisk
      /\ command[c] = "building" /\ command[c] \in Loading
  BY DEF BuildArtifact, worldVars, At, Loading
<1>2. CASE Raise(c, "failed") /\ TellLectureFailed(c) /\ Go(c, "recording") /\ built' = built
  BY <1>1, <1>2, LecturesFail DEF Errors
<1>3. CASE built' = [built EXCEPT ![c] = @ \union {cursor[c]}] /\ Go(c, "telling") /\ cause' = cause /\ stream' = stream
  <2>1. /\ CdTypes /\ Guarded(c) /\ Tells(c) /\ cause[c] = "none" /\ stream[c].terminal = "none" /\ cursor[c] \in Artifacts
    BY <1>1, AtLectures
  <2>2. command'[c] = "telling" /\ command' \in [Commands -> CommandStages] /\ \A d \in Commands \ {c} : command'[d] = command[d]
    <3>1. "telling" \in CommandStages
      BY DEF CommandStages, Loading
    <3> QED
      BY <1>3, <2>1, <3>1, Goes
  <2>3. /\ built' \in [Commands -> SUBSET Artifacts] /\ built'[c] = built[c] \union {cursor[c]}
        /\ \A d \in Commands \ {c} : built'[d] = built[d]
    BY <1>3, <2>1 DEF CdTypes
  <2>4. CdTypes'
    BY <1>1, <1>3, <2>1, <2>2, <2>3 DEF CdTypes
  <2>5. Guarded(c)'
    BY <1>1, <2>1, <2>2, <2>3 DEF Guarded
  <2>6. Tells(c)'
    <3>1. Emits(c) => stream[c].completed = built[c] \union reused[c]
      BY <1>1, <2>1 DEF Tells
    <3>2. Hits(c)' = Hits(c) /\ Emits(c)' = Emits(c)
      BY <1>1 DEF Hits, Decided, Emits
    <3>3. stream[c].completed \subseteq built[c] \union Hits(c) /\ reused[c] \subseteq Hits(c)
      BY <2>1 DEF Tells
    <3>4. Emits(c) => stream[c].completed \union {cursor[c]} = built'[c] \union reused[c]
      BY <2>3, <3>1
    <3>5. stream[c].completed \subseteq built'[c] \union Hits(c) /\ cursor[c] \in built'[c]
      BY <2>3, <3>3
    <3> QED
      BY <1>1, <1>3, <2>2, <3>2, <3>3, <3>4, <3>5 DEF Tells
  <2>7. \A d \in Commands : StandsStill(d)
    BY <1>1, <2>1, WorldStands
  <2>8. "telling" \in Loading
    BY DEF Loading
  <2> QED
    BY <1>1, <1>3, <2>1, <2>2, <2>3, <2>4, <2>5, <2>6, <2>7, <2>8, LecturesGoOn
<1> QED
  BY <1>2, <1>3 DEF BuildArtifact

(* It is told as completed, and the next one is taken up. *)
LEMMA TellCompletedStep ==
  ASSUME CdIInv, NEW c \in Commands, TellCompleted(c)
  PROVE  CdIInv'
<1>1. /\ flags' = flags /\ decided' = decided /\ playlists' = playlists /\ exit' = exit /\ lockOwner' = lockOwner /\ reused' = reused
      /\ recorded' = recorded /\ built' = built /\ UNCHANGED worldVars
      /\ library' = library /\ versions' = versions /\ unguarded' = unguarded /\ onDisk' = onDisk
      /\ command[c] = "telling" /\ command[c] \in Loading
  BY DEF TellCompleted, worldVars, At, Loading
<1>2. CASE Raise(c, "delivery") /\ Go(c, "recording") /\ cursor' = cursor /\ stream' = stream
  BY <1>1, <1>2, LecturesFail DEF Errors
<1>3. CASE /\ NextLecture(c)
           /\ stream' = IF Emits(c) THEN [stream EXCEPT ![c].open = 0, ![c].completed = @ \union {cursor[c]}] ELSE stream
  <2>1. /\ CdTypes /\ Guarded(c) /\ Tells(c) /\ cause[c] = "none" /\ stream[c].terminal = "none" /\ cursor[c] \in Artifacts
        /\ Artifacts \subseteq 0..2 /\ playlists[c] \subseteq Artifacts /\ Emits(c) \in BOOLEAN
    BY <1>1, AtLectures
  <2>2. /\ command' \in [Commands -> CommandStages] /\ \A d \in Commands \ {c} : command'[d] = command[d]
        /\ cursor' \in [Commands -> 0..2] /\ \A d \in Commands \ {c} : cursor'[d] = cursor[d]
        /\ cause' \in [Commands -> {"none"} \union Errors] /\ \A d \in Commands \ {c} : cause'[d] = cause[d]
        /\ \/ command'[c] = "lecture" /\ cursor'[c] \in Artifacts /\ cause'[c] = "none"
           \/ command'[c] = "recording"
    BY <1>3, <2>1, NextLectures
  <2>3. /\ stream' \in [Commands -> Streams] /\ \A d \in Commands \ {c} : stream'[d] = stream[d]
        /\ stream'[c].completed \subseteq stream[c].completed \union {cursor[c]} /\ stream'[c].terminal = "none"
        /\ Emits(c) => stream'[c].open = 0 /\ stream'[c].completed = stream[c].completed \union {cursor[c]}
    <3>1. CASE Emits(c)
      BY <1>3, <2>1, <3>1, TellsDone
    <3>2. CASE ~Emits(c)
      BY <1>3, <2>1, <3>2 DEF CdTypes
    <3> QED
      BY <3>1, <3>2
  <2>4. CdTypes'
    BY <1>1, <2>1, <2>2, <2>3 DEF CdTypes
  <2>5. Guarded(c)'
    BY <1>1, <2>1, <2>2 DEF Guarded
  <2>6. Tells(c)'
    <3>1. Emits(c) => stream[c].completed \union {cursor[c]} = built[c] \union reused[c]
      BY <1>1, <2>1 DEF Tells
    <3>2. Hits(c)' = Hits(c) /\ Emits(c)' = Emits(c)
      BY <1>1 DEF Hits, Decided, Emits
    <3>3. stream[c].completed \subseteq built[c] \union Hits(c) /\ reused[c] \subseteq Hits(c) /\ cursor[c] \in built[c]
      BY <1>1, <2>1 DEF Tells
    <3>4. stream'[c].completed \subseteq built[c] \union Hits(c)
      BY <2>3, <3>3
    <3> QED
      BY <1>1, <2>2, <2>3, <3>1, <3>2, <3>3, <3>4 DEF Tells
  <2>7. \A d \in Commands : StandsStill(d)
    BY <1>1, <2>1, WorldStands
  <2>8. "lecture" \in Loading /\ "recording" \notin Loading
    BY DEF Loading
  <2> QED
    BY <1>1, <2>2, <2>3, <2>4, <2>5, <2>6, <2>7, <2>8, LecturesGoOn
<1> QED
  BY <1>2, <1>3 DEF TellCompleted

---------------------------------------------------------------------------

(* What was built is recorded, all of it or nothing. *)
LEMMA ApplyLibraryRecordingStep ==
  ASSUME CdIInv, NEW c \in Commands, ApplyLibraryRecording(c)
  PROVE  CdIInv'
<1>1. /\ flags' = flags /\ cursor' = cursor /\ decided' = decided /\ playlists' = playlists
      /\ built' = built /\ reused' = reused /\ cause' = cause /\ stream' = stream /\ exit' = exit
      /\ lockOwner' = lockOwner /\ versions' = versions /\ unguarded' = unguarded /\ onDisk' = onDisk
      /\ command[c] = "recording" /\ Go(c, "closing")
  BY DEF ApplyLibraryRecording, At
<1>2. /\ CdTypes /\ CdFits(c) /\ Guarded(c) /\ Tells(c) /\ stream[c].terminal = "none" /\ built[c] \subseteq Artifacts
  BY <1>1 DEF CdIInv, CdFits, Says, CdTypes
<1>3. command'[c] = "closing" /\ command' \in [Commands -> CommandStages] /\ \A d \in Commands \ {c} : command'[d] = command[d]
  <2>1. "closing" \in CommandStages
    BY DEF CommandStages
  <2> QED
    BY <1>1, <1>2, <2>1, Goes
<1>4. /\ library' \in [Artifacts -> 0..versions] /\ \A a \in Artifacts : library[a] # NoVersion => library'[a] # NoVersion
      /\ recorded' \in [Commands -> BOOLEAN] /\ \A d \in Commands \ {c} : recorded'[d] = recorded[d]
      /\ recorded'[c] => \A a \in built[c] : library'[a] # NoVersion
      /\ \A d \in Commands \ {c} : StandsStill(d)
  <2>1. CASE built[c] = {} /\ recorded' = recorded /\ library' = library
    BY <1>1, <1>2, <2>1, WorldStands DEF CdTypes
  <2>2. CASE /\ \A a \in built[c] : onDisk[a] # NoVersion
             /\ recorded' = [recorded EXCEPT ![c] = TRUE]
             /\ library' = [a \in Artifacts |-> IF a \in built[c] THEN onDisk[a] ELSE library[a]]
    <3>1. \A d \in Commands \ {c} : StandsStill(d)
      BY <1>1, <2>2, RecordingStands
    <3>2. library' \in [Artifacts -> 0..versions]
      BY <1>2, <2>2 DEF CdTypes
    <3>3. \A a \in built[c] : library'[a] # NoVersion
      BY <1>2, <2>2
    <3>4. \A a \in Artifacts : library[a] # NoVersion => library'[a] # NoVersion
      BY <2>2
    <3>5. recorded' \in [Commands -> BOOLEAN] /\ \A d \in Commands \ {c} : recorded'[d] = recorded[d]
      BY <1>2, <2>2 DEF CdTypes
    <3> QED
      BY <3>1, <3>2, <3>3, <3>4, <3>5
  <2>3. CASE recorded' = [recorded EXCEPT ![c] = FALSE] /\ library' = library
    BY <1>1, <1>2, <2>3, WorldStands DEF CdTypes
  <2> QED
    BY <2>1, <2>2, <2>3 DEF ApplyLibraryRecording
<1>5. CommandsStay(c)
  BY <1>1, <1>3, <1>4 DEF CommandsStay
<1>6. CdTypes'
  BY <1>1, <1>2, <1>3, <1>4 DEF CdTypes
<1>7. Hits(c)' = Hits(c) /\ Emits(c)' = Emits(c)
  BY <1>1 DEF Hits, Decided, Emits
<1>8. Fresh(c)' /\ Ahead(c)' /\ Guarded(c)'
  BY <1>1, <1>2, <1>3 DEF Fresh, Ahead, Guarded, Early, Loading
<1>9. Locks(c)'
  BY <1>1, <1>2, <1>3 DEF CdFits, Locks, Finished
<1>10. Stands(c)'
  <2>1. command'[c] \notin Early \union Loading \union {"recording"}
    BY <1>3 DEF Early, Loading
  <2> QED
    BY <1>1, <1>2, <1>4, <2>1 DEF CdFits, Stands
<1>11. Tells(c)'
  BY <1>1, <1>2, <1>3, <1>7 DEF Tells
<1>12. Says(c)'
  BY <1>1, <1>2, <1>3, <1>4 DEF Says
<1> QED
  BY <1>4, <1>5, <1>6, <1>8, <1>9, <1>10, <1>11, <1>12, OneCommands DEF CdFits

(* The locks are given back. *)
LEMMA CloseLocksStep ==
  ASSUME CdIInv, NEW c \in Commands, CloseLocks(c)
  PROVE  CdIInv'
<1>1. /\ flags' = flags /\ cursor' = cursor /\ decided' = decided /\ playlists' = playlists
      /\ built' = built /\ reused' = reused /\ recorded' = recorded /\ stream' = stream /\ exit' = exit
      /\ library' = library /\ versions' = versions /\ unguarded' = unguarded /\ onDisk' = onDisk
      /\ command[c] = "closing" /\ Go(c, "finishing")
      /\ lockOwner' = [a \in Artifacts |-> IF lockOwner[a] = c THEN 0 ELSE lockOwner[a]]
  BY DEF CloseLocks, worldVars, At
<1>2. /\ CdTypes /\ CdFits(c) /\ Guarded(c) /\ Tells(c) /\ Says(c) /\ stream[c].terminal = "none" /\ c # 0
  BY <1>1 DEF CdIInv, CdFits, Says, Commands
<1>3. command'[c] = "finishing" /\ command' \in [Commands -> CommandStages] /\ \A d \in Commands \ {c} : command'[d] = command[d]
  <2>1. "finishing" \in CommandStages
    BY DEF CommandStages, Finished
  <2> QED
    BY <1>1, <1>2, <2>1, Goes
<1>4. /\ cause' \in [Commands -> {"none"} \union Errors] /\ \A d \in Commands \ {c} : cause'[d] = cause[d]
      /\ cause'[c] = "none" => cause[c] = "none"
  <2>1. CASE cause' = cause
    BY <1>2, <2>1 DEF CdTypes
  <2>2. CASE Raise(c, IF cause[c] = "none" THEN "failed" ELSE cause[c])
    <3> DEFINE e == IF cause[c] = "none" THEN "failed" ELSE cause[c]
    <3>1. e \in Errors /\ "none" \notin Errors
      BY <1>2 DEF CdTypes, Errors
    <3>2. Raise(c, e)
      BY <2>2
    <3> HIDE DEF e
    <3> QED
      BY <1>2, <3>1, <3>2, Raises
  <2> QED
    BY <2>1, <2>2 DEF CloseLocks
<1>5. lockOwner' \in [Artifacts -> {0} \union Commands] /\ \A a \in Artifacts : lockOwner'[a] # c
  BY <1>1, <1>2 DEF CdTypes
<1>6. CommandsStay(c)
  <2>1. \A d \in Commands \ {c} : \A a \in Artifacts : (lockOwner'[a] = d) = (lockOwner[a] = d)
    BY <1>1 DEF Commands
  <2> QED
    BY <1>1, <1>3, <1>4, <2>1 DEF CommandsStay
<1>7. CdTypes'
  BY <1>1, <1>2, <1>3, <1>4, <1>5 DEF CdTypes
<1>8. Hits(c)' = Hits(c) /\ Emits(c)' = Emits(c)
  BY <1>1 DEF Hits, Decided, Emits
<1>9. Fresh(c)' /\ Ahead(c)' /\ Guarded(c)'
  BY <1>1, <1>2, <1>3 DEF Fresh, Ahead, Guarded, Early, Loading
<1>10. Locks(c)'
  BY <1>3, <1>5 DEF Locks, Finished
<1>11. Stands(c)'
  <2>1. command'[c] \notin Early \union Loading \union {"recording"}
    BY <1>3 DEF Early, Loading
  <2> QED
    BY <1>1, <1>2, <2>1 DEF CdFits, Stands
<1>12. Tells(c)'
  BY <1>1, <1>2, <1>3, <1>4, <1>8 DEF Tells
<1>13. Says(c)'
  BY <1>1, <1>2, <1>3 DEF Says, Finished
<1>14. \A d \in Commands \ {c} : StandsStill(d)
  BY <1>1, <1>2, WorldStands
<1> QED
  BY <1>6, <1>7, <1>9, <1>10, <1>11, <1>12, <1>13, <1>14, OneCommands DEF CdFits

(* The terminal event and the exit code tell what has happened. *)
LEMMA FinishCommandStep ==
  ASSUME CdIInv, NEW c \in Commands, FinishCommand(c)
  PROVE  CdIInv'
<1>1. /\ flags' = flags /\ cursor' = cursor /\ decided' = decided /\ playlists' = playlists
      /\ built' = built /\ reused' = reused /\ recorded' = recorded /\ cause' = cause /\ lockOwner' = lockOwner
      /\ library' = library /\ versions' = versions /\ unguarded' = unguarded /\ onDisk' = onDisk
      /\ command[c] = "finishing" /\ Go(c, "over")
  BY DEF FinishCommand, worldVars, At
<1>2. /\ CdTypes /\ CdFits(c) /\ Guarded(c) /\ Tells(c) /\ Says(c) /\ stream[c].terminal = "none" /\ c # 0
      /\ Emits(c) \in BOOLEAN /\ recorded[c] \in BOOLEAN
  BY <1>1, Selects DEF CdIInv, CdFits, Says, CdTypes, Commands
<1>3. command'[c] = "over" /\ command' \in [Commands -> CommandStages] /\ \A d \in Commands \ {c} : command'[d] = command[d]
  <2>1. "over" \in CommandStages
    BY DEF CommandStages, Finished
  <2> QED
    BY <1>1, <1>2, <2>1, Goes
<1>4. /\ \A e : ExitCode(e) \in Int
      /\ ExitCode("commit") = 1
  <2>1. ASSUME NEW e PROVE ExitCode(e) \in {0, 1, 130}
    <3>1. CASE e = "none"
      BY <3>1 DEF ExitCode
    <3>2. CASE e = "canceled"
      BY <3>2 DEF ExitCode
    <3>3. CASE e # "none" /\ e # "canceled"
      BY <3>3 DEF ExitCode
    <3> QED
      BY <3>1, <3>2, <3>3
  <2>2. ExitCode("commit") = 1
    BY DEF ExitCode
  <2> QED
    BY <2>1, <2>2
<1>5. /\ exit' \in [Commands -> Int] /\ \A d \in Commands \ {c} : exit'[d] = exit[d]
      /\ stream' \in [Commands -> Streams] /\ \A d \in Commands \ {c} : stream'[d] = stream[d]
      /\ stream'[c].open = stream[c].open /\ stream'[c].completed = stream[c].completed
      /\ Emits(c) => /\ stream'[c].terminal # "none"
                     /\ built[c] # {} /\ ~recorded[c] => exit'[c] = 1 /\ stream'[c].terminal \in {"failed", "undelivered"}
      /\ stream'[c].terminal = "completed" => Emits(c) /\ recorded[c] /\ cause[c] = "none"
  <2>1. CASE ~Emits(c) /\ exit' = [exit EXCEPT ![c] = ExitCode(cause[c])] /\ stream' = stream
    BY <1>2, <1>4, <2>1 DEF CdTypes
  <2>2. CASE /\ Emits(c) /\ exit' = [exit EXCEPT ![c] = ExitCode(Reported(c))]
             /\ stream' = [stream EXCEPT ![c].terminal = CASE Reported(c) = "none" -> "completed"
                                                           [] Reported(c) = "canceled" -> "canceled"
                                                           [] OTHER -> "failed"]
    <3> DEFINE t == CASE Reported(c) = "none" -> "completed" [] Reported(c) = "canceled" -> "canceled" [] OTHER -> "failed"
    <3>1. t \in {"completed", "canceled", "failed"} /\ (t = "completed" => Reported(c) = "none") /\ (Reported(c) = "commit" => t = "failed")
      <4>1. CASE Reported(c) = "none"
        BY <4>1
      <4>2. CASE Reported(c) = "canceled"
        BY <4>2
      <4>3. CASE Reported(c) # "none" /\ Reported(c) # "canceled"
        BY <4>3
      <4> QED
        BY <4>1, <4>2, <4>3
    <3>2. stream' = [stream EXCEPT ![c].terminal = t]
      BY <2>2
    <3>3. t \in Terminals /\ t # "none"
      BY <3>1 DEF Terminals
    <3> HIDE DEF t
    <3>4. /\ stream' \in [Commands -> Streams] /\ \A d \in Commands \ {c} : stream'[d] = stream[d]
          /\ stream'[c].open = stream[c].open /\ stream'[c].completed = stream[c].completed /\ stream'[c].terminal = t
      BY <1>2, <3>2, <3>3, TellsEnd
    <3>5. Reported(c) = "none" => recorded[c] /\ cause[c] = "none"
      BY DEF Reported
    <3>6. built[c] # {} /\ ~recorded[c] => Reported(c) = "commit"
      <4>1. built[c] # {} => built[c] \union reused[c] # {}
        OBVIOUS
      <4> QED
        BY <4>1 DEF Reported
    <3>7. /\ exit' \in [Commands -> Int] /\ \A d \in Commands \ {c} : exit'[d] = exit[d]
          /\ exit'[c] = ExitCode(Reported(c))
      BY <1>2, <1>4, <2>2 DEF CdTypes
    <3> QED
      BY <1>4, <2>2, <3>1, <3>3, <3>4, <3>5, <3>6, <3>7
  <2>3. CASE Emits(c) /\ exit' = [exit EXCEPT ![c] = 1] /\ stream' = [stream EXCEPT ![c].terminal = "undelivered"]
    <3>1. "undelivered" \in Terminals
      BY DEF Terminals
    <3>2. /\ stream' \in [Commands -> Streams] /\ \A d \in Commands \ {c} : stream'[d] = stream[d]
          /\ stream'[c].open = stream[c].open /\ stream'[c].completed = stream[c].completed /\ stream'[c].terminal = "undelivered"
      BY <1>2, <2>3, <3>1, TellsEnd
    <3>3. exit' \in [Commands -> Int] /\ \A d \in Commands \ {c} : exit'[d] = exit[d]
          /\ exit'[c] = 1
      BY <1>2, <2>3 DEF CdTypes
    <3> QED
      BY <2>3, <3>2, <3>3
  <2> QED
    BY <1>2, <2>1, <2>2, <2>3 DEF FinishCommand
<1>6. CommandsStay(c)
  BY <1>1, <1>3, <1>5 DEF CommandsStay
<1>7. CdTypes'
  BY <1>1, <1>2, <1>3, <1>5 DEF CdTypes
<1>8. Hits(c)' = Hits(c) /\ Emits(c)' = Emits(c)
  BY <1>1 DEF Hits, Decided, Emits
<1>9. Fresh(c)' /\ Ahead(c)' /\ Guarded(c)'
  BY <1>1, <1>2, <1>3 DEF Fresh, Ahead, Guarded, Early, Loading
<1>10. Locks(c)'
  BY <1>1, <1>2, <1>3 DEF CdFits, Locks, Finished
<1>11. Stands(c)'
  <2>1. command'[c] \notin Early \union Loading \union {"recording"}
    BY <1>3 DEF Early, Loading
  <2> QED
    BY <1>1, <1>2, <2>1 DEF CdFits, Stands
<1>12. Tells(c)'
  BY <1>1, <1>2, <1>3, <1>5, <1>8 DEF Tells
<1>13. Says(c)'
  <2>1. Emits(c) /\ cause[c] = "none" => stream[c].open = 0 /\ stream[c].completed = built[c] \union reused[c]
    BY <1>1, <1>2 DEF Tells
  <2>2. recorded[c] => \A a \in built[c] : library[a] # NoVersion
    BY <1>1, <1>2 DEF Says, Finished
  <2> QED
    BY <1>1, <1>3, <1>5, <1>8, <2>1, <2>2 DEF Says, Finished
<1>14. \A d \in Commands \ {c} : StandsStill(d)
  BY <1>1, <1>2, WorldStands
<1> QED
  BY <1>6, <1>7, <1>9, <1>10, <1>11, <1>12, <1>13, <1>14, OneCommands DEF CdFits

(* Every step of the commands keeps the invariant. *)
LEMMA CdStep ==
  ASSUME CdIInv, CdNext
  PROVE  CdIInv'
<1>1. ASSUME NEW c \in Commands, Interrupt(c) PROVE CdIInv'
  BY <1>1, CdRests DEF Interrupt, resultVars, worldVars
<1>2. ASSUME NEW c \in Commands, CdProgress \/ PrepareCommand(c) PROVE CdIInv'
  BY <1>2, PrepareCommandStep, AcquireLockStep, VerifyReusableStep, EmitReusedStep, FetchPlaylistsStep, StartLectureDownloadStep,
     DownloadLectureStep, BuildArtifactStep, TellCompletedStep, ApplyLibraryRecordingStep, CloseLocksStep, FinishCommandStep
     DEF CdProgress
<1>3. ASSUME NEW a \in Artifacts, RemoveFiles(a) PROVE CdIInv'
  BY <1>3, RemoveFilesStep
<1>4. CASE CdProgress
  BY <1>2, <1>4 DEF Commands
<1> QED
  BY <1>1, <1>2, <1>3, <1>4 DEF CdNext

---------------------------------------------------------------------------
(* A command that leaves files and library alone: it is not settled, it has
   built nothing, or it was settled already with what it has. *)
LEMMA LastsAlone ==
  ASSUME CdTypes, CdLasts, NEW c \in Commands, UNCHANGED worldVars,
         \A d \in Commands \ {c} : command'[d] = command[d] /\ recorded'[d] = recorded[d] /\ built'[d] = built[d],
         \/ command'[c] \notin Settled
         \/ built'[c] = {} \/ ~recorded'[c]
         \/ command[c] \in Settled /\ recorded'[c] = recorded[c] /\ built'[c] = built[c]
  PROVE  CdLasts'
<1>1. library' = library /\ versions' = versions /\ onDisk' = onDisk /\ published' = published
  BY DEF worldVars
<1> QED
  BY <1>1 DEF CdLasts

(* The steps before a command has settled, *)
LEMMA LastsBefore ==
  ASSUME CdIInv, CdLasts, NEW c \in Commands,
         \/ PrepareCommand(c) \/ AcquireLock(c) \/ VerifyReusable(c) \/ EmitReused(c) \/ FetchPlaylists(c)
         \/ StartLectureDownload(c) \/ BuildArtifact(c) \/ TellCompleted(c)
  PROVE  CdLasts'
<1>1. CdTypes /\ Fresh(c)
  BY DEF CdIInv, CdFits
<1>2. UNCHANGED worldVars
  BY DEF PrepareCommand, AcquireLock, VerifyReusable, EmitReused, FetchPlaylists, StartLectureDownload, BuildArtifact, TellCompleted
<1>3. CASE PrepareCommand(c) \/ AcquireLock(c) \/ VerifyReusable(c) \/ EmitReused(c)
  <2>1. built' = built /\ command[c] \in Early
    BY <1>3 DEF PrepareCommand, AcquireLock, VerifyReusable, EmitReused, At, Early
  <2>2. built'[c] = {}
    BY <1>1, <2>1 DEF Fresh
  <2>3. \A d \in Commands \ {c} : command'[d] = command[d]
    <3>1. \E s \in CommandStages : Go(c, s)
      BY <1>3 DEF PrepareCommand, AcquireLock, VerifyReusable, EmitReused, NextDecision, CommandStages, Early, Loading, Finished
    <3> QED
      BY <1>1, <3>1, Goes
  <2>4. \A d \in Commands \ {c} : recorded'[d] = recorded[d]
    <3>1. recorded' = recorded \/ recorded' = [recorded EXCEPT ![c] = Hits(c) # {}]
      BY <1>3 DEF PrepareCommand, AcquireLock, VerifyReusable, EmitReused
    <3> QED
      BY <1>1, <3>1 DEF CdTypes
  <2> QED
    BY <1>1, <1>2, <2>1, <2>2, <2>3, <2>4, LastsAlone
<1>4. CASE FetchPlaylists(c) \/ StartLectureDownload(c) \/ BuildArtifact(c) \/ TellCompleted(c)
  <2>1. recorded' = recorded
    BY <1>4 DEF FetchPlaylists, StartLectureDownload, BuildArtifact, TellCompleted
  <2>2. \A d \in Commands \ {c} : built'[d] = built[d]
    <3>1. built' = built \/ built' = [built EXCEPT ![c] = @ \union {cursor[c]}]
      BY <1>4 DEF FetchPlaylists, StartLectureDownload, BuildArtifact, TellCompleted
    <3> QED
      BY <1>1, <3>1 DEF CdTypes
  <2>3. \A d \in Commands \ {c} : command'[d] = command[d]
    <3>1. \E s \in CommandStages : Go(c, s)
      BY <1>4 DEF FetchPlaylists, StartLectureDownload, BuildArtifact, TellCompleted, NextLecture, CommandStages, Loading
    <3> QED
      BY <1>1, <3>1, Goes
  <2>4. command'[c] \notin Settled
    <3>1. \E s \in {"lecture", "recording", "downloading", "telling"} : Go(c, s)
      BY <1>4 DEF FetchPlaylists, StartLectureDownload, BuildArtifact, TellCompleted, NextLecture
    <3>2. \A s \in {"lecture", "recording", "downloading", "telling"} : s \in CommandStages /\ s \notin Settled
      BY DEF CommandStages, Loading, Settled, Finished
    <3> QED
      BY <1>1, <3>1, <3>2, Goes
  <2> QED
    BY <1>1, <1>2, <2>1, <2>2, <2>3, <2>4, LastsAlone
<1> QED
  BY <1>3, <1>4

(* and those after it. *)
LEMMA LastsAfter ==
  ASSUME CdIInv, CdLasts, NEW c \in Commands, CloseLocks(c) \/ FinishCommand(c)
  PROVE  CdLasts'
<1>1. CdTypes /\ UNCHANGED worldVars /\ built' = built /\ recorded' = recorded /\ command[c] \in Settled
  BY DEF CdIInv, CloseLocks, FinishCommand, At, Settled, Finished
<1>2. \A d \in Commands \ {c} : command'[d] = command[d]
  <2>1. \E s \in CommandStages : Go(c, s)
    BY DEF CloseLocks, FinishCommand, CommandStages, Finished
  <2> QED
    BY <1>1, <2>1, Goes
<1> QED
  BY <1>1, <1>2, LastsAlone

(* A download makes the newest version of all. *)
LEMMA LastsDownload ==
  ASSUME CdIInv, CdLasts, NEW c \in Commands, DownloadLecture(c)
  PROVE  CdLasts'
<1>1. CdTypes /\ command[c] = "downloading" /\ built' = built /\ recorded' = recorded /\ library' = library
  BY DEF CdIInv, DownloadLecture, At
<1>2. cursor[c] \in Artifacts
  BY <1>1, AtLectures DEF Loading
<1>3. \A d \in Commands \ {c} : command'[d] = command[d]
  <2>1. \E s \in CommandStages : Go(c, s)
    BY DEF DownloadLecture, CommandStages, Loading
  <2> QED
    BY <1>1, <2>1, Goes
<1>4. command'[c] \notin Settled
  <2>1. Go(c, "building") \/ Go(c, "recording")
    BY DEF DownloadLecture
  <2>2. {"building", "recording"} \subseteq CommandStages /\ {"building", "recording"} \cap Settled = {}
    BY DEF CommandStages, Loading, Settled, Finished
  <2> QED
    BY <1>1, <2>1, <2>2, Goes
<1>5. CASE UNCHANGED <<versions, onDisk, unguarded, published>>
  BY <1>1, <1>3, <1>4, <1>5, LastsAlone DEF worldVars
<1>6. CASE /\ versions' = versions + 1 /\ onDisk' = [onDisk EXCEPT ![cursor[c]] = versions + 1]
           /\ published' = [published EXCEPT ![c][cursor[c]] = versions + 1]
  <2>1. /\ versions \in Nat /\ onDisk \in [Artifacts -> 0..versions] /\ library \in [Artifacts -> 0..versions]
        /\ published \in [Commands -> [Artifacts -> 0..versions]]
    BY <1>1 DEF CdTypes, CdLasts
  <2>2. \A d \in Commands, a \in Artifacts : published'[d][a] = IF d = c /\ a = cursor[c] THEN versions + 1 ELSE published[d][a]
    BY <1>2, <1>6, <2>1
  <2>3. \A a \in Artifacts : onDisk'[a] = IF a = cursor[c] THEN versions + 1 ELSE onDisk[a]
    BY <1>2, <1>6, <2>1
  <2>4. published' \in [Commands -> [Artifacts -> 0..versions']]
    <3>1. \A d \in Commands, a \in Artifacts : published'[d][a] \in 0..(versions + 1)
      BY <2>1, <2>2
    <3>2. \A d \in Commands : published'[d] = IF d = c THEN [published[c] EXCEPT ![cursor[c]] = versions + 1] ELSE published[d]
      BY <1>6, <2>1
    <3>3. \A d \in Commands : published'[d] \in [Artifacts -> 0..(versions + 1)]
      BY <2>1, <3>1, <3>2
    <3>4. published' = [d \in Commands |-> published'[d]]
      BY <1>6, <2>1
    <3> QED
      BY <1>6, <3>3, <3>4
  <2>5. ASSUME NEW a \in Artifacts, onDisk'[a] # NoVersion
        PROVE  library'[a] <= onDisk'[a] /\ \A d \in Commands : published'[d][a] <= onDisk'[a]
    <3>1. CASE a = cursor[c]
      <4>1. onDisk'[a] = versions + 1 /\ library'[a] \in 0..versions
        BY <1>1, <2>1, <2>3, <3>1
      <4>2. \A d \in Commands : published'[d][a] \in 0..(versions + 1)
        BY <1>6, <2>4
      <4> QED
        BY <2>1, <4>1, <4>2
    <3>2. CASE a # cursor[c]
      BY <1>1, <2>2, <2>3, <2>5, <3>2 DEF CdLasts
    <3> QED
      BY <3>1, <3>2
  <2>6. ASSUME NEW d \in Commands, command'[d] \in Settled, recorded'[d], NEW a \in built'[d]
        PROVE  published'[d][a] <= library'[a]
    <3>1. d # c
      BY <1>4, <2>6
    <3>2. a \in Artifacts
      BY <1>1, <2>6 DEF CdTypes
    <3>3. command[d] \in Settled /\ recorded[d] /\ a \in built[d]
      BY <1>1, <1>3, <2>6, <3>1
    <3> QED
      BY <1>1, <2>2, <3>1, <3>2, <3>3 DEF CdLasts
  <2> QED
    BY <2>4, <2>5, <2>6 DEF CdLasts
<1> QED
  BY <1>5, <1>6 DEF DownloadLecture

(* A recording takes the files as they are now, which are the newest. *)
LEMMA LastsRecording ==
  ASSUME CdIInv, CdLasts, NEW c \in Commands, ApplyLibraryRecording(c)
  PROVE  CdLasts'
<1>1. /\ CdTypes /\ built' = built /\ onDisk' = onDisk /\ versions' = versions /\ published' = published
      /\ unguarded' = unguarded /\ Go(c, "closing")
  BY DEF CdIInv, ApplyLibraryRecording
<1>2. \A d \in Commands \ {c} : command'[d] = command[d]
  <2>1. "closing" \in CommandStages
    BY DEF CommandStages
  <2> QED
    BY <1>1, <2>1, Goes
<1>3. CASE built[c] = {} /\ recorded' = recorded /\ library' = library
  BY <1>1, <1>2, <1>3, LastsAlone DEF worldVars
<1>4. CASE recorded' = [recorded EXCEPT ![c] = FALSE] /\ library' = library
  <2>1. ~recorded'[c] /\ \A d \in Commands \ {c} : recorded'[d] = recorded[d]
    BY <1>1, <1>4 DEF CdTypes
  <2> QED
    BY <1>1, <1>2, <1>4, <2>1, LastsAlone DEF worldVars
<1>5. CASE /\ \A a \in built[c] : onDisk[a] # NoVersion
           /\ recorded' = [recorded EXCEPT ![c] = TRUE]
           /\ library' = [a \in Artifacts |-> IF a \in built[c] THEN onDisk[a] ELSE library[a]]
  <2>1. /\ onDisk \in [Artifacts -> 0..versions] /\ library \in [Artifacts -> 0..versions] /\ versions \in Nat
        /\ published \in [Commands -> [Artifacts -> 0..versions]] /\ built \in [Commands -> SUBSET Artifacts]
    BY <1>1 DEF CdTypes, CdLasts
  <2>2. \A a \in Artifacts : library'[a] = IF a \in built[c] THEN onDisk[a] ELSE library[a]
    BY <1>5
  <2>3. \A a \in Artifacts : library[a] <= library'[a]
    <3>1. \A a \in built[c] : library[a] <= onDisk[a]
      BY <1>5, <2>1 DEF CdLasts
    <3>2. \A a \in Artifacts : library[a] \in Nat
      BY <2>1
    <3> QED
      BY <2>2, <3>1, <3>2
  <2>4. ASSUME NEW a \in Artifacts, onDisk'[a] # NoVersion
        PROVE  library'[a] <= onDisk'[a] /\ \A d \in Commands : published'[d][a] <= onDisk'[a]
    <3>1. library[a] <= onDisk[a] /\ \A d \in Commands : published[d][a] <= onDisk[a]
      BY <1>1, <2>4 DEF CdLasts
    <3>2. onDisk[a] \in Nat
      BY <2>1
    <3> QED
      BY <1>1, <2>2, <3>1, <3>2
  <2>5. ASSUME NEW d \in Commands, command'[d] \in Settled, recorded'[d], NEW a \in built'[d]
        PROVE  published'[d][a] <= library'[a]
    <3>1. a \in Artifacts /\ a \in built[d]
      BY <1>1, <2>1, <2>5
    <3>2. published[d][a] \in Nat /\ library[a] \in Nat /\ library'[a] \in Nat
      BY <2>1, <2>2, <3>1
    <3>3. CASE d = c
      BY <1>1, <1>5, <2>2, <3>1, <3>3 DEF CdLasts
    <3>4. CASE d # c
      <4>1. command[d] \in Settled /\ recorded[d]
        BY <1>1, <1>2, <1>5, <2>5, <3>4 DEF CdTypes
      <4>2. published[d][a] <= library[a]
        BY <3>1, <4>1 DEF CdLasts
      <4>3. library[a] <= library'[a]
        BY <2>3, <3>1
      <4> QED
        BY <1>1, <3>2, <4>2, <4>3
    <3> QED
      BY <3>3, <3>4
  <2> QED
    BY <1>1, <2>1, <2>4, <2>5 DEF CdLasts
<1> QED
  BY <1>3, <1>4, <1>5 DEF ApplyLibraryRecording

(* Files that are removed are no older than anything. *)
LEMMA LastsRemoval ==
  ASSUME CdTypes, CdLasts, NEW b \in Artifacts, RemoveFiles(b)
  PROVE  CdLasts'
<1>1. /\ command' = command /\ recorded' = recorded /\ built' = built /\ library' = library /\ versions' = versions
      /\ published' = published /\ onDisk' = [onDisk EXCEPT ![b] = NoVersion]
  BY DEF RemoveFiles, resultVars
<1>2. \A a \in Artifacts : onDisk'[a] = onDisk[a] \/ onDisk'[a] = NoVersion
  BY <1>1 DEF CdTypes
<1> QED
  BY <1>1, <1>2 DEF CdLasts

(* Every step of the commands keeps that what is recorded lasts, *)
LEMMA CdLastsStep ==
  ASSUME CdIInv, CdLasts, CdNext
  PROVE  CdLasts'
<1>1. CdTypes
  BY DEF CdIInv
<1>2. ASSUME NEW c \in Commands, Interrupt(c) PROVE CdLasts'
  BY <1>1, <1>2, LastsAlone DEF Interrupt, resultVars
<1>3. ASSUME NEW c \in Commands, CdProgress \/ PrepareCommand(c) PROVE CdLasts'
  BY <1>3, LastsBefore, LastsAfter, LastsDownload, LastsRecording DEF CdProgress
<1>4. ASSUME NEW a \in Artifacts, RemoveFiles(a) PROVE CdLasts'
  BY <1>1, <1>4, LastsRemoval
<1>5. CASE CdProgress
  BY <1>3, <1>5 DEF Commands
<1> QED
  BY <1>2, <1>3, <1>4, <1>5 DEF CdNext

(* from the start. *)
LEMMA CdLastsInit ==
  ASSUME CdInit
  PROVE  CdLasts
<1>1. /\ published = [c \in Commands |-> [a \in Artifacts |-> 0]] /\ versions = 0
      /\ onDisk = [a \in Artifacts |-> 0] /\ recorded = [c \in Commands |-> FALSE]
  BY DEF CdInit, NoVersion
<1>2. published \in [Commands -> [Artifacts -> 0..versions]]
  BY <1>1
<1> QED
  BY <1>1, <1>2 DEF CdLasts, NoVersion

(* So does a step of another part. *)
LEMMA CdStutter ==
  ASSUME CdIInv, CdLasts, UNCHANGED cdVars
  PROVE  CdIInv' /\ CdLasts'
<1>1. CdIInv'
  BY CdRests DEF cdVars, resultVars, worldVars
<1>2. CdLasts'
  BY DEF CdLasts, cdVars
<1> QED
  BY <1>1, <1>2

---------------------------------------------------------------------------
(* The whole: what every part keeps. *)
DownloadIInv == DpIInv /\ LdIInv /\ PtIInv /\ AlIInv /\ CdIInv /\ CdLasts

(* Every download starts in the invariant, whichever part is followed. *)
LEMMA DownloadInit ==
  ASSUME Init
  PROVE  DownloadIInv
<1>1. DpInit /\ LdInit /\ PtInit /\ AlInit /\ CdInit
  BY DEF Init
<1> QED
  BY <1>1, DpInitIInv, LdInitIInv, PtInitIInv, AlInitIInv, CdInitIInv, CdLastsInit DEF DownloadIInv

(* A step of one part keeps its invariant and leaves the variables of the others alone. *)
LEMMA DownloadStep ==
  ASSUME DownloadIInv, [Next]_vars
  PROVE  DownloadIInv'
<1> USE DEF DownloadIInv
<1>1. CASE Pipeline /\ DpNext
  BY <1>1, DpStep, LdStutter, PtStutter, AlStutter, CdStutter DEF Pipeline
<1>2. CASE Lectures /\ LdNext
  BY <1>2, DpStutter, LdStep, PtStutter, AlStutter, CdStutter DEF Lectures
<1>3. CASE Progress /\ PtNext
  BY <1>3, DpStutter, LdStutter, PtStep, AlStutter, CdStutter DEF Progress
<1>4. CASE Recording /\ AlNext
  BY <1>4, DpStutter, LdStutter, PtStutter, AlStep, CdStutter DEF Recording
<1>5. CASE DownloadCommands /\ CdNext
  BY <1>5, DpStutter, LdStutter, PtStutter, AlStutter, CdStep, CdLastsStep DEF DownloadCommands
<1>6. CASE UNCHANGED vars
  BY <1>6, DpStutter, LdStutter, PtStutter, AlStutter, CdStutter DEF vars
<1> QED
  BY <1>1, <1>2, <1>3, <1>4, <1>5, <1>6 DEF Next

(* The inductive invariant of downloading holds in every behaviour. *)
THEOREM DownloadInvariant == Spec => []DownloadIInv
<1>1. Init => DownloadIInv
  BY DownloadInit
<1>2. DownloadIInv /\ [Next]_vars => DownloadIInv'
  BY DownloadStep
<1> QED
  BY <1>1, <1>2, PTL DEF Spec

(* What a download keeps at every moment: no chunk is lost and the memory
   budget is exact, an output is whole and has one writer, the last progress
   is 100, a digest in the library is one of the recorded file, a command's
   events, exit code and library tell one story. *)
THEOREM DownloadIsSafe == Spec => []DownloadSafe
<1>1. DownloadIInv => DownloadSafe
  BY DpInvariance, LdInvariance, PtInvariance, AlInvariance, CdInvariance DEF DownloadIInv, DownloadSafe
<1> QED
  BY <1>1, DownloadInvariant, PTL
=============================================================================
