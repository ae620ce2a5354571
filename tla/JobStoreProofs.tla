---------------------------- MODULE JobStoreProofs ----------------------------
(* The promises of the job store, for any number of goroutines, jobs and   *)
(* keys, any retention and any number of failed saves and crashes.         *)
EXTENDS JobStore, PersistenceCoordinatorProofs, FiniteSetTheorems

(* The map in memory, as the next revision of it would be saved.           *)
Current == [rev |-> revision, data |-> jobs]

(* What a load may find, and what may still be written.                    *)
Loadable == durable \cup {live}
Underway ==
  (IF phase = "idle" THEN {} ELSE {incoming, previous})
    \cup (IF pending.rev = 0 THEN {} ELSE {pending})
    \cup {call[c].snapshot : c \in {d \in Callers : call[d].pc # "idle"}}
Saved == Loadable \cup Underway

(* A map that the store could have made: of jobs created, no key given     *)
(* twice, no two changes at the same time.                                 *)
Sound(m, created) ==
  /\ m \in Maps
  /\ Present(m) \subseteq created
  /\ \A i, j \in Present(m) : i # j => /\ m[i].key = m[j].key => m[i].key = NoKey
                                       /\ m[i].at # m[j].at

(* A map that keeps what clients were told.                                *)
Keeps(m, told) ==
  \A i \in JobIds :
    told[i] # "nothing" =>
      \/ Forgotten(m, i)
      \/ /\ m[i] # Absent
         /\ told[i] \in Terminal => m[i].status = told[i]

(* PromisesKept and more, of everything that is or may be written.         *)
SavedInv == \A s \in Saved : Sound(s.data, drawn) /\ Keeps(s.data, promised)

(* No revision is taken twice.                                             *)
RevisionInv ==
  /\ \A s \in Saved : s.rev <= revision
  /\ \A s, t \in Saved : (s.rev = t.rev /\ s.rev # 0) => s = t

(* Who is inside publish or flushTo carries the current map, and the last  *)
(* map published is the current one when nobody is about to publish it.    *)
CurrentInv ==
  /\ \A c \in Callers : call[c].pc # "idle" => revision # 0 /\ call[c].snapshot = Current
  /\ (revision # 0 /\ \A c \in Callers : call[c].pc # "publish") => pending = Current
  /\ revision = 0 => live.data = jobs

(* Only the operation in progress, or the start of the process, is inside  *)
(* publish or flushTo; the coordinator is closed after the last of them.   *)
ControlInv ==
  /\ \A c \in Callers : call[c].pc = "idle" \/ c = txn.by
  /\ server # "booting" => call[Main].pc = "idle"
  /\ \A c \in Callers : call[c].pc # "idle" =>
       call[c].kind = IF server = "booting" \/ txn.durable THEN "publishAndFlush"
                                                           ELSE "publish"
  /\ server \in {"booting", "up", "draining"} => closing = "open" /\ ~closed
  /\ closing = "open" => ~closed
  /\ server = "booting" => txn = NoTxn /\ producing = {} /\ call[Main].pc # "idle"
  /\ closed => producing = {}
  /\ server = "closing" => closing = "waiting"

IndexFits(m, index) ==
  \A k \in Keys : {i \in Present(m) : m[i].key = k}
                   = (IF index[k] = NoJob THEN {} ELSE {index[k]})

(* What a durable operation on job i does to the map: it creates the job   *)
(* under a free key, or ends it and forgets the oldest ended ones.         *)
SameJob(before, after, i) ==
  /\ before[i] # Absent
  /\ after[i] # Absent
  /\ after[i].status = before[i].status
  /\ after[i].key = before[i].key

Creates(before, i, after) ==
  /\ i \notin Present(before)
  /\ Present(after) = Present(before) \cup {i}
  /\ after[i].status = "pending"
  /\ after[i].key # NoKey => \A j \in Present(before) : before[j].key # after[i].key
  /\ \A j \in Present(before) : SameJob(before, after, j)

Ends(before, i, after) ==
  /\ i \in Present(before) \ TerminalIn(before)
  /\ i \in TerminalIn(after)
  /\ after[i].key = before[i].key
  /\ Present(after) \subseteq Present(before)
  /\ Present(before) \ Present(after) \subseteq TerminalIn(before)
  /\ Present(before) # Present(after) => Cardinality(TerminalIn(after)) = MaxRetained
  /\ Cardinality(TerminalIn(after)) <= MaxRetained
  /\ \A j \in Present(after) \ {i} : SameJob(before, after, j)

Txns == [by : Publishers, id : JobIds \cup {NoJob}, durable : BOOLEAN, undoing : BOOLEAN,
         jobs : Maps, keys : [Keys -> JobIds \cup {NoJob}]]

(* The operation in progress and what its rollback would restore.          *)
TxnInv ==
  /\ txn \in Txns
  /\ txn.by = Main => txn = NoTxn
  /\ txn.by # Main => txn.by \in producing /\ call[txn.by].pc # "idle" /\ txn.id \in drawn
  /\ txn.undoing => txn.durable /\ jobs = txn.jobs /\ keys = txn.keys
  /\ txn.durable => /\ Sound(txn.jobs, drawn) /\ Keeps(txn.jobs, promised)
                     /\ IndexFits(txn.jobs, txn.keys)
  /\ (txn.durable /\ ~txn.undoing) =>
       /\ revision < MaxRevision
       /\ txn.id \notin ctxDone
       /\ \/ Creates(txn.jobs, txn.id, jobs) /\ promised[txn.id] = "nothing"
          \/ Ends(txn.jobs, txn.id, jobs)

(* What the operations look at.                                            *)
MemoryInv ==
  /\ Sound(jobs, drawn)
  /\ Keeps(jobs, promised)
  /\ IndexFits(jobs, keys)
  /\ CanceledOnlyIfOver
  /\ \A i \in JobIds : promised[i] # "nothing" => i \in drawn

StoreIInv ==
  /\ IInv
  /\ StoreTypeOK
  /\ SavedInv
  /\ RevisionInv
  /\ CurrentInv
  /\ ControlInv
  /\ TxnInv
  /\ MemoryInv
  /\ NoneRefused

(* With one kind of crash, not both, every load that may come to pass      *)
(* finds what readers see now, but for what it will end as failed.         *)
Sources == IF "power" \in CrashKinds THEN Loadable ELSE {live}
Backs(m, v) ==
  \A i \in Present(v) :
    \/ Forgotten(m, i)
    \/ /\ m[i] # Absent
       /\ m[i].key = v[i].key
       /\ v[i].status \in Terminal =>
            \/ m[i].status = v[i].status
            \/ v[i].status = "failed" /\ m[i].status \notin Terminal
BackedInv == \A s \in Sources \cup Underway : Backs(s.data, View)

-------------------------------------------------------------------------------
USE StoreAssumption DEF StoreAssumption

(* Of the elements of a finite set ranked without ties, as many as fit     *)
(* have fewer than K above them.                                           *)
LEMMA Ranking ==
  ASSUME NEW S, IsFiniteSet(S), NEW f \in [S -> Nat],
         \A x, y \in S : f[x] = f[y] => x = y,
         NEW K \in Nat
  PROVE  LET Top == {x \in S : Cardinality({y \in S : f[y] > f[x]}) < K}
         IN  /\ Cardinality(S) <= K => Top = S
             /\ Cardinality(S) >= K => Cardinality(Top) = K
<1> DEFINE Above(x) == {y \in S : f[y] > f[x]}
           n == Cardinality(S)
           rank == [x \in S |-> Cardinality(Above(x))]
           Top == {x \in S : Cardinality(Above(x)) < K}
<1>1. n \in Nat
  BY FS_CardinalityType
<1>2. ASSUME NEW x \in S
      PROVE  /\ IsFiniteSet(Above(x))
             /\ Cardinality(Above(x)) \in 0..(n - 1)
  <2>1. Above(x) \in SUBSET S /\ x \notin Above(x)
    OBVIOUS
  <2>2. IsFiniteSet(Above(x)) /\ Cardinality(Above(x)) <= n /\ n # Cardinality(Above(x))
    BY <2>1, FS_Subset
  <2>3. Cardinality(Above(x)) \in Nat
    BY <2>2, FS_CardinalityType
  <2> QED
    BY <1>1, <2>2, <2>3
<1>3. ASSUME NEW x \in S, NEW y \in S, f[x] > f[y]
      PROVE  Cardinality(Above(x)) < Cardinality(Above(y))
  <2>1. Above(x) \in SUBSET Above(y) /\ x \in Above(y) /\ x \notin Above(x)
    BY <1>3
  <2>2. /\ Cardinality(Above(x)) <= Cardinality(Above(y))
        /\ Cardinality(Above(y)) # Cardinality(Above(x))
    BY <2>1, <1>2, FS_Subset
  <2> HIDE DEF Above
  <2> QED
    BY <2>2, <1>1, <1>2
<1>4. rank \in Injection(S, 0..(n - 1))
  <2> HIDE DEF Above, n
  <2>1. rank \in [S -> 0..(n - 1)]
    BY <1>2
  <2>2. ASSUME NEW x \in S, NEW y \in S, rank[x] = rank[y] PROVE x = y
    <3>1. ~(f[x] > f[y]) /\ ~(f[y] > f[x])
      BY <2>2, <1>1, <1>2, <1>3
    <3> QED
      BY <3>1
  <2> QED
    BY <2>1, <2>2 DEF Injection, IsInjective
<1>5. rank \in Surjection(S, 0..(n - 1))
  <2>1. IsFiniteSet(0..(n - 1)) /\ Cardinality(0..(n - 1)) = n
    BY <1>1, FS_Interval
  <2> HIDE DEF rank, n
  <2> QED
    BY <1>4, <2>1, FS_Injection DEF n
<1>6. ASSUME n <= K PROVE Top = S
  <2> HIDE DEF Above, n
  <2>1. \A x \in S : Cardinality(Above(x)) < K
    BY <1>1, <1>2, <1>6
  <2> QED
    BY <2>1
<1>7. ASSUME n >= K PROVE Cardinality(Top) = K
  <2> DEFINE g == [x \in Top |-> rank[x]]
  <2>1. IsFiniteSet(Top)
    BY FS_Subset
  <2>2. g \in Injection(Top, 0..(K - 1))
    <3>1. ASSUME NEW x \in Top PROVE rank[x] \in 0..(K - 1)
      <4> HIDE DEF Above, n
      <4> QED
        BY <1>1, <1>2
    <3> HIDE DEF rank
    <3>2. \A x, y \in Top : rank[x] = rank[y] => x = y
      BY <1>4 DEF Injection, IsInjective
    <3> HIDE DEF Top
    <3> QED
      BY <3>1, <3>2 DEF Injection, IsInjective
  <2>3. ASSUME NEW k \in 0..(K - 1) PROVE \E x \in Top : g[x] = k
    <3>1. k \in 0..(n - 1)
      BY <1>1, <1>7
    <3>2. PICK x \in S : rank[x] = k
      BY <1>5, <3>1 DEF Surjection
    <3>3. x \in Top
      BY <1>1, <3>2
    <3> QED
      BY <3>2, <3>3
  <2>4. ExistsBijection(Top, 0..(K - 1))
    <3> HIDE DEF g, Top
    <3> QED
      BY <2>2, <2>3 DEF ExistsBijection, Bijection, Surjection, Injection
  <2>5. Cardinality(0..(K - 1)) = K
    BY FS_Interval
  <2> QED
    BY <2>1, <2>4, <2>5, FS_Bijection
<1> QED
  BY <1>6, <1>7

-------------------------------------------------------------------------------
(* The entries of a map of jobs, and how many they are.                    *)
LEMMA MapEntries ==
  ASSUME NEW m \in Maps
  PROVE  /\ Present(m) \subseteq JobIds
         /\ TerminalIn(m) \subseteq Present(m)
         /\ \A i \in JobIds : i \notin Present(m) => m[i] = Absent
         /\ \A i \in Present(m) : /\ m[i] \in Job
                                  /\ m[i] # Absent
                                  /\ m[i].status \in Statuses
                                  /\ m[i].key \in Keys \cup {NoKey}
                                  /\ m[i].at \in Nat
                                  /\ m[i].at <= Cardinality(JobIds)
         /\ IsFiniteSet(Present(m)) /\ Cardinality(Present(m)) \in Nat
         /\ IsFiniteSet(TerminalIn(m)) /\ Cardinality(TerminalIn(m)) \in Nat
<1>0. Cardinality(JobIds) \in Nat
  BY FS_CardinalityType
<1>1. Present(m) \in SUBSET JobIds /\ TerminalIn(m) \in SUBSET JobIds
  BY DEF Present, TerminalIn
<1>2. /\ IsFiniteSet(Present(m)) /\ Cardinality(Present(m)) \in Nat
      /\ IsFiniteSet(TerminalIn(m)) /\ Cardinality(TerminalIn(m)) \in Nat
  BY <1>1, FS_Subset, FS_CardinalityType
<1>3. \A i \in Present(m) : m[i] \in Job /\ m[i] # Absent
  BY DEF Present, Maps
<1> QED
  BY <1>0, <1>1, <1>2, <1>3 DEF Present, TerminalIn, Job

(* Setting a job makes it the newest and leaves status and key of the      *)
(* others alone.                                                           *)
LEMMA TouchedMap ==
  ASSUME NEW m \in Maps, NEW i \in JobIds, NEW job \in Job,
         \A j, k \in Present(m) : j # k => m[j].at # m[k].at
  PROVE  LET t == Touched(m, i, job)
         IN  /\ t \in Maps
             /\ Present(t) = Present(m) \cup {i}
             /\ t[i].status = job.status /\ t[i].key = job.key
             /\ \A j \in Present(m) \ {i} : SameJob(m, t, j) /\ t[j].at < t[i].at
             /\ \A j, k \in Present(t) : j # k => t[j].at # t[k].at
<1> DEFINE P == Present(m) \ {i}
           n == Cardinality(P)
           Older(j) == {k \in Present(m) \ {i} : m[k].at <= m[j].at}
           Rank(j) == Cardinality(Older(j))
           t == Touched(m, i, job)
<1>1. /\ IsFiniteSet(P) /\ n \in Nat /\ Cardinality(JobIds) \in Nat
      /\ n + 1 <= Cardinality(JobIds)
  <2>1. P \in SUBSET JobIds /\ i \notin P
    BY MapEntries
  <2>2. /\ IsFiniteSet(P) /\ n <= Cardinality(JobIds) /\ Cardinality(JobIds) # n
        /\ Cardinality(JobIds) \in Nat
    BY <2>1, FS_Subset, FS_CardinalityType
  <2>3. n \in Nat
    BY <2>2, FS_CardinalityType
  <2> QED
    BY <2>2, <2>3
<1>2. ASSUME NEW j \in P PROVE Rank(j) \in 0..n
  <2>1. Older(j) \in SUBSET P
    OBVIOUS
  <2>2. IsFiniteSet(Older(j)) /\ Rank(j) <= n
    BY <2>1, <1>1, FS_Subset
  <2>3. Rank(j) \in Nat
    BY <2>2, FS_CardinalityType
  <2> HIDE DEF Rank, n
  <2> QED
    BY <1>1, <2>2, <2>3
<1>3. ASSUME NEW j \in P, NEW k \in P, m[j].at < m[k].at PROVE Rank(j) < Rank(k)
  <2>0. m[j].at \in Nat /\ m[k].at \in Nat /\ \A l \in P : m[l].at \in Nat
    BY MapEntries
  <2>1. Older(j) \in SUBSET Older(k) /\ k \in Older(k) /\ k \notin Older(j)
    BY <1>3, <2>0
  <2>2. IsFiniteSet(Older(k))
    <3>1. Older(k) \in SUBSET P
      OBVIOUS
    <3> QED
      BY <3>1, <1>1, FS_Subset
  <2>3. Rank(j) <= Rank(k) /\ Rank(k) # Rank(j)
    BY <2>1, <2>2, FS_Subset
  <2> HIDE DEF Rank
  <2> QED
    BY <2>3, <1>1, <1>2
<1>4. t = [j \in JobIds |-> IF j = i THEN [job EXCEPT !.at = n + 1]
                            ELSE IF m[j] = Absent THEN Absent
                            ELSE [m[j] EXCEPT !.at = Rank(j)]]
  BY DEF Touched
<1> HIDE DEF t, Rank, n
<1>5. ASSUME NEW j \in P
      PROVE  t[j] \in Job /\ t[j].status = m[j].status /\ t[j].key = m[j].key /\ t[j].at = Rank(j)
  <2>1. m[j] \in Job /\ m[j] # Absent /\ j \in JobIds /\ j # i
    BY MapEntries
  <2>2. t[j] = [m[j] EXCEPT !.at = Rank(j)]
    BY <1>4, <2>1
  <2>3. Rank(j) \in 0..Cardinality(JobIds)
    BY <1>1, <1>2
  <2> QED
    BY <2>1, <2>2, <2>3 DEF Job
<1>6. t[i] \in Job /\ t[i].status = job.status /\ t[i].key = job.key /\ t[i].at = n + 1
  <2>1. n + 1 \in 0..Cardinality(JobIds)
    BY <1>1
  <2>2. t[i] = [job EXCEPT !.at = n + 1]
    BY <1>4
  <2> QED
    BY <2>1, <2>2 DEF Job
<1>7. \A j \in JobIds \ (P \cup {i}) : t[j] = Absent
  BY <1>4, MapEntries
<1>8. t \in Maps /\ Present(t) = Present(m) \cup {i}
  <2>1. DOMAIN t = JobIds /\ t = [j \in JobIds |-> t[j]]
    BY <1>4
  <2>2. \A j \in JobIds : t[j] \in Job \cup {Absent}
    BY <1>5, <1>6, <1>7
  <2>3. \A j \in JobIds : t[j] # Absent <=> j \in P \cup {i}
    BY <1>5, <1>6, <1>7
  <2> QED
    BY <2>1, <2>2, <2>3, MapEntries DEF Maps, Present
<1>9. \A j \in Present(m) \ {i} : SameJob(m, t, j) /\ t[j].at < t[i].at
  BY <1>1, <1>2, <1>5, <1>6, MapEntries DEF SameJob
<1>10. ASSUME NEW j \in Present(t), NEW k \in Present(t), j # k PROVE t[j].at # t[k].at
  <2>1. CASE j = i \/ k = i
    BY <2>1, <1>1, <1>2, <1>5, <1>6, <1>8, <1>10
  <2>2. CASE j # i /\ k # i
    <3>1. j \in P /\ k \in P /\ m[j].at # m[k].at /\ m[j].at \in Nat /\ m[k].at \in Nat
      BY <2>2, <1>8, <1>10, MapEntries
    <3>2. Rank(j) < Rank(k) \/ Rank(k) < Rank(j)
      BY <3>1, <1>3
    <3> QED
      BY <3>1, <3>2, <1>1, <1>2, <1>5
  <2> QED
    BY <2>1, <2>2
<1> QED
  BY <1>6, <1>8, <1>9, <1>10 DEF t

(* Retention keeps the newest of the ended jobs, as many as it may.        *)
LEMMA PruneMap ==
  ASSUME NEW m \in Maps,
         \A j, k \in Present(m) : j # k => m[j].at # m[k].at
  PROVE  /\ Prune(m) \in Maps
         /\ Outdated(m) \subseteq TerminalIn(m)
         /\ Present(Prune(m)) = Present(m) \ Outdated(m)
         /\ \A i \in Present(Prune(m)) : Prune(m)[i] = m[i]
         /\ TerminalIn(Prune(m)) = TerminalIn(m) \ Outdated(m)
         /\ Cardinality(TerminalIn(m)) <= MaxRetained => Outdated(m) = {}
         /\ Cardinality(TerminalIn(m)) >= MaxRetained
              => Cardinality(TerminalIn(Prune(m))) = MaxRetained
         /\ Cardinality(TerminalIn(Prune(m))) <= MaxRetained
<1> DEFINE T == TerminalIn(m)
           at == [i \in T |-> m[i].at]
           Newer(i) == {j \in T : at[j] > at[i]}
           Top == {i \in T : Cardinality(Newer(i)) < MaxRetained}
<1>1. /\ Prune(m) \in Maps
      /\ Outdated(m) \subseteq TerminalIn(m)
      /\ Present(Prune(m)) = Present(m) \ Outdated(m)
      /\ \A i \in Present(Prune(m)) : Prune(m)[i] = m[i]
  BY MapEntries DEF Prune, Maps, Outdated, Present, TerminalIn
<1>2. TerminalIn(Prune(m)) = T \ Outdated(m)
  BY <1>1 DEF TerminalIn
<1>3. at \in [T -> Nat] /\ \A x, y \in T : at[x] = at[y] => x = y
  BY MapEntries
<1>4. IsFiniteSet(T) /\ Cardinality(T) \in Nat
  BY MapEntries
<1>5. /\ Cardinality(T) <= MaxRetained => Top = T
      /\ Cardinality(T) >= MaxRetained => Cardinality(Top) = MaxRetained
  <2> HIDE DEF at, T
  <2> QED
    BY <1>3, <1>4, Ranking
<1>6. ASSUME NEW i \in T
      PROVE  /\ Newer(i) = {j \in TerminalIn(m) : m[j].at > m[i].at}
             /\ Cardinality(Newer(i)) \in Nat
  <2>1. Newer(i) \in SUBSET T
    OBVIOUS
  <2>2. IsFiniteSet(Newer(i))
    BY <2>1, <1>4, FS_Subset
  <2> QED
    BY <2>2, FS_CardinalityType
<1>7. Top = T \ Outdated(m)
  <2>1. ASSUME NEW i \in T
        PROVE  i \in Outdated(m) <=> Cardinality(Newer(i)) >= MaxRetained
    BY <1>6 DEF Outdated
  <2> HIDE DEF Newer, T
  <2> QED
    BY <2>1, <1>6
<1> HIDE DEF Top
<1>8. /\ Cardinality(T) <= MaxRetained => Outdated(m) = {} /\ TerminalIn(Prune(m)) = T
      /\ Cardinality(T) >= MaxRetained => Cardinality(TerminalIn(Prune(m))) = MaxRetained
  <2>1. TerminalIn(Prune(m)) = Top
    BY <1>2, <1>7
  <2>2. Top = T => Outdated(m) = {}
    BY <1>1, <1>7
  <2> QED
    BY <1>5, <2>1, <2>2
<1>9. Cardinality(TerminalIn(Prune(m))) <= MaxRetained
  <2> HIDE DEF T
  <2> QED
    BY <1>4, <1>8
<1> QED
  BY <1>1, <1>2, <1>8, <1>9

-------------------------------------------------------------------------------
(* What stays of a map stays sound.                                        *)
LEMMA SoundPart ==
  ASSUME NEW created, NEW m, Sound(m, created), NEW r \in Maps,
         Present(r) \subseteq Present(m),
         \A i \in Present(r) : r[i].key = m[i].key,
         \A i, j \in Present(r) : i # j => r[i].at # r[j].at
  PROVE  Sound(r, created)
BY DEF Sound

(* Setting a job that stays active, or keeps its status, changes nothing   *)
(* that a client or the key index knows.                                   *)
LEMMA SetJob ==
  ASSUME NEW created, NEW told, NEW index, NEW m, Sound(m, created),
         IndexFits(m, index), NEW i \in Present(m), NEW job \in Job,
         job.key = m[i].key,
         job.status = m[i].status \/ {job.status, m[i].status} \cap Terminal = {}
  PROVE  LET t == Touched(m, i, job)
         IN  /\ Sound(t, created)
             /\ Present(t) = Present(m)
             /\ TerminalIn(t) = TerminalIn(m)
             /\ \A j \in Present(m) : /\ t[j].key = m[j].key
                                      /\ (t[j].status = m[j].status
                                            \/ {t[j].status, m[j].status} \cap Terminal = {})
             /\ IndexFits(t, index)
             /\ Keeps(m, told) => Keeps(t, told)
<1> DEFINE t == Touched(m, i, job)
<1>1. m \in Maps /\ i \in JobIds /\ Present(m) \subseteq JobIds
  BY MapEntries DEF Sound
<1>2. /\ t \in Maps
      /\ Present(t) = Present(m)
      /\ t[i].status = job.status /\ t[i].key = job.key
      /\ \A j \in Present(m) \ {i} : SameJob(m, t, j)
      /\ \A j, k \in Present(t) : j # k => t[j].at # t[k].at
  <2>1. \A j, k \in Present(m) : j # k => m[j].at # m[k].at
    BY DEF Sound
  <2>2. Present(t) = Present(m) \cup {i}
    BY <1>1, <2>1, TouchedMap
  <2> QED
    BY <1>1, <2>1, <2>2, TouchedMap
<1> HIDE DEF t
<1>3. \A j \in Present(m) : /\ t[j].key = m[j].key
                            /\ (t[j].status = m[j].status
                                  \/ {t[j].status, m[j].status} \cap Terminal = {})
  BY <1>2 DEF SameJob
<1>4. TerminalIn(t) = TerminalIn(m)
  <2>1. \A j \in Present(m) : t[j].status \in Terminal <=> m[j].status \in Terminal
    BY <1>3
  <2> QED
    BY <1>2, <2>1 DEF TerminalIn
<1>5. Sound(t, created)
  BY <1>2, <1>3, SoundPart
<1>6. IndexFits(t, index)
  BY <1>2, <1>3 DEF IndexFits
<1>7. ASSUME Keeps(m, told) PROVE Keeps(t, told)
  <2>1. \A j \in JobIds : j \notin Present(m) => t[j] = Absent /\ m[j] = Absent
    BY <1>1, <1>2, MapEntries
  <2>2. \A j \in JobIds : Forgotten(m, j) => Forgotten(t, j)
    BY <1>4, <2>1 DEF Forgotten, Present
  <2>3. \A j \in Present(m) : t[j] # Absent /\ (m[j].status \in Terminal => t[j].status = m[j].status)
    BY <1>2, <1>3 DEF Present
  <2> QED
    BY <1>7, <2>1, <2>2, <2>3 DEF Keeps, Present
<1> QED
  BY <1>2, <1>3, <1>4, <1>5, <1>6, <1>7 DEF t

(* A job is created under a free key.                                      *)
LEMMA CreatedJob ==
  ASSUME NEW created \in SUBSET JobIds, NEW told, NEW index \in [Keys -> JobIds \cup {NoJob}],
         NEW m, Sound(m, created), IndexFits(m, index), Keeps(m, told),
         NEW i \in JobIds \ created, told[i] = "nothing",
         NEW key \in Keys \cup {NoKey},
         key # NoKey => index[key] \notin Present(m)
  PROVE  LET t == Touched(m, i, [status |-> "pending", key |-> key, at |-> 0])
             newIndex == IF key = NoKey THEN index ELSE [index EXCEPT ![key] = i]
         IN  /\ Sound(t, created \cup {i})
             /\ Keeps(t, told)
             /\ Creates(m, i, t)
             /\ newIndex \in [Keys -> JobIds \cup {NoJob}]
             /\ IndexFits(t, newIndex)
<1> DEFINE job == [status |-> "pending", key |-> key, at |-> 0]
           t == Touched(m, i, job)
           newIndex == IF key = NoKey THEN index ELSE [index EXCEPT ![key] = i]
<1>0. m \in Maps /\ i \notin Present(m)
  BY DEF Sound
<1>1. job \in Job /\ job.status = "pending" /\ job.key = key
  <2>1. 0 \in 0..Cardinality(JobIds)
    BY FS_CardinalityType
  <2> QED
    BY <2>1 DEF Job, Statuses
<1> HIDE DEF job
<1>2. /\ t \in Maps
      /\ Present(t) = Present(m) \cup {i}
      /\ t[i].status = "pending" /\ t[i].key = key
      /\ \A j \in Present(m) : SameJob(m, t, j)
      /\ \A j, k \in Present(t) : j # k => t[j].at # t[k].at
  BY <1>0, <1>1, TouchedMap DEF Sound
<1> HIDE DEF t
<1>3. key # NoKey => \A j \in Present(m) : m[j].key # key
  <2> SUFFICES ASSUME key # NoKey, NEW j \in Present(m), m[j].key = key PROVE FALSE
    OBVIOUS
  <2>1. {l \in Present(m) : m[l].key = key} = (IF index[key] = NoJob THEN {} ELSE {index[key]})
    BY DEF IndexFits
  <2>2. index[key] \notin Present(m)
    OBVIOUS
  <2>3. j \in {l \in Present(m) : m[l].key = key}
    OBVIOUS
  <2> QED
    BY <2>1, <2>2, <2>3
<1>4. Creates(m, i, t)
  BY <1>0, <1>2, <1>3 DEF Creates
<1>5. Sound(t, created \cup {i})
  <2>1. Present(t) \subseteq created \cup {i}
    BY <1>2 DEF Sound
  <2>2. ASSUME NEW j \in Present(t), NEW k \in Present(t), j # k, t[j].key = t[k].key
        PROVE  t[j].key = NoKey
    <3>1. CASE j = i \/ k = i
      BY <1>2, <1>3, <2>2, <3>1 DEF SameJob
    <3>2. CASE j # i /\ k # i
      BY <1>2, <2>2, <3>2 DEF SameJob, Sound
    <3> QED
      BY <3>1, <3>2
  <2> QED
    BY <1>2, <2>1, <2>2 DEF Sound
<1>6. IndexFits(t, newIndex) /\ newIndex \in [Keys -> JobIds \cup {NoJob}]
  <2>1. newIndex \in [Keys -> JobIds \cup {NoJob}]
    OBVIOUS
  <2>2. ASSUME NEW k \in Keys
        PROVE  {j \in Present(t) : t[j].key = k}
                 = (IF newIndex[k] = NoJob THEN {} ELSE {newIndex[k]})
    <3>1. {j \in Present(m) : m[j].key = k} = (IF index[k] = NoJob THEN {} ELSE {index[k]})
      BY DEF IndexFits
    <3>2. CASE k = key
      <4>1. newIndex[k] = i /\ i # NoJob
        BY <3>2
      <4>2. \A j \in Present(t) : t[j].key = k <=> j = i
        BY <1>2, <1>3, <3>2 DEF SameJob
      <4> QED
        BY <1>2, <4>1, <4>2
    <3>3. CASE k # key
      <4>1. newIndex[k] = index[k]
        BY <3>3
      <4>2. {j \in Present(t) : t[j].key = k} = {j \in Present(m) : m[j].key = k}
        BY <1>2, <3>3 DEF SameJob
      <4> QED
        BY <3>1, <4>1, <4>2
    <3> QED
      BY <3>2, <3>3
  <2> QED
    BY <2>1, <2>2 DEF IndexFits
<1>7. Keeps(t, told)
  <2>1. TerminalIn(t) = TerminalIn(m)
    BY <1>0, <1>2 DEF TerminalIn, SameJob, Terminal
  <2>2. \A j \in JobIds \ {i} : j \in Present(m) \/ (m[j] = Absent /\ t[j] = Absent)
    BY <1>0, <1>2, MapEntries
  <2> QED
    BY <1>2, <2>1, <2>2 DEF Keeps, Forgotten, SameJob
<1> QED
  BY <1>4, <1>5, <1>6, <1>7 DEF t, job

(* A job ends, its status is the outcome, and retention applies.           *)
LEMMA EndedJob ==
  ASSUME NEW created, NEW told, NEW index \in [Keys -> JobIds \cup {NoJob}],
         NEW m, Sound(m, created), IndexFits(m, index), Keeps(m, told),
         NEW i \in Present(m) \ TerminalIn(m), NEW outcome \in Terminal
  PROVE  LET ended == Touched(m, i, [m[i] EXCEPT !.status = outcome])
             newIndex == PruneKeys(ended, index)
         IN  /\ Sound(Prune(ended), created)
             /\ Keeps(Prune(ended), told)
             /\ Ends(m, i, Prune(ended))
             /\ newIndex \in [Keys -> JobIds \cup {NoJob}]
             /\ IndexFits(Prune(ended), newIndex)
<1> DEFINE job == [m[i] EXCEPT !.status = outcome]
           e == Touched(m, i, job)
           r == Prune(e)
           newIndex == PruneKeys(e, index)
<1>0. /\ m \in Maps /\ i \in JobIds /\ Present(m) \subseteq JobIds
      /\ m[i] \in Job /\ m[i].status \notin Terminal
      /\ \A j \in JobIds : j \notin Present(m) => m[j] = Absent
  BY MapEntries DEF Sound, TerminalIn
<1>1. job \in Job /\ job.status = outcome /\ job.key = m[i].key
  BY <1>0 DEF Job, Statuses
<1> HIDE DEF job
<1>2. /\ e \in Maps
      /\ Present(e) = Present(m)
      /\ e[i].status = outcome /\ e[i].key = m[i].key
      /\ \A j \in Present(m) \ {i} : SameJob(m, e, j) /\ e[j].at < e[i].at
      /\ \A j, k \in Present(e) : j # k => e[j].at # e[k].at
  <2>1. \A j, k \in Present(m) : j # k => m[j].at # m[k].at
    BY DEF Sound
  <2>2. Present(e) = Present(m) \cup {i}
    BY <1>0, <1>1, <2>1, TouchedMap
  <2> QED
    BY <1>0, <1>1, <2>1, <2>2, TouchedMap
<1> HIDE DEF e
<1>3. /\ r \in Maps
      /\ Outdated(e) \subseteq TerminalIn(e)
      /\ Present(r) = Present(e) \ Outdated(e)
      /\ \A j \in Present(r) : r[j] = e[j]
      /\ TerminalIn(r) = TerminalIn(e) \ Outdated(e)
      /\ Cardinality(TerminalIn(e)) <= MaxRetained => Outdated(e) = {}
      /\ Cardinality(TerminalIn(e)) >= MaxRetained => Cardinality(TerminalIn(r)) = MaxRetained
      /\ Cardinality(TerminalIn(r)) <= MaxRetained
  BY <1>2, PruneMap
<1>4. TerminalIn(e) = TerminalIn(m) \cup {i} /\ i \in TerminalIn(e)
  <2>1. \A j \in Present(m) : j \in TerminalIn(e) <=> j \in TerminalIn(m) \cup {i}
    BY <1>2 DEF TerminalIn, SameJob
  <2> QED
    BY <1>2, <2>1 DEF TerminalIn
<1>5. i \notin Outdated(e)
  <2>1. {j \in TerminalIn(e) : e[j].at > e[i].at} = {}
    <3>1. \A j \in Present(m) : e[j].at \in Nat
      BY <1>2, MapEntries
    <3> QED
      BY <1>2, <1>4, <3>1 DEF TerminalIn
  <2>2. Cardinality({j \in TerminalIn(e) : e[j].at > e[i].at}) = 0
    BY <2>1, FS_EmptySet
  <2>3. ~(0 >= MaxRetained)
    OBVIOUS
  <2> QED
    BY <2>2, <2>3 DEF Outdated
<1>6. Outdated(e) \subseteq TerminalIn(m)
  BY <1>3, <1>4, <1>5
<1>7. Outdated(e) # {} => Cardinality(TerminalIn(r)) = MaxRetained
  <2>1. Cardinality(TerminalIn(e)) \in Nat
    BY <1>2, MapEntries
  <2> QED
    BY <1>3, <2>1
<1>8. i \in TerminalIn(r) /\ Present(r) = Present(m) \ Outdated(e)
  BY <1>2, <1>3, <1>4, <1>5
<1> HIDE DEF r
<1>9. \A j \in Present(r) \ {i} : SameJob(m, r, j)
  BY <1>2, <1>3, <1>8 DEF SameJob
<1>10. r[i].key = m[i].key /\ r[i].status = outcome
  BY <1>2, <1>3, <1>8 DEF TerminalIn
<1>11. Ends(m, i, r)
  BY <1>3, <1>6, <1>7, <1>8, <1>9, <1>10 DEF Ends
<1>12. Sound(r, created)
  <2>1. \A j \in Present(r) : r[j].key = m[j].key
    BY <1>9, <1>10 DEF SameJob
  <2>2. \A j, k \in Present(r) : j # k => r[j].at # r[k].at
    BY <1>2, <1>3
  <2> QED
    BY <1>3, <1>8, <2>1, <2>2, SoundPart
<1>13. newIndex \in [Keys -> JobIds \cup {NoJob}]
  BY DEF PruneKeys
<1>14. IndexFits(r, newIndex)
  <2> SUFFICES ASSUME NEW k \in Keys
               PROVE  {j \in Present(r) : r[j].key = k}
                        = (IF newIndex[k] = NoJob THEN {} ELSE {newIndex[k]})
    BY DEF IndexFits
  <2>1. {j \in Present(m) : m[j].key = k} = (IF index[k] = NoJob THEN {} ELSE {index[k]})
    BY DEF IndexFits
  <2>2. \A j \in Present(m) : e[j].key = m[j].key
    BY <1>2 DEF SameJob
  <2>3. \A j \in Present(r) : r[j].key = m[j].key
    BY <1>9, <1>10 DEF SameJob
  <2>4. Outdated(e) \subseteq Present(m)
    BY <1>6 DEF TerminalIn
  <2>5. CASE \E j \in Outdated(e) : e[j].key = k
    <3>1. newIndex[k] = NoJob
      BY <2>5 DEF PruneKeys
    <3>2. PICK j \in Outdated(e) : e[j].key = k
      BY <2>5
    <3>3. \A l \in Present(m) : m[l].key = k => l = j
      BY <2>1, <2>2, <2>4, <3>2
    <3> QED
      BY <1>8, <2>3, <3>1, <3>2, <3>3
  <2>6. CASE ~\E j \in Outdated(e) : e[j].key = k
    <3>1. newIndex[k] = index[k]
      BY <2>6 DEF PruneKeys
    <3>2. {j \in Present(r) : r[j].key = k} = {j \in Present(m) : m[j].key = k}
      BY <1>8, <2>2, <2>3, <2>6
    <3> QED
      BY <2>1, <3>1, <3>2
  <2> QED
    BY <2>5, <2>6
<1>15. Keeps(r, told)
  <2> SUFFICES ASSUME NEW j \in JobIds, told[j] # "nothing"
               PROVE  \/ Forgotten(r, j)
                      \/ r[j] # Absent /\ (told[j] \in Terminal => r[j].status = told[j])
    BY DEF Keeps
  <2>1. \/ Forgotten(m, j)
        \/ m[j] # Absent /\ (told[j] \in Terminal => m[j].status = told[j])
    BY DEF Keeps
  <2>2. CASE Forgotten(m, j)
    <3>1. r[j] = Absent
      BY <1>0, <1>8, <2>2 DEF Forgotten, Present
    <3>2. Cardinality(TerminalIn(e)) = MaxRetained + 1
      <4>1. IsFiniteSet(TerminalIn(m)) /\ i \notin TerminalIn(m)
        BY <1>0, MapEntries
      <4> QED
        BY <1>4, <2>2, <4>1, FS_AddElement DEF Forgotten
    <3>3. Cardinality(TerminalIn(r)) = MaxRetained
      BY <1>3, <3>2
    <3> QED
      BY <3>1, <3>3 DEF Forgotten
  <2>3. CASE j \in Present(r) /\ m[j] # Absent
    BY <1>0, <1>9, <1>10, <2>1, <2>3 DEF SameJob, Forgotten, Present
  <2>4. CASE j \notin Present(r) /\ m[j] # Absent
    <3>1. j \in Outdated(e)
      BY <1>8, <2>4 DEF Present
    <3>2. r[j] = Absent
      BY <2>4 DEF Present
    <3> QED
      BY <1>7, <3>1, <3>2 DEF Forgotten
  <2> QED
    BY <2>1, <2>2, <2>3, <2>4 DEF Forgotten
<1> QED
  BY <1>11, <1>12, <1>13, <1>14, <1>15 DEF r, e, job

(* What the next process restores from a map: every job ended, the oldest  *)
(* forgotten, under an exact index.                                        *)
LEMMA RestoredMap ==
  ASSUME NEW created, NEW told, NEW m, Sound(m, created)
  PROVE  LET r == Restored(m)
         IN  /\ Sound(r, created)
             /\ Present(r) \subseteq Present(m)
             /\ \A i \in Present(r) :
                  /\ r[i].key = m[i].key
                  /\ r[i].status = IF i \in TerminalIn(m) THEN m[i].status ELSE "failed"
             /\ TerminalIn(r) = Present(r)
             /\ Cardinality(TerminalIn(r)) <= MaxRetained
             /\ Present(r) # Present(m) => Cardinality(TerminalIn(r)) = MaxRetained
             /\ \A i \in JobIds : Forgotten(m, i) => Forgotten(r, i)
             /\ Keeps(m, told) => Keeps(r, told)
<1> DEFINE e == Interrupt(m)
           r == Prune(e)
<1>0. /\ m \in Maps /\ Present(m) \subseteq JobIds
      /\ \A j \in JobIds : j \notin Present(m) => m[j] = Absent
      /\ \A j \in Present(m) : m[j] \in Job /\ m[j] # Absent
  BY MapEntries DEF Sound
<1>1. /\ e \in Maps
      /\ Present(e) = Present(m)
      /\ \A j \in Present(m) :
           /\ e[j].key = m[j].key /\ e[j].at = m[j].at
           /\ e[j].status = IF j \in TerminalIn(m) THEN m[j].status ELSE "failed"
  <2>1. ASSUME NEW j \in Present(m)
        PROVE  /\ e[j] \in Job
               /\ e[j].key = m[j].key /\ e[j].at = m[j].at
               /\ e[j].status = IF j \in TerminalIn(m) THEN m[j].status ELSE "failed"
    <3>1. e[j] = IF j \in Present(m) \ TerminalIn(m)
                 THEN [m[j] EXCEPT !.status = "failed"] ELSE m[j]
      BY <1>0 DEF Interrupt
    <3> QED
      BY <1>0, <3>1 DEF Job, Statuses, Terminal
  <2>2. \A j \in JobIds \ Present(m) : e[j] = Absent
    BY <1>0 DEF Interrupt
  <2>3. e = [j \in JobIds |-> e[j]]
    BY DEF Interrupt
  <2> HIDE DEF e
  <2>4. \A j \in JobIds : e[j] # Absent <=> j \in Present(m)
    BY <1>0, <2>1, <2>2
  <2>5. e \in Maps
    BY <2>1, <2>2, <2>3 DEF Maps
  <2> QED
    BY <1>0, <2>1, <2>4, <2>5 DEF Present
<1> HIDE DEF e
<1>2. TerminalIn(e) = Present(e)
  BY <1>1 DEF TerminalIn, Terminal
<1>3. \A j, k \in Present(e) : j # k => e[j].at # e[k].at
  BY <1>1 DEF Sound
<1>4. /\ r \in Maps
      /\ Present(r) = Present(m) \ Outdated(e)
      /\ \A j \in Present(r) : r[j] = e[j]
      /\ TerminalIn(r) = Present(r)
      /\ Cardinality(TerminalIn(e)) <= MaxRetained => Outdated(e) = {}
      /\ Cardinality(TerminalIn(e)) >= MaxRetained => Cardinality(TerminalIn(r)) = MaxRetained
      /\ Cardinality(TerminalIn(r)) <= MaxRetained
  <2>1. /\ r \in Maps
        /\ Present(r) = Present(e) \ Outdated(e)
        /\ \A j \in Present(r) : r[j] = e[j]
        /\ TerminalIn(r) = TerminalIn(e) \ Outdated(e)
        /\ Cardinality(TerminalIn(e)) <= MaxRetained => Outdated(e) = {}
        /\ Cardinality(TerminalIn(e)) >= MaxRetained => Cardinality(TerminalIn(r)) = MaxRetained
        /\ Cardinality(TerminalIn(r)) <= MaxRetained
    BY <1>1, <1>3, PruneMap
  <2> QED
    BY <1>1, <1>2, <2>1
<1>5. Cardinality(TerminalIn(e)) \in Nat
  BY <1>1, MapEntries
<1> HIDE DEF r
<1>6. \A i \in Present(r) :
        /\ i \in Present(m)
        /\ r[i].key = m[i].key
        /\ r[i].status = IF i \in TerminalIn(m) THEN m[i].status ELSE "failed"
  BY <1>1, <1>4
<1>7. Sound(r, created)
  BY <1>3, <1>1, <1>4, <1>6, SoundPart
<1>8. Present(r) # Present(m) => Cardinality(TerminalIn(r)) = MaxRetained
  BY <1>4, <1>5
<1>9. ASSUME NEW i \in JobIds, Forgotten(m, i) PROVE Forgotten(r, i)
  <2>1. i \notin Present(r)
    BY <1>4, <1>9 DEF Forgotten, Present
  <2>2. TerminalIn(m) \in SUBSET TerminalIn(e) /\ IsFiniteSet(TerminalIn(e))
    BY <1>1, <1>2, MapEntries DEF TerminalIn
  <2>3. Cardinality(TerminalIn(e)) >= MaxRetained
    <3>1. Cardinality(TerminalIn(m)) <= Cardinality(TerminalIn(e))
      BY <2>2, FS_Subset
    <3> QED
      BY <1>5, <1>9, <3>1 DEF Forgotten
  <2> QED
    BY <1>4, <2>1, <2>3 DEF Forgotten, Present
<1>10. ASSUME Keeps(m, told) PROVE Keeps(r, told)
  <2> SUFFICES ASSUME NEW i \in JobIds, told[i] # "nothing"
               PROVE  \/ Forgotten(r, i)
                      \/ r[i] # Absent /\ (told[i] \in Terminal => r[i].status = told[i])
    BY DEF Keeps
  <2>1. CASE Forgotten(m, i)
    BY <1>9, <2>1
  <2>2. CASE i \in Present(r)
    BY <1>6, <2>2, <1>9, <1>10 DEF Keeps, Present, TerminalIn, Forgotten
  <2>3. CASE i \notin Present(r) /\ ~Forgotten(m, i)
    <3>1. i \in Present(m)
      BY <1>10, <2>3 DEF Keeps, Present
    <3> QED
      BY <1>8, <2>3, <3>1 DEF Forgotten, Present
  <2> QED
    BY <2>1, <2>2, <2>3
<1> QED
  BY <1>4, <1>6, <1>7, <1>8, <1>9, <1>10 DEF r, e, Restored

(* The index rebuilt for restored jobs is exact.                           *)
LEMMA RestoredIndex ==
  ASSUME NEW created, NEW m, Sound(m, created)
  PROVE  /\ IndexOf(m) \in [Keys -> JobIds \cup {NoJob}]
         /\ IndexFits(m, IndexOf(m))
<1>0. Present(m) \subseteq JobIds
  BY MapEntries DEF Sound
<1>1. ASSUME NEW k \in Keys
      PROVE  /\ IndexOf(m)[k] \in JobIds \cup {NoJob}
             /\ {i \in Present(m) : m[i].key = k}
                  = (IF IndexOf(m)[k] = NoJob THEN {} ELSE {IndexOf(m)[k]})
  <2> DEFINE found == CHOOSE i \in Present(m) : m[i].key = k
  <2>1. CASE \E i \in Present(m) : m[i].key = k
    <3>1. IndexOf(m)[k] = found
      BY <2>1 DEF IndexOf
    <3>2. found \in Present(m) /\ m[found].key = k
      BY <2>1
    <3> HIDE DEF found
    <3>3. \A i \in Present(m) : m[i].key = k => i = found
      BY <3>2 DEF Sound
    <3> QED
      BY <1>0, <3>1, <3>2, <3>3
  <2>2. CASE ~\E i \in Present(m) : m[i].key = k
    BY <2>2 DEF IndexOf
  <2> QED
    BY <2>1, <2>2
<1>2. IndexOf(m) = [k \in Keys |-> IndexOf(m)[k]]
  BY DEF IndexOf
<1> QED
  BY <1>1, <1>2 DEF IndexFits

-------------------------------------------------------------------------------
(* No operation in progress.                                               *)
LEMMA NoTxnFields ==
  /\ NoTxn \in Txns
  /\ NoTxn.by = Main /\ NoTxn.durable = FALSE /\ NoTxn.undoing = FALSE
BY DEF NoTxn, Txns, EmptyMap, NoIndex, Maps

(* The first process has no jobs.                                          *)
LEMMA EmptyMapSound ==
  /\ EmptyMap \in Maps
  /\ Present(EmptyMap) = {}
  /\ \A created : Sound(EmptyMap, created)
BY DEF EmptyMap, Maps, Present, Sound

(* The first process starts with no jobs and no file.                      *)
LEMMA InitStoreIInv == StoreInit => StoreIInv
<1> SUFFICES ASSUME StoreInit PROVE StoreIInv
  OBVIOUS
<1> USE DEF StoreInit
<1>1. IInv
  BY InitIInv DEF Init
<1>2. /\ live = NoSnapshot /\ durable = {NoSnapshot} /\ phase = "idle" /\ pending.rev = 0
      /\ revision = 0 /\ closing = "open" /\ ~closed
      /\ \A c \in Callers : call[c] = Idle
      /\ NoSnapshot.data = EmptyMap
  BY SnapshotTypes DEF FileInit, CoordinatorInit, NoSnapshot, EmptyMap
<1>3. \A c \in Callers : call[c].pc = "idle" /\ call[c].result = "ok"
  BY <1>2 DEF Idle
<1>4. Saved = {NoSnapshot}
  BY <1>2, <1>3 DEF Saved, Loadable, Underway
<1>5. StoreTypeOK
  <2>1. TypeOK /\ jobs \in Maps /\ keys \in [Keys -> JobIds \cup {NoJob}]
    BY <1>1, EmptyMapSound DEF IInv, NoIndex
  <2>2. storeClosed = (server \in {"draining", "closing", "closed", "abandoned"})
    <3>1. (server \in {"draining", "closing", "closed", "abandoned"}) = FALSE
      OBVIOUS
    <3> QED
      BY <3>1
  <2> QED
    BY <2>1, <2>2 DEF StoreTypeOK
<1>6. SavedInv /\ RevisionInv
  BY <1>2, <1>4, EmptyMapSound, SnapshotTypes DEF SavedInv, RevisionInv, Keeps
<1>7. CurrentInv /\ ControlInv
  BY <1>2, <1>3 DEF CurrentInv, ControlInv, Callers
<1>8. TxnInv
  BY NoTxnFields DEF TxnInv
<1>9. MemoryInv
  BY EmptyMapSound DEF MemoryInv, Keeps, IndexFits, NoIndex, CanceledOnlyIfOver
<1>10. NoneRefused
  BY <1>3 DEF NoneRefused, Callers
<1> QED
  BY <1>1, <1>5, <1>6, <1>7, <1>8, <1>9, <1>10 DEF StoreIInv

-------------------------------------------------------------------------------
(* Nothing is written that was not underway.                               *)
LEMMA WorkerSaves ==
  ASSUME IInv, Worker
  PROVE  /\ Saved' \subseteq Saved
         /\ ({live} \cup Underway)' \subseteq {live} \cup Underway
         /\ revision = 0 => live' = live
         /\ UNCHANGED <<revision, pending, call, closed, closing>>
<1>0. writtenRevision \in Nat /\ pending.rev \in Nat /\ pending.rev <= revision
  BY Revisions DEF IInv
<1>1. CASE TakeStop \/ TakeFlush \/ TimerFires
  <2>1. PICK during \in {"saving", "lastSave"}, after \in {"idle", "exited"} :
          WriteLatest(during, after)
    BY <1>1 DEF TakeStop, TakeFlush, TimerFires
  <2>2. UNCHANGED <<revision, pending, call, closed, closing>>
    BY <1>1 DEF TakeStop, TakeFlush, TimerFires
  <2>3. CASE pending.rev <= writtenRevision
    BY <2>1, <2>2, <2>3 DEF WriteLatest, jobFile, Saved, Loadable, Underway
  <2>4. CASE ~(pending.rev <= writtenRevision)
    <3>1. pending.rev # 0
      BY <1>0, <2>4
    <3>2. UNCHANGED <<live, durable>> /\ incoming' = pending /\ previous' = live
      BY <2>1, <2>4 DEF WriteLatest, BeginSave
    <3> QED
      BY <2>2, <3>1, <3>2 DEF Saved, Loadable, Underway
  <2> QED
    BY <2>3, <2>4
<1>2. CASE TakeWake
  BY <1>2 DEF TakeWake, jobFile, Saved, Loadable, Underway
<1>3. CASE ReplaceFile \/ RetractFile
  <2>1. /\ phase # "idle" /\ UNCHANGED <<incoming, previous>>
        /\ live' \in {incoming, previous} /\ durable' \subseteq durable \cup {incoming}
        /\ UNCHANGED <<revision, pending, call, closed, closing>>
    BY <1>3 DEF ReplaceFile, RetractFile, Replace, Retract, coordinatorVars, signalVars
  <2>2. revision # 0
    <3>1. incoming.rev > writtenRevision /\ incoming.rev <= pending.rev /\ incoming.rev \in Nat
      BY <2>1, SnapshotTypes DEF IInv, SaveInv, TypeOK, FileTypeOK
    <3> QED
      BY <1>0, <3>1
  <2> QED
    BY <2>1, <2>2 DEF Saved, Loadable, Underway
<1>4. CASE SaveSucceeds \/ SaveFails
  <2>1. /\ live' = live /\ durable' \in {durable, {live}} /\ phase' = "idle"
    BY <1>4 DEF SaveSucceeds, SaveFails, SaveOk, SaveErr, FailBeforeReplace,
                FailAfterReplace, SettleSave
  <2>2. UNCHANGED <<revision, pending, call, closed, closing>>
    BY <1>4 DEF SaveSucceeds, SaveFails, RecordAttempt
  <2> QED
    BY <2>1, <2>2 DEF Saved, Loadable, Underway
<1> QED
  BY <1>1, <1>2, <1>3, <1>4 DEF Worker

(* What a step of publish or flushTo does while the worker runs.           *)
LEMMA CallerMoves ==
  ASSUME TypeOK, NEW c \in Callers, CallerStep(c), ~closed, worker # "exited"
  PROVE  /\ call[c].pc # "idle"
         /\ call'[c].pc \notin {"idle", "publish"}
         /\ call'[c].kind = call[c].kind
         /\ call'[c].snapshot = call[c].snapshot
         /\ call'[c].result \in {call[c].result, "ok", "error"}
         /\ Others(c)
         /\ pending' = IF call[c].pc = "publish" /\ call[c].snapshot.rev > pending.rev
                       THEN call[c].snapshot ELSE pending
         /\ UNCHANGED <<jobFile, revision, closed, closing>>
<1>0. call \in [Callers -> Calls]
  BY DEF TypeOK
<1>1. CASE Publish(c)
  <2>1. StepTo(c, "wake") /\ "wake" \in CallStates
    BY <1>1 DEF Publish, CallStates
  <2>2. call'[c].result = call[c].result
    BY <1>0, <2>1 DEF StepTo, Calls
  <2> QED
    BY <1>0, <1>1, <2>1, <2>2, StepToCall DEF Publish, signalVars
<1>2. CASE SignalWake(c)
  <2>1. StepTo(c, "begin") \/ Answer(c, "ok")
    BY <1>2 DEF SignalWake
  <2>2. CASE StepTo(c, "begin")
    <3>1. call'[c].result = call[c].result /\ "begin" \in CallStates
      BY <1>0, <2>2 DEF StepTo, Calls, CallStates
    <3> QED
      BY <1>0, <1>2, <2>2, <3>1, StepToCall DEF SignalWake
  <2>3. CASE Answer(c, "ok")
    <3>1. "ok" \in Results
      BY DEF Results
    <3> QED
      BY <1>0, <1>2, <2>3, <3>1, AnswerCall DEF SignalWake
  <2> QED
    BY <2>1, <2>2, <2>3
<1>3. CASE BeginFlush(c) \/ CheckFlush(c)
  <2>1. /\ call[c].pc \in {"begin", "check", "wait"}
        /\ UNCHANGED <<jobFile, revision, pending, closed, closing>>
    BY <1>3 DEF BeginFlush, CheckFlush, Checking, OnlyCall, signalVars
  <2> DEFINE Goes == /\ call'[c].pc \in {"check", "signal"}
                     /\ call'[c].kind = call[c].kind
                     /\ call'[c].snapshot = call[c].snapshot
                     /\ call'[c].result = call[c].result
                     /\ Others(c)
  <2>2. (\E r \in {"ok", "error"} : Answer(c, r)) \/ Goes
    <3>1. ASSUME call' = [call EXCEPT ![c].pc = "check", ![c].initial = attemptCount]
          PROVE  Goes
      BY <1>0, <3>1 DEF Calls, Others
    <3>2. ASSUME call' = [call EXCEPT ![c].pc = "signal", ![c].seen = attemptCount]
          PROVE  Goes
      BY <1>0, <3>2 DEF Calls, Others
    <3> HIDE DEF Goes
    <3> QED
      BY <1>3, <3>1, <3>2 DEF BeginFlush, CheckFlush
  <2>3. CASE \E r \in {"ok", "error"} : Answer(c, r)
    <3>1. PICK r \in {"ok", "error"} : Answer(c, r)
      BY <2>3
    <3>2. r \in Results
      BY DEF Results
    <3> QED
      BY <1>0, <2>1, <3>1, <3>2, AnswerCall
  <2> QED
    BY <2>1, <2>2, <2>3
<1>4. CASE SignalFlush(c)
  <2>1. StepTo(c, "wait") /\ "wait" \in CallStates
    BY <1>4 DEF SignalFlush, CallStates
  <2>2. call'[c].result = call[c].result
    BY <1>0, <2>1 DEF StepTo, Calls
  <2> QED
    BY <1>0, <1>4, <2>1, <2>2, StepToCall DEF SignalFlush
<1> QED
  BY <1>1, <1>2, <1>3, <1>4 DEF CallerStep, SeeExit

-------------------------------------------------------------------------------
(* A step that only moves the coordinator keeps what the store knows.      *)
LEMMA StoreUnmoved ==
  ASSUME StoreIInv, IInv', UNCHANGED storeVars,
         UNCHANGED <<revision, closed, closing>>, Saved' \subseteq Saved,
         revision = 0 => live' = live
  PROVE  /\ StoreTypeOK' /\ SavedInv' /\ RevisionInv' /\ MemoryInv'
         /\ revision' = 0 => live'.data = jobs'
<1> USE DEF StoreIInv
<1>1. StoreTypeOK'
  BY DEF StoreTypeOK, storeVars, IInv
<1>2. SavedInv'
  BY DEF SavedInv, storeVars
<1>3. RevisionInv'
  BY DEF RevisionInv
<1>4. MemoryInv'
  BY DEF MemoryInv, CanceledOnlyIfOver, View, storeVars
<1>5. revision' = 0 => live'.data = jobs'
  BY DEF CurrentInv, storeVars
<1> QED
  BY <1>1, <1>2, <1>3, <1>4, <1>5

(* The steps of run() and of save().                                       *)
LEMMA WorkerStoreIInv ==
  ASSUME StoreIInv, Worker, UNCHANGED storeVars
  PROVE  StoreIInv'
<1>1. IInv'
  BY WorkerIInv DEF StoreIInv
<1>2. /\ Saved' \subseteq Saved
      /\ revision = 0 => live' = live
      /\ UNCHANGED <<revision, pending, call, closed, closing>>
  BY WorkerSaves DEF StoreIInv
<1>3. /\ StoreTypeOK' /\ SavedInv' /\ RevisionInv' /\ MemoryInv'
      /\ revision' = 0 => live'.data = jobs'
  BY <1>1, <1>2, StoreUnmoved
<1>4. CurrentInv'
  BY <1>2, <1>3 DEF StoreIInv, CurrentInv, Current, storeVars
<1>5. ControlInv'
  BY <1>2 DEF StoreIInv, ControlInv, storeVars
<1>6. TxnInv'
  BY <1>2 DEF StoreIInv, TxnInv, storeVars
<1>7. NoneRefused'
  BY <1>2 DEF StoreIInv, NoneRefused
<1> QED
  BY <1>1, <1>3, <1>4, <1>5, <1>6, <1>7 DEF StoreIInv

(* The operation inside publish or flushTo began before the coordinator    *)
(* was closed.                                                             *)
LEMMA InsideOpen ==
  ASSUME StoreIInv, NEW c \in Callers, call[c].pc # "idle"
  PROVE  /\ c = txn.by
         /\ ~closed /\ worker # "exited"
         /\ revision # 0 /\ call[c].snapshot = Current /\ Current \in Saved
<1>1. c = txn.by
  BY DEF StoreIInv, ControlInv
<1>2. ~closed
  <2>1. CASE txn.by = Main
    <3>1. server = "booting"
      BY <1>1, <2>1 DEF StoreIInv, ControlInv
    <3> QED
      BY <3>1 DEF StoreIInv, ControlInv
  <2>2. CASE txn.by # Main
    <3>1. txn.by \in producing
      BY <2>2 DEF StoreIInv, TxnInv
    <3> QED
      BY <3>1 DEF StoreIInv, ControlInv
  <2> QED
    BY <2>1, <2>2
<1>3. worker # "exited"
  BY <1>2 DEF StoreIInv, IInv, StopInv
<1>4. revision # 0 /\ call[c].snapshot = Current
  BY DEF StoreIInv, CurrentInv
<1>5. Current \in Saved
  BY <1>4 DEF Saved, Underway
<1> QED
  BY <1>1, <1>2, <1>3, <1>4, <1>5

(* The steps of publish and flushTo.                                       *)
LEMMA PersistStoreIInv ==
  ASSUME StoreIInv, NEW c \in Publishers, Persist(c)
  PROVE  StoreIInv'
<1>0. c \in Callers /\ CallerStep(c) /\ UNCHANGED storeVars /\ TypeOK
  BY DEF Persist, Callers, StoreIInv, IInv
<1>1. IInv'
  BY <1>0, CallerIInv DEF StoreIInv
<1>2. call[c].pc # "idle"
  BY <1>0 DEF CallerStep, Publish, SignalWake, BeginFlush, CheckFlush, Checking,
              SignalFlush, SeeExit
<1>3. /\ c = txn.by /\ ~closed /\ worker # "exited"
      /\ revision # 0 /\ call[c].snapshot = Current /\ Current \in Saved
  BY <1>0, <1>2, InsideOpen
<1>4. /\ call'[c].pc \notin {"idle", "publish"}
      /\ call'[c].kind = call[c].kind
      /\ call'[c].snapshot = call[c].snapshot
      /\ call'[c].result \in {call[c].result, "ok", "error"}
      /\ \A d \in Callers \ {c} : call'[d] = call[d]
      /\ pending' = IF call[c].pc = "publish" /\ call[c].snapshot.rev > pending.rev
                    THEN call[c].snapshot ELSE pending
      /\ UNCHANGED <<jobFile, revision, closed, closing>>
  BY <1>0, <1>3, CallerMoves DEF Others
<1>5. \A d \in Callers \ {c} : call[d].pc = "idle"
  BY <1>3 DEF StoreIInv, ControlInv
<1>6. Current' = Current
  BY <1>0, <1>4 DEF Current, storeVars
<1>7. pending' \in {Current, pending} /\ call'[c].snapshot = Current
  BY <1>3, <1>4
<1>8. Saved' \subseteq Saved
  <2>1. pending'.rev # 0 => pending' \in Saved
    BY <1>3, <1>7 DEF Saved, Underway
  <2>2. \A d \in Callers : call'[d].pc # "idle" => call'[d].snapshot = Current
    BY <1>4, <1>5, <1>7
  <2>3. UNCHANGED <<live, durable, incoming, previous, phase>>
    BY <1>4 DEF jobFile
  <2> QED
    BY <1>3, <2>1, <2>2, <2>3 DEF Saved, Loadable, Underway
<1>9. /\ StoreTypeOK' /\ SavedInv' /\ RevisionInv' /\ MemoryInv'
      /\ revision' = 0 => live'.data = jobs'
  BY <1>0, <1>1, <1>4, <1>8, StoreUnmoved DEF jobFile
<1>10. CurrentInv'
  <2>1. \A d \in Callers : call'[d].pc # "idle" => revision' # 0 /\ call'[d].snapshot = Current'
    BY <1>3, <1>4, <1>5, <1>6, <1>7
  <2>2. pending' = Current
    <3>1. CASE call[c].pc = "publish"
      <4>1. pending.rev \in Nat /\ revision \in Nat /\ pending.rev <= revision
        BY <1>0, Revisions
      <4>2. CASE pending.rev < revision
        BY <1>3, <1>4, <3>1, <4>1, <4>2 DEF Current
      <4>3. CASE pending.rev = revision
        <5>1. pending \in Saved /\ pending.rev = Current.rev /\ pending.rev # 0
          BY <1>3, <4>3 DEF Saved, Underway, Current
        <5>2. pending = Current
          BY <1>3, <5>1 DEF StoreIInv, RevisionInv
        <5> QED
          BY <1>7, <5>2
      <4> QED
        BY <4>1, <4>2, <4>3
    <3>2. CASE call[c].pc # "publish"
      <4>1. \A d \in Callers : call[d].pc # "publish"
        BY <1>5, <3>2
      <4>2. pending = Current
        BY <1>3, <4>1 DEF StoreIInv, CurrentInv
      <4> QED
        BY <1>7, <4>2
    <3> QED
      BY <3>1, <3>2
  <2> QED
    BY <1>6, <1>9, <2>1, <2>2 DEF CurrentInv
<1>11. ControlInv'
  <2>1. UNCHANGED <<server, txn, producing, closed, closing>>
    BY <1>0, <1>4 DEF storeVars
  <2>2. \A d \in Callers : /\ call'[d].kind = call[d].kind
                           /\ call'[d].pc = "idle" <=> call[d].pc = "idle"
    BY <1>2, <1>4
  <2>3. Main \in Callers
    BY DEF Callers
  <2> QED
    BY <2>1, <2>2, <2>3 DEF StoreIInv, ControlInv
<1>12. TxnInv'
  <2>1. \A d \in Callers : call'[d].pc = "idle" <=> call[d].pc = "idle"
    BY <1>2, <1>4
  <2>2. txn.by \in Callers
    BY DEF StoreIInv, TxnInv, Txns, Callers
  <2> QED
    BY <1>0, <1>4, <2>1, <2>2 DEF StoreIInv, TxnInv, storeVars
<1>13. NoneRefused'
  BY <1>4 DEF StoreIInv, NoneRefused, Callers
<1> QED
  BY <1>1, <1>9, <1>10, <1>11, <1>12, <1>13 DEF StoreIInv

-------------------------------------------------------------------------------
(* A step that moves neither the maps nor what is or may be saved.         *)
LEMMA DataUnmoved ==
  ASSUME StoreIInv, IInv',
         UNCHANGED <<jobFile, revision, pending, call, jobs, keys, ctxDone, drawn, txn, promised>>
  PROVE  SavedInv' /\ RevisionInv' /\ CurrentInv' /\ MemoryInv' /\ NoneRefused'
<1> USE DEF StoreIInv, jobFile
<1>1. Saved' = Saved /\ Current' = Current
  BY DEF Saved, Loadable, Underway, Current
<1>2. SavedInv' /\ RevisionInv'
  BY <1>1 DEF SavedInv, RevisionInv
<1>3. CurrentInv'
  BY <1>1 DEF CurrentInv
<1>4. MemoryInv' /\ NoneRefused'
  BY DEF MemoryInv, CanceledOnlyIfOver, View, NoneRefused
<1> QED
  BY <1>2, <1>3, <1>4

(* beginMutation, an operation that finds nothing to do, and the start of  *)
(* the shutdown.                                                           *)
LEMMA GateStoreIInv ==
  ASSUME StoreIInv, CloseStore \/ \E c \in Clients : Begin(c) \/ EarlyReturn(c)
  PROVE  StoreIInv'
<1>1. UNCHANGED <<vars, jobs, keys, ctxDone, drawn, txn, promised, crashes>>
  BY DEF Begin, EarlyReturn, CloseStore, lifecycleVars
<1>2. /\ IInv' /\ SavedInv' /\ RevisionInv' /\ CurrentInv' /\ MemoryInv' /\ NoneRefused'
      /\ UNCHANGED <<call, closed, closing, revision>>
  <2>1. IInv' /\ UNCHANGED <<jobFile, revision, pending, call, closed, closing>>
    BY <1>1, NextIInv DEF StoreIInv, vars, coordinatorVars, signalVars
  <2> QED
    BY <1>1, <2>1, DataUnmoved
<1>3. \/ /\ server = "up" /\ UNCHANGED <<server, storeClosed>>
         /\ \E c \in Clients : producing' = producing \cup {c}
      \/ /\ txn = NoTxn /\ UNCHANGED <<server, storeClosed>>
         /\ \E c \in Clients : c \in producing /\ producing' = producing \ {c}
      \/ /\ server = "up" /\ server' = "draining" /\ storeClosed' = TRUE
         /\ UNCHANGED producing
  BY DEF Begin, EarlyReturn, CloseStore, Locking, lifecycleVars
<1>4. StoreTypeOK'
  <2>1. storeClosed' = (server' \in {"draining", "closing", "closed", "abandoned"})
    <3>1. CASE UNCHANGED <<server, storeClosed>>
      BY <3>1 DEF StoreIInv, StoreTypeOK
    <3>2. CASE server' = "draining" /\ storeClosed' = TRUE
      <4>1. (server' \in {"draining", "closing", "closed", "abandoned"}) = TRUE
        BY <3>2
      <4> QED
        BY <3>2, <4>1
    <3> QED
      BY <1>3, <3>1, <3>2
  <2>2. server' \in {"booting", "up", "draining", "closing", "closed", "abandoned"}
    BY <1>3 DEF StoreIInv, StoreTypeOK
  <2>3. producing' \subseteq Clients /\ (txn # NoTxn => txn.by \in producing')
    BY <1>3 DEF StoreIInv, StoreTypeOK
  <2> QED
    BY <1>1, <1>2, <2>1, <2>2, <2>3 DEF StoreIInv, StoreTypeOK, IInv
<1>5. ControlInv'
  BY <1>1, <1>2, <1>3 DEF StoreIInv, ControlInv
<1>6. TxnInv'
  <2>1. txn.by # Main => txn.by \in producing'
    BY <1>3, NoTxnFields DEF StoreIInv, TxnInv
  <2> QED
    BY <1>1, <1>2, <2>1 DEF StoreIInv, TxnInv
<1> QED
  BY <1>2, <1>4, <1>5, <1>6 DEF StoreIInv

-------------------------------------------------------------------------------
(* While no operation holds mutationMu, no client is inside publish or     *)
(* flushTo.                                                                *)
LEMMA ClientsIdle ==
  ASSUME StoreIInv, txn = NoTxn, producing # {}
  PROVE  /\ \A c \in Callers : call[c].pc = "idle"
         /\ server # "booting" /\ ~closed
<1>1. server # "booting" /\ ~closed
  BY DEF StoreIInv, ControlInv
<1>2. \A c \in Callers : call[c].pc = "idle"
  BY <1>1, NoTxnFields DEF StoreIInv, ControlInv
<1> QED
  BY <1>1, <1>2

(* A snapshot of new maps: what was saved stays, and the new map is the    *)
(* only addition.                                                          *)
LEMMA SnapshotTaken ==
  ASSUME StoreIInv, NEW c \in Publishers, NEW kind \in {"publish", "publishAndFlush"},
         NEW newJobs \in Maps, Taken(c, newJobs, kind), jobs' = newJobs,
         \A d \in Callers \ {c} : call[d].pc = "idle",
         Sound(newJobs, drawn'), Keeps(newJobs, promised'),
         \A s \in Saved : Sound(s.data, drawn') /\ Keeps(s.data, promised')
  PROVE  /\ IInv' /\ SavedInv' /\ RevisionInv' /\ CurrentInv'
         /\ call'[c].pc = "publish" /\ call'[c].kind = kind /\ call'[c].result = "ok"
         /\ \A d \in Callers \ {c} : call'[d] = call[d]
<1> DEFINE s == [rev |-> revision + 1, data |-> newJobs]
           taken == [Idle EXCEPT !.pc = "publish", !.kind = kind, !.snapshot = s]
<1>1. IInv'
  BY TakenIInv DEF StoreIInv
<1>2. /\ revision' = revision + 1 /\ revision \in Nat
      /\ call \in [Callers -> Calls] /\ c \in Callers
      /\ UNCHANGED <<live, durable, incoming, previous, phase, pending>>
      /\ pending \in Snapshots /\ pending.rev \in Nat /\ pending.rev <= revision
  BY Revisions DEF Taken, StoreIInv, IInv, TypeOK, jobFile, Callers
<1>3. call' = [call EXCEPT ![c] = taken]
  BY DEF Taken
<1>4. taken.pc = "publish" /\ taken.kind = kind /\ taken.snapshot = s /\ taken.result = "ok"
  BY DEF Idle
<1>5. s = Current' /\ s.rev = revision + 1 /\ s.data = newJobs
  BY <1>2 DEF Current
<1> HIDE DEF s, taken
<1>6. call'[c] = taken /\ \A d \in Callers \ {c} : call'[d] = call[d]
  BY <1>2, <1>3
<1>7. \A t \in Saved' : t \in Saved \/ t = s
  BY <1>2, <1>4, <1>6 DEF Saved, Loadable, Underway
<1>8. SavedInv'
  BY <1>5, <1>7 DEF SavedInv
<1>9. \A t \in Saved : t \in Snapshots
  <2>1. \A d \in Callers : call[d].snapshot \in Snapshots
    BY Revisions DEF StoreIInv, IInv
  <2> QED
    BY <1>2, <2>1 DEF Saved, Loadable, Underway, StoreIInv, IInv, TypeOK, FileTypeOK
<1>10. RevisionInv'
  <2>1. \A t \in Saved : t.rev \in Nat /\ t.rev <= revision
    BY <1>9, SnapshotTypes DEF StoreIInv, RevisionInv
  <2>2. \A t \in Saved' : t.rev <= revision'
    BY <1>2, <1>5, <1>7, <2>1
  <2>3. ASSUME NEW t \in Saved', NEW u \in Saved', t.rev = u.rev, t.rev # 0 PROVE t = u
    <3>1. CASE t \in Saved /\ u \in Saved
      BY <2>3, <3>1 DEF StoreIInv, RevisionInv
    <3>2. CASE t = s \/ u = s
      BY <1>2, <1>5, <1>7, <2>1, <2>3, <3>2
    <3> QED
      BY <1>7, <3>1, <3>2
  <2> QED
    BY <2>2, <2>3 DEF RevisionInv
<1>11. CurrentInv'
  <2>1. revision' # 0
    BY <1>2
  <2>2. \A d \in Callers : call'[d].pc # "idle" => d = c
    BY <1>6
  <2> QED
    BY <1>2, <1>4, <1>5, <1>6, <2>1, <2>2 DEF CurrentInv
<1> QED
  BY <1>1, <1>4, <1>6, <1>8, <1>10, <1>11

(* The first critical section of an operation, whatever it does to the     *)
(* maps as long as they stay sound, the promises and the index are kept,   *)
(* and no job whose context is canceled comes back to life.                *)
LEMMA MutateStoreIInv ==
  ASSUME StoreIInv, NEW c \in Clients, NEW i \in JobIds, NEW newJobs, NEW newKeys,
         NEW kind \in {"publish", "publishAndFlush"},
         Mutate(c, i, newJobs, newKeys, kind),
         drawn \subseteq drawn', drawn' \subseteq JobIds, i \in drawn',
         Sound(newJobs, drawn'), Keeps(newJobs, promised),
         newKeys \in [Keys -> JobIds \cup {NoJob}], IndexFits(newJobs, newKeys),
         kind = "publish" => \A j \in ctxDone : newJobs[j] = Absent \/ newJobs[j].status \in Terminal,
         kind = "publishAndFlush" => /\ i \notin ctxDone
                                     /\ \/ Creates(jobs, i, newJobs) /\ promised[i] = "nothing"
                                        \/ Ends(jobs, i, newJobs)
  PROVE  StoreIInv'
<1> USE DEF StoreIInv
<1>0. /\ txn = NoTxn /\ c \in producing /\ c \in Publishers /\ c \in Callers /\ c # Main
      /\ newJobs \in Maps
  BY DEF Mutate, Locking, Clients, Callers, Sound
<1>1. /\ \A d \in Callers : call[d].pc = "idle"
      /\ server # "booting" /\ ~closed
  BY <1>0, ClientsIdle
<1>2. /\ revision \in Nat /\ revision + 1 < MaxRevision /\ MaxRevision \in Nat
      /\ revision' = revision + 1
      /\ jobs' = newJobs /\ keys' = newKeys
      /\ UNCHANGED <<ctxDone, producing, promised, server, storeClosed, crashes>>
      /\ UNCHANGED <<closed, closing>>
  <2>1. revision \in Nat /\ MaxRevision \in Nat
    BY Revisions, CoordinatorAssumption DEF IInv
  <2> HIDE DEF StoreIInv
  <2> QED
    BY <2>1 DEF Mutate, lifecycleVars, workerOnlyVars, signalVars
<1>3. Taken(c, newJobs, kind)
  <2>1. revision < MaxRevision /\ call[c].pc # "wake"
    BY <1>0, <1>1, <1>2
  <2> QED
    BY <2>1 DEF Taken, Mutate, workerOnlyVars
<1>4. txn' = [NoTxn EXCEPT !.by = c, !.id = i, !.durable = (kind = "publishAndFlush"),
                           !.jobs = IF kind = "publishAndFlush" THEN jobs ELSE EmptyMap,
                           !.keys = IF kind = "publishAndFlush" THEN keys ELSE NoIndex]
  BY DEF Mutate
<1>5. /\ txn' \in Txns /\ txn'.by = c /\ txn'.id = i /\ ~txn'.undoing
      /\ txn'.durable <=> kind = "publishAndFlush"
      /\ txn'.durable => txn'.jobs = jobs /\ txn'.keys = keys
  <2>1. NoTxn \in Txns /\ NoTxn.undoing = FALSE
    BY NoTxnFields
  <2>2. EmptyMap \in Maps /\ NoIndex \in [Keys -> JobIds \cup {NoJob}]
    BY EmptyMapSound DEF NoIndex
  <2>3. jobs \in Maps /\ keys \in [Keys -> JobIds \cup {NoJob}]
    BY DEF StoreTypeOK
  <2>4. CASE kind = "publish"
    <3>1. txn' = [NoTxn EXCEPT !.by = c, !.id = i, !.durable = FALSE,
                               !.jobs = EmptyMap, !.keys = NoIndex]
      BY <1>4, <2>4
    <3> HIDE DEF StoreIInv
    <3> QED
      BY <1>0, <2>1, <2>2, <2>4, <3>1 DEF Txns
  <2>5. CASE kind = "publishAndFlush"
    <3>1. txn' = [NoTxn EXCEPT !.by = c, !.id = i, !.durable = TRUE,
                               !.jobs = jobs, !.keys = keys]
      BY <1>4, <2>5
    <3> HIDE DEF StoreIInv
    <3> QED
      BY <1>0, <2>1, <2>3, <2>5, <3>1 DEF Txns
  <2> QED
    BY <2>4, <2>5
<1>6. \A s \in Saved : Sound(s.data, drawn') /\ Keeps(s.data, promised')
  <2>1. \A s \in Saved : Sound(s.data, drawn) /\ Keeps(s.data, promised)
    BY DEF SavedInv
  <2> QED
    BY <1>2, <2>1 DEF Sound
<1>7. /\ IInv' /\ SavedInv' /\ RevisionInv' /\ CurrentInv'
      /\ call'[c].pc = "publish" /\ call'[c].kind = kind /\ call'[c].result = "ok"
      /\ \A d \in Callers \ {c} : call'[d] = call[d]
  BY <1>0, <1>1, <1>2, <1>3, <1>6, SnapshotTaken
<1>8. StoreTypeOK'
  BY <1>0, <1>2, <1>5, <1>7 DEF StoreTypeOK, IInv
<1>9. ControlInv'
  <2>1. Main \in Callers
    BY DEF Callers
  <2> QED
    BY <1>0, <1>1, <1>2, <1>5, <1>7, <2>1 DEF ControlInv
<1>10. TxnInv'
  <2>1. txn'.durable => /\ Sound(jobs, drawn') /\ Keeps(jobs, promised')
                        /\ IndexFits(txn'.jobs, txn'.keys)
    BY <1>2, <1>5 DEF MemoryInv, Sound
  <2>2. revision' < MaxRevision
    BY <1>2
  <2> QED
    BY <1>0, <1>2, <1>5, <1>7, <2>1, <2>2 DEF TxnInv
<1>11. MemoryInv'
  <2>1. CanceledOnlyIfOver'
    <3>1. CASE kind = "publish"
      BY <1>2, <1>5, <3>1 DEF CanceledOnlyIfOver, View
    <3>2. CASE kind = "publishAndFlush"
      <4>1. View' = View
        BY <1>0, <1>5, <3>2, NoTxnFields DEF View
      <4> QED
        BY <1>2, <4>1 DEF MemoryInv, CanceledOnlyIfOver
    <3> QED
      BY <3>1, <3>2
  <2> QED
    BY <1>2, <2>1 DEF MemoryInv
<1>12. NoneRefused'
  BY <1>7 DEF NoneRefused, Callers
<1> QED
  BY <1>7, <1>8, <1>9, <1>10, <1>11, <1>12

(* The operations.                                                         *)
LEMMA OperationStoreIInv ==
  ASSUME StoreIInv, NEW c \in Clients, Operation(c)
  PROVE  StoreIInv'
<1>0. /\ Sound(jobs, drawn) /\ Keeps(jobs, promised) /\ IndexFits(jobs, keys)
      /\ keys \in [Keys -> JobIds \cup {NoJob}] /\ jobs \in Maps
      /\ ctxDone \subseteq drawn /\ drawn \in SUBSET JobIds
      /\ Present(jobs) \subseteq drawn
  BY DEF StoreIInv, StoreTypeOK, MemoryInv, Sound
<1>1. ASSUME txn = NoTxn
      PROVE  \A j \in ctxDone : jobs[j] = Absent \/ jobs[j].status \in Terminal
  BY <1>1, NoTxnFields DEF StoreIInv, MemoryInv, CanceledOnlyIfOver, View
<1>2. ASSUME NEW i \in JobIds, NEW key \in Keys \cup {NoKey}, CreateJob(c, i, key)
      PROVE  StoreIInv'
  <2> DEFINE newJobs == Touched(jobs, i, [status |-> "pending", key |-> key, at |-> 0])
             newKeys == IF key = NoKey THEN keys ELSE [keys EXCEPT ![key] = i]
  <2>1. /\ i \notin drawn /\ drawn' = drawn \cup {i}
        /\ key # NoKey => keys[key] \notin Present(jobs)
        /\ Mutate(c, i, newJobs, newKeys, "publishAndFlush")
    BY <1>2 DEF CreateJob
  <2>2. promised[i] = "nothing" /\ i \notin ctxDone
    BY <1>0, <2>1 DEF StoreIInv, MemoryInv
  <2>3. /\ Sound(newJobs, drawn') /\ Keeps(newJobs, promised) /\ Creates(jobs, i, newJobs)
        /\ newKeys \in [Keys -> JobIds \cup {NoJob}] /\ IndexFits(newJobs, newKeys)
    BY <1>0, <2>1, <2>2, CreatedJob
  <2> HIDE DEF newJobs, newKeys
  <2> QED
    BY <1>0, <2>1, <2>2, <2>3, MutateStoreIInv
<1>3. ASSUME NEW i \in Present(jobs), NEW job \in Job, job.key = jobs[i].key,
             job.status = jobs[i].status \/ {job.status, jobs[i].status} \cap Terminal = {},
             Mutate(c, i, Touched(jobs, i, job), keys, "publish"), UNCHANGED drawn
      PROVE  StoreIInv'
  <2> DEFINE newJobs == Touched(jobs, i, job)
  <2>1. /\ Sound(newJobs, drawn) /\ Keeps(newJobs, promised) /\ IndexFits(newJobs, keys)
        /\ Present(newJobs) = Present(jobs) /\ TerminalIn(newJobs) = TerminalIn(jobs)
    BY <1>0, <1>3, SetJob
  <2> HIDE DEF newJobs
  <2>2. txn = NoTxn
    BY <1>3 DEF Mutate, Locking
  <2>3. \A j \in ctxDone : newJobs[j] = Absent \/ newJobs[j].status \in Terminal
    BY <1>0, <1>1, <2>1, <2>2 DEF Present, TerminalIn
  <2>4. Mutate(c, i, newJobs, keys, "publish")
    BY <1>3 DEF newJobs
  <2> QED
    BY <1>0, <1>3, <2>1, <2>3, <2>4, MutateStoreIInv
<1>4. ASSUME NEW i \in JobIds, NEW status \in Statuses \ Terminal, SetStatus(c, i, status)
      PROVE  StoreIInv'
  <2> DEFINE job == [jobs[i] EXCEPT !.status = status]
  <2>1. i \in Present(jobs) /\ i \notin TerminalIn(jobs)
    BY <1>4 DEF SetStatus, Active
  <2>2. jobs[i] \in Job /\ jobs[i].status \notin Terminal
    BY <1>0, <2>1, MapEntries DEF TerminalIn
  <2>3. job \in Job /\ job.key = jobs[i].key /\ job.status = status
    BY <2>2 DEF Job
  <2>4. Mutate(c, i, Touched(jobs, i, job), keys, "publish") /\ UNCHANGED drawn
    BY <1>4 DEF SetStatus
  <2> HIDE DEF job
  <2>5. {job.status, jobs[i].status} \cap Terminal = {}
    BY <2>2, <2>3
  <2> QED
    BY <1>3, <2>1, <2>3, <2>4, <2>5
<1>5. ASSUME NEW i \in JobIds, NEW outcome \in Terminal, Finish(c, i, outcome)
      PROVE  StoreIInv'
  <2> DEFINE ended == Touched(jobs, i, [jobs[i] EXCEPT !.status = outcome])
             newJobs == Prune(ended)
             newKeys == PruneKeys(ended, keys)
  <2>1. /\ i \in Present(jobs) \ TerminalIn(jobs)
        /\ Mutate(c, i, newJobs, newKeys, "publishAndFlush") /\ UNCHANGED drawn
    BY <1>5 DEF Finish, Active
  <2>2. /\ Sound(newJobs, drawn) /\ Keeps(newJobs, promised) /\ Ends(jobs, i, newJobs)
        /\ newKeys \in [Keys -> JobIds \cup {NoJob}] /\ IndexFits(newJobs, newKeys)
    BY <1>0, <2>1, EndedJob
  <2> HIDE DEF newJobs, newKeys
  <2>3. i \in drawn
    BY <1>0, <2>1
  <2>4. i \notin ctxDone
    <3>1. txn = NoTxn
      BY <2>1 DEF Mutate, Locking
    <3> QED
      BY <1>1, <2>1, <3>1 DEF Present, TerminalIn
  <2> QED
    BY <1>0, <2>1, <2>2, <2>3, <2>4, MutateStoreIInv
<1>6. ASSUME NEW i \in JobIds, Annotate(c, i)
      PROVE  StoreIInv'
  <2>1. i \in Present(jobs) /\ jobs[i] \in Job
    BY <1>0, <1>6, MapEntries DEF Annotate
  <2>2. Mutate(c, i, Touched(jobs, i, jobs[i]), keys, "publish") /\ UNCHANGED drawn
    BY <1>6 DEF Annotate
  <2> QED
    BY <1>3, <2>1, <2>2
<1>7. CASE EarlyReturn(c)
  BY <1>7, GateStoreIInv
<1>8. ASSUME NEW i \in JobIds,
             \/ UpdateRunningIfActive(c, i) \/ CompleteJob(c, i)
             \/ FailJobIfNonTerminal(c, i) \/ CancelJob(c, i)
             \/ \E status \in Statuses : UpdateJob(c, i, status)
      PROVE  StoreIInv'
  <2>1. \/ \E status \in Statuses \ Terminal : SetStatus(c, i, status)
        \/ \E outcome \in Terminal : Finish(c, i, outcome)
    BY <1>8 DEF UpdateRunningIfActive, CompleteJob, FailJobIfNonTerminal, CancelJob,
                UpdateJob, Statuses, Terminal
  <2> QED
    BY <1>4, <1>5, <2>1
<1> QED
  BY <1>2, <1>6, <1>7, <1>8 DEF Operation

-------------------------------------------------------------------------------
(* The call of an operation or of the start is answered and done with.     *)
LEMMA AnswerTaken ==
  ASSUME StoreIInv, NEW c \in Publishers, call[c].pc = "returned",
         call' = [call EXCEPT ![c] = Idle], UNCHANGED <<workerOnlyVars, revision, jobs>>
  PROVE  /\ IInv' /\ RevisionInv' /\ CurrentInv' /\ NoneRefused'
         /\ Saved' \subseteq Saved
         /\ \A d \in Callers : call'[d].pc = "idle"
         /\ UNCHANGED <<closed, closing>>
<1>0. c \in Callers /\ call \in [Callers -> Calls]
  BY Revisions DEF StoreIInv, IInv, Callers
<1>1. IInv'
  <2>1. Return(c)
    BY DEF Return, OnlyCall, workerOnlyVars
  <2> QED
    BY <1>0, <2>1, CallerIInv DEF StoreIInv
<1>2. /\ UNCHANGED <<live, durable, incoming, previous, phase, pending, closed, closing>>
  BY DEF workerOnlyVars, jobFile, signalVars
<1>3. \A d \in Callers \ {c} : call[d].pc = "idle" /\ call'[d] = call[d]
  BY <1>0, InsideOpen
<1>4. call'[c] = Idle /\ Idle.pc = "idle" /\ Idle.result = "ok"
  BY <1>0 DEF Idle
<1>5. Saved' \subseteq Saved /\ Current' = Current
  BY <1>2, <1>3, <1>4 DEF Saved, Loadable, Underway, Current
<1>6. RevisionInv'
  BY <1>5 DEF StoreIInv, RevisionInv
<1>7. CurrentInv'
  <2>1. \A d \in Callers : call[d].pc # "publish"
    BY <1>3
  <2> QED
    BY <1>2, <1>3, <1>4, <1>5, <2>1 DEF StoreIInv, CurrentInv
<1>8. NoneRefused'
  BY <1>3, <1>4 DEF StoreIInv, NoneRefused, Callers
<1> QED
  BY <1>1, <1>2, <1>3, <1>4, <1>5, <1>6, <1>7, <1>8

(* The end of an operation, whatever the client is told, as long as the    *)
(* promise is kept by all that is or may be saved.                         *)
LEMMA EndStoreIInv ==
  ASSUME StoreIInv, NEW c \in Clients, Returned(c), EndMutation(c),
         ctxDone' \subseteq drawn,
         \A j \in ctxDone' : jobs[j] = Absent \/ jobs[j].status \in Terminal,
         promised' \in [JobIds -> {"nothing", "created"} \cup Terminal],
         \A j \in JobIds : promised'[j] # "nothing" => j \in drawn,
         Keeps(jobs, promised'),
         \A s \in Saved : Keeps(s.data, promised')
  PROVE  StoreIInv'
<1>0. c \in Publishers /\ c # Main /\ call[c].pc = "returned" /\ txn.by = c
  BY DEF Returned, Clients
<1>1. /\ IInv' /\ RevisionInv' /\ CurrentInv' /\ NoneRefused'
      /\ Saved' \subseteq Saved
      /\ \A d \in Callers : call'[d].pc = "idle"
      /\ UNCHANGED <<closed, closing>>
  BY <1>0, AnswerTaken DEF EndMutation
<1>2. /\ txn' = NoTxn /\ producing' = producing \ {c}
      /\ UNCHANGED <<revision, server, storeClosed, crashes, jobs, keys, drawn>>
  BY DEF EndMutation, lifecycleVars
<1>3. StoreTypeOK'
  BY <1>1, <1>2 DEF StoreIInv, StoreTypeOK, IInv
<1>4. SavedInv'
  BY <1>1, <1>2 DEF StoreIInv, SavedInv
<1>5. ControlInv'
  <2>1. server # "booting" /\ Main \in Callers
    BY <1>0, NoTxnFields DEF StoreIInv, ControlInv, Callers
  <2> QED
    BY <1>1, <1>2, <2>1 DEF StoreIInv, ControlInv
<1>6. TxnInv'
  BY <1>2, NoTxnFields DEF TxnInv
<1>7. MemoryInv'
  BY <1>2, NoTxnFields DEF StoreIInv, MemoryInv, CanceledOnlyIfOver, View
<1> QED
  BY <1>1, <1>3, <1>4, <1>5, <1>6, <1>7 DEF StoreIInv

(* A durable operation is answered ok: nothing but its outcome is, or may  *)
(* still be, in the file.                                                  *)
LEMMA OkSettled ==
  ASSUME StoreIInv, NEW c \in Callers, call[c].pc = "returned",
         call[c].kind # "publish", call[c].result = "ok"
  PROVE  /\ \A s \in Saved : s = Current
         /\ phase = "idle" /\ pending = Current
<1>0. /\ revision # 0 /\ call[c].snapshot = Current /\ Current \in Saved
      /\ Current.rev = revision
  BY InsideOpen DEF Current
<1>1. /\ revision \in Nat /\ writtenRevision \in Nat /\ pending.rev \in Nat
      /\ writtenRevision <= pending.rev /\ pending.rev <= revision
      /\ revision <= writtenRevision
  <2>1. call[c].snapshot.rev <= writtenRevision
    BY DEF StoreIInv, IInv, CallInv
  <2>2. /\ revision \in Nat /\ writtenRevision \in Nat /\ pending.rev \in Nat
        /\ attemptRevision \in Nat /\ attemptRevision <= pending.rev
        /\ writtenRevision <= attemptRevision /\ pending.rev <= revision
    BY Revisions DEF StoreIInv, IInv
  <2> QED
    BY <1>0, <2>1, <2>2
<1>2. phase = "idle"
  <2> SUFFICES ASSUME phase # "idle" PROVE FALSE
    OBVIOUS
  <2>1. incoming.rev \in Nat /\ incoming.rev > writtenRevision /\ incoming.rev <= pending.rev
    BY SnapshotTypes DEF StoreIInv, IInv, SaveInv, TypeOK, FileTypeOK
  <2> QED
    BY <1>1, <2>1
<1>3. ASSUME NEW s \in Saved, s.rev = revision PROVE s = Current
  BY <1>0, <1>3 DEF StoreIInv, RevisionInv
<1>4. pending = Current
  <2>1. pending.rev = revision
    BY <1>1
  <2>2. pending \in Saved
    BY <1>0, <2>1 DEF Saved, Underway
  <2> QED
    BY <1>3, <2>1, <2>2
<1>5. ASSUME NEW s \in Loadable PROVE s = Current
  <2>1. s.rev >= writtenRevision /\ s.rev \in Nat
    BY SnapshotTypes DEF Loadable, StoreIInv, IInv, SaveInv, TypeOK, FileTypeOK
  <2>2. s \in Saved /\ s.rev <= revision
    BY DEF Saved, StoreIInv, RevisionInv
  <2> QED
    BY <1>1, <1>3, <2>1, <2>2
<1>6. \A d \in Callers : call[d].pc # "idle" => call[d].snapshot = Current
  BY InsideOpen
<1> QED
  BY <1>2, <1>4, <1>5, <1>6 DEF Saved, Underway

(* A job whose context is canceled is over before and after any durable    *)
(* operation on another job.                                               *)
LEMMA OverStays ==
  ASSUME StoreIInv, txn.durable, ~txn.undoing
  PROVE  /\ \A j \in ctxDone : jobs[j] = Absent \/ jobs[j].status \in Terminal
         /\ txn.id \in JobIds /\ txn.id \in Present(jobs)
         /\ jobs \in Maps /\ txn.jobs \in Maps
<1>0. /\ \/ Creates(txn.jobs, txn.id, jobs) /\ promised[txn.id] = "nothing"
         \/ Ends(txn.jobs, txn.id, jobs)
      /\ txn.id \notin ctxDone /\ Sound(txn.jobs, drawn)
  BY DEF StoreIInv, TxnInv
<1>1. jobs \in Maps /\ txn.jobs \in Maps /\ ctxDone \subseteq JobIds
  BY <1>0 DEF StoreIInv, StoreTypeOK, Sound
<1>2. txn.id \in JobIds /\ txn.id \in Present(jobs)
  BY <1>0, <1>1, MapEntries DEF Creates, Ends, TerminalIn
<1>3. ASSUME NEW j \in ctxDone PROVE jobs[j] = Absent \/ jobs[j].status \in Terminal
  <2>1. j # txn.id /\ j \in JobIds
    BY <1>0, <1>1
  <2>2. txn.jobs[j] = Absent \/ txn.jobs[j].status \in Terminal
    BY DEF StoreIInv, MemoryInv, CanceledOnlyIfOver, View
  <2>3. CASE j \notin Present(jobs)
    BY <1>1, <2>1, <2>3, MapEntries
  <2>4. CASE j \in Present(jobs)
    <3>1. SameJob(txn.jobs, jobs, j)
      BY <1>0, <2>1, <2>4 DEF Creates, Ends
    <3> QED
      BY <2>2, <3>1 DEF SameJob
  <2> QED
    BY <2>3, <2>4
<1> QED
  BY <1>1, <1>2, <1>3

(* The ends of the operations.                                             *)
LEMMA CommitStoreIInv ==
  ASSUME StoreIInv, NEW c \in Clients, Commit(c)
  PROVE  StoreIInv'
<1>0. /\ txn.by = c /\ c \in Callers /\ c # Main /\ call[c].pc = "returned"
      /\ call[c].result = "ok" /\ txn.durable /\ ~txn.undoing /\ EndMutation(c)
      /\ txn.id \in drawn
  BY DEF Commit, Returned, Clients, Callers, StoreIInv, TxnInv
<1>1. call[c].kind # "publish"
  BY <1>0 DEF StoreIInv, ControlInv
<1>2. \A s \in Saved : s = Current
  BY <1>0, <1>1, OkSettled
<1>3. /\ \/ Creates(txn.jobs, txn.id, jobs) /\ promised[txn.id] = "nothing"
         \/ Ends(txn.jobs, txn.id, jobs)
      /\ Sound(txn.jobs, drawn) /\ Keeps(jobs, promised)
      /\ promised \in [JobIds -> {"nothing", "created"} \cup Terminal]
      /\ ctxDone \subseteq drawn
  BY <1>0 DEF StoreIInv, TxnInv, MemoryInv, StoreTypeOK
<1>4. /\ \A j \in ctxDone : jobs[j] = Absent \/ jobs[j].status \in Terminal
      /\ txn.id \in JobIds /\ txn.id \in Present(jobs)
      /\ jobs \in Maps /\ txn.jobs \in Maps
  BY <1>0, OverStays
<1> DEFINE told == IF promised[txn.id] = "nothing" THEN "created" ELSE jobs[txn.id].status
           gone == Present(txn.jobs) \ Present(jobs)
<1>5. /\ promised' = [promised EXCEPT ![txn.id] = told]
      /\ ctxDone' = ctxDone \cup {i \in {txn.id} : jobs[i].status = "canceled"} \cup gone
  BY DEF Commit
<1>6. told \in {"created"} \cup Terminal /\ (told \in Terminal => told = jobs[txn.id].status)
  <2>1. CASE promised[txn.id] = "nothing"
    BY <2>1 DEF Terminal
  <2>2. CASE promised[txn.id] # "nothing"
    BY <1>3, <2>2 DEF Ends, TerminalIn
  <2> QED
    BY <2>1, <2>2
<1> HIDE DEF told
<1>7. /\ promised' \in [JobIds -> {"nothing", "created"} \cup Terminal]
      /\ \A j \in JobIds \ {txn.id} : promised'[j] = promised[j]
      /\ promised'[txn.id] = told
  BY <1>3, <1>4, <1>5, <1>6
<1>8. \A j \in JobIds : promised'[j] # "nothing" => j \in drawn
  BY <1>0, <1>7 DEF StoreIInv, MemoryInv
<1>9. Keeps(jobs, promised')
  <2>1. jobs[txn.id] # Absent
    BY <1>4 DEF Present
  <2> QED
    BY <1>3, <1>6, <1>7, <2>1 DEF Keeps
<1>10. \A s \in Saved : Keeps(s.data, promised')
  BY <1>2, <1>9 DEF Current
<1>11. ctxDone' \subseteq drawn
  BY <1>0, <1>3, <1>5 DEF Sound
<1>12. \A j \in ctxDone' : jobs[j] = Absent \/ jobs[j].status \in Terminal
  <2>1. \A j \in gone : jobs[j] = Absent
    BY <1>4, MapEntries
  <2> QED
    BY <1>4, <1>5, <2>1 DEF Terminal
<1> QED
  BY <1>0, <1>7, <1>8, <1>9, <1>10, <1>11, <1>12, EndStoreIInv DEF Commit

(* A failed operation, or one that does not wait, is over.                 *)
LEMMA AbortStoreIInv ==
  ASSUME StoreIInv, NEW c \in Clients, Abort(c) \/ Release(c)
  PROVE  StoreIInv'
<1>1. Returned(c) /\ EndMutation(c) /\ UNCHANGED <<ctxDone, promised>>
      /\ (txn.undoing \/ ~txn.durable)
  BY DEF Abort, Release
<1>2. View = jobs
  BY <1>1 DEF View, StoreIInv, TxnInv
<1>3. ctxDone' \subseteq drawn /\ \A j \in ctxDone' : jobs[j] = Absent \/ jobs[j].status \in Terminal
  BY <1>1, <1>2 DEF StoreIInv, StoreTypeOK, MemoryInv, CanceledOnlyIfOver
<1>4. /\ promised' \in [JobIds -> {"nothing", "created"} \cup Terminal]
      /\ \A j \in JobIds : promised'[j] # "nothing" => j \in drawn
      /\ Keeps(jobs, promised') /\ \A s \in Saved : Keeps(s.data, promised')
  BY <1>1 DEF StoreIInv, StoreTypeOK, MemoryInv, SavedInv
<1> QED
  BY <1>1, <1>3, <1>4, EndStoreIInv

(* The maps go back to what they were, and that is written too.            *)
LEMMA RollbackStoreIInv ==
  ASSUME StoreIInv, NEW c \in Clients, Rollback(c)
  PROVE  StoreIInv'
<1>0. /\ txn.by = c /\ c \in Publishers /\ c \in Callers /\ c # Main /\ call[c].pc = "returned"
      /\ txn.durable /\ ~txn.undoing
  BY DEF Rollback, Returned, Clients, Callers
<1>1. /\ txn \in Txns /\ c \in producing /\ txn.id \in drawn
      /\ Sound(txn.jobs, drawn) /\ Keeps(txn.jobs, promised) /\ IndexFits(txn.jobs, txn.keys)
      /\ revision < MaxRevision
  BY <1>0 DEF StoreIInv, TxnInv
<1>2. txn.jobs \in Maps /\ txn.keys \in [Keys -> JobIds \cup {NoJob}]
  BY <1>1 DEF Txns
<1>3. /\ jobs' = txn.jobs /\ keys' = txn.keys
      /\ ctxDone' = ctxDone \cup (Present(jobs) \ Present(txn.jobs))
      /\ txn' = [txn EXCEPT !.undoing = TRUE]
      /\ UNCHANGED <<server, storeClosed, crashes, drawn, producing, promised, closed, closing>>
  BY DEF Rollback, lifecycleVars, workerOnlyVars, signalVars
<1>4. Taken(c, txn.jobs, "publishAndFlush")
  BY <1>0, <1>1 DEF Rollback, Taken, workerOnlyVars
<1>5. \A d \in Callers \ {c} : call[d].pc = "idle"
  BY <1>0, InsideOpen
<1>6. \A s \in Saved : Sound(s.data, drawn') /\ Keeps(s.data, promised')
  BY <1>3 DEF StoreIInv, SavedInv
<1>7. /\ IInv' /\ SavedInv' /\ RevisionInv' /\ CurrentInv'
      /\ call'[c].pc = "publish" /\ call'[c].kind = "publishAndFlush" /\ call'[c].result = "ok"
      /\ \A d \in Callers \ {c} : call'[d] = call[d]
  BY <1>0, <1>1, <1>2, <1>3, <1>4, <1>5, <1>6, SnapshotTaken
<1>8. /\ txn' \in Txns /\ txn'.by = c /\ txn'.id = txn.id /\ txn'.durable = txn.durable
      /\ txn'.undoing /\ txn'.jobs = txn.jobs /\ txn'.keys = txn.keys
  BY <1>0, <1>1, <1>3 DEF Txns
<1>9. ctxDone' \subseteq drawn /\ drawn \subseteq JobIds /\ jobs \in Maps
  BY <1>3 DEF StoreIInv, StoreTypeOK, MemoryInv, Sound
<1>10. StoreTypeOK'
  BY <1>0, <1>1, <1>2, <1>3, <1>7, <1>8, <1>9 DEF StoreIInv, StoreTypeOK, IInv
<1>11. ControlInv'
  <2>1. server # "booting" /\ Main \in Callers
    BY <1>0, NoTxnFields DEF StoreIInv, ControlInv, Callers
  <2> QED
    BY <1>0, <1>3, <1>5, <1>7, <1>8, <2>1 DEF StoreIInv, ControlInv
<1>12. TxnInv'
  BY <1>0, <1>1, <1>3, <1>7, <1>8 DEF TxnInv
<1>13. MemoryInv'
  <2>1. View' = View /\ View = txn.jobs
    BY <1>0, <1>8 DEF View
  <2>2. \A j \in Present(jobs) \ Present(txn.jobs) : txn.jobs[j] = Absent
    BY <1>2, <1>9, MapEntries
  <2>3. CanceledOnlyIfOver'
    BY <1>3, <2>1, <2>2 DEF StoreIInv, MemoryInv, CanceledOnlyIfOver
  <2> QED
    BY <1>1, <1>3, <2>3 DEF StoreIInv, MemoryInv
<1>14. NoneRefused'
  BY <1>7 DEF StoreIInv, NoneRefused, Callers
<1> QED
  BY <1>7, <1>10, <1>11, <1>12, <1>13, <1>14 DEF StoreIInv

-------------------------------------------------------------------------------
(* The shutdown.                                                           *)
LEMMA ShutdownStoreIInv ==
  ASSUME StoreIInv, CloseCoordinator \/ CloseEnds \/ CloseExpires
  PROVE  StoreIInv'
<1>1. UNCHANGED <<jobs, keys, ctxDone, drawn, storeClosed, producing, txn, promised, crashes>>
  BY DEF CloseCoordinator, CloseEnds, CloseExpires
<1>2. UNCHANGED <<jobFile, revision, pending, call>>
  BY DEF CloseCoordinator, CloseEnds, CloseExpires, StopWorker, CloseReturns, CloseTimesOut,
         vars, coordinatorVars
<1>3. IInv'
  <2>1. CASE CloseCoordinator \/ CloseEnds \/ UNCHANGED vars
    <3>1. [Next]_vars
      BY <2>1 DEF CloseCoordinator, CloseEnds, Next
    <3> QED
      BY <3>1, NextIInv DEF StoreIInv
  <2>2. CASE CloseTimesOut
    <3>1. /\ UNCHANGED <<jobFile, revision, pending, attemptVars, signalVars, call>>
          /\ closing' = "timeout"
      BY <2>2 DEF CloseTimesOut
    <3>2. TypeOK'
      BY <3>1 DEF StoreIInv, IInv, TypeOK, FileTypeOK, jobFile, attemptVars, signalVars, CloseStates
    <3>3. SaveInv'
      BY <3>1 DEF StoreIInv, IInv, SaveInv, jobFile, attemptVars, signalVars
    <3>4. CallInv' /\ StopInv' /\ NothingForgotten'
      BY <3>1 DEF StoreIInv, IInv, CallInv, StopInv, NothingForgotten, jobFile,
                  attemptVars, signalVars
    <3> QED
      BY <3>2, <3>3, <3>4 DEF IInv
  <2> QED
    BY <2>1, <2>2 DEF CloseExpires
<1>4. SavedInv' /\ RevisionInv' /\ CurrentInv' /\ MemoryInv' /\ NoneRefused'
  BY <1>1, <1>2, <1>3, DataUnmoved
<1>5. /\ server \in {"draining", "closing"} /\ server' \in {"closing", "closed", "abandoned"}
      /\ server' = "closing" => closing' = "waiting"
      /\ closing' = "open" => closing = "open" /\ closed' = closed
      /\ closed' => closed \/ producing = {}
  BY DEF CloseCoordinator, CloseEnds, CloseExpires, StopWorker, CloseReturns, CloseTimesOut,
         vars, coordinatorVars, signalVars
<1>6. StoreTypeOK'
  <2>1. storeClosed' = (server' \in {"draining", "closing", "closed", "abandoned"})
    <3>1. /\ (server' \in {"draining", "closing", "closed", "abandoned"}) = TRUE
          /\ (server \in {"draining", "closing", "closed", "abandoned"}) = TRUE
      BY <1>5
    <3>2. storeClosed' = storeClosed
      BY <1>1
    <3>3. storeClosed = (server \in {"draining", "closing", "closed", "abandoned"})
      BY DEF StoreIInv, StoreTypeOK
    <3> QED
      BY <3>1, <3>2, <3>3
  <2> QED
    BY <1>1, <1>3, <1>5, <2>1 DEF StoreIInv, StoreTypeOK, IInv
<1>7. ControlInv'
  BY <1>1, <1>2, <1>5 DEF StoreIInv, ControlInv
<1>8. TxnInv'
  BY <1>1, <1>2 DEF StoreIInv, TxnInv, jobFile
<1> QED
  BY <1>3, <1>4, <1>6, <1>7, <1>8 DEF StoreIInv

(* The restored jobs are written, or were not.                             *)
LEMMA BootStoreIInv ==
  ASSUME StoreIInv, BootDone
  PROVE  StoreIInv'
<1>0. Main \in Publishers /\ call[Main].pc = "returned"
      /\ call' = [call EXCEPT ![Main] = Idle]
      /\ UNCHANGED <<workerOnlyVars, revision, storeClosed, crashes,
                     jobs, keys, ctxDone, drawn, producing, txn, promised>>
      /\ server = "booting" /\ server' = "up"
  BY DEF BootDone
<1>1. /\ IInv' /\ RevisionInv' /\ CurrentInv' /\ NoneRefused'
      /\ Saved' \subseteq Saved
      /\ \A d \in Callers : call'[d].pc = "idle"
      /\ UNCHANGED <<closed, closing>>
  BY <1>0, AnswerTaken
<1>2. SavedInv' /\ MemoryInv'
  BY <1>0, <1>1 DEF StoreIInv, SavedInv, MemoryInv, CanceledOnlyIfOver, View
<1>3. StoreTypeOK'
  <2>1. storeClosed' = (server' \in {"draining", "closing", "closed", "abandoned"})
    <3>1. /\ (server' \in {"draining", "closing", "closed", "abandoned"}) = FALSE
          /\ (server \in {"draining", "closing", "closed", "abandoned"}) = FALSE
      BY <1>0
    <3>2. storeClosed' = storeClosed
      BY <1>0
    <3>3. storeClosed = (server \in {"draining", "closing", "closed", "abandoned"})
      BY DEF StoreIInv, StoreTypeOK
    <3> QED
      BY <3>1, <3>2, <3>3
  <2> QED
    BY <1>0, <1>1, <2>1 DEF StoreIInv, StoreTypeOK, IInv
<1>4. ControlInv' /\ TxnInv'
  <2>1. txn = NoTxn /\ closing = "open" /\ ~closed /\ Main \in Callers
    BY <1>0 DEF StoreIInv, ControlInv, Callers
  <2> QED
    BY <1>0, <1>1, <2>1, NoTxnFields DEF StoreIInv, ControlInv, TxnInv
<1> QED
  BY <1>1, <1>2, <1>3, <1>4 DEF StoreIInv

-------------------------------------------------------------------------------
(* The content found by a process is its revision 0.                       *)
LEMMA UnnumberedSnapshot ==
  ASSUME NEW s \in Snapshots
  PROVE  /\ Unnumbered(s) \in Snapshots
         /\ Unnumbered(s).rev = 0
         /\ Unnumbered(s).data = s.data
BY DEF Unnumbered, Snapshots

(* The file the next process finds, and what it makes of it.               *)
LEMMA RestartFinds ==
  ASSUME StoreIInv, NEW kind \in CrashKinds, Restart(kind)
  PROVE  \E found \in Loadable :
           /\ found \in Snapshots /\ Sound(found.data, drawn) /\ Keeps(found.data, promised)
           /\ kind = "kill" => found = live
           /\ live' = Unnumbered(found)
           /\ durable' \subseteq {Unnumbered(s) : s \in Loadable}
           /\ kind = "power" => durable' = {live'}
           /\ jobs' = Restored(found.data)
           /\ keys' = IndexOf(Restored(found.data))
           /\ revision' = IF Restored(found.data) # found.data THEN 1 ELSE 0
           /\ server' = IF Restored(found.data) # found.data THEN "booting" ELSE "up"
           /\ call' = [c \in Callers |->
                IF c = Main /\ Restored(found.data) # found.data
                THEN [Idle EXCEPT !.pc = "publish", !.kind = "publishAndFlush",
                                  !.snapshot = [rev |-> 1, data |-> Restored(found.data)]]
                ELSE Idle]
<1>1. PICK found \in (IF kind = "kill" THEN {live} ELSE durable) :
        LET restored == Restored(found.data)
            changed == restored # found.data
        IN  /\ live' = Unnumbered(found)
            /\ durable' = IF kind = "kill" THEN {Unnumbered(s) : s \in durable}
                                           ELSE {Unnumbered(found)}
            /\ jobs' = restored
            /\ keys' = IndexOf(restored)
            /\ revision' = IF changed THEN 1 ELSE 0
            /\ server' = IF changed THEN "booting" ELSE "up"
            /\ call' = [c \in Callers |->
                 IF c = Main /\ changed
                 THEN [Idle EXCEPT !.pc = "publish", !.kind = "publishAndFlush",
                                   !.snapshot = [rev |-> 1, data |-> restored]]
                 ELSE Idle]
  BY DEF Restart
<1>2. found \in Loadable /\ found \in Saved /\ durable \subseteq Loadable
  BY DEF Loadable, Saved
<1>3. found \in Snapshots
  BY DEF StoreIInv, IInv, TypeOK, FileTypeOK
<1>4. Sound(found.data, drawn) /\ Keeps(found.data, promised)
  BY <1>2 DEF StoreIInv, SavedInv
<1>5. durable' \subseteq {Unnumbered(s) : s \in Loadable}
  BY <1>1, <1>2
<1>6. kind = "power" => durable' = {live'}
  BY <1>1
<1> QED
  BY <1>1, <1>2, <1>3, <1>4, <1>5, <1>6

(* A process starts from what it finds, whatever ended the one before.     *)
LEMMA RestartStoreIInv ==
  ASSUME StoreIInv, NEW kind \in CrashKinds, Restart(kind)
  PROVE  StoreIInv'
<1>1. PICK found \in Loadable :
        /\ found \in Snapshots /\ Sound(found.data, drawn) /\ Keeps(found.data, promised)
        /\ kind = "kill" => found = live
        /\ live' = Unnumbered(found)
        /\ durable' \subseteq {Unnumbered(s) : s \in Loadable}
        /\ jobs' = Restored(found.data)
        /\ keys' = IndexOf(Restored(found.data))
        /\ revision' = IF Restored(found.data) # found.data THEN 1 ELSE 0
        /\ server' = IF Restored(found.data) # found.data THEN "booting" ELSE "up"
        /\ call' = [c \in Callers |->
             IF c = Main /\ Restored(found.data) # found.data
             THEN [Idle EXCEPT !.pc = "publish", !.kind = "publishAndFlush",
                               !.snapshot = [rev |-> 1, data |-> Restored(found.data)]]
             ELSE Idle]
  BY RestartFinds
<1> DEFINE restored == Restored(found.data)
           changed == restored # found.data
<1>2. /\ crashes < MaxCrashes /\ crashes' = crashes + 1
      /\ phase' = "idle" /\ incoming' = NoSnapshot /\ previous' = NoSnapshot
      /\ pending' = NoSnapshot /\ writtenRevision' = 0 /\ attemptRevision' = 0
      /\ attemptCount' = 0 /\ lastErr' = FALSE /\ closed' = FALSE /\ wake' = FALSE
      /\ flush' = FALSE /\ worker' = "idle" /\ closing' = "open" /\ ctxDone' = {}
      /\ storeClosed' = FALSE /\ producing' = {} /\ txn' = NoTxn
      /\ UNCHANGED <<faults, drawn, promised>>
  BY DEF Restart, SettleSave
<1>3. /\ Sound(restored, drawn) /\ Keeps(restored, promised)
      /\ restored \in Maps /\ restored \in Data
      /\ IndexOf(restored) \in [Keys -> JobIds \cup {NoJob}]
      /\ IndexFits(restored, IndexOf(restored))
  <2>1. Sound(restored, drawn) /\ (Keeps(found.data, promised) => Keeps(restored, promised))
    BY <1>1, RestoredMap
  <2> HIDE DEF restored
  <2>2. IndexOf(restored) \in [Keys -> JobIds \cup {NoJob}] /\ IndexFits(restored, IndexOf(restored))
    BY <2>1, RestoredIndex
  <2> QED
    BY <1>1, <2>1, <2>2 DEF Sound
<1> HIDE DEF restored
<1>4. /\ jobs' = restored /\ keys' = IndexOf(restored)
      /\ revision' = IF changed THEN 1 ELSE 0
      /\ server' = IF changed THEN "booting" ELSE "up"
      /\ live'.data = found.data /\ live'.rev = 0 /\ live' \in Snapshots
  BY <1>1, UnnumberedSnapshot DEF restored
<1> DEFINE boot == [Idle EXCEPT !.pc = "publish", !.kind = "publishAndFlush",
                                !.snapshot = [rev |-> 1, data |-> restored]]
<1>5. \A c \in Callers : call'[c] = IF c = Main /\ changed THEN boot ELSE Idle
  BY <1>1 DEF restored
<1>6. /\ boot \in Calls /\ boot.pc = "publish" /\ boot.kind = "publishAndFlush"
      /\ boot.snapshot = [rev |-> 1, data |-> restored] /\ boot.result = "ok"
      /\ boot.snapshot \in Snapshots /\ boot.snapshot.rev = 1
  BY <1>3, IdleCall DEF Idle, Calls, CallStates, CallKinds, Snapshots
<1>7. Idle \in Calls /\ Idle.pc = "idle" /\ Idle.kind = "publish" /\ Idle.snapshot.rev = 0
      /\ Idle.result = "ok"
  BY IdleCall DEF Idle
<1>8. call' \in [Callers -> Calls]
  BY <1>1, <1>6, <1>7 DEF restored
<1> HIDE DEF boot
<1>9. \A s \in Loadable' : /\ s \in Snapshots /\ s.rev = 0
                           /\ Sound(s.data, drawn) /\ Keeps(s.data, promised)
  <2>1. \A s \in Loadable : s \in Snapshots /\ Sound(s.data, drawn) /\ Keeps(s.data, promised)
    BY DEF StoreIInv, IInv, TypeOK, FileTypeOK, SavedInv, Saved, Loadable
  <2>2. Loadable' \subseteq {Unnumbered(s) : s \in Loadable}
    BY <1>1 DEF Loadable
  <2> QED
    BY <2>1, <2>2, UnnumberedSnapshot
<1>10. Main \in Callers /\ 1 \in 0..MaxRevision /\ 0 \in 0..MaxRevision
  BY CoordinatorAssumption DEF Callers
<1>11. revision' \in {0, 1} /\ (revision' # 0 <=> changed)
  BY <1>4
<1>12. (changed /\ Saved' = Loadable' \cup {boot.snapshot}) \/ (~changed /\ Saved' = Loadable')
  <2>1. CASE changed
    <3>1. {call'[c].snapshot : c \in {d \in Callers : call'[d].pc # "idle"}} = {boot.snapshot}
      BY <1>5, <1>6, <1>7, <1>10, <2>1
    <3>2. Saved' = Loadable' \cup {boot.snapshot}
      BY <1>2, <3>1, SnapshotTypes DEF Saved, Underway
    <3> QED
      BY <2>1, <3>2
  <2>2. CASE ~changed
    <3>1. {call'[c].snapshot : c \in {d \in Callers : call'[d].pc # "idle"}} = {}
      BY <1>5, <1>7, <2>2
    <3> QED
      BY <1>2, <1>11, <2>2, <3>1, SnapshotTypes DEF Saved, Underway
  <2> QED
    BY <2>1, <2>2
<1>13. TypeOK'
  <2>1. FileTypeOK'
    BY <1>2, <1>4, <1>9, SnapshotTypes DEF FileTypeOK, Loadable
  <2>2. revision' \in 0..MaxRevision /\ pending' \in Snapshots /\ pending'.rev \in 0..revision'
    BY <1>2, <1>10, <1>11, SnapshotTypes
  <2>3. /\ attemptRevision' \in 0..pending'.rev /\ writtenRevision' \in 0..attemptRevision'
        /\ attemptCount' \in Nat /\ faults' \in Nat
    BY <1>2, SnapshotTypes DEF StoreIInv, IInv, TypeOK
  <2>4. lastErr' \in BOOLEAN /\ closed' \in BOOLEAN /\ wake' \in BOOLEAN /\ flush' \in BOOLEAN
    BY <1>2
  <2>5. worker' \in WorkerStates /\ closing' \in CloseStates
    BY <1>2 DEF WorkerStates, CloseStates
  <2> QED
    BY <1>8, <2>1, <2>2, <2>3, <2>4, <2>5 DEF TypeOK
<1>14. IInv'
  <2>1. SaveInv'
    BY <1>2, <1>4, <1>9, SnapshotTypes DEF SaveInv, Loadable
  <2>2. CallInv'
    BY <1>4, <1>5, <1>6, <1>7 DEF CallInv
  <2>3. StopInv' /\ NothingForgotten'
    BY <1>2, SnapshotTypes DEF StopInv, NothingForgotten
  <2> QED
    BY <1>13, <2>1, <2>2, <2>3 DEF IInv
<1>15. StoreTypeOK'
  <2>1. storeClosed' = (server' \in {"draining", "closing", "closed", "abandoned"})
    <3>1. (server' \in {"draining", "closing", "closed", "abandoned"}) = FALSE
      BY <1>4
    <3> QED
      BY <1>2, <3>1
  <2>2. crashes' \in 0..MaxCrashes
    BY <1>2 DEF StoreIInv, StoreTypeOK
  <2> QED
    BY <1>2, <1>3, <1>4, <1>13, <2>1, <2>2 DEF StoreIInv, StoreTypeOK
<1>16. SavedInv'
  BY <1>2, <1>3, <1>6, <1>9, <1>12 DEF SavedInv
<1>17. RevisionInv'
  BY <1>6, <1>9, <1>11, <1>12 DEF RevisionInv
<1>18. CurrentInv'
  <2>1. Current' = [rev |-> revision', data |-> restored]
    BY <1>4 DEF Current
  <2>2. \A c \in Callers : call'[c].pc # "idle" => revision' # 0 /\ call'[c].snapshot = Current'
    BY <1>4, <1>5, <1>6, <1>7, <2>1
  <2>3. revision' # 0 => \E c \in Callers : call'[c].pc = "publish"
    BY <1>5, <1>6, <1>10, <1>11
  <2>4. revision' = 0 => live'.data = jobs'
    BY <1>4
  <2> QED
    BY <2>2, <2>3, <2>4 DEF CurrentInv
<1>19. ControlInv'
  BY <1>2, <1>4, <1>5, <1>6, <1>7, <1>10, NoTxnFields DEF ControlInv
<1>20. TxnInv'
  BY <1>2, NoTxnFields DEF TxnInv
<1>21. MemoryInv'
  BY <1>2, <1>3, <1>4 DEF StoreIInv, MemoryInv, CanceledOnlyIfOver
<1>22. NoneRefused'
  BY <1>5, <1>6, <1>7 DEF NoneRefused, Callers
<1> QED
  BY <1>14, <1>15, <1>16, <1>17, <1>18, <1>19, <1>20, <1>21, <1>22 DEF StoreIInv

(* Every step preserves the invariant.                                     *)
LEMMA NextStoreIInv == StoreIInv /\ [StoreNext]_allVars => StoreIInv'
<1> SUFFICES ASSUME StoreIInv, [StoreNext]_allVars PROVE StoreIInv'
  OBVIOUS
<1>1. CASE Worker /\ UNCHANGED storeVars
  BY <1>1, WorkerStoreIInv
<1>2. ASSUME NEW c \in Clients, Begin(c) \/ EarlyReturn(c) PROVE StoreIInv'
  BY <1>2, GateStoreIInv
<1>3. ASSUME NEW c \in Clients, Operation(c) PROVE StoreIInv'
  BY <1>3, OperationStoreIInv
<1>4. ASSUME NEW c \in Clients, Progress(c) PROVE StoreIInv'
  BY <1>4, CommitStoreIInv, RollbackStoreIInv, AbortStoreIInv DEF Progress
<1>5. ASSUME NEW c \in Publishers, Persist(c) PROVE StoreIInv'
  BY <1>5, PersistStoreIInv
<1>6. CASE CloseStore
  BY <1>6, GateStoreIInv
<1>7. CASE CloseCoordinator \/ CloseEnds \/ CloseExpires
  BY <1>7, ShutdownStoreIInv
<1>8. ASSUME NEW kind \in CrashKinds, Restart(kind) PROVE StoreIInv'
  BY <1>8, RestartStoreIInv
<1>9. CASE BootDone
  BY <1>9, BootStoreIInv
<1>10. CASE UNCHANGED allVars
  <2>1. UNCHANGED vars /\ UNCHANGED storeVars
    BY <1>10 DEF allVars
  <2>2. IInv'
    BY <2>1, NextIInv DEF StoreIInv
  <2>3. /\ UNCHANGED <<jobFile, revision, pending, call, closed, closing>>
        /\ UNCHANGED <<jobs, keys, ctxDone, drawn, txn, promised>>
        /\ UNCHANGED <<server, storeClosed, producing, crashes>>
    BY <2>1 DEF vars, coordinatorVars, signalVars, storeVars
  <2>4. SavedInv' /\ RevisionInv' /\ CurrentInv' /\ MemoryInv' /\ NoneRefused'
    BY <2>2, <2>3, DataUnmoved
  <2>5. StoreTypeOK'
    BY <2>2, <2>3 DEF StoreIInv, StoreTypeOK, IInv
  <2>6. ControlInv' /\ TxnInv'
    BY <2>3 DEF StoreIInv, ControlInv, TxnInv
  <2> QED
    BY <2>2, <2>4, <2>5, <2>6 DEF StoreIInv
<1> QED
  BY <1>1, <1>2, <1>3, <1>4, <1>5, <1>6, <1>7, <1>8, <1>9, <1>10 DEF StoreNext

(* A closed store has nothing left to write.                               *)
LEMMA ClosedWritten == StoreIInv => ClosedComplete
<1> SUFFICES ASSUME StoreIInv, server = "closed", closing = "ok"
             PROVE  live.data = jobs
  BY DEF ClosedComplete
<1>1. worker = "exited" /\ closed /\ writtenRevision = pending.rev
  BY DEF StoreIInv, IInv, StopInv
<1>2. \A c \in Callers : call[c].pc = "idle"
  <2>1. txn.by = Main
    BY <1>1 DEF StoreIInv, ControlInv, TxnInv
  <2> QED
    BY <2>1 DEF StoreIInv, ControlInv
<1>3. CASE revision = 0
  BY <1>3 DEF StoreIInv, CurrentInv
<1>4. CASE revision # 0
  <2>1. pending = Current /\ Current.rev = revision /\ Current.data = jobs
    BY <1>2, <1>4 DEF StoreIInv, CurrentInv, Current
  <2>2. live \in Saved /\ pending \in Saved
    BY <1>4, <2>1 DEF Saved, Loadable, Underway
  <2>3. live.rev = revision
    <3>1. live.rev >= revision /\ live.rev \in Nat
      BY <1>1, <2>1, SnapshotTypes DEF StoreIInv, IInv, SaveInv, TypeOK, FileTypeOK
    <3>2. live.rev <= revision /\ revision \in Nat
      BY <2>2, Revisions DEF StoreIInv, IInv, RevisionInv
    <3> QED
      BY <3>1, <3>2
  <2>4. live = pending
    BY <1>4, <2>1, <2>2, <2>3 DEF StoreIInv, RevisionInv
  <2> QED
    BY <2>1, <2>4
<1> QED
  BY <1>3, <1>4

(* What the inductive invariant is for.                                    *)
LEMMA StoreIInvImplies ==
  StoreIInv => /\ StoreTypeOK /\ PromisesKept /\ KeyIndexExact /\ CanceledOnlyIfOver
               /\ NoneRefused /\ ClosedComplete
<1> SUFFICES ASSUME StoreIInv
             PROVE  /\ StoreTypeOK /\ PromisesKept /\ KeyIndexExact /\ CanceledOnlyIfOver
                    /\ NoneRefused /\ ClosedComplete
  OBVIOUS
<1>1. PromisesKept
  BY DEF StoreIInv, SavedInv, Saved, Loadable, PromisesKept, Keeps
<1>2. KeyIndexExact
  BY DEF StoreIInv, MemoryInv, IndexFits, KeyIndexExact
<1> QED
  BY <1>1, <1>2, ClosedWritten DEF StoreIInv, MemoryInv

-------------------------------------------------------------------------------
(* The inductive invariant holds from the first process on, through every  *)
(* operation, failed save, rollback, shutdown and crash (store.go).        *)
THEOREM StoreInvariance == StoreSpec => []StoreIInv
<1>1. StoreInit => StoreIInv
  BY InitStoreIInv
<1>2. StoreIInv /\ [StoreNext]_allVars => StoreIInv'
  BY NextStoreIInv
<1> QED
  BY <1>1, <1>2, PTL DEF StoreSpec

(* The maps, the index and the control states of the store are those of    *)
(* the code, and the store is closed exactly when Close was called.        *)
THEOREM StoreTypeCorrect == StoreSpec => []StoreTypeOK
<1>1. StoreIInv => StoreTypeOK
  BY StoreIInvImplies
<1> QED
  BY <1>1, StoreInvariance, PTL

(* What a client was told of a job is in every file a load may find, from  *)
(* then on and through any number of kills and power losses (commit after  *)
(* publishAndFlush; loadFromDisk).                                         *)
THEOREM PromisesHeld == StoreSpec => []PromisesKept
<1>1. StoreIInv => PromisesKept
  BY StoreIInvImplies
<1> QED
  BY <1>1, StoreInvariance, PTL

(* createJobWithKeyDurable finds the job of a key whenever it is           *)
(* remembered: the index and the map agree through rollbacks, retention    *)
(* and restarts.                                                           *)
THEOREM KeyIndexHeld == StoreSpec => []KeyIndexExact
<1>1. StoreIInv => KeyIndexExact
  BY StoreIInvImplies
<1> QED
  BY <1>1, StoreInvariance, PTL

(* The context of a job is canceled only after every reader sees it over.  *)
THEOREM CancellationsHeld == StoreSpec => []CanceledOnlyIfOver
<1>1. StoreIInv => CanceledOnlyIfOver
  BY StoreIInvImplies
<1> QED
  BY <1>1, StoreInvariance, PTL

(* An operation let in by beginMutation is never answered "closed": Close  *)
(* waits for it before it closes the coordinator.                          *)
THEOREM NeverRefused == StoreSpec => []NoneRefused
<1>1. StoreIInv => NoneRefused
  BY StoreIInvImplies
<1> QED
  BY <1>1, StoreInvariance, PTL

(* JobStore.Close answers nil only when the file holds the jobs in memory. *)
THEOREM ClosedIsComplete == StoreSpec => []ClosedComplete
<1>1. StoreIInv => ClosedComplete
  BY StoreIInvImplies
<1> QED
  BY <1>1, StoreInvariance, PTL

-------------------------------------------------------------------------------
(* The refinement of JobRegistry.  A crash of one kind only: a power loss  *)
(* may bring back a file that a kill had left behind, when readers of the  *)
(* killed process had seen more (the run job_store_killed).                *)
OneKindOfCrash == CrashKinds # {"kill", "power"}

(* Whatever the next process may find.                                     *)
Found == Sources \cup Underway

(* A map in which nothing that a reader of the registry sees has changed.  *)
Refreshes(m, t) ==
  /\ Present(t) = Present(m)
  /\ \A j \in Present(m) :
       /\ t[j].key = m[j].key
       /\ (t[j].status = m[j].status \/ {t[j].status, m[j].status} \cap Terminal = {})

(* A map backs itself.                                                     *)
LEMMA BacksItself == \A m : Backs(m, m)
BY DEF Backs, Present

(* What backs a map backs what only refreshes it.                          *)
LEMMA BacksRefreshed ==
  ASSUME NEW m, NEW v, NEW t, Backs(m, v), Refreshes(v, t)
  PROVE  Backs(m, t)
BY DEF Backs, Refreshes

(* The map after a durable operation backs the one before.                 *)
LEMMA BacksCommitted ==
  ASSUME NEW v \in Maps, NEW i, NEW t, Creates(v, i, t) \/ Ends(v, i, t)
  PROVE  Backs(t, v)
<1>1. \A j \in Present(v) : j \in JobIds /\ v[j] # Absent
  BY MapEntries
<1>2. CASE Creates(v, i, t)
  BY <1>1, <1>2 DEF Backs, Creates, SameJob
<1>3. CASE Ends(v, i, t)
  <2> SUFFICES ASSUME NEW j \in Present(v)
               PROVE  \/ Forgotten(t, j)
                      \/ /\ t[j] # Absent
                         /\ t[j].key = v[j].key
                         /\ v[j].status \in Terminal => t[j].status = v[j].status
    BY DEF Backs
  <2>1. CASE j \notin Present(t)
    <3>1. t[j] = Absent /\ Present(v) # Present(t)
      BY <1>1, <2>1 DEF Present
    <3> QED
      BY <1>3, <3>1 DEF Ends, Forgotten
  <2>2. CASE j \in Present(t) /\ j # i
    BY <1>3, <2>2 DEF Ends, SameJob
  <2>3. CASE j \in Present(t) /\ j = i
    BY <1>3, <2>3 DEF Ends, TerminalIn, Present
  <2> QED
    BY <2>1, <2>2, <2>3
<1> QED
  BY <1>2, <1>3

(* What was found backs what is restored from it.                          *)
LEMMA BacksRestored ==
  ASSUME NEW created, NEW m, Sound(m, created)
  PROVE  Backs(m, Restored(m))
<1>1. /\ Present(Restored(m)) \subseteq Present(m)
      /\ \A i \in Present(Restored(m)) :
           /\ Restored(m)[i].key = m[i].key
           /\ Restored(m)[i].status = IF i \in TerminalIn(m) THEN m[i].status ELSE "failed"
  BY RestoredMap
<1> QED
  BY <1>1 DEF Backs, Present, TerminalIn

(* What an operation that goes on does to the map.                         *)
LEMMA OperationKinds ==
  ASSUME StoreIInv, NEW c \in Clients, Operation(c)
  PROVE  \/ EarlyReturn(c)
         \/ \E i \in JobIds : \E newJobs, newKeys :
              Mutate(c, i, newJobs, newKeys, "publishAndFlush")
         \/ \E i \in JobIds : \E newJobs, newKeys :
              Mutate(c, i, newJobs, newKeys, "publish") /\ Refreshes(jobs, newJobs)
<1>0. Sound(jobs, drawn) /\ Keeps(jobs, promised) /\ IndexFits(jobs, keys) /\ jobs \in Maps
  BY DEF StoreIInv, StoreTypeOK, MemoryInv
<1>1. ASSUME NEW i \in Present(jobs), NEW job \in Job, job.key = jobs[i].key,
             job.status = jobs[i].status \/ {job.status, jobs[i].status} \cap Terminal = {}
      PROVE  Refreshes(jobs, Touched(jobs, i, job))
  <2> DEFINE t == Touched(jobs, i, job)
  <2>1. /\ Present(t) = Present(jobs)
        /\ \A j \in Present(jobs) : /\ t[j].key = jobs[j].key
                                    /\ (t[j].status = jobs[j].status
                                          \/ {t[j].status, jobs[j].status} \cap Terminal = {})
    BY <1>0, <1>1, SetJob DEF t
  <2> HIDE DEF t
  <2>2. Refreshes(jobs, t)
    BY <2>1 DEF Refreshes
  <2> QED
    BY <2>2 DEF t
<1>2. ASSUME NEW i \in JobIds, NEW status \in Statuses \ Terminal, SetStatus(c, i, status)
      PROVE  /\ Mutate(c, i, Touched(jobs, i, [jobs[i] EXCEPT !.status = status]), keys, "publish")
             /\ Refreshes(jobs, Touched(jobs, i, [jobs[i] EXCEPT !.status = status]))
  <2> DEFINE job == [jobs[i] EXCEPT !.status = status]
  <2>1. i \in Present(jobs) /\ i \notin TerminalIn(jobs)
    BY <1>2 DEF SetStatus, Active
  <2>2. jobs[i] \in Job /\ jobs[i].status \notin Terminal
    BY <1>0, <2>1, MapEntries DEF TerminalIn
  <2>3. job \in Job /\ job.key = jobs[i].key /\ job.status = status
    BY <2>2 DEF Job
  <2>4. Mutate(c, i, Touched(jobs, i, job), keys, "publish")
    BY <1>2 DEF SetStatus
  <2> HIDE DEF job
  <2>5. {job.status, jobs[i].status} \cap Terminal = {}
    BY <2>2, <2>3
  <2>6. Refreshes(jobs, Touched(jobs, i, job))
    BY <1>1, <2>1, <2>3, <2>5
  <2> QED
    BY <2>4, <2>6 DEF job
<1>3. ASSUME NEW i \in JobIds, NEW outcome, Finish(c, i, outcome)
      PROVE  \E newJobs, newKeys : Mutate(c, i, newJobs, newKeys, "publishAndFlush")
  BY <1>3 DEF Finish
<1>4. ASSUME NEW i \in JobIds, Annotate(c, i)
      PROVE  /\ Mutate(c, i, Touched(jobs, i, jobs[i]), keys, "publish")
             /\ Refreshes(jobs, Touched(jobs, i, jobs[i]))
  <2>1. i \in Present(jobs) /\ jobs[i] \in Job
    BY <1>0, <1>4, MapEntries DEF Annotate
  <2> QED
    BY <1>1, <1>4, <2>1 DEF Annotate
<1>5. ASSUME NEW i \in JobIds, NEW key \in Keys \cup {NoKey}, CreateJob(c, i, key)
      PROVE  \E newJobs, newKeys : Mutate(c, i, newJobs, newKeys, "publishAndFlush")
  BY <1>5 DEF CreateJob
<1>6. ASSUME NEW i \in JobIds,
             \/ UpdateRunningIfActive(c, i) \/ CompleteJob(c, i)
             \/ FailJobIfNonTerminal(c, i) \/ CancelJob(c, i)
             \/ \E status \in Statuses : UpdateJob(c, i, status)
      PROVE  \/ \E status \in Statuses \ Terminal : SetStatus(c, i, status)
             \/ \E outcome \in Terminal : Finish(c, i, outcome)
  BY <1>6 DEF UpdateRunningIfActive, CompleteJob, FailJobIfNonTerminal, CancelJob,
              UpdateJob, Statuses, Terminal
<1>7. CASE EarlyReturn(c)
  BY <1>7
<1>8. CASE ~EarlyReturn(c)
  <2>1. PICK i \in JobIds :
          \/ \E key \in Keys \cup {NoKey} : CreateJob(c, i, key)
          \/ UpdateRunningIfActive(c, i)
          \/ CompleteJob(c, i)
          \/ FailJobIfNonTerminal(c, i)
          \/ CancelJob(c, i)
          \/ \E status \in Statuses : UpdateJob(c, i, status)
          \/ Annotate(c, i)
    BY <1>8 DEF Operation
  <2> QED
    BY <1>2, <1>3, <1>4, <1>5, <1>6, <2>1
<1> QED
  BY <1>7, <1>8

-------------------------------------------------------------------------------
(* With nothing new to find and nothing new to see.                        *)
LEMMA BackedUnmoved ==
  ASSUME BackedInv, Found' \subseteq Found, View' = View
  PROVE  BackedInv'
BY DEF BackedInv, Found

(* Calls may go on or end.                                                 *)
LEMMA FoundUnmoved ==
  ASSUME UNCHANGED jobFile, pending' \in {pending} \cup Underway,
         \A c \in Callers : call'[c].pc # "idle" =>
                              /\ call[c].pc # "idle"
                              /\ call'[c].snapshot = call[c].snapshot
  PROVE  Found' \subseteq Found
<1>1. UNCHANGED <<live, durable, incoming, previous, phase>> /\ Sources' = Sources
  BY DEF jobFile, Sources, Loadable
<1>2. {call'[c].snapshot : c \in {d \in Callers : call'[d].pc # "idle"}}
        \subseteq {call[c].snapshot : c \in {d \in Callers : call[d].pc # "idle"}}
  OBVIOUS
<1>3. pending'.rev # 0 => pending' \in Underway
  BY DEF Underway
<1>4. Underway' \subseteq Underway
  BY <1>1, <1>2, <1>3 DEF Underway
<1> QED
  BY <1>1, <1>4 DEF Found

(* A snapshot of a map is taken.                                           *)
LEMMA FoundTaken ==
  ASSUME StoreIInv, NEW c \in Publishers, NEW newJobs,
         UNCHANGED workerOnlyVars,
         call' = [call EXCEPT ![c] =
           [Idle EXCEPT !.pc = "publish", !.kind = "publishAndFlush",
                        !.snapshot = [rev |-> revision + 1, data |-> newJobs]]]
         \/ call' = [call EXCEPT ![c] =
           [Idle EXCEPT !.pc = "publish", !.kind = "publish",
                        !.snapshot = [rev |-> revision + 1, data |-> newJobs]]]
  PROVE  Found' \subseteq Found \cup {[rev |-> revision + 1, data |-> newJobs]}
<1> DEFINE taken == [rev |-> revision + 1, data |-> newJobs]
<1>0. UNCHANGED <<live, durable, incoming, previous, phase, pending>> /\ Sources' = Sources
  BY DEF workerOnlyVars, jobFile, Sources, Loadable
<1>1. c \in Callers /\ call \in [Callers -> Calls]
  BY DEF Callers, StoreIInv, IInv, TypeOK
<1>2. call'[c].snapshot = taken /\ \A d \in Callers \ {c} : call'[d] = call[d]
  BY <1>1 DEF Idle
<1> HIDE DEF taken
<1>3. {call'[d].snapshot : d \in {e \in Callers : call'[e].pc # "idle"}}
        \subseteq {call[d].snapshot : d \in {e \in Callers : call[e].pc # "idle"}} \cup {taken}
  BY <1>2
<1>4. Underway' \subseteq Underway \cup {taken}
  BY <1>0, <1>3 DEF Underway
<1> QED
  BY <1>0, <1>4 DEF Found, taken

(* With one kind of crash, what may be found keeps backing what readers    *)
(* see.                                                                    *)
LEMMA NextBackedInv ==
  ASSUME OneKindOfCrash, StoreIInv, StoreIInv', BackedInv, [StoreNext]_allVars
  PROVE  BackedInv'
<1>1. CASE Worker /\ UNCHANGED storeVars
  <2>1. Saved' \subseteq Saved /\ ({live} \cup Underway)' \subseteq {live} \cup Underway
    BY <1>1, WorkerSaves DEF StoreIInv
  <2>2. Found' \subseteq Found
    BY <2>1 DEF Found, Sources, Saved
  <2>3. View' = View
    BY <1>1 DEF storeVars, View
  <2> QED
    BY <2>2, <2>3, BackedUnmoved
<1>2. ASSUME NEW c \in Clients, Begin(c) \/ EarlyReturn(c) PROVE BackedInv'
  <2>1. UNCHANGED <<vars, jobs, txn>>
    BY <1>2 DEF Begin, EarlyReturn
  <2> QED
    BY <2>1, FoundUnmoved, BackedUnmoved DEF vars, coordinatorVars, View
<1>3. ASSUME NEW c \in Clients, NEW i \in JobIds, NEW newJobs, NEW newKeys,
             Mutate(c, i, newJobs, newKeys, "publishAndFlush")
      PROVE  BackedInv'
  <2>1. /\ txn = NoTxn /\ jobs' = newJobs /\ c \in Publishers
        /\ txn' = [NoTxn EXCEPT !.by = c, !.id = i, !.durable = TRUE, !.jobs = jobs, !.keys = keys]
    BY <1>3 DEF Mutate, Locking, Clients
  <2>2. View = jobs /\ View' = jobs
    BY <2>1 DEF NoTxn, View
  <2>3. Creates(jobs, i, newJobs) \/ Ends(jobs, i, newJobs)
    <3>1. txn'.durable /\ ~txn'.undoing /\ txn'.jobs = jobs /\ txn'.id = i
      BY <2>1 DEF NoTxn
    <3> QED
      BY <2>1, <3>1 DEF StoreIInv, TxnInv
  <2>4. Backs(newJobs, jobs)
    BY <2>3, BacksCommitted DEF StoreIInv, StoreTypeOK
  <2>5. Found' \subseteq Found \cup {[rev |-> revision + 1, data |-> newJobs]}
    BY <1>3, <2>1, FoundTaken DEF Mutate
  <2> QED
    BY <2>2, <2>4, <2>5 DEF BackedInv, Found
<1>4. ASSUME NEW c \in Clients, NEW i \in JobIds, NEW newJobs, NEW newKeys,
             Mutate(c, i, newJobs, newKeys, "publish"), Refreshes(jobs, newJobs)
      PROVE  BackedInv'
  <2>1. /\ txn = NoTxn /\ jobs' = newJobs /\ c \in Publishers
        /\ txn' = [NoTxn EXCEPT !.by = c, !.id = i, !.durable = FALSE,
                                !.jobs = EmptyMap, !.keys = NoIndex]
    BY <1>4 DEF Mutate, Locking, Clients
  <2>2. View = jobs /\ View' = newJobs
    BY <2>1 DEF NoTxn, View
  <2>3. Found' \subseteq Found \cup {[rev |-> revision + 1, data |-> newJobs]}
    BY <1>4, <2>1, FoundTaken DEF Mutate
  <2>4. \A s \in Found : Backs(s.data, newJobs)
    BY <1>4, <2>2, BacksRefreshed DEF BackedInv, Found
  <2>5. Backs(newJobs, newJobs)
    BY BacksItself
  <2> QED
    BY <2>2, <2>3, <2>4, <2>5 DEF BackedInv, Found
<1>5. ASSUME NEW c \in Clients, Commit(c) PROVE BackedInv'
  <2>0. /\ c \in Callers /\ call[c].pc = "returned" /\ call[c].result = "ok"
        /\ txn.durable /\ txn' = NoTxn /\ jobs' = jobs
        /\ UNCHANGED <<jobFile, pending>> /\ call' = [call EXCEPT ![c] = Idle]
    BY <1>5 DEF Commit, Returned, EndMutation, Clients, Callers, workerOnlyVars
  <2>1. \A s \in Saved : s = Current
    BY <2>0, OkSettled DEF StoreIInv, ControlInv
  <2>2. Found' \subseteq Found
    BY <2>0, FoundUnmoved DEF Idle
  <2>3. View' = jobs
    BY <2>0, NoTxnFields DEF View
  <2>4. Found \subseteq Saved
    BY DEF Found, Saved, Sources, Loadable
  <2> QED
    BY <2>1, <2>2, <2>3, <2>4, BacksItself DEF BackedInv, Found, Current
<1>6. ASSUME NEW c \in Clients, Abort(c) \/ Release(c) PROVE BackedInv'
  <2>0. /\ c \in Callers /\ (txn.undoing \/ ~txn.durable) /\ txn' = NoTxn /\ jobs' = jobs
        /\ UNCHANGED <<jobFile, pending>> /\ call' = [call EXCEPT ![c] = Idle]
    BY <1>6 DEF Abort, Release, EndMutation, Clients, Callers, workerOnlyVars
  <2>1. View' = View
    BY <2>0, NoTxnFields DEF View, StoreIInv, TxnInv
  <2>2. Found' \subseteq Found
    BY <2>0, FoundUnmoved DEF Idle
  <2> QED
    BY <2>1, <2>2, BackedUnmoved
<1>7. ASSUME NEW c \in Clients, Rollback(c) PROVE BackedInv'
  <2>1. /\ c \in Publishers /\ txn.durable /\ jobs' = txn.jobs
        /\ txn' = [txn EXCEPT !.undoing = TRUE]
    BY <1>7 DEF Rollback, Clients
  <2>2. View = txn.jobs /\ View' = txn.jobs
    <3>1. txn' = [txn EXCEPT !.undoing = TRUE] /\ txn \in Txns
      BY <2>1 DEF StoreIInv, TxnInv
    <3>2. txn'.durable = txn.durable /\ txn'.jobs = txn.jobs
      BY <3>1 DEF Txns
    <3> QED
      BY <2>1, <3>2 DEF View
  <2>3. Found' \subseteq Found \cup {[rev |-> revision + 1, data |-> txn.jobs]}
    BY <1>7, <2>1, FoundTaken DEF Rollback
  <2> QED
    BY <2>2, <2>3, BacksItself DEF BackedInv, Found
<1>8. ASSUME NEW c \in Publishers, Persist(c) PROVE BackedInv'
  <2>0. c \in Callers /\ CallerStep(c) /\ UNCHANGED storeVars /\ TypeOK
    BY <1>8 DEF Persist, Callers, StoreIInv, IInv
  <2>1. call[c].pc # "idle"
    BY <2>0 DEF CallerStep, Publish, SignalWake, BeginFlush, CheckFlush, Checking,
                SignalFlush, SeeExit
  <2>2. ~closed /\ worker # "exited" /\ call[c].snapshot \in Underway
    BY <2>0, <2>1, InsideOpen DEF Underway
  <2>3. /\ call'[c].snapshot = call[c].snapshot
        /\ \A d \in Callers \ {c} : call'[d] = call[d]
        /\ pending' \in {pending, call[c].snapshot}
        /\ UNCHANGED jobFile
    BY <2>0, <2>2, CallerMoves DEF Others
  <2>4. Found' \subseteq Found
    BY <2>1, <2>2, <2>3, FoundUnmoved
  <2> QED
    BY <2>0, <2>4, BackedUnmoved DEF storeVars, View
<1>9. CASE CloseStore \/ CloseCoordinator \/ CloseEnds \/ CloseExpires
  <2>1. UNCHANGED <<jobFile, pending, call, jobs, txn>>
    BY <1>9 DEF CloseStore, CloseCoordinator, CloseEnds, CloseExpires, StopWorker,
                CloseReturns, CloseTimesOut, vars, coordinatorVars
  <2> QED
    BY <2>1, FoundUnmoved, BackedUnmoved DEF View
<1>10. ASSUME NEW kind \in CrashKinds, Restart(kind) PROVE BackedInv'
  <2>1. PICK found \in Loadable :
          /\ found \in Snapshots /\ Sound(found.data, drawn)
          /\ live' = Unnumbered(found)
          /\ kind = "power" => durable' = {live'}
          /\ jobs' = Restored(found.data)
          /\ call' = [c \in Callers |->
               IF c = Main /\ Restored(found.data) # found.data
               THEN [Idle EXCEPT !.pc = "publish", !.kind = "publishAndFlush",
                                 !.snapshot = [rev |-> 1, data |-> Restored(found.data)]]
               ELSE Idle]
    BY <1>10, RestartFinds
  <2>2. View' = Restored(found.data)
    BY <1>10, <2>1, NoTxnFields DEF Restart, View
  <2>3. phase' = "idle" /\ pending' = NoSnapshot
    BY <1>10 DEF Restart, SettleSave
  <2>4. live'.data = found.data
    BY <2>1, UnnumberedSnapshot
  <2>5. Sources' = {live'}
    <3>1. CASE kind = "power"
      BY <2>1, <3>1 DEF Sources, Loadable
    <3>2. CASE kind = "kill"
      <4>1. "power" \notin CrashKinds
        BY <3>2 DEF OneKindOfCrash
      <4> QED
        BY <4>1 DEF Sources
    <3> QED
      BY <3>1, <3>2
  <2>6. \A c \in Callers : call'[c].pc # "idle" => call'[c].snapshot.data = Restored(found.data)
    BY <2>1 DEF Idle
  <2>7. \A s \in Underway' : s.data = Restored(found.data)
    BY <2>3, <2>6, SnapshotTypes DEF Underway
  <2>8. Backs(found.data, Restored(found.data)) /\ Backs(Restored(found.data), Restored(found.data))
    BY <2>1, BacksRestored, BacksItself
  <2> QED
    BY <2>2, <2>4, <2>5, <2>7, <2>8 DEF BackedInv
<1>11. CASE BootDone
  <2>1. /\ Main \in Callers /\ UNCHANGED <<jobFile, pending, jobs, txn>>
        /\ call' = [call EXCEPT ![Main] = Idle]
    BY <1>11 DEF BootDone, workerOnlyVars, Callers
  <2>2. Found' \subseteq Found
    BY <2>1, FoundUnmoved DEF Idle
  <2> QED
    BY <2>1, <2>2, BackedUnmoved DEF View
<1>12. CASE UNCHANGED allVars
  <2>1. UNCHANGED <<jobFile, pending, call, jobs, txn>>
    BY <1>12 DEF allVars, vars, coordinatorVars, storeVars
  <2> QED
    BY <2>1, FoundUnmoved, BackedUnmoved DEF View
<1>13. ASSUME NEW c \in Clients, Operation(c) PROVE BackedInv'
  BY <1>2, <1>3, <1>4, <1>13, OperationKinds
<1> QED
  BY <1>1, <1>2, <1>5, <1>6, <1>7, <1>8, <1>9, <1>10, <1>11, <1>12, <1>13 DEF StoreNext, Progress

-------------------------------------------------------------------------------
(* The readings of a map: of a job in it, of one that is not, of them all. *)
LEMMA ReadingRecord ==
  ASSUME NEW m \in Maps, NEW i \in Present(m)
  PROVE  Reading(m)[i] = [state |-> IF m[i].status \in Terminal THEN m[i].status ELSE "active",
                          key |-> m[i].key]
BY DEF Reading, Present

(* One entry of a map read back.                                           *)
LEMMA ReadingEntry ==
  ASSUME NEW m \in Maps, NEW i \in Present(m)
  PROVE  /\ i \in JobIds
         /\ Reading(m)[i].key = m[i].key
         /\ m[i].status \in Terminal => Reading(m)[i].state = m[i].status
         /\ m[i].status \notin Terminal => Reading(m)[i].state = "active"
         /\ Reading(m)[i] \in Registry!RegistryEntries
         /\ Reading(m)[i] # Absent
<1>1. i \in JobIds /\ m[i] # Absent /\ m[i].key \in Keys \cup {NoKey}
  BY MapEntries
<1>2. Reading(m)[i] = [state |-> IF m[i].status \in Terminal
                                 THEN m[i].status ELSE "active",
                       key |-> m[i].key]
  BY ReadingRecord
<1>3. Reading(m)[i] \in [state : {"active"} \cup Terminal, key : Keys \cup {NoKey}]
  BY <1>1, <1>2
<1> QED
  BY <1>1, <1>2, <1>3, RegistryAssumption DEF Registry!RegistryEntries, Registry!Outcomes, Terminal

(* A map without the entry reads back as nothing.                          *)
LEMMA ReadingNone ==
  ASSUME NEW m \in Maps, NEW i \in JobIds \ Present(m)
  PROVE  Reading(m)[i] = Absent
BY MapEntries DEF Reading

(* A map read back is a map.                                               *)
LEMMA ReadingMap ==
  ASSUME NEW m \in Maps
  PROVE  /\ Reading(m) \in [JobIds -> Registry!RegistryEntries \cup {Absent}]
         /\ Registry!Known(Reading(m)) = Present(m)
         /\ Registry!Ended(Reading(m)) = TerminalIn(m)
<1>1. \A i \in JobIds \ Present(m) : Reading(m)[i] = Absent
  BY ReadingNone
<1>2. \A i \in Present(m) :
        /\ i \in JobIds
        /\ m[i].status \in Terminal => Reading(m)[i].state = m[i].status
        /\ m[i].status \notin Terminal => Reading(m)[i].state = "active"
        /\ Reading(m)[i] \in Registry!RegistryEntries
        /\ Reading(m)[i] # Absent
  BY ReadingEntry
<1>3. Reading(m) \in [JobIds -> Registry!RegistryEntries \cup {Absent}]
  <2>1. Reading(m) = [i \in JobIds |-> Reading(m)[i]]
    BY DEF Reading
  <2> QED
    BY <1>1, <1>2, <2>1
<1>4. Registry!Known(Reading(m)) = Present(m)
  BY <1>1, <1>2 DEF Registry!Known
<1>5. Registry!Ended(Reading(m)) = TerminalIn(m)
  BY <1>2, <1>4 DEF Registry!Ended, Registry!Outcomes, TerminalIn, Terminal
<1> QED
  BY <1>3, <1>4, <1>5

(* An entry that keeps its key and, once over, its status reads the same.  *)
LEMMA SameReading ==
  ASSUME NEW m \in Maps, NEW t \in Maps, NEW i \in JobIds,
         \/ i \notin Present(m) /\ i \notin Present(t)
         \/ /\ i \in Present(m) /\ i \in Present(t) /\ t[i].key = m[i].key
            /\ \/ t[i].status = m[i].status
               \/ t[i].status \notin Terminal /\ m[i].status \notin Terminal
  PROVE  Reading(t)[i] = Reading(m)[i]
BY DEF Reading, Present

(* FiniteSets is the same for both modules.                                *)
LEMMA SameCardinality == \A S : Registry!Cardinality(S) = Cardinality(S)
BY DEF Registry!Cardinality, Cardinality

(* Nothing is created, ended or forgotten by a refreshment.                *)
LEMMA ReadingRefreshed ==
  ASSUME NEW m \in Maps, NEW t \in Maps, Refreshes(m, t)
  PROVE  Reading(t) = Reading(m)
<1>1. ASSUME NEW i \in JobIds PROVE Reading(t)[i] = Reading(m)[i]
  <2>1. CASE i \in Present(m)
    <3>1. /\ i \in Present(t) /\ t[i].key = m[i].key
          /\ (t[i].status = m[i].status \/ {t[i].status, m[i].status} \cap Terminal = {})
      BY <2>1 DEF Refreshes
    <3>2. (t[i].status = m[i].status) \/ (t[i].status \notin Terminal /\ m[i].status \notin Terminal)
      BY <3>1
    <3> QED
      BY <2>1, <3>1, <3>2, SameReading
  <2>2. CASE i \notin Present(m)
    BY <2>2, SameReading DEF Refreshes
  <2> QED
    BY <2>1, <2>2
<1> QED
  BY <1>1 DEF Reading

(* A committed creation is a creation of the registry.                     *)
LEMMA CreatesReading ==
  ASSUME NEW v \in Maps, NEW i \in JobIds, NEW t \in Maps, Creates(v, i, t), Sound(v, drawn),
         View = v, View' = t
  PROVE  \E key \in Keys \cup {NoKey} : Registry!Create(i, key)
<1> DEFINE key == t[i].key
<1>1. /\ i \notin Present(v) /\ i \in Present(t) /\ t[i].status \notin Terminal
      /\ key \in Keys \cup {NoKey}
      /\ key # NoKey => \A j \in Present(v) : v[j].key # key
  BY MapEntries DEF Creates, Terminal
<1> HIDE DEF key
<1>2. Reading(t) = [Reading(v) EXCEPT ![i] = [state |-> "active", key |-> key]]
  <2>1. Reading(t)[i] = [state |-> "active", key |-> key]
    BY <1>1, ReadingRecord DEF key
  <2>2. ASSUME NEW j \in JobIds, j # i PROVE Reading(t)[j] = Reading(v)[j]
    <3>1. CASE j \in Present(v)
      <4>1. j \in Present(t) /\ t[j].key = v[j].key /\ t[j].status = v[j].status
        BY <3>1 DEF Creates, SameJob
      <4> QED
        BY <3>1, <4>1, SameReading
    <3>2. CASE j \notin Present(v)
      BY <2>2, <3>2, SameReading DEF Creates
    <3> QED
      BY <3>1, <3>2
  <2> QED
    BY <2>1, <2>2 DEF Reading
<1>3. /\ i \notin Registry!Known(Reading(v))
      /\ key # NoKey => \A j \in Registry!Known(Reading(v)) : Reading(v)[j].key # key
  <2>1. /\ Registry!Known(Reading(v)) = Present(v)
        /\ \A j \in Present(v) : Reading(v)[j].key = v[j].key
    BY ReadingMap, ReadingEntry
  <2> QED
    BY <1>1, <2>1
<1>4. Registry!Create(i, key)
  BY <1>2, <1>3 DEF Registry!Create
<1> QED
  BY <1>1, <1>4

(* A committed end of a job is one in the registry, with what it forgets.  *)
LEMMA EndsReading ==
  ASSUME NEW v \in Maps, NEW i \in JobIds, NEW t \in Maps, Ends(v, i, t),
         View = v, View' = t
  PROVE  \E outcome \in Registry!Outcomes : Registry!Finish(i, outcome)
<1> DEFINE outcome == t[i].status
           before == [Reading(v) EXCEPT ![i].state = outcome]
<1>1. /\ i \in Present(v) /\ v[i].status \notin Terminal /\ i \in Present(t)
      /\ outcome \in Terminal /\ t[i].key = v[i].key
  BY DEF Ends, TerminalIn
<1>2. i \in Registry!Known(Reading(v)) /\ Reading(v)[i].state = "active"
  <2>1. /\ Registry!Known(Reading(v)) = Present(v)
        /\ v[i].status \notin Terminal => Reading(v)[i].state = "active"
    BY <1>1, ReadingMap, ReadingEntry
  <2> QED
    BY <1>1, <2>1
<1>3. /\ i \in Registry!Known(Reading(t))
      /\ Reading(t) \in [JobIds -> Registry!RegistryEntries \cup {Absent}]
  BY <1>1, ReadingMap
<1> HIDE DEF outcome
<1>4. /\ before[i] = [state |-> outcome, key |-> v[i].key]
      /\ \A j \in JobIds \ {i} : before[j] = Reading(v)[j]
  <2>1. Reading(v)[i] = [state |-> "active", key |-> v[i].key] /\ i \in JobIds
    BY <1>1, ReadingRecord, MapEntries
  <2> QED
    BY <2>1 DEF Reading
<1>5. Reading(t)[i] = before[i]
  BY <1>1, <1>4, ReadingRecord DEF outcome
<1>6. before[i] # Absent
  BY <1>1, <1>3, <1>5 DEF Registry!Known
<1> HIDE DEF before
<1>7. Registry!Known(before) = Present(v)
  <2>1. \A j \in JobIds : before[j] # Absent <=> j \in Present(v)
    BY <1>1, <1>4, <1>6, ReadingEntry, ReadingNone
  <2> QED
    BY <2>1, MapEntries DEF Registry!Known
<1>8. Registry!Known(before) \ Registry!Known(Reading(t)) \subseteq Registry!Ended(before)
  <2>1. ASSUME NEW j \in Present(v), j \notin Present(t) PROVE before[j].state \in Registry!Outcomes
    <3>1. j \in TerminalIn(v) /\ j # i /\ j \in JobIds
      BY <1>1, <2>1, MapEntries DEF Ends
    <3>2. before[j] = Reading(v)[j] /\ j \in Registry!Ended(Reading(v))
      BY <1>4, <3>1, ReadingMap
    <3> QED
      BY <3>2 DEF Registry!Ended
  <2> QED
    BY <1>7, <2>1, ReadingMap DEF Registry!Ended
<1>9. /\ Registry!Known(before) \ Registry!Known(Reading(t)) # {}
           => Cardinality(Registry!Ended(Reading(t))) = MaxRetained
      /\ Cardinality(Registry!Ended(Reading(t))) <= MaxRetained
  BY <1>7, ReadingMap DEF Ends
<1>10. \A j \in Registry!Known(Reading(t)) : Reading(t)[j] = before[j]
  <2>1. ASSUME NEW j \in Present(t), j # i PROVE Reading(t)[j] = Reading(v)[j]
    <3>1. /\ j \in Present(v) /\ j \in JobIds
          /\ t[j].key = v[j].key /\ t[j].status = v[j].status
      BY <2>1, MapEntries DEF Ends, SameJob
    <3> QED
      BY <3>1, SameReading
  <2> QED
    BY <1>4, <1>5, <2>1, ReadingMap, MapEntries
<1>11. Registry!Forgets(before, Reading(t))
  BY <1>8, <1>9, <1>10, SameCardinality DEF Registry!Forgets
<1>12. Registry!Finish(i, outcome)
  BY <1>2, <1>3, <1>11 DEF Registry!Finish, before
<1> QED
  BY <1>1, <1>12 DEF outcome, Terminal, Registry!Outcomes

(* What the next process restores is a restart of the registry, if what it *)
(* finds backs what readers saw.                                           *)
LEMMA RestoredReading ==
  ASSUME NEW v \in Maps, NEW m, Sound(m, drawn), Backs(m, v),
         View = v, View' = Restored(m)
  PROVE  Registry!Restart
<1> DEFINE r == Restored(m)
<1>1. /\ Sound(r, drawn)
      /\ Present(r) \subseteq Present(m)
      /\ \A i \in Present(r) :
           /\ r[i].key = m[i].key
           /\ r[i].status = IF i \in TerminalIn(m) THEN m[i].status ELSE "failed"
      /\ TerminalIn(r) = Present(r)
      /\ Cardinality(TerminalIn(r)) <= MaxRetained
      /\ Present(r) # Present(m) => Cardinality(TerminalIn(r)) = MaxRetained
      /\ \A i \in JobIds : Forgotten(m, i) => Forgotten(r, i)
  BY RestoredMap
<1> HIDE DEF r
<1>2. r \in Maps /\ Present(v) \subseteq JobIds /\ Present(r) \subseteq JobIds
  BY <1>1, MapEntries DEF Sound
<1>3. /\ Reading(r) \in [JobIds -> Registry!RegistryEntries \cup {Absent}]
      /\ Registry!Known(Reading(r)) = Present(r) /\ Registry!Known(Reading(v)) = Present(v)
      /\ Registry!Ended(Reading(r)) = Present(r) /\ Registry!Ended(Reading(v)) = TerminalIn(v)
  BY <1>1, <1>2, ReadingMap
<1>4. \A i \in Present(r) : Reading(r)[i].state \in Registry!Outcomes /\ Reading(r)[i].key = r[i].key
  BY <1>2, <1>3, ReadingEntry DEF Registry!Ended
<1>5. ASSUME NEW i \in Present(r), i \in Present(v)
      PROVE  /\ Reading(r)[i].key = Reading(v)[i].key
             /\ i \in TerminalIn(v) => Reading(r)[i] = Reading(v)[i]
  <2>1. m[i] # Absent
    BY <1>1 DEF Present
  <2>2. /\ m[i].key = v[i].key
        /\ v[i].status \in Terminal =>
             \/ m[i].status = v[i].status
             \/ v[i].status = "failed" /\ m[i].status \notin Terminal
    BY <1>5, <2>1 DEF Backs, Forgotten
  <2>3. /\ r[i].key = v[i].key
        /\ v[i].status \in Terminal => r[i].status = v[i].status
    BY <1>1, <2>2 DEF TerminalIn
  <2>4. Reading(r)[i].key = Reading(v)[i].key
    BY <1>2, <1>5, <2>3, ReadingEntry
  <2>5. i \in TerminalIn(v) => Reading(r)[i] = Reading(v)[i]
    BY <1>2, <1>5, <2>3, SameReading DEF TerminalIn
  <2> QED
    BY <2>4, <2>5
<1>6. ASSUME NEW i \in Present(r), NEW j \in Present(r),
             Reading(r)[i].key = Reading(r)[j].key, i # j
      PROVE  Reading(r)[i].key = NoKey
  BY <1>1, <1>4, <1>6 DEF Sound
<1>7. ASSUME NEW i \in Present(v), i \notin Present(r)
      PROVE  Cardinality(Present(r)) = MaxRetained
  <2>1. CASE Forgotten(m, i)
    BY <1>1, <1>2, <2>1 DEF Forgotten
  <2>2. CASE ~Forgotten(m, i)
    <3>1. m[i] # Absent
      BY <2>2 DEF Backs
    <3>2. i \in Present(m)
      BY <1>2, <3>1 DEF Present
    <3> QED
      BY <1>1, <1>7, <3>2
  <2> QED
    BY <2>1, <2>2
<1>8. /\ \A i \in Registry!Known(Reading(r)) :
           /\ Reading(r)[i].state \in Registry!Outcomes
           /\ i \in Registry!Ended(Reading(v)) => Reading(r)[i] = Reading(v)[i]
           /\ i \in Registry!Known(Reading(v)) => Reading(r)[i].key = Reading(v)[i].key
      /\ \A i, j \in Registry!Known(Reading(r)) :
           (Reading(r)[i].key = Reading(r)[j].key /\ i # j) => Reading(r)[i].key = NoKey
  BY <1>3, <1>4, <1>5, <1>6 DEF TerminalIn
<1>9. /\ Cardinality(Registry!Known(Reading(r))) <= MaxRetained
      /\ Registry!Known(Reading(v)) \ Registry!Known(Reading(r)) # {}
           => Cardinality(Registry!Known(Reading(r))) = MaxRetained
  BY <1>1, <1>3, <1>7
<1>10. View' = r
  BY DEF r
<1> QED
  BY <1>3, <1>8, <1>9, <1>10, SameCardinality DEF Registry!Restart

(* Every step of the store is one of the registry or leaves it alone.      *)
LEMMA NextRegistry ==
  ASSUME StoreIInv, BackedInv, [StoreNext]_allVars
  PROVE  Registry!Next \/ Reading(View)' = Reading(View)
<1>0. jobs \in Maps /\ View \in Maps
  BY DEF StoreIInv, StoreTypeOK, TxnInv, Sound, View
<1>1. CASE UNCHANGED <<jobs, txn>>
  <2>1. View' = View
    BY <1>1 DEF View
  <2> QED
    BY <2>1
<1>2. ASSUME NEW c \in Clients, NEW i \in JobIds, NEW newJobs, NEW newKeys,
             Mutate(c, i, newJobs, newKeys, "publishAndFlush")
      PROVE  View' = View
  <2>1. /\ txn = NoTxn
        /\ txn' = [NoTxn EXCEPT !.by = c, !.id = i, !.durable = TRUE, !.jobs = jobs, !.keys = keys]
    BY <1>2 DEF Mutate, Locking
  <2> QED
    BY <2>1 DEF NoTxn, View
<1>3. ASSUME StoreIInv', NEW c \in Clients, NEW i \in JobIds, NEW newJobs, NEW newKeys,
             Mutate(c, i, newJobs, newKeys, "publish"), Refreshes(jobs, newJobs)
      PROVE  Reading(View') = Reading(View)
  <2>1. /\ txn = NoTxn /\ jobs' = newJobs
        /\ txn' = [NoTxn EXCEPT !.by = c, !.id = i, !.durable = FALSE,
                                !.jobs = EmptyMap, !.keys = NoIndex]
    BY <1>3 DEF Mutate, Locking
  <2>2. View = jobs /\ View' = newJobs
    BY <2>1 DEF NoTxn, View
  <2>3. newJobs \in Maps
    BY <1>3, <2>1 DEF StoreIInv, StoreTypeOK
  <2> QED
    BY <1>0, <1>3, <2>2, <2>3, ReadingRefreshed
<1>4. ASSUME NEW c \in Clients, Commit(c) PROVE Registry!Next
  <2>1. txn.durable /\ ~txn.undoing /\ txn' = NoTxn /\ jobs' = jobs
    BY <1>4 DEF Commit, EndMutation
  <2>2. View = txn.jobs /\ View' = jobs
    BY <2>1, NoTxnFields DEF View
  <2>3. /\ Creates(txn.jobs, txn.id, jobs) \/ Ends(txn.jobs, txn.id, jobs)
        /\ Sound(txn.jobs, drawn) /\ txn.jobs \in Maps /\ txn.id \in JobIds
    BY <2>1, OverStays DEF StoreIInv, TxnInv
  <2>4. CASE Creates(txn.jobs, txn.id, jobs)
    BY <1>0, <2>2, <2>3, <2>4, CreatesReading DEF Registry!Next
  <2>5. CASE Ends(txn.jobs, txn.id, jobs)
    BY <1>0, <2>2, <2>3, <2>5, EndsReading DEF Registry!Next
  <2> QED
    BY <2>3, <2>4, <2>5
<1>5. ASSUME NEW c \in Clients, Abort(c) \/ Release(c) PROVE View' = View
  <2>1. (txn.undoing \/ ~txn.durable) /\ txn' = NoTxn /\ jobs' = jobs
    BY <1>5 DEF Abort, Release, EndMutation
  <2> QED
    BY <2>1, NoTxnFields DEF View, StoreIInv, TxnInv
<1>6. ASSUME NEW c \in Clients, Rollback(c) PROVE View' = View
  <2>1. txn.durable /\ jobs' = txn.jobs /\ txn' = [txn EXCEPT !.undoing = TRUE] /\ txn \in Txns
    BY <1>6 DEF Rollback, StoreIInv, TxnInv
  <2>2. txn'.durable = txn.durable /\ txn'.jobs = txn.jobs
    BY <2>1 DEF Txns
  <2> QED
    BY <2>1, <2>2 DEF View
<1>7. ASSUME NEW kind \in CrashKinds, Restart(kind) PROVE Registry!Next
  <2>1. PICK found \in Loadable :
          /\ found \in Snapshots /\ Sound(found.data, drawn)
          /\ kind = "kill" => found = live
          /\ jobs' = Restored(found.data)
    BY <1>7, RestartFinds
  <2>2. View' = Restored(found.data)
    BY <1>7, <2>1, NoTxnFields DEF Restart, View
  <2>3. found \in Sources
    <3>1. CASE kind = "power"
      BY <3>1 DEF Sources
    <3>2. CASE kind = "kill"
      BY <2>1, <3>2 DEF Sources, Loadable
    <3> QED
      BY <3>1, <3>2
  <2>4. Backs(found.data, View)
    BY <2>3 DEF BackedInv
  <2>5. Registry!Restart
    BY <1>0, <2>1, <2>2, <2>4, RestoredReading
  <2> QED
    BY <2>5 DEF Registry!Next
<1>8. ASSUME NEW c \in Clients, Operation(c)
      PROVE  Reading(View') = Reading(View)
  <2>1. StoreIInv'
    BY NextStoreIInv
  <2>2. EarlyReturn(c) => View' = View
    BY DEF EarlyReturn, View
  <2> QED
    BY <1>2, <1>3, <1>8, <2>1, <2>2, OperationKinds
<1>9. CASE \/ Worker /\ UNCHANGED storeVars
           \/ \E c \in Clients : Begin(c)
           \/ \E c \in Publishers : Persist(c)
           \/ CloseStore \/ CloseCoordinator \/ CloseEnds \/ CloseExpires
           \/ BootDone
           \/ UNCHANGED allVars
  BY <1>1, <1>9 DEF storeVars, allVars, Begin, Persist, CloseStore, CloseCoordinator,
                    CloseEnds, CloseExpires, BootDone
<1> QED
  BY <1>4, <1>5, <1>6, <1>7, <1>8, <1>9 DEF StoreNext, Progress

(* No job, nothing to back.                                                *)
LEMMA InitRegistry ==
  ASSUME StoreInit
  PROVE  BackedInv /\ Registry!Init
<1>1. View = EmptyMap
  BY NoTxnFields DEF StoreInit, View
<1>2. BackedInv
  BY <1>1, EmptyMapSound DEF BackedInv, Backs
<1>3. Registry!Init
  BY <1>1 DEF Registry!Init, EmptyMap, Reading
<1> QED
  BY <1>2, <1>3

(* Where crashes are of one kind, readers of the store see a JobRegistry:  *)
(* a job is created once per key, ends once, keeps its outcome through     *)
(* every restart and is forgotten only by retention (docs/                 *)
(* api-reference.md, "Job Persistence").                                   *)
THEOREM StoreImplementsRegistry ==
  ASSUME OneKindOfCrash
  PROVE  StoreSpec => ImplementsJobRegistry
<1>1. StoreInit => StoreIInv /\ BackedInv /\ Registry!Init
  BY InitStoreIInv, InitRegistry
<1>2. StoreIInv /\ BackedInv /\ [StoreNext]_allVars => (StoreIInv /\ BackedInv)'
  BY NextStoreIInv, NextBackedInv
<1>3. StoreIInv /\ BackedInv /\ [StoreNext]_allVars => [Registry!Next]_(Reading(View))
  BY NextRegistry
<1> QED
  BY <1>1, <1>2, <1>3, PTL DEF StoreSpec, ImplementsJobRegistry, Registry!Spec
===============================================================================
