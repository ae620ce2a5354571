----------------------------- MODULE JobRegistry ------------------------------
(***************************************************************************)
(* What the job store promises to everybody who reads it (docs/            *)
(* api-reference.md, "Job Persistence"): a job is created once per         *)
(* idempotency key, ends once, keeps its outcome through restarts, and is  *)
(* forgotten only as one of the oldest of more than MaxRetained finished   *)
(* jobs.  Pending and running are one state here: both end as failed when  *)
(* the process does.  JobStore is checked to implement this module.        *)
(***************************************************************************)
EXTENDS Naturals, FiniteSets

CONSTANTS JobIds, Keys, NoKey, Absent, MaxRetained

Outcomes == {"completed", "failed", "canceled"}
RegistryEntries == [state : {"active"} \cup Outcomes, key : Keys \cup {NoKey}]

VARIABLE registry       \* what a reader sees

Known(r) == {i \in JobIds : r[i] # Absent}
Ended(r) == {i \in Known(r) : r[i].state \in Outcomes}

Init == registry = [i \in JobIds |-> Absent]

Create(i, key) ==
  /\ i \notin Known(registry)
  /\ key # NoKey => \A j \in Known(registry) : registry[j].key # key
  /\ registry' = [registry EXCEPT ![i] = [state |-> "active", key |-> key]]

(* Only finished jobs are forgotten, and only down to MaxRetained. *)
Forgets(before, after) ==
  LET forgotten == Known(before) \ Known(after)
  IN  /\ forgotten \subseteq Ended(before)
      /\ forgotten # {} => Cardinality(Ended(after)) = MaxRetained
      /\ Cardinality(Ended(after)) <= MaxRetained
      /\ \A i \in Known(after) : after[i] = before[i]

Finish(i, outcome) ==
  /\ i \in Known(registry)
  /\ registry[i].state = "active"
  /\ i \in Known(registry')
  /\ registry' \in [JobIds -> RegistryEntries \cup {Absent}]
  /\ Forgets([registry EXCEPT ![i].state = outcome], registry')

(* A restart ends what was running.  An operation nobody was told about    *)
(* may turn out to have happened: a creation, or an outcome other than     *)
(* "failed" of an active job.                                              *)
Restart ==
  /\ registry' \in [JobIds -> RegistryEntries \cup {Absent}]
  /\ \A i \in Known(registry') :
       /\ registry'[i].state \in Outcomes
       /\ i \in Ended(registry) => registry'[i] = registry[i]
       /\ i \in Known(registry) => registry'[i].key = registry[i].key
  /\ \A i, j \in Known(registry') :
       (registry'[i].key = registry'[j].key /\ i # j) => registry'[i].key = NoKey
  /\ Cardinality(Known(registry')) <= MaxRetained
  /\ Known(registry) \ Known(registry') # {} => Cardinality(Known(registry')) = MaxRetained

Next ==
  \/ \E i \in JobIds, key \in Keys \cup {NoKey} : Create(i, key)
  \/ \E i \in JobIds, outcome \in Outcomes : Finish(i, outcome)
  \/ Restart

Spec == Init /\ [][Next]_registry
===============================================================================
