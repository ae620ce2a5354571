---------------------------- MODULE LibraryLedger ----------------------------
(***************************************************************************)
(* What the local library (internal/library) promises whoever reads it:    *)
(* a durable job is added once and ends once, and a manifest that belongs  *)
(* to a job becomes the latest one of its lecture only together with that  *)
(* job becoming completed.  A manifest may also belong to no job: one-shot *)
(* downloads record theirs without one.                                    *)
(***************************************************************************)
EXTENDS Integers

CONSTANTS Artifacts, JobIds

VARIABLES
  state,      \* of each job: "none", "active" or how it ended
  subject,    \* the lecture of each job that was added
  latest      \* the job whose manifest is the latest one of a lecture, or 0:
              \* there is no manifest, or it belongs to no job

ledger == <<state, subject, latest>>

Init ==
  /\ state = [j \in JobIds |-> "none"]
  /\ subject \in [JobIds -> Artifacts]
  /\ latest = [a \in Artifacts |-> 0]

Add(j) ==
  /\ state[j] = "none"
  /\ state' = [state EXCEPT ![j] = "active"]
  /\ \E a \in Artifacts : subject' = [subject EXCEPT ![j] = a]
  /\ UNCHANGED latest

GiveUp(j) ==
  /\ state[j] = "active"
  /\ \E outcome \in {"failed", "canceled"} : state' = [state EXCEPT ![j] = outcome]
  /\ UNCHANGED <<subject, latest>>

Complete(j) ==
  /\ state[j] = "active"
  /\ state' = [state EXCEPT ![j] = "completed"]
  /\ latest' = [latest EXCEPT ![subject[j]] = j]
  /\ UNCHANGED subject

Record(a) ==
  /\ latest' = [latest EXCEPT ![a] = 0]
  /\ UNCHANGED <<state, subject>>

Next ==
  \/ \E j \in JobIds : Add(j) \/ GiveUp(j) \/ Complete(j)
  \/ \E a \in Artifacts : Record(a)

Spec == Init /\ [][Next]_ledger
==============================================================================
