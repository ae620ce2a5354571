------------------------------ MODULE MCJobStore ------------------------------
(* Small instances of JobStore: one goroutine that changes jobs, as        *)
(* mutationMu lets one do so at a time; one or two jobs; one key at most;  *)
(* one finished job retained.                                              *)
EXTENDS JobStore, TLC

CONSTANTS main, client, i1, i2

MCPublishers == {main, client}
MCJobIds == {i1, i2}
MCOneJobId == {i1}
MCNoData == [i \in JobIds |-> Absent]
MCData == Maps
MCSymmetry == Permutations(MCJobIds)
===============================================================================
