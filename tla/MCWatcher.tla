------------------------------ MODULE MCWatcher ------------------------------
(* Values for the runs of Watcher.                                         *)
EXTENDS Watcher, TLC

Symmetry == Permutations(Watchers)
==============================================================================
