----------------------------- MODULE MCJobExecutor -----------------------------
(* A small instance of JobExecutor: two jobs for one place, one with three *)
(* lectures and one with one, and two workers for each.                    *)
EXTENDS JobExecutor, TLC

CONSTANTS j1, j2, w1, w2

MCJobs == {j1, j2}
MCLectures == [j \in MCJobs |-> IF j = j1 THEN 3 ELSE 1]
MCWorkers == {w1, w2}
===============================================================================
