----------------------------- MODULE MCJobQueue -----------------------------
(* Instances of JobQueue for TLC. *)
EXTENDS JobQueue

CONSTANTS j1, j2, w1, w2, c1

\* j1 may be tried once only, j2 twice.
AttemptLimits == [j \in Jobs |-> IF j = j1 THEN 1 ELSE 2]
TwoAttempts   == [j \in Jobs |-> 2]
=============================================================================
