--------------------------- MODULE MCInvestigation ---------------------------
(* An instance of Investigation for TLC: a graph that can query one metric
   and search one runbook section. *)
EXTENDS Investigation

CONSTANTS j1, j2, w1, w2, c1, m1, r1, e1

TwoAttempts == [j \in Jobs |-> 2]

Tools == [a \in Actions |-> IF a = r1 THEN "search_runbooks" ELSE "query_metrics"]

OneMetric ==
  [t \in DiagnosticTools |-> IF t = "query_metrics" THEN {e1} ELSE {}]
=============================================================================
