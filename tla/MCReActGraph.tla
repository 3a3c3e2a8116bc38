---------------------------- MODULE MCReActGraph ----------------------------
(* An instance of ReActGraph for TLC: one action of each tool, and a
   second query of metrics. *)
EXTENDS ReActGraph

CONSTANTS m1, m2, l1, d1, h1, r1, e1, e2

Tools ==
  [a \in Actions |->
     CASE a \in {m1, m2} -> "query_metrics"
       [] a = l1 -> "search_logs"
       [] a = d1 -> "get_recent_deployments"
       [] a = h1 -> "check_service_health"
       [] a = r1 -> "search_runbooks"]

\* e1 is a metric and e2 a log line; no change, no health check.
OneEach ==
  [t \in DiagnosticTools |->
     CASE t = "query_metrics" -> {e1}
       [] t = "search_logs"   -> {e2}
       [] OTHER               -> {}]

\* Of the steps on the record the graph reads the tools only.
ToolsOfSteps ==
  <<node, decision, observed, retrieved, executed, Attempted, counters, stopping,
    assessment, late, supersteps>>
=============================================================================
