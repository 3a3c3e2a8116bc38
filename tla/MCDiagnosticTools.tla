-------------------------- MODULE MCDiagnosticTools --------------------------
(* An instance of DiagnosticTools for TLC: an incident with more log lines   *)
(* than a search returns, and one that mixes times with and without zones.   *)
EXTENDS DiagnosticTools

CONSTANTS metric, lines, linesOfAnHour, changes, allChanges, elsewhere,
          health, search, m1, l1, l2, d1, d2, h1

Tools ==
  [a \in Actions |->
     CASE a = metric                          -> "query_metrics"
       [] a \in {lines, linesOfAnHour}        -> "search_logs"
       [] a \in {changes, allChanges, elsewhere} -> "get_recent_deployments"
       [] a = health                          -> "check_service_health"
       [] a = search                          -> "search_runbooks"]

\* Windows and ages in quarters of an hour.
Asks ==
  [a \in Actions |->
     CASE a = metric        -> [service |-> "api", metric |-> "rate"]
       [] a = lines         -> [service |-> "api", words |-> {"the", "error"}, window |-> 1]
       [] a = linesOfAnHour -> [service |-> "api", words |-> {"the", "error"}, window |-> 4]
       [] a = changes       -> [service |-> "api", window |-> 1]
       [] a = allChanges    -> [service |-> "api", window |-> 4]
       [] a = elsewhere     -> [service |-> "db", window |-> 4]
       [] a = health        -> [service |-> "db"]
       [] a = search        -> [limit |-> 1]]

Texts == {<<"rate", "error rate">>, <<"error", "an error">>}

Line(id, age, message) == [id |-> id, age |-> age, message |-> message, zoned |-> TRUE]

\* The first line is logged twice, and pushes the second out of a wide search.
Busy ==
  [service |-> "api", zoned |-> TRUE,
   metrics |-> <<[id |-> m1, name |-> "error rate"]>>,
   logs |-> <<Line(l1, 3, "an error"), Line(l1, 3, "an error"), Line(l2, 0, "an error")>>,
   recent_changes |-> <<[id |-> d1, age |-> 2, zoned |-> TRUE],
                        [id |-> d2, age |-> 0, zoned |-> TRUE]>>,
   service_health |-> <<[id |-> h1, service |-> "db"]>>]

Unzoned == [Busy EXCEPT !.zoned = FALSE, !.recent_changes = <<>>, !.service_health = <<>>]

OfEachKind ==
  [t \in DiagnosticTools |->
     CASE t = "query_metrics"          -> {m1}
       [] t = "search_logs"            -> {l1, l2}
       [] t = "get_recent_deployments" -> {d1, d2}
       [] t = "check_service_health"   -> {h1}]

BothIncidents == {Busy, Unzoned}

\* Of the steps on the record the graph reads the tools only.
ToolsOfSteps ==
  <<node, decision, observed, retrieved, executed, Attempted, counters, stopping,
    assessment, late, supersteps, incident, shown>>
==============================================================================
