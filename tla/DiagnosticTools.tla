--------------------------- MODULE DiagnosticTools ---------------------------
(***************************************************************************)
(* The read-only tools of an investigation (services/diagnostic_tools.py)  *)
(* over the evidence of an incident, and ReActGraph with them in the place *)
(* of the arbitrary answers that it allows.                                *)
(*                                                                         *)
(* Texts are compared without regard to case; which one occurs in which    *)
(* other is given.  The age of a datum is how long before the start of the *)
(* incident it was recorded, negative for later.                           *)
(***************************************************************************)
EXTENDS ReActGraph, Sequences

CONSTANTS
  Incidents,      \* IncidentEvidence, as the catalog may hold it
  Arguments,      \* action -> its arguments, windows as ages
  Occurs,         \* the pairs of texts of which the first occurs in the second
  StopWords,
  MaxLogResults,
  MinimumScore    \* minimum_relevance_score

\* The list of an incident that a tool reads.
SourceOf ==
  [query_metrics          |-> "metrics",
   search_logs            |-> "logs",
   get_recent_deployments |-> "recent_changes",
   check_service_health   |-> "service_health"]

\* Evidence IDs are made of what they identify: equal IDs, equal contents.
ASSUME ToolAssumption ==
  /\ \A i \in Incidents, t \in DiagnosticTools :
       /\ IsFiniteSet(DOMAIN i[SourceOf[t]]) /\ DOMAIN i[SourceOf[t]] \subseteq Nat
       /\ \A n \in DOMAIN i[SourceOf[t]] : i[SourceOf[t]][n].id \in EvidenceOf[t]
  /\ \A i \in Incidents, t \in {"search_logs", "get_recent_deployments"} :
       \A n \in DOMAIN i[SourceOf[t]] : i[SourceOf[t]][n].age \in Int
  /\ \A a \in Actions :
       ToolOf[a] \in {"search_logs", "get_recent_deployments"} => Arguments[a].window \in Int
  /\ MaxLogResults \in Nat \ {0} /\ MinimumScore \in Nat

VARIABLES
  incident,
  shown        \* history: the data behind the evidence, as tool and position

toolVars == <<vars, incident, shown>>

-----------------------------------------------------------------------------
Data(tool) == incident[SourceOf[tool]]

MatchesName(a, name) ==
  LET requested == Arguments[a].metric IN
    <<requested, name>> \in Occurs \/ <<name, requested>> \in Occurs

\* Mutant: the window is compared the wrong way round.
InWindowReversed(a, datum) == datum.age >= Arguments[a].window

\* timestamp >= started_at - time_range
InWindow(a, datum) == datum.age <= Arguments[a].window

MatchesPattern(a, message) ==
  \E term \in Arguments[a].words \ StopWords : <<term, message>> \in Occurs

Matches(a, datum) ==
  CASE ToolOf[a] = "query_metrics"          -> MatchesName(a, datum.name)
    [] ToolOf[a] = "search_logs"            -> InWindow(a, datum) /\ MatchesPattern(a, datum.message)
    [] ToolOf[a] = "get_recent_deployments" -> InWindow(a, datum)
    [] ToolOf[a] = "check_service_health"   -> datum.service = Arguments[a].service

\* Metrics, logs and changes are those of one service.
HasSource(a) ==
  ToolOf[a] # "check_service_health" => Arguments[a].service = incident.service

\* The positions of the data that action a asks for.
Asked(a) ==
  IF HasSource(a) THEN {n \in DOMAIN Data(ToolOf[a]) : Matches(a, Data(ToolOf[a])[n])}
                  ELSE {}

\* [:MAX_LOG_RESULTS]
FirstFew(positions) ==
  {n \in positions : Cardinality({m \in positions : m < n}) < MaxLogResults}

\* Of log entries no more than the first few of the list.
Found(a) == IF ToolOf[a] = "search_logs" THEN FirstFew(Asked(a)) ELSE Asked(a)

IdsOf(a, positions) == {Data(ToolOf[a])[n].id : n \in positions}

\* Mutant: a service without health checks is no error.
FailsWithoutSource(a) == ~ HasSource(a)

\* No source, or no health check, is an error; no match is none.
Fails(a) ==
  \/ ~ HasSource(a)
  \/ ToolOf[a] = "check_service_health" /\ Found(a) = {}

\* Mutant: the log entries are cut after their IDs are taken.
AnswerBeforeCut(a) == Observation(IdsOf(a, Asked(a)), NoSections, Fails(a))

\* _query_metrics, _search_logs, _get_recent_deployments, _check_service_health
Answer(a) == Observation(IdsOf(a, Found(a)), NoSections, Fails(a))

\* A search of the runbooks, whatever the scores are: no more than its limit,
\* none below the threshold.
SearchAnswers(a) ==
  {Observation({s \in Sections : f[s] > 0}, f, FALSE) :
     f \in {g \in [Sections -> {0} \union (MinimumScore..MaxScore)] :
              Cardinality({s \in Sections : g[s] > 0}) <= Arguments[a].limit}}

\* A time with a time zone and one without cannot be compared: a tool that has
\* to compare them raises.
Comparable(a) ==
  ToolOf[a] \in {"search_logs", "get_recent_deployments"} /\ HasSource(a) =>
    \A n \in DOMAIN Data(ToolOf[a]) : Data(ToolOf[a])[n].zoned = incident.zoned

-----------------------------------------------------------------------------
ToolInit ==
  /\ Init
  /\ incident \in Incidents
  /\ shown = {}

CallDiagnosticTool ==
  /\ node = "execute"
  /\ LET a == decision.action IN
       /\ ToolOf[a] \in DiagnosticTools
       /\ Comparable(a)
       /\ ToolAnswers(Answer(a))
       /\ shown' = shown \union ({ToolOf[a]} \X Found(a))
  /\ UNCHANGED incident

CallSearchRunbooks ==
  /\ node = "execute"
  /\ ToolOf[decision.action] = "search_runbooks"
  /\ \E o \in SearchAnswers(decision.action) : ToolAnswers(o)
  /\ UNCHANGED <<incident, shown>>

\* The rest of the graph.
OtherNode ==
  /\ \/ ChooseAction
     \/ BlockDuplicate
     \/ ToolFails
     \/ PrepareFinalize
     \/ RequestAdditionalEvidence
     \/ PrepareLimitFinalize
     \/ StopForLimit
     \/ GenerateAssessment
     \/ ValidateAssessment
     \/ ValidationFailed
     \/ Ended
  /\ UNCHANGED <<incident, shown>>

ToolNext == CallDiagnosticTool \/ CallSearchRunbooks \/ OtherNode

ToolSpec == ToolInit /\ [][ToolNext]_toolVars

-----------------------------------------------------------------------------
\* Every evidence ID that a finalization may cite is that of a datum of the
\* incident which a tool has shown to the planner, and an investigation that
\* completes has shown as many data as it needs items of evidence.
EvidenceIsShown ==
  /\ observed \intersect Diagnostics = {Data(d[1])[d[2]].id : d \in shown}
  /\ node = "complete" => Cardinality(shown) >= MinEvidenceItems

\* The same question over two windows.
Widens(b, a) ==
  /\ ToolOf[a] = ToolOf[b] /\ ToolOf[a] \in {"search_logs", "get_recent_deployments"}
  /\ Arguments[a].service = Arguments[b].service
  /\ ToolOf[a] = "search_logs" => Arguments[a].words = Arguments[b].words
  /\ Arguments[a].window <= Arguments[b].window

\* A question asked again over a wider window finds what it found before, and a
\* log entry is missing from the wider answer for one reason only: that answer
\* is full, of entries which come before it in the list.
WideningFindsMore ==
  \A a, b \in Actions : Widens(b, a) =>
    \A n \in Found(a) \ Found(b) :
      /\ ToolOf[b] = "search_logs"
      /\ Cardinality(Found(b)) = MaxLogResults
      /\ \A m \in Found(b) : m < n

\* The graph with the real tools does nothing that ReActGraph does not allow:
\* what it assumes of the answers of tools covers the answers of these.
ImplementsGraph == Spec
==============================================================================
