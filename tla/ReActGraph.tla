----------------------------- MODULE ReActGraph -----------------------------
(***************************************************************************)
(* The bounded ReAct investigation (services/react_investigation_graph.py) *)
(* that a worker runs inside one attempt of a job: a planner chooses tool  *)
(* calls until it finalizes, asks for missing evidence, or a budget is     *)
(* reached; an analyst then writes an assessment that is validated, and    *)
(* repaired a bounded number of times.                                     *)
(*                                                                         *)
(* One step is one superstep of the compiled graph: a node and the router  *)
(* of its conditional edge.  Planner, analyst and tools are models and     *)
(* stores outside the graph: any answer of theirs that the schemas admit   *)
(* may come, or an exception, or the deadline.                             *)
(***************************************************************************)
EXTENDS Integers, FiniteSets, Sequences

CONSTANTS
  Actions,             \* fingerprints: a tool with its arguments
  ToolOf,              \* Actions -> EVIDENCE_TOOL_NAMES
  EvidenceOf,          \* diagnostic tool -> the evidence IDs it can observe
  NumSections,         \* runbook sections, numbered in citation-ID order
  MaxScore,            \* relevance scores are 1..MaxScore
  MaxIterations, MaxToolCalls, NoProgressLimit, MaxToolErrors,
  MaxContextSections, MinEvidenceItems, MaxRepairAttempts

EVIDENCE_TOOL_NAMES ==
  {"query_metrics", "search_logs", "get_recent_deployments",
   "check_service_health", "search_runbooks"}

DiagnosticTools == EVIDENCE_TOOL_NAMES \ {"search_runbooks"}

Diagnostics == UNION {EvidenceOf[t] : t \in DiagnosticTools}
Sections    == 1..NumSections
Evidence    == Diagnostics \union Sections   \* s stands for runbook:s as well

\* ReActGraphConfig.validate, and what the catalog gives.
ASSUME GraphAssumption ==
  /\ ToolOf \in [Actions -> EVIDENCE_TOOL_NAMES]
  /\ DOMAIN EvidenceOf = DiagnosticTools
  /\ IsFiniteSet(Diagnostics) /\ Diagnostics \intersect Sections = {}
  /\ IsFiniteSet(Actions)
  /\ NumSections \in Nat /\ MaxScore \in Nat
  /\ MaxIterations \in Nat \ {0} /\ MaxToolCalls \in Nat \ {0}
  /\ NoProgressLimit \in Nat \ {0} /\ MaxToolErrors \in Nat \ {0}
  /\ MaxContextSections \in Nat \ {0} /\ MinEvidenceItems \in Nat \ {0}
  /\ MaxRepairAttempts \in Nat

None == "none"

NoDecision == [kind |-> "none"]

Decisions ==
  [kind : {"tool"}, action : Actions]
    \union [kind : {"finalize"}, evidence : (SUBSET Evidence) \ {{}}]
    \union [kind : {"request"}]

Assessments == [citations : (SUBSET Sections) \ {{}}, sameIncident : BOOLEAN]

NoAssessment == [citations |-> {}, sameIncident |-> FALSE]

Limits  == {"runtime_limit", "tool_error_limit", "no_progress", "max_tool_calls",
            "max_iterations"}
Reasons == Limits \union {"model_finished"}

\* InvestigationStep: what one iteration of the loop leaves on the record.
Step(tool, ids, isError) == [tool |-> tool, evidence |-> ids, isError |-> isError]

StepRecords == [tool     : EVIDENCE_TOOL_NAMES \union {"finalize_assessment"},
                evidence : SUBSET Evidence,
                isError  : BOOLEAN]

Failures == {"limit", "insufficient", "invalid", "transient", "raised"}
Nodes    == {"choose", "execute", "finalize", "request", "limit_finalize",
             "stop", "generate", "validate", "validation_failed"}

VARIABLES
  node,         \* the next node, or how the graph ended
  decision,     \* current_decision
  observed,     \* observed_evidence_ids
  retrieved,    \* retrieved_sections: section -> score, 0 when not retrieved
  executed,     \* executed_action_fingerprints
  steps,        \* react_steps
  iterations, toolCalls, toolErrors, noProgress, duplicates, repairs,
  reason,       \* termination_reason
  limit,        \* history: the budget that ended the loop, as its router saw it
  assessment,
  late,         \* elapsed >= max_runtime_seconds
  supersteps    \* nodes run so far, counted by the graph runtime

counters == <<iterations, toolCalls, toolErrors, noProgress, duplicates, repairs>>
evidence == <<observed, retrieved, executed, steps>>
stopping == <<reason, limit>>
vars == <<node, decision, evidence, counters, stopping, assessment, late, supersteps>>

-----------------------------------------------------------------------------
(* Evidence *)

\* A section is kept while fewer than the limit are ahead of it in the order
\* by descending score, then citation ID.
Ahead(f, t, s) == f[t] > f[s] \/ (f[t] = f[s] /\ t < s)

KeepBest(f) ==
  [s \in Sections |->
     IF /\ f[s] > 0
        /\ Cardinality({t \in Sections : f[t] > 0 /\ Ahead(f, t, s)}) < MaxContextSections
     THEN f[s] ELSE 0]

\* Mutant: new sections replace the context.
ReplaceSections(existing, additions) == KeepBest(additions)

\* _merge_sections
MergeSections(existing, additions) ==
  KeepBest([s \in Sections |-> IF additions[s] > existing[s] THEN additions[s]
                                                             ELSE existing[s]])

NoSections == [s \in Sections |-> 0]
Retrieved  == {s \in Sections : retrieved[s] > 0}

\* _has_sufficient_evidence
Sufficient ==
  /\ Cardinality(observed \intersect Diagnostics) >= MinEvidenceItems
  /\ Retrieved # {}

\* _has_unexplored_evidence_tools
Attempted  == {steps[i].tool : i \in DOMAIN steps}
Unexplored == EVIDENCE_TOOL_NAMES \ Attempted # {}

\* What a tool can observe: some of its evidence, nothing, or an error.  A
\* health check that finds nothing is an error.
Observation(ids, sections, isError) ==
  [ids |-> ids, sections |-> sections, isError |-> isError]

Nothing == Observation({}, NoSections, FALSE)

Observations(tool) ==
  CASE tool = "search_runbooks" ->
         {Observation({s \in Sections : f[s] > 0}, f, FALSE) : f \in [Sections -> 0..MaxScore]}
    [] OTHER ->
         {Observation(ids, NoSections, FALSE) : ids \in (SUBSET EvidenceOf[tool]) \ {{}}}
           \union {Observation({}, NoSections, TRUE)}
           \union (IF tool = "check_service_health" THEN {} ELSE {Nothing})

-----------------------------------------------------------------------------
(* Budgets, in the order in which they are looked at *)

Stalled ==
  \/ duplicates >= NoProgressLimit
  \/ noProgress >= NoProgressLimit /\ ~ Unexplored

\* Mutant: one tool call too many.
FirstLimitOffByOne ==
  IF late                             THEN "runtime_limit"
  ELSE IF toolErrors >= MaxToolErrors  THEN "tool_error_limit"
  ELSE IF Stalled                      THEN "no_progress"
  ELSE IF toolCalls > MaxToolCalls     THEN "max_tool_calls"
  ELSE IF iterations >= MaxIterations  THEN "max_iterations"
  ELSE None

\* What route_after_progress finds.
FirstLimit ==
  IF late                             THEN "runtime_limit"
  ELSE IF toolErrors >= MaxToolErrors  THEN "tool_error_limit"
  ELSE IF Stalled                      THEN "no_progress"
  ELSE IF toolCalls >= MaxToolCalls    THEN "max_tool_calls"
  ELSE IF iterations >= MaxIterations  THEN "max_iterations"
  ELSE None

\* Mutant: a reason that reports do not know.
LimitReasonUnknown ==
  IF late THEN "runtime_limit" ELSE IF Stalled THEN "stalled" ELSE "max_iterations"

\* Mutant: the tool calls are forgotten.
LimitReasonForgets ==
  IF late                             THEN "runtime_limit"
  ELSE IF toolErrors >= MaxToolErrors  THEN "tool_error_limit"
  ELSE IF Stalled                      THEN "no_progress"
  ELSE "max_iterations"

\* What prepare_limit_finalize finds, at the time of its own node.
LimitReason ==
  IF late                             THEN "runtime_limit"
  ELSE IF toolErrors >= MaxToolErrors  THEN "tool_error_limit"
  ELSE IF Stalled                      THEN "no_progress"
  ELSE IF toolCalls >= MaxToolCalls    THEN "max_tool_calls"
  ELSE "max_iterations"

\* Mutant: a limit always leads to an assessment.
RouteAlwaysFinalizes ==
  IF FirstLimit # None THEN "limit_finalize"
  ELSE IF reason = "model_finished" THEN "generate" ELSE "choose"

\* route_after_progress
RouteAfterProgress ==
  IF FirstLimit # None THEN IF Sufficient THEN "limit_finalize" ELSE "stop"
  ELSE IF reason = "model_finished" THEN "generate" ELSE "choose"

\* A node whose conditional edge is route_after_progress.
Routes ==
  /\ limit' = FirstLimit'
  /\ node'  = RouteAfterProgress'

-----------------------------------------------------------------------------
(* A trajectory read afterwards *)

IsCall(step)     == step.tool \in EVIDENCE_TOOL_NAMES
IsAccepted(step) == step.tool = "finalize_assessment" /\ ~ step.isError

\* The IDs that the first n steps show, those that a finalization claims aside.
ShownBy(t, n) ==
  UNION {t[i].evidence : i \in {k \in DOMAIN t : k <= n /\ IsCall(t[k])}}

\* The step rests on what was shown before it, or comes from its own tool.
IsTraced(t, i) ==
  /\ t[i].tool = "search_runbooks" => t[i].evidence \subseteq Sections
  /\ t[i].tool \in DiagnosticTools => t[i].evidence \subseteq EvidenceOf[t[i].tool]
  /\ IsAccepted(t[i]) =>
       /\ i = Len(t)
       /\ t[i].evidence \subseteq ShownBy(t, i - 1)
       /\ Cardinality(t[i].evidence \intersect Diagnostics) >= MinEvidenceItems

-----------------------------------------------------------------------------
\* The node initialize_react has run.
Init ==
  /\ node = "choose" /\ decision = NoDecision
  /\ observed = {} /\ retrieved = NoSections /\ executed = {} /\ steps = <<>>
  /\ iterations = 0 /\ toolCalls = 0 /\ toolErrors = 0 /\ noProgress = 0
  /\ duplicates = 0 /\ repairs = 0
  /\ reason = None /\ limit = None /\ assessment = NoAssessment
  /\ late = FALSE /\ supersteps = 1

\* Mutant: the evidence of the last run is still there.
InvokeKeepsEvidence ==
  /\ node' = "choose" /\ decision' = NoDecision
  /\ executed' = {} /\ steps' = <<>>
  /\ iterations' = 0 /\ toolCalls' = 0 /\ toolErrors' = 0 /\ noProgress' = 0
  /\ duplicates' = 0 /\ repairs' = 0
  /\ reason' = None /\ limit' = None /\ assessment' = NoAssessment
  /\ late' = FALSE /\ supersteps' = 1
  /\ UNCHANGED <<observed, retrieved>>

\* The compiled graph is invoked once more: nothing of an earlier run is left.
Invoke ==
  /\ node' = "choose" /\ decision' = NoDecision
  /\ observed' = {} /\ retrieved' = NoSections /\ executed' = {} /\ steps' = <<>>
  /\ iterations' = 0 /\ toolCalls' = 0 /\ toolErrors' = 0 /\ noProgress' = 0
  /\ duplicates' = 0 /\ repairs' = 0
  /\ reason' = None /\ limit' = None /\ assessment' = NoAssessment
  /\ late' = FALSE /\ supersteps' = 1

\* A node runs, and the deadline may pass while it does.
Runs(n) ==
  /\ node = n
  /\ supersteps' = supersteps + 1
  /\ late' \in {late, TRUE}

\* The deadline ends a call.
TimesOut ==
  /\ late' = TRUE
  /\ node' = "limit"

\* A call raises, and the graph with it: an error of the model gateway that
\* another attempt may not meet, or any other.
Raises == node' \in {"transient", "raised"}

ChooseAction ==
  /\ Runs("choose")
  /\ \/ /\ decision' \in Decisions
        /\ iterations' = iterations + 1
        /\ node' = CASE decision'.kind = "tool"     -> "execute"
                     [] decision'.kind = "finalize" -> "finalize"
                     [] decision'.kind = "request"  -> "request"
     \/ /\ TimesOut \/ Raises
        /\ UNCHANGED <<decision, iterations>>
  /\ UNCHANGED <<evidence, toolCalls, toolErrors, noProgress, duplicates, repairs,
                 stopping, assessment>>

\* What execute_tool does with an observation, of a call or of a blocked one.
Record(tool, o, blocked) ==
  /\ observed'   = observed \union o.ids
  /\ retrieved'  = MergeSections(retrieved, o.sections)
  /\ steps'      = Append(steps, Step(tool, o.ids, o.isError \/ blocked))
  /\ toolErrors' = IF o.isError THEN toolErrors + 1 ELSE toolErrors
  /\ noProgress' = IF o.ids \subseteq observed THEN noProgress + 1 ELSE 0

\* The tool is called and answers o.
ToolAnswers(o) ==
  /\ Runs("execute")
  /\ decision.action \notin executed
  /\ Record(ToolOf[decision.action], o, FALSE)
  /\ executed'   = executed \union {decision.action}
  /\ toolCalls'  = toolCalls + 1
  /\ duplicates' = 0
  /\ UNCHANGED <<decision, iterations, repairs, reason, assessment>>
  /\ Routes

ExecuteTool ==
  /\ node = "execute"
  /\ \E o \in Observations(ToolOf[decision.action]) : ToolAnswers(o)

BlockDuplicate ==
  /\ Runs("execute")
  /\ LET a == decision.action IN
       /\ a \in executed
       /\ Record(ToolOf[a], Nothing, TRUE)
       /\ duplicates' = duplicates + 1
  /\ UNCHANGED <<decision, executed, iterations, toolCalls, repairs, reason, assessment>>
  /\ Routes

\* The call times out or raises.
ToolFails ==
  /\ Runs("execute")
  /\ decision.action \notin executed
  /\ TimesOut \/ Raises
  /\ UNCHANGED <<decision, evidence, counters, stopping, assessment>>

Acceptable(ids) ==
  /\ ids \subseteq observed
  /\ Sufficient
  /\ Cardinality(ids \intersect Diagnostics) >= MinEvidenceItems

\* Mutant: a rejected finalization looks like an accepted one on the record.
FinalizeStepUnmarked(ids) == Step("finalize_assessment", ids, FALSE)

\* The step names the IDs that the planner gave, whether observed or not.
FinalizeStep(ids) == Step("finalize_assessment", ids, ~ Acceptable(ids))

PrepareFinalize ==
  /\ Runs("finalize")
  /\ steps' = Append(steps, FinalizeStep(decision.evidence))
  /\ IF Acceptable(decision.evidence)
     THEN noProgress' = 0 /\ reason' = "model_finished"
     ELSE noProgress' = noProgress + 1 /\ UNCHANGED reason
  /\ UNCHANGED <<decision, observed, retrieved, executed, iterations, toolCalls,
                 toolErrors, duplicates, repairs, assessment>>
  /\ Routes

RequestAdditionalEvidence ==
  /\ Runs("request")
  /\ node' = "insufficient"
  /\ UNCHANGED <<decision, evidence, counters, stopping, assessment>>

\* The reason is worked out anew, at the time of this node.
PrepareLimitFinalize ==
  /\ Runs("limit_finalize")
  /\ UNCHANGED <<decision, evidence, counters, limit, assessment>>
  /\ reason' = LimitReason'
  /\ node' = "generate"

StopForLimit ==
  /\ Runs("stop")
  /\ node' = "limit"
  /\ UNCHANGED <<decision, evidence, counters, stopping, assessment>>

\* Mutant: one repair too many.
RepairOffByOne ==
  /\ repairs' = repairs + 1
  /\ node' = IF repairs <= MaxRepairAttempts THEN "generate" ELSE "validation_failed"

\* The router of a failed generation or validation.
Repair ==
  /\ repairs' = repairs + 1
  /\ node' = IF repairs' <= MaxRepairAttempts THEN "generate" ELSE "validation_failed"

GenerateAssessment ==
  /\ Runs("generate")
  /\ \/ assessment' \in Assessments /\ node' = "validate" /\ UNCHANGED repairs
     \/ Repair /\ UNCHANGED assessment             \* a schema violation
     \/ (TimesOut \/ Raises) /\ UNCHANGED <<assessment, repairs>>
  /\ UNCHANGED <<decision, evidence, iterations, toolCalls, toolErrors, noProgress,
                 duplicates, stopping>>

\* Mutant: citations are not compared.
ValidIncidentOnly(a) == a.sameIncident

Valid(a) == a.sameIncident /\ a.citations \subseteq Retrieved

ValidateAssessment ==
  /\ Runs("validate")
  /\ IF Valid(assessment) THEN node' = "complete" /\ UNCHANGED repairs ELSE Repair
  /\ UNCHANGED <<decision, evidence, iterations, toolCalls, toolErrors, noProgress,
                 duplicates, stopping, assessment>>

ValidationFailed ==
  /\ Runs("validation_failed")
  /\ node' = "invalid"
  /\ UNCHANGED <<decision, evidence, counters, stopping, assessment>>

\* The graph has returned, or raised.
Ended ==
  /\ node \in Failures \union {"complete"}
  /\ UNCHANGED vars

Next ==
  \/ ChooseAction
  \/ ExecuteTool
  \/ BlockDuplicate
  \/ ToolFails
  \/ PrepareFinalize
  \/ RequestAdditionalEvidence
  \/ PrepareLimitFinalize
  \/ StopForLimit
  \/ GenerateAssessment
  \/ ValidateAssessment
  \/ ValidationFailed
  \/ Ended

Spec == Init /\ [][Next]_vars

-----------------------------------------------------------------------------
TypeOK ==
  /\ node \in Nodes \union Failures \union {"complete"}
  /\ decision \in Decisions \union {NoDecision}
  /\ observed \subseteq Evidence
  /\ retrieved \in [Sections -> 0..MaxScore]
  /\ executed \subseteq Actions
  /\ steps \in Seq(StepRecords)
  /\ iterations \in Nat /\ toolCalls \in Nat /\ toolErrors \in Nat
  /\ noProgress \in Nat /\ duplicates \in Nat /\ repairs \in Nat
  /\ reason \in Reasons \union {None}
  /\ limit \in Limits \union {None}
  /\ assessment \in Assessments \union {NoAssessment}
  /\ late \in BOOLEAN
  /\ supersteps \in Nat

\* The budgets are looked at after each action only, and still none is ever
\* exceeded; a tool-and-argument combination is called once.
BudgetsHold ==
  /\ iterations <= MaxIterations
  /\ toolCalls <= MaxToolCalls /\ toolCalls = Cardinality(executed)
  /\ toolErrors <= MaxToolErrors
  /\ duplicates <= NoProgressLimit
  /\ repairs <= MaxRepairAttempts + 1
  /\ Cardinality(Retrieved) <= MaxContextSections

\* However the loop was left, an investigation completes on sufficient
\* evidence, with a stopping reason, and with an assessment of this incident
\* that cites only sections still in the context.
CompletionIsGrounded ==
  node = "complete" =>
    /\ Sufficient
    /\ reason # None
    /\ assessment.sameIncident /\ assessment.citations \subseteq Retrieved

\* No assessment is generated, and none repaired, on insufficient evidence.
GenerationIsGrounded ==
  node \in {"generate", "validate"} => Sufficient /\ reason # None

\* What a stopping reason says of the counters.
Holds(r) ==
  /\ r = "runtime_limit"    => late
  /\ r = "tool_error_limit" => toolErrors = MaxToolErrors
  /\ r = "no_progress"      => Stalled
  /\ r = "max_tool_calls"   => toolCalls = MaxToolCalls
  /\ r = "max_iterations"   => iterations = MaxIterations
  /\ r = "model_finished"   => decision.kind = "finalize" /\ Acceptable(decision.evidence)

\* The stopping reason on the report is the budget at which the router ended
\* the loop, or that the planner finished when it found none.  As it is worked
\* out a second time, by a later clock, there is one exception: the deadline
\* may have passed between the two, and then takes the place of that budget.
ReasonIsTrue ==
  /\ limit # None => Holds(limit)
  /\ node \in {"generate", "validate", "complete"} =>
       \/ limit = None /\ reason = "model_finished" /\ Holds(reason)
       \/ limit # None /\ reason = limit
       \/ limit # None /\ reason = "runtime_limit" /\ late

\* The graph runs at most this many nodes, whatever models and tools answer: it
\* ends, within what the recursion limit of the graph runtime has to allow.
SuperstepBound == 2 * MaxIterations + 2 * MaxRepairAttempts + 5
SuperstepsBounded == supersteps <= SuperstepBound

\* Evidence is never lost: once sufficient it stays so, although merging new
\* sections pushes old ones out of the context.
SufficiencyIsStable == [][Sufficient => Sufficient']_vars

\* README.md, Stopping conditions: if a budget is reached after sufficient
\* evidence exists, an assessment is synthesized; a job fails for a limit
\* only when evidence is still insufficient.
LimitFailsInsufficient == node = "limit" => ~ Sufficient
=============================================================================
