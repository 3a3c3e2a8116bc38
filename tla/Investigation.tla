---------------------------- MODULE Investigation ----------------------------
(***************************************************************************)
(* The queue and the investigation put together: one of the workers of     *)
(* JobQueue runs the graph of ReActGraph inside each of its attempts, the  *)
(* others stay as abstract as JobQueue has them.                           *)
(*                                                                         *)
(* run_worker compiles the graph once and invokes it for job after job     *)
(* (commands/run_worker.py); execute_claimed_and_persist_investigation     *)
(* turns what it returned or raised into the outcome of the attempt        *)
(* (services/investigation_execution.py).  A lost heartbeat, a crash or a  *)
(* shutdown cancels the graph between any two of its nodes.                *)
(***************************************************************************)
EXTENDS ReActGraph

CONSTANTS
  Jobs, Workers, Clis, MaxAttempts, KnownJobs, LongIdWorkers, OperatorTargets,
  StallPossible, MaxFaults,
  Investigator     \* the worker whose investigations are modelled

VARIABLES
  job, report, pc, task, op, hb, cli, cliJob, faults,
  stored    \* the provenance columns of investigation_reports, by job_id

Queue == INSTANCE JobQueue

ASSUME InvestigationAssumption ==
  /\ Queue!QueueAssumption
  /\ Investigator \in Workers

queueVars == <<job, report, pc, task, op, hb, cli, cliJob, faults>>
allVars   == <<queueVars, vars, stored>>

Investigating == pc[Investigator] = "running" /\ op[Investigator] = "workflow"

-----------------------------------------------------------------------------
(* What an attempt hands over *)

\* The result of WorkflowEnds.  Only the errors of the model gateway are tried
\* again; a limit, missing evidence, an invalid assessment and every other
\* exception end the job.
ResultOf(n) ==
  CASE n = "complete"  -> "persist"
    [] n = "transient" -> "transient"
    [] OTHER           -> "error"

\* InvestigationReportCreate, from the last state of the graph.  The evidence of
\* a report is its trajectory: observed_evidence_ids is not stored.
Provenance ==
  [citations |-> assessment.citations, sections |-> Retrieved, trajectory |-> steps,
   reason |-> reason, iterations |-> iterations, toolCalls |-> toolCalls]

NoProvenance ==
  [citations |-> {}, sections |-> {}, trajectory |-> <<>>,
   reason |-> None, iterations |-> 0, toolCalls |-> 0]

-----------------------------------------------------------------------------
InvestigationInit ==
  /\ Queue!Init
  /\ Init
  /\ stored = [j \in Jobs |-> NoProvenance]

\* What a step of the queue means for the graph: it does not end the graph with
\* a result, but when it ends the attempt it cancels the graph, and the next
\* attempt invokes it anew; the report that it writes is that of the graph.
Follows ==
  /\ Investigating => op'[Investigator] \in {"workflow", None}
  /\ IF op[Investigator] # None /\ op'[Investigator] = None
     THEN Invoke ELSE UNCHANGED vars
  /\ stored' = [j \in Jobs |->
       IF report'[j] = Investigator /\ report[j] = None THEN Provenance ELSE stored[j]]

QueueStep == Queue!Next /\ Follows

\* A node of the graph runs.
GraphStep ==
  /\ Investigating
  /\ node \in Nodes
  /\ Next
  /\ UNCHANGED <<queueVars, stored>>

\* Mutant: what the graph raised is lost with its task.
GraphReturns ==
  /\ node = "complete"
  /\ Queue!WorkflowEnds(Investigator, ResultOf(node))
  /\ UNCHANGED <<vars, stored>>

\* ainvoke returns or raises.
GraphEnds ==
  /\ node \notin Nodes
  /\ Queue!WorkflowEnds(Investigator, ResultOf(node))
  /\ UNCHANGED <<vars, stored>>

InvestigationNext ==
  \/ QueueStep
  \/ GraphStep
  \/ GraphEnds

InvestigationSpec == InvestigationInit /\ [][InvestigationNext]_allVars

(***************************************************************************)
(* Fairness.  As in JobQueue, except that nothing is said of how long the  *)
(* investigation takes: its nodes run, one after the other, because every  *)
(* call of a model or of a tool ends, with an answer, an error or the      *)
(* deadline.                                                               *)
(***************************************************************************)
InvestigatorRuns ==
  \/ GraphStep
  \/ GraphEnds
  \/ Queue!WorkerRuns(Investigator) /\ Follows

InvestigationFairness ==
  /\ WF_allVars(InvestigatorRuns)
  /\ \A w \in Workers \ {Investigator} : WF_allVars(Queue!WorkerRuns(w) /\ Follows)
  /\ \A w \in Workers :
       /\ WF_allVars((\E j \in Jobs : Queue!ClaimJob(w, j, TRUE)) /\ Follows)
       /\ WF_allVars(Queue!ClaimNothing(w, TRUE) /\ Follows)
  /\ \A c \in Clis : WF_allVars(Queue!CliRuns(c) /\ Follows)
  /\ \A j \in Jobs : WF_allVars(Queue!TimeStep(j) /\ Follows)

InvestigationFairSpec == InvestigationSpec /\ InvestigationFairness

-----------------------------------------------------------------------------
\* As in JobQueue: no two processes work on one job.
HoldsItsJob == Queue!HoldsItsJob

\* Whatever attempts were cancelled, retried or lost before it, the report that
\* an attempt stores is its own and can be audited from its columns alone.  It
\* cites sections of its traces; calls of its trajectory showed these, and
\* enough diagnostics.  Each step of the trajectory is traced: what a call names
\* is evidence of its tool, and a finalization that names IDs which no earlier
\* step showed is marked as an error.  There is one step for each iteration, the
\* calls counted are in it, and the planner finished with an accepted step.
StoredReportsAreGrounded ==
  \A j \in Jobs : report[j] = Investigator =>
    LET p     == stored[j]
        t     == p.trajectory
        calls == {i \in DOMAIN t : IsCall(t[i])}
    IN
    /\ p.citations # {} /\ p.citations \subseteq p.sections
    /\ p.sections \subseteq ShownBy(t, Len(t))
    /\ Cardinality(ShownBy(t, Len(t)) \intersect Diagnostics) >= MinEvidenceItems
    /\ \A i \in DOMAIN t : IsTraced(t, i)
    /\ Len(t) = p.iterations /\ p.iterations <= MaxIterations
    /\ p.toolCalls <= Cardinality(calls) /\ p.toolCalls <= MaxToolCalls
    /\ p.reason \in Reasons
    /\ p.reason = "model_finished" => IsAccepted(t[Len(t)])

\* The queue with the investigation in it is the queue of JobQueue, fairness
\* included: that investigations end, which JobQueue assumes, follows from the
\* budgets of the graph.
ImplementsQueue == Queue!FairSpec
=============================================================================
