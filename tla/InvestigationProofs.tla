------------------------- MODULE InvestigationProofs -------------------------
(***************************************************************************)
(* Theorems about Investigation, for any queue, tools and budgets.         *)
(*                                                                         *)
(* What ReActGraphProofs knows of the graph while it runs holds of every   *)
(* attempt, because a cancelled graph is invoked anew; the result of the   *)
(* graph is handed over to the queue, which persists it in the same        *)
(* attempt, before anything of the graph has changed.                      *)
(***************************************************************************)
EXTENDS Investigation, ReActGraphProofs

\* What the columns of a report have to say of it.
Auditable(p) ==
  /\ p.citations # {} /\ p.citations \subseteq p.sections
  /\ p.sections \subseteq ShownBy(p.trajectory, Len(p.trajectory))
  /\ Cardinality(ShownBy(p.trajectory, Len(p.trajectory)) \intersect Diagnostics)
       >= MinEvidenceItems
  /\ \A i \in DOMAIN p.trajectory : IsTraced(p.trajectory, i)
  /\ Len(p.trajectory) = p.iterations /\ p.iterations <= MaxIterations
  /\ p.toolCalls <= Cardinality(Calls(p.trajectory)) /\ p.toolCalls <= MaxToolCalls
  /\ p.reason \in Reasons
  /\ p.reason = "model_finished" => IsAccepted(p.trajectory[Len(p.trajectory)])

QueueTypes ==
  /\ pc     \in [Workers -> {"polling", "running", "fail", "requeue", "stopped"}]
  /\ op     \in [Workers -> {None, "workflow", "persist", "transient", "error",
                             "committed"}]
  /\ report \in [Jobs -> Workers \union Clis \union {None}]

\* The inductive invariant.
Composed ==
  /\ IInv /\ Traced
  /\ QueueTypes
  /\ op[Investigator] = "persist" => node = "complete"
  /\ \A j \in Jobs : report[j] = Investigator => Auditable(stored[j])

-----------------------------------------------------------------------------
(* The graph *)

\* Once the graph is complete, its state makes an auditable report.
LEMMA CompletionIsAuditable ==
  ASSUME IInv, Traced, node = "complete"
  PROVE  Auditable(Provenance)
<1>1. Sufficient /\ reason \in Reasons
  BY DEF IInv, TypeOK, Grounded, Reasoned
<1>2. assessment.citations # {} /\ assessment.citations \subseteq Retrieved
  <2>1. assessment.sameIncident  BY DEF IInv, Grounded
  <2>2. assessment \in Assessments  BY <2>1 DEF IInv, TypeOK, NoAssessment
  <2>. QED  BY <2>2 DEF IInv, Grounded, Assessments
<1>3. toolCalls <= MaxToolCalls /\ iterations <= MaxIterations
  BY DEF IInv, Budgeted
<1>4. /\ Retrieved \subseteq ShownBy(steps, Len(steps))
      /\ Cardinality(ShownBy(steps, Len(steps)) \intersect Diagnostics) >= MinEvidenceItems
  BY <1>1 DEF Traced, Sufficient
<1>5. /\ \A i \in DOMAIN steps : IsTraced(steps, i)
      /\ Len(steps) = iterations /\ toolCalls <= Cardinality(Calls(steps))
      /\ reason = "model_finished" => IsAccepted(steps[Len(steps)])
  BY DEF Traced
<1>. QED  BY <1>1, <1>2, <1>3, <1>4, <1>5 DEF Auditable, Provenance

\* An invocation of the graph starts as the first one did.
LEMMA InvokeKeepsInvariants == ASSUME Invoke PROVE IInv' /\ Traced'
<1>1. Init'  BY DEF Invoke, Init
<1>2. (Init => IInv /\ Traced)'
  BY InitIInv, InitTraced, PTL
<1>. QED  BY <1>1, <1>2

-----------------------------------------------------------------------------
(* The queue *)

\* Only the end of its graph gives the investigator a result to persist, and
\* only it persists reports in its name, from such a result.
LEMMA WorkerHandsOver ==
  ASSUME QueueTypes, NEW w \in Workers, Queue!WorkerStep(w)
  PROVE  /\ QueueTypes'
         /\ op'[Investigator] = "persist" =>
              op[Investigator] = "persist" \/ Investigating
         /\ \A j \in Jobs : report'[j] = Investigator =>
              \/ report[j] = Investigator
              \/ report[j] = None /\ op[Investigator] = "persist"
<1>. USE InvestigationAssumption DEF QueueTypes, Queue!None, None, Queue!workerVars, Queue!cliVars
<1>1. CASE \E acked \in BOOLEAN : Queue!Persist(w, acked)
  BY <1>1 DEF Queue!Persist, Queue!CanPersist, Queue!CompleteRow, Queue!Ack
<1>2. CASE \/ \E acked \in BOOLEAN :
                \/ \E j \in Jobs : Queue!ClaimJob(w, j, acked)
                \/ Queue!ClaimNothing(w, acked)
                \/ Queue!Heartbeat(w, acked)
                \/ Queue!MarkFailed(w, acked)
                \/ Queue!Requeue(w, acked)
  BY <1>2 DEF Queue!ClaimJob, Queue!ClaimNothing, Queue!Heartbeat, Queue!MarkFailed,
              Queue!Requeue, Queue!Settle, Queue!LeaveJob
<1>3. CASE \/ \E result \in {"persist", "transient", "error"} : Queue!WorkflowEnds(w, result)
           \/ Queue!HeartbeatLost(w)
           \/ Queue!OperationReturns(w)
           \/ Queue!OperationRaises(w)
  BY <1>3 DEF Queue!WorkflowEnds, Queue!HeartbeatLost, Queue!OperationReturns,
              Queue!OperationRaises, Queue!LeaveJob, Queue!LeaveTasks, Investigating
<1>4. CASE Queue!TransactionFails(w) \/ Queue!Crash(w) \/ Queue!Restart(w)
  BY <1>4 DEF Queue!TransactionFails, Queue!Crash, Queue!Restart, Queue!LeaveJob
<1>. QED  BY <1>1, <1>2, <1>3, <1>4 DEF Queue!WorkerStep

LEMMA QueueHandsOver ==
  ASSUME QueueTypes, Queue!Next
  PROVE  /\ QueueTypes'
         /\ op'[Investigator] = "persist" =>
              op[Investigator] = "persist" \/ Investigating
         /\ \A j \in Jobs : report'[j] = Investigator =>
              \/ report[j] = Investigator
              \/ report[j] = None /\ op[Investigator] = "persist"
<1>1. CASE \E j \in Jobs : Queue!OperatorStep(j) \/ Queue!TimeStep(j)
  BY <1>1 DEF QueueTypes, Queue!OperatorStep, Queue!TimeStep, Queue!CreateJob,
              Queue!UpdateJobStatus, Queue!ExpireLease, Queue!BecomeDue, Queue!workerVars
<1>2. CASE \E w \in Workers : Queue!WorkerStep(w)
  BY <1>2, WorkerHandsOver
<1>3. CASE \E c \in Clis : Queue!CliStep(c)
  <2>1. PICK c \in Clis : Queue!CliStep(c)  BY <1>3
  <2>2. UNCHANGED <<pc, op>>
    BY <2>1 DEF Queue!CliStep, Queue!CliStart, Queue!CliWorkflowEnds, Queue!CliPersist,
                Queue!CliMarkFailed, Queue!CliAborts, Queue!workerVars
  <2>3. report' = report \/ \E j \in Jobs : report' = [report EXCEPT ![j] = c]
    BY <2>1 DEF Queue!CliStep, Queue!CliStart, Queue!CliWorkflowEnds, Queue!CliPersist,
                Queue!CliMarkFailed, Queue!CliAborts, QueueTypes
  <2>. QED
    BY <2>2, <2>3, InvestigationAssumption DEF QueueTypes, Queue!QueueAssumption
<1>. QED  BY <1>1, <1>2, <1>3 DEF Queue!Next

-----------------------------------------------------------------------------
(* The two together *)

LEMMA InitComposed == ASSUME InvestigationInit PROVE Composed
<1>1. IInv /\ Traced
  BY InitIInv, InitTraced DEF InvestigationInit
<1>2. /\ QueueTypes /\ op[Investigator] = None
      /\ \A j \in Jobs : report[j] = None
  BY InvestigationAssumption
  DEF InvestigationInit, Queue!Init, QueueTypes, Queue!None, None
<1>3. Investigator # None
  BY InvestigationAssumption DEF Queue!QueueAssumption, Queue!None, None
<1>. QED  BY <1>1, <1>2, <1>3 DEF Composed, None

LEMMA QueueStepKeepsComposed ==
  ASSUME Composed, QueueStep
  PROVE  Composed'
<1>1. QueueTypes'
  BY QueueHandsOver DEF Composed, QueueStep
<1>2. IInv' /\ Traced'
  <2>1. CASE op[Investigator] # None /\ op'[Investigator] = None
    BY <2>1, InvokeKeepsInvariants DEF QueueStep, Follows
  <2>2. CASE ~ (op[Investigator] # None /\ op'[Investigator] = None)
    <3>1. UNCHANGED vars  BY <2>2 DEF QueueStep, Follows
    <3>. QED  BY <3>1, StepIInv, StepTraced DEF Composed
  <2>. QED  BY <2>1, <2>2
<1>3. op'[Investigator] = "persist" => node' = "complete"
  <2>. SUFFICES ASSUME op'[Investigator] = "persist" PROVE node' = "complete"
    OBVIOUS
  <2>1. ~ Investigating  BY DEF QueueStep, Follows, None
  <2>2. op[Investigator] = "persist"
    BY <2>1, QueueHandsOver DEF Composed, QueueStep
  <2>3. UNCHANGED vars  BY DEF QueueStep, Follows, None
  <2>. QED  BY <2>2, <2>3 DEF Composed, vars
<1>4. ASSUME NEW j \in Jobs, report'[j] = Investigator
      PROVE  Auditable(stored'[j])
  <2>1. CASE report[j] = Investigator
    <3>1. report[j] # None
      BY <2>1, InvestigationAssumption DEF Queue!QueueAssumption, Queue!None, None
    <3>2. stored'[j] = stored[j]  BY <3>1 DEF QueueStep, Follows
    <3>. QED  BY <2>1, <3>2 DEF Composed
  <2>2. CASE report[j] = None /\ op[Investigator] = "persist"
    <3>1. Auditable(Provenance)  BY <2>2, CompletionIsAuditable DEF Composed
    <3>2. stored'[j] = Provenance  BY <1>4, <2>2 DEF QueueStep, Follows
    <3>. QED  BY <3>1, <3>2
  <2>. QED  BY <1>4, <2>1, <2>2, QueueHandsOver DEF Composed, QueueStep
<1>. QED  BY <1>1, <1>2, <1>3, <1>4 DEF Composed

LEMMA StepKeepsComposed ==
  ASSUME Composed, [InvestigationNext]_allVars
  PROVE  Composed'
<1>1. CASE QueueStep
  BY <1>1, QueueStepKeepsComposed
<1>2. CASE GraphStep
  <2>1. IInv' /\ Traced'
    BY <1>2, StepIInv, StepTraced DEF GraphStep, Composed
  <2>2. op[Investigator] = "workflow" /\ UNCHANGED <<pc, op, report, stored>>
    BY <1>2 DEF GraphStep, Investigating, queueVars
  <2>. QED  BY <2>1, <2>2 DEF Composed, QueueTypes
<1>3. CASE GraphEnds
  <2>1. IInv' /\ Traced'
    BY <1>3, StepIInv, StepTraced DEF GraphEnds, Composed
  <2>2. /\ UNCHANGED <<pc, report, stored, node>>
        /\ op' = [op EXCEPT ![Investigator] = ResultOf(node)]
    BY <1>3 DEF GraphEnds, Queue!WorkflowEnds, vars
  <2>3. /\ ResultOf(node) \in {"persist", "transient", "error"}
        /\ ResultOf(node) = "persist" => node = "complete"
    BY DEF ResultOf
  <2>. QED
    BY <2>1, <2>2, <2>3, InvestigationAssumption DEF Composed, QueueTypes
<1>4. CASE UNCHANGED allVars
  <2>1. IInv' /\ Traced'
    BY <1>4, StepIInv, StepTraced DEF allVars, Composed
  <2>. QED  BY <1>4, <2>1 DEF allVars, queueVars, vars, Composed, QueueTypes
<1>. QED  BY <1>1, <1>2, <1>3, <1>4 DEF InvestigationNext

\* Graph, queue and stored reports fit together at every step.
THEOREM CompositionInvariant == InvestigationSpec => []Composed
<1>1. InvestigationInit => Composed  BY InitComposed
<1>2. Composed /\ [InvestigationNext]_allVars => Composed'  BY StepKeepsComposed
<1>. QED  BY <1>1, <1>2, PTL DEF InvestigationSpec

-----------------------------------------------------------------------------
(* The theorems *)

\* Every report that an attempt stores is its own and can be audited.
THEOREM StoredReportsAreAuditable == InvestigationSpec => []StoredReportsAreGrounded
<1>1. Composed => StoredReportsAreGrounded
  BY DEF Composed, Auditable, Calls, StoredReportsAreGrounded
<1>. QED  BY <1>1, CompositionInvariant, PTL

\* The budgets, and the grounds of what completes, hold in every attempt of
\* every job, as they do in a single run of the graph.
THEOREM AttemptsAreBounded ==
  InvestigationSpec => [](BudgetsHold /\ SuperstepsBounded /\ CompletionIsGrounded)
<1>1. Composed => BudgetsHold /\ SuperstepsBounded /\ CompletionIsGrounded
  BY DEF Composed, IInv, Budgeted, Counted, Grounded, Reasoned, BudgetsHold,
         SuperstepsBounded, CompletionIsGrounded
<1>. QED  BY <1>1, CompositionInvariant, PTL

\* With the investigation in it the queue is still the one of JobQueue, so that
\* whatever is proved of that specification holds here.
THEOREM InvestigationRefinesQueue == InvestigationSpec => Queue!Spec
<1>1. InvestigationInit => Queue!Init
  BY DEF InvestigationInit
<1>2. [InvestigationNext]_allVars => [Queue!Next]_(Queue!vars)
  <2>1. QueueStep => Queue!Next
    BY DEF QueueStep
  <2>2. GraphStep \/ UNCHANGED allVars => UNCHANGED Queue!vars
    BY DEF GraphStep, allVars, queueVars, Queue!vars, Queue!workerVars, Queue!cliVars
  <2>3. GraphEnds => Queue!Next
    <3>1. ResultOf(node) \in {"persist", "transient", "error"}
      BY DEF ResultOf
    <3>2. GraphEnds => Queue!WorkerStep(Investigator)
      BY <3>1 DEF GraphEnds, Queue!WorkerStep
    <3>. QED  BY <3>2, InvestigationAssumption DEF Queue!Next
  <2>. QED  BY <2>1, <2>2, <2>3 DEF InvestigationNext
<1>. QED  BY <1>1, <1>2, PTL DEF InvestigationSpec, Queue!Spec

-----------------------------------------------------------------------------
(* What is proved of the queue holds with the investigation in it *)

QueueFacts == INSTANCE JobQueueProofs

\* Investigation and the theorems of JobQueueProofs have one and the same queue.
LEMMA OneQueue ==
  /\ Queue!Init = QueueFacts!Init
  /\ Queue!Next = QueueFacts!Next
  /\ Queue!HoldsItsJob = QueueFacts!HoldsItsJob
BY ZenonT(60)
   DEF Queue!Init, Queue!NewRow, Queue!None, Queue!Next, Queue!OperatorStep, Queue!CreateJob,
       Queue!workerVars, Queue!cliVars, Queue!UpdateJobStatus,
       Queue!ALLOWED_STATUS_TRANSITIONS, Queue!Status, Queue!Terminal, Queue!CompleteRow,
       Queue!FailRow, Queue!TimeStep, Queue!ExpireLease, Queue!Works, Queue!BecomeDue,
       Queue!WorkerStep, Queue!ClaimJob, Queue!Available, Queue!Processing, Queue!Swept,
       Queue!Exhausted, Queue!ClaimRow, Queue!LeaveJob, Queue!Ack, Queue!Fault,
       Queue!ClaimNothing, Queue!Persist, Queue!CanPersist, Queue!Heartbeat, Queue!Renewable,
       Queue!MarkFailed, Queue!Settle, Queue!Requeue, Queue!RequeueRow, Queue!RetryRow,
       Queue!WorkflowEnds, Queue!HeartbeatLost, Queue!LeaveTasks, Queue!OperationReturns,
       Queue!OperationRaises, Queue!TransactionFails, Queue!Crash, Queue!Restart,
       Queue!CliStep, Queue!CliStart, Queue!StartRow, Queue!Direct, Queue!CliWorkflowEnds,
       Queue!CliPersist, Queue!CliExits, Queue!CliMarkFailed, Queue!CliAborts,
       Queue!HoldsItsJob, Queue!Executes, QueueFacts!Init, QueueFacts!NewRow, QueueFacts!None,
       QueueFacts!Next, QueueFacts!OperatorStep, QueueFacts!CreateJob, QueueFacts!workerVars,
       QueueFacts!cliVars, QueueFacts!UpdateJobStatus, QueueFacts!ALLOWED_STATUS_TRANSITIONS,
       QueueFacts!Status, QueueFacts!Terminal, QueueFacts!CompleteRow, QueueFacts!FailRow,
       QueueFacts!TimeStep, QueueFacts!ExpireLease, QueueFacts!Works, QueueFacts!BecomeDue,
       QueueFacts!WorkerStep, QueueFacts!ClaimJob, QueueFacts!Available, QueueFacts!Processing,
       QueueFacts!Swept, QueueFacts!Exhausted, QueueFacts!ClaimRow, QueueFacts!LeaveJob,
       QueueFacts!Ack, QueueFacts!Fault, QueueFacts!ClaimNothing, QueueFacts!Persist,
       QueueFacts!CanPersist, QueueFacts!Heartbeat, QueueFacts!Renewable,
       QueueFacts!MarkFailed, QueueFacts!Settle, QueueFacts!Requeue, QueueFacts!RequeueRow,
       QueueFacts!RetryRow, QueueFacts!WorkflowEnds, QueueFacts!HeartbeatLost,
       QueueFacts!LeaveTasks, QueueFacts!OperationReturns, QueueFacts!OperationRaises,
       QueueFacts!TransactionFails, QueueFacts!Crash, QueueFacts!Restart, QueueFacts!CliStep,
       QueueFacts!CliStart, QueueFacts!StartRow, QueueFacts!Direct, QueueFacts!CliWorkflowEnds,
       QueueFacts!CliPersist, QueueFacts!CliExits, QueueFacts!CliMarkFailed,
       QueueFacts!CliAborts, QueueFacts!HoldsItsJob, QueueFacts!Executes

LEMMA QueueAssumed == QueueFacts!QueueAssumption
BY InvestigationAssumption
   DEF Queue!QueueAssumption, QueueFacts!QueueAssumption, Queue!None, QueueFacts!None,
       Queue!Direct, QueueFacts!Direct, Queue!Terminal, QueueFacts!Terminal

LEMMA InvestigationIsQueue == InvestigationSpec => QueueFacts!Spec
<1>1. Queue!Init => QueueFacts!Init  BY OneQueue
<1>2. [Queue!Next]_(Queue!vars) => [QueueFacts!Next]_(QueueFacts!vars)
  BY OneQueue
  DEF Queue!vars, Queue!workerVars, Queue!cliVars,
      QueueFacts!vars, QueueFacts!workerVars, QueueFacts!cliVars
<1>. QED  BY <1>1, <1>2, InvestigationRefinesQueue, PTL DEF Queue!Spec, QueueFacts!Spec

\* No two processes work on one job while the graph runs node by node, as long as
\* no lease runs out under a worker that still works and no operator ends a
\* running job.
THEOREM InvestigatorsAreExclusive ==
  ASSUME ~ StallPossible, OperatorTargets \subseteq {"processing"}
  PROVE  InvestigationSpec => []HoldsItsJob
<1>1. QueueFacts!NoInterference  BY DEF QueueFacts!NoInterference
<1>2. QueueFacts!Spec => []QueueFacts!HoldsItsJob
  BY <1>1, QueueAssumed, QueueFacts!HoldersAreExclusive, PTL
<1>3. QueueFacts!HoldsItsJob => HoldsItsJob  BY OneQueue DEF HoldsItsJob
<1>. QED  BY <1>2, <1>3, InvestigationIsQueue, PTL

\* Whatever the investigation does: a report that was committed stays that of its
\* job, a claim takes no row from a holder, and what is finished is left alone.
THEOREM QueueKeepsItsPromises ==
  InvestigationSpec =>
    /\ []QueueFacts!CommittedIsDurable
    /\ QueueFacts!ClaimsAreExclusive
    /\ QueueFacts!FinishedIsFrozen
    /\ QueueFacts!ImplementsLifecycle
BY InvestigationIsQueue, QueueAssumed, QueueFacts!CommittedReportsAreDurable,
   QueueFacts!NoDoubleClaims, QueueFacts!FinishedJobsAreFrozen,
   QueueFacts!QueueImplementsLifecycle, PTL
=============================================================================
