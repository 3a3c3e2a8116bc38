--------------------------- MODULE ReActGraphProofs ---------------------------
(***************************************************************************)
(* What ReActGraph promises, for any tools, evidence, sections, scores and *)
(* budgets.                                                                *)
(*                                                                         *)
(* The first part is about the context: of any non-empty set of sections   *)
(* one is ahead of all others and one behind, so that keeping those with   *)
(* fewer than the limit ahead keeps at least one and at most the limit.    *)
(* The second part is the inductive invariant of the graph: what is known  *)
(* at each node about budgets, evidence, reason and nodes run so far.      *)
(***************************************************************************)
EXTENDS ReActGraph, FiniteSetTheorems, TLAPS

ScoreTables == [Sections -> 0..MaxScore]

-----------------------------------------------------------------------------
(* The order of sections *)

LEMMA SectionsAreFinite == IsFiniteSet(Sections)
BY FS_Interval, GraphAssumption DEF Sections

\* Ahead is a strict total order.
LEMMA AheadIsTotal ==
  ASSUME NEW f \in ScoreTables
  PROVE  /\ \A s \in Sections : ~ Ahead(f, s, s)
         /\ \A s, t \in Sections : s # t => Ahead(f, s, t) \/ Ahead(f, t, s)
         /\ \A s, t, u \in Sections : Ahead(f, s, t) /\ Ahead(f, t, u) => Ahead(f, s, u)
<1>1. \A s \in Sections : f[s] \in Int /\ s \in Int
  BY GraphAssumption DEF ScoreTables, Sections
<1>. QED  BY <1>1 DEF Ahead

\* The elements of S that are ahead of s.
Leaders(f, S, s) == {t \in S : Ahead(f, t, s)}

\* No section of S is ahead of the first one.
LEMMA SomeSectionIsFirst ==
  ASSUME NEW f \in ScoreTables, NEW S \in SUBSET Sections, S # {}
  PROVE  \E s \in S : Leaders(f, S, s) = {}
<1>. DEFINE T == {Leaders(f, S, s) : s \in S}
<1>1. IsFiniteSet(S)  BY SectionsAreFinite, FS_Subset
<1>2. T \subseteq FiniteSubsetsOf(S)
  BY <1>1, FS_Subset DEF FiniteSubsetsOf, Leaders
<1>3. PICK L \in T : \A M \in T : <<M, L>> \notin StrictSubsetOrdering(S)
  <2>1. T # {}  OBVIOUS
  <2>. HIDE DEF T
  <2>. QED  BY <1>2, <2>1, WFMin, FS_StrictSubsetOrderingWellFounded
<1>4. PICK s \in S : L = Leaders(f, S, s)  OBVIOUS
<1>5. ASSUME NEW t \in Leaders(f, S, s) PROVE FALSE
  <2>1. t \in S /\ Ahead(f, t, s)  BY DEF Leaders
  <2>2. Leaders(f, S, t) \subseteq L /\ t \in L /\ t \notin Leaders(f, S, t)
    BY <1>4, <2>1, AheadIsTotal DEF Leaders
  <2>3. <<Leaders(f, S, t), L>> \in StrictSubsetOrdering(S)
    BY <1>4, <2>2 DEF StrictSubsetOrdering, Leaders
  <2>. QED  BY <1>3, <2>1, <2>3
<1>. QED  BY <1>4, <1>5

\* All other sections of S are ahead of the last one.
LEMMA SomeSectionIsLast ==
  ASSUME NEW f \in ScoreTables, NEW S \in SUBSET Sections, S # {}
  PROVE  \E s \in S : Leaders(f, S, s) = S \ {s}
<1>. DEFINE Trail(s) == {t \in S : Ahead(f, s, t)}
            T == {Trail(s) : s \in S}
<1>1. IsFiniteSet(S)  BY SectionsAreFinite, FS_Subset
<1>2. T \subseteq FiniteSubsetsOf(S)
  BY <1>1, FS_Subset DEF FiniteSubsetsOf
<1>3. PICK L \in T : \A M \in T : <<M, L>> \notin StrictSubsetOrdering(S)
  <2>1. T # {}  OBVIOUS
  <2>. HIDE DEF T
  <2>. QED  BY <1>2, <2>1, WFMin, FS_StrictSubsetOrderingWellFounded
<1>4. PICK s \in S : L = Trail(s)  OBVIOUS
<1>5. ASSUME NEW t \in Trail(s) PROVE FALSE
  <2>1. t \in S /\ Ahead(f, s, t)  OBVIOUS
  <2>2. Trail(t) \subseteq L /\ t \in L /\ t \notin Trail(t)
    BY <1>4, <2>1, AheadIsTotal
  <2>3. <<Trail(t), L>> \in StrictSubsetOrdering(S)
    BY <1>4, <2>2 DEF StrictSubsetOrdering
  <2>. QED  BY <1>3, <2>1, <2>3
<1>6. \A t \in S : t # s => Ahead(f, t, s)
  BY <1>5, AheadIsTotal
<1>7. Leaders(f, S, s) = S \ {s}
  BY <1>6, AheadIsTotal DEF Leaders
<1>. QED  BY <1>7

-----------------------------------------------------------------------------
(* The context *)

Scored(f) == {s \in Sections : f[s] > 0}

LEMMA KeepBestType ==
  ASSUME NEW f \in ScoreTables
  PROVE  KeepBest(f) \in ScoreTables /\ Scored(KeepBest(f)) \subseteq Scored(f)
BY GraphAssumption DEF KeepBest, ScoreTables, Scored

LEMMA MergeType ==
  ASSUME NEW f \in ScoreTables, NEW g \in ScoreTables
  PROVE  MergeSections(f, g) \in ScoreTables
BY KeepBestType DEF MergeSections, ScoreTables

\* The context never outgrows its limit.
LEMMA KeepBestIsBounded ==
  ASSUME NEW f \in ScoreTables
  PROVE  Cardinality(Scored(KeepBest(f))) <= MaxContextSections
<1>. DEFINE S == Scored(KeepBest(f))
<1>1. /\ S \in SUBSET Sections /\ S \subseteq Scored(f)
      /\ Scored(f) \in SUBSET Sections
  BY KeepBestType DEF Scored
<1>2. IsFiniteSet(S) /\ IsFiniteSet(Scored(f))
  BY <1>1, SectionsAreFinite, FS_Subset
<1>3. CASE S = {}
  BY <1>3, FS_EmptySet, GraphAssumption
<1>4. CASE S # {}
  <2>1. PICK s \in S : Leaders(f, S, s) = S \ {s}
    <3>. HIDE DEF S
    <3>. QED  BY <1>1, <1>4, SomeSectionIsLast
  <2>2. s \in Sections /\ KeepBest(f)[s] > 0
    BY DEF Scored
  <2>3. Cardinality(Leaders(f, Scored(f), s)) < MaxContextSections
    <3>1. Leaders(f, Scored(f), s) = {t \in Sections : f[t] > 0 /\ Ahead(f, t, s)}
      BY DEF Leaders, Scored
    <3>. QED  BY <2>2, <3>1 DEF KeepBest
  <2>4. /\ IsFiniteSet(Leaders(f, Scored(f), s))
        /\ S \ {s} \subseteq Leaders(f, Scored(f), s)
    <3>1. Leaders(f, Scored(f), s) \subseteq Scored(f)  BY DEF Leaders
    <3>2. Leaders(f, S, s) \subseteq Leaders(f, Scored(f), s)
      BY <1>1 DEF Leaders
    <3>. HIDE DEF S
    <3>. QED  BY <1>2, <2>1, <3>1, <3>2, FS_Subset
  <2>5. Cardinality(S \ {s}) = Cardinality(S) - 1
    <3>. HIDE DEF S
    <3>. QED  BY <1>2, FS_RemoveElement
  <2>6. /\ Cardinality(S) \in Nat
        /\ Cardinality(Leaders(f, Scored(f), s)) \in Nat
        /\ Cardinality(S \ {s}) <= Cardinality(Leaders(f, Scored(f), s))
    <3>. HIDE DEF S
    <3>. QED  BY <1>2, <2>4, FS_CardinalityType, FS_Subset
  <2>. QED  BY <2>3, <2>5, <2>6, GraphAssumption
<1>. QED  BY <1>3, <1>4

\* The best section is kept.
LEMMA KeepBestKeepsOne ==
  ASSUME NEW f \in ScoreTables, Scored(f) # {}
  PROVE  Scored(KeepBest(f)) # {}
<1>1. Scored(f) \in SUBSET Sections  BY DEF Scored
<1>2. PICK s \in Scored(f) : Leaders(f, Scored(f), s) = {}
  BY <1>1, SomeSectionIsFirst
<1>3. {t \in Sections : f[t] > 0 /\ Ahead(f, t, s)} = {}
  BY <1>2 DEF Leaders, Scored
<1>4. KeepBest(f)[s] = f[s]
  BY <1>2, <1>3, FS_EmptySet, GraphAssumption DEF KeepBest, Scored
<1>. QED  BY <1>2, <1>4 DEF Scored

\* Merging never empties the context.
LEMMA MergeKeepsOne ==
  ASSUME NEW f \in ScoreTables, NEW g \in ScoreTables, Scored(f) # {}
  PROVE  Scored(MergeSections(f, g)) # {}
<1>. DEFINE h == [s \in Sections |-> IF g[s] > f[s] THEN g[s] ELSE f[s]]
<1>1. h \in ScoreTables  BY DEF ScoreTables
<1>2. Scored(f) \subseteq Scored(h)
  BY GraphAssumption DEF ScoreTables, Scored
<1>3. MergeSections(f, g) = KeepBest(h)  BY DEF MergeSections
<1>. HIDE DEF h
<1>. QED  BY <1>1, <1>2, <1>3, KeepBestKeepsOne

-----------------------------------------------------------------------------
(* The inductive invariant *)

Loop == {"choose", "execute", "finalize", "request", "limit_finalize", "stop"}

\* The budgets hold, and those of the loop are not used up while it goes on.
Budgeted ==
  /\ iterations <= MaxIterations /\ toolCalls <= MaxToolCalls
  /\ toolErrors <= MaxToolErrors /\ duplicates <= NoProgressLimit
  /\ toolCalls = Cardinality(executed)
  /\ node = "choose" => iterations < MaxIterations
  /\ node \in {"choose", "execute", "finalize", "request"} =>
       toolCalls < MaxToolCalls /\ toolErrors < MaxToolErrors /\ duplicates < NoProgressLimit
  /\ repairs <= MaxRepairAttempts + 1
  /\ node \in {"generate", "validate"} => repairs <= MaxRepairAttempts
  /\ node \in Loop => repairs = 0

\* What the nodes after the loop rest on, and the decision each node follows.
Grounded ==
  /\ node \in {"limit_finalize", "generate", "validate", "complete"} => Sufficient
  /\ node = "complete" => assessment.sameIncident /\ assessment.citations \subseteq Retrieved
  /\ Cardinality(Retrieved) <= MaxContextSections
  /\ node = "execute" => decision.kind = "tool"
  /\ node = "finalize" => decision.kind = "finalize"

\* There is no reason to stop until the loop is left, and then a true one; the
\* node that works it out again still finds the budgets as the router did.
Reasoned ==
  /\ node \in Loop \ {"limit_finalize"} => reason = None
  /\ node \in {"choose", "execute", "finalize", "request"} => limit = None
  /\ node \in {"limit_finalize", "stop"} => limit # None /\ limit = FirstLimit
  /\ node \in {"generate", "validate", "complete"} => reason # None
  /\ ReasonIsTrue

\* How many nodes have run.
Counted ==
  /\ node = "choose" => supersteps = 2 * iterations + 1
  /\ node \in {"execute", "finalize", "request"} => supersteps = 2 * iterations
  /\ node \in {"limit_finalize", "stop"} => supersteps = 2 * iterations + 1
  /\ node = "generate" => supersteps <= 2 * iterations + 2 * repairs + 2
  /\ node = "validate" => supersteps <= 2 * iterations + 2 * repairs + 3
  /\ node = "validation_failed" => supersteps < SuperstepBound
  /\ supersteps <= SuperstepBound

IInv == TypeOK /\ Budgeted /\ Grounded /\ Reasoned /\ Counted

-----------------------------------------------------------------------------
(* Lemmas about the operators of the graph *)

\* What is known where route_after_progress leads.
Routed ==
  /\ limit = FirstLimit
  /\ node \in {"choose", "generate", "limit_finalize", "stop"}
  /\ node \in {"choose", "generate"} => limit = None
  /\ node \in {"limit_finalize", "stop"} => limit # None
  /\ node = "limit_finalize" => Sufficient
  /\ node = "stop" => ~ Sufficient
  /\ node = "generate" => reason = "model_finished"
  /\ node = "choose" => reason # "model_finished"

LEMMA RouteLeads == Routes => Routed'
BY DEF Routes, RouteAfterProgress, Routed

WithinBudgets ==
  /\ iterations \in Nat /\ iterations <= MaxIterations
  /\ toolCalls \in Nat /\ toolCalls <= MaxToolCalls
  /\ toolErrors \in Nat /\ toolErrors <= MaxToolErrors
  /\ duplicates \in Nat

LimitFound ==
  /\ FirstLimit \in Limits \union {None}
  /\ FirstLimit # None => Holds(FirstLimit)
  /\ FirstLimit = None =>
       /\ iterations < MaxIterations /\ toolCalls < MaxToolCalls
       /\ toolErrors < MaxToolErrors /\ duplicates < NoProgressLimit

\* What the router finds is a budget that is used up.
LEMMA FirstLimitHolds == WithinBudgets => LimitFound
<1>. SUFFICES ASSUME WithinBudgets PROVE LimitFound  OBVIOUS
<1>. USE GraphAssumption DEF WithinBudgets, LimitFound
<1>1. FirstLimit \in Limits \union {None}
  BY DEF FirstLimit, Limits
<1>2. CASE late
  BY <1>1, <1>2 DEF FirstLimit, Holds, None
<1>3. CASE ~ late /\ toolErrors >= MaxToolErrors
  BY <1>1, <1>3 DEF FirstLimit, Holds, None
<1>4. CASE ~ late /\ ~ toolErrors >= MaxToolErrors /\ Stalled
  BY <1>1, <1>4 DEF FirstLimit, Holds, None
<1>5. CASE /\ ~ late /\ ~ toolErrors >= MaxToolErrors /\ ~ Stalled
           /\ toolCalls >= MaxToolCalls
  BY <1>1, <1>5 DEF FirstLimit, Holds, None
<1>6. CASE /\ ~ late /\ ~ toolErrors >= MaxToolErrors /\ ~ Stalled
           /\ ~ toolCalls >= MaxToolCalls /\ iterations >= MaxIterations
  BY <1>1, <1>6 DEF FirstLimit, Holds, None
<1>7. CASE /\ ~ late /\ ~ toolErrors >= MaxToolErrors /\ ~ Stalled
           /\ ~ toolCalls >= MaxToolCalls /\ ~ iterations >= MaxIterations
  BY <1>1, <1>7 DEF FirstLimit, Stalled, None
<1>. QED  BY <1>2, <1>3, <1>4, <1>5, <1>6, <1>7

LEMMA RetrievedIsScored == Retrieved = Scored(retrieved)
BY DEF Retrieved, Scored

LEMMA ObservationType ==
  ASSUME NEW tool \in EVIDENCE_TOOL_NAMES, NEW o \in Observations(tool) \union {Nothing}
  PROVE  o.ids \subseteq Evidence /\ o.sections \in ScoreTables /\ o.isError \in BOOLEAN
<1>1. NoSections \in ScoreTables
  BY GraphAssumption DEF NoSections, ScoreTables
<1>2. CASE o = Nothing
  BY <1>1, <1>2 DEF Nothing, Observation
<1>3. CASE tool = "search_runbooks" /\ o \in Observations(tool)
  <2>1. o \in {Observation({s \in Sections : f[s] > 0}, f, FALSE) : f \in ScoreTables}
    BY <1>3 DEF Observations, ScoreTables
  <2>2. PICK f \in ScoreTables : o = Observation({s \in Sections : f[s] > 0}, f, FALSE)
    BY <2>1
  <2>. QED  BY <2>2 DEF Observation, Evidence
<1>4. CASE tool # "search_runbooks" /\ o \in Observations(tool)
  <2>1. tool \in DiagnosticTools  BY <1>4 DEF DiagnosticTools
  <2>2. EvidenceOf[tool] \subseteq Evidence  BY <2>1 DEF Evidence, Diagnostics
  <2>3. o \in {Observation(ids, NoSections, FALSE) : ids \in (SUBSET EvidenceOf[tool]) \ {{}}}
               \union {Observation({}, NoSections, TRUE)} \union {Nothing}
    BY <1>4 DEF Observations
  <2>4. \E ids \in SUBSET Evidence, b \in BOOLEAN : o = Observation(ids, NoSections, b)
    <3>1. CASE o \in {Observation(ids, NoSections, FALSE) : ids \in (SUBSET EvidenceOf[tool]) \ {{}}}
      BY <2>2, <3>1
    <3>2. CASE o \in {Observation({}, NoSections, TRUE)}
      BY <3>2
    <3>3. CASE o = Nothing
      BY <3>3 DEF Nothing
    <3>. QED  BY <2>3, <3>1, <3>2, <3>3
  <2>5. PICK ids \in SUBSET Evidence, b \in BOOLEAN : o = Observation(ids, NoSections, b)
    BY <2>4
  <2>. QED  BY <1>1, <2>5 DEF Observation
<1>. QED  BY <1>2, <1>3, <1>4

\* More observed evidence and a merged context are sufficient if the old were.
LEMMA RecordKeepsTypes ==
  ASSUME TypeOK, NEW tool \in EVIDENCE_TOOL_NAMES,
         NEW o \in Observations(tool) \union {Nothing}, NEW blocked \in BOOLEAN,
         Record(tool, o, blocked)
  PROVE  /\ observed' \subseteq Evidence
         /\ retrieved' \in ScoreTables
         /\ steps' \in Seq(StepRecords)
         /\ toolErrors' \in {toolErrors, toolErrors + 1}
         /\ noProgress' \in Nat
         /\ Cardinality(Retrieved') <= MaxContextSections
         /\ Sufficient => Sufficient'
<1>1. o.ids \subseteq Evidence /\ o.sections \in ScoreTables
  BY ObservationType
<1>2. retrieved \in ScoreTables  BY DEF TypeOK, ScoreTables
<1>3. retrieved' = MergeSections(retrieved, o.sections)  BY DEF Record
<1>4. Cardinality(Retrieved') <= MaxContextSections
  <2>. DEFINE h == [s \in Sections |-> IF o.sections[s] > retrieved[s] THEN o.sections[s]
                                                                      ELSE retrieved[s]]
  <2>1. h \in ScoreTables  BY <1>1, <1>2 DEF ScoreTables
  <2>2. retrieved' = KeepBest(h)  BY <1>3 DEF MergeSections
  <2>3. Retrieved' = Scored(KeepBest(h))  BY <2>2 DEF Retrieved, Scored
  <2>. HIDE DEF h
  <2>. QED  BY <2>1, <2>3, KeepBestIsBounded
<1>5. Retrieved # {} => Retrieved' # {}
  BY <1>1, <1>2, <1>3, MergeKeepsOne DEF Retrieved, Scored
<1>6. /\ Cardinality(observed \intersect Diagnostics)
           <= Cardinality(observed' \intersect Diagnostics)
      /\ Cardinality(observed \intersect Diagnostics) \in Nat
      /\ Cardinality(observed' \intersect Diagnostics) \in Nat
  <2>1. observed \intersect Diagnostics \subseteq observed' \intersect Diagnostics
    BY DEF Record
  <2>2. /\ IsFiniteSet(observed' \intersect Diagnostics)
        /\ IsFiniteSet(observed \intersect Diagnostics)
    BY GraphAssumption, FS_Intersection
  <2>. QED  BY <2>1, <2>2, FS_Subset, FS_CardinalityType
<1>7. Sufficient => Sufficient'
  BY <1>5, <1>6, GraphAssumption DEF Sufficient
<1>8. retrieved' \in ScoreTables  BY <1>1, <1>2, <1>3, MergeType
<1>9. /\ observed' \subseteq Evidence
      /\ toolErrors' \in {toolErrors, toolErrors + 1} /\ noProgress' \in Nat
  BY <1>1 DEF Record, TypeOK
<1>10. steps' \in Seq(StepRecords)
  <2>1. o.isError \/ blocked \in BOOLEAN  BY ObservationType
  <2>2. Step(tool, o.ids, o.isError \/ blocked) \in StepRecords
    BY <1>1, <2>1 DEF Step, StepRecords
  <2>. QED  BY <2>2 DEF Record, TypeOK
<1>. QED  BY <1>4, <1>7, <1>8, <1>9, <1>10

-----------------------------------------------------------------------------
(* Every step keeps the invariant *)

LEMMA InitIInv == Init => IInv
<1>. SUFFICES ASSUME Init PROVE IInv  OBVIOUS
<1>1. TypeOK
  <2>1. retrieved \in [Sections -> 0..MaxScore]
    BY GraphAssumption DEF Init, NoSections
  <2>2. <<>> \in Seq(StepRecords)  OBVIOUS
  <2>. QED  BY <2>1, <2>2 DEF Init, TypeOK, Nodes
<1>2. Budgeted
  BY GraphAssumption, FS_EmptySet DEF Init, Budgeted, Loop
<1>3. Grounded
  <2>1. Retrieved = {}  BY DEF Init, Retrieved, NoSections
  <2>. QED  BY <2>1, GraphAssumption, FS_EmptySet DEF Init, Grounded
<1>4. Reasoned
  BY DEF Init, Reasoned, ReasonIsTrue, Loop
<1>5. Counted
  BY GraphAssumption DEF Init, Counted, SuperstepBound
<1>. QED  BY <1>1, <1>2, <1>3, <1>4, <1>5 DEF IInv

LEMMA ChooseKeepsIInv ==
  ASSUME IInv, ChooseAction
  PROVE  IInv'
<1>. USE DEF IInv, evidence, stopping
<1>1. /\ UNCHANGED <<observed, retrieved, executed, steps, toolCalls, toolErrors,
                     noProgress, duplicates, repairs, stopping, assessment>>
      /\ node = "choose" /\ supersteps' = supersteps + 1 /\ late' \in BOOLEAN
  BY DEF ChooseAction, Runs, TypeOK
<1>2. \/ /\ decision' \in Decisions /\ iterations' = iterations + 1
         /\ \/ decision'.kind = "tool" /\ node' = "execute"
            \/ decision'.kind = "finalize" /\ node' = "finalize"
            \/ decision'.kind = "request" /\ node' = "request"
      \/ UNCHANGED <<decision, iterations>> /\ node' \in {"limit", "transient", "raised"}
  <2>1. \A d \in Decisions : d.kind \in {"tool", "finalize", "request"}
    BY DEF Decisions
  <2>. QED  BY <2>1 DEF ChooseAction, TimesOut, Raises
<1>3. TypeOK'
  BY <1>1, <1>2 DEF TypeOK, Nodes, Failures
<1>4. Budgeted'
  BY <1>1, <1>2, GraphAssumption DEF Budgeted, TypeOK, Loop
<1>5. Grounded'
  BY <1>1, <1>2 DEF Grounded, Retrieved
<1>6. Reasoned'
  BY <1>1, <1>2 DEF Reasoned, ReasonIsTrue, Loop
<1>7. Counted'
  <2>1. /\ node = "choose" /\ supersteps = 2 * iterations + 1 /\ supersteps' = supersteps + 1
        /\ iterations \in Nat /\ MaxIterations \in Nat /\ iterations < MaxIterations
        /\ MaxRepairAttempts \in Nat
    BY <1>1, GraphAssumption DEF Counted, Budgeted, TypeOK
  <2>2. supersteps' <= SuperstepBound  BY <2>1 DEF SuperstepBound
  <2>. QED  BY <1>2, <2>1, <2>2 DEF Counted
<1>. QED  BY <1>3, <1>4, <1>5, <1>6, <1>7

\* Both ways to go on with a tool call: it is made, or blocked.
LEMMA ExecuteKeepsIInv ==
  ASSUME IInv, ExecuteTool \/ BlockDuplicate
  PROVE  IInv'
<1>. USE DEF IInv
<1>1. /\ UNCHANGED <<decision, iterations, repairs, reason, assessment>>
      /\ node = "execute" /\ supersteps' = supersteps + 1 /\ late' \in BOOLEAN
      /\ Routes
  BY DEF ExecuteTool, ToolAnswers, BlockDuplicate, Runs, TypeOK
<1>2. Routed'  BY <1>1, RouteLeads
<1>3. decision.action \in Actions /\ ToolOf[decision.action] \in EVIDENCE_TOOL_NAMES
  <2>1. decision.kind = "tool"  BY <1>1 DEF Grounded
  <2>2. decision \in Decisions  BY <2>1 DEF TypeOK, NoDecision
  <2>. QED  BY <2>1, <2>2, GraphAssumption DEF Decisions
<1>4. PICK o \in Observations(ToolOf[decision.action]) \union {Nothing}, blocked \in BOOLEAN :
         Record(ToolOf[decision.action], o, blocked)
  BY DEF ExecuteTool, ToolAnswers, BlockDuplicate
<1>5. /\ observed' \subseteq Evidence /\ retrieved' \in ScoreTables
      /\ steps' \in Seq(StepRecords)
      /\ toolErrors' \in {toolErrors, toolErrors + 1} /\ noProgress' \in Nat
      /\ Cardinality(Retrieved') <= MaxContextSections
  BY <1>3, <1>4, RecordKeepsTypes
<1>6. \/ /\ decision.action \notin executed
         /\ executed' = executed \union {decision.action}
         /\ toolCalls' = toolCalls + 1 /\ duplicates' = 0
      \/ UNCHANGED <<executed, toolCalls>> /\ duplicates' = duplicates + 1
  BY DEF ExecuteTool, ToolAnswers, BlockDuplicate
<1>7. LimitFound'
  <2>1. WithinBudgets'
    BY <1>1, <1>5, <1>6, GraphAssumption DEF WithinBudgets, Budgeted, TypeOK
  <2>. QED  BY <2>1, FirstLimitHolds, PTL
<1>8. TypeOK'
  BY <1>1, <1>2, <1>3, <1>5, <1>6, <1>7
  DEF TypeOK, Routed, LimitFound, Nodes, ScoreTables
<1>9. Budgeted'
  <2>1. toolCalls' = Cardinality(executed')
    <3>1. IsFiniteSet(executed)  BY GraphAssumption, FS_Subset DEF TypeOK
    <3>. QED  BY <1>6, <3>1, FS_AddElement DEF Budgeted
  <2>2. repairs = 0  BY <1>1 DEF Budgeted, Loop
  <2>3. node' = "choose" =>
          /\ iterations' < MaxIterations /\ toolCalls' < MaxToolCalls
          /\ toolErrors' < MaxToolErrors /\ duplicates' < NoProgressLimit
    BY <1>2, <1>7 DEF Routed, LimitFound
  <2>. QED
    BY <1>1, <1>2, <1>5, <1>6, <2>1, <2>2, <2>3, GraphAssumption DEF Budgeted, TypeOK, Routed
<1>10. node' \in {"choose", "limit_finalize", "stop"}
  BY <1>1, <1>2 DEF Routed, Reasoned, Loop, None
<1>11. Grounded'
  BY <1>2, <1>5, <1>10 DEF Grounded, Routed
<1>12. Reasoned'
  BY <1>1, <1>2, <1>7, <1>10 DEF Reasoned, ReasonIsTrue, Routed, LimitFound, Loop
<1>13. Counted'
  BY <1>1, <1>10, GraphAssumption DEF Counted, Budgeted, TypeOK, SuperstepBound
<1>. QED  BY <1>8, <1>9, <1>11, <1>12, <1>13

\* A node after which the graph has failed.
LEMMA FailureKeepsIInv ==
  ASSUME IInv, ToolFails \/ RequestAdditionalEvidence \/ StopForLimit \/ ValidationFailed
  PROVE  IInv'
<1>. USE DEF IInv
<1>1. /\ UNCHANGED <<decision, observed, retrieved, executed, steps, iterations,
                     toolCalls, toolErrors, noProgress, duplicates, repairs, reason,
                     limit, assessment>>
      /\ node \in {"execute", "request", "stop", "validation_failed"}
      /\ supersteps' = supersteps + 1 /\ late' \in BOOLEAN
      /\ late => late'
      /\ node' \in {"limit", "insufficient", "invalid", "transient", "raised"}
  BY DEF ToolFails, RequestAdditionalEvidence, StopForLimit, ValidationFailed, Runs,
         TimesOut, Raises, evidence, counters, stopping, TypeOK
<1>2. TypeOK'
  BY <1>1 DEF TypeOK, Failures
<1>3. Budgeted'
  BY <1>1 DEF Budgeted, Loop
<1>4. Grounded'
  BY <1>1 DEF Grounded, Retrieved
<1>5. Reasoned'
  <2>1. limit # None => Holds(limit)'
    BY <1>1 DEF Reasoned, ReasonIsTrue, Holds, TypeOK, Limits, Stalled, Unexplored, Attempted
  <2>. QED  BY <1>1, <2>1 DEF Reasoned, ReasonIsTrue, Loop
<1>6. Counted'
  BY <1>1, GraphAssumption DEF Counted, Budgeted, TypeOK, SuperstepBound
<1>. QED  BY <1>2, <1>3, <1>4, <1>5, <1>6

LEMMA PrepareFinalizeKeepsIInv ==
  ASSUME IInv, PrepareFinalize
  PROVE  IInv'
<1>. USE DEF IInv
<1>1. /\ UNCHANGED <<decision, observed, retrieved, executed, iterations, toolCalls,
                     toolErrors, duplicates, repairs, assessment>>
      /\ steps' = Append(steps, FinalizeStep(decision.evidence))
      /\ node = "finalize" /\ supersteps' = supersteps + 1 /\ late' \in BOOLEAN
      /\ Routes
  BY DEF PrepareFinalize, Runs, TypeOK
<1>2. Routed'  BY <1>1, RouteLeads
<1>3. \/ Acceptable(decision.evidence) /\ reason' = "model_finished" /\ noProgress' = 0
      \/ reason' = None /\ noProgress' = noProgress + 1
  BY <1>1 DEF PrepareFinalize, Reasoned, Loop
<1>4. Acceptable(decision.evidence)' <=> Acceptable(decision.evidence)
  BY <1>1 DEF Acceptable, Sufficient, Retrieved
<1>5. decision.kind = "finalize"  BY <1>1 DEF Grounded
<1>6. node' = "stop" => reason' = None
  BY <1>2, <1>3, <1>4 DEF Routed, Acceptable
<1>7. LimitFound'
  <2>1. WithinBudgets'
    BY <1>1, GraphAssumption DEF WithinBudgets, Budgeted, TypeOK
  <2>. QED  BY <2>1, FirstLimitHolds, PTL
<1>8. steps' \in Seq(StepRecords)
  <2>1. decision \in Decisions  BY <1>5 DEF TypeOK, NoDecision
  <2>2. decision.evidence \subseteq Evidence  BY <1>5, <2>1 DEF Decisions
  <2>3. FinalizeStep(decision.evidence) \in StepRecords
    BY <2>2 DEF FinalizeStep, Step, StepRecords, Acceptable
  <2>. QED  BY <1>1, <2>3 DEF TypeOK
<1>9. TypeOK'
  BY <1>1, <1>2, <1>3, <1>7, <1>8 DEF TypeOK, Routed, LimitFound, Nodes, Reasons
<1>10. Budgeted'
  <2>1. node' = "choose" => iterations' < MaxIterations
    BY <1>2, <1>7 DEF Routed, LimitFound
  <2>2. repairs = 0  BY <1>1 DEF Budgeted, Loop
  <2>. QED  BY <1>1, <1>2, <2>1, <2>2, GraphAssumption DEF Budgeted, Routed
<1>11. Grounded'
  <2>1. node' = "generate" => Sufficient'
    BY <1>2, <1>3, <1>4 DEF Routed, Acceptable, None
  <2>. QED  BY <1>1, <1>2, <2>1 DEF Grounded, Routed, Retrieved
<1>12. Reasoned'
  <2>1. node' = "choose" => reason' = None
    BY <1>2, <1>3 DEF Routed
  <2>2. node' = "generate" => limit' = None /\ reason' = "model_finished" /\ Holds(reason)'
    BY <1>1, <1>2, <1>3, <1>4, <1>5 DEF Routed, Holds, None
  <2>3. ReasonIsTrue'
    BY <1>2, <1>7, <2>2 DEF ReasonIsTrue, Routed, LimitFound
  <2>. QED  BY <1>2, <1>6, <2>1, <2>2, <2>3 DEF Reasoned, Routed, Loop, None
<1>13. Counted'
  <2>1. repairs = 0  BY <1>1 DEF Budgeted, Loop
  <2>. QED
    BY <1>1, <1>2, <2>1, GraphAssumption
    DEF Routed, Counted, Budgeted, TypeOK, SuperstepBound
<1>. QED  BY <1>9, <1>10, <1>11, <1>12, <1>13

LEMMA LimitFinalizeKeepsIInv ==
  ASSUME IInv, PrepareLimitFinalize
  PROVE  IInv'
<1>. USE DEF IInv
<1>1. /\ UNCHANGED <<decision, observed, retrieved, executed, steps, iterations,
                     toolCalls, toolErrors, noProgress, duplicates, repairs, limit,
                     assessment>>
      /\ node = "limit_finalize" /\ supersteps' = supersteps + 1 /\ late' \in BOOLEAN
      /\ reason' = LimitReason' /\ node' = "generate"
      /\ late => late'
  BY DEF PrepareLimitFinalize, Runs, evidence, counters, TypeOK
<1>2. limit # None /\ limit = FirstLimit
  BY <1>1 DEF Reasoned
<1>3. \/ reason' = limit
      \/ reason' = "runtime_limit" /\ late'
  <2>1. CASE late'
    BY <1>1, <2>1 DEF LimitReason
  <2>2. CASE ~ late'
    <3>1. Stalled' = Stalled
      BY <1>1 DEF Stalled, Unexplored, Attempted
    <3>. QED  BY <1>1, <1>2, <2>2, <3>1 DEF LimitReason, FirstLimit
  <2>. QED  BY <2>1, <2>2
<1>4. Holds(limit)'
  <2>1. Holds(limit) /\ limit \in Limits
    BY <1>2 DEF Reasoned, ReasonIsTrue, TypeOK
  <2>. QED  BY <1>1, <2>1 DEF Holds, Limits, Stalled, Unexplored, Attempted
<1>5. reason' \in Limits
  BY <1>2, <1>3 DEF TypeOK, Limits
<1>6. TypeOK'
  BY <1>1, <1>5 DEF TypeOK, Nodes, Reasons
<1>7. Budgeted'
  BY <1>1, GraphAssumption DEF Budgeted, Loop
<1>8. Grounded'
  BY <1>1 DEF Grounded, Sufficient, Retrieved
<1>9. Reasoned'
  BY <1>1, <1>2, <1>3, <1>4, <1>5 DEF Reasoned, ReasonIsTrue, Loop, Limits, None
<1>10. Counted'
  <2>1. repairs = 0  BY <1>1 DEF Budgeted, Loop
  <2>. QED  BY <1>1, <2>1, GraphAssumption DEF Counted, Budgeted, TypeOK, SuperstepBound
<1>. QED  BY <1>6, <1>7, <1>8, <1>9, <1>10

\* An assessment is written, checked and repaired; nothing else changes.
LEMMA AssessmentKeepsIInv ==
  ASSUME IInv, GenerateAssessment \/ ValidateAssessment
  PROVE  IInv'
<1>. USE DEF IInv
<1>1. /\ UNCHANGED <<decision, observed, retrieved, executed, steps, iterations,
                     toolCalls, toolErrors, noProgress, duplicates, reason, limit>>
      /\ node \in {"generate", "validate"} /\ supersteps' = supersteps + 1
      /\ late' \in BOOLEAN /\ (late => late')
  BY DEF GenerateAssessment, ValidateAssessment, Runs, evidence, stopping, TypeOK
<1>2. \/ /\ node = "generate" /\ node' = "validate" /\ UNCHANGED repairs
         /\ assessment' \in Assessments
      \/ /\ node = "validate" /\ node' = "complete" /\ UNCHANGED <<repairs, assessment>>
         /\ Valid(assessment)
      \/ /\ repairs' = repairs + 1 /\ UNCHANGED assessment
         /\ \/ repairs' <= MaxRepairAttempts /\ node' = "generate"
            \/ ~ (repairs' <= MaxRepairAttempts) /\ node' = "validation_failed"
      \/ node' \in {"limit", "transient", "raised"} /\ UNCHANGED <<repairs, assessment>>
  BY DEF GenerateAssessment, ValidateAssessment, Runs, Repair, TimesOut, Raises
<1>3. TypeOK'
  BY <1>1, <1>2 DEF TypeOK, Nodes, Failures
<1>4. Budgeted'
  BY <1>1, <1>2, GraphAssumption DEF Budgeted, Loop, TypeOK
<1>5. Grounded'
  <2>1. Sufficient'
    BY <1>1 DEF Grounded, Sufficient, Retrieved
  <2>2. node' = "complete" =>
          assessment'.sameIncident /\ assessment'.citations \subseteq Retrieved'
    BY <1>1, <1>2 DEF Valid, Retrieved
  <2>. QED  BY <1>1, <1>2, <2>1, <2>2 DEF Grounded, Retrieved
<1>6. Reasoned'
  <2>1. limit # None => Holds(limit)'
    BY <1>1 DEF Reasoned, ReasonIsTrue, Holds, TypeOK, Limits, Stalled, Unexplored, Attempted
  <2>2. limit = None => reason = "model_finished" /\ Holds(reason)'
    BY <1>1 DEF Reasoned, ReasonIsTrue, Holds, Acceptable, Sufficient, Retrieved
  <2>3. ReasonIsTrue'
    BY <1>1, <2>1, <2>2 DEF Reasoned, ReasonIsTrue
  <2>. QED  BY <1>1, <1>2, <2>3 DEF Reasoned, Loop
<1>7. Counted'
  <2>1. /\ iterations \in Nat /\ iterations <= MaxIterations /\ MaxIterations \in Nat
        /\ repairs \in Nat /\ repairs <= MaxRepairAttempts /\ MaxRepairAttempts \in Nat
        /\ supersteps \in Nat /\ UNCHANGED iterations
    BY <1>1, GraphAssumption DEF Budgeted, TypeOK
  <2>2. \/ node = "generate" /\ supersteps <= 2 * iterations + 2 * repairs + 2
        \/ node = "validate" /\ supersteps <= 2 * iterations + 2 * repairs + 3
    BY <1>1 DEF Counted
  <2>3. /\ supersteps' \in Nat /\ SuperstepBound \in Nat
        /\ supersteps' < SuperstepBound /\ supersteps' <= SuperstepBound
    BY <1>1, <2>1, <2>2 DEF SuperstepBound
  <2>4. node' = "generate" => supersteps' <= 2 * iterations' + 2 * repairs' + 2
    BY <1>1, <1>2, <2>1, <2>2
  <2>5. node' = "validate" => supersteps' <= 2 * iterations' + 2 * repairs' + 3
    BY <1>1, <1>2, <2>1, <2>2
  <2>6. node' \in {"generate", "validate", "complete", "validation_failed",
                   "limit", "transient", "raised"}
    BY <1>2
  <2>. QED  BY <2>3, <2>4, <2>5, <2>6 DEF Counted
<1>. QED  BY <1>3, <1>4, <1>5, <1>6, <1>7

LEMMA StepIInv == IInv /\ [Next]_vars => IInv'
<1>. SUFFICES ASSUME IInv, [Next]_vars PROVE IInv'  OBVIOUS
<1>1. CASE UNCHANGED vars
  BY <1>1
  DEF vars, evidence, counters, stopping, IInv, TypeOK, Budgeted, Grounded, Reasoned,
      Counted, ReasonIsTrue, Holds, Acceptable, Sufficient, Retrieved, FirstLimit, Stalled,
      Unexplored, Attempted
<1>2. CASE Next
  BY <1>1, <1>2, ChooseKeepsIInv, ExecuteKeepsIInv, FailureKeepsIInv,
     PrepareFinalizeKeepsIInv, LimitFinalizeKeepsIInv, AssessmentKeepsIInv
  DEF Next, Ended
<1>. QED  BY <1>1, <1>2

THEOREM IInvHolds == Spec => []IInv
BY InitIInv, StepIInv, PTL DEF Spec

-----------------------------------------------------------------------------
(* The theorems *)

\* Every variable keeps its type at every node.
THEOREM GraphTypeCorrect == Spec => []TypeOK
<1>1. IInv => TypeOK  BY DEF IInv
<1>. QED  BY <1>1, IInvHolds, PTL

\* No budget is exceeded, for any budgets, and no action is called twice.
THEOREM BudgetsAlwaysHold == Spec => []BudgetsHold
<1>1. IInv => BudgetsHold  BY DEF IInv, Budgeted, Grounded, BudgetsHold
<1>. QED  BY <1>1, IInvHolds, PTL

\* What completes rests on sufficient evidence and cites the context only.
THEOREM CompletionsAreGrounded == Spec => []CompletionIsGrounded
<1>1. IInv => CompletionIsGrounded
  BY DEF IInv, Grounded, Reasoned, CompletionIsGrounded
<1>. QED  BY <1>1, IInvHolds, PTL

\* The analyst is asked on sufficient evidence only.
THEOREM GenerationsAreGrounded == Spec => []GenerationIsGrounded
<1>1. IInv => GenerationIsGrounded
  BY DEF IInv, Grounded, Reasoned, GenerationIsGrounded
<1>. QED  BY <1>1, IInvHolds, PTL

\* The stopping reason is what the router stopped for, or the deadline.
THEOREM ReasonsAreTrue == Spec => []ReasonIsTrue
<1>1. IInv => ReasonIsTrue  BY DEF IInv, Reasoned
<1>. QED  BY <1>1, IInvHolds, PTL

\* The graph runs a bounded number of nodes.
THEOREM GraphIsBounded == Spec => []SuperstepsBounded
<1>1. IInv => SuperstepsBounded  BY DEF IInv, Counted, SuperstepsBounded
<1>. QED  BY <1>1, IInvHolds, PTL

\* Sufficient evidence is never lost to the limit on sections.
THEOREM SufficiencyNeverLost == Spec => SufficiencyIsStable
<1>1. ASSUME IInv, [Next]_vars PROVE Sufficient => Sufficient'
  <2>1. CASE ExecuteTool \/ BlockDuplicate
    <3>1. decision.kind = "tool"
      BY <1>1, <2>1 DEF IInv, Grounded, ExecuteTool, ToolAnswers, BlockDuplicate, Runs
    <3>2. ToolOf[decision.action] \in EVIDENCE_TOOL_NAMES
      <4>1. decision \in Decisions  BY <1>1, <3>1 DEF IInv, TypeOK, NoDecision
      <4>. QED  BY <3>1, <4>1, GraphAssumption DEF Decisions
    <3>3. \E o \in Observations(ToolOf[decision.action]) \union {Nothing},
             blocked \in BOOLEAN : Record(ToolOf[decision.action], o, blocked)
      BY <2>1 DEF ExecuteTool, ToolAnswers, BlockDuplicate
    <3>. QED  BY <1>1, <3>2, <3>3, RecordKeepsTypes DEF IInv
  <2>2. CASE UNCHANGED <<observed, retrieved>>
    BY <2>2 DEF Sufficient, Retrieved
  <2>3. ExecuteTool \/ BlockDuplicate \/ UNCHANGED <<observed, retrieved>>
    BY <1>1
    DEF Next, vars, evidence, counters, ChooseAction, ToolFails, PrepareFinalize,
        RequestAdditionalEvidence, PrepareLimitFinalize, StopForLimit, GenerateAssessment,
        ValidateAssessment, ValidationFailed, Ended
  <2>. QED  BY <2>1, <2>2, <2>3
<1>2. IInv /\ [Next]_vars => [Sufficient => Sufficient']_vars
  BY <1>1
<1>. QED  BY <1>2, IInvHolds, PTL DEF Spec, SufficiencyIsStable

-----------------------------------------------------------------------------
(* The trajectory: react_steps tells what the graph did *)

Calls(t) == {i \in DOMAIN t : IsCall(t[i])}

\* What was observed is what the calls on the record show; each step on it is
\* traced; none is missing; and an accepted finalization is the last one.
Traced ==
  /\ observed = ShownBy(steps, Len(steps))
  /\ Retrieved \subseteq observed
  /\ \A i \in DOMAIN steps : IsTraced(steps, i)
  /\ Len(steps) <= iterations
  /\ node \in {"choose", "limit_finalize", "stop", "generate", "validate", "complete"} =>
       Len(steps) = iterations
  /\ node \in {"execute", "finalize"} => Len(steps) + 1 = iterations
  /\ node \in {"choose", "execute", "finalize"} =>
       \A i \in DOMAIN steps : ~ IsAccepted(steps[i])
  /\ reason = "model_finished" => Len(steps) > 0 /\ IsAccepted(steps[Len(steps)])
  /\ toolCalls <= Cardinality(Calls(steps))

LEMMA InitTraced == Init => Traced
<1>. SUFFICES ASSUME Init PROVE Traced  OBVIOUS
<1>1. Retrieved = {}  BY DEF Init, Retrieved, NoSections
<1>2. steps = <<>> /\ DOMAIN steps = {} /\ Len(steps) = 0  BY DEF Init
<1>3. ShownBy(steps, Len(steps)) = {} /\ Calls(steps) = {}
  BY <1>2 DEF ShownBy, Calls
<1>. QED  BY <1>1, <1>2, <1>3, FS_EmptySet DEF Init, Traced, None

\* What is kept of merged sections was in one of the two.
LEMMA MergeComesFrom ==
  ASSUME NEW f \in ScoreTables, NEW g \in ScoreTables
  PROVE  Scored(MergeSections(f, g)) \subseteq Scored(f) \union Scored(g)
<1>. DEFINE h == [s \in Sections |-> IF g[s] > f[s] THEN g[s] ELSE f[s]]
<1>1. h \in ScoreTables  BY DEF ScoreTables
<1>2. Scored(h) \subseteq Scored(f) \union Scored(g)
  BY GraphAssumption DEF ScoreTables, Scored
<1>3. MergeSections(f, g) = KeepBest(h)  BY DEF MergeSections
<1>. HIDE DEF h
<1>. QED  BY <1>1, <1>2, <1>3, KeepBestType

\* Sections come from a search only, and evidence from the source of its tool.
LEMMA ObservationSource ==
  ASSUME NEW tool \in EVIDENCE_TOOL_NAMES, NEW o \in Observations(tool) \union {Nothing}
  PROVE  /\ tool = "search_runbooks" => o.ids \subseteq Sections
         /\ tool \in DiagnosticTools => o.ids \subseteq EvidenceOf[tool]
         /\ Scored(o.sections) \subseteq o.ids
<1>1. Scored(NoSections) = {}
  BY DEF Scored, NoSections
<1>2. CASE o = Nothing
  BY <1>1, <1>2 DEF Nothing, Observation
<1>3. CASE tool = "search_runbooks" /\ o \in Observations(tool)
  <2>1. o \in {Observation({s \in Sections : f[s] > 0}, f, FALSE) : f \in ScoreTables}
    BY <1>3 DEF Observations, ScoreTables
  <2>2. PICK f \in ScoreTables : o = Observation({s \in Sections : f[s] > 0}, f, FALSE)
    BY <2>1
  <2>3. o.ids = Scored(f) /\ o.sections = f
    BY <2>2 DEF Observation, Scored
  <2>4. Scored(f) \subseteq Sections
    BY DEF Scored
  <2>. QED  BY <1>3, <2>3, <2>4 DEF DiagnosticTools
<1>4. CASE tool # "search_runbooks" /\ o \in Observations(tool)
  <2>2. o \in {Observation(ids, NoSections, FALSE) : ids \in (SUBSET EvidenceOf[tool]) \ {{}}}
               \union {Observation({}, NoSections, TRUE)} \union {Nothing}
    BY <1>4 DEF Observations
  <2>3. CASE o \in {Observation(ids, NoSections, FALSE) :
                      ids \in (SUBSET EvidenceOf[tool]) \ {{}}}
    BY <1>1, <1>4, <2>3 DEF Observation
  <2>4. CASE o \in {Observation({}, NoSections, TRUE)}
    BY <1>1, <1>4, <2>4 DEF Observation
  <2>. QED  BY <1>2, <2>2, <2>3, <2>4
<1>. QED  BY <1>2, <1>3, <1>4

\* A step put on the record: earlier steps stay as they are, and show the same.
LEMMA AppendedStep ==
  ASSUME NEW t \in Seq(StepRecords), NEW e \in StepRecords
  PROVE  /\ Append(t, e) \in Seq(StepRecords)
         /\ Len(Append(t, e)) = Len(t) + 1
         /\ DOMAIN Append(t, e) = DOMAIN t \union {Len(t) + 1}
         /\ Append(t, e)[Len(t) + 1] = e
         /\ \A i \in DOMAIN t : Append(t, e)[i] = t[i] /\ i \in 1..Len(t)
         /\ \A n \in 0..Len(t) : ShownBy(Append(t, e), n) = ShownBy(t, n)
         /\ ShownBy(Append(t, e), Len(t) + 1) =
              ShownBy(t, Len(t)) \union (IF IsCall(e) THEN e.evidence ELSE {})
         /\ Calls(Append(t, e)) =
              Calls(t) \union (IF IsCall(e) THEN {Len(t) + 1} ELSE {})
<1>. DEFINE u == Append(t, e)
            n == Len(t)
<1>1. /\ u \in Seq(StepRecords) /\ Len(u) = n + 1 /\ n \in Nat
      /\ DOMAIN t = 1..n /\ DOMAIN u = 1..(n + 1)
      /\ u[n + 1] = e
      /\ \A i \in 1..n : u[i] = t[i]
  OBVIOUS
<1>. HIDE DEF u, n
<1>2. DOMAIN u = DOMAIN t \union {n + 1} /\ n + 1 \notin DOMAIN t
  BY <1>1
<1>3. ASSUME NEW m \in 0..n PROVE ShownBy(u, m) = ShownBy(t, m)
  <2>1. {k \in DOMAIN u : k <= m /\ IsCall(u[k])} = {k \in DOMAIN t : k <= m /\ IsCall(t[k])}
    BY <1>1
  <2>2. \A i \in {k \in DOMAIN t : k <= m /\ IsCall(t[k])} : u[i] = t[i]
    BY <1>1
  <2>. QED  BY <2>1, <2>2 DEF ShownBy
<1>4. Calls(u) = Calls(t) \union (IF IsCall(e) THEN {n + 1} ELSE {})
  BY <1>1, <1>2 DEF Calls
<1>5. ShownBy(t, n) = UNION {t[i].evidence : i \in Calls(t)}
  <2>1. {k \in DOMAIN t : k <= n /\ IsCall(t[k])} = Calls(t)  BY <1>1 DEF Calls
  <2>. QED  BY <2>1 DEF ShownBy
<1>6. ShownBy(u, n + 1) = UNION {u[i].evidence : i \in Calls(u)}
  <2>1. {k \in DOMAIN u : k <= n + 1 /\ IsCall(u[k])} = Calls(u)  BY <1>1 DEF Calls
  <2>. QED  BY <2>1 DEF ShownBy
<1>7. \A i \in Calls(t) : u[i] = t[i]  BY <1>1 DEF Calls
<1>8. ShownBy(u, n + 1) = ShownBy(t, n) \union (IF IsCall(e) THEN e.evidence ELSE {})
  <2>1. CASE IsCall(e)
    BY <1>1, <1>4, <1>5, <1>6, <1>7, <2>1
  <2>2. CASE ~ IsCall(e)
    BY <1>4, <1>5, <1>6, <1>7, <2>2
  <2>. QED  BY <2>1, <2>2
<1>. QED  BY <1>1, <1>2, <1>3, <1>4, <1>8 DEF u, n

\* What is known after a step is put on the record.
LEMMA AppendKeepsTraced ==
  ASSUME TypeOK, Traced, NEW e \in StepRecords, steps' = Append(steps, e),
         \A i \in DOMAIN steps : ~ IsAccepted(steps[i]),
         e.tool = "search_runbooks" => e.evidence \subseteq Sections,
         e.tool \in DiagnosticTools => e.evidence \subseteq EvidenceOf[e.tool],
         IsAccepted(e) =>
           /\ e.evidence \subseteq observed
           /\ Cardinality(e.evidence \intersect Diagnostics) >= MinEvidenceItems
  PROVE  /\ \A i \in DOMAIN steps' : IsTraced(steps', i)
         /\ Len(steps') = Len(steps) + 1 /\ steps'[Len(steps')] = e
         /\ ShownBy(steps', Len(steps')) =
              observed \union (IF IsCall(e) THEN e.evidence ELSE {})
         /\ Cardinality(Calls(steps')) =
              Cardinality(Calls(steps)) + (IF IsCall(e) THEN 1 ELSE 0)
         /\ Cardinality(Calls(steps)) \in Nat
         /\ ~ IsAccepted(e) => \A i \in DOMAIN steps' : ~ IsAccepted(steps'[i])
<1>. DEFINE n == Len(steps)
<1>1. steps \in Seq(StepRecords)  BY DEF TypeOK
<1>2. n \in Nat /\ DOMAIN steps = 1..n  BY <1>1
<1>3. /\ Len(steps') = n + 1 /\ DOMAIN steps' = DOMAIN steps \union {n + 1}
      /\ steps'[n + 1] = e /\ \A i \in DOMAIN steps : steps'[i] = steps[i]
      /\ \A m \in 0..n : ShownBy(steps', m) = ShownBy(steps, m)
      /\ ShownBy(steps', n + 1) = observed \union (IF IsCall(e) THEN e.evidence ELSE {})
      /\ Calls(steps') = Calls(steps) \union (IF IsCall(e) THEN {n + 1} ELSE {})
  BY <1>1, AppendedStep DEF Traced
<1>. HIDE DEF n
<1>4. ASSUME NEW i \in DOMAIN steps PROVE IsTraced(steps', i)
  <2>1. IsTraced(steps, i) /\ ~ IsAccepted(steps[i])  BY DEF Traced
  <2>. QED  BY <1>3, <2>1 DEF IsTraced
<1>5. IsTraced(steps', n + 1)
  <2>1. (n + 1) - 1 = n /\ n \in 0..n  BY <1>2
  <2>2. ShownBy(steps', (n + 1) - 1) = observed  BY <1>3, <2>1 DEF n, Traced
  <2>. QED  BY <1>3, <2>2 DEF IsTraced
<1>6. IsFiniteSet(Calls(steps)) /\ n + 1 \notin Calls(steps)
  <2>1. Calls(steps) \subseteq 1..n  BY <1>2 DEF Calls
  <2>2. IsFiniteSet(1..n)  BY <1>2, FS_Interval
  <2>3. n + 1 \notin 1..n  BY <1>2
  <2>. QED  BY <2>1, <2>2, <2>3, FS_Subset
<1>7. /\ Cardinality(Calls(steps)) \in Nat
      /\ Cardinality(Calls(steps')) =
           Cardinality(Calls(steps)) + (IF IsCall(e) THEN 1 ELSE 0)
  <2>1. Cardinality(Calls(steps) \union {n + 1}) = Cardinality(Calls(steps)) + 1
    BY <1>6, FS_AddElement
  <2>2. Cardinality(Calls(steps)) \in Nat  BY <1>6, FS_CardinalityType
  <2>3. CASE IsCall(e)  BY <1>3, <2>1, <2>2, <2>3
  <2>4. CASE ~ IsCall(e)
    <3>1. Calls(steps') = Calls(steps)  BY <1>3, <2>4
    <3>. QED  BY <2>2, <2>4, <3>1
  <2>. QED  BY <2>3, <2>4
<1>8. ~ IsAccepted(e) => \A i \in DOMAIN steps' : ~ IsAccepted(steps'[i])
  BY <1>3
<1>. QED  BY <1>3, <1>4, <1>5, <1>7, <1>8 DEF n

LEMMA ExecuteKeepsTraced ==
  ASSUME IInv, Traced, ExecuteTool \/ BlockDuplicate
  PROVE  Traced'
<1>. DEFINE tool == ToolOf[decision.action]
<1>1. /\ node = "execute" /\ UNCHANGED <<iterations, reason>> /\ Routes
  BY DEF ExecuteTool, ToolAnswers, BlockDuplicate, Runs
<1>2. tool \in EVIDENCE_TOOL_NAMES
  <2>1. decision.kind = "tool"  BY <1>1 DEF IInv, Grounded
  <2>2. decision \in Decisions  BY <2>1 DEF IInv, TypeOK, NoDecision
  <2>. QED  BY <2>1, <2>2, GraphAssumption DEF Decisions
<1>3. PICK o \in Observations(tool) \union {Nothing}, blocked \in BOOLEAN :
         Record(tool, o, blocked)
  BY DEF ExecuteTool, ToolAnswers, BlockDuplicate
<1>. HIDE DEF tool
<1>. DEFINE e == Step(tool, o.ids, o.isError \/ blocked)
<1>4. /\ observed' = observed \union o.ids
      /\ retrieved' = MergeSections(retrieved, o.sections)
      /\ steps' = Append(steps, e)
  BY <1>3 DEF Record
<1>5. /\ e \in StepRecords /\ e.tool = tool /\ e.evidence = o.ids
      /\ IsCall(e) /\ ~ IsAccepted(e)
  <2>1. o.ids \subseteq Evidence /\ o.isError \in BOOLEAN  BY <1>2, ObservationType
  <2>2. tool # "finalize_assessment"  BY <1>2 DEF EVIDENCE_TOOL_NAMES
  <2>. QED  BY <1>2, <2>1, <2>2 DEF Step, StepRecords, IsCall, IsAccepted
<1>6. toolCalls' \in {toolCalls, toolCalls + 1}
  BY DEF ExecuteTool, ToolAnswers, BlockDuplicate
<1>. HIDE DEF e
<1>7. /\ \A i \in DOMAIN steps' : IsTraced(steps', i) /\ ~ IsAccepted(steps'[i])
      /\ Len(steps') = Len(steps) + 1
      /\ ShownBy(steps', Len(steps')) = observed'
      /\ Cardinality(Calls(steps')) = Cardinality(Calls(steps)) + 1
      /\ Cardinality(Calls(steps)) \in Nat
  <2>1. \A i \in DOMAIN steps : ~ IsAccepted(steps[i])  BY <1>1 DEF Traced
  <2>2. /\ e.tool = "search_runbooks" => e.evidence \subseteq Sections
        /\ e.tool \in DiagnosticTools => e.evidence \subseteq EvidenceOf[e.tool]
    BY <1>2, <1>5, ObservationSource
  <2>. QED  BY <1>4, <1>5, <2>1, <2>2, AppendKeepsTraced DEF IInv
<1>8. Retrieved' \subseteq observed'
  <2>1. o.sections \in ScoreTables  BY <1>2, ObservationType
  <2>2. retrieved \in ScoreTables  BY DEF IInv, TypeOK, ScoreTables
  <2>3. Scored(o.sections) \subseteq o.ids  BY <1>2, ObservationSource
  <2>4. Retrieved' \subseteq Retrieved \union Scored(o.sections)
    BY <1>4, <2>1, <2>2, MergeComesFrom DEF Retrieved, Scored
  <2>. QED  BY <1>4, <2>3, <2>4 DEF Traced
<1>9. node' \in {"choose", "limit_finalize", "stop"} /\ reason' = None
  <2>1. reason = None  BY <1>1 DEF IInv, Reasoned, Loop
  <2>. QED  BY <1>1, <2>1, RouteLeads DEF Routed, None
<1>10. Len(steps) + 1 = iterations /\ Len(steps) \in Nat
  BY <1>1 DEF IInv, TypeOK, Traced
<1>11. toolCalls' <= Cardinality(Calls(steps'))
  BY <1>6, <1>7 DEF IInv, TypeOK, Traced
<1>. QED  BY <1>1, <1>7, <1>8, <1>9, <1>10, <1>11 DEF Traced, None, IInv, TypeOK

LEMMA FinalizeKeepsTraced ==
  ASSUME IInv, Traced, PrepareFinalize
  PROVE  Traced'
<1>. DEFINE e == FinalizeStep(decision.evidence)
<1>1. /\ node = "finalize" /\ Routes /\ steps' = Append(steps, e)
      /\ UNCHANGED <<observed, retrieved, iterations, toolCalls>>
  BY DEF PrepareFinalize, Runs
<1>2. \/ Acceptable(decision.evidence) /\ reason' = "model_finished"
      \/ ~ Acceptable(decision.evidence) /\ reason' = None
  BY <1>1 DEF PrepareFinalize, IInv, Reasoned, Loop
<1>3. /\ e \in StepRecords /\ e.tool = "finalize_assessment" /\ ~ IsCall(e)
      /\ e.evidence = decision.evidence
      /\ IsAccepted(e) <=> Acceptable(decision.evidence)
  <2>1. decision.kind = "finalize"  BY <1>1 DEF IInv, Grounded
  <2>2. decision \in Decisions  BY <2>1 DEF IInv, TypeOK, NoDecision
  <2>3. decision.evidence \subseteq Evidence  BY <2>1, <2>2 DEF Decisions
  <2>4. Acceptable(decision.evidence) \in BOOLEAN  BY DEF Acceptable
  <2>. QED
    BY <2>3, <2>4 DEF FinalizeStep, Step, StepRecords, IsCall, IsAccepted, EVIDENCE_TOOL_NAMES
<1>. HIDE DEF e
<1>4. /\ \A i \in DOMAIN steps' : IsTraced(steps', i)
      /\ Len(steps') = Len(steps) + 1 /\ steps'[Len(steps')] = e
      /\ ShownBy(steps', Len(steps')) = observed
      /\ Cardinality(Calls(steps')) = Cardinality(Calls(steps))
      /\ ~ IsAccepted(e) => \A i \in DOMAIN steps' : ~ IsAccepted(steps'[i])
  <2>1. \A i \in DOMAIN steps : ~ IsAccepted(steps[i])  BY <1>1 DEF Traced
  <2>2. e.tool # "search_runbooks" /\ e.tool \notin DiagnosticTools
    BY <1>3 DEF DiagnosticTools, EVIDENCE_TOOL_NAMES
  <2>3. IsAccepted(e) =>
          /\ e.evidence \subseteq observed
          /\ Cardinality(e.evidence \intersect Diagnostics) >= MinEvidenceItems
    BY <1>3 DEF Acceptable
  <2>4. TypeOK  BY DEF IInv
  <2>5. /\ \A i \in DOMAIN steps' : IsTraced(steps', i)
        /\ Len(steps') = Len(steps) + 1 /\ steps'[Len(steps')] = e
        /\ ShownBy(steps', Len(steps')) = observed \union {}
        /\ Cardinality(Calls(steps')) = Cardinality(Calls(steps)) + 0
        /\ Cardinality(Calls(steps)) \in Nat
        /\ ~ IsAccepted(e) => \A i \in DOMAIN steps' : ~ IsAccepted(steps'[i])
    BY <1>1, <1>3, <2>1, <2>2, <2>3, <2>4, AppendKeepsTraced
  <2>. QED  BY <2>5
<1>5. Routed'  BY <1>1, RouteLeads
<1>6. Len(steps) + 1 = iterations /\ Len(steps) \in Nat
  BY <1>1 DEF IInv, TypeOK, Traced
<1>7. node' = "choose" => ~ IsAccepted(e)
  BY <1>2, <1>3, <1>5 DEF Routed
<1>8. reason' = "model_finished" => IsAccepted(e)
  BY <1>2, <1>3 DEF None
<1>9. node' \in {"choose", "generate", "limit_finalize", "stop"}
  BY <1>5 DEF Routed
<1>10. Retrieved' = Retrieved  BY <1>1 DEF Retrieved
<1>. QED  BY <1>1, <1>4, <1>6, <1>7, <1>8, <1>9, <1>10 DEF Traced, IInv, TypeOK

LEMMA StepTraced == ASSUME IInv, Traced, [Next]_vars PROVE Traced'
<1>1. CASE ExecuteTool \/ BlockDuplicate
  BY <1>1, ExecuteKeepsTraced
<1>2. CASE PrepareFinalize
  BY <1>2, FinalizeKeepsTraced
<1>3. CASE ~ (ExecuteTool \/ BlockDuplicate \/ PrepareFinalize)
  <2>1. UNCHANGED <<observed, retrieved, steps, toolCalls>>
    BY <1>3
    DEF Next, vars, evidence, counters, ChooseAction, ToolFails, RequestAdditionalEvidence,
        PrepareLimitFinalize, StopForLimit, GenerateAssessment, ValidateAssessment,
        ValidationFailed, Ended
  <2>2. \/ /\ node = "choose" /\ reason' = reason
           /\ \/ iterations' = iterations + 1 /\ node' \in {"execute", "finalize", "request"}
              \/ iterations' = iterations /\ node' \in Failures
        \/ /\ iterations' = iterations /\ reason' = reason
           /\ node' \in Failures \union {"validation_failed"}
        \/ /\ iterations' = iterations /\ reason' = reason
           /\ node \in {"generate", "validate"}
           /\ node' \in {"generate", "validate", "complete"}
        \/ /\ node = "limit_finalize" /\ node' = "generate"
           /\ iterations' = iterations /\ reason' # "model_finished"
        \/ iterations' = iterations /\ reason' = reason /\ node' = node
    <3>1. CASE ChooseAction
      <4>1. \A d \in Decisions : d.kind \in {"tool", "finalize", "request"}
        BY DEF Decisions
      <4>. QED  BY <3>1, <4>1 DEF ChooseAction, Runs, TimesOut, Raises, Failures, stopping
    <3>2. CASE ToolFails \/ RequestAdditionalEvidence \/ StopForLimit \/ ValidationFailed
      BY <3>2 DEF ToolFails, RequestAdditionalEvidence, StopForLimit, ValidationFailed, Runs,
                  TimesOut, Raises, Failures, counters, stopping
    <3>3. CASE GenerateAssessment \/ ValidateAssessment
      BY <3>3 DEF GenerateAssessment, ValidateAssessment, Runs, TimesOut, Raises, Repair,
                  Failures, stopping
    <3>4. CASE PrepareLimitFinalize
      BY <3>4 DEF PrepareLimitFinalize, Runs, LimitReason, counters
    <3>5. CASE Ended \/ UNCHANGED vars
      BY <3>5 DEF Ended, vars, counters, stopping
    <3>. QED  BY <1>3, <3>1, <3>2, <3>3, <3>4, <3>5 DEF Next
  <2>3. Retrieved' = Retrieved  BY <2>1 DEF Retrieved
  <2>4. Len(steps) \in Nat  BY DEF IInv, TypeOK
  <2>. QED  BY <2>1, <2>2, <2>3, <2>4 DEF Traced, IInv, TypeOK, Failures
<1>. QED  BY <1>1, <1>2, <1>3

\* The trajectory is true of what was observed, called and decided.
THEOREM TraceHolds == Spec => []Traced
BY IInvHolds, InitTraced, StepTraced, PTL DEF Spec
=============================================================================
