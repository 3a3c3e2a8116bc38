------------------------ MODULE DiagnosticToolsProofs ------------------------
(***************************************************************************)
(* Theorems about DiagnosticTools, for any incidents, actions and budgets: *)
(* the real tools stay within what ReActGraph allows, so that what is      *)
(* proved of the graph holds of investigations with them.                  *)
(***************************************************************************)
EXTENDS DiagnosticTools, ReActGraphProofs

\* The evidence IDs of the data shown so far.
ShownIds == {Data(d[1])[d[2]].id : d \in shown}

ToolInv ==
  /\ incident \in Incidents
  /\ IsFiniteSet(shown)
  /\ observed \intersect Diagnostics = ShownIds

-----------------------------------------------------------------------------
\* What a diagnostic tool finds is data of the incident, and finite.
LEMMA FoundIsData ==
  ASSUME incident \in Incidents, NEW a \in Actions, ToolOf[a] \in DiagnosticTools
  PROVE  /\ Found(a) \subseteq DOMAIN Data(ToolOf[a])
         /\ IsFiniteSet(Found(a))
         /\ IdsOf(a, Found(a)) \subseteq EvidenceOf[ToolOf[a]]
<1>1. Found(a) \subseteq DOMAIN Data(ToolOf[a])  BY DEF Found, FirstFew, Asked
<1>2. IsFiniteSet(DOMAIN Data(ToolOf[a]))  BY ToolAssumption DEF Data
<1>3. IdsOf(a, Found(a)) \subseteq EvidenceOf[ToolOf[a]]
  BY <1>1, ToolAssumption DEF IdsOf, Data
<1>. QED  BY <1>1, <1>2, <1>3, FS_Subset

\* ReActGraph allows every answer of a diagnostic tool.
LEMMA AnswersAreObservations ==
  ASSUME incident \in Incidents, NEW a \in Actions, ToolOf[a] \in DiagnosticTools
  PROVE  Answer(a) \in Observations(ToolOf[a])
<1>. DEFINE ids == IdsOf(a, Found(a))
<1>1. ids \subseteq EvidenceOf[ToolOf[a]]  BY FoundIsData
<1>2. ToolOf[a] # "search_runbooks"  BY DEF DiagnosticTools
<1>3. ~ HasSource(a) => Found(a) = {}  BY DEF Found, FirstFew, Asked
<1>4. Fails(a) => ids = {}  BY <1>3 DEF Fails, IdsOf
<1>5. ids = {} => Found(a) = {}  BY DEF IdsOf
<1>6. ids = {} /\ ~ Fails(a) => ToolOf[a] # "check_service_health"  BY <1>5 DEF Fails
<1>7. Fails(a) \in BOOLEAN  BY DEF Fails, HasSource
<1>8. CASE Fails(a)
  <2>1. Fails(a) = TRUE  BY <1>7, <1>8
  <2>2. Answer(a) = Observation({}, NoSections, TRUE)
    BY <1>4, <1>8, <2>1 DEF Answer, Observation
  <2>. QED  BY <1>2, <2>2 DEF Observations
<1>9. CASE ~ Fails(a) /\ ids = {}
  <2>1. Fails(a) = FALSE  BY <1>7, <1>9
  <2>2. Answer(a) = Nothing  BY <1>9, <2>1 DEF Answer, Observation, Nothing
  <2>. QED  BY <1>2, <1>6, <1>9, <2>2 DEF Observations
<1>10. CASE ~ Fails(a) /\ ids # {}
  <2>1. Fails(a) = FALSE  BY <1>7, <1>10
  <2>2. Answer(a) = Observation(ids, NoSections, FALSE)
    BY <2>1 DEF Answer, Observation
  <2>. QED  BY <1>1, <1>2, <1>10, <2>2 DEF Observations
<1>. QED  BY <1>7, <1>8, <1>9, <1>10

\* And every answer of a search.
LEMMA SearchAnswersAreObservations ==
  ASSUME NEW a \in Actions
  PROVE  SearchAnswers(a) \subseteq Observations("search_runbooks")
<1>1. {0} \union (MinimumScore..MaxScore) \subseteq 0..MaxScore
  BY ToolAssumption, GraphAssumption
<1>2. [Sections -> {0} \union (MinimumScore..MaxScore)] \subseteq [Sections -> 0..MaxScore]
  BY <1>1
<1>. QED  BY <1>2 DEF SearchAnswers, Observations

\* The action of a decision that is about to be executed.
LEMMA DecisionHasAction ==
  ASSUME IInv, node = "execute"
  PROVE  decision.action \in Actions
<1>1. decision.kind = "tool"  BY DEF IInv, Grounded
<1>2. decision \in Decisions  BY <1>1 DEF IInv, TypeOK, NoDecision
<1>. QED  BY <1>1, <1>2 DEF Decisions

LEMMA StepsAreGraphSteps ==
  ASSUME IInv, ToolInv, [ToolNext]_toolVars
  PROVE  [Next]_vars
<1>1. CASE CallDiagnosticTool
  <2>1. Answer(decision.action) \in Observations(ToolOf[decision.action])
    BY <1>1, AnswersAreObservations, DecisionHasAction DEF CallDiagnosticTool, ToolInv
  <2>. QED  BY <1>1, <2>1 DEF CallDiagnosticTool, ExecuteTool, Next
<1>2. CASE CallSearchRunbooks
  BY <1>2, SearchAnswersAreObservations, DecisionHasAction
     DEF CallSearchRunbooks, ExecuteTool, Next
<1>3. CASE OtherNode  BY <1>3 DEF OtherNode, Next
<1>4. CASE UNCHANGED toolVars
  BY <1>4 DEF toolVars
<1>. QED  BY <1>1, <1>2, <1>3, <1>4 DEF ToolNext

\* What is not a call observes nothing new.
LEMMA OtherNodesObserveNothing ==
  ASSUME OtherNode
  PROVE  observed' = observed
<1>1. CASE BlockDuplicate
  BY <1>1 DEF BlockDuplicate, Record, Nothing, Observation
<1>. QED
  BY <1>1 DEF OtherNode, ChooseAction, ToolFails, PrepareFinalize, RequestAdditionalEvidence,
     PrepareLimitFinalize, StopForLimit, GenerateAssessment, ValidateAssessment,
     ValidationFailed, Ended, evidence, vars

LEMMA NextKeepsToolInv ==
  ASSUME IInv, ToolInv, [ToolNext]_toolVars
  PROVE  ToolInv'
<1>. USE DEF ToolInv
<1>1. CASE CallDiagnosticTool
  <2>. DEFINE a == decision.action
  <2>1. /\ a \in Actions /\ ToolOf[a] \in DiagnosticTools
        /\ incident' = incident
        /\ shown' = shown \union ({ToolOf[a]} \X Found(a))
        /\ observed' = observed \union IdsOf(a, Found(a))
    BY <1>1, DecisionHasAction
       DEF CallDiagnosticTool, ToolAnswers, Record, Answer, Observation
  <2>2. IsFiniteSet(shown')
    BY <2>1, FoundIsData, FS_Singleton, FS_Product, FS_Union
  <2>3. IdsOf(a, Found(a)) \subseteq Diagnostics
    BY <2>1, FoundIsData DEF Diagnostics
  <2>4. ShownIds' = ShownIds \union IdsOf(a, Found(a))
    <3>1. {Data(d[1])[d[2]].id : d \in {ToolOf[a]} \X Found(a)} = IdsOf(a, Found(a))
      <4>1. \A d \in {ToolOf[a]} \X Found(a) : d[1] = ToolOf[a] /\ d[2] \in Found(a)
        OBVIOUS
      <4>2. \A n \in Found(a) :
              /\ <<ToolOf[a], n>> \in {ToolOf[a]} \X Found(a)
              /\ <<ToolOf[a], n>>[1] = ToolOf[a] /\ <<ToolOf[a], n>>[2] = n
        OBVIOUS
      <4>. HIDE DEF a
      <4>3. ASSUME NEW d \in {ToolOf[a]} \X Found(a)
            PROVE  Data(d[1])[d[2]].id \in IdsOf(a, Found(a))
        BY <4>1 DEF IdsOf
      <4>4. ASSUME NEW n \in Found(a)
            PROVE  \E d \in {ToolOf[a]} \X Found(a) :
                     Data(d[1])[d[2]].id = Data(ToolOf[a])[n].id
        <5>. WITNESS <<ToolOf[a], n>> \in {ToolOf[a]} \X Found(a)
        <5>. QED  BY <4>2
      <4>. QED  BY <4>3, <4>4 DEF IdsOf
    <3>2. ShownIds' = {Data(d[1])[d[2]].id : d \in shown'}
      BY <2>1 DEF ShownIds, Data
    <3>. HIDE DEF a
    <3>. QED  BY <2>1, <3>1, <3>2 DEF ShownIds
  <2>. QED  BY <2>1, <2>2, <2>3, <2>4
<1>2. CASE CallSearchRunbooks
  <2>1. PICK o \in SearchAnswers(decision.action) : ToolAnswers(o)
    BY <1>2 DEF CallSearchRunbooks
  <2>2. o.ids \subseteq Sections
    <3>1. PICK f : o = Observation({s \in Sections : f[s] > 0}, f, FALSE)
      BY <2>1 DEF SearchAnswers
    <3>. QED  BY <3>1 DEF Observation
  <2>3. observed' = observed \union o.ids  BY <2>1 DEF ToolAnswers, Record
  <2>. QED
    BY <1>2, <2>2, <2>3, GraphAssumption DEF CallSearchRunbooks, ShownIds, Data
<1>3. CASE OtherNode
  BY <1>3, OtherNodesObserveNothing DEF OtherNode, ShownIds, Data
<1>4. CASE UNCHANGED toolVars
  BY <1>4 DEF toolVars, vars, evidence, ShownIds, Data
<1>. QED  BY <1>1, <1>2, <1>3, <1>4 DEF ToolNext

LEMMA InitEstablishesToolInv == ToolInit => ToolInv
BY FS_EmptySet DEF ToolInit, Init, ToolInv, ShownIds

LEMMA ToolInvariant == ToolSpec => [](IInv /\ ToolInv)
<1>1. ToolInit => IInv /\ ToolInv
  BY InitEstablishesToolInv, InitIInv DEF ToolInit
<1>2. IInv /\ ToolInv /\ [ToolNext]_toolVars => (IInv /\ ToolInv)'
  BY StepsAreGraphSteps, NextKeepsToolInv, StepIInv
<1>. QED  BY <1>1, <1>2, PTL DEF ToolSpec

\* Investigations with the real tools are investigations of ReActGraph.
THEOREM ToolsImplementGraph == ToolSpec => ImplementsGraph
<1>1. ToolInit => Init  BY DEF ToolInit
<1>2. IInv /\ ToolInv /\ [ToolNext]_toolVars => [Next]_vars
  BY StepsAreGraphSteps
<1>. QED  BY <1>1, <1>2, ToolInvariant, PTL DEF ToolSpec, Spec, ImplementsGraph

\* As many IDs, no more, than data were shown.
LEMMA IdsNoMoreThanData ==
  ASSUME ToolInv
  PROVE  /\ Cardinality(observed \intersect Diagnostics) \in Nat
         /\ Cardinality(shown) \in Nat
         /\ Cardinality(observed \intersect Diagnostics) <= Cardinality(shown)
<1>. DEFINE f == [d \in shown |-> Data(d[1])[d[2]].id]
<1>1. f \in Surjection(shown, ShownIds)
  BY DEF ShownIds, Surjection
<1>. HIDE DEF f
<1>2. IsFiniteSet(shown)  BY DEF ToolInv
<1>3. IsFiniteSet(ShownIds) /\ Cardinality(ShownIds) <= Cardinality(shown)
  BY <1>1, <1>2, FS_Surjection
<1>. QED  BY <1>2, <1>3, FS_CardinalityType DEF ToolInv

\* Evidence that may be cited was shown, and enough of it when completing.
THEOREM EvidenceIsAlwaysShown == ToolSpec => []EvidenceIsShown
<1>1. ToolInv /\ CompletionIsGrounded => EvidenceIsShown
  <2>. SUFFICES ASSUME ToolInv, CompletionIsGrounded PROVE EvidenceIsShown  OBVIOUS
  <2>1. node = "complete" => Cardinality(observed \intersect Diagnostics) >= MinEvidenceItems
    BY DEF CompletionIsGrounded, Sufficient
  <2>2. node = "complete" => Cardinality(shown) >= MinEvidenceItems
    BY <2>1, IdsNoMoreThanData, GraphAssumption
  <2>. QED  BY <2>2 DEF ToolInv, ShownIds, EvidenceIsShown
<1>2. IInv => CompletionIsGrounded  BY DEF IInv, Grounded, Reasoned, CompletionIsGrounded
<1>. QED  BY <1>1, <1>2, ToolInvariant, PTL

LEMMA FirstFewAreFull ==
  ASSUME NEW S \in SUBSET Nat, IsFiniteSet(S), NEW n \in S \ FirstFew(S)
  PROVE  /\ Cardinality(FirstFew(S)) = MaxLogResults
         /\ \A m \in FirstFew(S) : m < n
<1>. DEFINE F == FirstFew(S)
            Before(k) == {m \in S : m < k}
<1>1. \A k \in S : IsFiniteSet(Before(k)) /\ Cardinality(Before(k)) \in Nat
  <2>1. \A k \in S : Before(k) \subseteq S  OBVIOUS
  <2>. QED  BY <2>1, FS_Subset, FS_CardinalityType
<1>2. ASSUME NEW k \in S, NEW l \in S, k < l
      PROVE  /\ Cardinality(Before(k)) < Cardinality(Before(l))
             /\ Before(k) \subseteq Before(l) /\ Before(k) # Before(l)
  <2>0. /\ \A m \in S : m < k => m < l
        /\ ~ (k < k)
    <3>1. \A m \in S : m \in Nat  OBVIOUS
    <3>. QED  BY <1>2, <3>1
  <2>1. Before(k) \subseteq Before(l) /\ k \in Before(l) /\ k \notin Before(k)
    BY <1>2, <2>0
  <2>. HIDE DEF Before
  <2>2. Cardinality(Before(l) \ {k}) = Cardinality(Before(l)) - 1
    BY <1>1, <2>1, FS_RemoveElement
  <2>3. /\ Before(k) \subseteq Before(l) \ {k} /\ IsFiniteSet(Before(l) \ {k})
    BY <1>1, <2>1, FS_Subset
  <2>4. /\ Cardinality(Before(k)) <= Cardinality(Before(l) \ {k})
    BY <2>3, FS_Subset
  <2>. QED  BY <1>1, <2>1, <2>2, <2>4
<1>3. /\ F \subseteq S /\ IsFiniteSet(F) /\ Cardinality(F) \in Nat
      /\ \A k \in S : k \in F <=> Cardinality(Before(k)) < MaxLogResults
  <2>1. F \subseteq S  BY DEF FirstFew
  <2>. QED  BY <2>1, FS_Subset, FS_CardinalityType DEF FirstFew
<1>. HIDE DEF F, Before
<1>4. ASSUME NEW k \in S \ F, NEW m \in F
      PROVE  m < k
  <2>1. ~ Cardinality(Before(k)) < Cardinality(Before(m))
    BY <1>1, <1>3, <1>4, ToolAssumption
  <2>2. m # k /\ m \in Nat /\ k \in Nat  BY <1>3, <1>4
  <2>. QED  BY <1>2, <1>3, <1>4, <2>1, <2>2
<1>5. Cardinality(F) <= MaxLogResults
  <2>. DEFINE rank == [m \in F |-> Cardinality(Before(m))]
  <2>1. \A m \in F : rank[m] \in 0..(MaxLogResults - 1)
    BY <1>1, <1>3, ToolAssumption
  <2>2. \A k, l \in F : rank[k] = rank[l] => k = l
    <3>1. ASSUME NEW k \in F, NEW l \in F, k # l PROVE rank[k] # rank[l]
      <4>1. k \in S /\ l \in S /\ k \in Nat /\ l \in Nat  BY <1>3
      <4>2. k < l \/ l < k  BY <3>1, <4>1
      <4>. QED  BY <1>1, <1>2, <4>1, <4>2
    <3>. QED  BY <3>1
  <2>3. rank \in Injection(F, 0..(MaxLogResults - 1))
    BY <2>1, <2>2 DEF Injection, IsInjective
  <2>4. /\ IsFiniteSet(0..(MaxLogResults - 1))
        /\ Cardinality(0..(MaxLogResults - 1)) = MaxLogResults
    BY FS_Interval, ToolAssumption
  <2>. HIDE DEF rank
  <2>. QED  BY <2>3, <2>4, FS_Injection
<1>6. MaxLogResults <= Cardinality(F)
  <2>. DEFINE T == {Before(k) : k \in S \ F}
  <2>1. T # {} /\ T \subseteq FiniteSubsetsOf(S)
    <3>1. \A k \in S : Before(k) \subseteq S  BY DEF Before
    <3>. QED  BY <1>1, <3>1 DEF FiniteSubsetsOf, F
  <2>2. PICK B \in T : \A C \in T : <<C, B>> \notin StrictSubsetOrdering(S)
    <3>. HIDE DEF T
    <3>. QED  BY <2>1, WFMin, FS_StrictSubsetOrderingWellFounded
  <2>3. PICK k \in S \ F : B = Before(k)  OBVIOUS
  <2>4. Before(k) \subseteq F
    <3>1. SUFFICES ASSUME NEW l \in Before(k), l \notin F PROVE FALSE  OBVIOUS
    <3>2. l \in S /\ l < k  BY DEF Before
    <3>3. Before(l) \in T  BY <3>1, <3>2
    <3>4. Before(l) \subseteq Before(k) /\ Before(l) # Before(k)  BY <1>2, <3>2
    <3>5. Before(k) \subseteq S /\ Before(l) \subseteq S  BY DEF Before
    <3>6. <<Before(l), Before(k)>> \in StrictSubsetOrdering(S)
      BY <3>4, <3>5 DEF StrictSubsetOrdering
    <3>. QED  BY <2>2, <2>3, <3>3, <3>6
  <2>5. Cardinality(Before(k)) <= Cardinality(F)
    BY <1>3, <2>4, FS_Subset
  <2>. QED  BY <1>1, <1>3, <2>5, ToolAssumption
<1>7. Cardinality(F) = MaxLogResults
  BY <1>3, <1>5, <1>6, ToolAssumption
<1>. QED  BY <1>4, <1>7 DEF F

\* Nothing is lost by asking over a wider window but to the limit on log entries.
THEOREM WideningAlwaysFindsMore == ToolSpec => []WideningFindsMore
<1>1. ToolInv => WideningFindsMore
  <2>. SUFFICES ASSUME incident \in Incidents, NEW a \in Actions, NEW b \in Actions,
                       Widens(b, a), NEW n \in Found(a) \ Found(b)
                PROVE  /\ ToolOf[b] = "search_logs"
                       /\ Cardinality(Found(b)) = MaxLogResults
                       /\ \A m \in Found(b) : m < n
    BY DEF ToolInv, WideningFindsMore
  <2>1. /\ HasSource(a) <=> HasSource(b)
        /\ ToolOf[a] = ToolOf[b] /\ ToolOf[a] \in DiagnosticTools
    BY DEF Widens, HasSource, DiagnosticTools, EVIDENCE_TOOL_NAMES
  <2>2. ASSUME NEW k \in DOMAIN Data(ToolOf[a]), Matches(a, Data(ToolOf[a])[k])
        PROVE  Matches(b, Data(ToolOf[a])[k])
    <3>1. /\ Data(ToolOf[a])[k].age \in Int
          /\ Arguments[a].window \in Int /\ Arguments[b].window \in Int
      BY ToolAssumption DEF Data, Widens
    <3>2. InWindow(a, Data(ToolOf[a])[k]) => InWindow(b, Data(ToolOf[a])[k])
      BY <3>1 DEF InWindow, Widens
    <3>. QED  BY <2>2, <3>2 DEF Matches, MatchesPattern, Widens
  <2>3. Asked(a) \subseteq Asked(b)  BY <2>1, <2>2 DEF Asked
  <2>4. Found(a) \subseteq Asked(a)  BY DEF Found, FirstFew
  <2>5. n \in Asked(b) /\ n \notin Found(b)  BY <2>3, <2>4
  <2>6. ToolOf[b] = "search_logs" /\ Found(b) = FirstFew(Asked(b))  BY <2>5 DEF Found
  <2>7. IsFiniteSet(Asked(b)) /\ Asked(b) \in SUBSET Nat
    <3>1. /\ IsFiniteSet(DOMAIN Data(ToolOf[b])) /\ DOMAIN Data(ToolOf[b]) \subseteq Nat
      BY <2>1, ToolAssumption DEF Data
    <3>2. Asked(b) \subseteq DOMAIN Data(ToolOf[b])  BY DEF Asked
    <3>. QED  BY <3>1, <3>2, FS_Subset
  <2>. QED  BY <2>5, <2>6, <2>7, FirstFewAreFull
<1>. QED  BY <1>1, ToolInvariant, PTL
==============================================================================
