---------------------------- MODULE RunbookSearch ----------------------------
(***************************************************************************)
(* What an investigation searches in the runbooks, and what is made of it: *)
(* the ranking of both retrievers (services/retriever.py,                  *)
(* services/postgres_retriever.py), the context that the ReAct graph       *)
(* merges search by search, the single-pass graph                          *)
(* (services/investigation_graph.py), and the metrics by which an          *)
(* evaluation judges a graph (services/evaluation.py).                     *)
(*                                                                         *)
(* The loop of the ReAct graph is reduced to its searches; ReActGraph has  *)
(* its budgets, and a context without an order.                            *)
(***************************************************************************)
EXTENDS Integers, FiniteSets, SequencesExt

CONSTANTS
  NumSections,          \* sections, numbered in citation-ID order
  MaxScore,             \* scores are 0..MaxScore, from least to most similar
  MinimumScore,         \* minimum_relevance_score
  Limits,               \* limits of a search
  MaxContextSections,
  MaxSearches           \* bound on the searches of a ReAct investigation

ASSUME SearchAssumption ==
  /\ NumSections \in Nat /\ MaxScore \in Nat /\ MinimumScore \in 0..MaxScore
  /\ Limits \subseteq Nat \ {0} /\ MaxContextSections \in Nat \ {0}
  /\ MaxSearches \in Nat

Sections == 1..NumSections
Unknown  == -1      \* the score of a section that the index does not hold

VARIABLES
  mode,         \* single_pass or react
  query,        \* the scores of the incident's own query, by which the single-pass
                \* graph and the retrieval cases of an evaluation search
  limit,        \* retrieval_limit of the single-pass graph
  node,         \* the next node, or how the graph ended
  context,      \* retrieved_sections
  assessment,
  searches,     \* searches so far
  best          \* the best score a search has returned of each section (history)

vars == <<mode, query, limit, node, context, assessment, searches, best>>

-----------------------------------------------------------------------------
(* Ranking *)

Hit(s, x) == [section |-> s, score |-> x]
Hits      == [section : Sections, score : 0..MaxScore]

Before(g, h) == g.score > h.score \/ (g.score = h.score /\ g.section < h.section)

\* The hits that come before h.
Leaders(hits, h) == {g \in hits : Before(g, h)}

\* sorted(), of hits of different sections: the i-th has i - 1 others before it.
Ranked(hits) ==
  [i \in 1..Cardinality(hits) |->
     CHOOSE h \in hits : Cardinality(Leaders(hits, h)) = i - 1]

Cut(hits, n) == SubSeq(hits, 1, IF n < Len(hits) THEN n ELSE Len(hits))

Ids(hits) == {h.section : h \in ToSet(hits)}

\* How similar the sections are to a query.
Scores == [Sections -> 0..MaxScore \union {Unknown}]
NoScores == [s \in Sections |-> Unknown]

Scored(score) == {Hit(s, score[s]) : s \in {t \in Sections : score[t] # Unknown}}

\* search of a retriever, for a query that scores the sections so.
Search(score, n) == Cut(Ranked(Scored(score)), n)

\* Mutant: the least similar section that counts is compared with <=.
RelevantFromBelow(hits) == Ranked({h \in ToSet(hits) : h.score >= MinimumScore - 1})

\* Those that are similar enough, in the order they have.
Relevant(hits) == Ranked({h \in ToSet(hits) : h.score >= MinimumScore})

\* Mutant: the latest score of a section replaces the others.
MergeLatest(existing, additions) ==
  LET old == {h \in ToSet(existing) : h.section \notin Ids(additions)}
  IN  Cut(Ranked(old \union ToSet(additions)), MaxContextSections)

\* The best hit of each section.
BestHits(hits) ==
  {h \in hits : ~ \E g \in hits : g.section = h.section /\ g.score > h.score}

\* _merge_sections
Merge(existing, additions) ==
  Cut(Ranked(BestHits(ToSet(existing) \union ToSet(additions))), MaxContextSections)

-----------------------------------------------------------------------------
(* The graphs *)

Assessments ==
  [citations    : (SUBSET Sections) \ {{}},
   sameIncident : BOOLEAN,
   convincing   : BOOLEAN]   \* terms and confidence that a case asks for

NoAssessment == [citations |-> {}, sameIncident |-> FALSE, convincing |-> FALSE]

\* The ReAct graph has no use for the incident's own query: its planner asks for what
\* is searched.
Init ==
  /\ \/ mode = "single_pass" /\ query \in Scores /\ limit \in Limits
     \/ mode = "react" /\ query = NoScores /\ limit = 0
  /\ node = "retrieve"
  /\ context = <<>>
  /\ assessment = NoAssessment
  /\ searches = 0
  /\ best = NoScores

Remember(hits) ==
  best' = [s \in Sections |->
             IF \E h \in ToSet(hits) : h.section = s /\ h.score > best[s]
             THEN (CHOOSE h \in ToSet(hits) : h.section = s).score ELSE best[s]]

\* Single pass: one search, and an error if it finds nothing relevant.
RetrieveContext ==
  /\ mode = "single_pass" /\ node = "retrieve"
  /\ LET found == Relevant(Search(query, limit)) IN
       /\ context' = found
       /\ node' = IF found = <<>> THEN "failed" ELSE "generate"
       /\ Remember(found)
  /\ searches' = searches + 1
  /\ UNCHANGED <<mode, query, limit, assessment>>

\* ReAct: any number of searches, each merged into the context.
SearchRunbooks(score, n) ==
  /\ mode = "react" /\ node = "retrieve"
  /\ searches < MaxSearches
  /\ LET found == Relevant(Search(score, n)) IN
       /\ context' = Merge(context, found)
       /\ Remember(found)
  /\ searches' = searches + 1
  /\ UNCHANGED <<mode, query, limit, node, assessment>>

\* The loop ends: with sections, or without enough evidence.
LeaveLoop ==
  /\ mode = "react" /\ node = "retrieve"
  /\ node' = "failed" \/ (context # <<>> /\ node' = "generate")
  /\ UNCHANGED <<mode, query, limit, context, assessment, searches, best>>

GenerateAssessment ==
  /\ node = "generate"
  /\ assessment' \in Assessments
  /\ node' = "validate"
  /\ UNCHANGED <<mode, query, limit, context, searches, best>>

\* Mutant: citations are not compared.
ValidIncidentOnly(a) == a.sameIncident

Valid(a) == a.sameIncident /\ a.citations \subseteq Ids(context)

\* The single-pass graph raises, the other one may repair first.
ValidateAssessment ==
  /\ node = "validate"
  /\ IF Valid(assessment) THEN node' = "complete"
     ELSE node' \in IF mode = "react" THEN {"generate", "failed"} ELSE {"failed"}
  /\ UNCHANGED <<mode, query, limit, context, assessment, searches, best>>

\* A model or the database raises, and so does the graph: a ValueError or another
\* exception.
Raises ==
  /\ node \in {"retrieve", "generate"}
  /\ node' \in {"failed", "raised"}
  /\ UNCHANGED <<mode, query, limit, context, assessment, searches, best>>

Ended ==
  /\ node \in {"complete", "failed", "raised"}
  /\ UNCHANGED vars

Next ==
  \/ RetrieveContext
  \/ \E score \in Scores, n \in Limits : SearchRunbooks(score, n)
  \/ LeaveLoop
  \/ GenerateAssessment
  \/ ValidateAssessment
  \/ Raises
  \/ Ended

Spec == Init /\ [][Next]_vars

-----------------------------------------------------------------------------
(* Metrics; a quotient is the pair of its numbers *)

Share(part, whole) == <<Cardinality(part \intersect whole), Cardinality(whole)>>
IsOne(quotient)    == quotient[1] = quotient[2]

\* Mutant: the last expected section gives the rank.
RankOfLast(expected, hits) ==
  LET ranks == {i \in 1..Len(hits) : hits[i].section \in expected}
  IN  IF ranks = {} THEN 0 ELSE CHOOSE i \in ranks : \A k \in ranks : k <= i

\* The rank of the first expected section, 0 if there is none.
Rank(expected, hits) ==
  LET ranks == {i \in 1..Len(hits) : hits[i].section \in expected}
  IN  IF ranks = {} THEN 0 ELSE CHOOSE i \in ranks : \A k \in ranks : i <= k

\* evaluate_retrieval_case: a case searches for itself, with a limit of its own.
RetrievalResult(n, expected) ==
  LET hits   == Relevant(Search(query, n))
      recall == Share(Ids(hits), expected)
  IN  [retrieved |-> Len(hits), recall |-> recall, rank |-> Rank(expected, hits),
       passed |-> IsOne(recall)]

\* run_pipeline_evaluation gives it to a graph that ends in a ValueError; other
\* errors end the evaluation.
WorstResult == [matches |-> FALSE, grounded |-> FALSE, passed |-> FALSE]

\* evaluate_assessment_case
AssessmentResult(expected) ==
  LET recall   == Share(assessment.citations, expected)
      grounded == assessment.citations \subseteq Ids(context)
  IN IF node # "complete" THEN WorstResult
     ELSE [matches  |-> assessment.sameIncident,
           grounded |-> grounded,
           passed   |-> /\ assessment.sameIncident /\ grounded
                        /\ IsOne(recall) /\ assessment.convincing]

-----------------------------------------------------------------------------
TypeOK ==
  /\ mode \in {"single_pass", "react"}
  /\ node \in {"retrieve", "generate", "validate", "complete", "failed",
              "raised"}
  /\ context \in Seq(Hits)
  /\ \A h \in ToSet(context) : h.score >= MinimumScore
  /\ assessment \in Assessments \union {NoAssessment}
  /\ searches \in Nat
  /\ query \in Scores /\ limit \in Limits \union {0}
  /\ best \in Scores

\* The first n of a ranking, as a set.
Leading(hits, n) == {h \in hits : Cardinality(Leaders(hits, h)) < n}

\* Merging search by search, and cutting each time, loses nothing: whatever was
\* evicted in between, the context is what the best scores of all searches
\* together rank first, in that order.
ContextIsBestOfAll ==
  mode = "react" =>
    /\ ToSet(context) = Leading(Scored(best), MaxContextSections)
    /\ \A i, j \in 1..Len(context) : i < j => Before(context[i], context[j])

\* The evaluation and the graph agree.  A completed investigation is grounded and
\* about its incident in the evaluation too; and where an assessment case of the
\* single-pass graph passes, every retrieval case of its incident that expects the
\* same sections and allows as many hits or more passes as well, although it searches
\* again: what the assessment was made from, evaluate_retrieval_case finds.
EvaluationAgrees ==
  \A expected \in (SUBSET Sections) \ {{}} :
    LET result == AssessmentResult(expected) IN
      /\ node = "complete" => result.matches /\ result.grounded
      /\ mode = "single_pass" /\ result.passed =>
           \A n \in Limits : n >= limit => RetrievalResult(n, expected).passed

\* Recall and reciprocal rank of a retrieval case tell one story: there is a rank
\* exactly when something expected was retrieved, and what else was expected comes
\* after it.
MetricsAgree ==
  \A expected \in (SUBSET Sections) \ {{}}, n \in Limits :
    LET result == RetrievalResult(n, expected) IN
      /\ result.rank = 0 <=> result.recall[1] = 0
      /\ result.rank # 0 => result.rank + result.recall[1] - 1 <= result.retrieved
=============================================================================
