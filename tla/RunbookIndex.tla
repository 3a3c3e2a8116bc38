---------------------------- MODULE RunbookIndex ----------------------------
(***************************************************************************)
(* The persistent runbook index (services/postgres_retriever.py).  Every   *)
(* worker, embedded worker and command line that starts brings the shared  *)
(* table runbook_embeddings in line with the runbooks and the embedding    *)
(* model it was deployed with, and then searches it.                       *)
(*                                                                         *)
(* index_sections is three transactions with a model call between the      *)
(* first and the second, and it takes no lock that spans them; so its      *)
(* steps interleave with those of every other process that starts, of the  *)
(* same release or of another one.                                         *)
(***************************************************************************)
CONSTANTS
  Retrievers,   \* processes that create a PostgresRunbookRetriever
  Citations,    \* citation IDs
  Texts,        \* search texts; a content hash stands for its text
  Models,       \* embedding models
  TextOf,       \* retriever -> citation -> the text it was deployed with, or None
  ModelOf       \* retriever -> its embedding model

None == "none"

ASSUME IndexAssumption ==
  /\ TextOf \in [Retrievers -> [Citations -> Texts \union {None}]]
  /\ ModelOf \in [Retrievers -> Models]
  /\ None \notin Texts \union Models

\* A row: what was embedded, by which model, and the vector that came of it.
Vector(text, model) == [of |-> text, by |-> model]
Vectors == [of : Texts, by : Models]

Rows   == [text : Texts, model : Models, embedding : Vectors]
Absent == [text |-> None, model |-> None, embedding |-> Vector(None, None)]

Sections(r) == {c \in Citations : TextOf[r][c] # None}

SameRelease(r, s) == TextOf[r] = TextOf[s] /\ ModelOf[r] = ModelOf[s]

VARIABLES
  index,      \* runbook_embeddings
  pc,         \* where a retriever is in index_sections
  changed,    \* its changed_sections
  disturbed   \* a process of another release has written since it read (history)

vars == <<index, pc, changed, disturbed>>

Init ==
  /\ index \in [Citations -> {Absent} \union
                  {row \in Rows : row.embedding = Vector(row.text, row.model)}]
  /\ pc = [r \in Retrievers |-> "down"]
  /\ changed = [r \in Retrievers |-> {}]
  /\ disturbed = [r \in Retrievers |-> FALSE]

-----------------------------------------------------------------------------
\* Mutant: the hash is compared and the model is not.
HoldsText(r, c) == index[c].text = TextOf[r][c]

Holds(r, c) == index[c].text = TextOf[r][c] /\ index[c].model = ModelOf[r]

NewRow(r, c) ==
  [text |-> TextOf[r][c], model |-> ModelOf[r],
   embedding |-> Vector(TextOf[r][c], ModelOf[r])]

\* A write of r is seen by the others that are at work.
Disturb(r) ==
  disturbed' = [s \in Retrievers |->
                  disturbed[s] \/ (index' # index /\ ~ SameRelease(r, s))]

\* The first transaction compares the table with the sections.
ReadIndex(r) ==
  /\ pc[r] = "down"
  /\ LET stale == {c \in Sections(r) : ~ Holds(r, c)} IN
       /\ changed' = [changed EXCEPT ![r] = stale]
       /\ pc' = [pc EXCEPT ![r] = IF stale = {} THEN "delete" ELSE "embed"]
  /\ disturbed' = [disturbed EXCEPT ![r] = FALSE]
  /\ UNCHANGED index

\* The embedding provider answers with a vector for each changed section.
EmbedChanged(r) ==
  /\ pc[r] = "embed"
  /\ pc' = [pc EXCEPT ![r] = "upsert"]
  /\ UNCHANGED <<index, changed, disturbed>>

\* Mutant: a conflicting row keeps the columns that identify its vector.
UpsertKeepsModel(r) ==
  /\ pc[r] = "upsert"
  /\ index' = [c \in Citations |->
                 IF c \notin changed[r] THEN index[c]
                 ELSE IF index[c] = Absent THEN NewRow(r, c)
                 ELSE [NewRow(r, c) EXCEPT !.model = index[c].model]]
  /\ pc' = [pc EXCEPT ![r] = "delete"]
  /\ Disturb(r)
  /\ UNCHANGED changed

\* The second transaction inserts or replaces all changed rows.
UpsertChanged(r) ==
  /\ pc[r] = "upsert"
  /\ index' = [c \in Citations |-> IF c \in changed[r] THEN NewRow(r, c) ELSE index[c]]
  /\ pc' = [pc EXCEPT ![r] = "delete"]
  /\ Disturb(r)
  /\ UNCHANGED changed

\* Mutant: a row is emptied, and stays.
DeleteTextOnly(r) ==
  /\ pc[r] = "delete"
  /\ index' = [c \in Citations |-> IF c \in Sections(r) THEN index[c]
                                   ELSE [index[c] EXCEPT !.text = None]]
  /\ pc' = [pc EXCEPT ![r] = "ready"]
  /\ changed' = [changed EXCEPT ![r] = {}]
  /\ Disturb(r)

\* The third one deletes the citations it does not know.
DeleteStale(r) ==
  /\ pc[r] = "delete"
  /\ index' = [c \in Citations |-> IF c \in Sections(r) THEN index[c] ELSE Absent]
  /\ pc' = [pc EXCEPT ![r] = "ready"]
  /\ changed' = [changed EXCEPT ![r] = {}]
  /\ Disturb(r)

\* The process stops, in a crash, on a failed call, or because it is done.
Stop(r) ==
  /\ pc[r] # "down"
  /\ pc' = [pc EXCEPT ![r] = "down"]
  /\ changed' = [changed EXCEPT ![r] = {}]
  /\ UNCHANGED <<index, disturbed>>

Next ==
  \E r \in Retrievers :
    \/ ReadIndex(r)
    \/ EmbedChanged(r)
    \/ UpsertChanged(r)
    \/ DeleteStale(r)
    \/ Stop(r)

Spec == Init /\ [][Next]_vars

-----------------------------------------------------------------------------
\* The sections that a search of r ranks.
Searchable(r) == {c \in Citations : index[c].model = ModelOf[r]}

TypeOK ==
  /\ index \in [Citations -> Rows \union {Absent}]
  /\ pc \in [Retrievers -> {"down", "embed", "upsert", "delete", "ready"}]
  /\ changed \in [Retrievers -> SUBSET Citations]
  /\ disturbed \in [Retrievers -> BOOLEAN]

\* Whatever releases write at the same time, and wherever they stop, a search
\* compares its query with vectors of its own model only, and a section with
\* the vector of its own text.
VectorsMatch ==
  \A r \in Retrievers : \A c \in Searchable(r) :
    index[c].embedding = Vector(index[c].text, ModelOf[r])

\* A retriever that is ready searches exactly the sections it was deployed
\* with, whatever was in the table, and whoever of its own release started,
\* wrote or stopped meanwhile; until a process of another release writes.
ReadyIsExact ==
  \A r \in Retrievers :
    pc[r] = "ready" /\ ~ disturbed[r] =>
      /\ Searchable(r) = Sections(r)
      /\ \A c \in Citations : index[c] = IF c \in Sections(r) THEN NewRow(r, c) ELSE Absent
=============================================================================
