-------------------------- MODULE RunbookIndexProofs --------------------------
(***************************************************************************)
(* What RunbookIndex promises, for any number of processes, releases,      *)
(* sections and embedding models.                                          *)
(*                                                                         *)
(* ReadyIsExact is not inductive: it says nothing of a process that is not *)
(* ready yet.  The invariant adds how far each step of index_sections has  *)
(* brought the table, as long as no other release has written: before the  *)
(* upsert, every section that is not in changed is held; after it, every   *)
(* section; after the delete, nothing else is.  It also adds that the      *)
(* vector of any row is that of its own text and model.                    *)
(***************************************************************************)
EXTENDS RunbookIndex, TLAPS

\* A row's vector was computed from the row's text by the row's model.
VectorsOwn ==
  \A c \in Citations : index[c].embedding = Vector(index[c].text, index[c].model)

HeldBy(r, C) == \A c \in C : index[c] = NewRow(r, c)

\* How far r has come in index_sections.
Synced(r) ==
  /\ changed[r] \subseteq Sections(r)
  /\ ~ disturbed[r] =>
       /\ pc[r] \in {"embed", "upsert"}  => HeldBy(r, Sections(r) \ changed[r])
       /\ pc[r] \in {"delete", "ready"}  => HeldBy(r, Sections(r))
       /\ pc[r] = "ready" => \A c \in Citations \ Sections(r) : index[c] = Absent

AllSynced == \A r \in Retrievers : Synced(r)

IInv == TypeOK /\ VectorsOwn /\ AllSynced

-----------------------------------------------------------------------------
(* Rows *)

\* The text of a section is a text, and so its new row is a row.
LEMMA NewRowIsRow ==
  ASSUME NEW r \in Retrievers, NEW c \in Sections(r)
  PROVE  /\ c \in Citations
         /\ NewRow(r, c) \in Rows
         /\ NewRow(r, c).text = TextOf[r][c]
         /\ NewRow(r, c).model = ModelOf[r]
         /\ NewRow(r, c).embedding = Vector(TextOf[r][c], ModelOf[r])
<1>1. c \in Citations /\ TextOf[r][c] # None  BY DEF Sections
<1>2. TextOf[r][c] \in Texts /\ ModelOf[r] \in Models
  BY <1>1, IndexAssumption
<1>. QED  BY <1>1, <1>2 DEF NewRow, Rows, Vectors, Vector

\* A row that holds a section, and whose vector is its own, is its new row.
LEMMA HoldsIsNewRow ==
  ASSUME TypeOK, VectorsOwn, NEW r \in Retrievers, NEW c \in Sections(r), Holds(r, c)
  PROVE  index[c] = NewRow(r, c)
<1>1. c \in Citations /\ TextOf[r][c] # None  BY DEF Sections
<1>2. index[c] \in Rows
  <2>1. index[c] \in Rows \union {Absent}  BY <1>1 DEF TypeOK
  <2>2. index[c] # Absent  BY <1>1 DEF Holds, Absent
  <2>. QED  BY <2>1, <2>2
<1>3. index[c].embedding = Vector(TextOf[r][c], ModelOf[r])
  BY <1>1 DEF VectorsOwn, Holds
<1>. QED  BY <1>2, <1>3 DEF Rows, Holds, NewRow

\* Processes of one release know the same sections and write the same rows.
LEMMA ReleaseSharesRows ==
  ASSUME NEW r \in Retrievers, NEW s \in Retrievers, SameRelease(r, s)
  PROVE  /\ Sections(r) = Sections(s)
         /\ \A c \in Citations : NewRow(r, c) = NewRow(s, c)
BY DEF SameRelease, Sections, NewRow

-----------------------------------------------------------------------------
(* The inductive invariant *)

LEMMA InitIInv == Init => IInv
<1>. SUFFICES ASSUME Init PROVE IInv  OBVIOUS
<1>1. \A c \in Citations : index[c] \in Rows \union {Absent}
  BY DEF Init
<1>2. TypeOK
  BY <1>1 DEF Init, TypeOK
<1>3. VectorsOwn
  <2>. SUFFICES ASSUME NEW c \in Citations
                PROVE  index[c].embedding = Vector(index[c].text, index[c].model)
    BY DEF VectorsOwn
  <2>1. CASE index[c] = Absent  BY <2>1 DEF Absent
  <2>2. CASE index[c] # Absent  BY <2>2 DEF Init
  <2>. QED  BY <2>1, <2>2
<1>4. AllSynced
  BY DEF Init, AllSynced, Synced
<1>. QED  BY <1>2, <1>3, <1>4 DEF IInv

\* What a write of s does to the others: nothing to those it disturbs, and for
\* its own release it brings sections in line and removes what it does not know.
LEMMA OthersStaySynced ==
  ASSUME IInv, NEW s \in Retrievers, NEW r \in Retrievers, r # s,
         pc'[r] = pc[r], changed'[r] = changed[r], Disturb(s),
         \A c \in Sections(s) : index'[c] \in {index[c], NewRow(s, c)},
         \A c \in Citations \ Sections(s) : index'[c] \in {index[c], Absent}
  PROVE  Synced(r)'
<1>1. Synced(r)  BY DEF IInv, AllSynced
<1>2. changed'[r] \subseteq Sections(r)  BY <1>1 DEF Synced
<1>3. disturbed'[r] = (disturbed[r] \/ (index' # index /\ ~ SameRelease(s, r)))
  BY DEF Disturb
<1>4. CASE disturbed'[r]
  BY <1>2, <1>4 DEF Synced, Sections
<1>5. CASE ~ disturbed'[r] /\ index' = index
  BY <1>1, <1>3, <1>5 DEF Synced, Sections, HeldBy, NewRow
<1>6. CASE ~ disturbed'[r] /\ SameRelease(s, r)
  <2>1. Sections(r) = Sections(s) /\ \A c \in Citations : NewRow(r, c) = NewRow(s, c)
    BY <1>6, ReleaseSharesRows
  <2>2. \A c \in Sections(r) : index[c] = NewRow(r, c) => index'[c] = NewRow(r, c)
    BY <2>1 DEF Sections
  <2>3. \A c \in Citations \ Sections(r) : index[c] = Absent => index'[c] = Absent
    BY <2>1
  <2>4. ~ disturbed[r]  BY <1>3, <1>6
  <2>5. pc'[r] \in {"embed", "upsert"} => \A c \in Sections(r) \ changed'[r] : index'[c] = NewRow(r, c)
    BY <1>1, <2>2, <2>4 DEF Synced, HeldBy
  <2>6. pc'[r] \in {"delete", "ready"} => \A c \in Sections(r) : index'[c] = NewRow(r, c)
    BY <1>1, <2>2, <2>4 DEF Synced, HeldBy
  <2>7. pc'[r] = "ready" => \A c \in Citations \ Sections(r) : index'[c] = Absent
    BY <1>1, <2>3, <2>4 DEF Synced
  <2>. QED  BY <1>2, <2>5, <2>6, <2>7 DEF Synced, HeldBy, Sections, NewRow
<1>. QED  BY <1>3, <1>4, <1>5, <1>6

LEMMA ReadKeepsIInv ==
  ASSUME IInv, NEW r \in Retrievers, ReadIndex(r)
  PROVE  IInv'
<1>. DEFINE stale == {c \in Sections(r) : ~ Holds(r, c)}
<1>1. /\ changed' = [changed EXCEPT ![r] = stale]
      /\ pc' = [pc EXCEPT ![r] = IF stale = {} THEN "delete" ELSE "embed"]
      /\ disturbed' = [disturbed EXCEPT ![r] = FALSE]
      /\ index' = index
  BY DEF ReadIndex
<1>2. stale \subseteq Sections(r) /\ Sections(r) \subseteq Citations
  BY DEF Sections
<1>3. TypeOK'
  BY <1>1, <1>2 DEF IInv, TypeOK
<1>4. VectorsOwn'
  BY <1>1 DEF IInv, VectorsOwn
<1>5. Synced(r)'
  <2>1. \A c \in Sections(r) \ stale : index[c] = NewRow(r, c)
    BY HoldsIsNewRow DEF IInv
  <2>2. changed'[r] = stale /\ pc'[r] = IF stale = {} THEN "delete" ELSE "embed"
    BY <1>1 DEF IInv, TypeOK
  <2>3. pc'[r] = "delete" => stale = {}
    BY <2>2
  <2>4. HeldBy(r, Sections(r) \ changed[r])'
    BY <1>1, <2>1, <2>2 DEF HeldBy, Sections, NewRow
  <2>5. (pc[r] = "delete" => HeldBy(r, Sections(r)))'
    BY <2>2, <2>3, <2>4 DEF HeldBy, Sections
  <2>. QED  BY <1>2, <2>2, <2>4, <2>5 DEF Synced, HeldBy, Sections
<1>6. ASSUME NEW s \in Retrievers, s # r PROVE Synced(s)'
  <2>1. pc'[s] = pc[s] /\ changed'[s] = changed[s] /\ disturbed'[s] = disturbed[s]
    BY <1>1, <1>6 DEF IInv, TypeOK
  <2>2. Synced(s)  BY DEF IInv, AllSynced
  <2>. QED  BY <1>1, <2>1, <2>2 DEF Synced, HeldBy, Sections, NewRow
<1>. QED  BY <1>3, <1>4, <1>5, <1>6 DEF IInv, AllSynced

LEMMA EmbedKeepsIInv ==
  ASSUME IInv, NEW r \in Retrievers, EmbedChanged(r)
  PROVE  IInv'
<1>1. TypeOK'
  BY DEF IInv, TypeOK, EmbedChanged
<1>2. VectorsOwn'
  BY DEF IInv, VectorsOwn, EmbedChanged
<1>3. ASSUME NEW s \in Retrievers PROVE Synced(s)'
  <2>1. Synced(s)  BY DEF IInv, AllSynced
  <2>2. pc'[s] = pc[s] \/ (pc[s] = "embed" /\ pc'[s] = "upsert")
    BY DEF IInv, TypeOK, EmbedChanged
  <2>. QED  BY <2>1, <2>2 DEF Synced, HeldBy, EmbedChanged, Sections, NewRow
<1>. QED  BY <1>1, <1>2, <1>3 DEF IInv, AllSynced

LEMMA UpsertKeepsIInv ==
  ASSUME IInv, NEW r \in Retrievers, UpsertChanged(r)
  PROVE  IInv'
<1>1. \A c \in Citations :
        index'[c] = IF c \in changed[r] THEN NewRow(r, c) ELSE index[c]
  BY DEF UpsertChanged
<1>2. Synced(r) /\ changed[r] \subseteq Sections(r)
  BY DEF IInv, AllSynced, Synced
<1>3. TypeOK'
  <2>1. \A c \in Citations : index'[c] \in Rows \union {Absent}
    BY <1>1, <1>2, NewRowIsRow DEF IInv, TypeOK
  <2>2. index' \in [Citations -> Rows \union {Absent}]
    BY <2>1 DEF UpsertChanged
  <2>. QED  BY <2>2 DEF IInv, TypeOK, UpsertChanged, Disturb, SameRelease
<1>4. VectorsOwn'
  BY <1>1, <1>2, NewRowIsRow DEF IInv, VectorsOwn
<1>5. Synced(r)'
  <2>1. pc'[r] = "delete" /\ changed'[r] = changed[r] /\ pc[r] = "upsert"
    BY DEF UpsertChanged, IInv, TypeOK
  <2>2. ~ disturbed'[r] => ~ disturbed[r]
    BY DEF UpsertChanged, Disturb
  <2>3. ~ disturbed'[r] => HeldBy(r, Sections(r))'
    BY <1>1, <1>2, <2>1, <2>2 DEF Synced, HeldBy, Sections, NewRow
  <2>. QED  BY <1>2, <2>1, <2>3 DEF Synced, Sections
<1>6. ASSUME NEW s \in Retrievers, s # r PROVE Synced(s)'
  <2>1. pc'[s] = pc[s] /\ changed'[s] = changed[s] /\ Disturb(r)
    BY <1>6 DEF UpsertChanged, IInv, TypeOK
  <2>2. \A c \in Sections(r) : index'[c] \in {index[c], NewRow(r, c)}
    BY <1>1 DEF Sections
  <2>3. \A c \in Citations \ Sections(r) : index'[c] \in {index[c], Absent}
    BY <1>1, <1>2
  <2>. QED  BY <1>6, <2>1, <2>2, <2>3, OthersStaySynced
<1>. QED  BY <1>3, <1>4, <1>5, <1>6 DEF IInv, AllSynced

LEMMA DeleteKeepsIInv ==
  ASSUME IInv, NEW r \in Retrievers, DeleteStale(r)
  PROVE  IInv'
<1>1. \A c \in Citations :
        index'[c] = IF c \in Sections(r) THEN index[c] ELSE Absent
  BY DEF DeleteStale
<1>2. TypeOK'
  <2>1. index' \in [Citations -> Rows \union {Absent}]
    BY <1>1 DEF DeleteStale, IInv, TypeOK
  <2>. QED  BY <2>1 DEF IInv, TypeOK, DeleteStale, Disturb, SameRelease
<1>3. VectorsOwn'
  BY <1>1 DEF IInv, VectorsOwn, Absent
<1>4. Synced(r)'
  <2>1. pc'[r] = "ready" /\ changed'[r] = {} /\ pc[r] = "delete"
    BY DEF DeleteStale, IInv, TypeOK
  <2>2. ~ disturbed'[r] => ~ disturbed[r]
    BY DEF DeleteStale, Disturb
  <2>3. ~ disturbed'[r] => HeldBy(r, Sections(r))'
    BY <1>1, <2>1, <2>2 DEF IInv, AllSynced, Synced, HeldBy, Sections, NewRow
  <2>4. (\A c \in Citations \ Sections(r) : index[c] = Absent)'
    BY <1>1 DEF Sections
  <2>. QED  BY <2>1, <2>3, <2>4 DEF Synced
<1>5. ASSUME NEW s \in Retrievers, s # r PROVE Synced(s)'
  <2>1. pc'[s] = pc[s] /\ changed'[s] = changed[s] /\ Disturb(r)
    BY <1>5 DEF DeleteStale, IInv, TypeOK
  <2>2. \A c \in Sections(r) : index'[c] \in {index[c], NewRow(r, c)}
    BY <1>1 DEF Sections
  <2>3. \A c \in Citations \ Sections(r) : index'[c] \in {index[c], Absent}
    BY <1>1
  <2>. QED  BY <1>5, <2>1, <2>2, <2>3, OthersStaySynced
<1>. QED  BY <1>2, <1>3, <1>4, <1>5 DEF IInv, AllSynced

LEMMA StopKeepsIInv ==
  ASSUME IInv, NEW r \in Retrievers, Stop(r)
  PROVE  IInv'
<1>1. TypeOK'
  BY DEF IInv, TypeOK, Stop
<1>2. VectorsOwn'
  BY DEF IInv, VectorsOwn, Stop
<1>3. ASSUME NEW s \in Retrievers PROVE Synced(s)'
  <2>1. Synced(s)  BY DEF IInv, AllSynced
  <2>2. CASE s = r
    <3>1. pc'[s] = "down" /\ changed'[s] = {}
      BY <2>2 DEF Stop, IInv, TypeOK
    <3>. QED  BY <3>1 DEF Synced
  <2>3. CASE s # r
    <3>1. pc'[s] = pc[s] /\ changed'[s] = changed[s]
      BY <2>3 DEF Stop, IInv, TypeOK
    <3>. QED  BY <2>1, <3>1 DEF Synced, HeldBy, Stop, Sections, NewRow
  <2>. QED  BY <2>2, <2>3
<1>. QED  BY <1>1, <1>2, <1>3 DEF IInv, AllSynced

LEMMA StepIInv == IInv /\ [Next]_vars => IInv'
<1>. SUFFICES ASSUME IInv, [Next]_vars PROVE IInv'  OBVIOUS
<1>1. CASE Next
  BY <1>1, ReadKeepsIInv, EmbedKeepsIInv, UpsertKeepsIInv, DeleteKeepsIInv, StopKeepsIInv
  DEF Next
<1>2. CASE UNCHANGED vars
  BY <1>2 DEF vars, IInv, TypeOK, VectorsOwn, AllSynced, Synced, HeldBy, Sections, NewRow
<1>. QED  BY <1>1, <1>2

THEOREM IInvHolds == Spec => []IInv
BY InitIInv, StepIInv, PTL DEF Spec

-----------------------------------------------------------------------------
(* The theorems *)

\* The table holds whole rows of known texts and models, and every process is
\* at a step of index_sections.
THEOREM IndexTypeCorrect == Spec => []TypeOK
<1>1. IInv => TypeOK  BY DEF IInv
<1>. QED  BY <1>1, IInvHolds, PTL

\* Whatever releases write at the same time, a search compares its query with
\* vectors of its own model, each computed from its section's own text.
THEOREM SearchesAreComparable == Spec => []VectorsMatch
<1>1. IInv => VectorsMatch
  BY DEF IInv, VectorsOwn, VectorsMatch, Searchable
<1>. QED  BY <1>1, IInvHolds, PTL

\* A process that has finished index_sections searches exactly its own sections
\* until another release writes, whoever of its release works at the same time.
THEOREM ReadySearchesItsRelease == Spec => []ReadyIsExact
<1>1. ASSUME IInv, NEW r \in Retrievers, pc[r] = "ready", ~ disturbed[r]
      PROVE  /\ \A c \in Citations :
                  index[c] = IF c \in Sections(r) THEN NewRow(r, c) ELSE Absent
             /\ Searchable(r) = Sections(r)
  <2>1. /\ \A c \in Sections(r) : index[c] = NewRow(r, c)
        /\ \A c \in Citations \ Sections(r) : index[c] = Absent
    BY <1>1 DEF IInv, AllSynced, Synced, HeldBy
  <2>2. ModelOf[r] # None  BY IndexAssumption
  <2>3. \A c \in Sections(r) : c \in Citations /\ index[c].model = ModelOf[r]
    BY <2>1, NewRowIsRow
  <2>4. \A c \in Citations \ Sections(r) : index[c].model # ModelOf[r]
    BY <2>1, <2>2 DEF Absent
  <2>5. Searchable(r) = Sections(r)
    BY <2>3, <2>4 DEF Searchable
  <2>. QED  BY <2>1, <2>5
<1>2. IInv => ReadyIsExact
  BY <1>1 DEF ReadyIsExact
<1>. QED  BY <1>2, IInvHolds, PTL
=============================================================================
