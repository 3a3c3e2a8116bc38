------------------------- MODULE RunbookSearchProofs -------------------------
(***************************************************************************)
(* Theorems about RunbookSearch, for any number of sections and searches,  *)
(* any scores, limits and size of the context.                             *)
(*                                                                         *)
(* The first part is about rankings: the number of hits before a hit is a  *)
(* bijection onto an interval, so that Ranked lists all hits in order and  *)
(* its first n are those with fewer than n before them.  The second part   *)
(* shows that nothing is lost by cutting the context after every search    *)
(* (MergeIsLossless), the third part is the invariant of the graphs, and   *)
(* the last one compares them with their evaluation.                       *)
(***************************************************************************)
EXTENDS RunbookSearch, FiniteSetTheorems, SequenceTheorems, WellFoundedInduction, TLAPS

-----------------------------------------------------------------------------
(* Rankings *)

LEMMA HitsHaveNumbers ==
  ASSUME NEW h \in Hits
  PROVE  h.section \in Nat /\ h.score \in Nat /\ h = Hit(h.section, h.score)
BY SearchAssumption DEF Hits, Hit, Sections

\* Before is a strict total order.
LEMMA BeforeIsTotal ==
  /\ \A h \in Hits : ~ Before(h, h)
  /\ \A g, h \in Hits : g # h => Before(g, h) \/ Before(h, g)
  /\ \A f, g, h \in Hits : Before(f, g) /\ Before(g, h) => Before(f, h)
<1>. SUFFICES ASSUME NEW f \in Hits, NEW g \in Hits, NEW h \in Hits
              PROVE  /\ ~ Before(h, h)
                     /\ g # h => Before(g, h) \/ Before(h, g)
                     /\ Before(f, g) /\ Before(g, h) => Before(f, h)
  OBVIOUS
<1>. QED  BY HitsHaveNumbers DEF Before

LEMMA HitsAreFinite == IsFiniteSet(Hits)
<1>. DEFINE P == Sections \X (0..MaxScore)
            pair == [h \in Hits |-> <<h.section, h.score>>]
<1>1. IsFiniteSet(Sections) /\ IsFiniteSet(0..MaxScore)
  BY FS_Interval, SearchAssumption DEF Sections
<1>2. IsFiniteSet(P)  BY <1>1, FS_Product
<1>3. pair \in Injection(Hits, P)
  BY HitsHaveNumbers DEF Injection, Hits, IsInjective
<1>. QED  BY <1>2, <1>3, FS_Injection

\* Sets of hits, and of those before one of them, can be counted.
LEMMA LeadersCount ==
  ASSUME NEW H \in SUBSET Hits
  PROVE  /\ IsFiniteSet(H) /\ Cardinality(H) \in Nat
         /\ \A h \in Hits : IsFiniteSet(Leaders(H, h)) /\ Cardinality(Leaders(H, h)) \in Nat
         /\ \A h \in H : Cardinality(Leaders(H, h)) < Cardinality(H)
<1>1. IsFiniteSet(H) /\ Cardinality(H) \in Nat
  BY HitsAreFinite, FS_Subset, FS_CardinalityType
<1>2. ASSUME NEW h \in Hits
      PROVE  IsFiniteSet(Leaders(H, h)) /\ Cardinality(Leaders(H, h)) \in Nat
  BY <1>1, FS_Subset, FS_CardinalityType DEF Leaders
<1>3. ASSUME NEW h \in H
      PROVE  Cardinality(Leaders(H, h)) < Cardinality(H)
  <2>1. Leaders(H, h) \subseteq H \ {h}
    BY BeforeIsTotal DEF Leaders
  <2>2. IsFiniteSet(H \ {h}) /\ Cardinality(H \ {h}) = Cardinality(H) - 1
    BY <1>1, FS_RemoveElement
  <2>3. Cardinality(Leaders(H, h)) <= Cardinality(H \ {h})
    BY <2>1, <2>2, FS_Subset
  <2>. QED  BY <1>1, <1>2, <2>2, <2>3
<1>. QED  BY <1>1, <1>2, <1>3

\* A later hit has more hits before it.
LEMMA LeadersGrow ==
  ASSUME NEW H \in SUBSET Hits, NEW g \in H, NEW h \in H, Before(g, h)
  PROVE  Cardinality(Leaders(H, g)) < Cardinality(Leaders(H, h))
<1>1. Leaders(H, g) \subseteq Leaders(H, h) /\ g \in Leaders(H, h) /\ g \notin Leaders(H, g)
  BY BeforeIsTotal DEF Leaders
<1>2. /\ IsFiniteSet(Leaders(H, h))
      /\ Cardinality(Leaders(H, g)) \in Nat /\ Cardinality(Leaders(H, h)) \in Nat
  BY LeadersCount
<1>. QED  BY <1>1, <1>2, FS_Subset

\* The place of a hit in the ranking.
Place(H) == [h \in H |-> Cardinality(Leaders(H, h)) + 1]

LEMMA PlaceIsBijection ==
  ASSUME NEW H \in SUBSET Hits
  PROVE  Place(H) \in Bijection(H, 1..Cardinality(H))
<1>. DEFINE n == Cardinality(H)
<1>1. IsFiniteSet(H) /\ n \in Nat
  BY LeadersCount
<1>2. Place(H) \in [H -> 1..n]
  BY LeadersCount DEF Place
<1>3. \A g, h \in H : Place(H)[g] = Place(H)[h] => g = h
  <2>. SUFFICES ASSUME NEW g \in H, NEW h \in H, g # h
                PROVE  Place(H)[g] # Place(H)[h]
    OBVIOUS
  <2>1. Before(g, h) \/ Before(h, g)  BY BeforeIsTotal
  <2>2. Cardinality(Leaders(H, g)) \in Nat /\ Cardinality(Leaders(H, h)) \in Nat
    BY LeadersCount
  <2>. QED  BY <2>1, <2>2, LeadersGrow DEF Place
<1>4. Place(H) \in Injection(H, 1..n)
  BY <1>2, <1>3 DEF Injection, IsInjective
<1>5. IsFiniteSet(1..n) /\ Cardinality(1..n) = n
  BY <1>1, FS_Interval
<1>6. Place(H) \in Surjection(H, 1..n)
  BY <1>4, <1>5, FS_Injection
<1>. QED  BY <1>4, <1>6 DEF Bijection

\* Ranked is the inverse: it lists each hit at its place.
LEMMA RankedProperties ==
  ASSUME NEW H \in SUBSET Hits
  PROVE  /\ Ranked(H) \in Seq(H) /\ Len(Ranked(H)) = Cardinality(H)
         /\ \A i \in 1..Cardinality(H) :
              Ranked(H)[i] \in H /\ Cardinality(Leaders(H, Ranked(H)[i])) = i - 1
         /\ \A h \in H : Ranked(H)[Cardinality(Leaders(H, h)) + 1] = h
         /\ \A i, j \in 1..Cardinality(H) : i < j => Before(Ranked(H)[i], Ranked(H)[j])
<1>. DEFINE n == Cardinality(H)
<1>1. n \in Nat /\ \A h \in H : Cardinality(Leaders(H, h)) \in 0..(n - 1)
  BY LeadersCount
<1>2. ASSUME NEW i \in 1..n
      PROVE  Ranked(H)[i] \in H /\ Cardinality(Leaders(H, Ranked(H)[i])) = i - 1
  <2>1. \E h \in H : Place(H)[h] = i
    BY PlaceIsBijection DEF Bijection, Surjection
  <2>2. \E h \in H : Cardinality(Leaders(H, h)) = i - 1
    BY <1>1, <2>1 DEF Place
  <2>3. Ranked(H)[i] = CHOOSE h \in H : Cardinality(Leaders(H, h)) = i - 1
    BY DEF Ranked
  <2>. QED  BY <2>2, <2>3
<1>3. Ranked(H) \in [1..n -> H]
  BY <1>2 DEF Ranked
<1>4. Ranked(H) \in Seq(H) /\ Len(Ranked(H)) = n
  BY <1>1, <1>3
<1>5. ASSUME NEW h \in H
      PROVE  Ranked(H)[Cardinality(Leaders(H, h)) + 1] = h
  <2>. DEFINE i == Cardinality(Leaders(H, h)) + 1
  <2>1. i \in 1..n /\ i - 1 = Cardinality(Leaders(H, h))  BY <1>1
  <2>2. Ranked(H)[i] \in H /\ Cardinality(Leaders(H, Ranked(H)[i])) = Cardinality(Leaders(H, h))
    BY <1>2, <2>1
  <2>3. Place(H)[Ranked(H)[i]] = Place(H)[h]
    BY <2>2 DEF Place
  <2>. QED  BY <2>2, <2>3, PlaceIsBijection DEF Bijection, Injection, IsInjective
<1>6. ASSUME NEW i \in 1..n, NEW j \in 1..n, i < j
      PROVE  Before(Ranked(H)[i], Ranked(H)[j])
  <2>. DEFINE g == Ranked(H)[i]  h == Ranked(H)[j]
  <2>1. /\ g \in H /\ Cardinality(Leaders(H, g)) = i - 1
        /\ h \in H /\ Cardinality(Leaders(H, h)) = j - 1
    BY <1>2
  <2>. HIDE DEF g, h
  <2>2. g # h  BY <1>6, <2>1
  <2>3. ~ Before(h, g)
    BY <1>1, <1>6, <2>1, LeadersGrow
  <2>4. Before(g, h)  BY <2>1, <2>2, <2>3, BeforeIsTotal
  <2>. QED  BY <2>4 DEF g, h
<1>. QED  BY <1>2, <1>4, <1>5, <1>6

\* Some hit of any is the first one.
LEMMA SomeHitIsFirst ==
  ASSUME NEW H \in SUBSET Hits, H # {}
  PROVE  \E h \in H : \A g \in H \ {h} : Before(h, g)
<1>1. Cardinality(H) \in Nat /\ Cardinality(H) # 0
  BY LeadersCount, FS_EmptySet
<1>2. PICK h \in H : Cardinality(Leaders(H, h)) = 0
  BY <1>1, RankedProperties
<1>3. Leaders(H, h) = {}
  BY <1>2, LeadersCount, FS_EmptySet
<1>. QED  BY <1>3, BeforeIsTotal DEF Leaders

\* A ranking that is cut holds the leading hits, in their order.
LEMMA CutRanked ==
  ASSUME NEW H \in SUBSET Hits, NEW n \in Nat
  PROVE  LET c == Cut(Ranked(H), n) IN
         /\ c \in Seq(Hits)
         /\ ToSet(c) = Leading(H, n)
         /\ \A i, j \in 1..Len(c) : i < j => Before(c[i], c[j])
<1>. DEFINE r == Ranked(H)  m == IF n < Len(r) THEN n ELSE Len(r)  c == Cut(r, n)
<1>1. /\ r \in Seq(H) /\ Len(r) = Cardinality(H) /\ Cardinality(H) \in Nat
      /\ \A i \in 1..Len(r) : r[i] \in H /\ Cardinality(Leaders(H, r[i])) = i - 1
      /\ \A h \in H : r[Cardinality(Leaders(H, h)) + 1] = h
      /\ \A i, j \in 1..Len(r) : i < j => Before(r[i], r[j])
  BY RankedProperties, LeadersCount
<1>. HIDE DEF r
<1>2. m \in Nat /\ m <= n /\ m <= Len(r) /\ c = SubSeq(r, 1, m)
  BY <1>1 DEF Cut
<1>3. c \in Seq(H) /\ Len(c) = m /\ \A i \in 1..m : c[i] = r[i]
  BY <1>1, <1>2, SubSeqProperties
<1>4. ToSet(c) \subseteq Leading(H, n)
  BY <1>1, <1>2, <1>3 DEF ToSet, Leading
<1>5. ASSUME NEW h \in Leading(H, n)
      PROVE  h \in ToSet(c)
  <2>. DEFINE i == Cardinality(Leaders(H, h)) + 1
  <2>1. h \in H /\ Cardinality(Leaders(H, h)) < n  BY DEF Leading
  <2>2. /\ Cardinality(Leaders(H, h)) \in Nat
        /\ Cardinality(Leaders(H, h)) < Cardinality(H)
    BY <2>1, LeadersCount
  <2>3. i \in 1..m  BY <1>1, <2>1, <2>2
  <2>4. c[i] = h  BY <1>1, <1>3, <2>1, <2>3
  <2>5. i \in DOMAIN c  BY <1>3, <2>3
  <2>. QED  BY <2>4, <2>5 DEF ToSet
<1>6. c \in Seq(Hits)  BY <1>3, SeqMonotonic
<1>7. \A i, j \in 1..Len(c) : i < j => Before(c[i], c[j])
  BY <1>1, <1>2, <1>3
<1>. QED  BY <1>4, <1>5, <1>6, <1>7 DEF r

\* A ranking that is not cut holds all hits.
LEMMA ToSetRanked ==
  ASSUME NEW H \in SUBSET Hits
  PROVE  Ranked(H) \in Seq(Hits) /\ ToSet(Ranked(H)) = H
<1>1. /\ Ranked(H) \in Seq(H) /\ Len(Ranked(H)) = Cardinality(H)
      /\ \A h \in H : Ranked(H)[Cardinality(Leaders(H, h)) + 1] = h
  BY RankedProperties
<1>2. ASSUME NEW h \in H PROVE h \in ToSet(Ranked(H))
  <2>1. Cardinality(Leaders(H, h)) + 1 \in DOMAIN Ranked(H)
    BY <1>1, LeadersCount
  <2>. QED  BY <1>1, <2>1 DEF ToSet
<1>3. ToSet(Ranked(H)) \subseteq H
  BY <1>1 DEF ToSet
<1>. QED  BY <1>1, <1>2, <1>3, SeqMonotonic

\* The first n are n, unless there are fewer.
LEMMA LeadingCount ==
  ASSUME NEW H \in SUBSET Hits, NEW n \in Nat
  PROVE  /\ Leading(H, n) \in SUBSET H /\ Cardinality(Leading(H, n)) \in Nat
         /\ Cardinality(Leading(H, n)) <= n
         /\ Cardinality(Leading(H, n)) < n => Leading(H, n) = H
<1>. DEFINE L == Leading(H, n)  c == Cardinality(H)  m == IF n < c THEN n ELSE c
            first == [i \in 1..m |-> Ranked(H)[i]]
<1>1. L \in SUBSET H /\ c \in Nat /\ Cardinality(L) \in Nat /\ m \in Nat /\ m <= n
  BY LeadersCount DEF Leading
<1>2. /\ \A i \in 1..c : Ranked(H)[i] \in H /\ Cardinality(Leaders(H, Ranked(H)[i])) = i - 1
      /\ \A h \in H : Ranked(H)[Cardinality(Leaders(H, h)) + 1] = h
  BY RankedProperties
<1>3. first \in [1..m -> L]
  BY <1>1, <1>2 DEF Leading
<1>4. \A i, j \in 1..m : first[i] = first[j] => i = j
  <2>1. \A i \in 1..m : Cardinality(Leaders(H, first[i])) = i - 1
    BY <1>1, <1>2
  <2>. HIDE DEF first, m
  <2>. QED  BY <1>1, <2>1
<1>5. \A h \in L : \E i \in 1..m : first[i] = h
  <2>. SUFFICES ASSUME NEW h \in L PROVE \E i \in 1..m : first[i] = h
    OBVIOUS
  <2>1. /\ h \in H /\ Cardinality(Leaders(H, h)) < n
        /\ Cardinality(Leaders(H, h)) \in Nat /\ Cardinality(Leaders(H, h)) < c
    BY LeadersCount DEF Leading
  <2>2. Cardinality(Leaders(H, h)) + 1 \in 1..m  BY <1>1, <2>1
  <2>. QED  BY <1>2, <2>1, <2>2
<1>6. Cardinality(L) = m
  <2>1. first \in Bijection(1..m, L)
    BY <1>3, <1>4, <1>5 DEF Bijection, Injection, Surjection, IsInjective
  <2>. HIDE DEF first, L, m
  <2>2. m \in Nat  BY <1>1
  <2>3. IsFiniteSet(1..m) /\ Cardinality(1..m) = m  BY <2>2, FS_Interval
  <2>4. ExistsBijection(1..m, L)  BY <2>1 DEF ExistsBijection
  <2>. QED  BY <2>3, <2>4, FS_Bijection
<1>7. Cardinality(L) < n => L = H
  <2>1. IsFiniteSet(H)  BY LeadersCount
  <2>2. Cardinality(L) < n => Cardinality(L) = Cardinality(H)  BY <1>1, <1>6
  <2>. QED  BY <1>1, <2>1, <2>2, FS_Subset
<1>. QED  BY <1>1, <1>6, <1>7

-----------------------------------------------------------------------------
(* Merging *)

OneEach(H) == \A g, h \in H : g.section = h.section => g = h

\* Of each section that was hit, the best hits hold one, and no better one is left.
LEMMA BestHitsProperties ==
  ASSUME NEW S \in SUBSET Hits
  PROVE  /\ BestHits(S) \in SUBSET S /\ OneEach(BestHits(S))
         /\ \A g \in S : \E h \in BestHits(S) : h.section = g.section /\ h.score >= g.score
<1>1. OneEach(BestHits(S))
  <2>. SUFFICES ASSUME NEW g \in BestHits(S), NEW h \in BestHits(S), g.section = h.section
                PROVE  g = h
    BY DEF OneEach
  <2>1. g \in Hits /\ h \in Hits /\ ~ g.score > h.score /\ ~ h.score > g.score
    BY DEF BestHits
  <2>2. g.score = h.score  BY <2>1, HitsHaveNumbers
  <2>. QED  BY <2>1, <2>2, HitsHaveNumbers
<1>2. ASSUME NEW g \in S
      PROVE  \E h \in BestHits(S) : h.section = g.section /\ h.score >= g.score
  <2>. DEFINE T == {h \in S : h.section = g.section}
  <2>0. T \in SUBSET Hits /\ T # {}  OBVIOUS
  <2>. HIDE DEF T
  <2>1. PICK h \in T : \A f \in T \ {h} : Before(h, f)
    BY <2>0, SomeHitIsFirst, Zenon
  <2>. USE DEF T
  <2>2. h \in S /\ h.section = g.section  OBVIOUS
  <2>3. \A f \in S : f.section = g.section => f.score <= h.score
    BY <2>1, <2>2, HitsHaveNumbers DEF Before
  <2>4. h \in BestHits(S)
    BY <2>2, <2>3, HitsHaveNumbers DEF BestHits
  <2>. QED  BY <2>2, <2>3, <2>4, HitsHaveNumbers
<1>. QED  BY <1>1, <1>2 DEF BestHits

\* Nothing has fewer hits before it among the best of all hits than among some hits
\* of different sections.
LEMMA LeadersAmongBest ==
  ASSUME NEW S \in SUBSET Hits, NEW H \in SUBSET S, OneEach(H), NEW h \in Hits
  PROVE  Cardinality(Leaders(H, h)) <= Cardinality(Leaders(BestHits(S), h))
<1>. DEFINE B == BestHits(S)
            better == [g \in Leaders(H, h) |->
                         CHOOSE b \in B : b.section = g.section /\ b.score >= g.score]
<1>1. B \in SUBSET Hits
  BY BestHitsProperties
<1>2. ASSUME NEW g \in Leaders(H, h)
      PROVE  better[g] \in Leaders(B, h) /\ better[g].section = g.section
  <2>1. g \in H /\ g \in S /\ g \in Hits /\ Before(g, h)  BY DEF Leaders
  <2>2. better[g] \in B /\ better[g].section = g.section /\ better[g].score >= g.score
    BY <2>1, BestHitsProperties
  <2>. HIDE DEF better, B
  <2>3. Before(better[g], h)
    BY <1>1, <2>1, <2>2, HitsHaveNumbers DEF Before
  <2>. QED  BY <2>2, <2>3 DEF Leaders
<1>3. \A f, g \in Leaders(H, h) : better[f] = better[g] => f = g
  <2>. SUFFICES ASSUME NEW f \in Leaders(H, h), NEW g \in Leaders(H, h), better[f] = better[g]
                PROVE  f = g
    OBVIOUS
  <2>1. f.section = g.section  BY <1>2
  <2>. QED  BY <2>1 DEF OneEach, Leaders
<1>4. better \in Injection(Leaders(H, h), Leaders(B, h))
  <2>1. better \in [Leaders(H, h) -> Leaders(B, h)]  BY <1>2
  <2>. QED  BY <1>3, <2>1 DEF Injection, IsInjective
<1>5. IsFiniteSet(Leaders(B, h))
  BY <1>1, LeadersCount
<1>. HIDE DEF better, B
<1>6. Cardinality(Leaders(H, h)) <= Cardinality(Leaders(B, h))
  BY <1>4, <1>5, FS_Injection
<1>. QED  BY <1>6 DEF B

\* Hits that were cut off before a search do not matter after it: of all hits so
\* far, the same ones lead.
LEMMA MergeIsLossless ==
  ASSUME NEW All \in SUBSET Hits, OneEach(All), NEW Found \in SUBSET Hits, NEW n \in Nat
  PROVE  Leading(BestHits(Leading(All, n) \union Found), n) = Leading(BestHits(All \union Found), n)
<1>. DEFINE S == All \union Found           New == BestHits(S)
            T == Leading(All, n) \union Found  Kept == BestHits(T)
<1>1. /\ Leading(All, n) \in SUBSET All /\ T \in SUBSET S /\ S \in SUBSET Hits /\ T \in SUBSET Hits
  BY LeadingCount
<1>2. /\ New \in SUBSET S /\ New \in SUBSET Hits /\ OneEach(New)
      /\ Kept \in SUBSET T /\ Kept \in SUBSET S /\ Kept \in SUBSET Hits /\ OneEach(Kept)
  BY <1>1, BestHitsProperties
<1>3. ASSUME NEW h \in Leading(New, n)
      PROVE  h \in Leading(Kept, n)
  <2>1. /\ h \in New /\ h \in S /\ h \in Hits
        /\ Cardinality(Leaders(New, h)) < n /\ Cardinality(Leaders(New, h)) \in Nat
    BY <1>2, LeadersCount DEF Leading
  <2>2. h \in T
    <3>1. CASE h \in All
      <4>1. Cardinality(Leaders(All, h)) <= Cardinality(Leaders(New, h))
        BY <1>1, <2>1, LeadersAmongBest
      <4>2. Cardinality(Leaders(All, h)) \in Nat  BY <2>1, LeadersCount
      <4>. HIDE DEF New
      <4>3. Cardinality(Leaders(All, h)) < n  BY <2>1, <4>1, <4>2
      <4>. QED  BY <3>1, <4>3 DEF Leading
    <3>. QED  BY <2>1, <3>1
  <2>3. h \in Kept  BY <1>1, <2>1, <2>2 DEF BestHits
  <2>4. Cardinality(Leaders(Kept, h)) <= Cardinality(Leaders(New, h))
    BY <1>1, <1>2, <2>1, LeadersAmongBest
  <2>. HIDE DEF New, Kept
  <2>5. Cardinality(Leaders(Kept, h)) \in Nat  BY <1>2, <2>1, LeadersCount
  <2>6. Cardinality(Leaders(Kept, h)) < n  BY <2>1, <2>4, <2>5
  <2>. QED  BY <2>3, <2>6 DEF Leading
<1>. HIDE DEF New, Kept
<1>4. /\ Cardinality(Leading(New, n)) \in Nat /\ Cardinality(Leading(Kept, n)) \in Nat
      /\ Cardinality(Leading(New, n)) <= n /\ Cardinality(Leading(Kept, n)) <= n
      /\ Leading(Kept, n) \in SUBSET Kept
      /\ Cardinality(Leading(New, n)) < n => Leading(New, n) = New
  BY <1>2, LeadingCount
<1>5. IsFiniteSet(Leading(Kept, n))
  BY <1>2, <1>4, LeadersCount
<1>6. CASE Cardinality(Leading(New, n)) = n
  <2>1. Cardinality(Leading(New, n)) <= Cardinality(Leading(Kept, n))
    BY <1>3, <1>5, FS_Subset
  <2>2. Cardinality(Leading(Kept, n)) = Cardinality(Leading(New, n))
    BY <1>4, <1>6, <2>1
  <2>3. Leading(Kept, n) = Leading(New, n)
    BY <1>3, <1>5, <2>2, FS_Subset
  <2>. QED  BY <2>3 DEF New, Kept
<1>7. CASE Leading(New, n) = New
  <2>1. ASSUME NEW k \in Kept PROVE k \in New
    <3>1. PICK x \in New : x.section = k.section
      BY <1>1, <1>2, BestHitsProperties DEF New
    <3>2. x \in Kept  BY <1>3, <1>4, <1>7
    <3>. QED  BY <1>2, <3>1, <3>2 DEF OneEach
  <2>2. Leading(Kept, n) = Leading(New, n)
    BY <1>3, <1>4, <1>7, <2>1
  <2>. QED  BY <2>2 DEF New, Kept
<1>. QED  BY <1>4, <1>6, <1>7

-----------------------------------------------------------------------------
(* Searches *)

\* What a graph takes from a search: hits of the index, one of each section.
LEMMA FoundIsRelevant ==
  ASSUME NEW score \in Scores, NEW n \in Limits
  PROVE  LET found == Relevant(Search(score, n)) IN
         /\ found \in Seq(Hits)
         /\ ToSet(found) = {h \in Leading(Scored(score), n) : h.score >= MinimumScore}
         /\ ToSet(found) \subseteq Scored(score) /\ OneEach(ToSet(found))
         /\ \A h \in ToSet(found) : h.score >= MinimumScore
<1>. DEFINE hits == Search(score, n)
            near == {h \in ToSet(hits) : h.score >= MinimumScore}
<1>1. Scored(score) \in SUBSET Hits /\ OneEach(Scored(score))
  BY DEF Scored, Scores, Hit, Hits, OneEach, Unknown
<1>2. ToSet(hits) = Leading(Scored(score), n) /\ ToSet(hits) \subseteq Scored(score)
  <2>1. n \in Nat  BY SearchAssumption
  <2>2. ToSet(hits) = Leading(Scored(score), n)
    BY <1>1, <2>1, CutRanked DEF Search
  <2>. QED  BY <2>2 DEF Leading
<1>. HIDE DEF hits
<1>3. Ranked(near) \in Seq(Hits) /\ ToSet(Ranked(near)) = near
  <2>1. near \in SUBSET Hits  BY <1>1, <1>2
  <2>. HIDE DEF near
  <2>. QED  BY <2>1, ToSetRanked
<1>4. Relevant(hits) = Ranked(near)  BY DEF Relevant
<1>5. near \subseteq Scored(score) /\ OneEach(near) /\ \A h \in near : h.score >= MinimumScore
  BY <1>1, <1>2 DEF OneEach
<1>6. ToSet(Ranked(near)) = {h \in Leading(Scored(score), n) : h.score >= MinimumScore}
  BY <1>2, <1>3
<1>. HIDE DEF near
<1>. QED  BY <1>3, <1>4, <1>5, <1>6 DEF hits

\* With a larger limit a search finds what it found before.
LEMMA LargerLimitsFindMore ==
  ASSUME NEW score \in Scores, NEW m \in Limits, NEW n \in Limits, n >= m
  PROVE  Ids(Relevant(Search(score, m))) \subseteq Ids(Relevant(Search(score, n)))
<1>. DEFINE few == Relevant(Search(score, m))  many == Relevant(Search(score, n))
<1>1. /\ ToSet(few) = {h \in Leading(Scored(score), m) : h.score >= MinimumScore}
      /\ ToSet(many) = {h \in Leading(Scored(score), n) : h.score >= MinimumScore}
  BY FoundIsRelevant
<1>2. Scored(score) \in SUBSET Hits
  BY DEF Scored, Scores, Hit, Hits, Unknown
<1>3. Leading(Scored(score), m) \subseteq Leading(Scored(score), n)
  <2>1. m \in Nat /\ n \in Nat  BY SearchAssumption
  <2>2. \A h \in Scored(score) : Cardinality(Leaders(Scored(score), h)) \in Nat
    BY <1>2, LeadersCount
  <2>. QED  BY <2>1, <2>2 DEF Leading
<1>. HIDE DEF few, many
<1>4. Ids(few) \subseteq Ids(many)  BY <1>1, <1>3 DEF Ids
<1>. QED  BY <1>4 DEF few, many

\* The scores remembered are those of the best hits so far.
LEMMA RememberKeepsBest ==
  ASSUME best \in Scores,
         NEW found, ToSet(found) \in SUBSET Hits, OneEach(ToSet(found)), Remember(found)
  PROVE  /\ best' \in Scores
         /\ Scored(best)' = BestHits(Scored(best) \union ToSet(found))
<1>. DEFINE F == ToSet(found)
<1>1. ASSUME NEW s \in Sections, NEW h \in F, h.section = s
      PROVE  (CHOOSE g \in F : g.section = s) = h
  BY <1>1 DEF OneEach
<1>. HIDE DEF F
<1>2. \A s \in Sections :
        /\ \A h \in F : h.section = s =>
             best'[s] = IF h.score > best[s] THEN h.score ELSE best[s]
        /\ (\A h \in F : h.section # s) => best'[s] = best[s]
  BY <1>1 DEF Remember, F
<1>3. \A s \in Sections : best'[s] = best[s] \/ \E h \in F : h.section = s /\ best'[s] = h.score
  BY <1>2
<1>4. best' \in Scores
  <2>1. \A s \in Sections : best'[s] \in 0..MaxScore \union {Unknown}
    BY <1>3 DEF F, Hits, Scores
  <2>. QED  BY <2>1 DEF Remember, Scores
<1>5. ASSUME NEW h \in Scored(best)'
      PROVE  h \in BestHits(Scored(best) \union F)
  <2>1. h.section \in Sections /\ h = Hit(h.section, best'[h.section]) /\ best'[h.section] # Unknown
    BY DEF Scored, Hit
  <2>. DEFINE s == h.section
  <2>2. h.score = best'[s]  BY <2>1 DEF Hit
  <2>3. h \in Scored(best) \union F
    <3>1. CASE best'[s] = best[s]  BY <2>1, <3>1 DEF Scored
    <3>2. CASE \E g \in F : g.section = s /\ best'[s] = g.score
      BY <2>1, <3>2, HitsHaveNumbers DEF F
    <3>. QED  BY <1>3, <2>1, <3>1, <3>2
  <2>4. ASSUME NEW g \in Scored(best) \union F, g.section = s
        PROVE  ~ g.score > h.score
    <3>1. s \in Sections /\ best[s] \in 0..MaxScore \union {Unknown}
      BY <2>1 DEF Scores
    <3>2. CASE g \in Scored(best)
      <4>1. g.score = best[s] /\ best[s] # Unknown  BY <2>4, <3>2 DEF Scored, Hit
      <4>2. best'[s] = best[s] \/ \E k \in F : best'[s] = k.score /\ k.score > best[s]
        BY <1>2, <3>1
      <4>. QED  BY <2>2, <3>1, <4>1, <4>2, SearchAssumption DEF F, Hits
    <3>3. CASE g \in F
      <4>1. g.score \in Nat  BY <3>3, HitsHaveNumbers DEF F
      <4>2. best'[s] = IF g.score > best[s] THEN g.score ELSE best[s]
        BY <1>2, <2>4, <3>1, <3>3
      <4>. QED  BY <2>2, <3>1, <4>1, <4>2, SearchAssumption DEF Unknown
    <3>. QED  BY <2>4, <3>2, <3>3
  <2>. QED  BY <2>3, <2>4 DEF BestHits
<1>6. ASSUME NEW h \in BestHits(Scored(best) \union F)
      PROVE  h \in Scored(best)'
  <2>. DEFINE s == h.section
  <2>1. /\ h \in Scored(best) \union F
        /\ \A g \in Scored(best) \union F : g.section = s => ~ g.score > h.score
    BY DEF BestHits
  <2>2. s \in Sections /\ h = Hit(s, h.score) /\ h.score \in Nat
        /\ best[s] \in 0..MaxScore \union {Unknown}
    BY <2>1, HitsHaveNumbers, SearchAssumption DEF F, Hits, Scored, Hit, Unknown, Scores
  <2>3. best'[s] = h.score
    <3>1. CASE h \in F
      <4>1. ~ best[s] > h.score
        <5>. SUFFICES ASSUME best[s] # Unknown PROVE ~ best[s] > h.score
          BY <2>2 DEF Unknown
        <5>1. Hit(s, best[s]) \in Scored(best)  BY <2>2 DEF Scored
        <5>. QED  BY <2>1, <5>1 DEF Hit
      <4>. QED  BY <1>2, <2>2, <3>1, <4>1, SearchAssumption DEF Unknown
    <3>2. CASE h \in Scored(best)
      <4>1. best[s] = h.score  BY <3>2 DEF Scored, Hit
      <4>2. \A g \in F : g.section = s => ~ g.score > best[s]  BY <2>1, <4>1
      <4>. QED  BY <1>2, <2>2, <4>1, <4>2
    <3>. QED  BY <2>1, <3>1, <3>2
  <2>4. best'[s] # Unknown  BY <2>2, <2>3 DEF Unknown
  <2>. QED  BY <2>2, <2>3, <2>4 DEF Scored
<1>. QED  BY <1>4, <1>5, <1>6 DEF F

-----------------------------------------------------------------------------
(* The graphs *)

\* What the single-pass graph works on is what its search has found.
HoldsItsSearch ==
  mode = "single_pass" =>
    /\ limit \in Limits
    /\ node \in {"generate", "validate", "complete"} =>
         context = Relevant(Search(query, limit))

\* The inductive invariant: a graph completes with an assessment that it found valid.
SInv ==
  /\ TypeOK
  /\ ContextIsBestOfAll
  /\ HoldsItsSearch
  /\ node = "complete" => Valid(assessment)

LEMMA InitSInv == Init => SInv
<1>. SUFFICES ASSUME Init PROVE SInv  OBVIOUS
<1>1. TypeOK
  <2>1. ToSet(context) = {}  BY DEF Init, ToSet
  <2>. QED  BY <2>1 DEF Init, TypeOK, Scores, NoScores
<1>2. ContextIsBestOfAll
  <2>1. Scored(best) = {}  BY DEF Init, Scored, NoScores
  <2>2. Leading(Scored(best), MaxContextSections) = {}  BY <2>1 DEF Leading
  <2>3. context = <<>> /\ Len(context) = 0  BY DEF Init
  <2>4. ToSet(context) = {}  BY <2>3 DEF ToSet
  <2>5. 1..Len(context) = {}  BY <2>3
  <2>. QED  BY <2>2, <2>4, <2>5 DEF ContextIsBestOfAll
<1>. QED  BY <1>1, <1>2 DEF Init, SInv, HoldsItsSearch

LEMMA RetrieveKeepsSInv ==
  ASSUME SInv, RetrieveContext
  PROVE  SInv'
<1>. DEFINE found == Relevant(Search(query, limit))
<1>0. query \in Scores /\ limit \in Limits
  BY DEF RetrieveContext, SInv, TypeOK, HoldsItsSearch
<1>1. /\ found \in Seq(Hits) /\ ToSet(found) \in SUBSET Hits /\ OneEach(ToSet(found))
      /\ \A h \in ToSet(found) : h.score >= MinimumScore
  <2>1. found \in Seq(Hits) /\ OneEach(ToSet(found))
        /\ \A h \in ToSet(found) : h.score >= MinimumScore
    BY <1>0, FoundIsRelevant
  <2>. HIDE DEF found
  <2>. QED  BY <2>1 DEF ToSet
<1>2. /\ context' = found /\ Remember(found) /\ node' \in {"failed", "generate"}
      /\ mode = "single_pass" /\ UNCHANGED <<mode, query, limit, assessment>> /\ searches' = searches + 1
  BY DEF RetrieveContext
<1>5. HoldsItsSearch'
  BY <1>0, <1>2 DEF HoldsItsSearch
<1>. HIDE DEF found
<1>3. best' \in Scores
  BY <1>1, <1>2, RememberKeepsBest DEF SInv, TypeOK
<1>4. TypeOK'  BY <1>1, <1>2, <1>3 DEF SInv, TypeOK
<1>. QED  BY <1>2, <1>4, <1>5 DEF SInv, ContextIsBestOfAll

LEMMA SearchKeepsSInv ==
  ASSUME SInv, NEW score \in Scores, NEW n \in Limits, SearchRunbooks(score, n)
  PROVE  SInv'
<1>. DEFINE found == Relevant(Search(score, n))
            all == ToSet(context) \union ToSet(found)
<1>1. /\ ToSet(found) \in SUBSET Hits /\ OneEach(ToSet(found))
      /\ \A h \in ToSet(found) : h.score >= MinimumScore
  <2>1. found \in Seq(Hits) /\ OneEach(ToSet(found))
        /\ \A h \in ToSet(found) : h.score >= MinimumScore
    BY FoundIsRelevant
  <2>. HIDE DEF found
  <2>. QED  BY <2>1 DEF ToSet
<1>2. /\ context' = Merge(context, found) /\ Remember(found) /\ mode = "react"
      /\ UNCHANGED <<mode, query, limit, node, assessment>> /\ searches' = searches + 1 /\ node = "retrieve"
  BY DEF SearchRunbooks
<1>. HIDE DEF found
<1>3. Scored(best) \in SUBSET Hits /\ OneEach(Scored(best))
  BY DEF SInv, TypeOK, Scored, Scores, Hit, Hits, OneEach, Unknown
<1>4. /\ best' \in Scores
      /\ Scored(best)' = BestHits(Scored(best) \union ToSet(found))
  BY <1>1, <1>2, RememberKeepsBest DEF SInv, TypeOK
<1>5. MaxContextSections \in Nat  BY SearchAssumption
<1>6. all \in SUBSET Hits /\ \A h \in all : h.score >= MinimumScore
  BY <1>1 DEF SInv, TypeOK, ToSet
<1>7. /\ context' \in Seq(Hits)
      /\ ToSet(context') = Leading(BestHits(all), MaxContextSections)
      /\ \A i, j \in 1..Len(context') : i < j => Before(context'[i], context'[j])
  <2>1. BestHits(all) \in SUBSET Hits  BY <1>6, BestHitsProperties
  <2>2. context' = Cut(Ranked(BestHits(all)), MaxContextSections)  BY <1>2 DEF Merge
  <2>. HIDE DEF all
  <2>. QED  BY <1>5, <2>1, <2>2, CutRanked
<1>8. Leading(BestHits(all), MaxContextSections) = Leading(Scored(best)', MaxContextSections)
  <2>1. ToSet(context) = Leading(Scored(best), MaxContextSections)
    BY <1>2 DEF SInv, ContextIsBestOfAll
  <2>2. Leading(BestHits(Leading(Scored(best), MaxContextSections) \union ToSet(found)),
                MaxContextSections)
          = Leading(BestHits(Scored(best) \union ToSet(found)), MaxContextSections)
    BY <1>1, <1>3, <1>5, MergeIsLossless
  <2>. QED  BY <1>4, <2>1, <2>2
<1>9. \A h \in ToSet(context') : h.score >= MinimumScore
  <2>1. ToSet(context') \subseteq all
    BY <1>6, <1>7, BestHitsProperties DEF Leading
  <2>. QED  BY <1>6, <2>1
<1>. HIDE DEF all
<1>10. TypeOK'
  <2>1. mode' \in {"single_pass", "react"} /\ node' = "retrieve" /\ searches' \in Nat
        /\ assessment' \in Assessments \union {NoAssessment}
        /\ query' \in Scores /\ limit' \in Limits \union {0}
    BY <1>2 DEF SInv, TypeOK
  <2>. QED  BY <1>4, <1>7, <1>9, <2>1 DEF TypeOK
<1>11. ContextIsBestOfAll'
  BY <1>7, <1>8 DEF ContextIsBestOfAll
<1>. QED  BY <1>2, <1>10, <1>11 DEF SInv, HoldsItsSearch

LEMMA NextSInv == SInv /\ [Next]_vars => SInv'
<1>. SUFFICES ASSUME SInv, [Next]_vars PROVE SInv'  OBVIOUS
<1>0. CASE RetrieveContext
  BY <1>0, RetrieveKeepsSInv
<1>1. CASE \E score \in Scores, n \in Limits : SearchRunbooks(score, n)
  BY <1>1, SearchKeepsSInv
<1>2. CASE LeaveLoop \/ Raises \/ GenerateAssessment
  <2>1. /\ UNCHANGED <<mode, query, limit, context, best, searches>>
        /\ node' \in {"generate", "validate", "failed", "raised"}
        /\ mode = "single_pass" /\ node' \in {"generate", "validate"} => node = "generate"
        /\ assessment' \in Assessments \union {NoAssessment}
    BY <1>2 DEF LeaveLoop, Raises, GenerateAssessment, SInv, TypeOK
  <2>. QED  BY <2>1 DEF SInv, TypeOK, ContextIsBestOfAll, HoldsItsSearch, Scored
<1>3. CASE ValidateAssessment
  <2>1. /\ UNCHANGED <<mode, query, limit, context, best, searches, assessment>>
        /\ node = "validate"
        /\ node' \in {"complete", "generate", "failed"}
        /\ node' = "complete" => Valid(assessment)
    BY <1>3 DEF ValidateAssessment
  <2>. QED  BY <2>1 DEF SInv, TypeOK, ContextIsBestOfAll, HoldsItsSearch, Scored, Valid
<1>4. CASE Ended \/ UNCHANGED vars
  BY <1>4 DEF Ended, vars, SInv, TypeOK, ContextIsBestOfAll, HoldsItsSearch, Scored, Valid
<1>. QED  BY <1>0, <1>1, <1>2, <1>3, <1>4 DEF Next

\* The graphs keep the invariant, whatever is searched, assessed or raised.
THEOREM SearchInvariant == Spec => []SInv
BY InitSInv, NextSInv, PTL DEF Spec

\* Every variable keeps its type, and no section of little relevance is kept.
THEOREM SearchTypeCorrect == Spec => []TypeOK
BY SearchInvariant, PTL DEF SInv

\* However many searches are merged, in whatever order, and however small the
\* context is, it holds what all of them together rank first.
THEOREM ContextIsAlwaysBest == Spec => []ContextIsBestOfAll
BY SearchInvariant, PTL DEF SInv

-----------------------------------------------------------------------------
(* The evaluation *)

LEMMA SharesAreCounted ==
  ASSUME NEW part, NEW whole \in SUBSET Sections
  PROVE  /\ IsFiniteSet(whole) /\ IsFiniteSet(part \intersect whole)
         /\ Share(part, whole)[1] = Cardinality(part \intersect whole)
         /\ Share(part, whole)[1] \in Nat
         /\ (Share(part, whole)[1] = 0) <=> (part \intersect whole = {})
         /\ IsOne(Share(part, whole)) <=> (whole \subseteq part)
<1>1. IsFiniteSet(whole)
  <2>1. IsFiniteSet(Sections)  BY FS_Interval, SearchAssumption DEF Sections
  <2>. QED  BY <2>1, FS_Subset
<1>2. IsFiniteSet(part \intersect whole)  BY <1>1, FS_Subset
<1>3. Cardinality(part \intersect whole) = Cardinality(whole) <=> whole \subseteq part
  <2>1. ASSUME Cardinality(part \intersect whole) = Cardinality(whole) PROVE whole \subseteq part
    <3>1. part \intersect whole = whole  BY <1>1, <2>1, FS_Subset
    <3>. QED  BY <3>1
  <2>2. ASSUME whole \subseteq part PROVE part \intersect whole = whole
    BY <2>2
  <2>. QED  BY <2>1, <2>2
<1>4. /\ Share(part, whole)[1] = Cardinality(part \intersect whole)
      /\ Share(part, whole)[2] = Cardinality(whole)
  BY DEF Share
<1>5. (Cardinality(part \intersect whole) = 0) <=> (part \intersect whole = {})
  BY <1>2, FS_EmptySet
<1>6. Cardinality(part \intersect whole) \in Nat  BY <1>2, FS_CardinalityType
<1>. QED  BY <1>1, <1>2, <1>3, <1>4, <1>5, <1>6 DEF IsOne

LEMMA WholeIsShared ==
  ASSUME NEW part, NEW whole \in SUBSET Sections
  PROVE  IsOne(Share(part, whole)) <=> (whole \subseteq part)
BY SharesAreCounted

\* Evaluation and graph agree on what is grounded, and a retrieval case that may take
\* as many hits finds all that an assessment of the single-pass graph rests on.
THEOREM EvaluationAlwaysAgrees == Spec => []EvaluationAgrees
<1>1. ASSUME SInv, NEW expected \in (SUBSET Sections) \ {{}}, node = "complete"
      PROVE  LET result == AssessmentResult(expected) IN
             /\ result.matches /\ result.grounded
             /\ mode = "single_pass" /\ result.passed =>
                  \A n \in Limits : n >= limit => RetrievalResult(n, expected).passed
  <2>0. expected \in SUBSET Sections  OBVIOUS
  <2>1. assessment.sameIncident /\ assessment.citations \subseteq Ids(context)
    BY <1>1 DEF SInv, Valid
  <2>2. ASSUME mode = "single_pass", NEW n \in Limits, n >= limit,
               IsOne(Share(assessment.citations, expected))
        PROVE  IsOne(Share(Ids(Relevant(Search(query, n))), expected))
    <3>. DEFINE found == Ids(Relevant(Search(query, n)))
    <3>1. expected \subseteq assessment.citations
      BY <2>0, <2>2, WholeIsShared, Zenon
    <3>2. query \in Scores /\ limit \in Limits /\ context = Relevant(Search(query, limit))
      BY <1>1, <2>2 DEF SInv, TypeOK, HoldsItsSearch
    <3>3. Ids(context) \subseteq found
      BY <2>2, <3>2, LargerLimitsFindMore
    <3>4. expected \subseteq found  BY <2>1, <3>1, <3>3
    <3>. HIDE DEF found
    <3>5. IsOne(Share(found, expected))  BY <2>0, <3>4, WholeIsShared, Zenon
    <3>. QED  BY <3>5 DEF found
  <2>. QED  BY <1>1, <2>1, <2>2 DEF AssessmentResult, RetrievalResult
<1>2. ASSUME NEW expected \in (SUBSET Sections) \ {{}}, node # "complete"
      PROVE  ~ AssessmentResult(expected).passed
  BY <1>2 DEF AssessmentResult, WorstResult
<1>3. SInv => EvaluationAgrees  BY <1>1, <1>2 DEF EvaluationAgrees
<1>. QED  BY <1>3, SearchInvariant, PTL

LEMMA SomeNumberIsFirst ==
  ASSUME NEW R \in SUBSET Nat, R # {}
  PROVE  \E i \in R : \A k \in R : i <= k
<1>1. PICK i \in R : \A k \in R : <<k, i>> \notin OpToRel(<, Nat)
  BY NatLessThanWellFounded, WFMin
<1>2. \A k \in R : ~ k < i  BY <1>1 DEF OpToRel
<1>. QED  BY <1>2

LEMMA RankIsFirst ==
  ASSUME NEW hits \in Seq(Hits), NEW expected \in SUBSET Sections
  PROVE  LET ranks == {i \in 1..Len(hits) : hits[i].section \in expected} IN
         /\ (Rank(expected, hits) = 0) <=> (ranks = {})
         /\ ranks # {} => /\ Rank(expected, hits) \in ranks
                          /\ \A k \in ranks : Rank(expected, hits) <= k
<1>. DEFINE ranks == {i \in 1..Len(hits) : hits[i].section \in expected}
<1>1. ranks \in SUBSET Nat /\ 0 \notin ranks  OBVIOUS
<1>2. Rank(expected, hits) =
        IF ranks = {} THEN 0 ELSE CHOOSE i \in ranks : \A k \in ranks : i <= k
  BY DEF Rank
<1>. HIDE DEF ranks
<1>3. ranks # {} => \E i \in ranks : \A k \in ranks : i <= k
  BY <1>1, SomeNumberIsFirst
<1>4. /\ (Rank(expected, hits) = 0) <=> (ranks = {})
      /\ ranks # {} => /\ Rank(expected, hits) \in ranks
                       /\ \A k \in ranks : Rank(expected, hits) <= k
  BY <1>1, <1>2, <1>3
<1>. QED  BY <1>4 DEF ranks

\* There is a rank exactly when something was retrieved, and the rest follows it.
LEMMA RankFitsRecall ==
  ASSUME NEW hits \in Seq(Hits), NEW expected \in SUBSET Sections
  PROVE  LET rank == Rank(expected, hits)  recall == Share(Ids(hits), expected) IN
         /\ (rank = 0) <=> (recall[1] = 0)
         /\ rank # 0 => rank + recall[1] - 1 <= Len(hits)
<1>. DEFINE ranks == {i \in 1..Len(hits) : hits[i].section \in expected}
            hit == Ids(hits) \intersect expected
            rank == Rank(expected, hits)
            place == [s \in hit |-> CHOOSE i \in ranks : hits[i].section = s]
<1>1. \A s \in hit : \E i \in ranks : hits[i].section = s
  BY DEF Ids, ToSet
<1>2. \A i \in ranks : hits[i].section \in hit
  BY DEF Ids, ToSet
<1>3. /\ (rank = 0) <=> (ranks = {})
      /\ ranks # {} => rank \in ranks /\ \A k \in ranks : rank <= k
  BY RankIsFirst
<1>4. /\ Share(Ids(hits), expected)[1] = Cardinality(hit)
      /\ Cardinality(hit) \in Nat
      /\ (Cardinality(hit) = 0) <=> (hit = {})
  <2>. DEFINE ids == Ids(hits)
  <2>0. hit = ids \intersect expected  OBVIOUS
  <2>. HIDE DEF ids, hit, ranks, rank, place
  <2>1. Share(ids, expected)[1] = Cardinality(ids \intersect expected)
    BY SharesAreCounted
  <2>2. Share(ids, expected)[1] \in Nat
    BY SharesAreCounted
  <2>3. (Share(ids, expected)[1] = 0) <=> (ids \intersect expected = {})
    BY SharesAreCounted
  <2>. QED  BY <2>0, <2>1, <2>2, <2>3 DEF ids
<1>5. (ranks = {}) <=> (hit = {})
  BY <1>1, <1>2
<1>6. ASSUME rank # 0
      PROVE  rank + Cardinality(hit) - 1 <= Len(hits)
  <2>1. rank \in 1..Len(hits) /\ \A k \in ranks : k \in rank..Len(hits)
    BY <1>3, <1>6
  <2>2. \A s \in hit : place[s] \in ranks /\ hits[place[s]].section = s
    BY <1>1
  <2>. HIDE DEF rank, ranks, hit, place
  <2>0. Len(hits) \in Nat  BY LenProperties
  <2>3. place \in [hit -> rank..Len(hits)]
    BY <2>1, <2>2 DEF place
  <2>4. place \in Injection(hit, rank..Len(hits))
    <3>1. \A s, t \in hit : place[s] = place[t] => s = t  BY <2>2
    <3>. QED  BY <2>3, <3>1 DEF Injection, IsInjective
  <2>5. /\ IsFiniteSet(rank..Len(hits))
        /\ Cardinality(rank..Len(hits)) = Len(hits) - rank + 1
    BY <2>1, FS_Interval
  <2>6. Cardinality(hit) <= Len(hits) - rank + 1
    BY <2>4, <2>5, FS_Injection
  <2>. QED  BY <1>4, <2>0, <2>1, <2>6
<1>. HIDE DEF ranks, hit
<1>. QED  BY <1>3, <1>4, <1>5, <1>6

\* Recall and reciprocal rank never contradict each other.
THEOREM MetricsAlwaysAgree == Spec => []MetricsAgree
<1>1. ASSUME SInv, NEW expected \in (SUBSET Sections) \ {{}}, NEW n \in Limits
      PROVE  LET result == RetrievalResult(n, expected) IN
             /\ result.rank = 0 <=> result.recall[1] = 0
             /\ result.rank # 0 => result.rank + result.recall[1] - 1 <= result.retrieved
  <2>. DEFINE hits == Relevant(Search(query, n))
  <2>1. hits \in Seq(Hits)
    BY <1>1, FoundIsRelevant DEF SInv, TypeOK
  <2>2. RetrievalResult(n, expected) =
          [retrieved |-> Len(hits), recall |-> Share(Ids(hits), expected),
           rank |-> Rank(expected, hits), passed |-> IsOne(Share(Ids(hits), expected))]
    BY DEF RetrievalResult
  <2>. HIDE DEF hits
  <2>3. expected \in SUBSET Sections  OBVIOUS
  <2>. QED  BY <2>1, <2>2, <2>3, RankFitsRecall
<1>2. SInv => MetricsAgree  BY <1>1 DEF MetricsAgree
<1>. QED  BY <1>2, SearchInvariant, PTL
==============================================================================
