-------------------------- MODULE MigrationsProofs --------------------------
(***************************************************************************)
(* Theorems about Migrations, for any chain of revisions that fit          *)
(* together, any number of migrators and any targets; and that the         *)
(* revisions of RootPilot (SchemaRevisions) are such a chain, at whose end *)
(* there is what its models declare.                                       *)
(*                                                                         *)
(* RevisionFits looks at one revision at a time.  That it carries over to  *)
(* every history of upgrades, downgrades, aborts and races rests on an     *)
(* invariant: the database holds the objects of its revision, transactions *)
(* move from the revision they found towards their target, and only one of *)
(* them has written a version, which is of the database's revision.  Where *)
(* that version is the first, no row of alembic_version keeps the others   *)
(* away, but the tables of the first revision, on which all of them wait.  *)
(***************************************************************************)
EXTENDS Migrations, SchemaRevisions, WellFoundedInduction, TLAPS

\* What makes the revisions fit together can be seen of each by itself, next to
\* the schema it starts from: it creates what is not there yet, asks nothing of
\* the rows of older tables, and its downgrade drops what its upgrade creates,
\* and nothing else.
RevisionFits(k) ==
  LET before == Objects(k - 1)  after == Objects(k)
      tables == TablesOf(before)  newTables == TablesOf(after)  all == Objects(Head)
      extensions == {p \in all : p.kind = "extension"}
  IN
  /\ \A o \in Creates[k], p \in before \union extensions :
       o.table = p.table /\ o.name = p.name => o.kind \in Tolerant
  /\ \A o \in Required(Creates[k]) : o.table \notin tables
  /\ Foreign(Creates[k]) \subseteq newTables
  /\ \A o \in after : Gone(k, o) <=> o \notin before /\ o.kind # "extension"
  /\ Drops[k].tables \subseteq newTables
  /\ Drops[k].names \subseteq NamesOf(after)
  /\ Foreign(before) \intersect Drops[k].tables = {}

\* Every revision fits, and the first one creates something that cannot be created twice.
Chain ==
  /\ \A k \in 1..Head : RevisionFits(k)
  /\ Head > 0 => \E o \in Creates[1] : o.kind \notin Tolerant

\* The objects of revision r, and extensions that a downgrade has left behind.
OfRevision(r, s) ==
  /\ Objects(r) \subseteq s
  /\ \A o \in s \ Objects(r) : o \in Objects(Head) /\ o.kind = "extension"

Transaction ==
  [running : BOOLEAN, from : 0..Head, at : 0..Head, ran : 0..Head, to : 0..Head]

\* A transaction is on its way from the revision it found to its target, at most the
\* statements of one step ahead of the version it has written.
Underway(t) ==
  \/ t.from <= t.at /\ t.at <= t.ran /\ t.ran <= t.to /\ t.ran <= t.at + 1
  \/ t.to <= t.ran /\ t.ran <= t.at /\ t.at <= t.from /\ t.at <= t.ran + 1

Idling(t) == t.from = 0 /\ t.at = 0 /\ t.ran = 0

OneRow == versions \subseteq 1..Head /\ \A a, b \in versions : a = b

MInv ==
  /\ OneRow
  /\ OfRevision(revision, schema)
  /\ populated \subseteq TablesOf(schema)
  /\ tx \in [Migrators -> Transaction]
  /\ \A m \in Migrators :
       /\ Underway(tx[m])
       /\ tx[m].running \/ Idling(tx[m])
       /\ Moved(m) => tx[m].from = revision
       /\ tx[m].from = 0 /\ tx[m].ran # 0 => revision = 0
  /\ \A m, n \in Migrators : m # n =>
       /\ ~ (Moved(m) /\ Moved(n))
       /\ Locked(tx[m]) \intersect Locked(tx[n]) = {}

-----------------------------------------------------------------------------
(* One revision *)

LEMMA ObjectsGrow ==
  ASSUME NEW k \in 0..Head
  PROVE  /\ Objects(k) \subseteq Objects(Head)
         /\ \A i \in 0..k : Objects(i) \subseteq Objects(k)
         /\ k > 0 => Objects(k) = Objects(k - 1) \union Creates[k]
         /\ k = 0 => Objects(k) = {}
<1>. USE MigrationAssumption
<1>1. \A i \in 0..k : 1..i \subseteq 1..k /\ 1..k \subseteq 1..Head
  OBVIOUS
<1>2. k > 0 => 1..k = (1..(k - 1)) \union {k}
  OBVIOUS
<1>. QED  BY <1>1, <1>2 DEF Objects

\* Extensions that were left behind are no tables.
LEMMA TablesOfRevision ==
  ASSUME NEW r \in 0..Head, NEW s, OfRevision(r, s)
  PROVE  TablesOf(s) = TablesOf(Objects(r))
BY DEF OfRevision, TablesOf, Pseudo

LEMMA TablesGrow ==
  ASSUME NEW k \in 0..Head, NEW i \in 0..k
  PROVE  TablesOf(Objects(i)) \subseteq TablesOf(Objects(k))
BY ObjectsGrow DEF TablesOf

LEMMA NumberIsFirst ==
  ASSUME NEW R \in SUBSET Nat, R # {}
  PROVE  \E i \in R : \A k \in R : i <= k
<1>1. PICK i \in R : \A k \in R : <<k, i>> \notin OpToRel(<, Nat)
  BY NatLessThanWellFounded, WFMin
<1>2. \A k \in R : ~ k < i  BY <1>1 DEF OpToRel
<1>. QED  BY <1>2

\* Upgrades lead from one revision to a later one.
LEMMA UpgradesLead ==
  ASSUME NEW a \in 0..Head, NEW b \in a..Head, NEW s, OfRevision(a, s)
  PROVE  OfRevision(b, Along(s, a, b))
<1>1. Between(a, b) = (a + 1)..b
  BY MigrationAssumption DEF Between
<1>2. 1..b = (1..a) \union (a + 1)..b
  BY MigrationAssumption
<1>3. Objects(b) = Objects(a) \union UNION {Creates[k] : k \in (a + 1)..b}
  BY <1>2 DEF Objects
<1>4. Along(s, a, b) = s \union UNION {Creates[k] : k \in (a + 1)..b}
  BY <1>1, MigrationAssumption DEF Along
<1>. QED  BY <1>3, <1>4 DEF OfRevision

\* Downgrades lead back.
LEMMA DowngradesLead ==
  ASSUME Chain, NEW b \in 0..Head, NEW a \in 0..Head, b < a, NEW s, OfRevision(a, s)
  PROVE  OfRevision(b, Along(s, a, b))
<1>. USE MigrationAssumption
<1>1. Between(a, b) = (b + 1)..a
  BY DEF Between
<1>2. Along(s, a, b) = {o \in s : \A k \in (b + 1)..a : ~ Gone(k, o)}
  BY <1>1 DEF Along
<1>3. ASSUME NEW k \in (b + 1)..a
      PROVE  /\ k \in 1..Head /\ k - 1 \in 0..Head
             /\ Objects(b) \subseteq Objects(k - 1) /\ Objects(k - 1) \subseteq Objects(k)
             /\ \A o \in Objects(k) : Gone(k, o) <=> o \notin Objects(k - 1) /\ o.kind # "extension"
  <2>1. k \in 1..Head /\ k - 1 \in 0..Head /\ b \in 0..(k - 1)  OBVIOUS
  <2>2. \A o \in Objects(k) : Gone(k, o) <=> o \notin Objects(k - 1) /\ o.kind # "extension"
    BY <2>1 DEF Chain, RevisionFits
  <2>. QED  BY <2>1, <2>2, ObjectsGrow
<1>4. Objects(b) \subseteq Along(s, a, b)
  <2>. SUFFICES ASSUME NEW o \in Objects(b) PROVE o \in Along(s, a, b)
    OBVIOUS
  <2>1. o \in s  BY ObjectsGrow DEF OfRevision
  <2>2. \A k \in (b + 1)..a : ~ Gone(k, o)  BY <1>3
  <2>. QED  BY <1>2, <2>1, <2>2
<1>5. ASSUME NEW o \in Along(s, a, b), o \notin Objects(b)
      PROVE  o \in Objects(Head) /\ o.kind = "extension"
  <2>1. o \in s /\ \A k \in (b + 1)..a : ~ Gone(k, o)
    BY <1>2, <1>5
  <2>2. CASE o \notin Objects(a)
    BY <2>1, <2>2 DEF OfRevision
  <2>3. CASE o \in Objects(a)
    <3>. DEFINE R == {k \in 0..a : o \in Objects(k)}
    <3>1. R \in SUBSET Nat /\ a \in R  BY <2>3
    <3>. HIDE DEF R
    <3>2. PICK k \in R : \A i \in R : k <= i
      BY <3>1, NumberIsFirst
    <3>. USE DEF R
    <3>3. k \in 0..a /\ o \in Objects(k)  OBVIOUS
    <3>4. k > b
      <4>1. k \in 0..b => Objects(k) \subseteq Objects(b)  BY ObjectsGrow
      <4>. QED  BY <1>5, <3>3, <4>1
    <3>5. k \in (b + 1)..a /\ k - 1 \in 0..a  BY <3>3, <3>4
    <3>6. o \notin Objects(k - 1)
      BY <3>2, <3>5
    <3>. QED  BY <1>3, <2>1, <3>3, <3>5, <3>6, ObjectsGrow
  <2>. QED  BY <2>2, <2>3
<1>. QED  BY <1>4, <1>5 DEF OfRevision

-----------------------------------------------------------------------------
(* What a migrator sees *)

\* The revision is the row of alembic_version, if it has one.
LEMMA RevisionIsRow ==
  ASSUME OneRow
  PROVE  /\ revision \in 0..Head
         /\ versions = {} => revision = 0
         /\ versions # {} => revision \in versions /\ revision # 0
         /\ \A r \in 1..Head : r \in versions <=> r = revision
<1>1. CASE versions = {}
  BY <1>1, MigrationAssumption DEF revision
<1>2. CASE versions # {}
  <2>1. revision \in versions  BY <1>2 DEF revision
  <2>2. revision \in 1..Head  BY <2>1 DEF OneRow
  <2>. QED  BY <1>2, <2>1, <2>2, MigrationAssumption DEF OneRow
<1>. QED  BY <1>1, <1>2

\* The view of a migrator that has come so far is that of the revision it has come to.
LEMMA ViewIsOfRevision ==
  ASSUME Chain, MInv, NEW m \in Migrators, tx[m].from = revision
  PROVE  OfRevision(tx[m].ran, View(m))
<1>1. tx[m].from \in 0..Head /\ tx[m].ran \in 0..Head
  BY DEF MInv, Transaction
<1>2. OfRevision(tx[m].from, schema)  BY DEF MInv
<1>3. CASE tx[m].from <= tx[m].ran
  BY <1>1, <1>2, <1>3, UpgradesLead, MigrationAssumption DEF View
<1>4. CASE tx[m].ran < tx[m].from
  BY <1>1, <1>2, <1>4, DowngradesLead DEF View
<1>. QED  BY <1>1, <1>3, <1>4

LEMMA StepIsNext ==
  ASSUME MInv, NEW m \in Migrators, Pending(m)
  PROVE  /\ tx[m] \in Transaction /\ tx[m].ran = tx[m].at /\ Underway(tx[m])
         /\ StepOf(m) \in 1..Head /\ NextOf(m) \in 0..Head
         /\ \/ tx[m].at < tx[m].to /\ tx[m].from <= tx[m].at
               /\ StepOf(m) = tx[m].at + 1 /\ NextOf(m) = tx[m].at + 1
            \/ tx[m].to < tx[m].at /\ tx[m].at <= tx[m].from
               /\ StepOf(m) = tx[m].at /\ NextOf(m) = tx[m].at - 1
BY MigrationAssumption DEF MInv, Transaction, Pending, Underway, StepOf, NextOf

LEMMA UpgradeIsAccepted ==
  ASSUME Chain, MInv, NEW m \in Migrators, Pending(m), tx[m].from = revision,
         tx[m].at < tx[m].to
  PROVE  Upgradable(StepOf(m), View(m))
<1>. DEFINE k == StepOf(m)  s == View(m)
<1>1. k \in 1..Head /\ k - 1 = tx[m].at /\ OfRevision(k - 1, s) /\ revision \in 0..(k - 1)
  <2>1. tx[m].at \in 0..Head /\ tx[m].to \in 0..Head /\ tx[m].from \in 0..Head
    BY StepIsNext DEF Transaction
  <2>2. k \in 1..Head /\ k = tx[m].at + 1 /\ tx[m].from <= tx[m].at
    BY <2>1, StepIsNext
  <2>3. OfRevision(tx[m].at, s)
    BY StepIsNext, ViewIsOfRevision
  <2>. QED  BY <2>1, <2>2, <2>3
<1>2. RevisionFits(k)  BY <1>1 DEF Chain
<1>. HIDE DEF k, s
<1>3. NamesOf({o \in Creates[k] : o.kind \notin Tolerant}) \intersect NamesOf(s) = {}
  <2>1. \A p \in s : p \in Objects(Head) /\ (p \in Objects(k - 1) \/ p.kind = "extension")
    BY <1>1, ObjectsGrow, MigrationAssumption DEF OfRevision
  <2>2. \A o \in Creates[k], p \in s :
          o.table = p.table /\ o.name = p.name => o.kind \in Tolerant
    BY <1>2, <2>1 DEF RevisionFits
  <2>. QED  BY <2>2 DEF NamesOf
<1>4. TablesOf(Required(Creates[k])) \intersect populated = {}
  <2>1. populated \subseteq TablesOf(Objects(revision))
    <3>1. revision \in 0..Head  BY RevisionIsRow DEF MInv
    <3>. QED  BY <3>1, TablesOfRevision DEF MInv
  <2>2. TablesOf(Objects(revision)) \subseteq TablesOf(Objects(k - 1))
    BY <1>1, TablesGrow, MigrationAssumption
  <2>3. \A o \in Required(Creates[k]) : o.table \notin populated
    BY <1>2, <2>1, <2>2 DEF RevisionFits
  <2>. QED  BY <2>3 DEF TablesOf
<1>5. Foreign(Creates[k]) \subseteq TablesOf(s \union Creates[k])
  <2>0. Objects(k) = Objects(k - 1) \union Creates[k]
    BY <1>1, ObjectsGrow, MigrationAssumption
  <2>1. OfRevision(k, s \union Creates[k])  BY <1>1, <2>0 DEF OfRevision
  <2>2. TablesOf(s \union Creates[k]) = TablesOf(Objects(k))
    BY <1>1, <2>1, TablesOfRevision, MigrationAssumption
  <2>. QED  BY <1>2, <2>2 DEF RevisionFits
<1>6. Upgradable(k, s)  BY <1>3, <1>4, <1>5 DEF Upgradable
<1>. QED  BY <1>6 DEF k, s

LEMMA DowngradeIsAccepted ==
  ASSUME Chain, MInv, NEW m \in Migrators, Pending(m), tx[m].from = revision,
         ~ tx[m].at < tx[m].to
  PROVE  Downgradable(StepOf(m), View(m))
<1>. DEFINE k == StepOf(m)  s == View(m)
<1>1. k \in 1..Head /\ OfRevision(k, s)
  BY StepIsNext, ViewIsOfRevision
<1>2. RevisionFits(k)  BY <1>1 DEF Chain
<1>. HIDE DEF k, s
<1>3. Drops[k].tables \subseteq TablesOf(s)
  BY <1>1, <1>2, TablesOfRevision, MigrationAssumption DEF RevisionFits
<1>4. Drops[k].names \subseteq NamesOf(s)
  BY <1>1, <1>2 DEF RevisionFits, OfRevision, NamesOf
<1>5. \A o \in Undo(k, s) : o.kind = "foreign" => o \in Objects(k - 1)
  BY <1>1, <1>2 DEF RevisionFits, OfRevision, Undo
<1>6. Foreign(Undo(k, s)) \subseteq Foreign(Objects(k - 1))
  BY <1>5 DEF Foreign
<1>7. Downgradable(k, s)
  BY <1>2, <1>3, <1>4, <1>6 DEF Downgradable, RevisionFits
<1>. QED  BY <1>7 DEF k, s

-----------------------------------------------------------------------------
(* The invariant *)

LEMMA InitMInv == ASSUME Init PROVE MInv
<1>1. Objects(0) = {} /\ revision = 0
  BY DEF Init, Objects, revision
<1>2. \A m \in Migrators : tx[m] = Idle /\ Locked(tx[m]) = {}
  <2>1. Between(0, 0) = {}  BY DEF Between
  <2>2. \A m \in Migrators : tx[m] = Idle  BY DEF Init
  <2>3. Locked(Idle) = {}  BY <2>1 DEF Locked, Idle
  <2>. QED  BY <2>2, <2>3
<1>3. Idle \in Transaction  BY MigrationAssumption DEF Idle, Transaction
<1>. QED
  BY <1>1, <1>2, <1>3 DEF Init, MInv, OneRow, OfRevision, Underway, Idling, Moved, Idle

\* A step that changes one transaction, and not the database.
LEMMA TransactionKeepsMInv ==
  ASSUME MInv, NEW m \in Migrators, NEW t \in Transaction,
         tx' = [tx EXCEPT ![m] = t], UNCHANGED <<versions, schema, populated>>,
         Underway(t), t.running \/ Idling(t),
         t.at # t.from => t.from = revision /\ \A n \in Migrators \ {m} : ~ Moved(n),
         t.from = 0 /\ t.ran # 0 => revision = 0,
         \A n \in Migrators \ {m} :
           Locked(t) \intersect Locked(tx[n]) = {}
  PROVE  MInv'
<1>1. /\ tx' \in [Migrators -> Transaction] /\ tx'[m] = t
      /\ \A n \in Migrators \ {m} : tx'[n] = tx[n]
  BY DEF MInv
<1>2. revision' = revision  BY DEF revision
<1>3. Locked(tx'[m]) = Locked(t) /\ \A n \in Migrators \ {m} : Locked(tx'[n]) = Locked(tx[n])
  BY <1>1
<1>4. /\ Moved(m)' <=> t.at # t.from
      /\ \A n \in Migrators \ {m} : Moved(n)' <=> Moved(n)
  BY <1>1 DEF Moved
<1>5. \A n \in Migrators :
        /\ Underway(tx'[n])
        /\ tx'[n].running \/ Idling(tx'[n])
        /\ Moved(n)' => tx'[n].from = revision
        /\ tx'[n].from = 0 /\ tx'[n].ran # 0 => revision = 0
  BY <1>1, <1>4 DEF MInv
<1>6. \A k, n \in Migrators : k # n =>
        /\ ~ (Moved(k)' /\ Moved(n)')
        /\ Locked(tx'[k]) \intersect Locked(tx'[n]) = {}
  <2>1. \A k, n \in Migrators : k # n => ~ (Moved(k)' /\ Moved(n)')
    BY <1>4 DEF MInv
  <2>2. \A n \in Migrators \ {m} : Locked(tx'[m]) \intersect Locked(tx'[n]) = {}
    BY <1>3
  <2>3. \A k, n \in Migrators \ {m} : k # n => Locked(tx'[k]) \intersect Locked(tx'[n]) = {}
    BY <1>3 DEF MInv
  <2>. QED  BY <2>1, <2>2, <2>3
<1>7. OneRow' /\ OfRevision(revision', schema') /\ populated' \subseteq TablesOf(schema')
  BY <1>2 DEF MInv, OneRow
<1>. QED  BY <1>1, <1>2, <1>5, <1>6, <1>7 DEF MInv

LEMMA BeginKeepsMInv ==
  ASSUME MInv, NEW m \in Migrators, NEW target \in Targets, Begin(m, target)
  PROVE  MInv'
<1>. DEFINE t == [running |-> TRUE, from |-> revision, at |-> revision,
                  ran |-> revision, to |-> target]
<1>1. revision \in 0..Head /\ target \in 0..Head
  BY RevisionIsRow, MigrationAssumption DEF MInv
<1>2. t \in Transaction /\ Underway(t)
  BY <1>1 DEF Transaction, Underway
<1>3. Locked(t) = {}
  <2>1. Between(t.from, t.ran) = {}  BY <1>1 DEF Between
  <2>. QED  BY <2>1 DEF Locked
<1>4. tx' = [tx EXCEPT ![m] = t] /\ UNCHANGED <<versions, schema, populated>>
  BY DEF Begin
<1>5. t.running /\ t.at = t.from /\ (t.from = 0 => t.ran = 0)
  OBVIOUS
<1>. HIDE DEF t
<1>. QED  BY <1>2, <1>3, <1>4, <1>5, TransactionKeepsMInv

\* Only in an empty database are the statements of the first revision accepted.
LEMMA FirstStepNeedsEmpty ==
  ASSUME Chain, MInv, NEW m \in Migrators, Pending(m), Accepted(m), tx[m].from = 0
  PROVE  revision = 0
<1>1. tx[m].at = 0 \/ Moved(m)
  BY DEF Moved
<1>2. CASE Moved(m)
  BY <1>2 DEF MInv
<1>3. CASE tx[m].at = 0
  <2>1. tx[m].ran = 0 /\ tx[m].at < tx[m].to /\ StepOf(m) = 1 /\ 1 \in 1..Head
    BY <1>3, StepIsNext DEF Transaction
  <2>2. View(m) = schema
    <3>1. Between(0, 0) = {}  BY DEF Between
    <3>. QED  BY <2>1, <3>1 DEF View, Along
  <2>3. NamesOf({o \in Creates[1] : o.kind \notin Tolerant}) \intersect NamesOf(schema) = {}
    BY <2>1, <2>2 DEF Accepted, Upgradable
  <2>4. PICK o \in Creates[1] : o.kind \notin Tolerant
    BY <2>1, MigrationAssumption DEF Chain
  <2>5. o \notin schema
    BY <2>3, <2>4 DEF NamesOf
  <2>6. revision \in 0..Head  BY RevisionIsRow DEF MInv
  <2>7. ASSUME revision # 0 PROVE FALSE
    <3>1. 1 \in 1..revision  BY <2>6, <2>7
    <3>2. o \in Objects(revision)  BY <2>4, <3>1 DEF Objects
    <3>. QED  BY <2>5, <3>2 DEF MInv, OfRevision
  <2>. QED  BY <2>7
<1>. QED  BY <1>1, <1>2, <1>3

LEMMA AlterKeepsMInv ==
  ASSUME Chain, MInv, NEW m \in Migrators, Alter(m)
  PROVE  MInv'
<1>. DEFINE t == [tx[m] EXCEPT !.ran = NextOf(m)]
<1>0. Pending(m) /\ Accepted(m)  BY DEF Alter
<1>1. /\ tx[m] \in Transaction /\ NextOf(m) \in 0..Head /\ tx[m].ran = tx[m].at
      /\ \/ tx[m].at < tx[m].to /\ tx[m].from <= tx[m].at
            /\ StepOf(m) = tx[m].at + 1 /\ NextOf(m) = tx[m].at + 1
         \/ tx[m].to < tx[m].at /\ tx[m].at <= tx[m].from
            /\ StepOf(m) = tx[m].at /\ NextOf(m) = tx[m].at - 1
  BY <1>0, StepIsNext
<1>2. /\ t \in Transaction /\ t.running /\ t.from = tx[m].from /\ t.at = tx[m].at
      /\ t.ran = NextOf(m) /\ t.to = tx[m].to
  BY <1>0, <1>1 DEF Transaction, Pending
<1>3. tx' = [tx EXCEPT ![m] = t] /\ UNCHANGED <<versions, schema, populated>>
  BY DEF Alter
<1>. HIDE DEF t
<1>4. Underway(t)
  BY <1>1, <1>2 DEF Underway, Transaction
<1>5. Between(t.from, t.ran) = Between(tx[m].from, tx[m].ran) \union {StepOf(m)}
  BY <1>1, <1>2 DEF Between, Transaction
<1>6. Locked(t) = Locked(tx[m]) \union Subjects(StepOf(m))
  BY <1>5 DEF Locked
<1>7. \A n \in Migrators \ {m} :
        Locked(t) \intersect Locked(tx[n]) = {}
  <2>1. \A n \in Migrators \ {m} : Locked(tx[m]) \intersect Locked(tx[n]) = {}
    BY DEF MInv
  <2>2. \A n \in Migrators \ {m} : Subjects(StepOf(m)) \intersect Locked(tx[n]) = {}
    BY DEF Alter
  <2>. QED  BY <1>6, <2>1, <2>2
<1>8. t.at # t.from => t.from = revision /\ \A n \in Migrators \ {m} : ~ Moved(n)
  BY <1>2 DEF MInv, Moved
<1>9. t.from = 0 => revision = 0
  BY <1>0, <1>2, FirstStepNeedsEmpty
<1>. QED  BY <1>2, <1>3, <1>4, <1>7, <1>8, <1>9, TransactionKeepsMInv

\* Whoever may write the version started from the revision of the database, and
\* nobody else has written one.
LEMMA StampIsCurrent ==
  ASSUME MInv, NEW m \in Migrators, CanStamp(m)
  PROVE  tx[m].from = revision /\ \A n \in Migrators \ {m} : ~ Moved(n)
<1>1. tx[m] \in Transaction  BY DEF MInv
<1>2. tx[m].from = revision
  <2>1. CASE tx[m].from # 0
    <3>1. tx[m].from \in 1..Head /\ tx[m].from \in versions
      BY <1>1, <2>1, MigrationAssumption DEF CanStamp, Transaction
    <3>. QED  BY <3>1, RevisionIsRow DEF MInv
  <2>2. CASE tx[m].from = 0
    <3>1. CASE tx[m].at = 0
      BY <2>2, <3>1 DEF CanStamp, MInv
    <3>2. CASE tx[m].at # 0
      BY <2>2, <3>2 DEF MInv, Moved
    <3>. QED  BY <3>1, <3>2
  <2>. QED  BY <2>1, <2>2
<1>. QED  BY <1>2 DEF CanStamp, MInv

LEMMA StampKeepsMInv ==
  ASSUME MInv, NEW m \in Migrators, Stamp(m)
  PROVE  MInv'
<1>. DEFINE t == [tx[m] EXCEPT !.at = tx[m].ran]
<1>0. tx[m] \in Transaction /\ Underway(tx[m]) /\ tx[m].running /\ CanStamp(m)
  BY DEF Stamp, CanStamp, MInv
<1>1. /\ t \in Transaction /\ t.running /\ t.from = tx[m].from /\ t.at = tx[m].ran
      /\ t.ran = tx[m].ran /\ t.to = tx[m].to
  BY <1>0 DEF Transaction
<1>2. tx' = [tx EXCEPT ![m] = t] /\ UNCHANGED <<versions, schema, populated>>
  BY DEF Stamp
<1>. HIDE DEF t
<1>3. Underway(t)
  BY <1>0, <1>1 DEF Underway, Transaction
<1>4. t.from = revision /\ \A n \in Migrators \ {m} : ~ Moved(n)
  BY <1>0, <1>1, StampIsCurrent
<1>5. \A n \in Migrators \ {m} :
        Locked(t) \intersect Locked(tx[n]) = {}
  <2>1. Locked(t) = Locked(tx[m])
    BY <1>1 DEF Locked
  <2>. QED  BY <2>1 DEF MInv
<1>. QED  BY <1>1, <1>2, <1>3, <1>4, <1>5, TransactionKeepsMInv

LEMMA AbortKeepsMInv ==
  ASSUME MInv, NEW m \in Migrators, Abort(m)
  PROVE  MInv'
<1>1. Idle \in Transaction /\ Underway(Idle) /\ Idling(Idle)
  BY MigrationAssumption DEF Idle, Transaction, Underway, Idling
<1>2. Idle.at = Idle.from /\ Idle.ran = 0  BY DEF Idle
<1>3. tx' = [tx EXCEPT ![m] = Idle] /\ UNCHANGED <<versions, schema, populated>>
  BY DEF Abort
<1>4. Locked(Idle) = {}
  <2>1. Between(0, 0) = {}  BY DEF Between
  <2>. QED  BY <2>1 DEF Locked, Idle
<1>. QED  BY <1>1, <1>2, <1>3, <1>4, TransactionKeepsMInv

\* Two migrators cannot both have run the statements of the first revision: they
\* would have locked the same tables.
LEMMA FirstStepExcludes ==
  ASSUME Chain, MInv, NEW m \in Migrators, NEW n \in Migrators, m # n,
         tx[m].from = 0, tx[m].ran # 0, tx[n].from = 0, tx[n].ran # 0
  PROVE  FALSE
<1>1. tx[m].ran \in 0..Head /\ tx[n].ran \in 0..Head
  BY DEF MInv, Transaction
<1>2. 1 \in Between(tx[m].from, tx[m].ran) /\ 1 \in Between(tx[n].from, tx[n].ran)
  BY <1>1 DEF Between
<1>3. PICK o \in Creates[1] : TRUE
  BY <1>1, MigrationAssumption DEF Chain
<1>4. o.table \in Subjects(1)  BY <1>3 DEF Subjects
<1>5. o.table \in Locked(tx[m]) /\ o.table \in Locked(tx[n])
  BY <1>2, <1>4 DEF Locked
<1>. QED  BY <1>5 DEF MInv

LEMMA CommitKeepsMInv ==
  ASSUME Chain, MInv, NEW m \in Migrators, Commit(m)
  PROVE  MInv'
<1>0. tx[m] \in Transaction /\ tx[m].ran = tx[m].at
  BY DEF MInv, Commit
<1>1. CASE ~ Moved(m)
  <2>1. Abort(m)  BY <1>1 DEF Commit, Abort
  <2>. QED  BY <2>1, AbortKeepsMInv
<1>2. CASE Moved(m)
  <2>. DEFINE r == tx[m].at
  <2>1. /\ tx[m].from = revision /\ r \in 0..Head /\ r # revision
        /\ \A n \in Migrators \ {m} : ~ Moved(n)
    BY <1>0, <1>2 DEF MInv, Transaction, Moved
  <2>2. versions \ {tx[m].from} = {}
    <3>1. OneRow  BY DEF MInv
    <3>2. \A v \in versions : v = revision  BY <3>1, RevisionIsRow DEF OneRow
    <3>. QED  BY <2>1, <3>2
  <2>3. versions' = {r} \ {0}
    BY <1>2, <2>2 DEF Commit
  <2>4. OneRow' /\ revision' = r
    <3>1. CASE r = 0
      BY <2>3, <3>1 DEF OneRow, revision
    <3>2. CASE r # 0
      <4>1. versions' = {r} /\ r \in 1..Head  BY <2>1, <2>3, <3>2, MigrationAssumption
      <4>. QED  BY <4>1 DEF OneRow, revision
    <3>. QED  BY <3>1, <3>2
  <2>5. OfRevision(r, View(m)) /\ schema' = View(m)
        /\ populated' = populated \intersect TablesOf(View(m))
    BY <1>0, <1>2, <2>1, ViewIsOfRevision DEF Commit
  <2>6. /\ tx' \in [Migrators -> Transaction] /\ tx'[m] = Idle
        /\ \A n \in Migrators \ {m} : tx'[n] = tx[n]
    BY MigrationAssumption DEF Commit, MInv, Transaction, Idle
  <2>7. /\ Locked(tx'[m]) = {} /\ ~ Moved(m)'
        /\ \A n \in Migrators \ {m} : Locked(tx'[n]) = Locked(tx[n]) /\ ~ Moved(n)'
    BY <2>1, <2>6 DEF Locked, Moved, Between, Idle
  <2>8. ASSUME NEW n \in Migrators \ {m}, tx[n].from = 0, tx[n].ran # 0
        PROVE  FALSE
    <3>1. tx[m].from = 0 /\ tx[m].ran # 0
      BY <1>0, <2>1, <2>8 DEF MInv
    <3>. QED  BY <2>8, <3>1, FirstStepExcludes
  <2>9. \A n \in Migrators :
          /\ Underway(tx'[n])
          /\ tx'[n].running \/ Idling(tx'[n])
          /\ ~ (tx'[n].from = 0 /\ tx'[n].ran # 0)
    BY <2>6, <2>8 DEF MInv, Underway, Idling, Idle
  <2>. HIDE DEF r
  <2>10. \A k, n \in Migrators : k # n => Locked(tx'[k]) \intersect Locked(tx'[n]) = {}
    BY <2>7 DEF MInv
  <2>11. OfRevision(revision', schema') /\ populated' \subseteq TablesOf(schema')
    BY <2>4, <2>5
  <2>. QED  BY <2>4, <2>6, <2>7, <2>9, <2>10, <2>11 DEF MInv
<1>. QED  BY <1>1, <1>2

LEMMA NextKeepsMInv == ASSUME Chain, MInv, [Next]_vars PROVE MInv'
<1>1. CASE \E t \in TablesOf(schema) : Write(t)
  <2>1. UNCHANGED <<versions, schema, tx>> /\ populated' \subseteq TablesOf(schema)
    BY <1>1 DEF Write, MInv
  <2>. QED  BY <2>1 DEF MInv, OneRow, revision, Moved, Locked
<1>2. CASE UNCHANGED vars
  BY <1>2 DEF vars, MInv, OneRow, revision, Moved, Locked
<1>. QED
  BY <1>1, <1>2, BeginKeepsMInv, AlterKeepsMInv, StampKeepsMInv, CommitKeepsMInv,
     AbortKeepsMInv DEF Next

\* The database is always at the revision it says, and whoever has written a version
\* started from there.
THEOREM MigrationInvariant ==
  ASSUME Chain
  PROVE  Spec => []MInv
<1>1. Init => MInv  BY InitMInv
<1>2. MInv /\ [Next]_vars => MInv'  BY NextKeepsMInv
<1>. QED  BY <1>1, <1>2, PTL DEF Spec

-----------------------------------------------------------------------------
(* The theorems *)

\* The database holds the objects of its revision, whatever raced or failed.
THEOREM SchemaFollowsRevision ==
  ASSUME Chain
  PROVE  Spec => []SchemaIsOfRevision
<1>1. MInv => SchemaIsOfRevision  BY DEF MInv, OneRow, OfRevision, SchemaIsOfRevision
<1>. QED  BY <1>1, MigrationInvariant, PTL

\* No migrator is refused a step while the database is at the revision that it found,
\* over any rows and from any history.
THEOREM NoStepIsRefused ==
  ASSUME Chain
  PROVE  Spec => []StepsAreAccepted
<1>1. MInv => StepsAreAccepted
  BY UpgradeIsAccepted, DowngradeIsAccepted DEF StepsAreAccepted, Accepted
<1>. QED  BY <1>1, MigrationInvariant, PTL

\* A migrator that is late never writes a version, not even the first one.
THEOREM LateMigratorsAreStopped ==
  ASSUME Chain
  PROVE  Spec => []LateMigratorsAreRefused
<1>1. MInv => LateMigratorsAreRefused
  BY StampIsCurrent DEF MInv, LateMigratorsAreRefused
<1>. QED  BY <1>1, MigrationInvariant, PTL

\* A release can write to the tables it knows at every later revision.
THEOREM ReleasesKeepWriting ==
  ASSUME Chain
  PROVE  Spec => []OldReleasesCanWrite
<1>1. ASSUME MInv, NEW r \in 1..revision, NEW o \in Required(schema),
             o.table \in TablesOf(Objects(r))
      PROVE  o \in Objects(r)
  <2>0. revision \in 0..Head  BY <1>1, RevisionIsRow DEF MInv
  <2>1. r \in 0..Head /\ o \in Objects(revision)
    BY <1>1, <2>0, MigrationAssumption DEF MInv, OfRevision, Required
  <2>2. PICK k \in 1..revision : o \in Creates[k]
    BY <2>1 DEF Objects
  <2>3. CASE k <= r
    BY <2>0, <2>2, <2>3 DEF Objects
  <2>4. CASE k > r
    <3>1. k \in 1..Head /\ k - 1 \in 0..Head /\ r \in 0..(k - 1)
      BY <2>0, <2>1, <2>2, <2>4, MigrationAssumption
    <3>2. o.table \in TablesOf(Objects(k - 1))
      BY <1>1, <3>1, TablesGrow
    <3>3. o.table \notin TablesOf(Objects(k - 1))
      BY <1>1, <2>2, <3>1 DEF Chain, RevisionFits, Required
    <3>. QED  BY <3>2, <3>3
  <2>. QED  BY <2>0, <2>1, <2>2, <2>3, <2>4
<1>2. MInv => OldReleasesCanWrite  BY <1>1 DEF OldReleasesCanWrite
<1>. QED  BY <1>2, MigrationInvariant, PTL

\* At the last revision the database is that of the models, if the objects of all
\* revisions together are.
THEOREM HeadHasTheModels ==
  ASSUME Chain, Compared(Objects(Head)) = Compared(ModelObjects)
  PROVE  Spec => []HeadIsModels
<1>1. ASSUME MInv, revision = Head  PROVE schema = Objects(Head)
  BY <1>1 DEF MInv, OfRevision
<1>2. MInv => HeadIsModels  BY <1>1 DEF HeadIsModels
<1>. QED  BY <1>2, MigrationInvariant, PTL

-----------------------------------------------------------------------------
(* The chain of RootPilot *)

\* What alembic finds under migrations/versions.
RootPilot ==
  /\ Head = 7
  /\ Creates = RevisionCreates /\ Drops = RevisionDrops
  /\ ModelObjects = DeclaredObjects

\* The names that a later revision adds to a table.
JobNames == {"incident_id", "claimed_by", "lease_expires_at", "attempt_count",
  "max_attempts", "scheduled_at", "attempt_count_nonnegative", "max_attempts_positive",
  "attempt_count_within_limit", "ix_incident_id", "ix_scheduled_at"}

ReportNames == {"embedding_model", "analysis_model", "prompt_version", "retrieval_backend",
  "retrieval_limit", "minimum_relevance_score", "retrieved_sections",
  "minimum_relevance_score_range", "retrieval_limit_positive"}

ReactNames == {"investigation_mode", "react_iterations", "react_tool_calls",
  "react_trajectory", "react_termination_reason", "react_iterations_nonnegative",
  "react_tool_calls_nonnegative"}

DimensionNames == {"embedding_dimensions_expected"}

\* An object of a table, whose columns rows may lack.
Added(o, t, names) ==
  o.table = t /\ o.name \in names /\ o.kind \in {"defaulted", "nullable", "check", "index"}

\* An object of a new table, which is not one that is added later.
New(o, t, later) ==
  /\ o.table = t /\ o.name \notin later
  /\ o.kind \in {"required", "defaulted", "nullable", "check", "unique", "index"}

JobStatus    == Object("job_status", "job_status", "enum")
ReportStatus == Object("investigation_report_status", "investigation_report_status",
                       "shared enum")
Vector       == Object("vector", "vector", "extension")

LEMMA JobsCreated ==
  ASSUME NEW o \in CreateJobs
  PROVE  o = JobStatus \/ New(o, Jobs, JobNames)
<1>1. \A x \in Needed(Jobs, {"id", "input_path"}) : New(x, Jobs, JobNames)
  BY DEF New, Needed, All, Object, JobNames
<1>2. \A x \in Defaulted(Jobs, {"status", "created_at", "updated_at"}) : New(x, Jobs, JobNames)
  BY DEF New, Defaulted, All, Object, JobNames
<1>3. \A x \in Nullable(Jobs, {"error_message", "started_at", "completed_at"}) :
        New(x, Jobs, JobNames)
  BY DEF New, Nullable, All, Object, JobNames
<1>4. \A x \in Indexes(Jobs, {"ix_status"}) : New(x, Jobs, JobNames)
  BY DEF New, Indexes, All, Object, JobNames
<1>. QED  BY <1>1, <1>2, <1>3, <1>4 DEF CreateJobs, JobStatus

LEMMA ReportsCreated ==
  ASSUME NEW o \in CreateReports
  PROVE  \/ o = ReportStatus
         \/ o \in ForeignKey(Reports, "fk_job_id", Jobs)
         \/ New(o, Reports, ReportNames \union ReactNames)
<1>. DEFINE later == ReportNames \union ReactNames
<1>1. \A x \in Needed(Reports, {"id", "job_id", "incident_id", "root_cause",
         "supporting_evidence", "recommended_actions", "verification_steps",
         "confidence", "citation_ids"}) : New(x, Reports, later)
  BY DEF New, Needed, All, Object, ReportNames, ReactNames
<1>2. \A x \in Defaulted(Reports, {"status", "created_at", "updated_at"}) :
        New(x, Reports, later)
  BY DEF New, Defaulted, All, Object, ReportNames, ReactNames
<1>3. \A x \in Nullable(Reports, {"reviewed_by", "reviewer_feedback", "reviewed_at"}) :
        New(x, Reports, later)
  BY DEF New, Nullable, All, Object, ReportNames, ReactNames
<1>4. \A x \in Checks(Reports, {"confidence_range"}) : New(x, Reports, later)
  BY DEF New, Checks, All, Object, ReportNames, ReactNames
<1>5. \A x \in All(Reports, {"uq_job_id"}, "unique") : New(x, Reports, later)
  BY DEF New, All, Object, ReportNames, ReactNames
<1>6. \A x \in Indexes(Reports, {"ix_incident_id", "ix_status"}) : New(x, Reports, later)
  BY DEF New, Indexes, All, Object, ReportNames, ReactNames
<1>. QED  BY <1>1, <1>2, <1>3, <1>4, <1>5, <1>6 DEF CreateReports, ReportStatus

LEMMA ReviewEventsCreated ==
  ASSUME NEW o \in CreateReviewEvents
  PROVE  o \in ForeignKey(Events, "fk_report_id", Reports) \/ New(o, Events, {})
<1>1. \A x \in Needed(Events, {"id", "report_id", "previous_status", "new_status",
         "reviewed_by"}) : New(x, Events, {})
  BY DEF New, Needed, All, Object
<1>2. \A x \in Defaulted(Events, {"created_at"}) : New(x, Events, {})
  BY DEF New, Defaulted, All, Object
<1>3. \A x \in Nullable(Events, {"reviewer_feedback"}) : New(x, Events, {})
  BY DEF New, Nullable, All, Object
<1>4. \A x \in Indexes(Events, {"ix_report_id"}) : New(x, Events, {})
  BY DEF New, Indexes, All, Object
<1>. QED  BY <1>1, <1>2, <1>3, <1>4 DEF CreateReviewEvents

LEMMA RunbookIndexCreated ==
  ASSUME NEW o \in AddRunbookIndex
  PROVE  o = Vector \/ New(o, Index, DimensionNames)
<1>1. \A x \in Needed(Index, {"citation_id", "runbook_id", "runbook_title",
         "section_title", "content", "source_file", "content_hash",
         "embedding_model", "embedding_dimensions", "embedding"}) :
        New(x, Index, DimensionNames)
  BY DEF New, Needed, All, Object, DimensionNames
<1>2. \A x \in Defaulted(Index, {"indexed_at"}) : New(x, Index, DimensionNames)
  BY DEF New, Defaulted, All, Object, DimensionNames
<1>3. \A x \in Indexes(Index, {"ix_embedding_model", "ix_runbook_id", "ix_embedding_hnsw"}) :
        New(x, Index, DimensionNames)
  BY DEF New, Indexes, All, Object, DimensionNames
<1>. QED  BY <1>1, <1>2, <1>3 DEF AddRunbookIndex, Vector

LEMMA ProvenanceAdded ==
  ASSUME NEW o \in AddProvenance
  PROVE  Added(o, Jobs, JobNames) \/ Added(o, Reports, ReportNames)
<1>1. \A x \in Nullable(Jobs, {"incident_id", "claimed_by", "lease_expires_at"}) :
        Added(x, Jobs, JobNames)
  BY DEF Added, Nullable, All, Object, JobNames
<1>2. \A x \in Defaulted(Jobs, {"attempt_count", "max_attempts", "scheduled_at"}) :
        Added(x, Jobs, JobNames)
  BY DEF Added, Defaulted, All, Object, JobNames
<1>3. \A x \in Checks(Jobs, {"attempt_count_nonnegative", "max_attempts_positive",
         "attempt_count_within_limit"}) : Added(x, Jobs, JobNames)
  BY DEF Added, Checks, All, Object, JobNames
<1>4. \A x \in Indexes(Jobs, {"ix_incident_id", "ix_scheduled_at"}) : Added(x, Jobs, JobNames)
  BY DEF Added, Indexes, All, Object, JobNames
<1>5. \A x \in Defaulted(Reports, {"embedding_model", "analysis_model", "prompt_version",
         "retrieval_backend", "retrieval_limit", "minimum_relevance_score",
         "retrieved_sections"}) : Added(x, Reports, ReportNames)
  BY DEF Added, Defaulted, All, Object, ReportNames
<1>6. \A x \in Checks(Reports, {"minimum_relevance_score_range",
         "retrieval_limit_positive"}) : Added(x, Reports, ReportNames)
  BY DEF Added, Checks, All, Object, ReportNames
<1>. QED  BY <1>1, <1>2, <1>3, <1>4, <1>5, <1>6 DEF AddProvenance

LEMMA DimensionsConstrained ==
  ASSUME NEW o \in ConstrainDimensions
  PROVE  Added(o, Index, DimensionNames)
BY DEF ConstrainDimensions, Added, Checks, All, Object, DimensionNames

LEMMA ReactProvenanceAdded ==
  ASSUME NEW o \in AddReactProvenance
  PROVE  Added(o, Reports, ReactNames)
<1>1. \A x \in Defaulted(Reports, {"investigation_mode", "react_iterations",
         "react_tool_calls", "react_trajectory"}) : Added(x, Reports, ReactNames)
  BY DEF Added, Defaulted, All, Object, ReactNames
<1>2. \A x \in Nullable(Reports, {"react_termination_reason"}) : Added(x, Reports, ReactNames)
  BY DEF Added, Nullable, All, Object, ReactNames
<1>3. \A x \in Checks(Reports, {"react_iterations_nonnegative",
         "react_tool_calls_nonnegative"}) : Added(x, Reports, ReactNames)
  BY DEF Added, Checks, All, Object, ReactNames
<1>. QED  BY <1>1, <1>2, <1>3 DEF AddReactProvenance

-----------------------------------------------------------------------------
(* Downgrades *)

LEMMA TablesDropped ==
  ASSUME RootPilot, NEW o
  PROVE  /\ Gone(1, o) <=> o.table = Jobs \/ (o.table = "job_status" /\ o.name = "job_status")
         /\ Gone(2, o) <=> \/ o.table = Reports
                           \/ /\ o.table = "investigation_report_status"
                              /\ o.name = "investigation_report_status"
         /\ Gone(3, o) <=> o.table = Events
         /\ Gone(4, o) <=> o.table = Index
BY DEF RootPilot, RevisionDrops, DropJobs, DropReports, DropReviewEvents, DropRunbookIndex,
       Dropped, In, Gone

LEMMA NamesDropped ==
  ASSUME RootPilot, NEW o
  PROVE  /\ Gone(5, o) <=> \/ o.table = Jobs /\ o.name \in JobNames
                           \/ o.table = Reports /\ o.name \in ReportNames
         /\ Gone(6, o) <=> o.table = Index /\ o.name \in DimensionNames
         /\ Gone(7, o) <=> o.table = Reports /\ o.name \in ReactNames
BY DEF RootPilot, RevisionDrops, DropProvenance, ReleaseDimensions, DropReactProvenance,
       Dropped, In, Gone, JobNames, ReportNames, ReactNames, DimensionNames

-----------------------------------------------------------------------------
(* The revisions fit together *)

LEMMA Created ==
  ASSUME RootPilot, NEW k \in 1..Head, NEW o \in Creates[k]
  PROVE  \/ k = 1 /\ (o = JobStatus \/ New(o, Jobs, JobNames))
         \/ k = 2 /\ \/ o = ReportStatus
                     \/ o \in ForeignKey(Reports, "fk_job_id", Jobs)
                     \/ New(o, Reports, ReportNames \union ReactNames)
         \/ k = 3 /\ \/ o \in ForeignKey(Events, "fk_report_id", Reports)
                     \/ New(o, Events, {})
         \/ k = 4 /\ (o = Vector \/ New(o, Index, DimensionNames))
         \/ k = 5 /\ (Added(o, Jobs, JobNames) \/ Added(o, Reports, ReportNames))
         \/ k = 6 /\ Added(o, Index, DimensionNames)
         \/ k = 7 /\ Added(o, Reports, ReactNames)
<1>1. k \in 1..7 /\ o \in RevisionCreates[k]  BY DEF RootPilot
<1>2. \/ k = 1 /\ o \in CreateJobs
      \/ k = 2 /\ o \in CreateReports
      \/ k = 3 /\ o \in CreateReviewEvents
      \/ k = 4 /\ o \in AddRunbookIndex
      \/ k = 5 /\ o \in AddProvenance
      \/ k = 6 /\ o \in ConstrainDimensions
      \/ k = 7 /\ o \in AddReactProvenance
  BY <1>1 DEF RevisionCreates
<1>3. CASE o \in CreateJobs /\ k = 1  BY <1>3, JobsCreated
<1>4. CASE o \in CreateReports /\ k = 2  BY <1>4, ReportsCreated
<1>5. CASE o \in CreateReviewEvents /\ k = 3  BY <1>5, ReviewEventsCreated
<1>6. CASE o \in AddRunbookIndex /\ k = 4  BY <1>6, RunbookIndexCreated
<1>7. CASE o \in AddProvenance /\ k = 5  BY <1>7, ProvenanceAdded
<1>8. CASE o \in ConstrainDimensions /\ k = 6  BY <1>8, DimensionsConstrained
<1>9. CASE o \in AddReactProvenance /\ k = 7  BY <1>9, ReactProvenanceAdded
<1>. QED  BY <1>2, <1>3, <1>4, <1>5, <1>6, <1>7, <1>8, <1>9

\* A downgrade takes back what the upgrade created, and no extension.
LEMMA CreatedGoes ==
  ASSUME RootPilot, NEW k \in 1..Head, NEW o \in Creates[k]
  PROVE  Gone(k, o) <=> o.kind # "extension"
<1>1. CASE k = 1
  <2>1. o = JobStatus \/ New(o, Jobs, JobNames)  BY <1>1, Created
  <2>. QED  BY <1>1, <2>1, TablesDropped DEF New, JobStatus, Object
<1>2. CASE k = 2
  <2>1. \/ o = ReportStatus
        \/ o \in ForeignKey(Reports, "fk_job_id", Jobs)
        \/ New(o, Reports, ReportNames \union ReactNames)
    BY <1>2, Created
  <2>2. CASE o = ReportStatus
    BY <1>2, <2>2, TablesDropped DEF ReportStatus, Object
  <2>3. CASE o \in ForeignKey(Reports, "fk_job_id", Jobs)
    BY <1>2, <2>3, TablesDropped DEF ForeignKey
  <2>4. CASE New(o, Reports, ReportNames \union ReactNames)
    BY <1>2, <2>4, TablesDropped DEF New
  <2>. QED  BY <2>1, <2>2, <2>3, <2>4
<1>3. CASE k = 3
  <2>1. o \in ForeignKey(Events, "fk_report_id", Reports) \/ New(o, Events, {})
    BY <1>3, Created
  <2>. QED  BY <1>3, <2>1, TablesDropped DEF New, ForeignKey
<1>4. CASE k = 4
  <2>1. o = Vector \/ New(o, Index, DimensionNames)  BY <1>4, Created
  <2>. QED  BY <1>4, <2>1, TablesDropped DEF New, Vector, Object, Index
<1>5. CASE k = 5
  <2>1. Added(o, Jobs, JobNames) \/ Added(o, Reports, ReportNames)  BY <1>5, Created
  <2>. QED  BY <1>5, <2>1, NamesDropped DEF Added
<1>6. CASE k = 6 \/ k = 7
  <2>1. \/ k = 6 /\ Added(o, Index, DimensionNames)
        \/ k = 7 /\ Added(o, Reports, ReactNames)
    BY <1>6, Created
  <2>. QED  BY <1>6, <2>1, NamesDropped DEF Added
<1>. QED  BY <1>1, <1>2, <1>3, <1>4, <1>5, <1>6 DEF RootPilot

\* It leaves what was there before.
LEMMA EarlierStays ==
  ASSUME RootPilot, NEW k \in 1..Head, NEW j \in 1..(k - 1), NEW o \in Creates[j]
  PROVE  ~ Gone(k, o)
<1>1. j \in 1..Head /\ k \in 1..7 /\ j < k  BY DEF RootPilot
<1>2. CASE j = 1
  <2>1. o = JobStatus \/ New(o, Jobs, JobNames)  BY <1>1, <1>2, Created
  <2>2. /\ o.table \in {Jobs, "job_status"}
        /\ o.table = Jobs => o.name \notin JobNames
    BY <2>1 DEF New, JobStatus, Object, Jobs
  <2>. QED  BY <1>1, <1>2, <2>2, TablesDropped, NamesDropped DEF Jobs, Reports, Events, Index
<1>3. CASE j = 2
  <2>1. \/ o = ReportStatus
        \/ o \in ForeignKey(Reports, "fk_job_id", Jobs)
        \/ New(o, Reports, ReportNames \union ReactNames)
    BY <1>1, <1>3, Created
  <2>2. /\ o.table \in {Reports, "investigation_report_status"}
        /\ o.table = Reports => o.name \notin ReportNames \union ReactNames
    <3>1. CASE o = ReportStatus
      BY <3>1 DEF ReportStatus, Object, Reports
    <3>2. CASE o \in ForeignKey(Reports, "fk_job_id", Jobs)
      BY <3>2 DEF ForeignKey, ReportNames, ReactNames
    <3>3. CASE New(o, Reports, ReportNames \union ReactNames)
      BY <3>3 DEF New
    <3>. QED  BY <2>1, <3>1, <3>2, <3>3
  <2>. QED  BY <1>1, <1>3, <2>2, TablesDropped, NamesDropped DEF Jobs, Reports, Events, Index
<1>4. CASE j = 3
  <2>1. o \in ForeignKey(Events, "fk_report_id", Reports) \/ New(o, Events, {})
    BY <1>1, <1>4, Created
  <2>2. o.table = Events  BY <2>1 DEF New, ForeignKey
  <2>. QED  BY <1>1, <1>4, <2>2, TablesDropped, NamesDropped DEF Jobs, Reports, Events, Index
<1>5. CASE j = 4
  <2>1. o = Vector \/ New(o, Index, DimensionNames)  BY <1>1, <1>5, Created
  <2>2. /\ o.table \in {Index, "vector"}
        /\ o.table = Index => o.name \notin DimensionNames
    BY <2>1 DEF New, Vector, Object, Index
  <2>. QED  BY <1>1, <1>5, <2>2, NamesDropped DEF Jobs, Reports, Index
<1>6. CASE j = 5
  <2>1. Added(o, Jobs, JobNames) \/ Added(o, Reports, ReportNames)
    BY <1>1, <1>6, Created
  <2>2. ReportNames \intersect ReactNames = {}  BY DEF ReportNames, ReactNames
  <2>. QED  BY <1>1, <1>6, <2>1, <2>2, NamesDropped DEF Added, Jobs, Reports, Index
<1>7. CASE j = 6
  <2>1. Added(o, Index, DimensionNames)  BY <1>1, <1>7, Created
  <2>. QED  BY <1>1, <1>7, <2>1, NamesDropped DEF Added, Reports, Index
<1>. QED  BY <1>1, <1>2, <1>3, <1>4, <1>5, <1>6, <1>7

\* Tables of a revision and of those before it, the columns that rows must have,
\* the tables referred to, and the one extension.
LEMMA CreatedTables ==
  ASSUME RootPilot, NEW k \in 1..Head, NEW o \in Creates[k]
  PROVE  /\ (o.kind = "extension") <=> (o.table = "vector")
         /\ o.kind \notin Pseudo => \/ o.table = Jobs
                                    \/ o.table = Reports /\ k >= 2
                                    \/ o.table = Events /\ k >= 3
                                    \/ o.table = Index /\ k >= 4
         /\ o.kind = "required" => \/ o.table = Jobs /\ k = 1
                                   \/ o.table = Reports /\ k = 2
                                   \/ o.table = Events /\ k = 3
                                   \/ o.table = Index /\ k = 4
         /\ o.kind = "foreign" => \/ o.to = Jobs /\ k = 2
                                  \/ o.to = Reports /\ k = 3
<1>. DEFINE names == {Jobs, Reports, Events, Index}
<1>0. "vector" \notin names /\ Jobs # Reports  BY DEF Jobs, Reports, Events, Index
<1>1. CASE k = 1
  <2>1. o = JobStatus \/ New(o, Jobs, JobNames)  BY <1>1, Created
  <2>2. CASE o = JobStatus
    BY <1>1, <2>2 DEF JobStatus, Object, Pseudo
  <2>3. CASE New(o, Jobs, JobNames)
    BY <1>0, <1>1, <2>3 DEF New
  <2>. QED  BY <2>1, <2>2, <2>3
<1>2. CASE k = 2
  <2>1. \/ o = ReportStatus
        \/ o \in ForeignKey(Reports, "fk_job_id", Jobs)
        \/ New(o, Reports, ReportNames \union ReactNames)
    BY <1>2, Created
  <2>2. CASE o = ReportStatus
    BY <1>2, <2>2 DEF ReportStatus, Object, Pseudo
  <2>3. CASE o \in ForeignKey(Reports, "fk_job_id", Jobs)
    BY <1>0, <1>2, <2>3 DEF ForeignKey
  <2>4. CASE New(o, Reports, ReportNames \union ReactNames)
    BY <1>0, <1>2, <2>4 DEF New
  <2>. QED  BY <2>1, <2>2, <2>3, <2>4
<1>3. CASE k = 3
  <2>1. o \in ForeignKey(Events, "fk_report_id", Reports) \/ New(o, Events, {})
    BY <1>3, Created
  <2>. QED  BY <1>0, <1>3, <2>1 DEF New, ForeignKey
<1>4. CASE k = 4
  <2>1. o = Vector \/ New(o, Index, DimensionNames)  BY <1>4, Created
  <2>2. CASE o = Vector
    BY <1>4, <2>2 DEF Vector, Object, Pseudo
  <2>3. CASE New(o, Index, DimensionNames)
    BY <1>0, <1>4, <2>3 DEF New
  <2>. QED  BY <2>1, <2>2, <2>3
<1>5. CASE k \in 5..7
  <2>1. \/ Added(o, Jobs, JobNames)
        \/ Added(o, Reports, ReportNames)
        \/ Added(o, Index, DimensionNames)
        \/ Added(o, Reports, ReactNames)
    BY <1>5, Created
  <2>. QED  BY <1>0, <1>5, <2>1 DEF Added
<1>. QED  BY <1>1, <1>2, <1>3, <1>4, <1>5 DEF RootPilot

\* Every table has an object from the revision that creates it.
LEMMA TablesCreated ==
  ASSUME RootPilot
  PROVE  /\ Jobs \in TablesOf(Creates[1])
         /\ Reports \in TablesOf(Creates[2])
         /\ Events \in TablesOf(Creates[3])
         /\ Index \in TablesOf(Creates[4])
<1>1. /\ Object(Jobs, "id", "required") \in CreateJobs
      /\ Object(Reports, "id", "required") \in CreateReports
      /\ Object(Events, "id", "required") \in CreateReviewEvents
      /\ Object(Index, "content", "required") \in AddRunbookIndex
  <2>1. \A t, names, n : n \in names => Object(t, n, "required") \in Needed(t, names)
    BY DEF Needed, All
  <2>. QED  BY <2>1 DEF CreateJobs, CreateReports, CreateReviewEvents, AddRunbookIndex
<1>2. /\ Creates[1] = CreateJobs /\ Creates[2] = CreateReports
      /\ Creates[3] = CreateReviewEvents /\ Creates[4] = AddRunbookIndex
  BY DEF RootPilot, RevisionCreates
<1>3. ASSUME NEW t, NEW n, NEW s, Object(t, n, "required") \in s
      PROVE  t \in TablesOf(s)
  <2>1. Object(t, n, "required").table = t /\ Object(t, n, "required").kind \notin Pseudo
    BY DEF Object, Pseudo
  <2>. QED  BY <1>3, <2>1 DEF TablesOf
<1>. QED  BY <1>1, <1>2, <1>3

\* The names that are dropped have been created.
LEMMA DroppedWasCreated ==
  ASSUME RootPilot, NEW k \in 1..Head
  PROVE  Drops[k].names \subseteq NamesOf(Creates[k])
<1>1. ASSUME NEW t, NEW names, NEW kind, NEW s, All(t, names, kind) \subseteq s
      PROVE  \A n \in names : <<t, n>> \in NamesOf(s)
  <2>. TAKE n \in names
  <2>1. Object(t, n, kind) \in s  BY <1>1 DEF All
  <2>2. Object(t, n, kind).table = t /\ Object(t, n, kind).name = n  BY DEF Object
  <2>. QED  BY <2>1, <2>2 DEF NamesOf
<1>2. CASE k = 1
  <2>1. JobStatus \in Creates[1]
    BY DEF RootPilot, RevisionCreates, CreateJobs, JobStatus
  <2>2. JobStatus.table = "job_status" /\ JobStatus.name = "job_status"
    BY DEF JobStatus, Object
  <2>3. Drops[1].names = {<<"job_status", "job_status">>}
    BY DEF RootPilot, RevisionDrops, DropJobs, Dropped, In
  <2>. QED  BY <1>2, <2>1, <2>2, <2>3 DEF NamesOf
<1>3. CASE k = 2
  <2>1. ReportStatus \in Creates[2]
    BY DEF RootPilot, RevisionCreates, CreateReports, ReportStatus
  <2>2. /\ ReportStatus.table = "investigation_report_status"
        /\ ReportStatus.name = "investigation_report_status"
    BY DEF ReportStatus, Object
  <2>3. Drops[2].names = {<<"investigation_report_status", "investigation_report_status">>}
    BY DEF RootPilot, RevisionDrops, DropReports, Dropped, In
  <2>. QED  BY <1>3, <2>1, <2>2, <2>3 DEF NamesOf
<1>4. CASE k = 3 \/ k = 4
  BY <1>4 DEF RootPilot, RevisionDrops, DropReviewEvents, DropRunbookIndex, Dropped
<1>5. CASE k = 5
  <2>. DEFINE mayLack == {"incident_id", "claimed_by", "lease_expires_at"}
              counts  == {"attempt_count", "max_attempts", "scheduled_at"}
              bounds  == {"attempt_count_nonnegative", "max_attempts_positive",
                          "attempt_count_within_limit"}
              indexes == {"ix_incident_id", "ix_scheduled_at"}
              origins == {"embedding_model", "analysis_model", "prompt_version",
                          "retrieval_backend", "retrieval_limit", "minimum_relevance_score",
                          "retrieved_sections"}
              ranges  == {"minimum_relevance_score_range", "retrieval_limit_positive"}
  <2>1. /\ JobNames = mayLack \union counts \union bounds \union indexes
        /\ ReportNames = origins \union ranges
    BY DEF JobNames, ReportNames
  <2>2. /\ Creates[5] = AddProvenance
        /\ Drops[5].names = In(Reports, ReportNames) \union In(Jobs, JobNames)
    <3>1. Drops[5] = DropProvenance /\ Creates[5] = AddProvenance
      BY DEF RootPilot, RevisionDrops, RevisionCreates
    <3>. QED  BY <3>1 DEF DropProvenance, Dropped, In, JobNames, ReportNames
  <2>3. /\ All(Jobs, mayLack, "nullable") \subseteq Creates[5]
        /\ All(Jobs, counts, "defaulted") \subseteq Creates[5]
        /\ All(Jobs, bounds, "check") \subseteq Creates[5]
        /\ All(Jobs, indexes, "index") \subseteq Creates[5]
        /\ All(Reports, origins, "defaulted") \subseteq Creates[5]
        /\ All(Reports, ranges, "check") \subseteq Creates[5]
    BY <2>2 DEF AddProvenance, Nullable, Defaulted, Checks, Indexes
  <2>. HIDE DEF mayLack, counts, bounds, indexes, origins, ranges
  <2>4. /\ \A n \in JobNames : <<Jobs, n>> \in NamesOf(Creates[5])
        /\ \A n \in ReportNames : <<Reports, n>> \in NamesOf(Creates[5])
    BY <1>1, <2>1, <2>3
  <2>. QED  BY <1>5, <2>2, <2>4 DEF In
<1>6. CASE k = 6
  <2>1. All(Index, DimensionNames, "check") \subseteq Creates[6]
    BY DEF RootPilot, RevisionCreates, ConstrainDimensions, Checks, DimensionNames
  <2>2. Drops[6].names = In(Index, DimensionNames)
    BY DEF RootPilot, RevisionDrops, ReleaseDimensions, Dropped, DimensionNames
  <2>3. \A n \in DimensionNames : <<Index, n>> \in NamesOf(Creates[6])
    BY <1>1, <2>1
  <2>. QED  BY <1>6, <2>2, <2>3 DEF In
<1>7. CASE k = 7
  <2>. DEFINE counts == {"investigation_mode", "react_iterations", "react_tool_calls",
                         "react_trajectory"}
              reasons == {"react_termination_reason"}
              bounds  == {"react_iterations_nonnegative", "react_tool_calls_nonnegative"}
  <2>1. ReactNames = counts \union reasons \union bounds  BY DEF ReactNames
  <2>2. Creates[7] = AddReactProvenance /\ Drops[7].names = In(Reports, ReactNames)
    <3>1. Drops[7] = DropReactProvenance /\ Creates[7] = AddReactProvenance
      BY DEF RootPilot, RevisionDrops, RevisionCreates
    <3>. QED  BY <3>1 DEF DropReactProvenance, Dropped, In, ReactNames
  <2>3. /\ All(Reports, counts, "defaulted") \subseteq Creates[7]
        /\ All(Reports, reasons, "nullable") \subseteq Creates[7]
        /\ All(Reports, bounds, "check") \subseteq Creates[7]
    BY <2>2 DEF AddReactProvenance, Nullable, Defaulted, Checks
  <2>. HIDE DEF counts, reasons, bounds
  <2>4. \A n \in ReactNames : <<Reports, n>> \in NamesOf(Creates[7])
    BY <1>1, <2>1, <2>3
  <2>. QED  BY <1>7, <2>2, <2>4 DEF In
<1>. QED  BY <1>2, <1>3, <1>4, <1>5, <1>6, <1>7 DEF RootPilot

LEMMA ObjectsAreCreated ==
  ASSUME NEW r \in Nat, NEW o
  PROVE  o \in Objects(r) <=> \E j \in 1..r : o \in Creates[j]
BY DEF Objects

\* The seven revisions of RootPilot fit together: each creates what is not there yet
\* and asks nothing of the rows of older tables, its downgrade drops what its upgrade
\* created and nothing else, and the first one creates a table.
THEOREM RootPilotIsChain == ASSUME RootPilot PROVE Chain
<1>. SUFFICES ASSUME NEW k \in 1..Head PROVE RevisionFits(k)
  <2>1. Object(Jobs, "id", "required") \in CreateJobs
    BY DEF CreateJobs, Needed, All
  <2>2. Creates[1] = CreateJobs  BY DEF RootPilot, RevisionCreates
  <2>3. Object(Jobs, "id", "required").kind \notin Tolerant  BY DEF Object, Tolerant
  <2>. QED  BY <2>1, <2>2, <2>3 DEF Chain
<1>0. Head = 7 /\ k \in 1..7 /\ k \in Nat /\ k - 1 \in Nat /\ Head \in Nat
  BY DEF RootPilot
<1>1. ASSUME NEW o \in Creates[k], NEW p \in Objects(Head),
             o.table = p.table, o.name = p.name,
             p \in Objects(k - 1) \/ p.kind = "extension"
      PROVE  o.kind \in Tolerant
  <2>1. PICK j \in 1..Head : p \in Creates[j]
    BY <1>0, <1>1, ObjectsAreCreated
  <2>2. CASE p.kind = "extension"
    <3>1. p.table = "vector"  BY <2>1, <2>2, CreatedTables
    <3>2. o.kind = "extension"  BY <1>1, <3>1, CreatedTables
    <3>. QED  BY <3>2 DEF Tolerant
  <2>3. CASE p.kind # "extension"
    <3>1. p \in Objects(k - 1)  BY <1>1, <2>3
    <3>2. PICK i \in 1..(k - 1) : p \in Creates[i]
      BY <1>0, <3>1, ObjectsAreCreated
    <3>3. ~ Gone(k, p)  BY <3>2, EarlierStays
    <3>4. ~ Gone(k, o)  BY <1>1, <3>3 DEF Gone
    <3>5. o.kind = "extension"  BY <3>4, CreatedGoes
    <3>. QED  BY <3>5 DEF Tolerant
  <2>. QED  BY <2>2, <2>3
<1>2. ASSUME NEW o \in Required(Creates[k])
      PROVE  o.table \notin TablesOf(Objects(k - 1))
  <2>1. o \in Creates[k] /\ o.kind = "required"  BY DEF Required
  <2>2. SUFFICES ASSUME NEW p \in Objects(k - 1), p.kind \notin Pseudo, p.table = o.table
                 PROVE  FALSE
    BY DEF TablesOf
  <2>3. PICK j \in 1..(k - 1) : p \in Creates[j]
    BY <1>0, ObjectsAreCreated
  <2>4. j \in 1..Head /\ j < k  BY <1>0
  <2>5. \/ p.table = Jobs
        \/ p.table = Reports /\ j >= 2
        \/ p.table = Events /\ j >= 3
        \/ p.table = Index /\ j >= 4
    BY <2>2, <2>3, <2>4, CreatedTables
  <2>6. \/ o.table = Jobs /\ k = 1
        \/ o.table = Reports /\ k = 2
        \/ o.table = Events /\ k = 3
        \/ o.table = Index /\ k = 4
    BY <2>1, CreatedTables
  <2>. QED  BY <1>0, <2>2, <2>4, <2>5, <2>6 DEF Jobs, Reports, Events, Index
<1>3. /\ Jobs \in TablesOf(Objects(k))
      /\ k >= 2 => Reports \in TablesOf(Objects(k))
      /\ k >= 3 => Events \in TablesOf(Objects(k))
      /\ k >= 4 => Index \in TablesOf(Objects(k))
  <2>1. \A j \in 1..k : Creates[j] \subseteq Objects(k)
    BY <1>0, ObjectsAreCreated
  <2>2. \A j \in 1..k : TablesOf(Creates[j]) \subseteq TablesOf(Objects(k))
    BY <2>1 DEF TablesOf
  <2>. QED  BY <1>0, <2>2, TablesCreated
<1>4. Foreign(Creates[k]) \subseteq TablesOf(Objects(k))
  <2>1. \A o \in Creates[k] : o.kind = "foreign" => \/ o.to = Jobs /\ k = 2
                                                    \/ o.to = Reports /\ k = 3
    BY CreatedTables
  <2>. QED  BY <1>3, <2>1 DEF Foreign
<1>5. ASSUME NEW o \in Objects(k)
      PROVE  Gone(k, o) <=> o \notin Objects(k - 1) /\ o.kind # "extension"
  <2>1. CASE o \in Objects(k - 1)
    <3>1. PICK j \in 1..(k - 1) : o \in Creates[j]
      BY <1>0, <2>1, ObjectsAreCreated
    <3>. QED  BY <2>1, <3>1, EarlierStays
  <2>2. CASE o \notin Objects(k - 1)
    <3>1. o \in Creates[k]  BY <1>0, <1>5, <2>2, ObjectsGrow
    <3>. QED  BY <2>2, <3>1, CreatedGoes
  <2>. QED  BY <2>1, <2>2
<1>6. /\ k = 1 => Drops[k].tables = {Jobs}
      /\ k = 2 => Drops[k].tables = {Reports}
      /\ k = 3 => Drops[k].tables = {Events}
      /\ k = 4 => Drops[k].tables = {Index}
      /\ k > 4 => Drops[k].tables = {}
  BY <1>0 DEF RootPilot, RevisionDrops, DropJobs, DropReports, DropReviewEvents,
     DropRunbookIndex, DropProvenance, ReleaseDimensions, DropReactProvenance, Dropped
<1>7. Drops[k].tables \subseteq TablesOf(Objects(k))
  BY <1>0, <1>3, <1>6
<1>8. Drops[k].names \subseteq NamesOf(Objects(k))
  <2>1. Creates[k] \subseteq Objects(k)  BY <1>0, ObjectsGrow
  <2>2. NamesOf(Creates[k]) \subseteq NamesOf(Objects(k))  BY <2>1 DEF NamesOf
  <2>. QED  BY <2>2, DroppedWasCreated
<1>9. Foreign(Objects(k - 1)) \intersect Drops[k].tables = {}
  <2>. SUFFICES ASSUME NEW o \in Objects(k - 1), o.kind = "foreign"
                PROVE  o.to \notin Drops[k].tables
    BY DEF Foreign
  <2>1. PICK j \in 1..(k - 1) : o \in Creates[j]
    BY <1>0, ObjectsAreCreated
  <2>2. j \in 1..Head /\ j < k  BY <1>0
  <2>3. \/ o.to = Jobs /\ j = 2
        \/ o.to = Reports /\ j = 3
    BY <2>1, <2>2, CreatedTables
  <2>. QED  BY <1>0, <1>6, <2>2, <2>3 DEF Jobs, Reports, Events, Index
<1>. QED
  <2>1. Objects(k - 1) \subseteq Objects(Head)  BY <1>0, ObjectsGrow
  <2>. QED  BY <1>1, <1>2, <1>4, <1>5, <1>7, <1>8, <1>9, <2>1 DEF RevisionFits

-----------------------------------------------------------------------------
(* The models and the migrations describe one schema *)

Seen(kind) == IF kind \in {"required", "defaulted"} THEN "not null" ELSE kind

LEMMA ComparedAll ==
  ASSUME NEW t, NEW names, NEW kind, kind \notin Pseudo
  PROVE  Compared(All(t, names, kind)) = All(t, names, Seen(kind))
<1>. DEFINE Row(o) == [table |-> o.table, name |-> o.name,
              kind |-> IF o.kind \in {"required", "defaulted"} THEN "not null" ELSE o.kind]
<1>1. \A n : /\ Object(t, n, kind).kind \notin Pseudo
             /\ Row(Object(t, n, kind)) = Object(t, n, Seen(kind))
  BY DEF Object, Seen
<1>2. Compared(All(t, names, kind)) = {Row(o) : o \in All(t, names, kind)}
  BY <1>1 DEF Compared, All
<1>. HIDE DEF Row
<1>3. {Row(o) : o \in All(t, names, kind)} = All(t, names, Seen(kind))
  BY <1>1 DEF All
<1>. QED  BY <1>2, <1>3

LEMMA ComparedParts ==
  ASSUME NEW t, NEW names
  PROVE  /\ Compared(Needed(t, names)) = All(t, names, "not null")
         /\ Compared(Defaulted(t, names)) = All(t, names, "not null")
         /\ Compared(Nullable(t, names)) = All(t, names, "nullable")
         /\ Compared(Checks(t, names)) = All(t, names, "check")
         /\ Compared(Indexes(t, names)) = All(t, names, "index")
         /\ Compared(All(t, names, "unique")) = All(t, names, "unique")
<1>1. \A kind \in {"required", "defaulted", "nullable", "check", "index", "unique"} :
        kind \notin Pseudo /\ Compared(All(t, names, kind)) = All(t, names, Seen(kind))
  BY ComparedAll DEF Pseudo
<1>2. /\ Seen("required") = "not null" /\ Seen("defaulted") = "not null"
      /\ Seen("nullable") = "nullable" /\ Seen("check") = "check"
      /\ Seen("index") = "index" /\ Seen("unique") = "unique"
  BY DEF Seen
<1>. QED  BY <1>1, <1>2 DEF Needed, Defaulted, Nullable, Checks, Indexes

LEMMA ComparedOthers ==
  /\ Compared({JobStatus}) = {} /\ Compared({ReportStatus}) = {} /\ Compared({Vector}) = {}
  /\ \A t, n, target : Compared(ForeignKey(t, n, target)) = All(t, {n}, "foreign")
<1>1. \A o : o.kind \in Pseudo => Compared({o}) = {}
  BY DEF Compared
<1>2. JobStatus.kind \in Pseudo /\ ReportStatus.kind \in Pseudo /\ Vector.kind \in Pseudo
  BY DEF JobStatus, ReportStatus, Vector, Object, Pseudo
<1>3. ASSUME NEW t, NEW n, NEW target
      PROVE  Compared(ForeignKey(t, n, target)) = All(t, {n}, "foreign")
  <2>. DEFINE key == [table |-> t, name |-> n, kind |-> "foreign", to |-> target]
  <2>1. key.table = t /\ key.name = n /\ key.kind = "foreign"  OBVIOUS
  <2>2. ForeignKey(t, n, target) = {key}  BY DEF ForeignKey
  <2>. HIDE DEF key
  <2>3. Compared({key}) = {[table |-> t, name |-> n, kind |-> "foreign"]}
    BY <2>1 DEF Compared, Pseudo
  <2>. QED  BY <2>2, <2>3 DEF All, Object
<1>. QED  BY <1>1, <1>2, <1>3

LEMMA AllUnion ==
  ASSUME NEW t, NEW names, NEW more, NEW all, all = names \union more, NEW kind
  PROVE  All(t, all, kind) = All(t, names, kind) \union All(t, more, kind)
BY DEF All

\* What the revision of the provenance adds, as it is compared.
ProvenanceOfJobs ==
  All(Jobs, {"incident_id", "claimed_by", "lease_expires_at"}, "nullable")
    \union All(Jobs, {"attempt_count", "max_attempts", "scheduled_at"}, "not null")
    \union All(Jobs, {"attempt_count_nonnegative", "max_attempts_positive",
         "attempt_count_within_limit"}, "check")
    \union All(Jobs, {"ix_incident_id", "ix_scheduled_at"}, "index")

ProvenanceOfReports ==
  All(Reports, {"embedding_model", "analysis_model", "prompt_version",
         "retrieval_backend", "retrieval_limit", "minimum_relevance_score",
         "retrieved_sections"}, "not null")
    \union All(Reports, {"minimum_relevance_score_range", "retrieval_limit_positive"}, "check")

LEMMA ComparedProvenance ==
  Compared(AddProvenance) = ProvenanceOfJobs \union ProvenanceOfReports
<1>. DEFINE a == {"incident_id", "claimed_by", "lease_expires_at"}
            b == {"attempt_count", "max_attempts", "scheduled_at"}
            c == {"attempt_count_nonnegative", "max_attempts_positive",
                  "attempt_count_within_limit"}
            d == {"ix_incident_id", "ix_scheduled_at"}
            e == {"embedding_model", "analysis_model", "prompt_version",
                  "retrieval_backend", "retrieval_limit", "minimum_relevance_score",
                  "retrieved_sections"}
            f == {"minimum_relevance_score_range", "retrieval_limit_positive"}
<1>1. AddProvenance = Nullable(Jobs, a) \union Defaulted(Jobs, b) \union Checks(Jobs, c)
                        \union Indexes(Jobs, d) \union Defaulted(Reports, e) \union Checks(Reports, f)
  BY DEF AddProvenance
<1>2. /\ ProvenanceOfJobs = All(Jobs, a, "nullable") \union All(Jobs, b, "not null")
                              \union All(Jobs, c, "check") \union All(Jobs, d, "index")
      /\ ProvenanceOfReports = All(Reports, e, "not null") \union All(Reports, f, "check")
  BY DEF ProvenanceOfJobs, ProvenanceOfReports
<1>. HIDE DEF a, b, c, d, e, f
<1>3. Compared(AddProvenance) =
        Compared(Nullable(Jobs, a)) \union Compared(Defaulted(Jobs, b))
          \union Compared(Checks(Jobs, c)) \union Compared(Indexes(Jobs, d))
          \union Compared(Defaulted(Reports, e)) \union Compared(Checks(Reports, f))
  BY <1>1, Zenon DEF Compared
<1>4. /\ Compared(Nullable(Jobs, a)) = All(Jobs, a, "nullable")
      /\ Compared(Defaulted(Jobs, b)) = All(Jobs, b, "not null")
      /\ Compared(Checks(Jobs, c)) = All(Jobs, c, "check")
      /\ Compared(Indexes(Jobs, d)) = All(Jobs, d, "index")
      /\ Compared(Defaulted(Reports, e)) = All(Reports, e, "not null")
      /\ Compared(Checks(Reports, f)) = All(Reports, f, "check")
  BY ComparedParts, Zenon
<1>. HIDE DEF Compared, All
<1>. QED  BY <1>2, <1>3, <1>4

LEMMA ComparedJobs ==
  Compared(Job) = Compared(CreateJobs) \union ProvenanceOfJobs
<1>. DEFINE A == {"id", "input_path"}
            B == {"status", "attempt_count", "max_attempts", "scheduled_at",
                  "created_at", "updated_at"}
            C == {"incident_id", "error_message", "claimed_by",
                  "lease_expires_at", "started_at", "completed_at"}
            D == {"attempt_count_nonnegative", "max_attempts_positive",
                  "attempt_count_within_limit"}
            E == {"ix_incident_id", "ix_status", "ix_scheduled_at"}
            b == {"status", "created_at", "updated_at"}
            c == {"error_message", "started_at", "completed_at"}
            e == {"ix_status"}
            x == {"attempt_count", "max_attempts", "scheduled_at"}
            y == {"incident_id", "claimed_by", "lease_expires_at"}
            z == {"ix_incident_id", "ix_scheduled_at"}
<1>1. B = b \union x /\ C = c \union y /\ E = e \union z
  OBVIOUS
<1>2. Job = Needed(Jobs, A) \union Defaulted(Jobs, B) \union Nullable(Jobs, C)
              \union Checks(Jobs, D) \union Indexes(Jobs, E)
  BY DEF Job
<1>3. CreateJobs = {JobStatus} \union Needed(Jobs, A) \union Defaulted(Jobs, b)
                     \union Nullable(Jobs, c) \union Indexes(Jobs, e)
  BY DEF CreateJobs, JobStatus
<1>4. ProvenanceOfJobs = All(Jobs, y, "nullable") \union All(Jobs, x, "not null")
                           \union All(Jobs, D, "check") \union All(Jobs, z, "index")
  BY DEF ProvenanceOfJobs
<1>. HIDE DEF A, B, C, D, E, b, c, e, x, y, z
<1>5. Compared(Job) = All(Jobs, A, "not null") \union All(Jobs, B, "not null")
                        \union All(Jobs, C, "nullable") \union All(Jobs, D, "check")
                        \union All(Jobs, E, "index")
  <2>1. Compared(Job) =
          Compared(Needed(Jobs, A)) \union Compared(Defaulted(Jobs, B))
            \union Compared(Nullable(Jobs, C)) \union Compared(Checks(Jobs, D))
            \union Compared(Indexes(Jobs, E))
    BY <1>2, Zenon DEF Compared
  <2>. QED  BY <2>1, ComparedParts
<1>6. Compared(CreateJobs) = All(Jobs, A, "not null") \union All(Jobs, b, "not null")
                        \union All(Jobs, c, "nullable") \union All(Jobs, e, "index")
  <2>1. Compared(CreateJobs) =
          Compared({JobStatus}) \union Compared(Needed(Jobs, A))
            \union Compared(Defaulted(Jobs, b)) \union Compared(Nullable(Jobs, c))
            \union Compared(Indexes(Jobs, e))
    BY <1>3, Zenon DEF Compared
  <2>. QED  BY <2>1, ComparedParts, ComparedOthers
<1>7. \A kind : All(Jobs, B, kind) = All(Jobs, b, kind) \union All(Jobs, x, kind)
  BY <1>1, AllUnion
<1>8. \A kind : All(Jobs, C, kind) = All(Jobs, c, kind) \union All(Jobs, y, kind)
  BY <1>1, AllUnion
<1>9. \A kind : All(Jobs, E, kind) = All(Jobs, e, kind) \union All(Jobs, z, kind)
  BY <1>1, AllUnion
<1>. QED  BY <1>4, <1>5, <1>6, <1>7, <1>8, <1>9

LEMMA ComparedReports ==
  Compared(InvestigationReport) =
    Compared(CreateReports) \union ProvenanceOfReports \union Compared(AddReactProvenance)
<1>. DEFINE A == {"id", "job_id", "incident_id", "root_cause", "supporting_evidence",
                  "recommended_actions", "verification_steps", "confidence", "citation_ids",
                  "embedding_model", "analysis_model", "prompt_version", "retrieval_backend",
                  "retrieval_limit", "minimum_relevance_score", "retrieved_sections"}
            B == {"investigation_mode", "react_iterations", "react_tool_calls",
                  "react_trajectory", "status", "created_at", "updated_at"}
            C == {"react_termination_reason", "reviewed_by", "reviewer_feedback",
                  "reviewed_at"}
            D == {"confidence_range", "minimum_relevance_score_range",
                  "retrieval_limit_positive", "react_iterations_nonnegative",
                  "react_tool_calls_nonnegative"}
            E == {"ix_incident_id", "ix_status"}
            U == {"uq_job_id"}
            a == {"id", "job_id", "incident_id", "root_cause", "supporting_evidence",
                  "recommended_actions", "verification_steps", "confidence", "citation_ids"}
            b == {"status", "created_at", "updated_at"}
            c == {"reviewed_by", "reviewer_feedback", "reviewed_at"}
            d == {"confidence_range"}
            v == {"embedding_model", "analysis_model", "prompt_version",
                  "retrieval_backend", "retrieval_limit", "minimum_relevance_score",
                  "retrieved_sections"}
            w == {"minimum_relevance_score_range", "retrieval_limit_positive"}
            x == {"investigation_mode", "react_iterations", "react_tool_calls",
                  "react_trajectory"}
            y == {"react_termination_reason"}
            z == {"react_iterations_nonnegative", "react_tool_calls_nonnegative"}
            key == ForeignKey(Reports, "fk_job_id", Jobs)
            dw == d \union w
<1>1. A = a \union v /\ B = b \union x /\ C = c \union y /\ D = dw \union z
  OBVIOUS
<1>2. InvestigationReport =
        Needed(Reports, A) \union Defaulted(Reports, B) \union Nullable(Reports, C)
          \union Checks(Reports, D) \union key \union All(Reports, U, "unique")
          \union Indexes(Reports, E)
  BY DEF InvestigationReport
<1>3. CreateReports =
        {ReportStatus} \union Needed(Reports, a) \union Defaulted(Reports, b)
          \union Nullable(Reports, c) \union Checks(Reports, d) \union key
          \union All(Reports, U, "unique") \union Indexes(Reports, E)
  BY DEF CreateReports, ReportStatus
<1>4. ProvenanceOfReports = All(Reports, v, "not null") \union All(Reports, w, "check")
  BY DEF ProvenanceOfReports
<1>5. AddReactProvenance = Defaulted(Reports, x) \union Nullable(Reports, y)
                             \union Checks(Reports, z)
  BY DEF AddReactProvenance
<1>6. dw = d \union w  OBVIOUS
<1>. HIDE DEF A, B, C, D, E, U, a, b, c, d, v, w, x, y, z, key, dw
<1>7. Compared(InvestigationReport) =
        All(Reports, A, "not null") \union All(Reports, B, "not null")
          \union All(Reports, C, "nullable") \union All(Reports, D, "check")
          \union Compared(key) \union All(Reports, U, "unique") \union All(Reports, E, "index")
  <2>1. Compared(InvestigationReport) =
          Compared(Needed(Reports, A)) \union Compared(Defaulted(Reports, B))
            \union Compared(Nullable(Reports, C)) \union Compared(Checks(Reports, D))
            \union Compared(key) \union Compared(All(Reports, U, "unique"))
            \union Compared(Indexes(Reports, E))
    BY <1>2, Zenon DEF Compared
  <2>. QED  BY <2>1, ComparedParts
<1>8. Compared(CreateReports) =
        All(Reports, a, "not null") \union All(Reports, b, "not null")
          \union All(Reports, c, "nullable") \union All(Reports, d, "check")
          \union Compared(key) \union All(Reports, U, "unique") \union All(Reports, E, "index")
  <2>1. Compared(CreateReports) =
          Compared({ReportStatus}) \union Compared(Needed(Reports, a))
            \union Compared(Defaulted(Reports, b)) \union Compared(Nullable(Reports, c))
            \union Compared(Checks(Reports, d)) \union Compared(key)
            \union Compared(All(Reports, U, "unique")) \union Compared(Indexes(Reports, E))
    BY <1>3, Zenon DEF Compared
  <2>2. /\ Compared(Needed(Reports, a)) = All(Reports, a, "not null")
        /\ Compared(Defaulted(Reports, b)) = All(Reports, b, "not null")
        /\ Compared(Nullable(Reports, c)) = All(Reports, c, "nullable")
        /\ Compared(Checks(Reports, d)) = All(Reports, d, "check")
        /\ Compared(All(Reports, U, "unique")) = All(Reports, U, "unique")
        /\ Compared(Indexes(Reports, E)) = All(Reports, E, "index")
    BY ComparedParts, Zenon
  <2>3. Compared({ReportStatus}) = {}  BY ComparedOthers, Zenon
  <2>. QED  BY <2>1, <2>2, <2>3
<1>9. Compared(AddReactProvenance) =
        All(Reports, x, "not null") \union All(Reports, y, "nullable")
          \union All(Reports, z, "check")
  <2>1. Compared(AddReactProvenance) =
          Compared(Defaulted(Reports, x)) \union Compared(Nullable(Reports, y))
            \union Compared(Checks(Reports, z))
    BY <1>5, Zenon DEF Compared
  <2>. QED  BY <2>1, ComparedParts
<1>10. \A kind : All(Reports, A, kind) = All(Reports, a, kind) \union All(Reports, v, kind)
  BY <1>1, AllUnion
<1>11. \A kind : All(Reports, B, kind) = All(Reports, b, kind) \union All(Reports, x, kind)
  BY <1>1, AllUnion
<1>12. \A kind : All(Reports, C, kind) = All(Reports, c, kind) \union All(Reports, y, kind)
  BY <1>1, AllUnion
<1>13. All(Reports, D, "check") =
         All(Reports, d, "check") \union All(Reports, w, "check") \union All(Reports, z, "check")
  <2>1. All(Reports, dw, "check") = All(Reports, d, "check") \union All(Reports, w, "check")
    BY <1>6, AllUnion
  <2>2. All(Reports, D, "check") = All(Reports, dw, "check") \union All(Reports, z, "check")
    BY <1>1, AllUnion
  <2>. QED  BY <2>1, <2>2
<1>. QED
  BY <1>4, <1>7, <1>8, <1>9, <1>10, <1>11, <1>12, <1>13

LEMMA ComparedIndex ==
  Compared(RunbookEmbedding) = Compared(AddRunbookIndex) \union Compared(ConstrainDimensions)
<1>. DEFINE parts == Needed(Index, {"citation_id", "runbook_id", "runbook_title", "section_title",
              "content", "source_file", "content_hash", "embedding_model",
              "embedding_dimensions", "embedding"})
                       \union Defaulted(Index, {"indexed_at"})
            indexes == Indexes(Index, {"ix_embedding_model", "ix_runbook_id", "ix_embedding_hnsw"})
<1>1. RunbookEmbedding = parts \union ConstrainDimensions \union indexes
  BY DEF RunbookEmbedding, ConstrainDimensions
<1>2. AddRunbookIndex = {Vector} \union parts \union indexes
  BY DEF AddRunbookIndex, Vector
<1>. HIDE DEF parts, indexes
<1>3. Compared(RunbookEmbedding) =
        Compared(parts) \union Compared(ConstrainDimensions) \union Compared(indexes)
  BY <1>1, Zenon DEF Compared
<1>4. Compared(AddRunbookIndex) = Compared({Vector}) \union Compared(parts) \union Compared(indexes)
  BY <1>2, Zenon DEF Compared
<1>. QED  BY <1>3, <1>4, ComparedOthers

\* alembic check finds nothing to do at the last revision.
LEMMA HeadMatchesModels ==
  ASSUME RootPilot
  PROVE  Compared(Objects(Head)) = Compared(ModelObjects)
<1>1. Objects(Head) = CreateJobs \union CreateReports \union CreateReviewEvents
                        \union AddRunbookIndex \union AddProvenance
                        \union ConstrainDimensions \union AddReactProvenance
  <2>1. \A o : o \in Objects(Head) <=> \E j \in 1..7 : o \in RevisionCreates[j]
    BY DEF RootPilot, Objects
  <2>2. \A o : (\E j \in 1..7 : o \in RevisionCreates[j]) <=>
                 \/ o \in CreateJobs \/ o \in CreateReports \/ o \in CreateReviewEvents
                 \/ o \in AddRunbookIndex \/ o \in AddProvenance
                 \/ o \in ConstrainDimensions \/ o \in AddReactProvenance
    BY DEF RevisionCreates
  <2>. QED  BY <2>1, <2>2
<1>2. Compared(Objects(Head)) =
        Compared(CreateJobs) \union Compared(CreateReports) \union Compared(CreateReviewEvents)
          \union Compared(AddRunbookIndex) \union Compared(AddProvenance)
          \union Compared(ConstrainDimensions) \union Compared(AddReactProvenance)
  BY <1>1, Zenon DEF Compared
<1>3. ModelObjects = Job \union InvestigationReport \union CreateReviewEvents \union RunbookEmbedding
  BY DEF RootPilot, DeclaredObjects, InvestigationReviewEvent, CreateReviewEvents
<1>4. Compared(ModelObjects) =
        Compared(Job) \union Compared(InvestigationReport) \union Compared(CreateReviewEvents)
          \union Compared(RunbookEmbedding)
  BY <1>3, Zenon DEF Compared
<1>. QED
  BY <1>2, <1>4, ComparedJobs, ComparedReports, ComparedIndex, ComparedProvenance

-----------------------------------------------------------------------------
(* The theorems, of RootPilot *)

\* At its last revision the database is what the models of RootPilot declare,
\* whatever upgrades, downgrades, failures and races led there.
THEOREM HeadIsAlwaysModels ==
  ASSUME RootPilot
  PROVE  Spec => []HeadIsModels
<1>1. Chain  BY RootPilotIsChain
<1>2. Compared(Objects(Head)) = Compared(ModelObjects)  BY HeadMatchesModels
<1>. QED  BY <1>1, <1>2, HeadHasTheModels

\* No migration of RootPilot leaves anything behind, none is refused that is not late
\* and every one that is, and none takes the table of an older release away from it.
THEOREM MigrationsAreSafe ==
  ASSUME RootPilot
  PROVE  Spec => [](/\ SchemaIsOfRevision /\ StepsAreAccepted /\ LateMigratorsAreRefused
               /\ OldReleasesCanWrite)
<1>1. Chain  BY RootPilotIsChain
<1>2. Spec => []SchemaIsOfRevision  BY <1>1, SchemaFollowsRevision
<1>3. Spec => []StepsAreAccepted  BY <1>1, NoStepIsRefused
<1>4. Spec => []OldReleasesCanWrite  BY <1>1, ReleasesKeepWriting
<1>5. Spec => []LateMigratorsAreRefused  BY <1>1, LateMigratorsAreStopped
<1>. QED  BY <1>2, <1>3, <1>4, <1>5, PTL
=============================================================================
