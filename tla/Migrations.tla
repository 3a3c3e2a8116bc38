----------------------------- MODULE Migrations -----------------------------
(***************************************************************************)
(* Schema migrations (migrations/env.py, run by the migration job, by      *)
(* compose, and by every instance of the Render service at its start).     *)
(*                                                                         *)
(* A chain of revisions, each with what its upgrade creates and its        *)
(* downgrade drops.  A migrator takes the steps from the revision it found *)
(* to its target in one transaction, while other migrators do the same and *)
(* the program writes rows.  Nothing keeps two of them apart beforehand:   *)
(* for every step Alembic runs the statements of the revision, which wait  *)
(* for the locks of other transactions and may be refused, and then writes *)
(* alembic_version, where it finds no row if it comes too late.            *)
(***************************************************************************)
EXTENDS Naturals

CONSTANTS
  Migrators,    \* processes that run alembic
  Head,         \* the number of revisions; 0 is the empty database
  Targets,      \* the revisions asked for
  Creates,      \* 1..Head -> the objects that the upgrade creates
  Drops,        \* 1..Head -> the tables and the names that the downgrade drops
  ModelObjects  \* what the models of the last release declare

ASSUME MigrationAssumption ==
  /\ Head \in Nat
  /\ Targets \subseteq 0..Head

VARIABLES
  versions,   \* the rows of alembic_version
  schema,     \* the objects in the database
  populated,  \* the tables with rows
  tx          \* the transaction of each migrator

vars == <<versions, schema, populated, tx>>

\* The revision of the database; it has no row at first.
revision == IF versions = {} THEN 0 ELSE CHOOSE r \in versions : TRUE

-----------------------------------------------------------------------------
(* Objects: columns, indexes, constraints of a table, types, the extension *)

\* Mutant: CREATE TABLE IF NOT EXISTS, ADD COLUMN IF NOT EXISTS and so on.
TolerantOfAll == {"required", "defaulted", "nullable", "index", "check", "unique",
                  "foreign", "enum", "extension", "shared enum"}

\* CREATE EXTENSION IF NOT EXISTS, and checkfirst for one of the enum types.
Tolerant == {"extension", "shared enum"}

Pseudo == {"enum", "shared enum", "extension"}

TablesOf(s) == {o.table : o \in {p \in s : p.kind \notin Pseudo}}

NamesOf(s) == {<<o.table, o.name>> : o \in s}

\* The tables that foreign keys refer to.
Foreign(s) == {o.to : o \in {p \in s : p.kind = "foreign"}}

Objects(r) == UNION {Creates[k] : k \in 1..r}

Gone(k, o) == o.table \in Drops[k].tables \/ <<o.table, o.name>> \in Drops[k].names

Undo(k, s) == {o \in s : ~ Gone(k, o)}

\* A column that every INSERT has to give a value.
Required(s) == {o \in s : o.kind = "required"}

\* The database accepts the statements of an upgrade: nothing is there yet, rows
\* get a value in every new column, and a foreign key has a table to refer to.  That
\* rows satisfy the checks which are added to their table is not compared: the values
\* of rows are not in the model, and the program writes none that fail them.
Upgradable(k, s) ==
  /\ NamesOf({o \in Creates[k] : o.kind \notin Tolerant}) \intersect NamesOf(s) = {}
  /\ TablesOf(Required(Creates[k])) \intersect populated = {}
  /\ Foreign(Creates[k]) \subseteq TablesOf(s \union Creates[k])

\* What a downgrade drops is there, and nothing left behind refers to it.
Downgradable(k, s) ==
  /\ Drops[k].tables \subseteq TablesOf(s)
  /\ Drops[k].names \subseteq NamesOf(s)
  /\ Foreign(Undo(k, s)) \intersect Drops[k].tables = {}

-----------------------------------------------------------------------------
\* A transaction: the revision it found, the one it has written, the one whose
\* statements it has run, and its target.
Idle == [running |-> FALSE, from |-> 0, at |-> 0, ran |-> 0, to |-> 0]

Init ==
  /\ versions = {}
  /\ schema = {}
  /\ populated = {}
  /\ tx = [m \in Migrators |-> Idle]

\* alembic upgrade or downgrade: the revision is read, nothing is locked yet.
Begin(m, target) ==
  /\ ~ tx[m].running
  /\ tx' = [tx EXCEPT ![m] = [running |-> TRUE, from |-> revision, at |-> revision,
                              ran |-> revision, to |-> target]]
  /\ UNCHANGED <<versions, schema, populated>>

\* The revisions between two, and what becomes of objects on the way.
Between(a, b) == (a + 1)..b \union (b + 1)..a

Along(s, a, b) ==
  IF a <= b THEN s \union UNION {Creates[k] : k \in Between(a, b)}
            ELSE {o \in s : \A k \in Between(a, b) : ~ Gone(k, o)}

\* What migrator m sees: the database, with its own uncommitted statements.
View(m) == Along(schema, tx[m].from, tx[m].ran)

Moved(m)   == tx[m].at # tx[m].from
Pending(m) == tx[m].running /\ tx[m].ran = tx[m].at /\ tx[m].at # tx[m].to

\* The revision that the next step of m is about, and the one it leads to.
StepOf(m) == IF tx[m].at < tx[m].to THEN tx[m].at + 1 ELSE tx[m].at
NextOf(m) == IF tx[m].at < tx[m].to THEN tx[m].at + 1 ELSE tx[m].at - 1

\* The tables of a revision, and those that its foreign keys refer to.
Subjects(k) == {o.table : o \in Creates[k]} \union Foreign(Creates[k])

\* The tables that a transaction has locked, until it ends.
Locked(t) == UNION {Subjects(k) : k \in Between(t.from, t.ran)}

Accepted(m) ==
  IF tx[m].at < tx[m].to THEN Upgradable(StepOf(m), View(m))
                         ELSE Downgradable(StepOf(m), View(m))

\* upgrade or downgrade of one revision: its statements wait for the locks of the
\* others, and the database accepts them (else see Abort).
Alter(m) ==
  /\ Pending(m)
  /\ \A n \in Migrators \ {m} : Subjects(StepOf(m)) \intersect Locked(tx[n]) = {}
  /\ Accepted(m)
  /\ tx' = [tx EXCEPT ![m].ran = NextOf(m)]
  /\ UNCHANGED <<versions, schema, populated>>

\* Then the version is written: from the empty table by an INSERT, else by an UPDATE
\* or a DELETE of the row of the revision that m comes from.  It waits for another
\* transaction that has written the same, and Alembic gives up if no row matches.
CanStamp(m) ==
  /\ tx[m].running /\ tx[m].ran # tx[m].at
  /\ \A n \in Migrators \ {m} : ~ (Moved(n) /\ tx[n].from = tx[m].from)
  /\ IF tx[m].from = 0 THEN tx[m].ran \notin versions ELSE tx[m].from \in versions

Stamp(m) ==
  /\ CanStamp(m)
  /\ tx' = [tx EXCEPT ![m].at = tx[m].ran]
  /\ UNCHANGED <<versions, schema, populated>>

Commit(m) ==
  /\ tx[m].running /\ tx[m].ran = tx[m].at /\ tx[m].at = tx[m].to
  /\ IF Moved(m)
     THEN /\ versions'  = (versions \ {tx[m].from}) \union ({tx[m].at} \ {0})
          /\ schema'    = View(m)
          /\ populated' = populated \intersect TablesOf(View(m))
     ELSE UNCHANGED <<versions, schema, populated>>
  /\ tx' = [tx EXCEPT ![m] = Idle]

\* A statement is refused, no version matches, two wait for each other, or the
\* process dies: the whole transaction is undone.
Abort(m) ==
  /\ tx[m].running
  /\ tx' = [tx EXCEPT ![m] = Idle]
  /\ UNCHANGED <<versions, schema, populated>>

\* The program writes rows, into tables that no migrator has locked.
Write(t) ==
  /\ t \in TablesOf(schema) \ populated
  /\ \A m \in Migrators : t \notin Locked(tx[m])
  /\ populated' = populated \union {t}
  /\ UNCHANGED <<versions, schema, tx>>

Next ==
  \/ \E m \in Migrators :
       \/ \E target \in Targets : Begin(m, target)
       \/ Alter(m)
       \/ Stamp(m)
       \/ Commit(m)
       \/ Abort(m)
  \/ \E t \in TablesOf(schema) : Write(t)

Spec == Init /\ [][Next]_vars

-----------------------------------------------------------------------------
\* However the database came to its revision, upwards, downwards, with aborted
\* and racing migrations in between, it has one, and holds exactly the objects of
\* that revision, but for an extension, which a downgrade leaves in place.
SchemaIsOfRevision ==
  /\ \A a, b \in versions : a = b
  /\ Objects(revision) \subseteq schema
  /\ \A o \in schema \ Objects(revision) : o.kind = "extension"

\* README.md has alembic check run after an upgrade: the models of the program
\* and the chain of migrations describe one schema, by hand in two places.
\* Defaults of the server are not compared.
Compared(s) ==
  {[table |-> o.table, name |-> o.name,
    kind  |-> IF o.kind \in {"required", "defaulted"} THEN "not null" ELSE o.kind] :
     o \in {p \in s : p.kind \notin Pseudo}}

HeadIsModels == revision = Head => Compared(schema) = Compared(ModelObjects)

\* No migration gets stuck: as long as nobody else has moved the revision that a
\* migrator started from, the database accepts each of its steps, over the rows that
\* are there, from any mixture of upgrades and downgrades.
StepsAreAccepted ==
  \A m \in Migrators : Pending(m) /\ tx[m].from = revision => Accepted(m)

\* A migrator that comes too late, because another has moved the revision that it
\* started from, is refused whatever it has done so far.  Alembic checks this where
\* it updates or deletes a version.  An INSERT it does not check: a migrator that
\* started from an empty database is stopped by its first CREATE TABLE alone.
LateMigratorsAreRefused ==
  \A m \in Migrators : tx[m].running /\ tx[m].from # revision =>
    ~ Moved(m) /\ ~ CanStamp(m)

\* During a rollout an older release still writes: it knows of every table it
\* writes to each column that has no default.
OldReleasesCanWrite ==
  \A r \in 1..revision :
    LET known == Objects(r)  tables == TablesOf(known) IN
      \A o \in Required(schema) : o.table \in tables => o \in known
=============================================================================
