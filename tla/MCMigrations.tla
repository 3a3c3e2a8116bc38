---------------------------- MODULE MCMigrations ----------------------------
(* Migrations over the revisions of RootPilot. *)
EXTENDS Migrations, SchemaRevisions

CONSTANTS m1, m2
=============================================================================
