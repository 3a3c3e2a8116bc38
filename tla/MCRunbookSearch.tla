--------------------------- MODULE MCRunbookSearch ---------------------------
(* An instance of RunbookSearch for TLC: every table of scores of three      *)
(* sections, of which any may be missing from the index.                     *)
EXTENDS RunbookSearch

AnyLimit == 1..NumSections
=============================================================================
