--------------------------- MODULE MCRunbookIndex ---------------------------
(* An instance of RunbookIndex for TLC: two processes of a new release that *)
(* edits a section, adds one and drops one, and one of the old release.     *)
EXTENDS RunbookIndex

CONSTANTS a, b, c, old, new1, new2, t1, t2, m1, m2

OldTexts == [s \in Citations |-> IF s = c THEN None ELSE t1]
NewTexts == [s \in Citations |-> IF s = a THEN t2 ELSE IF s = b THEN None ELSE t1]

ReleaseTexts  == [r \in Retrievers |-> IF r = old THEN OldTexts ELSE NewTexts]
ReleaseModels == [r \in Retrievers |-> IF r = old THEN m1 ELSE m2]
=============================================================================
