---------------------------- MODULE MCEntryEdits -----------------------------
(***************************************************************************)
(* Instances of EntryEdits.                                                *)
(***************************************************************************)
EXTENDS EntryEditsProperties, TLC

CONSTANTS e1, c1, r1, r2

\* Reviewers and editors are alike.
Overlapping == Permutations({r1, r2})
=============================================================================
