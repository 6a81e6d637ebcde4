--------------------------- MODULE MCFileRevisions ---------------------------
(* Constants with which TLC checks FileRevisions. *)
EXTENDS FileRevisions, TLC

CONSTANTS b1, b2, j1, j2, f1, f2

Sizes == b1 :> 1 @@ b2 :> 2

\* Files and requests are interchangeable; contents are not, their sizes differ.
RevisionAlike == Permutations(RvFiles) \cup Permutations(Jobs)
=============================================================================
