---------------------------- MODULE MCDocuments -----------------------------
(* Instances of Documents for TLC.                                         *)
EXTENDS Documents, TLC

CONSTANTS d1, d2, i1, f1, f2, r1, r2

MCSymmetry == Permutations(DocumentIds) \cup Permutations(Files) \cup Permutations(Requests)
=============================================================================
