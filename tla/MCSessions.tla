----------------------------- MODULE MCSessions -----------------------------
(* Instances of Sessions for TLC.                                          *)
EXTENDS Sessions, TLC

CONSTANTS r1, r2, t1, t2, t3, t4

MCSymmetry == Permutations(Requests) \cup Permutations(Tokens)
=============================================================================
