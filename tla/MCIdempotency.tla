--------------------------- MODULE MCIdempotency ----------------------------
(* Instances of Idempotency for TLC.                                       *)
EXTENDS Idempotency

CONSTANTS r1, r2, r3

\* A request and its retry; the third reuses the key for another body.
MCBody == [r \in Posts |-> IF r \in {r1, r2} THEN "order" ELSE "other"]
=============================================================================
