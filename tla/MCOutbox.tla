------------------------------ MODULE MCOutbox ------------------------------
(* Instances of Outbox for TLC.                                            *)
EXTENDS Outbox, TLC

CONSTANTS e1, e2, e3, e4, o1, o2, o3, w1, w2, w3

\* Two transitions (one event each) and an exception with two escalations (an
\* event each), under a limit of two.
MCEventsOf == (o1 :> {e1}) @@ (o2 :> {e2, e3}) @@ (o3 :> {e4})
=============================================================================
