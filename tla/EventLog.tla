------------------------------ MODULE EventLog ------------------------------
(***************************************************************************)
(* What the outbox table promises to whoever reads it: the events of a      *)
(* business transaction appear together and for good, an event on record is *)
(* marked published in the end, and a mark is never taken back.             *)
(***************************************************************************)
CONSTANT Events

VARIABLES recorded, published

Init == recorded = {} /\ published = {}

Record(E) == E # {} /\ E \cap recorded = {} /\ recorded' = recorded \cup E /\ UNCHANGED published

Publish(E) == E \subseteq recorded /\ published' = published \cup E /\ UNCHANGED recorded

Next == \E E \in SUBSET Events : Record(E) \/ Publish(E)

\* The part of the promise that says what may happen.
Safety == Init /\ [][Next]_<<recorded, published>>

Spec ==
    /\ Safety
    /\ \A e \in Events : WF_<<recorded, published>>(e \notin published /\ \E E \in SUBSET Events : e \in E /\ Publish(E))
=============================================================================
