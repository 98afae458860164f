------------------------------ MODULE Delivery ------------------------------
(* What any download promises: pieces are accepted one at a time and never *)
(* taken back, the file receives accepted pieces only, and success is      *)
(* reported only when the whole file is there.                             *)
CONSTANT Pieces

VARIABLES
    accepted,   \* pieces that passed verification
    stored,     \* pieces whose verified bytes are in the file
    outcome     \* what the caller has been told

vars == <<accepted, stored, outcome>>

Init == accepted = {} /\ stored = {} /\ outcome = "pending"

Accept(i) ==
    /\ outcome = "pending"
    /\ i \in Pieces \ accepted
    /\ accepted' = accepted \cup {i}
    /\ UNCHANGED <<stored, outcome>>

Store(S) ==
    /\ outcome = "pending"
    /\ stored' = stored \cup S
    /\ UNCHANGED <<accepted, outcome>>

Succeed ==
    /\ outcome = "pending"
    /\ stored = Pieces
    /\ outcome' = "ok"
    /\ UNCHANGED <<accepted, stored>>

Fail ==
    /\ outcome = "pending"
    /\ outcome' = "failed"
    /\ UNCHANGED <<accepted, stored>>

Next ==
    \/ \E i \in Pieces : Accept(i)
    \/ \E S \in SUBSET accepted : Store(S)
    \/ Succeed
    \/ Fail

Spec == Init /\ [][Next]_vars
=============================================================================
