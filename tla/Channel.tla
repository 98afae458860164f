------------------------------ MODULE Channel ------------------------------
(* What a connection promises to its two ends: the messages of one come to  *)
(* the other in the order they were sent, none twice and none altered, until*)
(* the connection ends; then the last ones may be missing.                  *)
EXTENDS Naturals, Sequences

CONSTANT Messages

VARIABLES
    sent,   \* what one end has sent
    got,    \* what the other has received
    ended   \* whether the other was told that nothing more will come

vars == <<sent, got, ended>>

Init == sent = <<>> /\ got = <<>> /\ ended = FALSE

Send ==
    /\ \E m \in Messages : sent' = Append(sent, m)
    /\ UNCHANGED <<got, ended>>

Receive ==
    /\ ~ended /\ Len(got) < Len(sent)
    /\ got' = Append(got, sent[Len(got) + 1])
    /\ UNCHANGED <<sent, ended>>

End == ended' = TRUE /\ UNCHANGED <<sent, got>>

Next == Send \/ Receive \/ End

Spec == Init /\ [][Next]_vars
=============================================================================
