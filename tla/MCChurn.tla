------------------------------ MODULE MCChurn ------------------------------
(* Three partial peers, of which one leaves: the two that stay hold the     *)
(* whole file between them and answer every request.                        *)
EXTENDS Download

CONSTANTS a, b, c

MCContent == (a :> {0}) @@ (b :> {0}) @@ (c :> {1})
MCMaxBad == [p \in Peers |-> 0]
MCMaxChoke == [p \in Peers |-> 0]
MCGains == {}
=============================================================================
