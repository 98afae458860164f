----------------------------- MODULE MCStartup -----------------------------
(* Three peers that never leave and say nothing unasked, and two slots less  *)
(* for the events than twice their number: as 128 slots are for 65 peers.    *)
EXTENDS Connections

CONSTANTS p1, p2, p3

MCContent == [p \in Peers |-> Pieces]
MCMaxSaid == Nobody
MCBudgets == {[says |-> Nobody, ticks |-> 0, stale |-> 0]}
=============================================================================
