--------------------------- MODULE MCConnections ---------------------------
(* Two peers: one that has one of the pieces, talks unasked and leaves, and *)
(* one with every piece, whose pieces fail. The PEX interval ticks twice, or *)
(* two requests are found stale, or the first peer says something.           *)
EXTENDS Connections

CONSTANTS p1, p2

MCContent == [p \in Peers |-> IF p = p1 THEN {0} ELSE Pieces]
MCMaxSaid == [p \in Peers |-> IF p = p1 THEN 1 ELSE 0]
MCBudgets == {[says |-> MCMaxSaid, ticks |-> 0, stale |-> 0],
              [says |-> Nobody, ticks |-> 2, stale |-> 0],
              [says |-> Nobody, ticks |-> 0, stale |-> 2]}
=============================================================================
