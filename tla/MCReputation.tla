--------------------------- MODULE MCReputation ---------------------------
(* Two peers that are alike, and one whose pieces may fail. *)
EXTENDS Reputation, TLC

CONSTANTS p1, p2, p3, i1, i2, i3

MCPeers == {p1, p2, p3}
MCPieces == {i1, i2, i3}

Symmetry == Permutations({p1, p2}) \cup Permutations(MCPieces)
=============================================================================
