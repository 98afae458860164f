----------------------------- MODULE MCChoking -----------------------------
(* Rounds of decisions among four interchangeable peers.                   *)
EXTENDS Choking, TLC

Symmetry == Permutations(Peers)
============================================================================
