---------------------------- MODULE MCScheduler ----------------------------
(* Model-checking instance of the scheduler: peers and pieces are          *)
(* interchangeable, so both sets are symmetric.                            *)
EXTENDS Scheduler, TLC

Symmetry == Permutations(Peers) \cup Permutations(Pieces)
============================================================================
