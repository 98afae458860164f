------------------------------ MODULE MCLookup ------------------------------
(* Seven nodes of which three are known at the start; the closest ones are  *)
(* learned last, and one cannot be reached.                                 *)
EXTENDS Lookup, TLC

MCKnows ==
    (0 :> {1, 2}) @@ (1 :> {0, 5}) @@ (2 :> {0, 3}) @@ (3 :> {1, 2})
    @@ (4 :> {2, 6}) @@ (5 :> {1, 3, 4}) @@ (6 :> {3, 5})
MCOffers ==
    [n \in Nodes |-> CASE n = 0 -> {"p", "q"} [] n = 1 -> {"q", "r"} [] n = 5 -> {"s"} [] OTHER -> {}]
=============================================================================
