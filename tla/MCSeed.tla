------------------------------- MODULE MCSeed -------------------------------
(* Liveness instance: a seed that holds everything and stays, and a partial *)
(* peer that may leave, corrupt a piece, acquire another one, and send that *)
(* one for the first.                                                       *)
EXTENDS Download

CONSTANTS a, b

MCContent == (a :> Pieces) @@ (b :> {0})
MCMaxBad == (a :> 1) @@ (b :> 1)
MCMaxChoke == (a :> 0) @@ (b :> 0)
MCGains == {<<b, 1>>}
MCMixUps == {<<b, 0, 1>>}
=============================================================================
