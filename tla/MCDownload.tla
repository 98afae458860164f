----------------------------- MODULE MCDownload -----------------------------
(* Safety instance: a full seed and a partial, faulty peer.                *)
EXTENDS Download

CONSTANTS a, b

MCContent == (a :> Pieces) @@ (b :> {0})
MCMaxBad == (a :> 0) @@ (b :> 3)
MCMaxChoke == (a :> 0) @@ (b :> 1)
MCGains == {}
=============================================================================
