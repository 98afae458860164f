---------------------------- MODULE MCDhtNode ----------------------------
(* Ids of two bytes of two bits. Three nodes share a bucket for two; one of  *)
(* them is seen under two addresses, one node is in a bucket of its own.     *)
EXTENDS DhtNode, TLC

MCBits == {1, 2} \X {1, 2}
idA == {<<2, 1>>}
idB == {<<2, 1>>, <<1, 2>>}
idC == {<<2, 1>>, <<2, 2>>}
idD == {<<1, 1>>}
NodeAt(id, addr) == [id |-> id, addr |-> addr]
nodeA == NodeAt(idA, "dht")
nodeB == NodeAt(idB, "dht")
nodeC == NodeAt(idC, "dht")
nodeD == NodeAt(idD, "dht")

MCOurId == {}
MCTarget == {<<1, 2>>}
MCNodes == {NodeAt(idA, "announcing"), nodeB, nodeC}
MCTold == {<<nodeD, NodeAt({}, "dht"), nodeA>>}
MCPeers == MCNodes
MCScore == (idA :> 10) @@ (idB :> 3) @@ (idC :> 3)
=============================================================================
