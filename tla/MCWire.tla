------------------------------- MODULE MCWire -------------------------------
(* Bytes of 16 values; ids, hashes and scores of one byte.                   *)
EXTENDS Wire

Peer(addr) == [id |-> <<7>>, addr |-> addr, score |-> <<9>>]
Node(addr) == [id |-> <<3>>, addr |-> addr]

MCMessages == {
    [type |-> "Handshake", version |-> 1, hash |-> <<5>>, id |-> <<6>>],
    [type |-> "Bitfield", bits |-> <<15, 8>>],
    [type |-> "Request", index |-> 258, offset |-> 0, length |-> 0],
    [type |-> "Piece", index |-> 1, offset |-> 0, data |-> <<0, 2>>,
     proof |-> <<[left |-> TRUE, hash |-> <<3>>], [left |-> FALSE, hash |-> <<0>>]>>],
    [type |-> "Have", index |-> 1],
    [type |-> "Unchoke"],
    [type |-> "Pex", added |-> <<Peer(<<>>), Peer(<<1, 2>>)>>, dropped |-> <<<<4>>>>]}

\* An unknown type, an empty frame, one that is too long, one too short.
MCStrange == {<<0, 0, 0, 1, 11>>, <<0, 0, 0, 0>>, <<0, 0, 15, 0>>, <<0, 0, 0, 2, 4, 0>>}

MCQueries == {
    [type |-> "Ping", sender |-> <<1>>],
    [type |-> "Pong", sender |-> <<2>>],
    [type |-> "FindNode", sender |-> <<1>>, target |-> <<2>>],
    [type |-> "FindNodeResponse", sender |-> <<1>>, nodes |-> <<Node(<<>>), Node(<<5>>)>>],
    [type |-> "GetPeers", sender |-> <<1>>, hash |-> <<2>>],
    [type |-> "GetPeersResponse", sender |-> <<1>>, peers |-> <<Peer(<<5>>)>>, nodes |-> <<>>],
    [type |-> "GetPeersResponse", sender |-> <<1>>, peers |-> <<>>, nodes |-> <<Node(<<5>>)>>],
    [type |-> "AnnouncePeer", sender |-> <<1>>, hash |-> <<2>>, port |-> 20, score |-> <<9>>]}
=============================================================================
