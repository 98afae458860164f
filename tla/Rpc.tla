-------------------------------- MODULE Rpc --------------------------------
(* DhtMessage (src/src/network/discovery/rpc.rs): one message per datagram.  *)
(* decode yields a set with at most one message.                             *)
EXTENDS Octets

\* The leading octet of a datagram counts from 0.
Kinds == <<"Ping", "Pong", "FindNode", "FindNodeResponse", "GetPeers",
           "GetPeersResponse", "AnnouncePeer">>
Kind(m) == (CHOOSE k \in DOMAIN Kinds : Kinds[k] = m.type) - 1

\* enum DhtMessage, NodeInfo and PeerEntry.
NodeInfos == [id : Array(IdLen), addr : Lists(Octet, 1)]
PeerEntries == [id : Array(IdLen), addr : Lists(Octet, 1), score : Array(ScoreLen)]
AllQueries ==
    [type : {"Ping", "Pong"}, sender : Array(IdLen)]
    \cup [type : {"FindNode"}, sender : Array(IdLen), target : Array(IdLen)]
    \cup [type : {"FindNodeResponse"}, sender : Array(IdLen), nodes : Lists(NodeInfos, 1)]
    \cup [type : {"GetPeers"}, sender : Array(IdLen), hash : Array(HashLen)]
    \cup [type : {"GetPeersResponse"}, sender : Array(IdLen), peers : Lists(PeerEntries, 1),
          nodes : Lists(NodeInfos, 1)]
    \cup [type : {"AnnouncePeer"}, sender : Array(IdLen), hash : Array(HashLen), port : Unsigned(2),
          score : Array(ScoreLen)]

----------------------------------------------------------------------------
(* encode *)

PutNode(n) == n.id \o Put(Len(n.addr), 1) \o n.addr

\* A seeded defect for the checks: a peer is written as a node.
PutPeerAsNode(p) == PutNode(p)

PutPeer(p) == PutNode(p) \o p.score

PutList(PutItem(_), items) == Put(Len(items), 1) \o PutAll(PutItem, items)

Body(m) ==
    CASE m.type \in {"Ping", "Pong"} -> <<>>
      [] m.type = "FindNode" -> m.target
      [] m.type = "FindNodeResponse" -> PutList(PutNode, m.nodes)
      [] m.type = "GetPeers" -> m.hash
      [] m.type = "GetPeersResponse" -> PutList(PutPeer, m.peers) \o PutList(PutNode, m.nodes)
      [] m.type = "AnnouncePeer" -> m.hash \o Put(m.port, 2) \o m.score

EncodeRpc(m) == Put(Kind(m), 1) \o m.sender \o Body(m)

----------------------------------------------------------------------------
(* decode *)

\* An id, an address, and as many octets more as the item has.
GetNamed(octets, more) ==
    IF Len(octets) < IdLen + 1 THEN {}
    ELSE LET len == octets[IdLen + 1]
             tail == From(octets, IdLen + 1)
         IN  IF Len(tail) < len + more THEN {}
             ELSE {[id |-> Field(octets, 0, IdLen), addr |-> Field(tail, 0, len),
                    more |-> Field(tail, len, more), rest |-> From(tail, len + more)]}

GetNode(octets) ==
    {[item |-> [id |-> n.id, addr |-> n.addr], rest |-> n.rest] : n \in GetNamed(octets, 0)}

GetPeer(octets) ==
    {[item |-> [id |-> n.id, addr |-> n.addr, score |-> n.more], rest |-> n.rest] :
        n \in GetNamed(octets, ScoreLen)}

GetList(GetItem(_), octets) ==
    IF octets = <<>> THEN {} ELSE GetAll(GetItem, octets[1], From(octets, 1))

DecodeBody(type, sender, body) ==
    CASE type \in {"Ping", "Pong"} -> {[type |-> type, sender |-> sender]}
      [] type = "FindNode" ->
            IF Len(body) < IdLen THEN {}
            ELSE {[type |-> type, sender |-> sender, target |-> Field(body, 0, IdLen)]}
      [] type = "FindNodeResponse" ->
            {[type |-> type, sender |-> sender, nodes |-> list.items] : list \in GetList(GetNode, body)}
      [] type = "GetPeers" ->
            IF Len(body) < HashLen THEN {}
            ELSE {[type |-> type, sender |-> sender, hash |-> Field(body, 0, HashLen)]}
      [] type = "GetPeersResponse" ->
            UNION {{[type |-> type, sender |-> sender, peers |-> peers.items, nodes |-> nodes.items] :
                        nodes \in GetList(GetNode, peers.rest)} : peers \in GetList(GetPeer, body)}
      [] type = "AnnouncePeer" ->
            IF Len(body) < HashLen + 2 + ScoreLen THEN {}
            ELSE {[type |-> type, sender |-> sender, hash |-> Field(body, 0, HashLen),
                   port |-> Value(Field(body, HashLen, 2)), score |-> Field(body, HashLen + 2, ScoreLen)]}

\* Every message has a sender. What follows a message in its datagram is ignored.
DecodeRpc(data) ==
    IF Len(data) < 1 + IdLen \/ data[1] >= Len(Kinds) THEN {}
    ELSE DecodeBody(Kinds[data[1] + 1], Field(data, 1, IdLen), From(data, 1 + IdLen))
=============================================================================
