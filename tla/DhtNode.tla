------------------------------ MODULE DhtNode ------------------------------
(***************************************************************************)
(* A serving node of the DHT (DhtNode::run and handle_message,             *)
(* src/src/network/discovery/dht.rs) with its routing table (routing.rs)   *)
(* and the peers announced to it for one torrent (store.rs).  Datagrams    *)
(* arrive from anybody in any order; a lost one is one that never does.    *)
(*                                                                         *)
(* An id is the set of its one bits, a bit being <<byte, bit of the byte>> *)
(* with the most significant bits numbered 1.  Time passes in units of     *)
(* five minutes.                                                           *)
(***************************************************************************)
EXTENDS Integers, Sequences, FiniteSets, SequencesExt

CONSTANTS
    Bits,       \* the positions of an id's bits
    OurId,      \* node_id of the configuration
    Target,     \* the id of the torrent: the head of its info hash
    Nodes,      \* the other nodes: [id, addr]
    Told,       \* the lists of nodes that responses carry
    Peers,      \* the nodes that announce themselves
    Score,      \* Score[id]: the score a peer announces, in tenths
    K,          \* K
    CloseCount, \* nodes in an answer
    RefreshCount, \* nodes asked by a refresh
    MaxPeers,   \* MAX_PEERS_PER_HASH
    ReturnLimit,\* RETURN_LIMIT
    Stale       \* STALE_SECS and both intervals, in units of time

ASSUME ConstantsAssumption ==
    /\ Bits \subseteq Nat \X Nat /\ IsFiniteSet(Bits) /\ IsFiniteSet(Nodes)
    /\ OurId \subseteq Bits /\ Target \subseteq Bits
    /\ \A n \in Nodes : n.id \subseteq Bits
    /\ \A nodes \in Told : nodes \in Seq(ToSet(nodes)) /\ \A n \in ToSet(nodes) : n.id \subseteq Bits
    /\ Peers \subseteq Nodes
    /\ \A p \in Peers : Score[p.id] \in 0 .. 10
    /\ K \in Nat \ {0} /\ CloseCount \in Nat \ {0} /\ RefreshCount \in Nat
    /\ MaxPeers \in Nat \ {0} /\ ReturnLimit \in Nat /\ Stale \in Nat \ {0}

VARIABLES
    buckets,    \* buckets[b]: the nodes of a bucket, in the code's order
    store,      \* id -> [age, count] of the announced peers
    clock,      \* units of time since the intervals last ticked
    due,        \* the intervals that have ticked and were not served yet
    sent,       \* the datagrams the last step sent
    \* What the properties compare with; the code does not keep it:
    mentions,   \* mentions[b]: ids in the order they were last offered to b
    heard       \* units of time since an announcement of a Top peer arrived

vars == <<buckets, store, clock, due, sent, mentions, heard>>

\* More units of time than an entry can be old.
Never == 2 * Stale + 1

Top == {p.id : p \in {p \in Peers : Score[p.id] = 10}}
Others == {p.id : p \in Peers} \ Top

----------------------------------------------------------------------------
(* The routing table *)

\* xor_distance
Distance(a, b) == (a \ b) \cup (b \ a)

\* The order of distances by which nodes are sorted: first byte first.
Precedes(x, y) == x[1] < y[1] \/ (x[1] = y[1] /\ x[2] < y[2])
Closer(d, e) == \E x \in e \ d : \A y \in Distance(d, e) : y = x \/ Precedes(x, y)

\* bucket_index names a bucket by one bit of the distance: the leading one bit
\* of its last byte that is not zero.
BucketOf(id) ==
    LET d == Distance(OurId, id) IN
    CHOOSE x \in d : \A y \in d : y[1] < x[1] \/ (y[1] = x[1] /\ y[2] >= x[2])

\* The place of j among the members of S, the least being at place 1.
Place(S, j) == Cardinality({i \in S : i <= j})

\* The members of s at the positions of S, in their order.
Picked(s, S) == [k \in 1 .. Cardinality(S) |-> s[CHOOSE j \in S : Place(S, j) = k]]

Without(bucket, id) == Picked(bucket, {k \in DOMAIN bucket : bucket[k].id # id})
Lists(bucket, id) == \E k \in DOMAIN bucket : bucket[k].id = id

\* A seeded defect for the checks: a node heard of again keeps its place.
InsertInPlace(table, n) ==
    IF n.id = OurId THEN table
    ELSE [table EXCEPT ![BucketOf(n.id)] =
            IF Lists(@, n.id) \/ Len(@) >= K THEN @ ELSE Append(@, n)]

\* A seeded defect for the checks: a node heard of again is listed again.
InsertAgain(table, n) ==
    IF n.id = OurId THEN table
    ELSE [table EXCEPT ![BucketOf(n.id)] = IF Len(@) >= K THEN @ ELSE Append(@, n)]

\* RoutingTable::insert
Insert(table, n) ==
    IF n.id = OurId THEN table
    ELSE [table EXCEPT ![BucketOf(n.id)] =
            IF Lists(@, n.id) THEN Append(Without(@, n.id), n)
            ELSE IF Len(@) < K THEN Append(@, n) ELSE @]

\* The node insert reports when the bucket is full.
Oldest(n) ==
    IF n.id = OurId THEN {}
    ELSE LET bucket == buckets[BucketOf(n.id)] IN
         IF Len(bucket) >= K /\ ~Lists(bucket, n.id) THEN {bucket[1]} ELSE {}

\* find_closest
Closest(table, target, count) ==
    LET all == UNION {ToSet(table[b]) : b \in Bits} IN
    {n \in all : Cardinality({m \in all :
        Closer(Distance(m.id, target), Distance(n.id, target))}) < count}

----------------------------------------------------------------------------
(* The peer store *)

Smaller(m, n) == IF m < n THEN m ELSE n

\* StoredPeer::rank, times 600 * Stale: score, freshness and consistency.
Rank(id) ==
    LET e == store[id]
        units == e.age + 1
    IN  36 * Stale * Score[id] + 120 * (Stale - Smaller(e.age, Stale))
            + ((120 * Stale * Smaller(e.count, units)) \div units)

IsStale(id) == store[id].age > Stale

\* A seeded defect for the checks: a peer that announces again stays as old.
AnnouncedOnce(id) == [store[id] EXCEPT !.count = @ + 1]

\* What announce makes of an entry. Higher counts than Never rank the same.
AnnouncedAgain(id) == [age |-> 0, count |-> Smaller(store[id].count + 1, Never)]

\* The entries that may be first after the sort by rank.
Hindmost == {id \in DOMAIN store : \A other \in DOMAIN store : Rank(id) <= Rank(other)}

\* PeerStore::announce
Announce(id) ==
    IF id \in DOMAIN store
    THEN store' = [store EXCEPT ![id] = AnnouncedAgain(id)]
    ELSE \E gone \in IF Cardinality(DOMAIN store) >= MaxPeers
                     THEN {{id2} : id2 \in Hindmost} ELSE {{}} :
            store' = [other \in (DOMAIN store \ gone) \cup {id} |->
                        IF other = id THEN [age |-> 0, count |-> 1] ELSE store[other]]

\* PeerStore::get_peers: the possible answers.
BestPeers ==
    LET active == {id \in DOMAIN store : ~IsStale(id)} IN
    {top \in SUBSET active :
        /\ Cardinality(top) = Smaller(Cardinality(active), ReturnLimit)
        /\ \A id \in top, other \in active \ top : Rank(id) >= Rank(other)}

----------------------------------------------------------------------------
(* The node *)

Init ==
    /\ buckets = [b \in Bits |-> <<>>]
    /\ store = [id \in {} |-> 0]
    /\ clock = 0
    /\ due = {"refresh", "cleanup"}
    /\ sent = {}
    /\ mentions = [b \in Bits |-> <<>>]
    /\ heard = [id \in Top |-> Never]

\* handle_message begins with the sender: it enters the table, or the oldest
\* node of its full bucket is sent a Ping, whose Pong nobody waits for.
Greets(from) ==
    {[type |-> "Ping", to |-> n] : n \in Oldest(from)}

\* A seeded defect for the checks: the sender enters the table at the end.
TableFor(from) == buckets
TableWith(from) == Insert(buckets, from)

LastOf(order, id) ==
    IF id = OurId THEN order
    ELSE [order EXCEPT ![BucketOf(id)] = Append(Picked(@, {k \in DOMAIN @ : @[k] # id}), id)]

\* The nodes of a list, one by one.
AllInserted(table, nodes) ==
    LET after[k \in 0 .. Len(nodes)] ==
            IF k = 0 THEN table ELSE Insert(after[k - 1], nodes[k])
    IN  after[Len(nodes)]

AllMentioned(order, nodes) ==
    LET after[k \in 0 .. Len(nodes)] ==
            IF k = 0 THEN order ELSE LastOf(after[k - 1], nodes[k].id)
    IN  after[Len(nodes)]

Heard(from) ==
    /\ buckets' = Insert(buckets, from)
    /\ mentions' = LastOf(mentions, from.id)

Ping(from) ==
    /\ Heard(from)
    /\ sent' = Greets(from) \cup {[type |-> "Pong", to |-> from]}
    /\ UNCHANGED <<store, clock, due, heard>>

\* Pong does nothing else.
Pong(from) ==
    /\ Heard(from)
    /\ sent' = Greets(from)
    /\ UNCHANGED <<store, clock, due, heard>>

\* The target is the sender's own id, in every FindNode that run sends.
FindNode(from) ==
    /\ Heard(from)
    /\ sent' = Greets(from) \cup
            {[type |-> "FindNodeResponse", to |-> from, nodes |-> Closest(TableWith(from), from.id, CloseCount)]}
    /\ UNCHANGED <<store, clock, due, heard>>

GetPeers(from) ==
    /\ Heard(from)
    /\ \E peers \in BestPeers :
         sent' = Greets(from) \cup
            {[type |-> "GetPeersResponse", to |-> from, peers |-> peers,
              nodes |-> IF peers = {} THEN Closest(TableWith(from), Target, CloseCount) ELSE {}]}
    /\ UNCHANGED <<store, clock, due, heard>>

\* FindNodeResponse and GetPeersResponse: their nodes enter the table where
\* there is room, and no one is pinged for them.  The event for peers in an
\* answer that run never asked for is left out.
Response(from, nodes) ==
    /\ buckets' = AllInserted(Insert(buckets, from), nodes)
    /\ mentions' = AllMentioned(LastOf(mentions, from.id), nodes)
    /\ sent' = Greets(from)
    /\ UNCHANGED <<store, clock, due, heard>>

AnnouncePeer(from) ==
    /\ Heard(from)
    /\ Announce(from.id)
    /\ sent' = Greets(from)
    /\ heard' = [id \in Top |-> IF id = from.id THEN 0 ELSE heard[id]]
    /\ UNCHANGED <<clock, due>>

HandleMessage(from) ==
    \/ Ping(from) \/ Pong(from) \/ FindNode(from) \/ GetPeers(from)
    \/ \E nodes \in Told : Response(from, nodes)
    \/ from \in Peers /\ AnnouncePeer(from)

Refresh ==
    /\ "refresh" \in due
    /\ due' = due \ {"refresh"}
    /\ sent' = {[type |-> "FindNode", to |-> n] : n \in Closest(buckets, OurId, RefreshCount)}
    /\ UNCHANGED <<buckets, store, clock, mentions, heard>>

\* remove_stale
Cleanup ==
    /\ "cleanup" \in due
    /\ due' = due \ {"cleanup"}
    /\ store' = [id \in {id \in DOMAIN store : ~IsStale(id)} |-> store[id]]
    /\ sent' = {}
    /\ UNCHANGED <<buckets, clock, mentions, heard>>

\* Time passes; the loop serves its intervals before the next unit is over.
Tick ==
    /\ due = {}
    /\ clock' = (clock + 1) % Stale
    /\ due' = IF clock' = 0 THEN {"refresh", "cleanup"} ELSE {}
    /\ store' = [id \in DOMAIN store |-> [store[id] EXCEPT !.age = @ + 1]]
    /\ heard' = [id \in Top |-> Smaller(heard[id] + 1, Never)]
    /\ sent' = {}
    /\ UNCHANGED <<buckets, mentions>>

Next ==
    \/ \E from \in Nodes : HandleMessage(from)
    \/ Refresh \/ Cleanup \/ Tick

Spec == Init /\ [][Next]_vars

----------------------------------------------------------------------------
(* Properties *)

\* Whatever is said by and about nodes, under several addresses and in any
\* order: an id is listed once, ours is not, and no bucket outgrows K.
TableSound ==
    /\ \A b, c \in Bits : \A j \in DOMAIN buckets[b], k \in DOMAIN buckets[c] :
          buckets[b][j].id = buckets[c][k].id => b = c /\ j = k
    /\ \A b \in Bits : Len(buckets[b]) <= K /\ ~Lists(buckets[b], OurId)

\* For a full bucket the node that is pinged is the one of which nothing was
\* heard for the longest time, from itself or from others.
PingsLongestSilent ==
    [][\A m \in sent' : m.type = "Ping" =>
          LET b == BucketOf(m.to.id) IN
          \A k \in DOMAIN mentions[b] : mentions[b][k] = m.to.id =>
              \A j \in 1 .. k - 1 : ~Lists(buckets[b], mentions[b][j])]_vars

\* Who asks for peers gets peers or nodes, even from a node that knows nobody (unless it
\* goes by our own id).
NeverEmptyAnswer ==
    \A m \in sent : m.type = "GetPeersResponse" =>
        m.peers # {} \/ m.nodes # {} \/ m.to.id = OurId

\* A peer whose score is beyond what freshness and constancy can outweigh is
\* found by everyone as long as its announcements arrive within the fifteen
\* minutes, whoever else announces itself, provided that such peers leave a
\* place for the others in the store and fit in an answer.
AliveIsFound ==
    /\ Cardinality(Top) < MaxPeers /\ Cardinality(Top) <= ReturnLimit
    /\ \A id \in Others : Score[id] <= 3
    => \A id \in Top : heard[id] <= Stale => \A peers \in BestPeers : id \in peers
=============================================================================
