--------------------------- MODULE DownloadProofs ---------------------------
(* Proofs, for every set of peers, file and budget of faults, of the safety *)
(* properties that MCDownload and MCSeed check on two peers and two pieces. *)
EXTENDS Download, FiniteSetTheorems, SequenceTheorems, TLAPS

SP == INSTANCE SchedulerProofs

----------------------------------------------------------------------------
(* Sequences *)

\* What the coordinator, a peer or the writer takes from a queue and leaves.
LEMMA Taken ==
    ASSUME NEW S, NEW s \in Seq(S), s # <<>>
    PROVE  /\ Tail(s) \in Seq(S)
           /\ Head(s) = s[1] /\ Head(s) \in S /\ 1 \in DOMAIN s
           /\ Len(Tail(s)) = Len(s) - 1 /\ Len(s) \in Nat
           /\ \A k \in DOMAIN Tail(s) :
                 k \in Nat /\ k + 1 \in DOMAIN s /\ k + 1 # 1 /\ Tail(s)[k] = s[k + 1]
           /\ \A k \in DOMAIN s : k # 1 => k - 1 \in DOMAIN Tail(s) /\ s[k] = Tail(s)[k - 1]
  OBVIOUS

\* What is put at the end of a queue.
LEMMA Joined ==
    ASSUME NEW S, NEW s \in Seq(S), NEW t \in Seq(S)
    PROVE  /\ s \o t \in Seq(S)
           /\ Len(s \o t) = Len(s) + Len(t) /\ Len(s) \in Nat /\ Len(t) \in Nat
           /\ \A k \in DOMAIN s : k \in DOMAIN (s \o t) /\ (s \o t)[k] = s[k]
           /\ \A k \in DOMAIN (s \o t) :
                 \/ k \in DOMAIN s
                 \/ k - Len(s) \in DOMAIN t /\ (s \o t)[k] = t[k - Len(s)]
  OBVIOUS

LEMMA Appended ==
    ASSUME NEW S, NEW s \in Seq(S), NEW e \in S
    PROVE  /\ Append(s, e) \in Seq(S) /\ Append(s, e) # <<>>
           /\ Len(Append(s, e)) = Len(s) + 1 /\ Len(s) \in Nat
           /\ \A k \in DOMAIN s : k \in DOMAIN Append(s, e) /\ Append(s, e)[k] = s[k]
           /\ \A k \in DOMAIN Append(s, e) :
                 \/ k \in DOMAIN s
                 \/ k = Len(s) + 1 /\ Append(s, e)[k] = e
           /\ Len(s) + 1 \in DOMAIN Append(s, e) /\ Append(s, e)[Len(s) + 1] = e
  OBVIOUS

\* What was read of a connection before it failed.
LEMMA Cut ==
    ASSUME NEW S, NEW s \in Seq(S), NEW r \in Prefixes(s)
    PROVE  /\ r \in Seq(S)
           /\ Len(r) \in Nat /\ Len(r) <= Len(s)
           /\ \A k \in DOMAIN r : k \in DOMAIN s /\ r[k] = s[k]
<1>1. PICK n \in 0 .. Len(s) : r = SubSeq(s, 1, n)
  BY DEF Prefixes
<1> QED
  BY <1>1

----------------------------------------------------------------------------
(* The endgame broadcast *)

\* Every position of the ascending order of a finite set is taken.
LEMMA RankIsBijection ==
  ASSUME NEW S, IsFiniteSet(S), S \subseteq Nat,
         NEW k \in 1 .. Cardinality(S)
  PROVE  \E i \in S : Cardinality({j \in S : j <= i}) = k
<1> DEFINE n == Cardinality(S)
           Below(i) == {j \in S : j <= i}
           rank == [i \in S |-> Cardinality(Below(i))]
<1>1. n \in Nat
  BY FS_CardinalityType
<1>2. ASSUME NEW i \in S PROVE IsFiniteSet(Below(i)) /\ Cardinality(Below(i)) \in 1 .. n
  <2>1. Below(i) \in SUBSET S /\ i \in Below(i)
    OBVIOUS
  <2>2. IsFiniteSet(Below(i)) /\ Cardinality(Below(i)) <= n
    BY <2>1, FS_Subset
  <2>3. Cardinality(Below(i)) \in Nat /\ Cardinality(Below(i)) # 0
    BY <2>1, <2>2, FS_CardinalityType, FS_EmptySet
  <2> QED
    BY <1>1, <2>2, <2>3
<1>3. rank \in [S -> 1 .. n]
  BY <1>2
<1>4. ASSUME NEW i \in S, NEW j \in S, i < j PROVE rank[i] # rank[j]
  <2>1. Below(i) \in SUBSET Below(j) /\ j \in Below(j) /\ j \notin Below(i)
    <3>1. i \in Nat /\ j \in Nat /\ \A y \in S : y \in Nat
      OBVIOUS
    <3>2. \A y \in S : y <= i => y <= j
      BY <1>4, <3>1
    <3>3. ~(j <= i)
      BY <1>4, <3>1
    <3>4. Below(i) \subseteq Below(j)
      BY <3>2
    <3>5. j \in Below(j)
      BY <3>1
    <3>6. j \notin Below(i)
      BY <3>3
    <3> QED
      BY <3>4, <3>5, <3>6
  <2> QED
    BY <1>2, <2>1, FS_Subset
<1>5. rank \in Injection(S, 1 .. n)
  <2>1. ASSUME NEW i \in S, NEW j \in S, rank[i] = rank[j] PROVE i = j
    <3>1. i \in Nat /\ j \in Nat
      OBVIOUS
    <3>2. ~(i < j) /\ ~(j < i)
      BY <1>4, <2>1
    <3> QED
      BY <3>1, <3>2
  <2> QED
    BY <1>3, <2>1 DEF Injection, IsInjective
<1>6. IsFiniteSet(1 .. n) /\ Cardinality(1 .. n) = n
  BY <1>1, FS_Interval
<1>7. rank \in Surjection(S, 1 .. n)
  BY <1>5, <1>6, FS_Injection
<1> QED
  BY <1>7 DEF Surjection

\* The requests of a broadcast are for pieces of the given set.
LEMMA RequestsType ==
  ASSUME NEW S \in SUBSET Pieces
  PROVE  /\ Requests(S) \in Seq({Request(i) : i \in S})
         /\ Len(Requests(S)) = Cardinality(S)
<1> DEFINE Rank(i) == Cardinality({j \in S : j <= i})
           chosen(k) == CHOOSE i \in S : Rank(i) = k
<1>1. IsFiniteSet(S) /\ S \subseteq Nat
  BY ConstantsAssumption, FS_Subset
<1>2. Cardinality(S) \in Nat
  BY <1>1, FS_CardinalityType
<1>3. \A k \in 1 .. Cardinality(S) : chosen(k) \in S
  BY <1>1, RankIsBijection
<1> DEFINE R == [k \in 1 .. Cardinality(S) |-> Request(chosen(k))]
<1>4. R \in [1 .. Cardinality(S) -> {Request(i) : i \in S}]
  BY <1>3
<1>5. Requests(S) = R
  BY DEF Requests
<1> HIDE DEF R
<1>6. R \in Seq({Request(i) : i \in S}) /\ Len(R) = Cardinality(S)
  BY <1>2, <1>4
<1> QED
  BY <1>5, <1>6

----------------------------------------------------------------------------
(* Messages and types *)

MessagesTo == {Interested} \cup {Request(i) : i \in Pieces}
EventsFrom ==
    {Unchoke, Choke, Disconnected} \cup {Bitfield(S) : S \in SUBSET Pieces}
        \cup {HaveEvent(i) : i \in Pieces} \cup {Piece(i, g) : i \in Pieces, g \in Data}
Writes == [piece : Pieces, data : Pieces]
Remotes == [has : SUBSET Pieces, choking : BOOLEAN, bad : Nat, chokes : Nat]

\* TypeOK with what the queues carry: the part every other invariant needs.
Typed ==
    /\ TypeOK
    /\ out \in [Peers -> Seq(MessagesTo)]
    /\ inbox \in [Peers -> Seq(EventsFrom)]
    /\ queue \in Seq(Writes)
    /\ remote \in [Peers -> Remotes]

\* What is left of Typed once TypeOK is expanded, conjunct by conjunct.
LEMMA MessageTypes ==
    /\ Interested \in MessagesTo /\ Interested.type = "interested"
    /\ \A i \in Pieces : Request(i) \in MessagesTo
    /\ \A i : Request(i).type = "request" /\ Request(i).piece = i
    /\ \A m \in MessagesTo :
          /\ m.type \in {"interested", "request"}
          /\ m.type = "request" => m.piece \in Pieces /\ m = Request(m.piece)
          /\ m.type = "interested" => m = Interested
<1>1. \A m \in MessagesTo : m = Interested \/ \E i \in Pieces : m = Request(i)
  BY DEF MessagesTo
<1>2. Interested \in MessagesTo /\ \A i \in Pieces : Request(i) \in MessagesTo
  BY DEF MessagesTo
<1> QED
  BY <1>1, <1>2 DEF Interested, Request

LEMMA EventTypes ==
    /\ {Unchoke, Choke, Disconnected} \subseteq EventsFrom
    /\ Unchoke.type = "unchoke" /\ Choke.type = "choke" /\ Disconnected.type = "disconnected"
    /\ \A S \in SUBSET Pieces : Bitfield(S) \in EventsFrom
    /\ \A S : Bitfield(S).type = "bitfield" /\ Bitfield(S).pieces = S
    /\ \A i \in Pieces : HaveEvent(i) \in EventsFrom
    /\ \A i : HaveEvent(i).type = "have" /\ HaveEvent(i).piece = i
    /\ \A i \in Pieces, g \in Data : Piece(i, g) \in EventsFrom
    /\ \A i, g : /\ Piece(i, g).type = "piece" /\ Piece(i, g).piece = i
                 /\ Piece(i, g).data = g
    /\ \A e \in EventsFrom :
          /\ e.type \in Events
          /\ e.type = "bitfield" => e.pieces \in SUBSET Pieces
          /\ e.type = "have" => e.piece \in Pieces
          /\ e.type = "piece" => /\ e.piece \in Pieces /\ e.data \in Data
                                /\ e = Piece(e.piece, e.data)
          /\ e.type = "unchoke" => e = Unchoke
          /\ e.type = "disconnected" => e = Disconnected
<1>1. ASSUME NEW e \in EventsFrom
      PROVE  \/ e \in {Unchoke, Choke, Disconnected}
             \/ \E S \in SUBSET Pieces : e = Bitfield(S)
             \/ \E i \in Pieces : e = HaveEvent(i)
             \/ \E i \in Pieces, g \in Data : e = Piece(i, g)
  BY DEF EventsFrom
<1>2. /\ {Unchoke, Choke, Disconnected} \subseteq EventsFrom
      /\ \A S \in SUBSET Pieces : Bitfield(S) \in EventsFrom
      /\ \A i \in Pieces : HaveEvent(i) \in EventsFrom
      /\ \A i \in Pieces, g \in Data : Piece(i, g) \in EventsFrom
  BY DEF EventsFrom
<1> QED
  BY <1>1, <1>2 DEF Events, Unchoke, Choke, Disconnected, Bitfield, HaveEvent, Piece

----------------------------------------------------------------------------
(* The scheduler that SP reasons about is the one Sched names. *)

LEMMA SameActions ==
    /\ \A p, S : SP!RegisterPeer(p, S) <=> Sched!RegisterPeer(p, S)
    /\ \A p : SP!UnregisterPeer(p) <=> Sched!UnregisterPeer(p)
    /\ \A p, i : SP!PeerHasPiece(p, i) <=> Sched!PeerHasPiece(p, i)
    /\ \A p, i : SP!PickPiece(p, i) <=> Sched!PickPiece(p, i)
    /\ \A i : SP!PieceCompleted(i) <=> Sched!PieceCompleted(i)
    /\ \A i : SP!PieceFailed(i) <=> Sched!PieceFailed(i)
<1> USE DEF SP!Registered, Sched!Registered, SP!Restrict, Sched!Restrict, SP!Insert, Sched!Insert,
            SP!Missing, Sched!Missing
<1>1. \A p, S : SP!RegisterPeer(p, S) <=> Sched!RegisterPeer(p, S)
  BY DEF SP!RegisterPeer, Sched!RegisterPeer
<1>2. \A p : SP!UnregisterPeer(p) <=> Sched!UnregisterPeer(p)
  BY DEF SP!UnregisterPeer, Sched!UnregisterPeer, SP!Discounted, Sched!Discounted
<1>3. \A p, i : SP!PeerHasPiece(p, i) <=> Sched!PeerHasPiece(p, i)
  BY DEF SP!PeerHasPiece, Sched!PeerHasPiece
<1>4. \A p, i : SP!PickPiece(p, i) <=> Sched!PickPiece(p, i)
  <2>1. \A p : SP!Rarest(p) = Sched!Rarest(p)
    BY DEF SP!Rarest, Sched!Rarest, SP!Candidates, Sched!Candidates
  <2>2. SP!CheckEndgame <=> Sched!CheckEndgame
    BY DEF SP!CheckEndgame, Sched!CheckEndgame
  <2> QED
    BY <2>1, <2>2 DEF SP!PickPiece, Sched!PickPiece
<1>5. \A i : SP!PieceCompleted(i) <=> Sched!PieceCompleted(i)
  BY DEF SP!PieceCompleted, Sched!PieceCompleted, SP!CheckEndgame, Sched!CheckEndgame
<1>6. \A i : SP!PieceFailed(i) <=> Sched!PieceFailed(i)
  BY DEF SP!PieceFailed, Sched!PieceFailed
<1> QED
  BY <1>1, <1>2, <1>3, <1>4, <1>5, <1>6

LEMMA SameType == SP!TypeOK <=> Sched!TypeOK
  BY DEF SP!TypeOK, Sched!TypeOK

\* The assumption of the scheduler's module, as SP states it.
LEMMA PeersFinite == SP!IsFiniteSet(Peers)
  BY ConstantsAssumption DEF SP!IsFiniteSet, IsFiniteSet

LEMMA SameNext == SP!Next <=> Sched!Next
  BY SameActions, SMT
     DEF SP!Next, SP!Register, SP!Unregister, SP!Announce, SP!Pick, SP!Complete, SP!Fail,
         SP!Registered, SP!Missing,
         Sched!Next, Sched!Register, Sched!Unregister, Sched!Announce, Sched!Pick,
         Sched!Complete, Sched!Fail, Sched!Registered, Sched!Missing

LEMMA SameInit == SP!Init <=> Sched!Init
  BY DEF SP!Init, Sched!Init

LEMMA SameVars == SP!vars = Sched!vars
  BY DEF SP!vars, Sched!vars

LEMMA SameSpec == SP!Spec <=> Sched!Spec
<1>1. SP!Init <=> Sched!Init
  BY DEF SP!Init, Sched!Init
<1>2. [SP!Next]_(SP!vars) <=> [Sched!Next]_(Sched!vars)
  BY SameNext DEF SP!vars, Sched!vars
<1> QED
  BY <1>1, <1>2, PTL DEF SP!Spec, Sched!Spec

LEMMA SameCounts == SP!RarityIsHolderCount <=> Sched!RarityIsHolderCount
  BY DEF SP!RarityIsHolderCount, Sched!RarityIsHolderCount, SP!Holders, Sched!Holders,
         SP!Registered, Sched!Registered, SP!Cardinality, Sched!Cardinality

----------------------------------------------------------------------------
(* The contract of the scheduler *)

\* The events of a connection come in the order the peer loop keeps: the
\* bitfield first and once, before which the peer is not registered, and the
\* disconnection last.  An open connection has been registered or is about to.
Ordered(p) ==
    /\ \A k \in DOMAIN inbox[p] :
          /\ inbox[p][k].type = "bitfield" => k = 1 /\ p \notin DOMAIN holds
          /\ inbox[p][k].type = "disconnected" => k = Len(inbox[p]) /\ conn[p] = "closed"
          /\ inbox[p][k].type \notin {"bitfield", "disconnected"} =>
                p \in DOMAIN holds \/ inbox[p][1].type = "bitfield"
    /\ conn[p] # "closed" => \/ p \in DOMAIN holds
                             \/ inbox[p] # <<>> /\ inbox[p][1].type = "bitfield"

InboxOrdered == \A p \in Peers : Ordered(p)

\* What the coordinator receives is the head of the queue.
LEMMA Received ==
    ASSUME Typed, NEW p \in Peers, NEW type, Receive(p, type)
    PROVE  /\ inbox[p] \in Seq(EventsFrom) /\ inbox[p] # <<>>
           /\ Head(inbox[p]) = inbox[p][1] /\ Head(inbox[p]) \in EventsFrom
           /\ Head(inbox[p]).type = type
           /\ 1 \in DOMAIN inbox[p]
           /\ inbox'[p] = Tail(inbox[p])
           /\ \A q \in Peers \ {p} : inbox'[q] = inbox[q]
  BY Taken DEF Receive, Typed

LEMMA SchedulerStep ==
    Typed /\ InboxOrdered /\ [Next]_vars => [Sched!Next]_(Sched!vars)
<1> SUFFICES ASSUME Typed, InboxOrdered, [Next]_vars, ~UNCHANGED Sched!vars
             PROVE  Sched!Next
  OBVIOUS
<1> USE EventTypes
<1>1. ASSUME NEW p \in Peers, OnBitfield(p) PROVE Sched!Next
  <2>1. p \notin Sched!Registered /\ Head(inbox[p]).pieces \in SUBSET Pieces
    BY <1>1, Received DEF OnBitfield, InboxOrdered, Ordered, Sched!Registered
  <2> QED
    BY <1>1, <2>1 DEF OnBitfield, Sched!Next, Sched!Register
<1>2. ASSUME NEW p \in Peers, OnGoodPiece(p) PROVE Sched!Next
  <2>1. Head(inbox[p]).piece \in Sched!Missing
    BY <1>2, Received DEF OnGoodPiece, Sched!Missing
  <2> QED
    BY <1>2, <2>1 DEF OnGoodPiece, Sched!Next, Sched!Complete
<1>3. ASSUME NEW p \in Peers, OnBadPiece(p) PROVE Sched!Next
  <2>1. Head(inbox[p]).piece \in Sched!Missing
    BY <1>3, Received DEF OnBadPiece, Sched!Missing
  <2> QED
    BY <1>3, <2>1 DEF OnBadPiece, Sched!Next, Sched!Fail
<1>4. ASSUME NEW p \in Peers, OnHave(p) PROVE Sched!Next
  <2>1. Head(inbox[p]).piece \in Pieces
    BY <1>4, Received DEF OnHave
  <2> QED
    BY <1>4, <2>1 DEF OnHave, Sched!Next, Sched!Announce
<1>5. ASSUME NEW p \in Peers, OnDisconnected(p) PROVE Sched!Next
  BY <1>5 DEF OnDisconnected, Sched!Next, Sched!Unregister
<1>6. ASSUME NEW p \in Peers, RequestOne(p) PROVE Sched!Next
  BY <1>6 DEF RequestOne, Sched!Next, Sched!Pick, sched, Sched!vars
<1>7. CASE UNCHANGED sched
  BY <1>7 DEF sched, Sched!vars
<1>8. ASSUME NEW p \in Peers, OnUnchoked(p) \/ OnChoked(p) \/ OnDuplicate(p) PROVE UNCHANGED sched
  BY <1>8 DEF OnUnchoked, OnChoked, OnDuplicate
<1>9. ASSUME NEW p \in Peers, PeerStep(p) \/ BanExpires(p) PROVE UNCHANGED sched
  BY <1>9 DEF PeerStep, BanExpires, PeerUnchokes, PeerAnswers, PeerMixesUp, PeerCorrupts, PeerIgnores,
              PeerChokes, PeerUnchokesAgain, PeerGains, Leave, LoopEnds
<1>10. ASSUME NEW i \in Pieces, OnStale(i) PROVE UNCHANGED sched
  BY <1>10 DEF OnStale
<1>11. CASE LeaveLoop \/ Finish \/ DiskWrite \/ DiskFails \/ UNCHANGED vars
  BY <1>7, <1>11 DEF LeaveLoop, Finish, DiskWrite, DiskFails, vars
<1> QED
  BY <1>1, <1>2, <1>3, <1>4, <1>5, <1>6, <1>7, <1>8, <1>9, <1>10, <1>11
     DEF Next, Coordinator, HandleEvent



----------------------------------------------------------------------------
(* Type correctness *)

LEMMA InitTyped == Init => Typed /\ InboxOrdered
<1> SUFFICES ASSUME Init PROVE Typed /\ InboxOrdered
  OBVIOUS
<1> USE ConstantsAssumption DEF Init
<1>1. Sched!TypeOK
  BY DEF Sched!Init, Sched!TypeOK
<1>2. inbox \in [Peers -> Seq(EventsFrom)] /\ \A p \in Peers : inbox[p] = <<Bitfield(Content[p])>>
  BY EventTypes
<1>3. out \in [Peers -> Seq(MessagesTo)] /\ \A p \in Peers : out[p] = <<>>
  OBVIOUS
<1>4. /\ remote \in [Peers -> Remotes]
      /\ \A p \in Peers : remote[p] \in [has : SUBSET Pieces, choking : BOOLEAN,
                                        bad : 0 .. MaxBad[p], chokes : 0 .. MaxChoke[p]]
  BY DEF Remotes
<1>5. \A p \in Peers : \A k \in DOMAIN inbox[p] : inbox[p][k].type \in Events
  BY <1>2, EventTypes DEF Events
<1>6. TypeOK
  BY <1>1, <1>3, <1>4, <1>5 DEF TypeOK
<1>7. InboxOrdered
  <2>1. \A p \in Peers : p \notin Sched!Registered
    BY DEF Sched!Init, Sched!Registered
  <2>2. \A p \in Peers : Len(inbox[p]) = 1 /\ inbox[p][1] = Bitfield(Content[p]) /\ inbox[p] # <<>>
    BY <1>2
  <2> QED
    BY <1>2, <2>1, <2>2, EventTypes DEF InboxOrdered, Ordered, Sched!Registered
<1> QED
  BY <1>2, <1>3, <1>4, <1>6, <1>7 DEF Typed, Writes

\* What the coordinator sends: a message at the end of a queue, or nothing.
LEMMA SentType ==
    ASSUME Typed, NEW p \in Peers, NEW m \in MessagesTo
    PROVE  Sent(p, <<m>>) \in [Peers -> Seq(MessagesTo)]
<1>1. <<m>> \in Seq(MessagesTo) /\ out[p] \in Seq(MessagesTo)
  BY DEF Typed
<1>2. out[p] \o <<m>> \in Seq(MessagesTo)
  BY <1>1, Joined
<1> QED
  BY <1>1, <1>2 DEF Sent, Typed

LEMMA BroadcastType ==
    ASSUME Typed
    PROVE  EndgameBroadcast \in [Peers -> Seq(MessagesTo)]
<1>1. ASSUME NEW S \in SUBSET Pieces PROVE Requests(S) \in Seq(MessagesTo)
  <2>1. {Request(i) : i \in S} \subseteq MessagesTo
    BY MessageTypes
  <2> QED
    BY <2>1, RequestsType, SeqMonotonic
<1>2. ASSUME NEW q \in Peers
      PROVE  Requests({i \in Pieces : <<i, q>> \in Sched!EndgameRequests'}) \in Seq(MessagesTo)
  BY <1>1
<1> QED
  BY <1>2, Joined DEF EndgameBroadcast, Typed

LEMMA NextOutType ==
    ASSUME Typed, [Next]_vars
    PROVE  out' \in [Peers -> Seq(MessagesTo)]
<1> USE DEF Typed
<1>1. ASSUME NEW p \in Peers, RequestOne(p) PROVE out' \in [Peers -> Seq(MessagesTo)]
  <2>1. \A i \in Pieces : Sent(p, <<Request(i)>>) \in [Peers -> Seq(MessagesTo)]
    BY MessageTypes, SentType
  <2> QED
    BY <1>1, <2>1 DEF RequestOne
<1>2. ASSUME NEW p \in Peers, OnBitfield(p) PROVE out' \in [Peers -> Seq(MessagesTo)]
  <2>1. Sent(p, <<Interested>>) \in [Peers -> Seq(MessagesTo)]
    BY MessageTypes, SentType
  <2> QED
    BY <1>2, <2>1 DEF OnBitfield
<1>3. ASSUME NEW p \in Peers, OnGoodPiece(p) PROVE out' \in [Peers -> Seq(MessagesTo)]
  BY <1>3, BroadcastType DEF OnGoodPiece
<1>4. ASSUME NEW i \in Pieces, OnStale(i) PROVE out' \in [Peers -> Seq(MessagesTo)]
  <2>1. \A q \in Peers : Sent(q, <<Request(i)>>) \in [Peers -> Seq(MessagesTo)]
    BY MessageTypes, SentType
  <2>2. \A q \in Sched!Holders(i) : q \in Peers
    BY DEF Sched!Holders, Sched!Registered, TypeOK, Sched!TypeOK
  <2> QED
    BY <1>4, <2>1, <2>2 DEF OnStale
<1>5. ASSUME NEW p \in Peers, NEW type, Takes(p, type) PROVE out' \in [Peers -> Seq(MessagesTo)]
  BY <1>5, Taken DEF Takes
<1>6. ASSUME NEW p \in Peers, Leave(p) \/ LoopEnds(p) PROVE out' \in [Peers -> Seq(MessagesTo)]
  <2>1. out' = [out EXCEPT ![p] = <<>>]
    BY <1>6 DEF Leave, LoopEnds
  <2> QED
    BY <2>1
<1>7. CASE LeaveLoop
  BY <1>7 DEF LeaveLoop
<1>8. CASE UNCHANGED out
  BY <1>8
<1>9. ASSUME NEW p \in Peers,
             OnUnchoked(p) \/ OnChoked(p) \/ OnDuplicate(p) \/ OnBadPiece(p) \/ OnHave(p)
               \/ OnDisconnected(p) \/ PeerChokes(p) \/ PeerUnchokesAgain(p) \/ BanExpires(p)
      PROVE  UNCHANGED out
  BY <1>9 DEF OnUnchoked, OnChoked, OnDuplicate, OnBadPiece, OnHave, OnDisconnected,
              PeerChokes, PeerUnchokesAgain, BanExpires
<1>10. ASSUME NEW p \in Peers, NEW i \in Pieces, PeerGains(p, i) PROVE UNCHANGED out
  BY <1>10 DEF PeerGains
<1>11. ASSUME NEW p \in Peers,
              PeerUnchokes(p) \/ PeerAnswers(p) \/ PeerMixesUp(p) \/ PeerCorrupts(p) \/ PeerIgnores(p)
       PROVE  \E type : Takes(p, type)
  BY <1>11 DEF PeerUnchokes, PeerAnswers, PeerMixesUp, PeerCorrupts, PeerIgnores
<1>12. CASE Finish \/ DiskWrite \/ DiskFails \/ UNCHANGED vars
  BY <1>8, <1>12 DEF Finish, DiskWrite, DiskFails, vars
<1> QED
  BY <1>1, <1>2, <1>3, <1>4, <1>5, <1>6, <1>7, <1>8, <1>9, <1>10, <1>11, <1>12
     DEF Next, Coordinator, HandleEvent, PeerStep

\* A peer says one more event.
LEMMA SaysType ==
    ASSUME Typed, NEW p \in Peers, NEW e \in EventsFrom, Says(p, e)
    PROVE  /\ inbox' \in [Peers -> Seq(EventsFrom)]
           /\ inbox'[p] = Append(inbox[p], e)
           /\ \A q \in Peers \ {p} : inbox'[q] = inbox[q]
  BY DEF Says, Typed

\* A request is answered with some data.
LEMMA Replies ==
    ASSUME Typed, NEW p \in Peers, PeerAnswers(p) \/ PeerMixesUp(p) \/ PeerCorrupts(p)
    PROVE  /\ Takes(p, "request") /\ UNCHANGED <<sched, conn>>
           /\ Head(out[p]).piece \in Pieces
           /\ \E g \in Data : Says(p, Piece(Head(out[p]).piece, g))
<1>1. Takes(p, "request") /\ UNCHANGED <<sched, conn>>
  BY DEF PeerAnswers, PeerMixesUp, PeerCorrupts, net
<1>2. Head(out[p]) \in MessagesTo /\ Head(out[p]).type = "request"
  BY <1>1, Taken DEF Takes, Typed
<1>3. Head(out[p]).piece \in Pieces
  BY <1>2, MessageTypes
<1>4. CASE PeerMixesUp(p)
  <2>1. PICK j \in remote[p].has : /\ <<p, Head(out[p]).piece, j>> \in MixUps
                                  /\ Says(p, Piece(Head(out[p]).piece, j))
    BY <1>4 DEF PeerMixesUp
  <2>2. j \in Data
    BY <2>1, ConstantsAssumption DEF Data
  <2> QED
    BY <1>1, <1>3, <2>1, <2>2
<1>5. CASE PeerAnswers(p)
  BY <1>1, <1>3, <1>5 DEF PeerAnswers, Data
<1>6. CASE PeerCorrupts(p)
  BY <1>1, <1>3, <1>6 DEF PeerCorrupts, Data
<1> QED
  BY <1>4, <1>5, <1>6

LEMMA NextInboxType ==
    ASSUME Typed, [Next]_vars
    PROVE  inbox' \in [Peers -> Seq(EventsFrom)]
<1> USE EventTypes DEF Typed
<1>1. ASSUME NEW p \in Peers, NEW type, Receive(p, type)
      PROVE  inbox' \in [Peers -> Seq(EventsFrom)]
  BY <1>1, Taken DEF Receive
<1>2. ASSUME NEW p \in Peers, NEW e \in EventsFrom, Says(p, e)
      PROVE  inbox' \in [Peers -> Seq(EventsFrom)]
  BY <1>2, SaysType
<1>3. ASSUME NEW p \in Peers, HandleEvent(p) PROVE \E type : Receive(p, type)
  BY <1>3 DEF HandleEvent, OnBitfield, OnUnchoked, OnChoked, OnDuplicate, OnGoodPiece,
              OnBadPiece, OnHave, OnDisconnected
<1>4. ASSUME NEW p \in Peers,
             PeerUnchokes(p) \/ PeerChokes(p) \/ PeerUnchokesAgain(p)
      PROVE  \E e \in EventsFrom : Says(p, e)
  BY <1>4 DEF PeerUnchokes, PeerChokes, PeerUnchokesAgain
<1>5. ASSUME NEW p \in Peers, PeerAnswers(p) \/ PeerMixesUp(p) \/ PeerCorrupts(p)
      PROVE  \E e \in EventsFrom : Says(p, e)
  BY <1>5, Replies
<1>6. ASSUME NEW p \in Peers, NEW i \in Pieces, PeerGains(p, i)
      PROVE  \E e \in EventsFrom : Says(p, e)
  BY <1>6 DEF PeerGains
<1>7. ASSUME NEW p \in Peers, Leave(p) PROVE inbox' \in [Peers -> Seq(EventsFrom)]
  BY <1>7, Cut, Appended DEF Leave
<1>8. ASSUME NEW p \in Peers, LoopEnds(p) PROVE inbox' \in [Peers -> Seq(EventsFrom)]
  BY <1>8, Cut DEF LoopEnds
<1>9. CASE LeaveLoop
  BY <1>9 DEF LeaveLoop
<1>10. CASE UNCHANGED inbox
  BY <1>10
<1>11. ASSUME NEW p \in Peers, RequestOne(p) \/ BanExpires(p) \/ PeerIgnores(p)
       PROVE  UNCHANGED inbox
  BY <1>11 DEF RequestOne, BanExpires, PeerIgnores
<1>12. ASSUME NEW i \in Pieces, OnStale(i) PROVE UNCHANGED inbox
  BY <1>12 DEF OnStale
<1>13. CASE Finish \/ DiskWrite \/ DiskFails \/ UNCHANGED vars
  BY <1>10, <1>13 DEF Finish, DiskWrite, DiskFails, vars
<1> QED
  BY <1>1, <1>2, <1>3, <1>4, <1>5, <1>6, <1>7, <1>8, <1>9, <1>10, <1>11, <1>12, <1>13
     DEF Next, Coordinator, PeerStep

\* The actions that leave the coordinator's tables alone.
LEMMA OthersKeepTables ==
    ASSUME [Next]_vars, ~(\E p \in Peers : HandleEvent(p) \/ RequestOne(p) \/ BanExpires(p)),
           ~(\E i \in Pieces : OnStale(i))
    PROVE  UNCHANGED <<sched, book, reputation, burst>>
<1>1. ASSUME NEW p \in Peers, PeerStep(p) PROVE UNCHANGED <<sched, book, reputation, burst>>
  BY <1>1 DEF PeerStep, PeerUnchokes, PeerAnswers, PeerMixesUp, PeerCorrupts, PeerIgnores,
              PeerChokes, PeerUnchokesAgain, PeerGains, Leave, LoopEnds
<1>2. CASE LeaveLoop \/ Finish \/ DiskWrite \/ DiskFails
  BY <1>2 DEF LeaveLoop, Finish, DiskWrite, DiskFails
<1> QED
  BY <1>1, <1>2 DEF Next, Coordinator, vars

LEMMA NextBookType ==
    ASSUME Typed, [Next]_vars
    PROVE  /\ unchoked' \subseteq Peers
           /\ DOMAIN stamps' \subseteq Pieces
           /\ \A i \in DOMAIN stamps' : stamps'[i] \in Peers
<1> DEFINE Goal == /\ unchoked' \subseteq Peers
                   /\ DOMAIN stamps' \subseteq Pieces
                   /\ \A i \in DOMAIN stamps' : stamps'[i] \in Peers
<1> USE DEF Typed, TypeOK
<1>1. ASSUME NEW p \in Peers, RequestOne(p) PROVE Goal
  <2>1. CASE \E i \in Pieces : stamps' = Insert(stamps, i, p)
    BY <1>1, <2>1 DEF RequestOne, Insert, Sched!Insert
  <2> QED
    BY <1>1, <2>1 DEF RequestOne
<1>2. ASSUME NEW p \in Peers, OnGoodPiece(p) \/ OnBadPiece(p) PROVE Goal
  <2>1. stamps' = Restrict(stamps, DOMAIN stamps \ {Head(inbox[p]).piece})
    BY <1>2 DEF OnGoodPiece, OnBadPiece
  <2>2. unchoked' \subseteq unchoked
    BY <1>2 DEF OnGoodPiece, OnBadPiece
  <2> QED
    BY <2>1, <2>2 DEF Restrict
<1>3. ASSUME NEW p \in Peers, OnDisconnected(p) PROVE Goal
  BY <1>3 DEF OnDisconnected, Restrict
<1>4. ASSUME NEW i \in Pieces, OnStale(i) PROVE Goal
  <2>1. unchoked' = unchoked
    BY <1>4 DEF OnStale
  <2>2. CASE \E q \in Sched!Holders(i) : stamps' = Insert(stamps, i, q)
    BY <2>1, <2>2 DEF Insert, Sched!Insert, Sched!Holders, Sched!Registered, Sched!TypeOK
  <2>3. CASE stamps' = Restrict(stamps, DOMAIN stamps \ {i})
    BY <2>1, <2>3 DEF Restrict
  <2> QED
    BY <1>4, <2>2, <2>3 DEF OnStale
<1>5. ASSUME NEW p \in Peers,
             OnBitfield(p) \/ OnUnchoked(p) \/ OnChoked(p) \/ OnDuplicate(p) \/ OnHave(p)
               \/ BanExpires(p)
      PROVE  Goal
  BY <1>5 DEF OnBitfield, OnUnchoked, OnChoked, OnDuplicate, OnHave, BanExpires, book
<1>6. CASE UNCHANGED book
  BY <1>6 DEF book
<1> QED
  BY <1>1, <1>2, <1>3, <1>4, <1>5, <1>6, OthersKeepTables DEF HandleEvent

\* RequestPieces fixes the length of at most one call.
LEMMA RequestPiecesType ==
    ASSUME Typed, NEW p \in Peers, RequestPieces(p), strikes' \in [Peers -> Nat]
    PROVE  /\ burst' \in [Peers -> Nat]
           /\ \A q \in Peers \ {p} : burst'[q] = burst[q]
           /\ burst'[p] # burst[p] => ban'[p] = "none"
<1>1. \A n \in Nat : PipelineDepths(n) \subseteq Nat
  BY ConstantsAssumption DEF PipelineDepths
<1>2. strikes'[p] \in Nat /\ burst \in [Peers -> Nat]
  BY DEF Typed, TypeOK
<1>3. \/ UNCHANGED burst
      \/ ban'[p] = "none" /\ \E n \in Nat : burst' = [burst EXCEPT ![p] = n]
  BY <1>1, <1>2 DEF RequestPieces
<1> QED
  BY <1>2, <1>3

LEMMA NextReputationType ==
    ASSUME Typed, [Next]_vars
    PROVE  strikes' \in [Peers -> Nat] /\ ban' \in [Peers -> {"none", "temp", "session"}]
<1> DEFINE Goal == strikes' \in [Peers -> Nat] /\ ban' \in [Peers -> {"none", "temp", "session"}]
<1> USE DEF Typed, TypeOK
<1>1. ASSUME NEW p \in Peers, OnBadPiece(p) PROVE Goal
  <2>1. strikes' = [strikes EXCEPT ![p] = @ + 1] /\ ban' = [ban EXCEPT ![p] = BanAfter(p, strikes'[p])]
    BY <1>1 DEF OnBadPiece
  <2>2. \A n \in Nat : BanAfter(p, n) \in {"none", "temp", "session"}
    BY DEF BanAfter
  <2> QED
    BY <2>1, <2>2
<1>2. ASSUME NEW p \in Peers, OnDisconnected(p) \/ BanExpires(p) PROVE Goal
  <2>1. strikes \in [Peers -> Nat] /\ ban \in [Peers -> {"none", "temp", "session"}]
    OBVIOUS
  <2>2. /\ strikes' = strikes \/ strikes' = [strikes EXCEPT ![p] = 0]
        /\ ban' = [ban EXCEPT ![p] = "none"]
    BY <1>2 DEF OnDisconnected, BanExpires
  <2> QED
    BY <2>1, <2>2
<1>3. ASSUME NEW p \in Peers,
             OnBitfield(p) \/ OnUnchoked(p) \/ OnChoked(p) \/ OnDuplicate(p) \/ OnGoodPiece(p)
               \/ OnHave(p) \/ RequestOne(p)
      PROVE  UNCHANGED reputation
  BY <1>3 DEF OnBitfield, OnUnchoked, OnChoked, OnDuplicate, OnGoodPiece, OnHave, RequestOne
<1>4. ASSUME NEW i \in Pieces, OnStale(i) PROVE UNCHANGED reputation
  BY <1>4 DEF OnStale
<1>5. CASE UNCHANGED reputation
  BY <1>5 DEF reputation
<1> QED
  BY <1>1, <1>2, <1>3, <1>4, <1>5, OthersKeepTables DEF HandleEvent

\* One call of request_pieces at a time: it starts at the top of the loop.
LEMMA NextBurstType ==
    ASSUME Typed, [Next]_vars
    PROVE  /\ burst' \in [Peers -> Nat]
           /\ \A p, q \in Peers : burst'[p] > 0 /\ burst'[q] > 0 => p = q
<1> DEFINE Goal == /\ burst' \in [Peers -> Nat]
                   /\ \A p, q \in Peers : burst'[p] > 0 /\ burst'[q] > 0 => p = q
<1> USE DEF Typed, TypeOK
<1>1. ASSUME NEW p \in Peers, HandleEvent(p) PROVE Goal
  <2>1. \A q \in Peers : burst[q] = 0
    BY <1>1 DEF HandleEvent, OnBitfield, OnUnchoked, OnChoked, OnDuplicate, OnGoodPiece,
                OnBadPiece, OnHave, OnDisconnected, Receive, Handling, AtLoopTop
  <2>2. RequestPieces(p) \/ UNCHANGED burst
    BY <1>1 DEF HandleEvent, OnBitfield, OnUnchoked, OnChoked, OnDuplicate, OnGoodPiece,
                OnBadPiece, OnHave, OnDisconnected
  <2>3. strikes' \in [Peers -> Nat]
    BY NextReputationType
  <2>4. /\ burst' \in [Peers -> Nat]
        /\ \A q \in Peers \ {p} : burst'[q] = burst[q]
    BY <2>2, <2>3, RequestPiecesType
  <2> QED
    BY <2>1, <2>4
<1>2. ASSUME NEW p \in Peers, RequestOne(p) PROVE Goal
  <2>1. /\ burst[p] > 0
        /\ burst' = [burst EXCEPT ![p] = @ - 1] \/ burst' = [burst EXCEPT ![p] = 0]
    BY <1>2 DEF RequestOne
  <2>2. burst \in [Peers -> Nat] /\ \A q \in Peers \ {p} : burst[q] = 0
    BY <2>1
  <2> HIDE DEF Typed, TypeOK
  <2> QED
    BY <2>1, <2>2
<1>3. ASSUME NEW p \in Peers, BanExpires(p) PROVE UNCHANGED burst
  BY <1>3 DEF BanExpires
<1>4. ASSUME NEW i \in Pieces, OnStale(i) PROVE UNCHANGED burst
  BY <1>4 DEF OnStale
<1>5. CASE UNCHANGED burst
  BY <1>5
<1> QED
  BY <1>1, <1>2, <1>3, <1>4, <1>5, OthersKeepTables

LEMMA NextStoreType ==
    ASSUME Typed, [Next]_vars
    PROVE  /\ phase' \in {"running", "closing", "ok", "failed"}
           /\ writer' \in {"ok", "failed"}
           /\ queue' \in Seq(Writes)
           /\ DOMAIN disk' \subseteq Pieces /\ disk' \in [DOMAIN disk' -> Pieces]
           /\ stale' \in 0 .. MaxStale
<1> DEFINE Goal == /\ phase' \in {"running", "closing", "ok", "failed"}
                   /\ writer' \in {"ok", "failed"}
                   /\ queue' \in Seq(Writes)
                   /\ DOMAIN disk' \subseteq Pieces /\ disk' \in [DOMAIN disk' -> Pieces]
                   /\ stale' \in 0 .. MaxStale
<1>0. /\ phase \in {"running", "closing", "ok", "failed"}
      /\ writer \in {"ok", "failed"}
      /\ queue \in Seq(Writes)
      /\ DOMAIN disk \subseteq Pieces /\ disk \in [DOMAIN disk -> Pieces]
      /\ stale \in 0 .. MaxStale /\ MaxStale \in Nat
  BY ConstantsAssumption DEF Typed, TypeOK
<1>1. ASSUME NEW p \in Peers, OnGoodPiece(p) PROVE Goal
  <2>1. Head(inbox[p]) \in EventsFrom /\ Head(inbox[p]).type = "piece"
    BY <1>1, Received DEF OnGoodPiece
  <2>2. [piece |-> Head(inbox[p]).piece, data |-> Head(inbox[p]).data] \in Writes
    BY <1>1, <2>1, EventTypes DEF Writes, OnGoodPiece, Verifies, Data
  <2>3. queue' \in Seq(Writes)
    BY <1>0, <1>1, <2>2 DEF OnGoodPiece
  <2> QED
    BY <1>0, <1>1, <2>3 DEF OnGoodPiece
<1>2. CASE DiskWrite
  <2>1. Head(queue).piece \in Pieces /\ Head(queue).data \in Pieces /\ Tail(queue) \in Seq(Writes)
    <3>1. queue # <<>> /\ Head(queue) \in Writes /\ Tail(queue) \in Seq(Writes)
      BY <1>0, <1>2, Taken DEF DiskWrite
    <3> QED
      BY <3>1 DEF Writes
  <2>2. disk' = [i \in DOMAIN disk \cup {Head(queue).piece} |->
                   IF i = Head(queue).piece THEN Head(queue).data ELSE disk[i]]
    BY <1>2 DEF DiskWrite, Insert, Sched!Insert
  <2> QED
    BY <1>0, <1>2, <2>1, <2>2 DEF DiskWrite
<1>3. CASE LeaveLoop \/ Finish
  BY <1>0, <1>3 DEF LeaveLoop, Finish, store
<1>7. CASE DiskFails
  BY <1>0, <1>7 DEF DiskFails
<1>4. ASSUME NEW i \in Pieces, OnStale(i) PROVE Goal
  BY <1>0, <1>4 DEF OnStale, store
<1>5. ASSUME NEW p \in Peers,
             \/ OnBitfield(p) \/ OnUnchoked(p) \/ OnChoked(p) \/ OnDuplicate(p) \/ OnBadPiece(p)
             \/ OnHave(p) \/ OnDisconnected(p) \/ RequestOne(p) \/ BanExpires(p) \/ PeerStep(p)
      PROVE  UNCHANGED <<phase, store, stale>>
  BY <1>5 DEF OnBitfield, OnUnchoked, OnChoked, OnDuplicate, OnBadPiece, OnHave, OnDisconnected,
              RequestOne, BanExpires, PeerStep, PeerUnchokes, PeerAnswers, PeerMixesUp, PeerCorrupts,
              PeerIgnores, PeerChokes, PeerUnchokesAgain, PeerGains, Leave, LoopEnds
<1>6. CASE UNCHANGED <<phase, store, stale>>
  BY <1>0, <1>6 DEF store
<1> QED
  BY <1>1, <1>2, <1>3, <1>4, <1>5, <1>6, <1>7 DEF Next, Coordinator, HandleEvent, vars

\* What an action changes of a connection: its state and the peer behind it.
LEMMA NextNetType ==
    ASSUME Typed, [Next]_vars
    PROVE  /\ conn' \in [Peers -> {"up", "dropped", "closed"}]
           /\ remote' \in [Peers -> Remotes]
           /\ \A p \in Peers :
                 remote'[p] \in [has : SUBSET Pieces, choking : BOOLEAN,
                                 bad : 0 .. MaxBad[p], chokes : 0 .. MaxChoke[p]]
<1> DEFINE Full(p) == [has : SUBSET Pieces, choking : BOOLEAN,
                       bad : 0 .. MaxBad[p], chokes : 0 .. MaxChoke[p]]
           Goal == /\ conn' \in [Peers -> {"up", "dropped", "closed"}]
                   /\ remote' \in [Peers -> Remotes]
                   /\ \A p \in Peers : remote'[p] \in Full(p)
<1>0. /\ conn \in [Peers -> {"up", "dropped", "closed"}]
      /\ remote \in [Peers -> Remotes] /\ \A p \in Peers : remote[p] \in Full(p)
      /\ \A p \in Peers : MaxBad[p] \in Nat /\ MaxChoke[p] \in Nat
  BY ConstantsAssumption DEF Typed, TypeOK
<1>1. ASSUME NEW p \in Peers, NEW r \in Full(p), conn' = conn, remote' = [remote EXCEPT ![p] = r]
      PROVE  Goal
  <2>1. r \in Remotes
    BY <1>0 DEF Remotes
  <2> QED
    BY <1>0, <1>1, <2>1
<1>2. ASSUME NEW p \in Peers, PeerUnchokes(p) \/ PeerUnchokesAgain(p) PROVE Goal
  <2> DEFINE r == [remote[p] EXCEPT !.choking = FALSE]
  <2>1. r \in Full(p)
    BY <1>0
  <2>2. conn' = conn /\ remote' = [remote EXCEPT ![p] = r]
    BY <1>2 DEF PeerUnchokes, PeerUnchokesAgain
  <2> QED
    BY <1>1, <2>1, <2>2
<1>3. ASSUME NEW p \in Peers, PeerCorrupts(p) PROVE Goal
  <2> DEFINE r == [remote[p] EXCEPT !.bad = @ + 1]
  <2>1. r \in Full(p)
    BY <1>0, <1>3 DEF PeerCorrupts
  <2>2. conn' = conn /\ remote' = [remote EXCEPT ![p] = r]
    BY <1>3 DEF PeerCorrupts
  <2> QED
    BY <1>1, <2>1, <2>2
<1>4. ASSUME NEW p \in Peers, PeerChokes(p) PROVE Goal
  <2> DEFINE r == [remote[p] EXCEPT !.choking = TRUE, !.chokes = @ + 1]
  <2>1. r \in Full(p)
    BY <1>0, <1>4 DEF PeerChokes
  <2>2. conn' = conn /\ remote' = [remote EXCEPT ![p] = r]
    BY <1>4 DEF PeerChokes
  <2> QED
    BY <1>1, <2>1, <2>2
<1>5. ASSUME NEW p \in Peers, NEW i \in Pieces, PeerGains(p, i) PROVE Goal
  <2> DEFINE r == [remote[p] EXCEPT !.has = @ \cup {i}]
  <2>1. r \in Full(p)
    BY <1>0
  <2>2. conn' = conn /\ remote' = [remote EXCEPT ![p] = r]
    BY <1>5 DEF PeerGains
  <2> QED
    BY <1>1, <2>1, <2>2
<1>6. ASSUME NEW p \in Peers, Leave(p) \/ LoopEnds(p) \/ OnBadPiece(p) PROVE Goal
  <2>1. /\ remote' = remote
        /\ conn' = [conn EXCEPT ![p] = "closed"] \/ conn' = [conn EXCEPT ![p] = "dropped"]
            \/ conn' = conn
    BY <1>0, <1>6 DEF Leave, LoopEnds, OnBadPiece
  <2> QED
    BY <1>0, <2>1
<1>7. CASE LeaveLoop
  BY <1>0, <1>7 DEF LeaveLoop
<1>8. ASSUME NEW p \in Peers,
             \/ OnBitfield(p) \/ OnUnchoked(p) \/ OnChoked(p) \/ OnDuplicate(p) \/ OnGoodPiece(p)
             \/ OnHave(p) \/ OnDisconnected(p) \/ RequestOne(p) \/ BanExpires(p)
             \/ PeerAnswers(p) \/ PeerMixesUp(p) \/ PeerIgnores(p)
      PROVE  UNCHANGED net
  BY <1>8 DEF OnBitfield, OnUnchoked, OnChoked, OnDuplicate, OnGoodPiece, OnHave, OnDisconnected,
              RequestOne, BanExpires, PeerAnswers, PeerMixesUp, PeerIgnores
<1>9. ASSUME NEW i \in Pieces, OnStale(i) PROVE UNCHANGED net
  BY <1>9 DEF OnStale
<1>10. ASSUME Finish \/ DiskWrite \/ DiskFails PROVE UNCHANGED net
  BY <1>10 DEF Finish, DiskWrite, DiskFails
<1>11. CASE UNCHANGED net
  BY <1>0, <1>11 DEF net
<1>12. CASE UNCHANGED vars
  BY <1>11, <1>12 DEF vars
<1> QED
  BY <1>2, <1>3, <1>4, <1>5, <1>6, <1>7, <1>8, <1>9, <1>10, <1>11, <1>12
     DEF Next, Coordinator, HandleEvent, PeerStep

LEMMA NextTyped ==
    Typed /\ InboxOrdered /\ [Next]_vars => Typed'
<1> SUFFICES ASSUME Typed, InboxOrdered, [Next]_vars PROVE Typed'
  OBVIOUS
<1>1. Sched!TypeOK'
  <2>1. SP!TypeOK /\ [SP!Next]_(SP!vars) => SP!TypeOK'
    BY PeersFinite, SP!NextType
  <2>2. Sched!TypeOK
    BY DEF Typed, TypeOK
  <2>3. [Sched!Next]_(Sched!vars)
    BY SchedulerStep
  <2>4. [SP!Next]_(SP!vars)
    BY <2>3, SameNext DEF SP!vars, Sched!vars
  <2>5. SP!TypeOK'
    BY <2>1, <2>2, <2>4, SameType
  <2> QED
    BY <2>5 DEF SP!TypeOK, Sched!TypeOK
<1>2. \A p \in Peers : /\ \A k \in DOMAIN out'[p] : out'[p][k].type \in {"interested", "request"}
                      /\ \A k \in DOMAIN inbox'[p] : inbox'[p][k].type \in Events
  <2>1. \A p \in Peers : out'[p] \in Seq(MessagesTo) /\ inbox'[p] \in Seq(EventsFrom)
    BY NextOutType, NextInboxType
  <2> QED
    BY <2>1, MessageTypes, EventTypes
<1>3. \A k \in DOMAIN queue' : queue'[k] \in [piece : Pieces, data : Pieces]
  <2>1. \A k \in DOMAIN queue' : queue'[k] \in Writes
    BY NextStoreType
  <2> QED
    BY <2>1 DEF Writes
<1>4. TypeOK'
  BY <1>1, <1>2, <1>3, NextBookType, NextReputationType, NextBurstType, NextStoreType, NextNetType
     DEF TypeOK
<1> QED
  BY <1>4, NextOutType, NextInboxType, NextStoreType, NextNetType DEF Typed

----------------------------------------------------------------------------
(* The order of events *)

LEMMA NextInboxOrdered ==
    Typed /\ InboxOrdered /\ [Next]_vars => InboxOrdered'
<1> SUFFICES ASSUME Typed, InboxOrdered, [Next]_vars, NEW p \in Peers
             PROVE  Ordered(p)'
  BY DEF InboxOrdered
<1>0. Ordered(p) /\ inbox[p] \in Seq(EventsFrom) /\ conn[p] \in {"up", "dropped", "closed"}
  BY DEF InboxOrdered, Typed, TypeOK
<1> USE DEF Ordered
\* Nothing that matters to p's queue changes.
<1>1. ASSUME inbox'[p] = inbox[p], p \in DOMAIN holds' <=> p \in DOMAIN holds,
             conn'[p] = "closed" <=> conn[p] = "closed"
      PROVE  Ordered(p)'
  BY <1>0, <1>1
\* p's first event is handled: what is left has no bitfield, and p is registered
\* or has nothing to say any more.
<1>2. ASSUME inbox[p] # <<>>, inbox'[p] = Tail(inbox[p]),
             p \in DOMAIN holds' <=>
                 \/ Head(inbox[p]).type = "bitfield"
                 \/ (p \in DOMAIN holds /\ Head(inbox[p]).type # "disconnected"),
             conn'[p] = "closed" <=> conn[p] = "closed"
      PROVE  Ordered(p)'
  <2>1. /\ Head(inbox[p]) = inbox[p][1] /\ Len(Tail(inbox[p])) = Len(inbox[p]) - 1
        /\ 1 \in DOMAIN inbox[p] /\ Len(inbox[p]) \in Nat
        /\ \A k \in DOMAIN Tail(inbox[p]) :
              k \in Nat /\ k + 1 \in DOMAIN inbox[p] /\ k + 1 # 1
                /\ Tail(inbox[p])[k] = inbox[p][k + 1]
    BY <1>0, <1>2, Taken
  <2>2. CASE Head(inbox[p]).type = "disconnected"
    <3>0. 1 = Len(inbox[p]) /\ conn[p] = "closed"
      BY <1>0, <2>1, <2>2
    <3>1. Len(Tail(inbox[p])) = 0 /\ conn[p] = "closed"
      BY <2>1, <3>0
    <3>2. DOMAIN Tail(inbox[p]) = {}
      BY <1>0, <1>2, <3>1, Taken
    <3> QED
      BY <1>2, <3>1, <3>2
  <2>3. CASE Head(inbox[p]).type # "disconnected"
    <3>1. conn[p] # "closed" => p \in DOMAIN holds'
      BY <1>0, <1>2, <2>1, <2>3
    <3>2. ASSUME NEW k \in DOMAIN Tail(inbox[p])
          PROVE  /\ Tail(inbox[p])[k].type # "bitfield"
                 /\ Tail(inbox[p])[k].type = "disconnected" =>
                       k = Len(Tail(inbox[p])) /\ conn[p] = "closed"
                 /\ Tail(inbox[p])[k].type # "disconnected" => p \in DOMAIN holds'
      BY <1>0, <1>2, <2>1, <2>3
    <3> QED
      BY <1>2, <3>1, <3>2
  <2> QED
    BY <2>2, <2>3
\* p says one more event, which is neither its bitfield nor its disconnection.
<1>3. ASSUME NEW e \in EventsFrom, e.type \notin {"bitfield", "disconnected"},
             conn[p] # "closed", inbox'[p] = Append(inbox[p], e),
             holds' = holds, conn' = conn
      PROVE  Ordered(p)'
  BY <1>0, <1>3, Appended
\* p's connection ends, and with it some of its events are lost.
<1>4. ASSUME NEW r \in Prefixes(inbox[p]), inbox'[p] \in {r, Append(r, Disconnected)},
             holds' = holds, conn'[p] = "closed",
             conn[p] # "closed"
      PROVE  Ordered(p)'
  <2>1. /\ r \in Seq(EventsFrom) /\ Len(r) \in Nat /\ Len(r) <= Len(inbox[p])
        /\ \A k \in DOMAIN r : k \in DOMAIN inbox[p] /\ r[k] = inbox[p][k]
    BY <1>0, <1>4, Cut
  <2>2. ASSUME NEW k \in DOMAIN r
        PROVE  /\ r[k].type = "bitfield" => k = 1 /\ p \notin DOMAIN holds
               /\ r[k].type # "disconnected"
               /\ r[k].type # "bitfield" => p \in DOMAIN holds \/ r[1].type = "bitfield"
    BY <1>0, <1>4, <2>1
  <2>3. CASE inbox'[p] = r
    BY <1>4, <2>2, <2>3
  <2>4. CASE inbox'[p] = Append(r, Disconnected)
    BY <1>4, <2>1, <2>2, <2>4, Appended, EventTypes
  <2> QED
    BY <1>4, <2>3, <2>4
<1> HIDE DEF Ordered
<1>5. ASSUME NEW q \in Peers, HandleEvent(q) PROVE Ordered(p)'
  <2>1. PICK type : Receive(q, type)
    BY <1>5 DEF HandleEvent, OnBitfield, OnUnchoked, OnChoked, OnDuplicate, OnGoodPiece,
                OnBadPiece, OnHave, OnDisconnected
  <2>2. /\ inbox[q] # <<>> /\ inbox'[q] = Tail(inbox[q])
        /\ \A o \in Peers \ {q} : inbox'[o] = inbox[o]
    BY <2>1, Received
  <2>3. conn'[p] = "closed" <=> conn[p] = "closed"
    <3>1. CASE OnBadPiece(q)
      BY <3>1 DEF OnBadPiece, Typed, TypeOK
    <3>2. CASE UNCHANGED net
      BY <3>2 DEF net
    <3>3. CASE ~OnBadPiece(q)
      BY <1>5, <3>2, <3>3 DEF HandleEvent, OnBitfield, OnUnchoked, OnChoked, OnDuplicate,
                              OnGoodPiece, OnHave, OnDisconnected
    <3> QED
      BY <3>1, <3>3
  <2>4. DOMAIN holds' = IF Head(inbox[q]).type = "bitfield" THEN DOMAIN holds \cup {q}
                        ELSE IF Head(inbox[q]).type = "disconnected" THEN DOMAIN holds \ {q}
                        ELSE DOMAIN holds
    <3>1. CASE OnBitfield(q)
      BY <3>1 DEF OnBitfield, Receive, Sched!RegisterPeer, Sched!Insert
    <3>2. CASE OnDisconnected(q)
      <4>1. holds' = Sched!Restrict(holds, Sched!Registered \ {q})
              /\ Head(inbox[q]).type = "disconnected"
        BY <3>2 DEF OnDisconnected, Receive, Sched!UnregisterPeer
      <4> QED
        BY <4>1 DEF Sched!Restrict, Sched!Registered
    <3>3. CASE OnHave(q)
      BY <3>3 DEF OnHave, Receive, Sched!PeerHasPiece
    <3>4. CASE OnGoodPiece(q) \/ OnBadPiece(q)
      BY <3>4 DEF OnGoodPiece, OnBadPiece, Receive, Sched!PieceCompleted, Sched!PieceFailed
    <3>5. CASE OnUnchoked(q) \/ OnChoked(q) \/ OnDuplicate(q)
      BY <3>5 DEF OnUnchoked, OnChoked, OnDuplicate, Receive, sched
    <3> QED
      BY <1>5, <3>1, <3>2, <3>3, <3>4, <3>5 DEF HandleEvent
  <2>5. CASE p = q
    BY <1>2, <2>2, <2>3, <2>4, <2>5
  <2>6. CASE p # q
    BY <1>1, <2>2, <2>3, <2>4, <2>6
  <2> QED
    BY <2>5, <2>6
<1>6. CASE UNCHANGED <<holds, conn>> /\ inbox'[p] = inbox[p]
  BY <1>1, <1>6
<1>7. ASSUME NEW q \in Peers, RequestOne(q) \/ BanExpires(q) \/ PeerIgnores(q) PROVE Ordered(p)'
  <2>1. UNCHANGED <<holds, conn, inbox>>
    BY <1>7 DEF RequestOne, BanExpires, PeerIgnores, sched, net, Sched!PickPiece
  <2> QED
    BY <1>6, <2>1
<1>8. ASSUME NEW i \in Pieces, OnStale(i) PROVE Ordered(p)'
  BY <1>6, <1>8 DEF OnStale, sched, net
<1>9. CASE Finish \/ DiskWrite \/ DiskFails \/ UNCHANGED vars
  <2>1. UNCHANGED <<holds, conn, inbox>>
    BY <1>9 DEF Finish, DiskWrite, DiskFails, vars, sched, net
  <2> QED
    BY <1>6, <2>1
<1>10. CASE LeaveLoop
  <2>1. inbox'[p] = <<>> /\ conn'[p] = "closed"
    BY <1>10 DEF LeaveLoop
  <2> QED
    BY <2>1 DEF Ordered
<1>11. ASSUME NEW q \in Peers, NEW e \in EventsFrom, e.type \notin {"bitfield", "disconnected"},
              Open(q), Says(q, e), UNCHANGED <<sched, conn>>
       PROVE  Ordered(p)'
  <2>1. CASE p = q
    BY <1>3, <1>11, <2>1, SaysType DEF Open, sched
  <2>2. CASE p # q
    BY <1>6, <1>11, <2>2, SaysType DEF sched
  <2> QED
    BY <2>1, <2>2
<1>12. ASSUME NEW q \in Peers, PeerUnchokes(q) \/ PeerChokes(q) \/ PeerUnchokesAgain(q) PROVE Ordered(p)'
  <2>1. Open(q) /\ UNCHANGED <<sched, conn>> /\ (Says(q, Unchoke) \/ Says(q, Choke))
    BY <1>12 DEF PeerUnchokes, PeerChokes, PeerUnchokesAgain, Takes
  <2> QED
    BY <1>11, <2>1, EventTypes
<1>13. ASSUME NEW q \in Peers, PeerAnswers(q) \/ PeerMixesUp(q) \/ PeerCorrupts(q) PROVE Ordered(p)'
  <2>1. PICK g \in Data :
          Takes(q, "request") /\ UNCHANGED <<sched, conn>> /\ Says(q, Piece(Head(out[q]).piece, g))
    BY <1>13, Replies
  <2>2. Open(q) /\ Head(out[q]).piece \in Pieces
    BY <1>13, Replies DEF Takes
  <2> QED
    BY <1>11, <2>1, <2>2, EventTypes
<1>14. ASSUME NEW q \in Peers, NEW i \in Pieces, PeerGains(q, i) PROVE Ordered(p)'
  <2>1. Open(q) /\ UNCHANGED <<sched, conn>> /\ Says(q, HaveEvent(i))
    BY <1>14 DEF PeerGains
  <2> QED
    BY <1>11, <2>1, EventTypes
<1>15. ASSUME NEW q \in Peers, Leave(q) \/ LoopEnds(q) PROVE Ordered(p)'
  <2>1. /\ conn[q] # "closed" /\ conn' = [conn EXCEPT ![q] = "closed"] /\ holds' = holds
        /\ \E r \in Prefixes(inbox[q]) :
              \/ inbox' = [inbox EXCEPT ![q] = Append(r, Disconnected)]
              \/ inbox' = [inbox EXCEPT ![q] = r]
    BY <1>15 DEF Leave, LoopEnds, Open, sched
  <2>2. /\ conn \in [Peers -> {"up", "dropped", "closed"}]
        /\ inbox \in [Peers -> Seq(EventsFrom)]
    BY DEF Typed, TypeOK
  <2>3. CASE p = q
    BY <1>4, <2>1, <2>2, <2>3
  <2>4. CASE p # q
    BY <1>1, <2>1, <2>2, <2>4
  <2> QED
    BY <2>3, <2>4
<1> QED
  BY <1>5, <1>7, <1>8, <1>9, <1>10, <1>12, <1>13, <1>14, <1>15
     DEF Next, Coordinator, PeerStep

LEMMA Ordinary == Spec => [](Typed /\ InboxOrdered)
  BY InitTyped, NextTyped, NextInboxOrdered, PTL DEF Spec

\* The tables of the coordinator, the writer's state and every queue keep
\* their types, whatever the peers say and in whatever order it is handled.
THEOREM TypeCorrect == Spec => []TypeOK
<1>1. Typed => TypeOK
  BY DEF Typed
<1> QED
  BY <1>1, Ordinary, PTL

\* The coordinator keeps the scheduler's contract: it registers a peer once per
\* connection and completes a piece at most once.
THEOREM SchedulerContract == Spec => SchedulerSpec
<1>1. Init => Sched!Init
  BY DEF Init
<1> QED
  BY <1>1, Ordinary, SchedulerStep, PTL DEF Spec, SchedulerSpec, Sched!Spec

\* So what is proved of the scheduler alone holds in every download.
THEOREM SchedulerInDownload ==
    Spec => [](Sched!RarityIsHolderCount /\ Sched!InFlightSound /\ Sched!EndgameDetected)
<1>1. SP!Spec => [](SP!RarityIsHolderCount /\ SP!InFlightSound /\ SP!EndgameDetected)
  <2>1. SP!Spec => []SP!RarityIsHolderCount
    BY PeersFinite, SP!RarityCorrect
  <2>2. SP!Spec => []SP!InFlightSound
    BY PeersFinite, SP!InFlightCorrect
  <2>3. SP!Spec => []SP!EndgameDetected
    BY PeersFinite, SP!EndgameDetection
  <2> QED
    BY <2>1, <2>2, <2>3, PTL
<1>2. SP!InFlightSound <=> Sched!InFlightSound
  BY DEF SP!InFlightSound, Sched!InFlightSound, SP!Missing, Sched!Missing,
         SP!Registered, Sched!Registered
<1>3. SP!EndgameDetected <=> Sched!EndgameDetected
  BY DEF SP!EndgameDetected, Sched!EndgameDetected, SP!Missing, Sched!Missing
<1> QED
  BY <1>1, <1>2, <1>3, SameCounts, SchedulerContract, SameSpec, PTL DEF SchedulerSpec

----------------------------------------------------------------------------
(* No table keeps a peer that has left or a piece that is done. *)

\* A registered peer stays so, with all its pieces, until its disconnection.
LEMMA StaysRegistered ==
    ASSUME Typed, InboxOrdered, [Next]_vars, NEW q \in DOMAIN holds, ~OnDisconnected(q)
    PROVE  q \in DOMAIN holds' /\ holds[q] \subseteq holds'[q]
<1>0. DOMAIN holds \subseteq Peers /\ holds \in [DOMAIN holds -> SUBSET Pieces]
  BY DEF Typed, TypeOK, Sched!TypeOK
<1>1. ASSUME NEW p \in Peers, OnBitfield(p) PROVE q \in DOMAIN holds' /\ holds[q] \subseteq holds'[q]
  <2>1. p # q
    BY <1>1, Received, EventTypes DEF OnBitfield, InboxOrdered, Ordered
  <2> QED
    BY <1>1, <2>1 DEF OnBitfield, Sched!RegisterPeer, Sched!Insert
<1>2. ASSUME NEW p \in Peers, OnDisconnected(p)
      PROVE  q \in DOMAIN holds' /\ holds[q] \subseteq holds'[q]
  BY <1>2 DEF OnDisconnected, Sched!UnregisterPeer, Sched!Restrict, Sched!Registered
<1>3. ASSUME NEW p \in Peers, OnHave(p) PROVE q \in DOMAIN holds' /\ holds[q] \subseteq holds'[q]
  BY <1>0, <1>3 DEF OnHave, Sched!PeerHasPiece, Sched!Registered
<1>4. ASSUME NEW p \in Peers, OnGoodPiece(p) \/ OnBadPiece(p) \/ RequestOne(p)
      PROVE  UNCHANGED holds
  BY <1>4 DEF OnGoodPiece, OnBadPiece, RequestOne, Sched!PieceCompleted, Sched!PieceFailed,
              Sched!PickPiece, sched
<1>5. ASSUME NEW p \in Peers, OnUnchoked(p) \/ OnChoked(p) \/ OnDuplicate(p) \/ BanExpires(p)
      PROVE  UNCHANGED holds
  BY <1>5 DEF OnUnchoked, OnChoked, OnDuplicate, BanExpires, sched
<1>6. ASSUME NEW i \in Pieces, OnStale(i) PROVE UNCHANGED holds
  BY <1>6 DEF OnStale, sched
<1> QED
  BY <1>1, <1>2, <1>3, <1>4, <1>5, <1>6, OthersKeepTables DEF HandleEvent, sched

LEMMA NextTables ==
    Typed /\ InboxOrdered /\ TablesSound /\ [Next]_vars => TablesSound'
<1> SUFFICES ASSUME Typed, InboxOrdered, TablesSound, [Next]_vars
             PROVE  TablesSound'
  OBVIOUS
<1> USE DEF TablesSound, Sched!Registered, Missing, Sched!Missing
<1>1. ASSUME NEW q \in unchoked' PROVE q \in DOMAIN holds'
  <2>1. CASE q \in unchoked
    <3>1. ~OnDisconnected(q)
      BY <1>1 DEF OnDisconnected
    <3> QED
      BY <2>1, <3>1, StaysRegistered
  <2>2. CASE q \notin unchoked
    <3>1. q \in Peers /\ OnUnchoked(q)
      <4>1. ASSUME NEW p \in Peers, ~OnUnchoked(p), HandleEvent(p) \/ RequestOne(p) \/ BanExpires(p)
            PROVE  unchoked' \subseteq unchoked
        BY <4>1 DEF HandleEvent, OnBitfield, OnChoked, OnDuplicate, OnGoodPiece, OnBadPiece, OnHave,
                    OnDisconnected, RequestOne, BanExpires, book
      <4>2. ASSUME NEW i \in Pieces, OnStale(i) PROVE unchoked' = unchoked
        BY <4>2 DEF OnStale
      <4>3. ASSUME NEW p \in Peers, OnUnchoked(p) PROVE unchoked' = unchoked \cup {p}
        BY <4>3 DEF OnUnchoked
      <4> QED
        BY <1>1, <2>2, <4>1, <4>2, <4>3, OthersKeepTables DEF book
    <3>2. inbox[q][1].type = "unchoke" /\ 1 \in DOMAIN inbox[q] /\ holds' = holds
      BY <3>1, Received DEF OnUnchoked, sched
    <3> QED
      BY <3>1, <3>2 DEF InboxOrdered, Ordered
  <2> QED
    BY <2>1, <2>2
<1>2. ASSUME NEW i \in DOMAIN stamps', i \in DOMAIN stamps, stamps'[i] = stamps[i]
      PROVE  i \in Pieces \ have' /\ stamps'[i] \in DOMAIN holds' /\ i \in holds'[stamps'[i]]
  <2>1. ~OnDisconnected(stamps[i])
    BY <1>2 DEF OnDisconnected, Restrict
  <2>2. i \notin have'
    <3>1. ASSUME NEW p \in Peers, OnGoodPiece(p) PROVE i \notin have'
      BY <1>2, <3>1 DEF OnGoodPiece, Sched!PieceCompleted, Restrict
    <3>2. ASSUME NEW p \in Peers, ~OnGoodPiece(p), HandleEvent(p) \/ RequestOne(p) \/ BanExpires(p)
          PROVE have' = have
      BY <3>2 DEF HandleEvent, OnBitfield, OnUnchoked, OnChoked, OnDuplicate, OnBadPiece, OnHave,
           OnDisconnected, RequestOne, BanExpires, sched, Sched!RegisterPeer, Sched!PieceFailed,
           Sched!PeerHasPiece, Sched!UnregisterPeer, Sched!PickPiece
    <3>3. ASSUME NEW j \in Pieces, OnStale(j) PROVE have' = have
      BY <3>3 DEF OnStale, sched
    <3> QED
      BY <1>2, <3>1, <3>2, <3>3, OthersKeepTables DEF sched
  <2> QED
    BY <1>2, <2>1, <2>2, StaysRegistered
<1>3. ASSUME NEW i \in DOMAIN stamps', ~(i \in DOMAIN stamps /\ stamps'[i] = stamps[i])
      PROVE  i \in Pieces \ have' /\ stamps'[i] \in DOMAIN holds' /\ i \in holds'[stamps'[i]]
  <2>1. ASSUME NEW p \in Peers, RequestOne(p)
        PROVE  i \in Pieces \ have' /\ stamps'[i] \in DOMAIN holds' /\ i \in holds'[stamps'[i]]
    <3>1. PICK j \in Pieces : Sched!PickPiece(p, j) /\ stamps' = Sched!Insert(stamps, j, p)
      BY <1>3, <2>1 DEF RequestOne, Insert
    <3>2. /\ j \in Pieces \ have /\ p \in DOMAIN holds /\ j \in holds[p]
          /\ have' = have /\ holds' = holds
      BY <3>1 DEF Sched!PickPiece, Sched!Rarest, Sched!Candidates
    <3> QED
      BY <1>3, <3>1, <3>2 DEF Sched!Insert
  <2>2. ASSUME NEW j \in Pieces, OnStale(j)
        PROVE  i \in Pieces \ have' /\ stamps'[i] \in DOMAIN holds' /\ i \in holds'[stamps'[i]]
    <3>1. /\ have' = have /\ holds' = holds /\ j \in DOMAIN stamps
          /\ \/ \E q \in Sched!Holders(j) : stamps' = Sched!Insert(stamps, j, q)
             \/ stamps' = Restrict(stamps, DOMAIN stamps \ {j})
      BY <2>2 DEF OnStale, Insert, sched
    <3>2. PICK q \in Sched!Holders(j) : stamps' = Sched!Insert(stamps, j, q)
      BY <1>3, <3>1 DEF Restrict
    <3>3. q \in DOMAIN holds /\ j \in holds[q]
      BY DEF Sched!Holders
    <3> QED
      BY <1>3, <3>1, <3>2, <3>3 DEF Sched!Insert
  <2>3. ASSUME NEW p \in Peers, HandleEvent(p) \/ BanExpires(p)
        PROVE  \E S \in SUBSET DOMAIN stamps : stamps' = [j \in S |-> stamps[j]] \/ stamps' = stamps
    BY <2>3 DEF HandleEvent, OnBitfield, OnUnchoked, OnChoked, OnDuplicate, OnGoodPiece, OnBadPiece,
                OnHave, OnDisconnected, BanExpires, Restrict, book
  <2>4. ASSUME stamps' = stamps PROVE FALSE
    BY <1>3, <2>4
  <2> QED
    BY <1>3, <2>1, <2>2, <2>3, <2>4, OthersKeepTables DEF book
<1> QED
  BY <1>1, <1>2, <1>3

\* The unchoked peers are registered, and a request the stale check may renew is
\* for a missing piece, of a registered holder.
THEOREM TablesCorrect == Spec => []TablesSound
<1>1. Init => TablesSound
  BY DEF Init, TablesSound
<1> QED
  BY <1>1, Ordinary, NextTables, PTL DEF Spec

----------------------------------------------------------------------------
(* What reaches the file *)

\* What p says of a piece: its bytes, damaged ones, or those of a piece it mixes it up with.
SaysOf(p) ==
    {e \in EventsFrom : e.type = "piece" =>
        e.data \in {e.piece, Damaged} \/ <<p, e.piece, e.data>> \in MixUps}

SaidAsMeant == \A p \in Peers : inbox[p] \in Seq(SaysOf(p))

LEMMA SaysOfType ==
    ASSUME NEW p \in Peers
    PROVE  /\ SaysOf(p) \subseteq EventsFrom
           /\ {Unchoke, Choke, Disconnected} \subseteq SaysOf(p)
           /\ \A S \in SUBSET Pieces : Bitfield(S) \in SaysOf(p)
           /\ \A i \in Pieces : HaveEvent(i) \in SaysOf(p)
           /\ \A i \in Pieces : Piece(i, i) \in SaysOf(p) /\ Piece(i, Damaged) \in SaysOf(p)
           /\ \A i, j \in Pieces : <<p, i, j>> \in MixUps => Piece(i, j) \in SaysOf(p)
<1>1. \A i \in Pieces : i \in Data
  BY DEF Data
<1>2. Damaged \in Data
  BY DEF Data
<1> QED
  BY <1>1, <1>2, EventTypes DEF SaysOf

LEMMA NextSaid ==
    Typed /\ SaidAsMeant /\ [Next]_vars => SaidAsMeant'
<1> SUFFICES ASSUME Typed, SaidAsMeant, [Next]_vars, NEW p \in Peers
             PROVE  inbox'[p] \in Seq(SaysOf(p))
  BY DEF SaidAsMeant
<1>0. inbox[p] \in Seq(SaysOf(p)) /\ inbox \in [Peers -> Seq(EventsFrom)]
  BY DEF Typed, SaidAsMeant
<1>1. ASSUME NEW q \in Peers, NEW type, Receive(q, type)
      PROVE  inbox'[p] \in Seq(SaysOf(p))
  BY <1>0, <1>1, Taken DEF Receive
<1>2. ASSUME NEW q \in Peers, NEW e \in SaysOf(q), Says(q, e)
      PROVE  inbox'[p] \in Seq(SaysOf(p))
  <2>1. e \in EventsFrom
    BY SaysOfType
  <2>2. CASE q = p
    <3>1. inbox'[p] = Append(inbox[p], e)
      BY <1>2, <2>1, <2>2, SaysType
    <3> QED
      BY <1>0, <2>2, <3>1, Appended
  <2>3. CASE q # p
    <3>1. inbox'[p] = inbox[p]
      BY <1>2, <2>1, <2>3, SaysType
    <3> QED
      BY <1>0, <3>1
  <2> QED
    BY <2>2, <2>3
<1>3. ASSUME NEW q \in Peers, HandleEvent(q) PROVE \E type : Receive(q, type)
  BY <1>3 DEF HandleEvent, OnBitfield, OnUnchoked, OnChoked, OnDuplicate, OnGoodPiece,
              OnBadPiece, OnHave, OnDisconnected
<1>4. ASSUME NEW q \in Peers,
             PeerUnchokes(q) \/ PeerChokes(q) \/ PeerUnchokesAgain(q)
      PROVE  \E e \in SaysOf(q) : Says(q, e)
  BY <1>4, SaysOfType DEF PeerUnchokes, PeerChokes, PeerUnchokesAgain
<1>5. ASSUME NEW q \in Peers, PeerAnswers(q) \/ PeerMixesUp(q) \/ PeerCorrupts(q)
      PROVE  \E e \in SaysOf(q) : Says(q, e)
  <2>1. Takes(q, "request")
    BY <1>5 DEF PeerAnswers, PeerMixesUp, PeerCorrupts
  <2>2. Head(out[q]) \in MessagesTo /\ Head(out[q]).type = "request"
    BY <2>1, Taken DEF Takes, Typed
  <2>3. Head(out[q]).piece \in Pieces
    BY <2>2, MessageTypes
  <2>4. CASE PeerMixesUp(q)
    <3>1. PICK j \in remote[q].has : /\ <<q, Head(out[q]).piece, j>> \in MixUps
                                    /\ Says(q, Piece(Head(out[q]).piece, j))
      BY <2>4 DEF PeerMixesUp
    <3>2. j \in Pieces
      BY <3>1, ConstantsAssumption
    <3> QED
      BY <2>3, <3>1, <3>2, SaysOfType
  <2> QED
    BY <1>5, <2>3, <2>4, SaysOfType DEF PeerAnswers, PeerCorrupts
<1>6. ASSUME NEW q \in Peers, NEW i \in Pieces, PeerGains(q, i)
      PROVE  \E e \in SaysOf(q) : Says(q, e)
  BY <1>6, SaysOfType DEF PeerGains
<1>7. ASSUME NEW q \in Peers, Leave(q) PROVE inbox'[p] \in Seq(SaysOf(p))
  <2>1. PICK read \in Prefixes(inbox[q]) : inbox' = [inbox EXCEPT ![q] = Append(read, Disconnected)]
    BY <1>7 DEF Leave
  <2> QED
    BY <1>0, <2>1, Cut, Appended, SaysOfType
<1>8. ASSUME NEW q \in Peers, LoopEnds(q) PROVE inbox'[p] \in Seq(SaysOf(p))
  BY <1>0, <1>8, Cut DEF LoopEnds
<1>9. CASE LeaveLoop
  BY <1>9 DEF LeaveLoop
<1>10. CASE UNCHANGED inbox
  BY <1>0, <1>10
<1>11. ASSUME NEW q \in Peers, RequestOne(q) \/ BanExpires(q) \/ PeerIgnores(q)
       PROVE  UNCHANGED inbox
  BY <1>11 DEF RequestOne, BanExpires, PeerIgnores
<1>12. ASSUME NEW i \in Pieces, OnStale(i) PROVE UNCHANGED inbox
  BY <1>12 DEF OnStale
<1>13. CASE Finish \/ DiskWrite \/ DiskFails \/ UNCHANGED vars
  BY <1>10, <1>13 DEF Finish, DiskWrite, DiskFails, vars
<1> QED
  BY <1>1, <1>2, <1>3, <1>4, <1>5, <1>6, <1>7, <1>8, <1>9, <1>10, <1>11, <1>12, <1>13
     DEF Next, Coordinator, PeerStep

LEMMA InitSaid == Init => SaidAsMeant
<1> SUFFICES ASSUME Init, NEW p \in Peers PROVE inbox[p] \in Seq(SaysOf(p))
  BY DEF SaidAsMeant
<1>1. Bitfield(Content[p]) \in SaysOf(p)
  BY SaysOfType, ConstantsAssumption
<1> QED
  BY <1>1 DEF Init

\* WrittenOnce with what makes it inductive: only accepted pieces are queued or
\* written, with bytes that pass for theirs; while the writer lives nothing accepted
\* is missing from both; and the loop is left with every piece accepted.
StoreSound ==
    /\ \A j, k \in DOMAIN queue : j # k => queue[j].piece # queue[k].piece
    /\ \A k \in DOMAIN queue :
          /\ PassesFor(queue[k].piece, queue[k].data)
          /\ queue[k].piece \in have /\ queue[k].piece \notin DOMAIN disk
    /\ \A i \in DOMAIN disk : PassesFor(i, disk[i]) /\ i \in have
    /\ writer = "ok" =>
          \A i \in have : i \in DOMAIN disk \/ \E k \in DOMAIN queue : queue[k].piece = i
    /\ phase # "running" => Pieces \subseteq have
    /\ phase \in {"ok", "failed"} => queue = <<>>

\* Only a good piece changes what we have.
LEMMA HaveStep ==
    ASSUME [Next]_vars, ~(\E p \in Peers : OnGoodPiece(p))
    PROVE  have' = have
<1>1. ASSUME NEW p \in Peers, ~OnGoodPiece(p), HandleEvent(p) \/ RequestOne(p) \/ BanExpires(p)
      PROVE  have' = have
  BY <1>1 DEF HandleEvent, OnBitfield, OnUnchoked, OnChoked, OnDuplicate, OnBadPiece, OnHave,
              OnDisconnected, RequestOne, BanExpires, sched, Sched!RegisterPeer, Sched!PieceFailed,
              Sched!PeerHasPiece, Sched!UnregisterPeer, Sched!PickPiece
<1>2. ASSUME NEW i \in Pieces, OnStale(i) PROVE have' = have
  BY <1>2 DEF OnStale, sched
<1> QED
  BY <1>1, <1>2, OthersKeepTables DEF sched

\* The writer and the phase change in five steps only.
LEMMA StoreStep ==
    ASSUME [Next]_vars, ~(\E p \in Peers : OnGoodPiece(p)),
           ~(LeaveLoop \/ Finish \/ DiskWrite \/ DiskFails)
    PROVE  UNCHANGED <<phase, queue, disk, writer>>
<1>1. ASSUME NEW p \in Peers, ~OnGoodPiece(p),
             HandleEvent(p) \/ RequestOne(p) \/ BanExpires(p) \/ PeerStep(p)
      PROVE  UNCHANGED <<phase, store>>
  BY <1>1 DEF HandleEvent, OnBitfield, OnUnchoked, OnChoked, OnDuplicate, OnBadPiece, OnHave,
              OnDisconnected, RequestOne, BanExpires, PeerStep, PeerUnchokes, PeerAnswers, PeerMixesUp,
              PeerCorrupts, PeerIgnores, PeerChokes, PeerUnchokesAgain, PeerGains, Leave, LoopEnds
<1>2. ASSUME NEW i \in Pieces, OnStale(i) PROVE UNCHANGED <<phase, store>>
  BY <1>2 DEF OnStale
<1> QED
  BY <1>1, <1>2 DEF Next, Coordinator, vars, store

LEMMA NextStoreSound ==
    Typed /\ SaidAsMeant /\ StoreSound /\ [Next]_vars => StoreSound'
<1> SUFFICES ASSUME Typed, SaidAsMeant, StoreSound, [Next]_vars PROVE StoreSound'
  OBVIOUS
<1>0. queue \in Seq(Writes) /\ have \subseteq Pieces
  BY DEF Typed, TypeOK, Sched!TypeOK
<1> USE DEF StoreSound
<1>1. ASSUME NEW p \in Peers, OnGoodPiece(p) PROVE StoreSound'
  <2> DEFINE i == Head(inbox[p]).piece
             w == [piece |-> i, data |-> Head(inbox[p]).data]
  <2>1. /\ Head(inbox[p]).type = "piece" /\ Head(inbox[p]) \in EventsFrom
        /\ Head(inbox[p]).data # Damaged /\ i \notin have /\ phase = "running"
    BY <1>1, Received DEF OnGoodPiece, Verifies, Receive, Handling, AtLoopTop
  <2>2. w \in Writes /\ w.piece = i /\ PassesFor(i, w.data)
    <3>1. w \in Writes /\ w.piece = i /\ w.data = Head(inbox[p]).data
      BY <2>1, EventTypes DEF Writes, Data
    <3>2. Head(inbox[p]) \in SaysOf(p)
      BY <1>1, Taken DEF OnGoodPiece, Receive, SaidAsMeant
    <3> QED
      BY <2>1, <3>1, <3>2 DEF SaysOf, PassesFor
  <2>3. /\ have' = have \cup {i} /\ disk' = disk /\ writer' = writer /\ phase' = phase
        /\ queue' = IF writer = "ok" THEN Append(queue, w) ELSE queue
    BY <1>1 DEF OnGoodPiece, Sched!PieceCompleted
  <2> HIDE DEF w, i
  <2>4. CASE writer = "ok"
    <3>1. /\ \A k \in DOMAIN queue : k \in DOMAIN queue' /\ queue'[k] = queue[k]
          /\ \A k \in DOMAIN queue' :
                k \in DOMAIN queue \/ (k = Len(queue) + 1 /\ queue'[k] = w)
          /\ Len(queue) + 1 \in DOMAIN queue' /\ queue'[Len(queue) + 1] = w
      BY <1>0, <2>2, <2>3, <2>4, Appended
    <3> QED
      BY <2>1, <2>2, <2>3, <2>4, <3>1
  <2>5. CASE writer # "ok"
    BY <2>1, <2>3, <2>5
  <2> QED
    BY <2>4, <2>5
<1>2. CASE DiskWrite
  <2> DEFINE w == Head(queue)
  <2>1. /\ w = queue[1] /\ 1 \in DOMAIN queue
        /\ \A k \in DOMAIN queue' : k \in Nat /\ k + 1 \in DOMAIN queue /\ k + 1 # 1
                                  /\ queue'[k] = queue[k + 1]
        /\ \A k \in DOMAIN queue : k # 1 => k - 1 \in DOMAIN queue' /\ queue[k] = queue'[k - 1]
    BY <1>0, <1>2, Taken DEF DiskWrite
  <2>2. /\ DOMAIN disk' = DOMAIN disk \cup {w.piece}
        /\ \A i \in DOMAIN disk' : disk'[i] = IF i = w.piece THEN w.data ELSE disk[i]
        /\ writer' = writer /\ phase' = phase /\ have' = have /\ queue # <<>>
    BY <1>2 DEF DiskWrite, Insert, Sched!Insert, sched
  <2> HIDE DEF w
  <2>3. \A j, k \in DOMAIN queue' : j # k => queue'[j].piece # queue'[k].piece
    BY <2>1
  <2>4. \A k \in DOMAIN queue' : queue'[k].piece # w.piece
    BY <2>1
  <2>5. \A i \in have : i \in DOMAIN disk \/ (\E k \in DOMAIN queue : queue[k].piece = i) =>
                      i \in DOMAIN disk' \/ \E k \in DOMAIN queue' : queue'[k].piece = i
    BY <2>1, <2>2
  <2> QED
    BY <2>1, <2>2, <2>3, <2>4, <2>5
<1>3. CASE LeaveLoop \/ Finish \/ DiskFails
  <2>1. have' = have /\ disk' = disk
    BY <1>3 DEF LeaveLoop, Finish, DiskFails, sched, store
  <2>2. CASE LeaveLoop
    BY <2>1, <2>2 DEF LeaveLoop, store, Sched!IsComplete, Sched!Missing
  <2>3. CASE Finish
    BY <2>1, <2>3 DEF Finish, store
  <2>4. CASE DiskFails
    BY <2>1, <2>4 DEF DiskFails
  <2> QED
    BY <1>3, <2>2, <2>3, <2>4
<1>4. CASE UNCHANGED <<have, phase, queue, disk, writer>>
  BY <1>4
<1> QED
  BY <1>1, <1>2, <1>3, <1>4, HaveStep, StoreStep

LEMMA StoreAlways == Spec => []StoreSound
<1>1. Init => StoreSound
  BY DEF Init, StoreSound, Sched!Init
<1> QED
  BY <1>1, Ordinary, InitSaid, NextSaid, NextStoreSound, PTL DEF Spec

\* Each piece is handed to the writer once, however often it is delivered.
THEOREM WrittenOnceCorrect == Spec => []WrittenOnce
<1>1. StoreSound => WrittenOnce
  BY DEF StoreSound, WrittenOnce
<1> QED
  BY <1>1, StoreAlways, PTL

\* The download implements its abstract specification: each of its steps is an
\* acceptance, a write, the verdict, or invisible to the caller.
LEMMA DeliveryStep ==
    Typed /\ StoreSound /\ [Next]_vars => [Delivers!Next]_(Delivers!vars)
<1> SUFFICES ASSUME Typed, StoreSound, [Next]_vars
             PROVE  Delivers!Next \/ UNCHANGED Delivers!vars
  OBVIOUS
<1> USE DEF StoreSound, Delivers!vars, Delivers!Next
<1>0. /\ have \subseteq Pieces /\ queue \in Seq(Writes)
      /\ phase \in {"running", "closing", "ok", "failed"} /\ writer \in {"ok", "failed"}
  BY DEF Typed, TypeOK, Sched!TypeOK
<1>1. ASSUME NEW p \in Peers, OnGoodPiece(p) PROVE Delivers!Next
  <2> DEFINE i == Head(inbox[p]).piece
  <2>1. /\ i \in Pieces \ have /\ have' = have \cup {i} /\ disk' = disk
        /\ phase = "running" /\ phase' = phase
    BY <1>1, Received, EventTypes
       DEF OnGoodPiece, Receive, Handling, AtLoopTop, Sched!PieceCompleted
  <2> QED
    BY <2>1 DEF Delivers!Accept
<1>2. CASE DiskWrite
  <2> DEFINE i == Head(queue).piece
  <2>1. /\ i \in have /\ i \notin DOMAIN disk /\ PassesFor(i, Head(queue).data) /\ queue # <<>>
    BY <1>0, <1>2, Taken DEF DiskWrite
  <2>2. /\ DOMAIN disk' = DOMAIN disk \cup {i}
        /\ \A j \in DOMAIN disk' : disk'[j] = IF j = i THEN Head(queue).data ELSE disk[j]
        /\ phase' = phase /\ have' = have
    BY <1>2 DEF DiskWrite, Insert, Sched!Insert, sched
  <2>3. {j \in DOMAIN disk' : PassesFor(j, disk'[j])} = {j \in DOMAIN disk : PassesFor(j, disk[j])} \cup {i}
    BY <2>1, <2>2
  <2>4. phase \notin {"ok", "failed"}
    BY <2>1
  <2>5. {i} \in SUBSET have
    BY <2>1
  <2>6. \E S \in SUBSET have : Delivers!Store(S)
    BY <2>2, <2>3, <2>4, <2>5 DEF Delivers!Store
  <2> QED
    BY <2>6
<1>3. CASE Finish
  <2>1. /\ have' = have /\ disk' = disk /\ phase = "closing" /\ queue = <<>>
        /\ phase' = IF writer = "ok" THEN "ok" ELSE "failed"
    BY <1>3 DEF Finish, sched, store
  <2>2. writer = "ok" => {i \in DOMAIN disk : PassesFor(i, disk[i])} = Pieces
    BY <1>0, <2>1
  <2> QED
    BY <1>0, <2>1, <2>2 DEF Delivers!Succeed, Delivers!Fail
<1>4. CASE LeaveLoop \/ DiskFails
  <2>1. have' = have /\ disk' = disk
    BY <1>4 DEF LeaveLoop, DiskFails, sched, store
  <2>2. \/ phase' = phase
        \/ phase = "running" /\ phase' = "closing"
    BY <1>4 DEF LeaveLoop, DiskFails, AtLoopTop
  <2> QED
    BY <2>1, <2>2
<1>5. CASE UNCHANGED <<have, phase, disk>>
  BY <1>5
<1> QED
  BY <1>1, <1>2, <1>3, <1>4, <1>5, HaveStep, StoreStep

\* Only bytes that verified are stored, under another index only where a peer mixed two
\* pieces up, and `Ok` means that every piece is there.
THEOREM DeliveryCorrect == Spec => DeliverySpec
<1>1. Init => Delivers!Init
  BY DEF Init, Sched!Init, Delivers!Init
<1> QED
  BY <1>1, Ordinary, StoreAlways, DeliveryStep, PTL DEF Spec, DeliverySpec, Delivers!Spec

\* As long as no peer mixes pieces up, every byte in the file is where it belongs: what
\* the Merkle check promises although it does not look at the index.
THEOREM RightBytes ==
    ASSUME MixUps = {}
    PROVE  Spec => [](\A i \in DOMAIN disk : disk[i] = i)
<1>1. StoreSound => \A i \in DOMAIN disk : disk[i] = i
  BY DEF StoreSound, PassesFor
<1> QED
  BY <1>1, StoreAlways, PTL

----------------------------------------------------------------------------
(* Bans *)

\* A ban cuts the channel of the peer in the handler that imposes it, and finds
\* no call of request_pieces in progress.
BansCut == \A p \in Peers : ban[p] # "none" => conn[p] # "up" /\ burst[p] = 0

\* A connection that is over, or that we have dropped, stays so.
LEMMA NeverUpAgain ==
    ASSUME Typed, [Next]_vars, NEW p \in Peers
    PROVE  conn[p] # "up" => conn'[p] # "up"
<1>0. conn \in [Peers -> {"up", "dropped", "closed"}]
  BY DEF Typed, TypeOK
<1>1. ASSUME NEW q \in Peers, Leave(q) \/ LoopEnds(q) \/ OnBadPiece(q)
      PROVE  conn[p] # "up" => conn'[p] # "up"
  BY <1>0, <1>1 DEF Leave, LoopEnds, OnBadPiece
<1>2. CASE LeaveLoop
  BY <1>2 DEF LeaveLoop
<1>3. ASSUME NEW q \in Peers,
             \/ OnBitfield(q) \/ OnUnchoked(q) \/ OnChoked(q) \/ OnDuplicate(q) \/ OnGoodPiece(q)
             \/ OnHave(q) \/ OnDisconnected(q) \/ RequestOne(q) \/ BanExpires(q)
      PROVE  UNCHANGED conn
  BY <1>3 DEF OnBitfield, OnUnchoked, OnChoked, OnDuplicate, OnGoodPiece, OnHave, OnDisconnected,
              RequestOne, BanExpires, net
<1>4. ASSUME NEW q \in Peers, PeerStep(q), ~(Leave(q) \/ LoopEnds(q)) PROVE UNCHANGED conn
  BY <1>4 DEF PeerStep, PeerUnchokes, PeerAnswers, PeerMixesUp, PeerCorrupts, PeerIgnores, PeerChokes,
              PeerUnchokesAgain, PeerGains, net
<1>5. ASSUME NEW i \in Pieces, OnStale(i) PROVE UNCHANGED conn
  BY <1>5 DEF OnStale, net
<1>6. CASE Finish \/ DiskWrite \/ DiskFails
  BY <1>6 DEF Finish, DiskWrite, DiskFails, net
<1>7. CASE UNCHANGED conn
  BY <1>7
<1>8. CASE UNCHANGED vars
  BY <1>7, <1>8 DEF vars, net
<1> QED
  BY <1>1, <1>2, <1>3, <1>4, <1>5, <1>6, <1>7, <1>8 DEF Next, Coordinator, HandleEvent

LEMMA NextBansCut ==
    Typed /\ BansCut /\ [Next]_vars => BansCut'
<1> SUFFICES ASSUME Typed, BansCut, [Next]_vars, NEW p \in Peers, ban'[p] # "none"
             PROVE  conn'[p] # "up" /\ burst'[p] = 0
  BY DEF BansCut
<1>0. /\ conn \in [Peers -> {"up", "dropped", "closed"}] /\ burst \in [Peers -> Nat]
      /\ strikes \in [Peers -> Nat] /\ ban \in [Peers -> {"none", "temp", "session"}]
      /\ ban[p] # "none" => conn[p] # "up" /\ burst[p] = 0
  BY DEF Typed, TypeOK, BansCut
<1>1. conn[p] # "up" => conn'[p] # "up"
  BY NeverUpAgain
<1>2. ASSUME NEW q \in Peers, HandleEvent(q) PROVE burst'[p] = 0
  <2>1. burst[p] = 0
    BY <1>2 DEF HandleEvent, OnBitfield, OnUnchoked, OnChoked, OnDuplicate, OnGoodPiece,
                OnBadPiece, OnHave, OnDisconnected, Receive, Handling, AtLoopTop
  <2>2. RequestPieces(q) \/ UNCHANGED burst
    BY <1>2 DEF HandleEvent, OnBitfield, OnUnchoked, OnChoked, OnDuplicate, OnGoodPiece,
                OnBadPiece, OnHave, OnDisconnected
  <2>3. burst'[p] # burst[p] => ban'[p] = "none"
    BY <2>2, RequestPiecesType, NextReputationType
  <2> QED
    BY <2>1, <2>3
<1>3. ASSUME NEW q \in Peers, OnBadPiece(q) PROVE conn'[p] # "up" /\ burst'[p] = 0
  <2>1. burst'[p] = 0
    BY <1>2, <1>3 DEF HandleEvent
  <2>2. CASE p = q
    <3>1. /\ ban'[p] = BanAfter(p, strikes[p] + 1)
          /\ conn' = [conn EXCEPT ![p] =
                        IF BanAfter(p, strikes[p] + 1) # "none" /\ @ = "up" THEN "dropped" ELSE @]
      BY <1>0, <1>3, <2>2 DEF OnBadPiece
    <3> QED
      BY <1>0, <2>1, <3>1
  <2>3. CASE p # q
    <3>1. ban'[p] = ban[p]
      BY <1>0, <1>3, <2>3 DEF OnBadPiece
    <3> QED
      BY <1>0, <1>1, <2>1, <3>1
  <2> QED
    BY <2>2, <2>3
<1>4. ASSUME NEW q \in Peers, HandleEvent(q), ~OnBadPiece(q) PROVE conn'[p] # "up" /\ burst'[p] = 0
  <2>1. ban'[p] # "none" => ban[p] # "none"
    <3>1. CASE OnDisconnected(q)
      BY <1>0, <3>1 DEF OnDisconnected
    <3>2. CASE UNCHANGED reputation
      BY <3>2 DEF reputation
    <3>3. CASE ~OnDisconnected(q)
      BY <1>4, <3>2, <3>3 DEF HandleEvent, OnBitfield, OnUnchoked, OnChoked, OnDuplicate,
                              OnGoodPiece, OnHave
    <3> QED
      BY <3>1, <3>3
  <2> QED
    BY <1>0, <1>1, <1>2, <1>4, <2>1
<1>5. ASSUME NEW q \in Peers, RequestOne(q) PROVE conn'[p] # "up" /\ burst'[p] = 0
  <2>1. /\ ban' = ban /\ conn' = conn /\ burst[q] > 0
        /\ burst' = [burst EXCEPT ![q] = @ - 1] \/ burst' = [burst EXCEPT ![q] = 0]
    BY <1>5 DEF RequestOne, reputation, net
  <2> QED
    BY <1>0, <2>1
<1>6. ASSUME NEW q \in Peers, BanExpires(q) PROVE conn'[p] # "up" /\ burst'[p] = 0
  BY <1>0, <1>6 DEF BanExpires, net
<1>7. ASSUME NEW i \in Pieces, OnStale(i) PROVE UNCHANGED <<reputation, burst>>
  BY <1>7 DEF OnStale
<1>8. CASE UNCHANGED <<reputation, burst>>
  BY <1>0, <1>1, <1>8 DEF reputation
<1> QED
  BY <1>3, <1>4, <1>5, <1>6, <1>7, <1>8, OthersKeepTables

LEMMA BansAlways == Spec => []BansCut
<1>1. Init => BansCut
  BY DEF Init, BansCut
<1> QED
  BY <1>1, Ordinary, NextBansCut, PTL DEF Spec

\* Nothing more is sent to a banned peer, whichever of the three places that
\* request pieces runs, and although the peer may unchoke us again.
THEOREM NoRequestWhileBannedCorrect == Spec => NoRequestWhileBanned
<1>1. Typed /\ BansCut /\ [Next]_vars
        => [\A p \in Peers : Banned(p) => Len(out'[p]) <= Len(out[p])]_vars
  <2> SUFFICES ASSUME Typed, BansCut, [Next]_vars, NEW p \in Peers, ban[p] # "none"
               PROVE  Len(out'[p]) <= Len(out[p])
    BY DEF Banned
  <2>0. /\ conn[p] # "up" /\ burst[p] = 0 /\ out \in [Peers -> Seq(MessagesTo)]
        /\ out[p] \in Seq(MessagesTo) /\ Len(out[p]) \in Nat /\ Sched!TypeOK
    BY DEF Typed, TypeOK, BansCut
  <2>1. ASSUME NEW q \in Peers, NEW msgs PROVE Sent(q, msgs)[p] = out[p]
    BY <2>0 DEF Sent, Reaches
  <2>2. ASSUME NEW q \in Peers, OnBitfield(q) \/ RequestOne(q) PROVE out'[p] = out[p]
    BY <2>1, <2>2 DEF OnBitfield, RequestOne
  <2>3. ASSUME NEW q \in Peers, OnGoodPiece(q) PROVE out'[p] = out[p]
    BY <2>0, <2>3 DEF OnGoodPiece, EndgameBroadcast, Reaches
  <2>4. ASSUME NEW i \in Pieces, OnStale(i) PROVE out'[p] = out[p]
    <3>1. \A q \in Sched!Holders(i) : q \in Peers
      BY <2>0 DEF Sched!Holders, Sched!Registered, Sched!TypeOK
    <3> QED
      BY <2>1, <2>4, <3>1 DEF OnStale
  <2>5. ASSUME NEW q \in Peers, NEW type, Takes(q, type) PROVE Len(out'[p]) <= Len(out[p])
    <3>1. out' = [out EXCEPT ![q] = Tail(@)] /\ out[q] # <<>>
      BY <2>5 DEF Takes
    <3> QED
      BY <2>0, <3>1
  <2>6. ASSUME out'[p] = <<>> PROVE Len(out'[p]) <= Len(out[p])
    BY <2>0, <2>6
  <2>7. ASSUME NEW q \in Peers, Leave(q) \/ LoopEnds(q) PROVE out'[p] \in {<<>>, out[p]}
    <3>1. out' = [out EXCEPT ![q] = <<>>]
      BY <2>7 DEF Leave, LoopEnds
    <3> QED
      BY <2>0, <3>1
  <2>8. CASE LeaveLoop
    BY <2>6, <2>8 DEF LeaveLoop
  <2>9. ASSUME NEW q \in Peers,
               OnUnchoked(q) \/ OnChoked(q) \/ OnDuplicate(q) \/ OnBadPiece(q) \/ OnHave(q)
                 \/ OnDisconnected(q) \/ PeerChokes(q) \/ PeerUnchokesAgain(q) \/ BanExpires(q)
        PROVE  out' = out
    BY <2>9 DEF OnUnchoked, OnChoked, OnDuplicate, OnBadPiece, OnHave, OnDisconnected,
                PeerChokes, PeerUnchokesAgain, BanExpires
  <2>10. ASSUME NEW q \in Peers, NEW i \in Pieces, PeerGains(q, i) PROVE out' = out
    BY <2>10 DEF PeerGains
  <2>11. ASSUME NEW q \in Peers,
                PeerUnchokes(q) \/ PeerAnswers(q) \/ PeerMixesUp(q) \/ PeerCorrupts(q) \/ PeerIgnores(q)
         PROVE  \E type : Takes(q, type)
    BY <2>11 DEF PeerUnchokes, PeerAnswers, PeerMixesUp, PeerCorrupts, PeerIgnores
  <2>12. CASE Finish \/ DiskWrite \/ DiskFails \/ UNCHANGED vars
    BY <2>0, <2>12 DEF Finish, DiskWrite, DiskFails, vars
  <2> QED
    BY <2>0, <2>2, <2>3, <2>4, <2>5, <2>6, <2>7, <2>8, <2>9, <2>10, <2>11, <2>12
       DEF Next, Coordinator, HandleEvent, PeerStep
<1> QED
  BY <1>1, Ordinary, BansAlways, PTL DEF Spec, NoRequestWhileBanned

----------------------------------------------------------------------------
(* Pieces in flight *)

\* Every message of s is still in t.
Kept(s, t) == \A k \in DOMAIN s : \E m \in DOMAIN t : t[m] = s[k]

LEMMA KeptProperties ==
    ASSUME NEW S, NEW s \in Seq(S)
    PROVE  /\ Kept(s, s)
           /\ \A t \in Seq(S) : Kept(s, s \o t)
           /\ \A e \in S : Kept(s, Append(s, e))
           /\ s # <<>> => \A k \in DOMAIN s : s[k] # Head(s) =>
                             \E m \in DOMAIN Tail(s) : Tail(s)[m] = s[k]
<1>1. \A t \in Seq(S) : Kept(s, s \o t)
  BY Joined DEF Kept
<1>2. \A e \in S : Kept(s, Append(s, e))
  BY Appended DEF Kept
<1>3. ASSUME s # <<>>, NEW k \in DOMAIN s, s[k] # Head(s)
      PROVE  \E m \in DOMAIN Tail(s) : Tail(s)[m] = s[k]
  BY <1>3, Taken
<1> QED
  BY <1>1, <1>2, <1>3 DEF Kept

\* A peer that has never unchoked us has been asked nothing yet: no Unchoke of
\* its is on the way, and it is not among the unchoked peers.
AskedAfterUnchoke ==
    \A p \in Peers :
        remote[p].choking /\ remote[p].chokes = 0 =>
            /\ p \notin unchoked
            /\ burst[p] = 0
            /\ \A k \in DOMAIN inbox[p] : inbox[p][k].type # "unchoke"
            /\ \A k \in DOMAIN out[p] : out[p][k].type # "request"

\* How one step changes what is on its way to p.
LEMMA OutStep ==
    ASSUME Typed, [Next]_vars, NEW p \in Peers
    PROVE  \/ out'[p] = out[p]
           \/ out'[p] = <<>> /\ conn'[p] = "closed"
           \/ OnBitfield(p) /\ out'[p] = out[p] \o <<Interested>>
           \/ \E i \in Pieces : RequestOne(p) /\ out'[p] = out[p] \o <<Request(i)>>
           \/ p \in unchoked /\ \E msgs \in Seq(MessagesTo) : out'[p] = out[p] \o msgs
           \/ out[p] # <<>> /\ out'[p] = Tail(out[p])
                /\ (PeerUnchokes(p) \/ PeerAnswers(p) \/ PeerMixesUp(p) \/ PeerCorrupts(p) \/ PeerIgnores(p))
<1> DEFINE Goal == \/ out'[p] = out[p]
                   \/ out'[p] = <<>> /\ conn'[p] = "closed"
                   \/ OnBitfield(p) /\ out'[p] = out[p] \o <<Interested>>
                   \/ \E i \in Pieces : RequestOne(p) /\ out'[p] = out[p] \o <<Request(i)>>
                   \/ p \in unchoked /\ \E msgs \in Seq(MessagesTo) : out'[p] = out[p] \o msgs
                   \/ out[p] # <<>> /\ out'[p] = Tail(out[p])
                        /\ (PeerUnchokes(p) \/ PeerAnswers(p) \/ PeerMixesUp(p) \/ PeerCorrupts(p) \/ PeerIgnores(p))
<1>0. out \in [Peers -> Seq(MessagesTo)] /\ conn \in [Peers -> {"up", "dropped", "closed"}]
  BY DEF Typed, TypeOK
<1>1. ASSUME NEW q \in Peers, OnBitfield(q) PROVE Goal
  BY <1>0, <1>1 DEF OnBitfield, Sent
<1>2. ASSUME NEW q \in Peers, RequestOne(q) PROVE Goal
  <2>1. CASE UNCHANGED out
    BY <2>1
  <2>2. ASSUME NEW i \in Pieces, out' = Sent(q, <<Request(i)>>) PROVE Goal
    <3>1. CASE p = q /\ Reaches(q)
      <4>1. out'[p] = out[p] \o <<Request(i)>>
        BY <1>0, <2>2, <3>1 DEF Sent
      <4> QED
        BY <1>2, <3>1, <4>1
    <3>2. CASE ~(p = q /\ Reaches(q))
      BY <1>0, <2>2, <3>2 DEF Sent
    <3> QED
      BY <3>1, <3>2
  <2> QED
    BY <1>2, <2>1, <2>2 DEF RequestOne
<1>3. ASSUME NEW q \in Peers, OnGoodPiece(q) PROVE Goal
  <2>1. ASSUME NEW S \in SUBSET Pieces PROVE Requests(S) \in Seq(MessagesTo)
    <3>1. {Request(i) : i \in S} \subseteq MessagesTo
      BY MessageTypes
    <3> QED
      BY <3>1, RequestsType, SeqMonotonic
  <2> QED
    BY <1>0, <1>3, <2>1 DEF OnGoodPiece, EndgameBroadcast
<1>4. ASSUME NEW i \in Pieces, OnStale(i) PROVE Goal
  <2>1. <<Request(i)>> \in Seq(MessagesTo)
    BY MessageTypes
  <2>2. CASE UNCHANGED out
    BY <2>2
  <2>3. CASE \E q \in unchoked : out' = Sent(q, <<Request(i)>>)
    BY <1>0, <2>1, <2>3 DEF Sent
  <2> QED
    BY <1>4, <2>2, <2>3 DEF OnStale
<1>5. ASSUME NEW q \in Peers, PeerUnchokes(q) \/ PeerAnswers(q) \/ PeerMixesUp(q) \/ PeerCorrupts(q) \/ PeerIgnores(q)
      PROVE  Goal
  <2>1. out[q] # <<>> /\ out' = [out EXCEPT ![q] = Tail(@)]
    BY <1>5 DEF PeerUnchokes, PeerAnswers, PeerMixesUp, PeerCorrupts, PeerIgnores, Takes
  <2> QED
    BY <1>0, <1>5, <2>1
<1>6. ASSUME NEW q \in Peers, Leave(q) \/ LoopEnds(q) PROVE Goal
  <2>1. out' = [out EXCEPT ![q] = <<>>] /\ conn' = [conn EXCEPT ![q] = "closed"]
    BY <1>6 DEF Leave, LoopEnds
  <2> QED
    BY <1>0, <2>1
<1>7. CASE LeaveLoop
  BY <1>7 DEF LeaveLoop
<1>8. ASSUME NEW q \in Peers,
             OnUnchoked(q) \/ OnChoked(q) \/ OnDuplicate(q) \/ OnBadPiece(q) \/ OnHave(q)
               \/ OnDisconnected(q) \/ PeerChokes(q) \/ PeerUnchokesAgain(q) \/ BanExpires(q)
      PROVE  out' = out
  BY <1>8 DEF OnUnchoked, OnChoked, OnDuplicate, OnBadPiece, OnHave, OnDisconnected,
              PeerChokes, PeerUnchokesAgain, BanExpires
<1>9. ASSUME NEW q \in Peers, NEW i \in Pieces, PeerGains(q, i) PROVE out' = out
  BY <1>9 DEF PeerGains
<1>10. CASE Finish \/ DiskWrite \/ DiskFails \/ UNCHANGED vars
  BY <1>10 DEF Finish, DiskWrite, DiskFails, vars
<1>11. CASE out' = out
  BY <1>11
<1> QED
  BY <1>1, <1>2, <1>3, <1>4, <1>5, <1>6, <1>7, <1>8, <1>9, <1>10, <1>11
     DEF Next, Coordinator, HandleEvent, PeerStep

\* How one step changes what is on its way from p.
LEMMA InboxStep ==
    ASSUME Typed, [Next]_vars, NEW p \in Peers
    PROVE  \/ inbox'[p] = inbox[p]
           \/ /\ conn'[p] = "closed"
              /\ \A k \in DOMAIN inbox'[p] :
                    \/ inbox'[p][k] = Disconnected
                    \/ \E m \in DOMAIN inbox[p] : inbox'[p][k] = inbox[p][m]
           \/ HandleEvent(p) /\ inbox[p] # <<>> /\ inbox'[p] = Tail(inbox[p])
           \/ \E e \in EventsFrom :
                 /\ inbox'[p] = Append(inbox[p], e)
                 /\ e = Unchoke => PeerUnchokes(p) \/ PeerUnchokesAgain(p)
<1> DEFINE Goal == \/ inbox'[p] = inbox[p]
                   \/ /\ conn'[p] = "closed"
                      /\ \A k \in DOMAIN inbox'[p] :
                            \/ inbox'[p][k] = Disconnected
                            \/ \E m \in DOMAIN inbox[p] : inbox'[p][k] = inbox[p][m]
                   \/ HandleEvent(p) /\ inbox[p] # <<>> /\ inbox'[p] = Tail(inbox[p])
                   \/ \E e \in EventsFrom :
                         /\ inbox'[p] = Append(inbox[p], e)
                         /\ e = Unchoke => PeerUnchokes(p) \/ PeerUnchokesAgain(p)
<1>0. inbox \in [Peers -> Seq(EventsFrom)] /\ conn \in [Peers -> {"up", "dropped", "closed"}]
  BY DEF Typed, TypeOK
<1>1. ASSUME NEW q \in Peers, HandleEvent(q) PROVE Goal
  <2>1. PICK type : Receive(q, type)
    BY <1>1 DEF HandleEvent, OnBitfield, OnUnchoked, OnChoked, OnDuplicate, OnGoodPiece,
                OnBadPiece, OnHave, OnDisconnected
  <2> QED
    BY <1>1, <2>1, Received
<1>2. ASSUME NEW q \in Peers, NEW e \in EventsFrom, Says(q, e),
             e = Unchoke => PeerUnchokes(q) \/ PeerUnchokesAgain(q)
      PROVE  Goal
  BY <1>2, SaysType
<1>3. ASSUME NEW q \in Peers, PeerUnchokes(q) \/ PeerUnchokesAgain(q) PROVE Goal
  <2>1. Says(q, Unchoke)
    BY <1>3 DEF PeerUnchokes, PeerUnchokesAgain
  <2> QED
    BY <1>2, <1>3, <2>1, EventTypes
<1>4. ASSUME NEW q \in Peers, PeerChokes(q) PROVE Goal
  <2>1. Says(q, Choke) /\ Choke # Unchoke /\ Choke \in EventsFrom
    BY <1>4, EventTypes DEF PeerChokes
  <2> QED
    BY <1>2, <2>1
<1>5. ASSUME NEW q \in Peers, PeerAnswers(q) \/ PeerMixesUp(q) \/ PeerCorrupts(q) PROVE Goal
  <2>1. PICK g \in Data : Takes(q, "request") /\ Says(q, Piece(Head(out[q]).piece, g))
    BY <1>5, Replies
  <2>2. Head(out[q]).piece \in Pieces
    BY <1>5, Replies
  <2>3. Piece(Head(out[q]).piece, g) \in EventsFrom /\ Piece(Head(out[q]).piece, g) # Unchoke
    BY <2>2, EventTypes
  <2> QED
    BY <1>2, <2>1, <2>3
<1>6. ASSUME NEW q \in Peers, NEW i \in Pieces, PeerGains(q, i) PROVE Goal
  <2>1. Says(q, HaveEvent(i)) /\ HaveEvent(i) # Unchoke /\ HaveEvent(i) \in EventsFrom
    BY <1>6, EventTypes DEF PeerGains
  <2> QED
    BY <1>2, <2>1
<1>7. ASSUME NEW q \in Peers, Leave(q) \/ LoopEnds(q) PROVE Goal
  <2>1. PICK r \in Prefixes(inbox[q]) :
          /\ conn' = [conn EXCEPT ![q] = "closed"]
          /\ \/ inbox' = [inbox EXCEPT ![q] = Append(r, Disconnected)]
             \/ inbox' = [inbox EXCEPT ![q] = r]
    BY <1>7 DEF Leave, LoopEnds
  <2>2. CASE p = q
    <3>1. /\ r \in Seq(EventsFrom) /\ conn'[p] = "closed"
          /\ \A k \in DOMAIN r : k \in DOMAIN inbox[p] /\ r[k] = inbox[p][k]
      BY <1>0, <2>1, <2>2, Cut
    <3>2. \A k \in DOMAIN Append(r, Disconnected) :
            (k \in DOMAIN r /\ Append(r, Disconnected)[k] = r[k])
              \/ Append(r, Disconnected)[k] = Disconnected
      BY <3>1, EventTypes, Appended
    <3>3. CASE inbox'[p] = r
      BY <3>1, <3>3
    <3>4. CASE inbox'[p] = Append(r, Disconnected)
      BY <3>1, <3>2, <3>4
    <3> QED
      BY <1>0, <2>1, <2>2, <3>3, <3>4
  <2>3. CASE p # q
    BY <1>0, <2>1, <2>3
  <2> QED
    BY <2>2, <2>3
<1>8. CASE LeaveLoop
  BY <1>8 DEF LeaveLoop
<1>9. ASSUME NEW q \in Peers, RequestOne(q) \/ BanExpires(q) \/ PeerIgnores(q) PROVE inbox' = inbox
  BY <1>9 DEF RequestOne, BanExpires, PeerIgnores
<1>10. ASSUME NEW i \in Pieces, OnStale(i) PROVE inbox' = inbox
  BY <1>10 DEF OnStale
<1>11. CASE Finish \/ DiskWrite \/ DiskFails \/ UNCHANGED vars
  BY <1>11 DEF Finish, DiskWrite, DiskFails, vars
<1>12. CASE inbox' = inbox
  BY <1>12
<1> QED
  BY <1>1, <1>3, <1>4, <1>5, <1>6, <1>7, <1>8, <1>9, <1>10, <1>11, <1>12
     DEF Next, Coordinator, PeerStep

\* How one step changes what p has told us of its choking.
LEMMA RemoteStep ==
    ASSUME Typed, [Next]_vars, NEW p \in Peers
    PROVE  \/ remote'[p].choking = remote[p].choking /\ remote'[p].chokes = remote[p].chokes
           \/ PeerChokes(p) /\ remote'[p].chokes > 0
           \/ (PeerUnchokes(p) \/ PeerUnchokesAgain(p)) /\ ~remote'[p].choking
                /\ remote'[p].chokes = remote[p].chokes
<1> DEFINE Goal == \/ remote'[p].choking = remote[p].choking /\ remote'[p].chokes = remote[p].chokes
                   \/ PeerChokes(p) /\ remote'[p].chokes > 0
                   \/ (PeerUnchokes(p) \/ PeerUnchokesAgain(p)) /\ ~remote'[p].choking
                        /\ remote'[p].chokes = remote[p].chokes
<1>0. remote \in [Peers -> Remotes] /\ \A q \in Peers : remote[q].chokes \in Nat
  BY DEF Typed, Remotes
<1>1. ASSUME NEW q \in Peers, PeerUnchokes(q) \/ PeerUnchokesAgain(q) PROVE Goal
  <2>1. remote' = [remote EXCEPT ![q].choking = FALSE]
    BY <1>1 DEF PeerUnchokes, PeerUnchokesAgain
  <2> QED
    BY <1>0, <1>1, <2>1 DEF Remotes
<1>2. ASSUME NEW q \in Peers, PeerChokes(q) PROVE Goal
  <2>1. remote' = [remote EXCEPT ![q].choking = TRUE, ![q].chokes = @ + 1]
    BY <1>2 DEF PeerChokes
  <2> QED
    BY <1>0, <1>2, <2>1 DEF Remotes
<1>3. ASSUME NEW q \in Peers, PeerCorrupts(q) PROVE Goal
  BY <1>0, <1>3 DEF PeerCorrupts, Remotes
<1>4. ASSUME NEW q \in Peers, NEW i \in Pieces, PeerGains(q, i) PROVE Goal
  BY <1>0, <1>4 DEF PeerGains, Remotes
<1>5. ASSUME NEW q \in Peers,
             HandleEvent(q) \/ RequestOne(q) \/ BanExpires(q) \/ PeerAnswers(q) \/ PeerMixesUp(q) \/ PeerIgnores(q)
               \/ Leave(q) \/ LoopEnds(q)
      PROVE  remote' = remote
  BY <1>5 DEF HandleEvent, OnBitfield, OnUnchoked, OnChoked, OnDuplicate, OnGoodPiece, OnBadPiece,
              OnHave, OnDisconnected, RequestOne, BanExpires, PeerAnswers, PeerMixesUp, PeerIgnores, Leave,
              LoopEnds, net
<1>6. ASSUME NEW i \in Pieces, OnStale(i) PROVE remote' = remote
  BY <1>6 DEF OnStale, net
<1>7. CASE LeaveLoop \/ Finish \/ DiskWrite \/ DiskFails \/ UNCHANGED vars
  <2>1. remote' = remote
    BY <1>7 DEF LeaveLoop, Finish, DiskWrite, DiskFails, vars, net
  <2> QED
    BY <2>1
<1>8. CASE remote' = remote
  BY <1>8
<1> QED
  BY <1>1, <1>2, <1>3, <1>4, <1>5, <1>6, <1>7, <1>8 DEF Next, Coordinator, PeerStep

LEMMA NextAsked ==
    Typed /\ AskedAfterUnchoke /\ [Next]_vars => AskedAfterUnchoke'
<1> SUFFICES ASSUME Typed, AskedAfterUnchoke, [Next]_vars, NEW p \in Peers,
                    remote'[p].choking, remote'[p].chokes = 0
             PROVE  /\ p \notin unchoked'
                    /\ burst'[p] = 0
                    /\ \A k \in DOMAIN inbox'[p] : inbox'[p][k].type # "unchoke"
                    /\ \A k \in DOMAIN out'[p] : out'[p][k].type # "request"
  BY DEF AskedAfterUnchoke
<1>0. /\ out \in [Peers -> Seq(MessagesTo)] /\ inbox \in [Peers -> Seq(EventsFrom)]
      /\ burst \in [Peers -> Nat]
  BY DEF Typed, TypeOK
<1>1. /\ p \notin unchoked
      /\ burst[p] = 0
      /\ \A k \in DOMAIN inbox[p] : inbox[p][k].type # "unchoke"
      /\ \A k \in DOMAIN out[p] : out[p][k].type # "request"
  BY RemoteStep DEF AskedAfterUnchoke
<1>2. ~OnUnchoked(p)
  BY <1>1, Received DEF OnUnchoked
<1>3. p \notin unchoked'
  <2>1. ASSUME NEW q \in Peers, HandleEvent(q) PROVE p \notin unchoked'
    <3>1. unchoked' \subseteq unchoked \cup {q} /\ (unchoked' \subseteq unchoked \/ OnUnchoked(q))
      BY <2>1 DEF HandleEvent, OnBitfield, OnUnchoked, OnChoked, OnDuplicate, OnGoodPiece,
                  OnBadPiece, OnHave, OnDisconnected, book
    <3> QED
      BY <1>1, <1>2, <3>1
  <2>2. ASSUME NEW q \in Peers, RequestOne(q) \/ BanExpires(q) PROVE unchoked' = unchoked
    BY <2>2 DEF RequestOne, BanExpires, book
  <2>3. ASSUME NEW i \in Pieces, OnStale(i) PROVE unchoked' = unchoked
    BY <2>3 DEF OnStale
  <2>4. CASE UNCHANGED book
    BY <1>1, <2>4 DEF book
  <2> QED
    BY <1>1, <2>1, <2>2, <2>3, <2>4, OthersKeepTables
<1>4. burst'[p] = 0
  <2>1. ASSUME NEW q \in Peers, HandleEvent(q) PROVE burst'[p] = 0
    <3>1. (RequestPieces(q) /\ q # p) \/ UNCHANGED burst
      BY <1>1, <1>2, <1>3, <2>1
         DEF HandleEvent, OnBitfield, OnUnchoked, OnChoked, OnDuplicate, OnGoodPiece,
             OnBadPiece, OnHave, OnDisconnected
    <3> QED
      BY <1>0, <1>1, <3>1 DEF RequestPieces
  <2>2. ASSUME NEW q \in Peers, RequestOne(q) PROVE burst'[p] = 0
    <3>1. burst[q] > 0 /\ \E n : burst' = [burst EXCEPT ![q] = n]
      BY <2>2 DEF RequestOne
    <3> QED
      BY <1>0, <1>1, <3>1
  <2>3. ASSUME NEW i \in Pieces, OnStale(i) PROVE UNCHANGED burst
    BY <2>3 DEF OnStale
  <2>4. CASE UNCHANGED burst
    BY <1>1, <2>4
  <2> QED
    BY <2>1, <2>2, <2>3, <2>4, OthersKeepTables DEF BanExpires
<1>5. \A k \in DOMAIN inbox'[p] : inbox'[p][k].type # "unchoke"
  <2>1. ~PeerUnchokes(p) /\ ~PeerUnchokesAgain(p)
    <3>1. PeerUnchokes(p) \/ PeerUnchokesAgain(p) => remote' = [remote EXCEPT ![p].choking = FALSE]
      BY DEF PeerUnchokes, PeerUnchokesAgain
    <3> QED
      BY <3>1 DEF Typed, Remotes
  <2>2. ASSUME NEW e \in EventsFrom, inbox'[p] = Append(inbox[p], e), e # Unchoke
        PROVE  \A k \in DOMAIN inbox'[p] : inbox'[p][k].type # "unchoke"
    BY <1>0, <1>1, <2>2, EventTypes, Appended
  <2>3. ASSUME inbox[p] # <<>>, inbox'[p] = Tail(inbox[p])
        PROVE  \A k \in DOMAIN inbox'[p] : inbox'[p][k].type # "unchoke"
    BY <1>0, <1>1, <2>3, Taken
  <2> QED
    BY <1>1, <2>1, <2>2, <2>3, InboxStep, EventTypes
<1>6. \A k \in DOMAIN out'[p] : out'[p][k].type # "request"
  <2>1. ~RequestOne(p)
    BY <1>1 DEF RequestOne
  <2>2. ASSUME out'[p] = out[p] \o <<Interested>>
        PROVE  \A k \in DOMAIN out'[p] : out'[p][k].type # "request"
    <3>1. <<Interested>> \in Seq(MessagesTo) /\ \A k \in DOMAIN <<Interested>> : <<Interested>>[k] = Interested
      BY MessageTypes
    <3> QED
      BY <1>0, <1>1, <2>2, <3>1, MessageTypes, Joined
  <2>3. ASSUME out[p] # <<>>, out'[p] = Tail(out[p])
        PROVE  \A k \in DOMAIN out'[p] : out'[p][k].type # "request"
    BY <1>0, <1>1, <2>3, Taken
  <2>4. ASSUME out'[p] = <<>> PROVE \A k \in DOMAIN out'[p] : out'[p][k].type # "request"
    BY <2>4
  <2> QED
    BY <1>1, <2>1, <2>2, <2>3, <2>4, OutStep
<1> QED
  BY <1>3, <1>4, <1>5, <1>6

LEMMA AskedAlways == Spec => []AskedAfterUnchoke
<1>1. Init => AskedAfterUnchoke
  <2> SUFFICES ASSUME Init, NEW p \in Peers
               PROVE  /\ p \notin unchoked
                      /\ burst[p] = 0
                      /\ \A k \in DOMAIN inbox[p] : inbox[p][k].type # "unchoke"
                      /\ \A k \in DOMAIN out[p] : out[p][k].type # "request"
    BY DEF AskedAfterUnchoke
  <2>1. inbox[p] = <<Bitfield(Content[p])>> /\ out[p] = <<>> /\ burst[p] = 0 /\ unchoked = {}
    BY DEF Init
  <2> QED
    BY <2>1, EventTypes
<1> QED
  BY <1>1, Ordinary, NextAsked, PTL DEF Spec

\* How one step changes the pieces in flight, as long as they are the same
\* peer's: either piece i was in flight with p already, or it is put in flight
\* by the step that asks p for it.
LEMMA FlightStep ==
    ASSUME Typed, [Next]_vars, NEW i \in DOMAIN inFlight'
    PROVE  \/ i \in DOMAIN inFlight /\ inFlight'[i] = inFlight[i]
           \/ /\ RequestOne(inFlight'[i])
              /\ inFlight'[i] \in Peers
              /\ out' = Sent(inFlight'[i], <<Request(i)>>)
<1> DEFINE Goal == \/ i \in DOMAIN inFlight /\ inFlight'[i] = inFlight[i]
                   \/ /\ RequestOne(inFlight'[i])
                      /\ inFlight'[i] \in Peers
                      /\ out' = Sent(inFlight'[i], <<Request(i)>>)
<1>1. CASE UNCHANGED inFlight
  BY <1>1
<1>2. ASSUME NEW S \in SUBSET DOMAIN inFlight, inFlight' = Sched!Restrict(inFlight, S) PROVE Goal
  BY <1>2 DEF Sched!Restrict
<1>3. ASSUME NEW p \in Peers, HandleEvent(p) PROVE Goal
  <2>1. UNCHANGED inFlight \/ \E S \in SUBSET DOMAIN inFlight : inFlight' = Sched!Restrict(inFlight, S)
    BY <1>3 DEF HandleEvent, OnBitfield, OnUnchoked, OnChoked, OnDuplicate, OnGoodPiece,
                OnBadPiece, OnHave, OnDisconnected, sched, Sched!RegisterPeer,
                Sched!PieceCompleted, Sched!PieceFailed, Sched!PeerHasPiece, Sched!UnregisterPeer
  <2> QED
    BY <1>1, <1>2, <2>1
<1>4. ASSUME NEW p \in Peers, RequestOne(p) PROVE Goal
  <2>1. CASE UNCHANGED sched
    BY <1>1, <2>1 DEF sched
  <2>2. ASSUME NEW j \in Pieces, Sched!PickPiece(p, j), out' = Sent(p, <<Request(j)>>) PROVE Goal
    <3>1. CASE UNCHANGED inFlight
      BY <1>1, <3>1
    <3>2. CASE inFlight' = Sched!Insert(inFlight, j, p)
      <4>1. CASE i = j
        <5>1. inFlight'[i] = p
          BY <3>2, <4>1 DEF Sched!Insert
        <5> QED
          BY <1>4, <2>2, <4>1, <5>1
      <4>2. CASE i # j
        BY <3>2, <4>2 DEF Sched!Insert
      <4> QED
        BY <4>1, <4>2
    <3> QED
      BY <2>2, <3>1, <3>2 DEF Sched!PickPiece
  <2> QED
    BY <1>4, <2>1, <2>2 DEF RequestOne
<1>5. ASSUME NEW p \in Peers, BanExpires(p) PROVE UNCHANGED inFlight
  BY <1>5 DEF BanExpires, sched
<1>6. ASSUME NEW j \in Pieces, OnStale(j) PROVE UNCHANGED inFlight
  BY <1>6 DEF OnStale, sched
<1> QED
  BY <1>1, <1>3, <1>4, <1>5, <1>6, OthersKeepTables DEF sched

\* A request is answered before it is forgotten, and an answer is used or the
\* piece is no longer in flight.
LEMMA PendingKept ==
    ASSUME Typed, AskedAfterUnchoke, Sched!InFlightSound, [Next]_vars,
           NEW p \in Peers, NEW i \in DOMAIN inFlight, i \in DOMAIN inFlight',
           conn'[p] # "closed", remote[p].chokes = 0, Pending(p, i)
    PROVE  Pending(p, i)'
<1>0. /\ out[p] \in Seq(MessagesTo) /\ inbox[p] \in Seq(EventsFrom)
      /\ i \in Pieces /\ i \notin have
      /\ inbox \in [Peers -> Seq(EventsFrom)]
  BY DEF Typed, TypeOK, Sched!TypeOK, Sched!InFlightSound, Sched!Missing
<1>1. ASSUME NEW k \in DOMAIN out[p], out[p][k] = Request(i), Kept(out[p], out'[p])
      PROVE  Pending(p, i)'
  BY <1>1 DEF Kept, Pending
<1>2. ASSUME NEW k \in DOMAIN inbox[p], NEW g \in Data, inbox[p][k] = Piece(i, g),
             Kept(inbox[p], inbox'[p])
      PROVE  Pending(p, i)'
  <2>1. PICK m \in DOMAIN inbox'[p] : inbox'[p][m] = Piece(i, g)
    BY <1>2 DEF Kept
  <2> QED
    BY <2>1 DEF Pending
<1>3. ASSUME NEW k \in DOMAIN out[p], out[p][k] = Request(i) PROVE Pending(p, i)'
  <2>1. ~PeerIgnores(p)
    BY <1>3, MessageTypes DEF PeerIgnores, AskedAfterUnchoke
  <2>2. ASSUME out[p][k] = Head(out[p]), PeerAnswers(p) \/ PeerMixesUp(p) \/ PeerCorrupts(p)
        PROVE  Pending(p, i)'
    <3>1. PICK g \in Data : Says(p, Piece(Head(out[p]).piece, g))
      BY <2>2, Replies
    <3>2. Head(out[p]).piece = i
      BY <1>3, <2>2, MessageTypes
    <3>3. inbox'[p] = Append(inbox[p], Piece(i, g))
      BY <1>0, <3>1, <3>2 DEF Says
    <3>4. PICK m \in DOMAIN inbox'[p] : inbox'[p][m] = Piece(i, g)
      BY <1>0, <3>3, Appended, EventTypes
    <3> QED
      BY <3>4 DEF Pending
  <2>3. ASSUME out[p][k] = Head(out[p]) PROVE ~PeerUnchokes(p)
    BY <1>3, <2>3, MessageTypes DEF PeerUnchokes, Takes
  <2>4. ASSUME out[p] # <<>>, out'[p] = Tail(out[p]), out[p][k] # Head(out[p])
        PROVE  Pending(p, i)'
    <3>1. PICK m \in DOMAIN out'[p] : out'[p][m] = Request(i)
      BY <1>0, <1>3, <2>4, KeptProperties
    <3> QED
      BY <3>1 DEF Pending
  <2>5. ASSUME NEW msgs \in Seq(MessagesTo), out'[p] = out[p] \o msgs PROVE Pending(p, i)'
    BY <1>0, <1>1, <1>3, <2>5, KeptProperties
  <2>6. ASSUME out'[p] = out[p] PROVE Pending(p, i)'
    BY <1>0, <1>1, <1>3, <2>6, KeptProperties
  <2>7. <<Interested>> \in Seq(MessagesTo) /\ \A j \in Pieces : <<Request(j)>> \in Seq(MessagesTo)
    BY MessageTypes
  <2> QED
    BY <2>1, <2>2, <2>3, <2>4, <2>5, <2>6, <2>7, OutStep
<1>4. ASSUME NEW k \in DOMAIN inbox[p], NEW g \in Data, inbox[p][k] = Piece(i, g)
      PROVE  Pending(p, i)'
  <2>1. CASE HandleEvent(p) /\ inbox[p] # <<>> /\ inbox'[p] = Tail(inbox[p])
    <3>1. CASE inbox[p][k] # Head(inbox[p])
      <4>1. PICK m \in DOMAIN inbox'[p] : inbox'[p][m] = Piece(i, g)
        BY <1>0, <1>4, <2>1, <3>1, KeptProperties
      <4> QED
        BY <4>1 DEF Pending
    <3>2. ASSUME inbox[p][k] = Head(inbox[p]) PROVE FALSE
      <4>1. Head(inbox[p]).type = "piece" /\ Head(inbox[p]).piece = i
        BY <1>4, <3>2 DEF Piece
      <4>2. OnDuplicate(p) \/ OnGoodPiece(p) \/ OnBadPiece(p)
        BY <2>1, <4>1 DEF HandleEvent, OnBitfield, OnUnchoked, OnChoked, OnHave, OnDisconnected,
                          Receive
      <4>3. ~OnDuplicate(p)
        BY <1>0, <4>1 DEF OnDuplicate
      <4>4. inFlight' = Sched!Restrict(inFlight, DOMAIN inFlight \ {i})
        BY <4>1, <4>2, <4>3 DEF OnGoodPiece, OnBadPiece, Sched!PieceCompleted, Sched!PieceFailed
      <4> QED
        BY <4>4 DEF Sched!Restrict
    <3> QED
      BY <3>1, <3>2
  <2>2. ASSUME NEW e \in EventsFrom, inbox'[p] = Append(inbox[p], e) PROVE Pending(p, i)'
    BY <1>0, <1>2, <1>4, <2>2, KeptProperties
  <2>3. ASSUME inbox'[p] = inbox[p] PROVE Pending(p, i)'
    BY <1>0, <1>2, <1>4, <2>3, KeptProperties
  <2> QED
    BY <2>1, <2>2, <2>3, InboxStep
<1> QED
  BY <1>3, <1>4 DEF Pending

LEMMA NextAnswered ==
    Typed /\ AskedAfterUnchoke /\ Sched!InFlightSound /\ InFlightAnswered /\ [Next]_vars
        => InFlightAnswered'
<1> SUFFICES ASSUME Typed, AskedAfterUnchoke, Sched!InFlightSound, InFlightAnswered, [Next]_vars,
                    NEW i \in DOMAIN inFlight', NEW p, p = inFlight'[i],
                    conn'[p] = "up", remote'[p].chokes = 0
             PROVE  Pending(p, i)'
  BY DEF InFlightAnswered, Pending
<1>1. CASE i \in DOMAIN inFlight /\ inFlight'[i] = inFlight[i]
  <2>1. p \in Peers
    BY <1>1 DEF Typed, TypeOK, Sched!TypeOK
  <2>2. conn[p] = "up" /\ remote[p].chokes = 0
    <3>1. conn[p] = "up"
      BY <2>1, NeverUpAgain
    <3>2. remote[p].chokes = 0 \/ remote'[p].chokes > 0
      BY <2>1, RemoteStep
    <3> QED
      BY <3>1, <3>2
  <2>3. Pending(p, i)
    BY <1>1, <2>2 DEF InFlightAnswered
  <2> QED
    BY <1>1, <2>1, <2>2, <2>3, PendingKept
<1>2. CASE RequestOne(p) /\ p \in Peers /\ out' = Sent(p, <<Request(i)>>)
  <2>1. conn' = conn /\ out[p] \in Seq(MessagesTo) /\ DOMAIN out = Peers
    BY <1>2 DEF RequestOne, net, Typed
  <2>2. out'[p] = Append(out[p], Request(i))
    BY <1>2, <2>1 DEF Sent, Reaches
  <2>3. Len(out[p]) + 1 \in DOMAIN out'[p] /\ out'[p][Len(out[p]) + 1] = Request(i)
    BY <2>1, <2>2
  <2> QED
    BY <2>3 DEF Pending
<1> QED
  BY <1>1, <1>2, FlightStep

\* No piece is held back for a peer that will not answer: whatever was asked of
\* a peer still connected and never choking us is on its way to it, or its
\* answer is on its way back.
THEOREM InFlightAnsweredCorrect == Spec => []InFlightAnswered
<1>1. Init => InFlightAnswered
  BY DEF Init, Sched!Init, InFlightAnswered
<1>2. Spec => []Sched!InFlightSound
  BY SchedulerInDownload, PTL
<1> QED
  BY <1>1, <1>2, Ordinary, AskedAlways, NextAnswered, PTL DEF Spec
============================================================================
