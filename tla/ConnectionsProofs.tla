-------------------------- MODULE ConnectionsProofs --------------------------
(***************************************************************************)
(* Proofs, for every set of peers, capacity of the channels and pipeline    *)
(* depth, of what MCConnections checks on two peers: types, the peer        *)
(* exchange, what is kept of a peer that has gone, and that the tasks never *)
(* wait in a circle while there is room for the events. What there is to    *)
(* have room for is counted here.                                           *)
(***************************************************************************)
EXTENDS Connections, FiniteSetTheorems, TLAPS

----------------------------------------------------------------------------
(* The peer exchange *)

\* PexAgrees with what makes it inductive: peers only are known and unchoked,
\* and nobody is told of itself.
PexSound ==
    /\ known \subseteq Peers /\ unchoked \subseteq Peers
    /\ lastSent \in [Peers -> SUBSET Peers]
    /\ told \in [Peers -> SUBSET Peers]
    /\ \A p \in Peers : p \notin lastSent[p]
    /\ PexAgrees

\* All that is new fits into one message.
LEMMA NewFits ==
    ASSUME Cardinality(Peers) <= MaxPex, NEW p \in Peers, NEW S, S \subseteq Peers \ {p},
           NEW T \in SUBSET S, Cardinality(T) = MaxPex \/ (T = S /\ Cardinality(S) < MaxPex)
    PROVE  T = S
<1>1. IsFiniteSet(Peers) /\ MaxPex \in Nat
  BY ConstantsAssumption
<1>2. /\ IsFiniteSet(T) /\ T \in SUBSET Peers /\ T # Peers
  BY <1>1, FS_Subset
<1>3. Cardinality(T) < Cardinality(Peers) /\ Cardinality(T) \in Nat /\ Cardinality(Peers) \in Nat
  BY <1>1, <1>2, FS_Subset, FS_CardinalityType
<1> QED
  BY <1>1, <1>3

\* One tick tells p of everyone shareable but those it was told of, and to drop
\* those that are not known any more.
LEMMA TickAgrees ==
    ASSUME PexSound, Cardinality(Peers) <= MaxPex, NEW p \in Peers,
           NEW added \in Additions(p)
    PROVE  (told[p] \cup added) \ Droppings(p) = Shareable(p)
<1> DEFINE new == Shareable(p) \ lastSent[p]
<1>1. added = new
  <2>1. new \subseteq Peers \ {p}
    BY DEF PexSound, Shareable
  <2>2. added \in SUBSET new /\ (Cardinality(added) = MaxPex \/ (added = new /\ Cardinality(new) < MaxPex))
    BY DEF Additions
  <2> HIDE DEF new
  <2> QED
    BY <2>1, <2>2, NewFits
<1>2. told[p] = lastSent[p] /\ p \notin lastSent[p]
  BY DEF PexSound, PexAgrees
<1> QED
  BY <1>1, <1>2 DEF Shareable, Droppings

LEMMA NextPexSound == PexSound /\ [Next]_vars => PexSound'
<1> SUFFICES ASSUME PexSound, [Next]_vars PROVE PexSound'
  OBVIOUS
<1> USE DEF PexSound
<1>1. CASE PexTick
  <2>1. /\ lastSent' = [p \in Peers |-> IF p \in unchoked THEN Shareable(p) ELSE lastSent[p]]
        /\ known' = known /\ unchoked' = unchoked
    BY <1>1 DEF PexTick, tables
  <2>2. PICK added \in [unchoked -> SUBSET known] :
          /\ \A p \in unchoked : added[p] \in Additions(p)
          /\ told' = [p \in Peers |->
                IF p \in unchoked THEN (told[p] \cup added[p]) \ Droppings(p) ELSE told[p]]
    BY <1>1 DEF PexTick
  <2>3. lastSent' \in [Peers -> SUBSET Peers] /\ \A p \in Peers : p \notin lastSent'[p]
    BY <2>1 DEF Shareable
  <2>4. told' \in [Peers -> SUBSET Peers]
    <3>1. \A p \in unchoked : added[p] \subseteq Peers
      BY <2>2
    <3> QED
      BY <2>2, <3>1
  <2>5. ASSUME Cardinality(Peers) <= MaxPex PROVE told' = lastSent'
    <3>1. ASSUME NEW p \in Peers PROVE told'[p] = lastSent'[p]
      <4>1. CASE p \in unchoked
        BY <2>1, <2>2, <2>5, <4>1, TickAgrees
      <4>2. CASE p \notin unchoked
        BY <2>1, <2>2, <2>5, <4>2 DEF PexAgrees
      <4> QED
        BY <4>1, <4>2
    <3> QED
      BY <2>3, <2>4, <3>1
  <2> QED
    BY <2>1, <2>3, <2>4, <2>5 DEF PexAgrees
<1>2. ASSUME known' \subseteq Peers, unchoked' \subseteq Peers, UNCHANGED <<lastSent, told>>
      PROVE  PexSound'
  BY <1>2 DEF PexAgrees
<1>3. CASE UNCHANGED <<known, unchoked, lastSent, told>>
  BY <1>2, <1>3
<1>4. ASSUME NEW p \in Peers,
             \/ PeerConnected(p) \/ BitfieldReceived(p) \/ Unchoked(p) \/ Choked(p)
             \/ PieceReceived(p) \/ BadPieceReceived(p) \/ DuplicateReceived(p)
             \/ HaveReceived(p) \/ PeerDisconnected(p) \/ PexReceived(p) \/ PexTakenBack(p)
      PROVE  PexSound'
  <2>1. UNCHANGED <<lastSent, told>>
    BY <1>4 DEF PeerConnected, BitfieldReceived, Unchoked, Choked, PieceReceived, BadPieceReceived,
                DuplicateReceived, HaveReceived, PeerDisconnected, PexReceived, PexTakenBack, Takes
  <2>2. known' \subseteq known \cup Peers /\ unchoked' \subseteq unchoked \cup {p}
    BY <1>4 DEF PeerConnected, BitfieldReceived, Unchoked, Choked, PieceReceived, BadPieceReceived,
                DuplicateReceived, HaveReceived, PeerDisconnected, PexReceived, PexTakenBack,
                UnchokedWithout
  <2> QED
    BY <1>2, <2>1, <2>2
<1>5. ASSUME NEW p \in Peers,
             \/ Dial(p) \/ Announce(p) \/ RequestOne(p) \/ BanExpires(p) \/ LoopStep(p)
             \/ PeerSays(p) \/ PeerTurns(p) \/ PeerLeaves(p)
      PROVE  UNCHANGED <<known, unchoked, lastSent, told>>
  BY <1>5 DEF Dial, Announce, RequestOne, BanExpires, LoopStep, Receive, SendEvent, Deliver, Dismissed,
              PeerSays, PeerTurns, Speaks, PeerLeaves, coordinator, pex, tables
<1>stale. ASSUME NEW i \in Pieces, OnStale(i) PROVE UNCHANGED <<known, unchoked, lastSent, told>>
  BY <1>stale DEF OnStale, pex
<1>6. CASE StartLoop \/ SendCommand \/ PoolStep \/ UNCHANGED vars
  <2>1. UNCHANGED <<known, unchoked, lastSent, told>>
    BY <1>6 DEF StartLoop, SendCommand, PoolStep, TakeCommand, SendToPeer, vars, coordinator, pex, tables
  <2> QED
    BY <1>3, <2>1
<1> QED
  BY <1>1, <1>3, <1>4, <1>5, <1>stale, <1>6 DEF Next, Step, CoordinatorStep, HandleEvent

\* What a peer was told and not told to drop is what last_sent keeps of it,
\* whoever comes, goes, is shared and taken back between two ticks.
THEOREM PexAgreesCorrect == Spec => []PexAgrees
<1>1. Init => PexSound
  BY DEF Init, PexSound, PexAgrees
<1>2. PexSound => PexAgrees
  BY DEF PexSound
<1> QED
  BY <1>1, <1>2, NextPexSound, PTL DEF Spec

----------------------------------------------------------------------------
(* Types and slots *)

Indices == Pieces \cup {NoPiece}
MessageTypes == {"Interested", "Request", "Have", "Pex"}
SaidTypes == {"Bitfield", "Choke", "Unchoke", "Piece", "Have", "Pex", "Dropped", "Close"}
EventTypes == {"PeerConnected", "BitfieldReceived", "Choked", "Unchoked", "PieceReceived",
               "HaveReceived", "PexReceived", "PexTakenBack", "PeerDisconnected"}

\* The messages of the types T.
Of(T) == {Message(t, i) : t \in T, i \in Indices}
Messages == Of(MessageTypes)
Said == Of(SaidTypes)

Orders == {To(p, m) : p \in Peers, m \in Messages}
Commands == Orders \cup {HaveAll(i) : i \in Indices} \cup {ConnectPeer} \cup {Disconnect(p) : p \in Peers}
Reports == {Event(t, p, i) : t \in EventTypes, p \in Peers, i \in Indices}

\* Nothing, or an event of p.
HeldOf(p) == {<<>>} \cup {<<Event(t, p, i)>> : t \in EventTypes, i \in Indices}

CoordinatorTyped ==
    /\ at \in {"connecting", "select", "sending", "picking", "done"}
    /\ out \in Seq(Commands) /\ (at = "sending" <=> out # <<>>)
    /\ burst \in [Peers -> Nat]
    /\ {todo, unchoked, banned} \subseteq SUBSET Peers
    /\ ticks \in Nat /\ stale \in Nat

PoolTyped ==
    /\ pool \in {"unborn", "idle", "sending"}
    /\ pend \in Seq(Orders) /\ (pool = "sending" <=> pend # <<>>)
    /\ tx \in SUBSET Peers
    /\ commands \in Seq(Commands) /\ Len(commands) <= CommandCap
    /\ at = "connecting" => pool = "unborn"

LoopsTyped ==
    /\ events \in Seq(Reports) /\ Len(events) <= EventCap
    /\ stage \in [Peers -> {"none", "linked", "running", "over"}]
    /\ inbox \in [Peers -> Seq(Said)]
    /\ queue \in [Peers -> Seq(Messages)] /\ \A p \in Peers : Len(queue[p]) <= PeerCap
    /\ DOMAIN held = Peers /\ \A p \in Peers : held[p] \in HeldOf(p)
    /\ {choking, interested} \subseteq SUBSET Peers

\* Every table, message and event has its type, and no channel holds more than
\* it has slots.
Typed == CoordinatorTyped /\ PoolTyped /\ LoopsTyped

LEMMA MessageParts ==
    /\ \A t, i : Message(t, i).type = t /\ Message(t, i).piece = i
    /\ \A t : Plain(t) = Message(t, NoPiece)
    /\ \A T, t, i : Message(t, i) \in Of(T) <=> t \in T /\ i \in Indices
    /\ \A T : \A m \in Of(T) : /\ m.type \in T /\ m.piece \in Indices
                               /\ m = Message(m.type, m.piece)
    /\ NoPiece \in Indices /\ Pieces \subseteq Indices
<1>1. \A t, i : Message(t, i).type = t /\ Message(t, i).piece = i
  BY DEF Message
<1>2. \A T : \A m \in Of(T) : \E t \in T, i \in Indices : m = Message(t, i)
  BY DEF Of
<1>3. \A T : \A t \in T, i \in Indices : Message(t, i) \in Of(T)
  BY DEF Of
<1>4. \A t : Plain(t) = Message(t, NoPiece)
  BY DEF Plain
<1>5. NoPiece \in Indices /\ Pieces \subseteq Indices
  BY DEF Indices
<1>6. ASSUME NEW T, NEW t, NEW i, Message(t, i) \in Of(T) PROVE t \in T /\ i \in Indices
  <2>1. PICK u \in T, j \in Indices : Message(t, i) = Message(u, j)
    BY <1>2, <1>6
  <2>2. t = u /\ i = j
    BY <1>1, <2>1
  <2> QED
    BY <2>1, <2>2
<1>7. ASSUME NEW T, NEW m \in Of(T)
      PROVE  m.type \in T /\ m.piece \in Indices /\ m = Message(m.type, m.piece)
  <2>1. PICK t \in T, i \in Indices : m = Message(t, i)
    BY <1>2
  <2> QED
    BY <1>1, <2>1
<1>8. \A T, t, i : Message(t, i) \in Of(T) <=> t \in T /\ i \in Indices
  BY <1>3, <1>6
<1> QED
  BY <1>1, <1>4, <1>5, <1>7, <1>8

LEMMA OrderParts ==
    /\ \A p, m : To(p, m).type = "Send" /\ To(p, m).peer = p /\ To(p, m).message = m
    /\ \A p \in Peers, m \in Messages : To(p, m) \in Orders
    /\ \A o \in Orders : o.peer \in Peers /\ o.message \in Messages /\ o = To(o.peer, o.message)
    /\ \A p, i : RequestTo(p, i) = To(p, Message("Request", i))
<1>1. \A p, m : To(p, m).type = "Send" /\ To(p, m).peer = p /\ To(p, m).message = m
  BY DEF To
<1>2. \A o \in Orders : \E p \in Peers, m \in Messages : o = To(p, m)
  BY DEF Orders
<1>3. \A p \in Peers, m \in Messages : To(p, m) \in Orders
  BY DEF Orders
<1>4. \A p, i : RequestTo(p, i) = To(p, Message("Request", i))
  BY DEF RequestTo
<1> QED
  BY <1>1, <1>2, <1>3, <1>4

LEMMA CommandTypes ==
    /\ Orders \subseteq Commands
    /\ ConnectPeer \in Commands /\ \A i \in Indices : HaveAll(i) \in Commands
    /\ \A p \in Peers : Disconnect(p) \in Commands
    /\ \A c \in Commands : /\ c.type \in {"Send", "SendHave", "DisconnectPeer", "ConnectPeer"}
                           /\ c.type = "Send" => c \in Orders
                           /\ c.type = "SendHave" => c.piece \in Indices
    /\ ConnectPeer.type = "ConnectPeer"
    /\ \A p, i : HaveAll(i).type = "SendHave" /\ Disconnect(p).type = "DisconnectPeer"
<1>1. ASSUME NEW c \in Commands
      PROVE  \/ c \in Orders
             \/ \E i \in Indices : c = HaveAll(i)
             \/ c = ConnectPeer
             \/ \E p \in Peers : c = Disconnect(p)
  BY DEF Commands
<1>2. /\ Orders \subseteq Commands
      /\ ConnectPeer \in Commands /\ \A i \in Indices : HaveAll(i) \in Commands
      /\ \A p \in Peers : Disconnect(p) \in Commands
  BY DEF Commands
<1>3. \A o \in Orders : o.type = "Send"
  BY OrderParts
<1>4. \A p, i : /\ Disconnect(p).type = "DisconnectPeer"
                /\ HaveAll(i).type = "SendHave" /\ HaveAll(i).piece = i
  BY DEF Disconnect, HaveAll
<1>5. ConnectPeer.type = "ConnectPeer"
  BY DEF ConnectPeer
<1>6. ASSUME NEW c \in Commands
      PROVE  /\ c.type \in {"Send", "SendHave", "DisconnectPeer", "ConnectPeer"}
             /\ c.type = "Send" => c \in Orders
             /\ c.type = "SendHave" => c.piece \in Indices
  BY <1>1, <1>3, <1>4, <1>5
<1> QED
  BY <1>2, <1>4, <1>5, <1>6

LEMMA ReportTypes ==
    /\ \A t \in EventTypes, p \in Peers, i \in Indices : Event(t, p, i) \in Reports
    /\ \A t, p, i : Event(t, p, i).type = t /\ Event(t, p, i).peer = p /\ Event(t, p, i).piece = i
    /\ \A e \in Reports : /\ e.type \in EventTypes /\ e.peer \in Peers /\ e.piece \in Indices
                          /\ e = Event(e.type, e.peer, e.piece)
    /\ \A s \in SaidTypes : EventOf[s] \in EventTypes
    /\ \A s \in SaidTypes : EventOf[s] = "PeerDisconnected" <=> s = "Close"
<1>1. \A e \in Reports : \E t \in EventTypes, p \in Peers, i \in Indices : e = Event(t, p, i)
  BY DEF Reports
<1>2. \A t \in EventTypes, p \in Peers, i \in Indices : Event(t, p, i) \in Reports
  BY DEF Reports
<1>3. \A t, p, i : Event(t, p, i).type = t /\ Event(t, p, i).peer = p /\ Event(t, p, i).piece = i
  BY DEF Event
<1>4. /\ EventOf["Bitfield"] = "BitfieldReceived" /\ EventOf["Choke"] = "Choked"
      /\ EventOf["Unchoke"] = "Unchoked" /\ EventOf["Piece"] = "PieceReceived"
      /\ EventOf["Have"] = "HaveReceived" /\ EventOf["Pex"] = "PexReceived"
      /\ EventOf["Dropped"] = "PexTakenBack" /\ EventOf["Close"] = "PeerDisconnected"
  BY DEF EventOf
<1>5. /\ \A s \in SaidTypes : EventOf[s] \in EventTypes
      /\ \A s \in SaidTypes : EventOf[s] = "PeerDisconnected" <=> s = "Close"
  BY <1>4 DEF SaidTypes, EventTypes
<1> QED
  BY <1>1, <1>2, <1>3, <1>5

\* What a loop holds is an event of its peer.
LEMMA HeldParts ==
    /\ \A p : <<>> \in HeldOf(p)
    /\ \A p : \A t \in EventTypes, i \in Indices : <<Event(t, p, i)>> \in HeldOf(p)
    /\ \A p : \A h \in HeldOf(p) : h # <<>> =>
            \E t \in EventTypes, i \in Indices : h = <<Event(t, p, i)>> /\ h[1] = Event(t, p, i)
  BY DEF HeldOf

\* The order in which SendHave and the ticks of the interval go round the peers.
LEMMA SetToSeqType ==
    ASSUME NEW S, IsFiniteSet(S)
    PROVE  SetToSeq(S) \in [1 .. Cardinality(S) -> S] /\ Cardinality(S) \in Nat
<1>1. ExistsBijection(1 .. Cardinality(S), S)
  BY FS_NatBijection, FS_CountingElements
<1>2. PICK f \in Bijection(1 .. Cardinality(S), S) : TRUE
  BY <1>1 DEF ExistsBijection
<1>3. f \in [1 .. Cardinality(S) -> S] /\ IsInjective(f)
  BY <1>2 DEF Bijection, Injection, IsInjective
<1> QED
  BY <1>3, FS_CardinalityType DEF SetToSeq

LEMMA InitTyped == Init => Typed
<1> SUFFICES ASSUME Init PROVE Typed
  OBVIOUS
<1>1. CoordinatorTyped
  <2>1. PICK b \in Budgets : ticks = b.ticks /\ stale = b.stale
    BY DEF Init
  <2>2. ticks \in Nat /\ stale \in Nat
    BY <2>1, ConstantsAssumption
  <2>3. burst \in [Peers -> Nat]
    BY DEF Init, Nobody
  <2> QED
    BY <2>2, <2>3 DEF Init, CoordinatorTyped
<1>2. PoolTyped
  BY ConstantsAssumption DEF Init, PoolTyped
<1>3. LoopsTyped
  BY ConstantsAssumption, HeldParts DEF Init, LoopsTyped
<1> QED
  BY <1>1, <1>2, <1>3 DEF Typed

\* What a handler takes from the events.
LEMMA TakesType ==
    ASSUME Typed, NEW p \in Peers, NEW type, Takes(type, p)
    PROVE  /\ events # <<>> /\ events[1].type = type /\ events[1].peer = p /\ 1 \in DOMAIN events
           /\ Head(events) = events[1] /\ events[1].piece \in Indices
           /\ events' = Tail(events) /\ events' \in Seq(Reports)
           /\ Len(events') = Len(events) - 1
           /\ \A k \in DOMAIN events' : k \in Nat /\ k + 1 \in DOMAIN events /\ events'[k] = events[k + 1]
           /\ \A k \in DOMAIN events : k # 1 => k - 1 \in DOMAIN events' /\ events'[k - 1] = events[k]
           /\ UNCHANGED <<todo, pooling, commands, loops, lastSent, told, ticks, stale>>
           /\ at = "select"
<1>1. events \in Seq(Reports) /\ events # <<>>
  BY DEF Typed, LoopsTyped, Takes
<1>2. events[1] \in Reports /\ Head(events) = events[1]
  BY <1>1
<1>3. events[1].piece \in Indices
  BY <1>2, ReportTypes
<1> QED
  BY <1>1, <1>2, <1>3 DEF Takes

\* Commands of which none is interest.
NoInterest(list) ==
    /\ list \in Seq(Commands)
    /\ \A k \in DOMAIN list, p \in Peers, i \in Indices : list[k] # To(p, Message("Interested", i))

\* The commands a handler sends: none, one, or as many as there is reason for.
LEMMA Lists ==
    /\ NoInterest(<<>>)
    /\ \A p \in Peers, m \in Messages : m.type # "Interested" => NoInterest(<<To(p, m)>>)
    /\ \A p \in Peers : NoInterest(<<Disconnect(p)>>)
    /\ \A i \in Indices : \A s : NoInterest(s) => NoInterest(<<HaveAll(i)>> \o s)
    /\ \A n \in Nat : \A s :
            s \in [1 .. n -> Commands] /\ (\A k \in 1 .. n : s[k].type # "Send") => NoInterest(s)
    /\ \A n \in Nat : \A s :
            s \in [1 .. n -> Orders] /\ (\A k \in 1 .. n : s[k].message.type # "Interested") => NoInterest(s)
<1>1. /\ \A p, m : To(p, m).type = "Send" /\ To(p, m).message = m
      /\ \A i : Message("Interested", i).type = "Interested"
      /\ \A i : HaveAll(i).type = "SendHave"
      /\ \A p : Disconnect(p).type = "DisconnectPeer"
  BY OrderParts, MessageParts, CommandTypes
<1>2. NoInterest(<<>>)
  BY DEF NoInterest
<1>3. ASSUME NEW c \in Commands, c.type # "Send" \/ c.message.type # "Interested" PROVE NoInterest(<<c>>)
  BY <1>1, <1>3 DEF NoInterest
<1>4. \A p \in Peers, m \in Messages : m.type # "Interested" => NoInterest(<<To(p, m)>>)
  BY <1>1, <1>3, OrderParts, CommandTypes
<1>5. \A p \in Peers : NoInterest(<<Disconnect(p)>>)
  BY <1>1, <1>3, CommandTypes
<1>6. ASSUME NEW i \in Indices, NEW s, NoInterest(s) PROVE NoInterest(<<HaveAll(i)>> \o s)
  <2> DEFINE t == <<HaveAll(i)>> \o s
  <2>1. HaveAll(i) \in Commands /\ s \in Seq(Commands)
    BY <1>6, CommandTypes DEF NoInterest
  <2>2. t \in Seq(Commands) /\ \A k \in DOMAIN t : t[k] = HaveAll(i) \/ \E j \in DOMAIN s : t[k] = s[j]
    BY <2>1
  <2> HIDE DEF t
  <2>3. NoInterest(t)
    BY <1>1, <1>6, <2>2 DEF NoInterest
  <2> QED
    BY <2>3 DEF t
<1>7. ASSUME NEW n \in Nat, NEW s \in [1 .. n -> Commands],
             \A k \in 1 .. n : s[k].type # "Send" \/ s[k].message.type # "Interested"
      PROVE  NoInterest(s)
  <2>1. s \in Seq(Commands) /\ DOMAIN s = 1 .. n
    BY <1>7
  <2> QED
    BY <1>1, <1>7, <2>1 DEF NoInterest
<1>8. \A n \in Nat : \A s : s \in [1 .. n -> Orders] => s \in [1 .. n -> Commands]
  BY CommandTypes
<1> QED
  BY <1>2, <1>4, <1>5, <1>6, <1>7, <1>8

\* request_pieces will pick for p only.
PicksFor(p, picks) == picks \in [Peers -> Nat] /\ \A q \in Peers \ {p} : picks[q] = 0

LEMMA AsksGoes ==
    ASSUME NEW p \in Peers, NEW list, Asks(p, list) \/ MayAsk(p, list)
    PROVE  \E picks : PicksFor(p, picks) /\ Goes(list, picks)
<1>1. PicksFor(p, Nobody)
  BY DEF PicksFor, Nobody
<1>2. Asks(p, list) \/ Goes(list, Nobody)
  BY DEF MayAsk
<1>3. CASE Asks(p, list) /\ ~Goes(list, Nobody)
  <2>1. PICK depth \in Depths : Goes(list, [Nobody EXCEPT ![p] = IF endgame' THEN 1 ELSE depth])
    BY <1>3 DEF Asks
  <2> DEFINE n == IF endgame' THEN 1 ELSE depth
  <2>2. n \in Nat
    BY ConstantsAssumption
  <2>3. Goes(list, [Nobody EXCEPT ![p] = n])
    BY <2>1
  <2> HIDE DEF n
  <2>4. PicksFor(p, [Nobody EXCEPT ![p] = n])
    BY <2>2 DEF PicksFor, Nobody
  <2> QED
    BY <2>3, <2>4
<1> QED
  BY <1>1, <1>2, <1>3

LEMMA BroadcastType ==
    ASSUME Typed, NEW order, order \in Broadcasts
    PROVE  NoInterest([k \in DOMAIN order |-> RequestTo(order[k][2], order[k][1])])
<1> DEFINE R == {r \in Sched!EndgameRequests' : r[2] \in unchoked}
           list == [k \in DOMAIN order |-> RequestTo(order[k][2], order[k][1])]
<1>1. order \in SetToSeqs(R)
  BY DEF Broadcasts
<1>2. R \subseteq Pieces \X unchoked
  <2>1. Sched!EndgameRequests' \subseteq Pieces \X Sched!Registered'
    BY DEF Sched!EndgameRequests, Sched!Missing
  <2>2. ASSUME NEW r \in R PROVE r \in Pieces \X unchoked
    BY <2>1, <2>2
  <2> QED
    BY <2>2
<1>3. IsFiniteSet(R)
  <2>1. unchoked \subseteq Peers
    BY DEF Typed, CoordinatorTyped
  <2>2. IsFiniteSet(Pieces \X unchoked)
    BY <2>1, ConstantsAssumption, FS_Subset, FS_Product
  <2> HIDE DEF R
  <2> QED
    BY <1>2, <2>2, FS_Subset
<1> HIDE DEF R
<1>4. PICK n \in Nat : order \in [1 .. n -> R]
  <2>1. Cardinality(R) \in Nat
    BY <1>3, FS_CardinalityType
  <2>2. order \in [1 .. Cardinality(R) -> R]
    BY <1>1 DEF SetToSeqs
  <2> QED
    BY <2>1, <2>2
<1>5. ASSUME NEW k \in 1 .. n
      PROVE  /\ RequestTo(order[k][2], order[k][1]) \in Orders
             /\ RequestTo(order[k][2], order[k][1]).message.type # "Interested"
  <2>1. order[k] \in Pieces \X Peers
    BY <1>2, <1>4 DEF Typed, CoordinatorTyped
  <2>2. /\ Message("Request", order[k][1]) \in Messages /\ order[k][2] \in Peers
        /\ Message("Request", order[k][1]).type = "Request"
    BY <2>1, MessageParts DEF Messages, MessageTypes
  <2> QED
    BY <2>2, OrderParts
<1>6. list \in [1 .. n -> Orders] /\ \A k \in 1 .. n : list[k].message.type # "Interested"
  BY <1>4, <1>5
<1> HIDE DEF list
<1>7. NoInterest(list)
  BY <1>6, Lists
<1> QED
  BY <1>7 DEF list

\* f is a part of g.
Part(f, g) == \A i \in DOMAIN f : i \in DOMAIN g /\ f[i] = g[i]

\* What a handler for an event of q does: what it sends and picks, and what of q it keeps.
Effect(q, type, list, picks) ==
    /\ Takes(type, q) /\ Goes(list, picks) /\ PicksFor(q, picks)
    /\ unchoked' \subseteq unchoked \cup {q} /\ banned' \subseteq banned \cup {q}
    /\ DOMAIN holds' \subseteq DOMAIN holds \cup {q}
    /\ Part(inFlight', inFlight) /\ Part(stamps', stamps)
    /\ \/ NoInterest(list)
       \/ type = "BitfieldReceived" /\ list = <<To(q, Plain("Interested"))>>
    /\ type = "PeerDisconnected" =>
        /\ q \notin DOMAIN holds' \cup unchoked' \cup banned' /\ picks = Nobody
        /\ \A i \in DOMAIN inFlight' : inFlight'[i] # q
        /\ \A i \in DOMAIN stamps' : stamps'[i] # q

LEMMA Handles ==
    ASSUME Typed, HandleEvent
    PROVE  \E q \in Peers, type \in EventTypes : \E list, picks : Effect(q, type, list, picks)
<1> USE DEF Effect
<1>part. \A f : Part(f, f)
  BY DEF Part
<1>cut. ASSUME NEW f, NEW S PROVE Part(Restrict(f, DOMAIN f \ S), f)
  BY DEF Part, Restrict
<1>free. ASSUME NEW f, NEW q
         PROVE  /\ Part(Restrict(f, {i \in DOMAIN f : f[i] # q}), f)
                /\ \A i \in DOMAIN Restrict(f, {j \in DOMAIN f : f[j] # q}) :
                        Restrict(f, {j \in DOMAIN f : f[j] # q})[i] # q
  BY DEF Part, Restrict
<1>none. \A q \in Peers : PicksFor(q, Nobody)
  BY DEF PicksFor, Nobody
<1>kept. ASSUME UNCHANGED sched
         PROVE  UNCHANGED <<holds, inFlight>> /\ Part(inFlight', inFlight) /\ DOMAIN holds' = DOMAIN holds
  BY <1>kept, <1>part DEF sched
<1>1. ASSUME NEW q \in Peers, PeerConnected(q) PROVE Effect(q, "PeerConnected", <<>>, Nobody)
  <2>1. Part(inFlight', inFlight) /\ DOMAIN holds' = DOMAIN holds /\ Part(stamps', stamps)
    BY <1>1, <1>kept, <1>part DEF PeerConnected
  <2> QED
    BY <1>1, <2>1, <1>none, Lists DEF PeerConnected
<1>2. ASSUME NEW q \in Peers, BitfieldReceived(q)
      PROVE  Effect(q, "BitfieldReceived", <<To(q, Plain("Interested"))>>, Nobody)
  <2>1. /\ Part(inFlight', inFlight) /\ Part(stamps', stamps) /\ UNCHANGED <<unchoked, banned>>
        /\ DOMAIN holds' = DOMAIN holds \cup {q}
    BY <1>2, <1>part DEF BitfieldReceived, Sched!RegisterPeer, Sched!Insert
  <2> QED
    BY <1>2, <2>1, <1>none DEF BitfieldReceived
<1>3. ASSUME NEW q \in Peers, Unchoked(q) PROVE \E picks : Effect(q, "Unchoked", <<>>, picks)
  <2>1. Part(inFlight', inFlight) /\ DOMAIN holds' = DOMAIN holds /\ Part(stamps', stamps)
    BY <1>3, <1>kept, <1>part DEF Unchoked
  <2>2. PICK picks : PicksFor(q, picks) /\ Goes(<<>>, picks)
    BY <1>3, AsksGoes DEF Unchoked
  <2>3. Effect(q, "Unchoked", <<>>, picks)
    BY <1>3, <2>1, <2>2, Lists DEF Unchoked
  <2> QED
    BY <2>3
<1>4. ASSUME NEW q \in Peers, Choked(q) PROVE Effect(q, "Choked", <<>>, Nobody)
  <2>1. Part(inFlight', inFlight) /\ DOMAIN holds' = DOMAIN holds /\ Part(stamps', stamps)
    BY <1>4, <1>kept, <1>part DEF Choked
  <2> QED
    BY <1>4, <2>1, <1>none, Lists DEF Choked
<1>5. ASSUME NEW q \in Peers, DuplicateReceived(q) PROVE Effect(q, "PieceReceived", <<>>, Nobody)
  <2>1. Part(inFlight', inFlight) /\ DOMAIN holds' = DOMAIN holds /\ Part(stamps', stamps)
    BY <1>5, <1>kept, <1>part DEF DuplicateReceived
  <2> QED
    BY <1>5, <2>1, <1>none, Lists DEF DuplicateReceived
<1>6. ASSUME NEW q \in Peers, PieceReceived(q)
      PROVE  \E list, picks : Effect(q, "PieceReceived", list, picks)
  <2> DEFINE i == Head(events).piece
  <2>1. Takes("PieceReceived", q) /\ i \in Indices
    BY <1>6, TakesType DEF PieceReceived
  <2>2. /\ Part(inFlight', inFlight) /\ Part(stamps', stamps) /\ UNCHANGED <<unchoked, banned>>
        /\ DOMAIN holds' = DOMAIN holds
    <3>1. /\ inFlight' = Restrict(inFlight, DOMAIN inFlight \ {i}) /\ holds' = holds
          /\ stamps' = Restrict(stamps, DOMAIN stamps \ {i}) /\ UNCHANGED <<unchoked, banned>>
      BY <1>6 DEF PieceReceived, Sched!PieceCompleted, Sched!Restrict, Restrict
    <3> HIDE DEF i
    <3> QED
      BY <3>1, <1>cut
  <2>3. PICK order \in Broadcasts :
            MayAsk(q, <<HaveAll(i)>> \o [k \in DOMAIN order |-> RequestTo(order[k][2], order[k][1])])
    BY <1>6 DEF PieceReceived
  <2> DEFINE requests == [k \in DOMAIN order |-> RequestTo(order[k][2], order[k][1])]
             list == <<HaveAll(i)>> \o requests
  <2>4. NoInterest(requests)
    BY BroadcastType
  <2>5. MayAsk(q, list)
    BY <2>3
  <2> HIDE DEF i, requests
  <2>6. NoInterest(list)
    BY <2>1, <2>4, Lists
  <2> HIDE DEF list
  <2>7. PICK picks : PicksFor(q, picks) /\ Goes(list, picks)
    BY <2>5, AsksGoes
  <2>8. Effect(q, "PieceReceived", list, picks)
    BY <2>1, <2>2, <2>6, <2>7
  <2> QED
    BY <2>8
<1>7. ASSUME NEW q \in Peers, BadPieceReceived(q)
      PROVE  \E list, picks : Effect(q, "PieceReceived", list, picks)
  <2>1. /\ Part(inFlight', inFlight) /\ Part(stamps', stamps) /\ DOMAIN holds' = DOMAIN holds
        /\ Takes("PieceReceived", q)
    <3> DEFINE i == Head(events).piece
    <3>1. /\ inFlight' = Restrict(inFlight, DOMAIN inFlight \ {i}) /\ holds' = holds
          /\ stamps' = Restrict(stamps, DOMAIN stamps \ {i}) /\ Takes("PieceReceived", q)
      BY <1>7 DEF BadPieceReceived, Sched!PieceFailed, Sched!Restrict, Restrict
    <3> HIDE DEF i
    <3> QED
      BY <3>1, <1>cut
  <2>2. CASE banned' = banned \cup {q} /\ unchoked' = unchoked \ {q} /\ Goes(<<Disconnect(q)>>, Nobody)
    <3>1. Effect(q, "PieceReceived", <<Disconnect(q)>>, Nobody)
      BY <2>1, <2>2, <1>none, Lists
    <3> QED
      BY <3>1
  <2>3. CASE UNCHANGED <<unchoked, banned>> /\ MayAsk(q, <<>>)
    <3>1. PICK picks : PicksFor(q, picks) /\ Goes(<<>>, picks)
      BY <2>3, AsksGoes
    <3>2. Effect(q, "PieceReceived", <<>>, picks)
      BY <2>1, <2>3, <3>1, Lists
    <3> QED
      BY <3>2
  <2> QED
    BY <1>7, <2>2, <2>3 DEF BadPieceReceived
<1>8. ASSUME NEW q \in Peers, HaveReceived(q) PROVE Effect(q, "HaveReceived", <<>>, Nobody)
  <2>1. /\ Part(inFlight', inFlight) /\ Part(stamps', stamps) /\ UNCHANGED <<unchoked, banned>>
        /\ DOMAIN holds' = DOMAIN holds
    BY <1>8, <1>part DEF HaveReceived, Sched!PeerHasPiece
  <2> QED
    BY <1>8, <2>1, <1>none, Lists DEF HaveReceived
<1>9. ASSUME NEW q \in Peers, PeerDisconnected(q) PROVE Effect(q, "PeerDisconnected", <<>>, Nobody)
  <2>1. /\ Part(inFlight', inFlight) /\ Part(stamps', stamps)
        /\ unchoked' = unchoked \ {q} /\ banned' = banned \ {q}
        /\ DOMAIN holds' = DOMAIN holds \ {q}
        /\ \A i \in DOMAIN inFlight' : inFlight'[i] # q
        /\ \A i \in DOMAIN stamps' : stamps'[i] # q
    <3>1. /\ inFlight' = Restrict(inFlight, {i \in DOMAIN inFlight : inFlight[i] # q})
          /\ stamps' = Restrict(stamps, {i \in DOMAIN stamps : stamps[i] # q})
          /\ unchoked' = unchoked \ {q} /\ banned' = banned \ {q}
          /\ holds' = Restrict(holds, DOMAIN holds \ {q})
      BY <1>9 DEF PeerDisconnected, Sched!UnregisterPeer, Sched!Registered, UnchokedWithout,
                  Sched!Restrict, Restrict
    <3>2. DOMAIN holds' = DOMAIN holds \ {q}
      BY <3>1 DEF Restrict
    <3> QED
      BY <3>1, <3>2, <1>free
  <2> QED
    BY <1>9, <2>1, <1>none, Lists DEF PeerDisconnected
<1>10. ASSUME NEW q \in Peers, PexReceived(q) PROVE \E list : Effect(q, "PexReceived", list, Nobody)
  <2>1. Part(inFlight', inFlight) /\ DOMAIN holds' = DOMAIN holds /\ Part(stamps', stamps)
    BY <1>10, <1>kept, <1>part DEF PexReceived
  <2> DEFINE new == (Peers \ {q}) \ (unchoked \cup banned)
             list == [k \in 1 .. Cardinality(new) |-> ConnectPeer]
  <2>2. Cardinality(new) \in Nat
    BY ConstantsAssumption, FS_Subset, FS_CardinalityType
  <2>3. Goes(list, Nobody)
    BY <1>10 DEF PexReceived
  <2> HIDE DEF new
  <2>4. /\ list \in [1 .. Cardinality(new) -> Commands]
        /\ \A k \in 1 .. Cardinality(new) : list[k].type # "Send"
    BY CommandTypes
  <2> HIDE DEF list
  <2>5. NoInterest(list)
    BY <2>2, <2>4, Lists
  <2>6. Effect(q, "PexReceived", list, Nobody)
    BY <1>10, <2>1, <2>3, <2>5, <1>none DEF PexReceived
  <2> QED
    BY <2>6
<1>11. ASSUME NEW q \in Peers, PexTakenBack(q) PROVE Effect(q, "PexTakenBack", <<>>, Nobody)
  <2>1. Part(inFlight', inFlight) /\ DOMAIN holds' = DOMAIN holds /\ Part(stamps', stamps)
    BY <1>11, <1>kept, <1>part DEF PexTakenBack
  <2> QED
    BY <1>11, <2>1, <1>none, Lists DEF PexTakenBack
<1> HIDE DEF Effect
<1>12. {"PeerConnected", "BitfieldReceived", "Unchoked", "Choked", "PieceReceived", "HaveReceived",
        "PeerDisconnected", "PexReceived", "PexTakenBack"} \subseteq EventTypes
  BY DEF EventTypes
<1> QED
  BY <1>1, <1>2, <1>3, <1>4, <1>5, <1>6, <1>7, <1>8, <1>9, <1>10, <1>11, <1>12 DEF HandleEvent

\* What the coordinator does on its own sends no interest, either.
LEMMA TickGoes ==
    ASSUME Typed, PexTick
    PROVE  \E list : NoInterest(list) /\ Goes(list, Nobody)
<1>1. PICK S \in SUBSET unchoked :
            Goes([k \in DOMAIN SetToSeq(S) |-> To(SetToSeq(S)[k], Plain("Pex"))], Nobody)
  BY DEF PexTick
<1>2. IsFiniteSet(S) /\ S \subseteq Peers
  BY ConstantsAssumption, FS_Subset DEF Typed, CoordinatorTyped
<1>3. SetToSeq(S) \in [1 .. Cardinality(S) -> S] /\ Cardinality(S) \in Nat
  BY <1>2, SetToSeqType
<1> DEFINE news == [k \in DOMAIN SetToSeq(S) |-> To(SetToSeq(S)[k], Plain("Pex"))]
<1>4. Plain("Pex") \in Messages /\ Plain("Pex").type = "Pex"
  BY MessageParts DEF Messages, MessageTypes
<1>5. \A p \in S : To(p, Plain("Pex")) \in Orders /\ To(p, Plain("Pex")).message.type # "Interested"
  BY <1>2, <1>4, OrderParts
<1>6. /\ news \in [1 .. Cardinality(S) -> Orders]
      /\ \A k \in 1 .. Cardinality(S) : news[k].message.type # "Interested"
  BY <1>3, <1>5
<1>7. Goes(news, Nobody)
  BY <1>1
<1> HIDE DEF news
<1> QED
  BY <1>3, <1>6, <1>7, Lists

LEMMA StaleGoes ==
    ASSUME Typed, NEW i \in Pieces, OnStale(i)
    PROVE  \E list : NoInterest(list) /\ Goes(list, Nobody)
<1>1. ASSUME NEW best \in Peers PROVE NoInterest(<<RequestTo(best, i)>>)
  <2>1. Message("Request", i) \in Messages /\ Message("Request", i).type = "Request"
    BY MessageParts DEF Messages, MessageTypes
  <2> QED
    BY <2>1, OrderParts, Lists
<1>2. unchoked \subseteq Peers
  BY DEF Typed, CoordinatorTyped
<1>3. Goes(<<>>, Nobody) \/ \E best \in unchoked : Goes(<<RequestTo(best, i)>>, Nobody)
  BY DEF OnStale
<1> QED
  BY <1>1, <1>2, <1>3, Lists

\* A pick of request_pieces assigns to p alone.
Requested(p) ==
    /\ \E list, picks : NoInterest(list) /\ picks \in [Peers -> Nat] /\ Goes(list, picks)
    /\ DOMAIN holds' = DOMAIN holds
    /\ \A q \in Peers \ {p} :
        /\ burst[q] = 0 => burst'[q] = 0
        /\ (\A i \in DOMAIN inFlight : inFlight[i] # q) => \A i \in DOMAIN inFlight' : inFlight'[i] # q
        /\ (\A i \in DOMAIN stamps : stamps[i] # q) => \A i \in DOMAIN stamps' : stamps'[i] # q

LEMMA RequestGoes ==
    ASSUME Typed, NEW p \in Peers, RequestOne(p)
    PROVE  Requested(p)
<1>0. burst \in [Peers -> Nat] /\ burst[p] > 0
  BY DEF Typed, CoordinatorTyped, RequestOne
<1>1. ASSUME NEW i \in Pieces, Sched!PickPiece(p, i), stamps' = Insert(stamps, i, p),
             Goes(<<RequestTo(p, i)>>, [burst EXCEPT ![p] = @ - 1])
      PROVE  Requested(p)
  <2>1. Message("Request", i) \in Messages /\ Message("Request", i).type = "Request"
    BY MessageParts DEF Messages, MessageTypes
  <2>2. NoInterest(<<RequestTo(p, i)>>)
    BY <2>1, OrderParts, Lists
  <2> DEFINE picks == [burst EXCEPT ![p] = @ - 1]
  <2>3. picks \in [Peers -> Nat] /\ Goes(<<RequestTo(p, i)>>, picks)
    BY <1>0, <1>1
  <2>4. burst' = picks /\ \A q \in Peers \ {p} : burst'[q] = burst[q]
    BY <1>0, <1>1 DEF Goes
  <2>5. holds' = holds /\ (inFlight' = inFlight \/ inFlight' = Sched!Insert(inFlight, i, p))
    BY <1>1 DEF Sched!PickPiece
  <2>6. ASSUME NEW f, NEW q \in Peers \ {p}, \A j \in DOMAIN f : f[j] # q
        PROVE  \A j \in DOMAIN Sched!Insert(f, i, p) : Sched!Insert(f, i, p)[j] # q
    BY <2>6 DEF Sched!Insert
  <2>7. stamps' = Sched!Insert(stamps, i, p)
    BY <1>1 DEF Insert
  <2> HIDE DEF picks
  <2> QED
    BY <2>2, <2>3, <2>4, <2>5, <2>6, <2>7 DEF Requested
<1>2. ASSUME UNCHANGED <<sched, stamps>>, Goes(<<>>, Nobody) PROVE Requested(p)
  <2>1. Nobody \in [Peers -> Nat] /\ burst' = Nobody /\ \A q \in Peers : Nobody[q] = 0
    BY <1>2 DEF Nobody, Goes
  <2> QED
    BY <1>2, <2>1, Lists DEF sched, Requested
<1> QED
  BY <1>1, <1>2 DEF RequestOne

LEMMA GoesType ==
    ASSUME NEW list \in Seq(Commands), NEW picks \in [Peers -> Nat], Goes(list, picks)
    PROVE  /\ at' \in {"select", "sending", "picking", "done"}
           /\ out' = list /\ (at' = "sending" <=> out' # <<>>)
           /\ burst' = picks
  BY DEF Goes

LEMMA NobodyType == Nobody \in [Peers -> Nat] /\ \A p \in Peers : Nobody[p] = 0
  BY DEF Nobody

LEMMA NextCoordinatorTyped ==
    ASSUME Typed, [Next]_vars
    PROVE  CoordinatorTyped'
<1>0. CoordinatorTyped
  BY DEF Typed
<1>1. ASSUME NEW list, NEW picks, list \in Seq(Commands), picks \in [Peers -> Nat], Goes(list, picks),
             {todo', unchoked', banned'} \subseteq SUBSET Peers, ticks' \in Nat, stale' \in Nat
      PROVE  CoordinatorTyped'
  <2>1. /\ at' \in {"select", "sending", "picking", "done"}
        /\ out' = list /\ (at' = "sending" <=> out' # <<>>)
        /\ burst' = picks
    BY <1>1, GoesType
  <2> QED
    BY <1>1, <2>1 DEF CoordinatorTyped
<1>2. CASE HandleEvent
  <2>1. PICK q \in Peers, type \in EventTypes : \E list, picks : Effect(q, type, list, picks)
    BY <1>2, Handles
  <2>2. PICK list, picks : Effect(q, type, list, picks)
    BY <2>1
  <2>3. /\ Goes(list, picks) /\ picks \in [Peers -> Nat]
        /\ unchoked' \subseteq unchoked \cup {q} /\ banned' \subseteq banned \cup {q}
        /\ UNCHANGED <<todo, ticks, stale>>
    BY <2>2 DEF Effect, Takes, PicksFor
  <2>4. list \in Seq(Commands)
    <3>1. Plain("Interested") \in Messages
      BY MessageParts DEF Messages, MessageTypes
    <3>2. To(q, Plain("Interested")) \in Commands
      BY <3>1, OrderParts, CommandTypes
    <3>3. <<To(q, Plain("Interested"))>> \in Seq(Commands)
      BY <3>2
    <3>4. list \in Seq(Commands) \/ list = <<To(q, Plain("Interested"))>>
      BY <2>2 DEF Effect, NoInterest
    <3> QED
      BY <3>3, <3>4
  <2>5. {todo', unchoked', banned'} \subseteq SUBSET Peers /\ ticks' \in Nat /\ stale' \in Nat
    BY <1>0, <2>3 DEF CoordinatorTyped
  <2> QED
    BY <1>1, <2>3, <2>4, <2>5
<1>3. CASE PexTick
  <2>1. PICK list : NoInterest(list) /\ Goes(list, Nobody)
    BY <1>3, TickGoes
  <2>2. {todo', unchoked', banned'} \subseteq SUBSET Peers /\ ticks' \in Nat /\ stale' \in Nat
    BY <1>0, <1>3 DEF CoordinatorTyped, PexTick, tables
  <2> QED
    BY <1>1, <2>1, <2>2, NobodyType DEF NoInterest
<1>4. ASSUME NEW i \in Pieces, OnStale(i) PROVE CoordinatorTyped'
  <2>1. PICK list : NoInterest(list) /\ Goes(list, Nobody)
    BY <1>4, StaleGoes
  <2>2. {todo', unchoked', banned'} \subseteq SUBSET Peers /\ ticks' \in Nat /\ stale' \in Nat
    BY <1>0, <1>4 DEF CoordinatorTyped, OnStale, pex
  <2> QED
    BY <1>1, <2>1, <2>2, NobodyType DEF NoInterest
<1>5. ASSUME NEW p \in Peers, RequestOne(p) PROVE CoordinatorTyped'
  <2>1. PICK list, picks : NoInterest(list) /\ picks \in [Peers -> Nat] /\ Goes(list, picks)
    BY <1>5, RequestGoes DEF Requested
  <2>2. {todo', unchoked', banned'} \subseteq SUBSET Peers /\ ticks' \in Nat /\ stale' \in Nat
    BY <1>0, <1>5 DEF CoordinatorTyped, RequestOne, pex
  <2> QED
    BY <1>1, <2>1, <2>2 DEF NoInterest
<1>6. CASE SendCommand
  <2>1. out # <<>> /\ out \in Seq(Commands) /\ Goes(Tail(out), burst) /\ burst \in [Peers -> Nat]
    BY <1>0, <1>6 DEF SendCommand, CoordinatorTyped
  <2>2. Tail(out) \in Seq(Commands)
    BY <2>1
  <2>3. {todo', unchoked', banned'} \subseteq SUBSET Peers /\ ticks' \in Nat /\ stale' \in Nat
    BY <1>0, <1>6 DEF SendCommand, CoordinatorTyped, tables, pex
  <2> QED
    BY <1>1, <2>1, <2>2, <2>3
<1>7. ASSUME NEW p \in Peers, Dial(p) \/ BanExpires(p) PROVE CoordinatorTyped'
  BY <1>0, <1>7 DEF Dial, BanExpires, CoordinatorTyped, pex
<1>8. CASE StartLoop
  BY <1>0, <1>8 DEF StartLoop, CoordinatorTyped, tables, pex
<1>9. CASE UNCHANGED coordinator
  BY <1>0, <1>9 DEF CoordinatorTyped, coordinator, tables, pex
<1>10. ASSUME NEW p \in Peers, Announce(p) \/ LoopStep(p) \/ PeerSays(p) \/ PeerTurns(p) \/ PeerLeaves(p)
       PROVE  UNCHANGED coordinator
  BY <1>10 DEF Announce, LoopStep, Receive, SendEvent, Deliver, Dismissed, PeerSays, PeerTurns, Speaks,
               PeerLeaves
<1>11. CASE PoolStep \/ UNCHANGED vars
  <2>1. UNCHANGED coordinator
    BY <1>11 DEF PoolStep, TakeCommand, SendToPeer, vars, coordinator
  <2> QED
    BY <1>9, <2>1
<1> QED
  BY <1>2, <1>3, <1>4, <1>5, <1>6, <1>7, <1>8, <1>9, <1>10, <1>11 DEF Next, Step, CoordinatorStep

\* The pool is there from the coordinator's loop on.
LEMMA Birth ==
    ASSUME Typed, [Next]_vars, at' = "connecting"
    PROVE  at = "connecting" /\ pool' = pool
<1>1. ASSUME NEW list, NEW picks, Goes(list, picks) PROVE at' # "connecting"
  BY <1>1 DEF Goes
<1>2. ~HandleEvent
  BY <1>1, Handles DEF Effect
<1>3. ~PexTick /\ ~SendCommand
  BY <1>1, TickGoes DEF SendCommand
<1>4. \A i \in Pieces : ~OnStale(i)
  BY <1>1, StaleGoes
<1>5. \A p \in Peers : ~RequestOne(p)
  BY <1>1, RequestGoes DEF Requested
<1>6. ASSUME NEW p \in Peers,
             Dial(p) \/ Announce(p) \/ BanExpires(p) \/ LoopStep(p) \/ PeerSays(p) \/ PeerTurns(p) \/ PeerLeaves(p)
      PROVE  at' = at /\ pool' = pool
  BY <1>6 DEF Dial, Announce, BanExpires, LoopStep, Receive, SendEvent, Deliver, Dismissed, PeerSays,
              PeerTurns, Speaks, PeerLeaves, pooling, coordinator
<1>7. CASE StartLoop \/ PoolStep \/ UNCHANGED vars
  BY <1>7 DEF StartLoop, PoolStep, TakeCommand, SendToPeer, vars, pooling, coordinator,
              Typed, PoolTyped
<1> QED
  BY <1>2, <1>3, <1>4, <1>5, <1>6, <1>7 DEF Next, Step, CoordinatorStep

\* What goes to everyone goes to peers.
LEMMA AllType ==
    ASSUME tx \in SUBSET Peers, NEW i \in Indices
    PROVE  SendToAll(Message("Have", i)) \in Seq(Orders)
<1>1. IsFiniteSet(tx)
  BY ConstantsAssumption, FS_Subset
<1>2. SetToSeq(tx) \in [1 .. Cardinality(tx) -> tx] /\ Cardinality(tx) \in Nat
  BY <1>1, SetToSeqType
<1> DEFINE m == Message("Have", i)
           all == [k \in DOMAIN SetToSeq(tx) |-> To(SetToSeq(tx)[k], m)]
<1>3. m \in Messages
  BY MessageParts DEF Messages, MessageTypes
<1> HIDE DEF m
<1>4. \A p \in tx : To(p, m) \in Orders
  BY <1>3, OrderParts
<1>5. all \in [1 .. Cardinality(tx) -> Orders]
  BY <1>2, <1>4
<1>6. SendToAll(m) = all
  BY DEF SendToAll
<1> HIDE DEF all
<1>7. all \in Seq(Orders)
  BY <1>2, <1>5
<1> QED
  BY <1>6, <1>7 DEF m

LEMMA NextPoolTyped ==
    ASSUME Typed, [Next]_vars
    PROVE  PoolTyped'
<1>0. PoolTyped /\ CoordinatorTyped
  BY DEF Typed
<1> USE DEF PoolTyped
<1>birth. at' = "connecting" => at = "connecting" /\ pool' = pool
  BY Birth
<1>1. CASE UNCHANGED <<pooling, commands>>
  BY <1>0, <1>1, <1>birth DEF pooling
<1>2. CASE TakeCommand
  <2> DEFINE c == Head(commands)
  <2>1. /\ commands # <<>> /\ c \in Commands
        /\ commands' = Tail(commands) /\ pend' = Sending(c)
        /\ pool' = IF pend' = <<>> THEN "idle" ELSE "sending"
        /\ tx' \in SUBSET Peers
    BY <1>0, <1>2 DEF TakeCommand
  <2>2. commands' \in Seq(Commands) /\ Len(commands') <= CommandCap
    BY <1>0, <2>1, ConstantsAssumption
  <2>3. pend' \in Seq(Orders)
    <3>1. CASE c.type = "Send"
      <4>1. c \in Orders /\ <<>> \in Seq(Orders)
        BY <2>1, <3>1, CommandTypes
      <4>2. <<c>> \in Seq(Orders)
        BY <4>1
      <4>3. pend' = <<>> \/ pend' = <<c>>
        BY <2>1, <3>1 DEF Sending
      <4> QED
        BY <4>1, <4>2, <4>3
    <3>2. CASE c.type = "SendHave"
      <4>1. pend' = SendToAll(Message("Have", c.piece)) /\ c.piece \in Indices
        BY <2>1, <3>2, CommandTypes DEF Sending
      <4> HIDE DEF c
      <4> QED
        BY <1>0, <4>1, AllType
    <3>3. CASE c.type \in {"DisconnectPeer", "ConnectPeer"}
      BY <2>1, <3>3 DEF Sending
    <3> QED
      BY <2>1, <3>1, <3>2, <3>3, CommandTypes
  <2> QED
    BY <1>0, <1>2, <1>birth, <2>1, <2>2, <2>3 DEF TakeCommand
<1>3. CASE SendToPeer
  <2>1. /\ pend # <<>> /\ pend' = Tail(pend) /\ UNCHANGED <<tx, commands>>
        /\ pool' = IF pend' = <<>> THEN "idle" ELSE "sending"
    BY <1>0, <1>3 DEF SendToPeer
  <2>2. pend' \in Seq(Orders)
    BY <1>0, <2>1
  <2> QED
    BY <1>0, <1>birth, <2>1, <2>2
<1>4. CASE SendCommand
  <2>1. /\ out # <<>> /\ out \in Seq(Commands) /\ Len(commands) < CommandCap
        /\ commands' = Append(commands, Head(out)) /\ UNCHANGED pooling
    BY <1>0, <1>4 DEF SendCommand, CoordinatorTyped
  <2>2. commands' \in Seq(Commands) /\ Len(commands') <= CommandCap
    BY <1>0, <2>1, ConstantsAssumption
  <2> QED
    BY <1>0, <1>birth, <2>1, <2>2 DEF pooling
<1>5. CASE StartLoop
  BY <1>0, <1>birth, <1>5 DEF StartLoop
<1>6. ASSUME NEW p \in Peers, Dial(p) PROVE PoolTyped'
  BY <1>0, <1>birth, <1>6 DEF Dial
<1>7. CASE HandleEvent
  <2>1. UNCHANGED <<pooling, commands>>
    BY <1>7, Handles DEF Effect, Takes
  <2> QED
    BY <1>1, <2>1
<1>8. ASSUME NEW p \in Peers,
             \/ Announce(p) \/ RequestOne(p) \/ BanExpires(p)
             \/ LoopStep(p) \/ PeerSays(p) \/ PeerTurns(p) \/ PeerLeaves(p)
      PROVE  UNCHANGED <<pooling, commands>>
  BY <1>8 DEF Announce, RequestOne, BanExpires, LoopStep, Receive, SendEvent, Deliver, Dismissed,
              PeerSays, PeerTurns, Speaks, PeerLeaves
<1>9. ASSUME NEW i \in Pieces, OnStale(i) PROVE UNCHANGED <<pooling, commands>>
  BY <1>9 DEF OnStale
<1>10. CASE PexTick \/ UNCHANGED vars
  <2>1. UNCHANGED <<pooling, commands>>
    BY <1>10 DEF PexTick, vars
  <2> QED
    BY <1>1, <2>1
<1> QED
  BY <1>1, <1>2, <1>3, <1>4, <1>5, <1>6, <1>7, <1>8, <1>9, <1>10 DEF Next, Step, CoordinatorStep, PoolStep

\* What a peer answers, or says, is a message.
LEMMA SaidParts ==
    /\ \A t \in SaidTypes, i \in Indices : Message(t, i) \in Said
    /\ \A p \in Peers, m \in Messages :
        Answer(p, m) \in {<<>>, <<Plain("Unchoke")>>, <<Message("Piece", m.piece)>>}
    /\ {Plain("Unchoke"), Plain("Choke"), Plain("Close"), Plain("Pex"), Plain("Dropped"), Plain("Bitfield")}
            \subseteq Said
    /\ \A i \in Indices : Message("Piece", i) \in Said /\ Message("Have", i) \in Said
<1>1. \A t \in SaidTypes, i \in Indices : Message(t, i) \in Said
  BY MessageParts DEF Said
<1>2. \A t \in SaidTypes : Plain(t) \in Said
  BY <1>1, MessageParts
<1>3. ASSUME NEW p \in Peers, NEW m \in Messages
      PROVE  Answer(p, m) \in {<<>>, <<Plain("Unchoke")>>, <<Message("Piece", m.piece)>>}
  <2>1. m.type \in MessageTypes
    BY MessageParts DEF Messages
  <2> QED
    BY <2>1 DEF Answer, MessageTypes
<1> QED
  BY <1>1, <1>2, <1>3 DEF SaidTypes

\* A peer that speaks writes one message.
LEMMA SpeaksType ==
    ASSUME Typed, NEW p \in Peers, PeerSays(p) \/ PeerTurns(p) \/ PeerLeaves(p)
    PROVE  /\ \E m \in Said : Writes(p, m)
           /\ UNCHANGED <<coordinator, pooling, events, commands, stage, queue, held, interested>>
           /\ choking' \in SUBSET Peers
<1>0. choking \subseteq Peers
  BY DEF Typed, LoopsTyped
<1>1. CASE PeerSays(p)
  <2>1. PICK m \in {Message("Have", i) : i \in Pieces \ Content[p]} \cup {Plain("Pex"), Plain("Dropped")} :
            Speaks(p, m)
    BY <1>1 DEF PeerSays
  <2>2. m \in Said
    BY <2>1, SaidParts, MessageParts
  <2> QED
    BY <1>0, <1>1, <2>1, <2>2 DEF Speaks, PeerSays
<1>2. CASE PeerTurns(p)
  <2>1. \E m \in {Plain("Choke"), Plain("Unchoke")} : Speaks(p, m)
    BY <1>2 DEF PeerTurns
  <2>2. choking' \in SUBSET Peers
    BY <1>0, <1>2 DEF PeerTurns
  <2> QED
    BY <2>1, <2>2, SaidParts DEF Speaks
<1>3. CASE PeerLeaves(p)
  <2>1. UNCHANGED <<coordinator, pooling, events, commands, stage, queue, held, interested, choking>>
    BY <1>3 DEF PeerLeaves, peers
  <2>2. Writes(p, Plain("Close"))
    BY <1>3 DEF PeerLeaves
  <2> QED
    BY <1>0, <2>1, <2>2, SaidParts
<1> QED
  BY <1>1, <1>2, <1>3

\* A loop that sends an event.
LEMMA EmitsType ==
    ASSUME Typed, NEW p \in Peers, NEW event \in Reports, HasRoom, Emits(p, event)
    PROVE  /\ events' = Append(events, event) /\ events' \in Seq(Reports) /\ Len(events') <= EventCap
           /\ stage' \in [Peers -> {"none", "linked", "running", "over"}]
<1>1. /\ events \in Seq(Reports) /\ Len(events) < EventCap
      /\ stage \in [Peers -> {"none", "linked", "running", "over"}]
  BY DEF Typed, LoopsTyped, HasRoom
<1>2. events' = Append(events, event)
  BY DEF Emits
<1>3. events' \in Seq(Reports) /\ Len(events') <= EventCap
  BY <1>1, <1>2, ConstantsAssumption
<1>4. stage' \in [Peers -> {"none", "linked", "running", "over"}]
  BY <1>1 DEF Emits
<1> QED
  BY <1>2, <1>3, <1>4

\* What a loop receives becomes an event of its peer.
LEMMA ReceiveType ==
    ASSUME Typed, NEW p \in Peers, Receive(p)
    PROVE  \E t \in SaidTypes, i \in Indices :
            /\ inbox[p] # <<>> /\ inbox[p][1] = Message(t, i)
            /\ inbox' = [inbox EXCEPT ![p] = Tail(@)]
            /\ EventOf[t] \in EventTypes
            /\ \/ HasRoom /\ Emits(p, Event(EventOf[t], p, i)) /\ UNCHANGED held
               \/ /\ ~HasRoom /\ held' = [held EXCEPT ![p] = <<Event(EventOf[t], p, i)>>]
                  /\ UNCHANGED <<events, stage>>
<1>1. inbox[p] # <<>> /\ inbox[p] \in Seq(Said)
  BY DEF Receive, Typed, LoopsTyped
<1>2. Head(inbox[p]) = inbox[p][1] /\ inbox[p][1] \in Said
  BY <1>1
<1>3. PICK t \in SaidTypes, i \in Indices :
            inbox[p][1] = Message(t, i) /\ inbox[p][1].type = t /\ inbox[p][1].piece = i
  BY <1>2, MessageParts DEF Said
<1>4. EventOf[t] \in EventTypes
  BY ReportTypes
<1> QED
  BY <1>1, <1>2, <1>3, <1>4 DEF Receive

LEMMA NextLoopsTyped ==
    ASSUME Typed, [Next]_vars
    PROVE  LoopsTyped'
<1>0. LoopsTyped /\ PoolTyped
  BY DEF Typed
<1> USE DEF LoopsTyped
<1>1. CASE UNCHANGED <<events, loops>>
  BY <1>0, <1>1 DEF loops, peers
<1>3. CASE HandleEvent
  <2>1. PICK p \in Peers, type \in EventTypes : Takes(type, p)
    BY <1>3, Handles DEF Effect
  <2>2. events' \in Seq(Reports) /\ Len(events') <= EventCap /\ UNCHANGED loops
    BY <1>0, <2>1, TakesType, ConstantsAssumption
  <2> QED
    BY <1>0, <2>2 DEF loops, peers
<1>4. ASSUME NEW p \in Peers, Dial(p) PROVE LoopsTyped'
  <2>1. <<Plain("Bitfield")>> \in Seq(Said)
    BY SaidParts
  <2>2. inbox' \in [Peers -> Seq(Said)]
    BY <1>0, <1>4, <2>1 DEF Dial
  <2> QED
    BY <1>0, <1>4, <2>2 DEF Dial, peers
<1>5. ASSUME NEW p \in Peers, Announce(p) PROVE LoopsTyped'
  <2>1. Event("PeerConnected", p, NoPiece) \in Reports
    BY ReportTypes, MessageParts DEF EventTypes
  <2>2. events' \in Seq(Reports) /\ Len(events') <= EventCap
    BY <1>0, <1>5, <2>1, ConstantsAssumption DEF Announce, HasRoom
  <2> QED
    BY <1>0, <1>5, <2>2 DEF Announce, peers
<1>6. CASE SendToPeer
  <2>1. pend # <<>> /\ Head(pend) \in Orders
    BY <1>0, <1>6 DEF SendToPeer, PoolTyped
  <2>2. Head(pend).peer \in Peers /\ Head(pend).message \in Messages
    BY <2>1, OrderParts
  <2>3. queue' \in [Peers -> Seq(Messages)] /\ \A p \in Peers : Len(queue'[p]) <= PeerCap
    BY <1>0, <1>6, <2>2, ConstantsAssumption DEF SendToPeer
  <2> QED
    BY <1>0, <1>6, <2>3 DEF SendToPeer, peers
<1>7. ASSUME NEW p \in Peers, Receive(p) PROVE LoopsTyped'
  <2>1. PICK t \in SaidTypes, i \in Indices :
            /\ inbox[p] # <<>> /\ inbox[p][1] = Message(t, i)
            /\ inbox' = [inbox EXCEPT ![p] = Tail(@)]
            /\ EventOf[t] \in EventTypes
            /\ \/ HasRoom /\ Emits(p, Event(EventOf[t], p, i)) /\ UNCHANGED held
               \/ /\ ~HasRoom /\ held' = [held EXCEPT ![p] = <<Event(EventOf[t], p, i)>>]
                  /\ UNCHANGED <<events, stage>>
    BY <1>7, ReceiveType
  <2>2. inbox' \in [Peers -> Seq(Said)]
    BY <1>0, <2>1
  <2>3. Event(EventOf[t], p, i) \in Reports /\ <<Event(EventOf[t], p, i)>> \in HeldOf(p)
    BY <2>1, ReportTypes, HeldParts
  <2>4. /\ events' \in Seq(Reports) /\ Len(events') <= EventCap
        /\ stage' \in [Peers -> {"none", "linked", "running", "over"}]
    BY <1>0, <2>1, <2>3, EmitsType
  <2>5. DOMAIN held' = Peers /\ \A q \in Peers : held'[q] \in HeldOf(q)
    BY <1>0, <2>1, <2>3
  <2>6. UNCHANGED <<queue, peers>>
    BY <1>7 DEF Receive
  <2> QED
    BY <1>0, <2>2, <2>4, <2>5, <2>6 DEF peers
<1>8. ASSUME NEW p \in Peers, SendEvent(p) PROVE LoopsTyped'
  <2>1. PICK t \in EventTypes, i \in Indices : held[p] = <<Event(t, p, i)>> /\ held[p][1] = Event(t, p, i)
    BY <1>0, <1>8, HeldParts DEF SendEvent
  <2>2. Event(t, p, i) \in Reports
    BY ReportTypes
  <2>3. /\ events' \in Seq(Reports) /\ Len(events') <= EventCap
        /\ stage' \in [Peers -> {"none", "linked", "running", "over"}]
    BY <1>8, <2>1, <2>2, EmitsType DEF SendEvent
  <2>4. DOMAIN held' = Peers /\ \A q \in Peers : held'[q] \in HeldOf(q)
    BY <1>0, <1>8, HeldParts DEF SendEvent
  <2>5. UNCHANGED <<inbox, queue, peers>>
    BY <1>8 DEF SendEvent
  <2> QED
    BY <1>0, <2>3, <2>4, <2>5 DEF peers
<1>9. ASSUME NEW p \in Peers, Deliver(p) PROVE LoopsTyped'
  <2>1. Head(queue[p]) \in Messages /\ queue' = [queue EXCEPT ![p] = Tail(@)] /\ queue[p] # <<>>
    BY <1>0, <1>9 DEF Deliver
  <2>2. queue' \in [Peers -> Seq(Messages)] /\ \A q \in Peers : Len(queue'[q]) <= PeerCap
    BY <1>0, <2>1, ConstantsAssumption
  <2>3. Answer(p, Head(queue[p])) \in Seq(Said)
    <3>1. Answer(p, Head(queue[p])) \in
                {<<>>, <<Plain("Unchoke")>>, <<Message("Piece", Head(queue[p]).piece)>>}
      BY <2>1, SaidParts
    <3>2. Message("Piece", Head(queue[p]).piece) \in Said /\ Plain("Unchoke") \in Said
      BY <2>1, SaidParts, MessageParts DEF Messages
    <3>3. <<>> \in Seq(Said) /\ \A m \in Said : <<m>> \in Seq(Said)
      OBVIOUS
    <3> QED
      BY <3>1, <3>2, <3>3
  <2>4. inbox' \in [Peers -> Seq(Said)]
    <3>1. inbox[p] \o Answer(p, Head(queue[p])) \in Seq(Said)
      BY <1>0, <2>3
    <3>2. inbox' = inbox \/ \E s \in Seq(Said) : inbox' = [inbox EXCEPT ![p] = s]
      BY <1>0, <1>9, <3>1 DEF Deliver
    <3> QED
      BY <1>0, <3>2
  <2>5. DOMAIN held' = Peers /\ \A q \in Peers : held'[q] \in HeldOf(q)
    <3>1. held' = held \/ held' = [held EXCEPT ![p] = <<Event("PeerDisconnected", p, NoPiece)>>]
      BY <1>9 DEF Deliver
    <3>2. <<Event("PeerDisconnected", p, NoPiece)>> \in HeldOf(p)
      BY HeldParts, MessageParts DEF EventTypes
    <3> QED
      BY <1>0, <3>1, <3>2
  <2>6. {choking', interested'} \subseteq SUBSET Peers
    BY <1>0, <1>9 DEF Deliver
  <2>7. UNCHANGED <<events, stage>>
    BY <1>9 DEF Deliver
  <2> QED
    BY <1>0, <2>2, <2>4, <2>5, <2>6, <2>7
<1>10. ASSUME NEW p \in Peers, Dismissed(p) PROVE LoopsTyped'
  BY <1>0, <1>10 DEF Dismissed, peers
<1>11. ASSUME NEW p \in Peers, PeerSays(p) \/ PeerTurns(p) \/ PeerLeaves(p) PROVE LoopsTyped'
  <2>1. PICK m \in Said : Writes(p, m)
    BY <1>11, SpeaksType
  <2>2. inbox' \in [Peers -> Seq(Said)]
    BY <1>0, <2>1 DEF Writes
  <2>3. UNCHANGED <<events, stage, queue, held, interested>> /\ choking' \in SUBSET Peers
    BY <1>11, SpeaksType
  <2> QED
    BY <1>0, <2>2, <2>3
<1>12. CASE StartLoop \/ SendCommand \/ TakeCommand \/ PexTick \/ UNCHANGED vars
  <2>1. UNCHANGED <<events, loops>>
    BY <1>12 DEF StartLoop, SendCommand, TakeCommand, PexTick, vars
  <2> QED
    BY <1>1, <2>1
<1>13. ASSUME NEW p \in Peers, RequestOne(p) \/ BanExpires(p) PROVE LoopsTyped'
  <2>1. UNCHANGED <<events, loops>>
    BY <1>13 DEF RequestOne, BanExpires
  <2> QED
    BY <1>1, <2>1
<1>14. ASSUME NEW i \in Pieces, OnStale(i) PROVE LoopsTyped'
  <2>1. UNCHANGED <<events, loops>>
    BY <1>14 DEF OnStale
  <2> QED
    BY <1>1, <2>1
<1> QED
  BY <1>1, <1>3, <1>4, <1>5, <1>6, <1>7, <1>8, <1>9, <1>10, <1>11, <1>12, <1>13, <1>14
     DEF Next, Step, CoordinatorStep, PoolStep, LoopStep

\* In every run the tables keep their types and no channel overflows: whoever
\* sends into a full one waits.
THEOREM TypeCorrect == Spec => []Typed
<1>1. Typed /\ [Next]_vars => Typed'
  BY NextCoordinatorTyped, NextPoolTyped, NextLoopsTyped DEF Typed
<1> QED
  BY <1>1, InitTyped, PTL DEF Spec

----------------------------------------------------------------------------
(* Peers that have left *)

\* No table names p.
Forgotten(p) ==
    /\ p \notin DOMAIN holds \cup unchoked \cup banned
    /\ burst[p] = 0
    /\ \A i \in DOMAIN inFlight : inFlight[i] # p
    /\ \A i \in DOMAIN stamps : stamps[i] # p

Silent(p) == \A k \in DOMAIN events : events[k].peer # p

\* The end of p's connection is reported, and nothing of p after it.
Reported(p) ==
    \E k \in DOMAIN events :
        /\ events[k].type = "PeerDisconnected" /\ events[k].peer = p
        /\ \A m \in DOMAIN events : m > k => events[m].peer # p

\* The loop of a peer ended by itself has nothing more to say, and its last
\* word is on the way or everything is cleared.
LeavesNothing ==
    \A p \in tx : stage[p] = "over" =>
        held[p] = <<>> /\ (Reported(p) \/ (Silent(p) /\ Forgotten(p)))

memory == <<holds, inFlight, stamps, unchoked, banned, burst>>

\* Nothing but what p sends brings it into a table.
LEMMA StaysForgotten ==
    ASSUME Typed, NEW p \in Peers, Forgotten(p),
           \/ UNCHANGED memory
           \/ SendCommand \/ PexTick
           \/ \E i \in Pieces : OnStale(i)
           \/ \E q \in Peers : BanExpires(q)
           \/ \E q \in Peers : RequestOne(q)
    PROVE  Forgotten(p)'
<1>0. /\ burst \in [Peers -> Nat] /\ burst[p] = 0
      /\ unchoked \subseteq Peers
  BY DEF Typed, CoordinatorTyped, Forgotten
<1>1. CASE UNCHANGED memory
  BY <1>1 DEF memory, Forgotten
<1>2. CASE SendCommand
  BY <1>1, <1>2 DEF SendCommand, Goes, memory, sched, tables
<1>3. ASSUME burst' = Nobody, UNCHANGED <<holds, inFlight, stamps, unchoked, banned>> PROVE Forgotten(p)'
  BY <1>3, NobodyType DEF Forgotten
<1>4. CASE PexTick
  <2>1. burst' = Nobody
    BY <1>4, TickGoes DEF Goes
  <2> QED
    BY <1>3, <1>4, <2>1 DEF PexTick, sched, tables
<1>5. ASSUME NEW i \in Pieces, OnStale(i) PROVE Forgotten(p)'
  <2>1. burst' = Nobody
    BY <1>5, StaleGoes DEF Goes
  <2>2. UNCHANGED <<holds, inFlight, unchoked, banned>>
    BY <1>5 DEF OnStale, sched
  <2>3. \/ \E best \in unchoked : stamps' = Insert(stamps, i, best)
        \/ stamps' = Restrict(stamps, DOMAIN stamps \ {i})
    BY <1>5 DEF OnStale
  <2>4. p \notin unchoked /\ \A j \in DOMAIN stamps : stamps[j] # p
    BY DEF Forgotten
  <2>5. \A j \in DOMAIN stamps' : stamps'[j] # p
    <3>1. ASSUME NEW best \in unchoked, stamps' = Insert(stamps, i, best)
          PROVE  \A j \in DOMAIN stamps' : stamps'[j] # p
      BY <2>4, <3>1 DEF Insert, Sched!Insert
    <3>2. ASSUME stamps' = Restrict(stamps, DOMAIN stamps \ {i})
          PROVE  \A j \in DOMAIN stamps' : stamps'[j] # p
      BY <2>4, <3>2 DEF Restrict
    <3> QED
      BY <2>3, <3>1, <3>2
  <2> QED
    BY <2>1, <2>2, <2>5, NobodyType DEF Forgotten
<1>6. ASSUME NEW q \in Peers, BanExpires(q) PROVE Forgotten(p)'
  BY <1>6 DEF BanExpires, sched, Forgotten
<1>7. ASSUME NEW q \in Peers, RequestOne(q) PROVE Forgotten(p)'
  <2>1. q # p
    BY <1>0, <1>7 DEF RequestOne
  <2>2. UNCHANGED <<unchoked, banned>>
    BY <1>7 DEF RequestOne
  <2>3. Requested(q)
    BY <1>7, RequestGoes
  <2> QED
    BY <2>1, <2>2, <2>3 DEF Requested, Forgotten
<1> QED
  BY <1>1, <1>2, <1>4, <1>5, <1>6, <1>7

LEMMA NextLeavesNothing ==
    Typed /\ LeavesNothing /\ [Next]_vars => LeavesNothing'
<1> SUFFICES ASSUME Typed, LeavesNothing, [Next]_vars, NEW p \in tx', stage'[p] = "over"
             PROVE  held'[p] = <<>> /\ (Reported(p)' \/ (Silent(p)' /\ Forgotten(p)'))
  BY DEF LeavesNothing
<1> DEFINE Goal == held'[p] = <<>> /\ (Reported(p)' \/ (Silent(p)' /\ Forgotten(p)'))
<1>0. /\ events \in Seq(Reports) /\ tx \in SUBSET Peers
      /\ stage \in [Peers -> {"none", "linked", "running", "over"}]
      /\ DOMAIN held = Peers /\ \A q \in Peers : held[q] \in HeldOf(q)
      /\ burst \in [Peers -> Nat] /\ p \in Peers
  <2>1. tx' \in SUBSET Peers
    BY NextPoolTyped DEF PoolTyped
  <2> QED
    BY <2>1 DEF Typed, LoopsTyped, PoolTyped, CoordinatorTyped
<1>1. ASSUME p \in tx, stage[p] = "over", held'[p] = held[p], events' = events,
             Forgotten(p) => Forgotten(p)'
      PROVE  Goal
  BY <1>1 DEF LeavesNothing, Reported, Silent
<1>2. ASSUME NEW e \in Reports, e.peer # p, events' = Append(events, e),
             p \in tx, stage[p] = "over", held'[p] = held[p], UNCHANGED memory
      PROVE  Goal
  <2>1. /\ \A k \in DOMAIN events : k \in DOMAIN events' /\ events'[k] = events[k]
        /\ \A k \in DOMAIN events' : k \in DOMAIN events \/ events'[k] = e
    BY <1>0, <1>2
  <2>2. Silent(p) => Silent(p)'
    BY <1>2, <2>1 DEF Silent
  <2>3. Reported(p) => Reported(p)'
    BY <1>2, <2>1 DEF Reported
  <2>4. Forgotten(p) => Forgotten(p)'
    BY <1>0, <1>2, StaysForgotten
  <2> QED
    BY <1>2, <2>2, <2>3, <2>4 DEF LeavesNothing
<1>3. CASE HandleEvent
  <2>1. PICK q \in Peers, type \in EventTypes : \E list, picks : Effect(q, type, list, picks)
    BY <1>3, Handles
  <2>2. /\ Takes(type, q) /\ burst' \in [Peers -> Nat] /\ \A r \in Peers \ {q} : burst'[r] = 0
        /\ unchoked' \subseteq unchoked \cup {q} /\ banned' \subseteq banned \cup {q}
        /\ DOMAIN holds' \subseteq DOMAIN holds \cup {q}
        /\ Part(inFlight', inFlight) /\ Part(stamps', stamps)
    BY <2>1 DEF Effect, Goes, PicksFor
  <2>3. type = "PeerDisconnected" => Forgotten(q)'
    BY <2>1, NobodyType DEF Effect, Goes, Forgotten
  <2>4. p \in tx /\ stage[p] = "over" /\ held'[p] = held[p]
    BY <2>2, TakesType DEF pooling, loops
  <2>5. CASE q = p
    <3>1. events[1].peer = p /\ ~Silent(p)
      BY <2>2, <2>5, TakesType DEF Silent
    <3>2. PICK k \in DOMAIN events : /\ events[k].type = "PeerDisconnected" /\ events[k].peer = p
                                     /\ \A m \in DOMAIN events : m > k => events[m].peer # p
      BY <2>4, <3>1 DEF LeavesNothing, Reported
    <3>3. CASE k = 1
      <4>1. type = "PeerDisconnected"
        BY <2>2, <3>2, <3>3, TakesType
      <4>2. Silent(p)'
        BY <2>2, <3>2, <3>3, TakesType DEF Silent
      <4> QED
        BY <2>3, <2>4, <2>5, <4>1, <4>2 DEF LeavesNothing
    <3>4. CASE k # 1
      <4>1. /\ k - 1 \in DOMAIN events'
            /\ events'[k - 1].type = "PeerDisconnected" /\ events'[k - 1].peer = p
        BY <2>2, <3>2, <3>4, TakesType
      <4>2. ASSUME NEW m \in DOMAIN events', m > k - 1 PROVE events'[m].peer # p
        <5>1. m \in Nat /\ m + 1 \in DOMAIN events /\ events'[m] = events[m + 1]
          <6>1. Takes(type, q) /\ m \in DOMAIN events'
            BY <2>2, <4>2
          <6> QED
            BY <6>1, TakesType
        <5>2. k \in Nat
          <6>1. events \in Seq(Reports) /\ k \in DOMAIN events
            BY <1>0, <3>2
          <6> QED
            BY <6>1
        <5> QED
          BY <3>2, <4>2, <5>1, <5>2
      <4>3. Reported(p)'
        BY <4>1, <4>2 DEF Reported
      <4> QED
        BY <2>4, <4>3 DEF LeavesNothing
    <3> QED
      BY <3>3, <3>4
  <2>6. CASE q # p
    <3>1. Silent(p) => Silent(p)'
      BY <2>2, TakesType DEF Silent
    <3>2. Forgotten(p) => Forgotten(p)'
      BY <1>0, <2>2, <2>6 DEF Forgotten, Part
    <3>3. Reported(p) => Reported(p)'
      <4>1. SUFFICES ASSUME NEW k \in DOMAIN events,
                            events[k].type = "PeerDisconnected", events[k].peer = p,
                            \A m \in DOMAIN events : m > k => events[m].peer # p
                     PROVE  Reported(p)'
        BY DEF Reported
      <4>2. k # 1
        BY <2>2, <2>6, <4>1, TakesType
      <4>3. /\ k - 1 \in DOMAIN events'
            /\ events'[k - 1].type = "PeerDisconnected" /\ events'[k - 1].peer = p
        BY <2>2, <4>1, <4>2, TakesType
      <4>4. ASSUME NEW m \in DOMAIN events', m > k - 1 PROVE events'[m].peer # p
        <5>1. m \in Nat /\ m + 1 \in DOMAIN events /\ events'[m] = events[m + 1]
          <6>1. Takes(type, q) /\ m \in DOMAIN events'
            BY <2>2, <4>4
          <6> QED
            BY <6>1, TakesType
        <5>2. k \in Nat
          <6>1. events \in Seq(Reports) /\ k \in DOMAIN events
            BY <1>0, <4>1
          <6> QED
            BY <6>1
        <5> QED
          BY <4>1, <4>4, <5>1, <5>2
      <4> QED
        BY <4>3, <4>4 DEF Reported
    <3> QED
      BY <2>4, <3>1, <3>2, <3>3 DEF LeavesNothing
  <2> QED
    BY <2>5, <2>6
<1>4. ASSUME NEW q \in Peers, NEW e \in Reports, e.peer = q, held[q] = <<>> \/ held[q] = <<e>>,
             Emits(q, e), held'[q] = <<>>, \A r \in Peers \ {q} : held'[r] = held[r],
             stage[q] = "over" => held[q] # <<>>,
             tx' = tx, UNCHANGED memory
      PROVE  Goal
  <2>1. /\ events' = Append(events, e)
        /\ stage' = [stage EXCEPT ![q] = IF e.type = "PeerDisconnected" THEN "over" ELSE @]
    BY <1>4 DEF Emits
  <2>2. CASE q = p
    <3>1. stage[p] # "over"
      BY <1>4, <2>2 DEF LeavesNothing
    <3>2. e.type = "PeerDisconnected"
      BY <1>0, <2>1, <2>2, <3>1
    <3>3. Reported(p)'
      BY <1>0, <1>4, <2>1, <2>2, <3>2 DEF Reported
    <3> QED
      BY <1>4, <2>2, <3>3
  <2>3. CASE q # p
    <3>1. stage[p] = "over" /\ held'[p] = held[p]
      BY <1>0, <1>4, <2>1, <2>3
    <3> QED
      BY <1>2, <1>4, <2>1, <2>3, <3>1
  <2> QED
    BY <2>2, <2>3
<1>5. ASSUME NEW q \in Peers, Announce(q) PROVE Goal
  <2>1. /\ events' = Append(events, Event("PeerConnected", q, NoPiece)) /\ q # p
        /\ UNCHANGED <<memory, held, tx>> /\ stage[p] = "over"
    BY <1>0, <1>5 DEF Announce, pooling, coordinator, sched, tables, memory
  <2>2. Event("PeerConnected", q, NoPiece) \in Reports /\ Event("PeerConnected", q, NoPiece).peer = q
    BY ReportTypes, MessageParts DEF EventTypes
  <2> QED
    BY <1>2, <2>1, <2>2
<1>6. ASSUME NEW q \in Peers, Dial(q) PROVE Goal
  <2>1. q # p /\ p \in tx /\ stage[p] = "over"
    BY <1>0, <1>6 DEF Dial
  <2>2. UNCHANGED <<memory, held, events>>
    BY <1>6 DEF Dial, sched, memory
  <2> QED
    BY <1>0, <1>1, <2>1, <2>2, StaysForgotten
<1>7. ASSUME NEW q \in Peers, Receive(q) PROVE Goal
  <2>1. tx' = tx /\ UNCHANGED memory /\ stage[q] = "running" /\ held[q] = <<>>
    BY <1>7 DEF Receive, Free, Runs, pooling, coordinator, sched, tables, memory
  <2>2. PICK t \in SaidTypes, i \in Indices :
            /\ EventOf[t] \in EventTypes
            /\ \/ HasRoom /\ Emits(q, Event(EventOf[t], q, i)) /\ UNCHANGED held
               \/ /\ ~HasRoom /\ held' = [held EXCEPT ![q] = <<Event(EventOf[t], q, i)>>]
                  /\ UNCHANGED <<events, stage>>
    BY <1>7, ReceiveType
  <2>3. Event(EventOf[t], q, i) \in Reports /\ Event(EventOf[t], q, i).peer = q
    BY <2>2, ReportTypes
  <2>4. CASE Emits(q, Event(EventOf[t], q, i)) /\ UNCHANGED held
    BY <1>4, <2>1, <2>3, <2>4
  <2>5. CASE held' = [held EXCEPT ![q] = <<Event(EventOf[t], q, i)>>] /\ UNCHANGED <<events, stage>>
    <3>1. q # p /\ stage[p] = "over" /\ held'[p] = held[p]
      BY <1>0, <2>1, <2>5
    <3> QED
      BY <1>0, <1>1, <2>1, <2>5, <3>1, StaysForgotten
  <2> QED
    BY <2>2, <2>4, <2>5
<1>8. ASSUME NEW q \in Peers, SendEvent(q) PROVE Goal
  <2>1. PICK t \in EventTypes, i \in Indices : held[q] = <<Event(t, q, i)>> /\ held[q][1] = Event(t, q, i)
    BY <1>0, <1>8, HeldParts DEF SendEvent
  <2>2. Event(t, q, i) \in Reports /\ Event(t, q, i).peer = q
    BY ReportTypes
  <2>3. /\ Emits(q, Event(t, q, i)) /\ held' = [held EXCEPT ![q] = <<>>] /\ held[q] # <<>>
        /\ tx' = tx /\ UNCHANGED memory
    BY <1>8, <2>1 DEF SendEvent, pooling, coordinator, sched, tables, memory
  <2> QED
    BY <1>0, <1>4, <2>1, <2>2, <2>3
<1>9. ASSUME NEW q \in Peers, Deliver(q) \/ Dismissed(q) PROVE Goal
  <2>1. tx' = tx /\ events' = events /\ UNCHANGED memory /\ stage[q] = "running"
    BY <1>9 DEF Deliver, Dismissed, Free, Runs, pooling, coordinator, sched, tables, memory
  <2>2. q # p /\ stage[p] = "over"
    BY <1>0, <1>9, <2>1 DEF Deliver, Dismissed
  <2>3. held'[p] = held[p]
    BY <1>0, <1>9, <2>2 DEF Deliver, Dismissed
  <2> QED
    BY <1>0, <1>1, <2>1, <2>2, <2>3, StaysForgotten
<1>10. CASE TakeCommand
  <2>1. p \in tx /\ UNCHANGED <<events, memory, stage, held>>
    BY <1>10 DEF TakeCommand, loops, coordinator, sched, tables, memory
  <2> QED
    BY <1>0, <1>1, <2>1, StaysForgotten
<1>11. ASSUME UNCHANGED <<events, stage, held, tx>>, Forgotten(p) => Forgotten(p)' PROVE Goal
  BY <1>1, <1>11
<1>12. ASSUME NEW q \in Peers, PeerSays(q) \/ PeerTurns(q) \/ PeerLeaves(q) PROVE Goal
  <2>1. UNCHANGED <<coordinator, pooling, events, stage, held>>
    BY <1>12, SpeaksType
  <2>2. UNCHANGED <<events, memory, stage, held, tx>>
    BY <2>1 DEF coordinator, pooling, sched, tables, memory
  <2> QED
    BY <1>0, <1>11, <2>2, StaysForgotten
<1>13. CASE StartLoop \/ SendToPeer \/ UNCHANGED vars
  <2>1. UNCHANGED <<events, memory, stage, held, tx>>
    BY <1>13 DEF StartLoop, SendToPeer, vars, coordinator, pooling, loops, sched, tables, memory
  <2> QED
    BY <1>0, <1>11, <2>1, StaysForgotten
<1>14. CASE SendCommand \/ PexTick
  <2>1. UNCHANGED <<events, stage, held, tx>>
    BY <1>14 DEF SendCommand, PexTick, pooling, loops
  <2> QED
    BY <1>0, <1>11, <1>14, <2>1, StaysForgotten
<1>15. ASSUME NEW q \in Peers, RequestOne(q) \/ BanExpires(q) PROVE Goal
  <2>1. UNCHANGED <<events, stage, held, tx>>
    BY <1>15 DEF RequestOne, BanExpires, pooling, loops
  <2> QED
    BY <1>0, <1>11, <1>15, <2>1, StaysForgotten
<1>16. ASSUME NEW i \in Pieces, OnStale(i) PROVE Goal
  <2>1. UNCHANGED <<events, stage, held, tx>>
    BY <1>16 DEF OnStale, pooling, loops
  <2> QED
    BY <1>0, <1>11, <1>16, <2>1, StaysForgotten
<1> QED
  BY <1>3, <1>5, <1>6, <1>7, <1>8, <1>9, <1>10, <1>12, <1>13, <1>14, <1>15, <1>16
     DEF Next, Step, CoordinatorStep, PoolStep, LoopStep

\* When a connection has ended by itself and what it sent is handled, the scheduler, the
\* unchoked, the bans and the timestamps are free of the peer (coordinator.rs:325-336): its
\* last event is its end, no event of it comes after, and no pick, broadcast or re-request
\* brings it back.
THEOREM ReleasedWhenGoneCorrect == Spec => []ReleasedWhenGone
<1>1. Init => LeavesNothing
  BY DEF Init, LeavesNothing
<1>2. Typed /\ LeavesNothing => ReleasedWhenGone
  <2> SUFFICES ASSUME Typed, LeavesNothing, NEW p \in tx, stage[p] = "over", Silent(p)
               PROVE  Forgotten(p)
    BY DEF ReleasedWhenGone, Silent, Forgotten, Sched!Registered
  <2>1. ~Reported(p)
    BY DEF Reported, Silent
  <2> QED
    BY <2>1 DEF LeavesNothing
<1> QED
  BY <1>1, <1>2, TypeCorrect, NextLeavesNothing, PTL DEF Spec

----------------------------------------------------------------------------
(* Counting *)

\* What a condition adds to a number.
Flag(b) == IF b THEN 1 ELSE 0

\* How often an element of S occurs in the sequence s.
Count(s, S) == Cardinality({k \in DOMAIN s : s[k] \in S})

\* The sum of f over the peers: one slot for each unit.
Slots(f) == UNION {{p} \X (1 .. f[p]) : p \in Peers}
Sum(f) == Cardinality(Slots(f))

LEMMA CountType ==
    ASSUME NEW T, NEW s \in Seq(T), NEW S
    PROVE  /\ IsFiniteSet({k \in DOMAIN s : s[k] \in S})
           /\ Count(s, S) \in Nat
           /\ Count(<<>>, S) = 0
           /\ (\A k \in DOMAIN s : s[k] \notin S) => Count(s, S) = 0
           /\ (\E k \in DOMAIN s : s[k] \in S) => Count(s, S) >= 1
<1> DEFINE K == {k \in DOMAIN s : s[k] \in S}
<1>1. IsFiniteSet(DOMAIN s)
  BY FS_Interval
<1>2. IsFiniteSet(K) /\ Cardinality(K) \in Nat
  BY <1>1, FS_Subset, FS_CardinalityType
<1>3. {k \in DOMAIN <<>> : <<>>[k] \in S} = {}
  OBVIOUS
<1>4. (\A k \in DOMAIN s : s[k] \notin S) => K = {}
  OBVIOUS
<1>5. (\E k \in DOMAIN s : s[k] \in S) => K # {}
  OBVIOUS
<1>6. Count(s, S) = Cardinality(K) /\ Count(<<>>, S) = 0
  BY <1>3, FS_EmptySet DEF Count
<1> HIDE DEF K
<1>7. Cardinality(K) = 0 <=> K = {}
  BY <1>2, FS_EmptySet
<1> QED
  BY <1>2, <1>4, <1>5, <1>6, <1>7 DEF K

LEMMA CountAppend ==
    ASSUME NEW T, NEW s \in Seq(T), NEW x \in T, NEW S
    PROVE  Count(Append(s, x), S) = Count(s, S) + Flag(x \in S)
<1> DEFINE K == {k \in DOMAIN s : s[k] \in S}
           new == {k \in DOMAIN Append(s, x) : Append(s, x)[k] \in S}
           n == Len(s) + 1
<1>1. IsFiniteSet(K) /\ Cardinality(K) \in Nat /\ n \notin K
  BY CountType DEF Count
<1>2. new = IF x \in S THEN K \cup {n} ELSE K
  OBVIOUS
<1>3. Cardinality(new) = IF x \in S THEN Cardinality(K) + 1 ELSE Cardinality(K)
  <2> HIDE DEF K, new, n
  <2> QED
    BY <1>1, <1>2, FS_AddElement
<1>4. Count(s, S) = Cardinality(K) /\ Count(Append(s, x), S) = Cardinality(new)
  BY DEF Count
<1> HIDE DEF K, new
<1> QED
  BY <1>1, <1>3, <1>4 DEF Flag

LEMMA CountTail ==
    ASSUME NEW T, NEW s \in Seq(T), s # <<>>, NEW S
    PROVE  Count(s, S) = Flag(Head(s) \in S) + Count(Tail(s), S)
<1> DEFINE K == {k \in DOMAIN s : s[k] \in S}
           R == {k \in DOMAIN Tail(s) : Tail(s)[k] \in S}
           f == [k \in R |-> k + 1]
<1>1. Tail(s) \in Seq(T) /\ 1 \in DOMAIN s /\ Head(s) = s[1]
  OBVIOUS
<1>2. IsFiniteSet(K) /\ IsFiniteSet(R) /\ Cardinality(K) \in Nat /\ Cardinality(R) \in Nat
  BY <1>1, CountType DEF Count
<1>3. \A k \in DOMAIN Tail(s) : k \in Nat /\ k >= 1 /\ k + 1 \in DOMAIN s /\ Tail(s)[k] = s[k + 1]
  OBVIOUS
<1>4. \A k \in DOMAIN s :
        k # 1 => k \in Nat /\ k - 1 \in DOMAIN Tail(s) /\ Tail(s)[k - 1] = s[k] /\ (k - 1) + 1 = k
  OBVIOUS
<1>5. f \in Bijection(R, K \ {1})
  <2>1. f \in [R -> K \ {1}]
    BY <1>3
  <2>2. \A a, b \in R : f[a] = f[b] => a = b
    BY <1>3
  <2>3. \A k \in K \ {1} : \E a \in R : f[a] = k
    <3> TAKE k \in K \ {1}
    <3>1. k - 1 \in R /\ f[k - 1] = k
      BY <1>4
    <3> QED
      BY <3>1
  <2> HIDE DEF f, R, K
  <2> QED
    BY <2>1, <2>2, <2>3 DEF Bijection, Injection, Surjection, IsInjective
<1>6. Cardinality(K \ {1}) = Cardinality(R)
  <2> HIDE DEF f, R, K
  <2>1. ExistsBijection(R, K \ {1})
    BY <1>5 DEF ExistsBijection
  <2> QED
    BY <1>2, <2>1, FS_Bijection
<1>7. Cardinality(K \ {1}) = IF 1 \in K THEN Cardinality(K) - 1 ELSE Cardinality(K)
  <2> HIDE DEF K
  <2> QED
    BY <1>2, FS_RemoveElement
<1>8. 1 \in K <=> Head(s) \in S
  BY <1>1
<1>9. Count(s, S) = Cardinality(K) /\ Count(Tail(s), S) = Cardinality(R)
  BY DEF Count
<1> HIDE DEF K, R
<1> QED
  BY <1>2, <1>6, <1>7, <1>8, <1>9 DEF Flag

----------------------------------------------------------------------------

LEMMA SlotsFinite ==
    ASSUME NEW f \in [Peers -> Nat]
    PROVE  IsFiniteSet(Slots(f)) /\ Sum(f) \in Nat
<1> DEFINE parts == {{p} \X (1 .. f[p]) : p \in Peers}
           g == [p \in Peers |-> {p} \X (1 .. f[p])]
<1>1. g \in Surjection(Peers, parts)
  BY DEF Surjection
<1>2. IsFiniteSet(parts)
  <2> HIDE DEF parts, g
  <2> QED
    BY <1>1, ConstantsAssumption, FS_Surjection
<1>3. \A x \in parts : IsFiniteSet(x)
  <2> SUFFICES ASSUME NEW p \in Peers PROVE IsFiniteSet({p} \X (1 .. f[p]))
    OBVIOUS
  <2>1. IsFiniteSet({p})
    BY FS_Singleton
  <2>2. IsFiniteSet(1 .. f[p])
    <3>1. f[p] \in Int /\ 1 \in Int
      OBVIOUS
    <3> QED
      BY <3>1, FS_Interval
  <2> QED
    BY <2>1, <2>2, FS_Product
<1>4. IsFiniteSet(UNION parts)
  <2> HIDE DEF parts
  <2> QED
    BY <1>2, <1>3, FS_UNION
<1> QED
  BY <1>4, FS_CardinalityType DEF Slots, Sum

LEMMA SumSplit ==
    ASSUME NEW f \in [Peers -> Nat], NEW p \in Peers
    PROVE  Sum(f) = Sum([f EXCEPT ![p] = 0]) + f[p]
<1> DEFINE rest == [f EXCEPT ![p] = 0]
           own == {p} \X (1 .. f[p])
<1>1. rest \in [Peers -> Nat] /\ rest[p] = 0 /\ \A q \in Peers : q # p => rest[q] = f[q]
  OBVIOUS
<1>2. IsFiniteSet(own) /\ Cardinality(own) = f[p]
  <2>1. IsFiniteSet({p}) /\ Cardinality({p}) = 1
    BY FS_Singleton
  <2>2. IsFiniteSet(1 .. f[p]) /\ Cardinality(1 .. f[p]) = f[p]
    BY FS_Interval
  <2>3. IsFiniteSet(own) /\ Cardinality(own) = 1 * f[p]
    BY <2>1, <2>2, FS_Product
  <2> QED
    BY <2>3
<1> HIDE DEF rest
<1>3. \A s : s \in Slots(f) <=> \E q \in Peers : s \in {q} \X (1 .. f[q])
  BY DEF Slots
<1>4. \A s : s \in Slots(rest) <=> \E q \in Peers : s \in {q} \X (1 .. rest[q])
  BY DEF Slots
<1>5. \A s \in Slots(rest) : s[1] # p
  BY <1>1, <1>4
<1>6. \A s \in own : s[1] = p
  OBVIOUS
<1>7. Slots(f) = Slots(rest) \cup own
  <2>1. Slots(f) \subseteq Slots(rest) \cup own
    BY <1>1, <1>3, <1>4
  <2>2. Slots(rest) \subseteq Slots(f)
    BY <1>1, <1>3, <1>4, <1>5
  <2>3. own \subseteq Slots(f)
    BY <1>3
  <2> QED
    BY <2>1, <2>2, <2>3
<1>8. Slots(rest) \cap own = {}
  BY <1>5, <1>6
<1>9. IsFiniteSet(Slots(rest)) /\ Cardinality(Slots(rest)) \in Nat
  BY <1>1, SlotsFinite DEF Sum
<1> HIDE DEF own
<1>10. Cardinality(Slots(f)) = Cardinality(Slots(rest)) + f[p]
  BY <1>2, <1>7, <1>8, <1>9, FS_Union, FS_EmptySet
<1> QED
  BY <1>10 DEF Sum, rest

LEMMA SumZero ==
    ASSUME NEW f \in [Peers -> Nat], \A p \in Peers : f[p] = 0
    PROVE  Sum(f) = 0
<1>1. Slots(f) = {}
  BY DEF Slots
<1> QED
  BY <1>1, FS_EmptySet DEF Sum

\* Who has no more than f[p] of every p has no more than the sum.
LEMMA SumBounds ==
    ASSUME NEW K, IsFiniteSet(K), NEW owner \in [K -> Peers], NEW f \in [Peers -> Nat],
           \A p \in Peers : Cardinality({k \in K : owner[k] = p}) <= f[p]
    PROVE  Cardinality(K) <= Sum(f)
<1> DEFINE Own(p) == {k \in K : owner[k] = p}
           num == [p \in Peers |-> CHOOSE b : b \in Injection(Own(p), 1 .. f[p])]
           g == [k \in K |-> <<owner[k], num[owner[k]][k]>>]
<1>1. ASSUME NEW p \in Peers PROVE num[p] \in Injection(Own(p), 1 .. f[p])
  <2>1. IsFiniteSet(Own(p)) /\ Cardinality(Own(p)) \in Nat /\ Cardinality(Own(p)) <= f[p]
    BY FS_Subset, FS_CardinalityType
  <2>2. IsFiniteSet(1 .. Cardinality(Own(p))) /\ Cardinality(1 .. Cardinality(Own(p))) = Cardinality(Own(p))
    BY <2>1, FS_Interval
  <2> HIDE DEF Own
  <2>3. PICK b : b \in Bijection(Own(p), 1 .. Cardinality(Own(p)))
    BY <2>1, <2>2, FS_SameCardinalityBij DEF ExistsBijection
  <2>4. b \in Injection(Own(p), 1 .. f[p])
    <3>1. 1 .. Cardinality(Own(p)) \subseteq 1 .. f[p]
      BY <2>1
    <3> QED
      BY <2>3, <3>1 DEF Bijection, Injection
  <2> QED
    BY <2>4
<1> HIDE DEF num
<1>2. ASSUME NEW k \in K
      PROVE  /\ k \in Own(owner[k]) /\ owner[k] \in Peers
             /\ num[owner[k]][k] \in 1 .. f[owner[k]]
  <2>1. k \in Own(owner[k]) /\ owner[k] \in Peers
    OBVIOUS
  <2> HIDE DEF Own
  <2> QED
    BY <1>1, <2>1 DEF Injection
<1>3. g \in [K -> Slots(f)]
  <2>1. ASSUME NEW k \in K PROVE <<owner[k], num[owner[k]][k]>> \in Slots(f)
    BY <1>2 DEF Slots
  <2> QED
    BY <2>1
<1>4. ASSUME NEW a \in K, NEW b \in K, g[a] = g[b] PROVE a = b
  <2>1. owner[a] = owner[b] /\ num[owner[a]][a] = num[owner[a]][b]
    BY <1>4
  <2>2. a \in Own(owner[a]) /\ b \in Own(owner[a]) /\ owner[a] \in Peers
    BY <1>2, <2>1
  <2> HIDE DEF Own
  <2> QED
    BY <1>1, <2>1, <2>2 DEF Injection, IsInjective
<1>5. g \in Injection(K, Slots(f))
  <2> HIDE DEF g
  <2> QED
    BY <1>3, <1>4 DEF Injection, IsInjective
<1> HIDE DEF g
<1> QED
  BY <1>5, SlotsFinite, FS_Injection DEF Sum

----------------------------------------------------------------------------
(* The course of a connection *)

\* Nothing is said before the connection is made nor after it has ended, the end
\* is the last that is reported of it, and what a peer may say is counted.
InCourse ==
    /\ says \in [Peers -> Nat]
    /\ \A p \in Peers :
        /\ p \in todo => stage[p] = "none"
        /\ stage[p] = "none" => inbox[p] = <<>> /\ held[p] = <<>>
        /\ stage[p] = "over" => held[p] = <<>>
        /\ \A k \in DOMAIN events : events[k].type = "PeerDisconnected" /\ events[k].peer = p =>
              stage[p] = "over" /\ \A m \in DOMAIN events : m > k => events[m].peer # p

LEMMA NextTyped == Typed /\ [Next]_vars => Typed'
  BY NextCoordinatorTyped, NextPoolTyped, NextLoopsTyped DEF Typed

\* What the coordinator and the pool do, but for the handlers and the first connections.
Inner ==
    \/ StartLoop \/ SendCommand \/ PexTick \/ PoolStep
    \/ \E i \in Pieces : OnStale(i)
    \/ \E q \in Peers : RequestOne(q) \/ BanExpires(q)

\* What belongs to one connection.
PeerStep(q) ==
    Dial(q) \/ Announce(q) \/ LoopStep(q) \/ PeerSays(q) \/ PeerTurns(q) \/ PeerLeaves(q)

LEMMA Steps == [Next]_vars => HandleEvent \/ Inner \/ (\E q \in Peers : PeerStep(q)) \/ UNCHANGED vars
  BY DEF Next, Step, CoordinatorStep, Inner, PeerStep

LEMMA InnerKeeps ==
    ASSUME Inner
    PROVE  UNCHANGED <<events, stage, inbox, held, says, todo, choking>>
<1>1. ASSUME NEW i \in Pieces, OnStale(i)
      PROVE  UNCHANGED <<events, stage, inbox, held, says, todo, choking>>
  BY <1>1 DEF OnStale, loops, peers
<1>2. ASSUME NEW q \in Peers, RequestOne(q) \/ BanExpires(q)
      PROVE  UNCHANGED <<events, stage, inbox, held, says, todo, choking>>
  BY <1>2 DEF RequestOne, BanExpires, loops, peers
<1>3. CASE StartLoop \/ SendCommand \/ PexTick
  BY <1>3 DEF StartLoop, SendCommand, PexTick, loops, peers, tables
<1>4. CASE PoolStep
  BY <1>4 DEF PoolStep, TakeCommand, SendToPeer, coordinator, loops, peers, tables
<1> QED
  BY <1>1, <1>2, <1>3, <1>4 DEF Inner

\* A peer that speaks says one thing; of what it may say unasked that is one less.
LEMMA SpeaksCounts ==
    ASSUME Typed, says \in [Peers -> Nat], NEW p \in Peers, PeerSays(p) \/ PeerTurns(p) \/ PeerLeaves(p)
    PROVE  /\ stage[p] \notin {"none", "over"} /\ ~Closed(p)
           /\ says' \in [Peers -> Nat] /\ \A q \in Peers \ {p} : says'[q] = says[q]
           /\ UNCHANGED <<out, todo, commands, pend, queue, events, stage, held, at>>
           /\ \E t \in SaidTypes, i \in Indices :
                /\ inbox' = [inbox EXCEPT ![p] = Append(@, Message(t, i))]
                /\ \/ t = "Close" /\ i = NoPiece /\ p \in MayLeave /\ says' = says
                   \/ /\ t \in {"Have", "Pex", "Dropped", "Choke", "Unchoke"}
                      /\ inbox[p] = <<>> /\ says[p] > 0 /\ says'[p] = says[p] - 1
<1>1. UNCHANGED <<out, todo, commands, pend, queue, events, stage, held, at>>
  <2>1. UNCHANGED <<coordinator, pooling, events, commands, stage, queue, held>>
    BY SpeaksType
  <2> QED
    BY <2>1 DEF coordinator, tables, pooling
<1>2. stage[p] \notin {"none", "over"} /\ ~Closed(p)
  BY DEF PeerSays, PeerTurns, Speaks, PeerLeaves, Present
<1>3. ASSUME NEW m, Speaks(p, m)
      PROVE  /\ says' \in [Peers -> Nat] /\ \A q \in Peers \ {p} : says'[q] = says[q]
             /\ inbox' = [inbox EXCEPT ![p] = Append(@, m)]
             /\ inbox[p] = <<>> /\ says[p] > 0 /\ says'[p] = says[p] - 1
  <2>1. says[p] \in Nat /\ says[p] > 0 /\ says' = [says EXCEPT ![p] = @ - 1]
    BY <1>3 DEF Speaks
  <2>2. says[p] - 1 \in Nat
    BY <2>1
  <2> QED
    BY <1>3, <2>1, <2>2 DEF Speaks, Writes
<1>4. CASE PeerSays(p)
  <2>1. PICK m \in {Message("Have", i) : i \in Pieces \ Content[p]} \cup {Plain("Pex"), Plain("Dropped")} :
            Speaks(p, m)
    BY <1>4 DEF PeerSays
  <2>2. \E t \in {"Have", "Pex", "Dropped"}, i \in Indices : m = Message(t, i)
    BY <2>1, MessageParts
  <2> QED
    BY <1>1, <1>2, <1>3, <2>1, <2>2 DEF SaidTypes
<1>5. CASE PeerTurns(p)
  <2>1. PICK t \in {"Choke", "Unchoke"} : Speaks(p, Plain(t))
    BY <1>5 DEF PeerTurns
  <2>2. Plain(t) = Message(t, NoPiece) /\ NoPiece \in Indices
    BY MessageParts
  <2> QED
    BY <1>1, <1>2, <1>3, <2>1, <2>2 DEF SaidTypes
<1>6. CASE PeerLeaves(p)
  <2>1. says' = says /\ p \in MayLeave /\ inbox' = [inbox EXCEPT ![p] = Append(@, Plain("Close"))]
    BY <1>6 DEF PeerLeaves, Writes, peers
  <2>2. Plain("Close") = Message("Close", NoPiece) /\ NoPiece \in Indices
    BY MessageParts
  <2> QED
    BY <1>1, <1>2, <2>1, <2>2 DEF SaidTypes
<1> QED
  BY <1>4, <1>5, <1>6

LEMMA NextInCourse == Typed /\ InCourse /\ [Next]_vars => InCourse'
<1> SUFFICES ASSUME Typed, InCourse, [Next]_vars PROVE InCourse'
  OBVIOUS
<1>0. /\ events \in Seq(Reports) /\ todo \in SUBSET Peers
      /\ stage \in [Peers -> {"none", "linked", "running", "over"}]
      /\ inbox \in [Peers -> Seq(Said)]
      /\ DOMAIN held = Peers /\ \A q \in Peers : held[q] \in HeldOf(q)
      /\ says \in [Peers -> Nat]
  BY DEF Typed, LoopsTyped, CoordinatorTyped, InCourse
<1> DEFINE Quiet(p) == /\ p \in todo' => stage'[p] = "none"
                       /\ stage'[p] = "none" => inbox'[p] = <<>> /\ held'[p] = <<>>
                       /\ stage'[p] = "over" => held'[p] = <<>>
           Ended(p, k) == /\ stage'[p] = "over"
                         /\ \A m \in DOMAIN events' : m > k => events'[m].peer # p
           Final(p) == \A k \in DOMAIN events' :
                events'[k].type = "PeerDisconnected" /\ events'[k].peer = p => Ended(p, k)
<1>1. ASSUME NEW p \in Peers, UNCHANGED events, stage[p] = "over" => stage'[p] = "over" PROVE Final(p)
  BY <1>1 DEF InCourse
<1>2. ASSUME NEW p \in Peers, NEW e \in Reports, events' = Append(events, e),
             stage[p] = "over" => stage'[p] = "over",
             e.peer = p => stage[p] # "over" /\ (e.type = "PeerDisconnected" => stage'[p] = "over")
      PROVE  Final(p)
  <2>1. /\ \A k \in DOMAIN events : k \in Nat /\ k < Len(events) + 1
                                   /\ k \in DOMAIN events' /\ events'[k] = events[k]
        /\ \A k \in DOMAIN events' : k \in DOMAIN events \/ (k = Len(events) + 1 /\ events'[k] = e)
        /\ Len(events) \in Nat
    BY <1>0, <1>2
  <2> SUFFICES ASSUME NEW k \in DOMAIN events', events'[k].type = "PeerDisconnected", events'[k].peer = p
               PROVE  Ended(p, k)
    OBVIOUS
  <2>2. CASE k \in DOMAIN events
    <3>1. stage[p] = "over" /\ \A m \in DOMAIN events : m > k => events[m].peer # p
      BY <2>1, <2>2 DEF InCourse
    <3>2. e.peer # p
      BY <1>2, <3>1
    <3> QED
      BY <1>2, <2>1, <3>1, <3>2
  <2>3. CASE k \notin DOMAIN events
    <3>1. e.type = "PeerDisconnected" /\ e.peer = p /\ k = Len(events) + 1
      BY <2>1, <2>3
    <3>2. \A m \in DOMAIN events' : ~(m > k)
      BY <2>1, <3>1
    <3> QED
      BY <1>2, <3>1, <3>2
  <2> QED
    BY <2>2, <2>3
<1>3. ASSUME says' \in [Peers -> Nat], \A p \in Peers : Quiet(p) /\ Final(p) PROVE InCourse'
  BY <1>3 DEF InCourse
<1> HIDE DEF Final
<1>4. CASE HandleEvent
  <2>0. PICK q \in Peers, type \in EventTypes : Takes(type, q)
    BY <1>4, Handles DEF Effect
  <2>1. says' = says /\ \A p \in Peers : Quiet(p)
    BY <1>0, <2>0 DEF Takes, loops, peers, InCourse
  <2>2. ASSUME NEW p \in Peers PROVE Final(p)
    <3>1. SUFFICES ASSUME NEW k \in DOMAIN events',
                          events'[k].type = "PeerDisconnected", events'[k].peer = p
                   PROVE  Ended(p, k)
      BY DEF Final
    <3>2. k \in Nat /\ k + 1 \in DOMAIN events /\ events'[k] = events[k + 1] /\ stage' = stage
      BY <2>0, TakesType DEF loops
    <3>3. stage[p] = "over" /\ \A m \in DOMAIN events : m > k + 1 => events[m].peer # p
      BY <3>1, <3>2 DEF InCourse
    <3>4. ASSUME NEW m \in DOMAIN events', m > k PROVE events'[m].peer # p
      <4>1. m \in Nat /\ m + 1 \in DOMAIN events /\ events'[m] = events[m + 1]
        BY <2>0, TakesType
      <4> QED
        BY <3>2, <3>3, <3>4, <4>1
    <3> QED
      BY <3>2, <3>3, <3>4
  <2> QED
    BY <1>0, <1>3, <2>1, <2>2
<1>6. ASSUME UNCHANGED <<events, stage, inbox, held, says, todo>> PROVE InCourse'
  <2>1. \A p \in Peers : Quiet(p) /\ Final(p)
    BY <1>1, <1>6 DEF InCourse
  <2> QED
    BY <1>0, <1>3, <1>6, <2>1
<1>7. CASE Inner
  BY <1>6, <1>7, InnerKeeps
<1>8. ASSUME NEW q \in Peers, Dial(q) PROVE InCourse'
  <2>1. stage[q] = "none" /\ says' = says
    BY <1>8 DEF Dial, InCourse, peers
  <2>2. \A p \in Peers : Quiet(p)
    BY <1>0, <1>8 DEF Dial, InCourse
  <2>3. \A p \in Peers : Final(p)
    BY <1>0, <1>1, <1>8, <2>1 DEF Dial
  <2> QED
    BY <1>0, <1>3, <2>1, <2>2, <2>3
<1>9. ASSUME NEW q \in Peers, Announce(q) PROVE InCourse'
  <2>1. /\ stage[q] = "linked" /\ UNCHANGED <<says, todo, inbox, held>>
        /\ stage' = [stage EXCEPT ![q] = "running"]
        /\ events' = Append(events, Event("PeerConnected", q, NoPiece))
    BY <1>9 DEF Announce, Linked, coordinator, tables, peers
  <2>2. /\ Event("PeerConnected", q, NoPiece) \in Reports /\ Event("PeerConnected", q, NoPiece).peer = q
        /\ Event("PeerConnected", q, NoPiece).type # "PeerDisconnected"
    BY ReportTypes, MessageParts DEF EventTypes
  <2>3. \A p \in Peers : Quiet(p)
    BY <1>0, <2>1 DEF InCourse
  <2>4. \A p \in Peers : Final(p)
    BY <1>0, <1>2, <2>1, <2>2
  <2> QED
    BY <1>0, <1>3, <2>1, <2>3, <2>4
<1>10. ASSUME NEW q \in Peers, stage[q] = "running", UNCHANGED <<events, says, todo>>,
              stage'[q] # "none", stage'[q] = "over" => held'[q] = <<>>,
              \A p \in Peers \ {q} : stage'[p] = stage[p] /\ inbox'[p] = inbox[p] /\ held'[p] = held[p]
       PROVE  InCourse'
  <2>1. \A p \in Peers : Quiet(p)
    BY <1>0, <1>10 DEF InCourse
  <2>2. \A p \in Peers : Final(p)
    BY <1>0, <1>1, <1>10
  <2> QED
    BY <1>0, <1>3, <1>10, <2>1, <2>2
<1>11. ASSUME NEW q \in Peers, NEW e \in Reports, e.peer = q, stage[q] \notin {"none", "over"}, Emits(q, e),
              UNCHANGED <<says, todo>>, held'[q] = <<>>,
              \A p \in Peers \ {q} : inbox'[p] = inbox[p] /\ held'[p] = held[p]
       PROVE  InCourse'
  <2>1. /\ events' = Append(events, e)
        /\ stage' = [stage EXCEPT ![q] = IF e.type = "PeerDisconnected" THEN "over" ELSE @]
    BY <1>11 DEF Emits
  <2>2. \A p \in Peers : Quiet(p)
    BY <1>0, <1>11, <2>1 DEF InCourse
  <2>3. ASSUME NEW p \in Peers PROVE Final(p)
    <3>1. stage[p] = "over" => stage'[p] = "over"
      BY <1>0, <2>1
    <3>2. e.peer = p => stage[p] # "over" /\ (e.type = "PeerDisconnected" => stage'[p] = "over")
      BY <1>0, <1>11, <2>1
    <3> QED
      BY <1>2, <2>1, <3>1, <3>2
  <2> QED
    BY <1>0, <1>3, <1>11, <2>2, <2>3
<1>12. ASSUME NEW q \in Peers, Receive(q) PROVE InCourse'
  <2>1. /\ stage[q] = "running" /\ held[q] = <<>> /\ UNCHANGED <<says, todo>>
        /\ \A p \in Peers \ {q} : inbox'[p] = inbox[p]
    BY <1>0, <1>12 DEF Receive, Free, Runs, coordinator, tables, peers
  <2>2. PICK t \in SaidTypes, i \in Indices :
            /\ EventOf[t] \in EventTypes
            /\ \/ HasRoom /\ Emits(q, Event(EventOf[t], q, i)) /\ UNCHANGED held
               \/ /\ ~HasRoom /\ held' = [held EXCEPT ![q] = <<Event(EventOf[t], q, i)>>]
                  /\ UNCHANGED <<events, stage>>
    BY <1>12, ReceiveType
  <2>3. Event(EventOf[t], q, i) \in Reports /\ Event(EventOf[t], q, i).peer = q
    BY <2>2, ReportTypes
  <2>4. CASE Emits(q, Event(EventOf[t], q, i)) /\ UNCHANGED held
    <3>1. held'[q] = <<>> /\ \A p \in Peers \ {q} : held'[p] = held[p]
      BY <2>1, <2>4
    <3> QED
      BY <1>11, <2>1, <2>3, <2>4, <3>1
  <2>5. CASE held' = [held EXCEPT ![q] = <<Event(EventOf[t], q, i)>>] /\ UNCHANGED <<events, stage>>
    <3>1. \A p \in Peers \ {q} : stage'[p] = stage[p] /\ held'[p] = held[p]
      BY <1>0, <2>5
    <3> QED
      BY <1>10, <2>1, <2>5, <3>1
  <2> QED
    BY <2>2, <2>4, <2>5
<1>13. ASSUME NEW q \in Peers, Deliver(q) \/ Dismissed(q) PROVE InCourse'
  <2>1. /\ stage[q] = "running" /\ held[q] = <<>>
        /\ UNCHANGED <<events, says, todo>>
        /\ stage'[q] # "none" /\ (stage'[q] = "over" => held'[q] = <<>>)
        /\ \A p \in Peers \ {q} : stage'[p] = stage[p] /\ inbox'[p] = inbox[p] /\ held'[p] = held[p]
    BY <1>0, <1>13 DEF Deliver, Dismissed, Free, Runs, coordinator, tables, peers
  <2> QED
    BY <1>10, <2>1
<1>14. ASSUME NEW q \in Peers, SendEvent(q) PROVE InCourse'
  <2>1. PICK t \in EventTypes, i \in Indices : held[q] = <<Event(t, q, i)>> /\ held[q][1] = Event(t, q, i)
    BY <1>0, <1>14, HeldParts DEF SendEvent
  <2>2. Event(t, q, i) \in Reports /\ Event(t, q, i).peer = q
    BY ReportTypes
  <2>3. /\ Emits(q, Event(t, q, i)) /\ held[q] # <<>>
        /\ UNCHANGED <<says, todo, inbox>> /\ held' = [held EXCEPT ![q] = <<>>]
    BY <1>14, <2>1 DEF SendEvent, coordinator, tables, peers
  <2>4. stage[q] # "over" /\ stage[q] # "none"
    BY <2>3 DEF InCourse
  <2> QED
    BY <1>0, <1>11, <2>2, <2>3, <2>4
<1>15. ASSUME NEW q \in Peers, PeerSays(q) \/ PeerTurns(q) \/ PeerLeaves(q) PROVE InCourse'
  <2>1. /\ stage[q] # "none" /\ UNCHANGED <<events, stage, held, todo>>
        /\ says' \in [Peers -> Nat]
        /\ \E m : inbox' = [inbox EXCEPT ![q] = Append(@, m)]
    BY <1>0, <1>15, SpeaksCounts
  <2>2. \A p \in Peers : Quiet(p)
    BY <1>0, <2>1 DEF InCourse
  <2>3. \A p \in Peers : Final(p)
    BY <1>1, <2>1
  <2> QED
    BY <1>3, <2>1, <2>2, <2>3
<1>16. CASE UNCHANGED vars
  BY <1>6, <1>16 DEF vars, loops, tables, peers
<1> QED
  BY <1>4, <1>7, <1>8, <1>9, <1>12, <1>13, <1>14, <1>15, <1>16, Steps DEF PeerStep, LoopStep

----------------------------------------------------------------------------
(* What is on the way from and to a peer *)

\* The messages of the types M for p in the lists of the coordinator and the pool; p's
\* events of the types E.
OrdersTo(p, M) == {To(p, m) : m \in Of(M)}
EventsOf(p, E) == {Event(t, p, i) : t \in E, i \in Indices}

\* The messages M its loop may still send to p. The loop's last event is its end, and of
\* what p says, I, it reads no more. With the events E: all that may become an event of p,
\* which is no more than what it was before after any step but a handler's.
Sent(p, M) ==
    Count(out, OrdersTo(p, M)) + Count(commands, OrdersTo(p, M)) + Count(pend, OrdersTo(p, M))
        + Count(queue[p], Of(M))

Ending(p) == held[p] # <<>> /\ held[p][1].type = "PeerDisconnected"

Unread(p, I) == IF Ending(p) THEN 0 ELSE Count(inbox[p], Of(I))

OnTheWay(p, M, I, E) ==
    Count(events, EventsOf(p, E))
        + (IF stage[p] = "over" THEN 0
           ELSE Sent(p, M) + Count(held[p], EventsOf(p, E)) + Unread(p, I))

\* What p may still begin: its connection, its bitfield, its end, and what it says unasked.
Open(p) == stage[p] # "over" /\ ~Ending(p) /\ ~Closed(p)

Yet(p, I, E) ==
    Flag(p \in todo /\ "Bitfield" \in I)
        + Flag(stage[p] \in {"none", "linked"} /\ "PeerConnected" \in E)
        + Flag(p \in MayLeave /\ Open(p) /\ "Close" \in I)
        + (IF "Have" \in I THEN says[p] ELSE 0)

Flow(p, M, I, E) == OnTheWay(p, M, I, E) + Yet(p, I, E)

\* A kind of messages with all that comes of them.
Kind(M, I, E) ==
    /\ M \subseteq {"Interested", "Request"} /\ E \subseteq EventTypes
    /\ "Interested" \in M <=> "Unchoke" \in I
    /\ "Request" \in M <=> "Piece" \in I
    /\ \A s \in SaidTypes : s \in I <=> EventOf[s] \in E
    /\ I \cap {"Pex", "Dropped", "Choke", "Unchoke"} # {} => "Have" \in I

\* What a loop holds is a list of reports.
LEMMA HeldReports ==
    ASSUME NEW p \in Peers, NEW h \in HeldOf(p)
    PROVE  h \in Seq(Reports)
<1>1. \A t \in EventTypes, i \in Indices : <<Event(t, p, i)>> \in Seq(Reports)
  BY ReportTypes
<1>2. <<>> \in Seq(Reports)
  OBVIOUS
<1>3. h = <<>> \/ \E t \in EventTypes, i \in Indices : h = <<Event(t, p, i)>>
  BY DEF HeldOf
<1> QED
  BY <1>1, <1>2, <1>3

LEMMA Amounts ==
    ASSUME Typed, says \in [Peers -> Nat], NEW p \in Peers, NEW M, NEW I, NEW E
    PROVE  /\ Count(events, EventsOf(p, E)) \in Nat
           /\ Count(out, OrdersTo(p, M)) \in Nat /\ Count(commands, OrdersTo(p, M)) \in Nat
           /\ Count(pend, OrdersTo(p, M)) \in Nat /\ Count(queue[p], Of(M)) \in Nat
           /\ Count(held[p], EventsOf(p, E)) \in Nat /\ Count(inbox[p], Of(I)) \in Nat
           /\ Sent(p, M) \in Nat /\ Unread(p, I) \in Nat
           /\ Yet(p, I, E) \in Nat /\ OnTheWay(p, M, I, E) \in Nat /\ Flow(p, M, I, E) \in Nat
<1>1. /\ events \in Seq(Reports) /\ out \in Seq(Commands) /\ commands \in Seq(Commands)
      /\ pend \in Seq(Orders) /\ queue[p] \in Seq(Messages) /\ inbox[p] \in Seq(Said)
  BY DEF Typed, CoordinatorTyped, PoolTyped, LoopsTyped
<1>2. held[p] \in Seq(Reports)
  BY HeldReports DEF Typed, LoopsTyped
<1>3. /\ Count(events, EventsOf(p, E)) \in Nat
      /\ Count(out, OrdersTo(p, M)) \in Nat /\ Count(commands, OrdersTo(p, M)) \in Nat
      /\ Count(pend, OrdersTo(p, M)) \in Nat /\ Count(queue[p], Of(M)) \in Nat
      /\ Count(held[p], EventsOf(p, E)) \in Nat /\ Count(inbox[p], Of(I)) \in Nat
  BY <1>1, <1>2, CountType
<1>4. Sent(p, M) \in Nat /\ Unread(p, I) \in Nat
  BY <1>3 DEF Sent, Unread
<1>5. Yet(p, I, E) \in Nat
  <2>1. \A b : Flag(b) \in Nat
    BY DEF Flag
  <2>2. says[p] \in Nat
    OBVIOUS
  <2> QED
    BY <2>1, <2>2 DEF Yet
<1>6. OnTheWay(p, M, I, E) \in Nat
  BY <1>3, <1>4 DEF OnTheWay
<1> QED
  BY <1>3, <1>4, <1>5, <1>6 DEF Flow

LEMMA AmountsNext ==
    ASSUME Typed', says' \in [Peers -> Nat], NEW p \in Peers, NEW M, NEW I, NEW E
    PROVE  /\ Count(events', EventsOf(p, E)) \in Nat
           /\ Count(out', OrdersTo(p, M)) \in Nat /\ Count(commands', OrdersTo(p, M)) \in Nat
           /\ Count(pend', OrdersTo(p, M)) \in Nat /\ Count(queue'[p], Of(M)) \in Nat
           /\ Count(held'[p], EventsOf(p, E)) \in Nat /\ Count(inbox'[p], Of(I)) \in Nat
           /\ Sent(p, M)' \in Nat /\ Unread(p, I)' \in Nat
           /\ Yet(p, I, E)' \in Nat /\ OnTheWay(p, M, I, E)' \in Nat /\ Flow(p, M, I, E)' \in Nat
<1>1. /\ events' \in Seq(Reports) /\ out' \in Seq(Commands) /\ commands' \in Seq(Commands)
      /\ pend' \in Seq(Orders) /\ queue'[p] \in Seq(Messages) /\ inbox'[p] \in Seq(Said)
  BY DEF Typed, CoordinatorTyped, PoolTyped, LoopsTyped
<1>2. held'[p] \in Seq(Reports)
  BY HeldReports DEF Typed, LoopsTyped
<1>3. /\ Count(events', EventsOf(p, E)) \in Nat
      /\ Count(out', OrdersTo(p, M)) \in Nat /\ Count(commands', OrdersTo(p, M)) \in Nat
      /\ Count(pend', OrdersTo(p, M)) \in Nat /\ Count(queue'[p], Of(M)) \in Nat
      /\ Count(held'[p], EventsOf(p, E)) \in Nat /\ Count(inbox'[p], Of(I)) \in Nat
  BY <1>1, <1>2, CountType
<1>4. Sent(p, M)' \in Nat /\ Unread(p, I)' \in Nat
  BY <1>3 DEF Sent, Unread
<1>5. Yet(p, I, E)' \in Nat
  <2>1. \A b : Flag(b) \in Nat
    BY DEF Flag
  <2>2. says'[p] \in Nat
    OBVIOUS
  <2> QED
    BY <2>1, <2>2 DEF Yet
<1>6. OnTheWay(p, M, I, E)' \in Nat
  BY <1>3, <1>4 DEF OnTheWay
<1> QED
  BY <1>3, <1>4, <1>5, <1>6 DEF Flow

\* A step of another task: what is on the way to and from p grows by what it sends to p.
LEMMA Elsewhere ==
    ASSUME Typed, Typed', says \in [Peers -> Nat], says' \in [Peers -> Nat],
           NEW p \in Peers, NEW M, NEW I, NEW E, NEW n \in Int,
           todo' \subseteq todo, stage'[p] = stage[p], held'[p] = held[p], inbox'[p] = inbox[p],
           says'[p] = says[p],
           Count(events', EventsOf(p, E)) <= Count(events, EventsOf(p, E)) + n,
           Count(events', EventsOf(p, E)) + Sent(p, M)'
                <= Count(events, EventsOf(p, E)) + Sent(p, M) + n
    PROVE  Flow(p, M, I, E)' <= Flow(p, M, I, E) + n
<1>1. Ending(p)' = Ending(p) /\ Closed(p)' = Closed(p)
  BY DEF Ending, Closed
<1>2. Unread(p, I)' = Unread(p, I) /\ Open(p)' = Open(p)
  BY <1>1 DEF Unread, Open
<1>3. Yet(p, I, E)' <= Yet(p, I, E)
  <2>1. Flag(p \in todo' /\ "Bitfield" \in I) <= Flag(p \in todo /\ "Bitfield" \in I)
    BY DEF Flag
  <2>2. \A b : Flag(b) \in Nat
    BY DEF Flag
  <2>3. says[p] \in Nat
    OBVIOUS
  <2> QED
    BY <1>2, <2>1, <2>2, <2>3 DEF Yet
<1>4. OnTheWay(p, M, I, E)' <= OnTheWay(p, M, I, E) + n
  <2>1. CASE stage[p] = "over"
    BY <2>1, Amounts, AmountsNext DEF OnTheWay
  <2>2. CASE stage[p] # "over"
    <3>1. Count(held'[p], EventsOf(p, E)) = Count(held[p], EventsOf(p, E)) /\ stage'[p] # "over"
      BY <2>2
    <3>2. OnTheWay(p, M, I, E)' = Count(events', EventsOf(p, E)) + 
                (Sent(p, M)' + Count(held'[p], EventsOf(p, E)) + Unread(p, I)')
      BY <3>1 DEF OnTheWay
    <3>3. OnTheWay(p, M, I, E) = Count(events, EventsOf(p, E)) +
                (Sent(p, M) + Count(held[p], EventsOf(p, E)) + Unread(p, I))
      BY <2>2 DEF OnTheWay
    <3> QED
      BY <1>2, <3>1, <3>2, <3>3, Amounts, AmountsNext
  <2> QED
    BY <2>1, <2>2
<1> QED
  BY <1>3, <1>4, Amounts, AmountsNext DEF Flow

LEMMA Members ==
    /\ \A p, q, m, M : To(q, m) \in OrdersTo(p, M) <=> q = p /\ m \in Of(M)
    /\ \A p, M, c : c.type # "Send" => c \notin OrdersTo(p, M)
    /\ \A p, q, t, E : \A i \in Indices : Event(t, q, i) \in EventsOf(p, E) <=> q = p /\ t \in E
    /\ \A p, E : \A e \in Reports : e \in EventsOf(p, E) <=> e.peer = p /\ e.type \in E
<1>1. ASSUME NEW p, NEW q, NEW m, NEW n, To(q, m) = To(p, n) PROVE q = p /\ m = n
  <2>1. To(q, m).peer = q /\ To(p, n).peer = p /\ To(q, m).message = m /\ To(p, n).message = n
    BY OrderParts
  <2> QED
    BY <1>1, <2>1
<1>2. ASSUME NEW p, NEW q, NEW t, NEW u, NEW i, NEW j, Event(t, q, i) = Event(u, p, j)
      PROVE  q = p /\ t = u
  <2>1. /\ Event(t, q, i).peer = q /\ Event(t, q, i).type = t
        /\ Event(u, p, j).peer = p /\ Event(u, p, j).type = u
    BY ReportTypes
  <2> QED
    BY <1>2, <2>1
<1>3. \A p, M : \A o \in OrdersTo(p, M) : o.type = "Send"
  BY OrderParts DEF OrdersTo
<1>4. \A p, q, m, M : To(q, m) \in OrdersTo(p, M) <=> q = p /\ m \in Of(M)
  BY <1>1 DEF OrdersTo
<1>5. \A p, q, t, E : \A i \in Indices : Event(t, q, i) \in EventsOf(p, E) <=> q = p /\ t \in E
  BY <1>2 DEF EventsOf
<1>6. ASSUME NEW p, NEW E, NEW e \in Reports PROVE e \in EventsOf(p, E) <=> e.peer = p /\ e.type \in E
  <2>1. e = Event(e.type, e.peer, e.piece) /\ e.piece \in Indices
    BY ReportTypes
  <2>2. Event(e.type, e.peer, e.piece) \in EventsOf(p, E) <=> e.peer = p /\ e.type \in E
    BY <1>5, <2>1
  <2> QED
    BY <2>1, <2>2
<1> QED
  BY <1>3, <1>4, <1>5, <1>6

LEMMA CountOne ==
    ASSUME NEW x, NEW S
    PROVE  Count(<<x>>, S) = Flag(x \in S) /\ Count(<<>>, S) = 0
<1>1. {k \in DOMAIN <<x>> : <<x>>[k] \in S} = IF x \in S THEN {1} ELSE {}
  OBVIOUS
<1>2. Cardinality({1}) = 1 /\ Cardinality({}) = 0
  BY FS_Singleton, FS_EmptySet
<1>3. {k \in DOMAIN <<>> : <<>>[k] \in S} = {}
  OBVIOUS
<1> QED
  BY <1>1, <1>2, <1>3 DEF Count, Flag

LEMMA YetLess ==
    ASSUME says \in [Peers -> Nat], NEW p \in Peers, NEW I, NEW E,
           todo' \subseteq todo, says'[p] = says[p], Open(p)' => Open(p),
           stage'[p] \in {"none", "linked"} => stage[p] \in {"none", "linked"}
    PROVE  Yet(p, I, E)' <= Yet(p, I, E)
<1>1. /\ Flag(p \in todo' /\ "Bitfield" \in I) <= Flag(p \in todo /\ "Bitfield" \in I)
      /\ Flag(stage'[p] \in {"none", "linked"} /\ "PeerConnected" \in E)
            <= Flag(stage[p] \in {"none", "linked"} /\ "PeerConnected" \in E)
      /\ Flag(p \in MayLeave /\ Open(p)' /\ "Close" \in I)
            <= Flag(p \in MayLeave /\ Open(p) /\ "Close" \in I)
  BY DEF Flag
<1>2. \A b : Flag(b) \in Nat
  BY DEF Flag
<1>3. says[p] \in Nat
  OBVIOUS
<1> QED
  BY <1>1, <1>2, <1>3 DEF Yet

\* A step of p's own loop, or of p.
LEMMA Here ==
    ASSUME Typed, Typed', says \in [Peers -> Nat], says' \in [Peers -> Nat],
           NEW p \in Peers, NEW M, NEW I, NEW E, stage[p] # "over",
           Count(events', EventsOf(p, E)) + Sent(p, M)' + Count(held'[p], EventsOf(p, E))
                + Unread(p, I)' + Yet(p, I, E)'
           <= Count(events, EventsOf(p, E)) + Sent(p, M) + Count(held[p], EventsOf(p, E))
                + Unread(p, I) + Yet(p, I, E)
    PROVE  Flow(p, M, I, E)' <= Flow(p, M, I, E)
<1>1. OnTheWay(p, M, I, E) = Count(events, EventsOf(p, E))
            + (Sent(p, M) + Count(held[p], EventsOf(p, E)) + Unread(p, I))
  BY DEF OnTheWay
<1>2. OnTheWay(p, M, I, E)' <= Count(events', EventsOf(p, E))
            + (Sent(p, M)' + Count(held'[p], EventsOf(p, E)) + Unread(p, I)')
  BY AmountsNext DEF OnTheWay
<1> QED
  BY <1>1, <1>2, Amounts, AmountsNext DEF Flow

\* A step that leaves the connections alone lets no more flow than it sends.
LEMMA Passes ==
    ASSUME Typed, Typed', InCourse, InCourse', NEW p \in Peers, NEW M, NEW I, NEW E,
           UNCHANGED <<events, stage, inbox, held, says, todo>>, Sent(p, M)' <= Sent(p, M)
    PROVE  Flow(p, M, I, E)' <= Flow(p, M, I, E)
<1>0. says \in [Peers -> Nat] /\ says' \in [Peers -> Nat]
  BY DEF InCourse
<1>1. Count(events, EventsOf(p, E)) \in Nat /\ Sent(p, M) \in Nat /\ Flow(p, M, I, E) \in Nat
  BY <1>0, Amounts
<1>2. Sent(p, M)' \in Nat /\ Flow(p, M, I, E)' \in Nat
  BY <1>0, AmountsNext
<1>3. /\ Count(events', EventsOf(p, E)) <= Count(events, EventsOf(p, E)) + 0
      /\ Count(events', EventsOf(p, E)) + Sent(p, M)'
            <= Count(events, EventsOf(p, E)) + Sent(p, M) + 0
  <2>1. events' = events
    OBVIOUS
  <2> QED
    BY <1>1, <1>2, <2>1
<1>4. /\ todo' \subseteq todo /\ stage'[p] = stage[p] /\ held'[p] = held[p] /\ inbox'[p] = inbox[p]
      /\ says'[p] = says[p] /\ 0 \in Int
  OBVIOUS
<1>5. Flow(p, M, I, E)' <= Flow(p, M, I, E) + 0
  BY <1>0, <1>3, <1>4, Elsewhere
<1> QED
  BY <1>1, <1>2, <1>5

\* The coordinator's and the pool's sends pass on what is under way.
LEMMA PassedOn ==
    ASSUME Typed, Typed', InCourse, InCourse', NEW p \in Peers, NEW M, NEW I, NEW E, Kind(M, I, E),
           StartLoop \/ SendCommand \/ PoolStep \/ \E q \in Peers : BanExpires(q)
    PROVE  Flow(p, M, I, E)' <= Flow(p, M, I, E)
<1>0. /\ says \in [Peers -> Nat] /\ says' \in [Peers -> Nat]
      /\ out \in Seq(Commands) /\ commands \in Seq(Commands) /\ pend \in Seq(Orders)
      /\ queue \in [Peers -> Seq(Messages)] /\ (at = "sending" <=> out # <<>>)
      /\ (pool = "sending" <=> pend # <<>>) /\ tx \subseteq Peers
  BY DEF InCourse, Typed, CoordinatorTyped, PoolTyped, LoopsTyped
<1>1. M \subseteq {"Interested", "Request"}
  BY DEF Kind
<1> DEFINE S == OrdersTo(p, M)
<1> HIDE DEF S
<1>2. ASSUME Sent(p, M)' <= Sent(p, M) PROVE Flow(p, M, I, E)' <= Flow(p, M, I, E)
  <2>1. UNCHANGED <<events, stage, inbox, held, says, todo>>
    BY InnerKeeps DEF Inner
  <2> QED
    BY <1>2, <2>1, Passes
<1>3. /\ Sent(p, M) = Count(out, S) + Count(commands, S) + Count(pend, S) + Count(queue[p], Of(M))
      /\ Sent(p, M)' = Count(out', S) + Count(commands', S) + Count(pend', S) + Count(queue'[p], Of(M))
  BY DEF Sent, S
<1>4. /\ Count(out, S) \in Nat /\ Count(commands, S) \in Nat /\ Count(pend, S) \in Nat
      /\ Count(queue[p], Of(M)) \in Nat
      /\ Count(out', S) \in Nat /\ Count(commands', S) \in Nat /\ Count(pend', S) \in Nat
      /\ Count(queue'[p], Of(M)) \in Nat
  BY <1>0, Amounts, AmountsNext DEF S
<1>5. CASE StartLoop \/ \E q \in Peers : BanExpires(q)
  <2>1. UNCHANGED <<out, commands, pend, queue>>
    BY <1>5 DEF StartLoop, BanExpires, loops, pooling
  <2>2. Sent(p, M)' = Sent(p, M)
    BY <2>1 DEF Sent
  <2> QED
    BY <1>2, <1>3, <1>4, <2>2
<1>6. CASE SendCommand
  <2>1. /\ out # <<>> /\ out' = Tail(out) /\ commands' = Append(commands, Head(out))
        /\ UNCHANGED <<pend, queue>>
    BY <1>0, <1>6 DEF SendCommand, Goes, pooling, loops
  <2>2. Head(out) \in Commands
    BY <1>0, <2>1
  <2>3. Count(out, S) = Flag(Head(out) \in S) + Count(out', S)
    BY <1>0, <2>1, CountTail
  <2>4. Count(commands', S) = Count(commands, S) + Flag(Head(out) \in S)
    BY <1>0, <2>1, <2>2, CountAppend
  <2>5. Count(pend', S) = Count(pend, S) /\ Count(queue'[p], Of(M)) = Count(queue[p], Of(M))
    BY <2>1
  <2>6. Flag(Head(out) \in S) \in Nat
    BY DEF Flag
  <2> QED
    BY <1>2, <1>3, <1>4, <2>3, <2>4, <2>5, <2>6
<1>8. CASE TakeCommand
  <2> DEFINE c == Head(commands)
  <2>1. /\ commands # <<>> /\ commands' = Tail(commands) /\ pend' = Sending(c) /\ pend = <<>>
        /\ UNCHANGED <<out, queue>>
    BY <1>0, <1>8 DEF TakeCommand, loops, coordinator
  <2>2. c \in Commands /\ Count(commands, S) = Flag(c \in S) + Count(commands', S)
    BY <1>0, <2>1, CountTail
  <2>3. Count(pend', S) <= Flag(c \in S)
    <3>1. CASE c.type = "Send"
      <4>1. pend' = <<>> \/ pend' = <<c>>
        BY <2>1, <3>1 DEF Sending
      <4> HIDE DEF c
      <4>2. Count(pend', S) = 0 \/ Count(pend', S) = Flag(c \in S)
        BY <4>1, CountOne
      <4> QED
        BY <4>2 DEF Flag
    <3>2. CASE c.type = "SendHave"
      <4> DEFINE m == Message("Have", c.piece)
      <4>1. pend' = [k \in DOMAIN SetToSeq(tx) |-> To(SetToSeq(tx)[k], m)]
        BY <2>1, <3>2 DEF Sending, SendToAll
      <4>2. m \notin Of(M)
        BY <1>1, MessageParts
      <4> HIDE DEF m
      <4>3. \A k \in DOMAIN pend' : pend'[k] \notin S
        BY <4>1, <4>2, Members DEF S
      <4>4. pend' \in Seq(Orders)
        BY DEF Typed, PoolTyped
      <4>5. Count(pend', S) = 0
        BY <4>3, <4>4, CountType
      <4> QED
        BY <4>5 DEF Flag
    <3>3. CASE c.type \in {"DisconnectPeer", "ConnectPeer"}
      <4>1. pend' = <<>>
        BY <2>1, <3>3 DEF Sending
      <4>2. Count(pend', S) = 0
        BY <4>1, CountOne
      <4> QED
        BY <4>2 DEF Flag
    <3> QED
      BY <2>2, <3>1, <3>2, <3>3, CommandTypes
  <2>4. Flag(c \in S) \in Nat
    BY DEF Flag
  <2>5. Count(out', S) = Count(out, S) /\ Count(queue'[p], Of(M)) = Count(queue[p], Of(M))
        /\ Count(pend, S) = 0
    BY <2>1, CountOne
  <2> HIDE DEF c
  <2> QED
    BY <1>2, <1>3, <1>4, <2>2, <2>3, <2>4, <2>5
<1>9. CASE SendToPeer
  <2>1. /\ pend # <<>> /\ pend' = Tail(pend) /\ UNCHANGED <<out, commands>>
    BY <1>0, <1>9 DEF SendToPeer, coordinator
  <2>2. PICK q \in Peers, m \in Messages : Head(pend) = To(q, m)
    BY <1>0, <2>1 DEF Orders
  <2>3. Count(pend, S) = Flag(To(q, m) \in S) + Count(pend', S)
    BY <1>0, <2>1, <2>2, CountTail
  <2>4. Head(pend).peer = q /\ Head(pend).message = m
    BY <2>2, OrderParts
  <2>5. queue'[p] = queue[p] \/ (q = p /\ queue'[p] = Append(queue[p], m))
    BY <1>0, <1>9, <2>4 DEF SendToPeer
  <2>6. Count(queue'[p], Of(M)) <= Count(queue[p], Of(M)) + Flag(To(q, m) \in S)
    <3>1. CASE queue'[p] = queue[p]
      BY <1>4, <3>1 DEF Flag
    <3>2. CASE q = p /\ queue'[p] = Append(queue[p], m)
      <4>1. Count(queue'[p], Of(M)) = Count(queue[p], Of(M)) + Flag(m \in Of(M))
        BY <1>0, <3>2, CountAppend
      <4>2. To(q, m) \in S <=> m \in Of(M)
        BY <3>2, Members DEF S
      <4> QED
        BY <1>4, <4>1, <4>2 DEF Flag
    <3> QED
      BY <2>5, <3>1, <3>2
  <2>7. Flag(To(q, m) \in S) \in Nat
    BY DEF Flag
  <2>8. Count(out', S) = Count(out, S) /\ Count(commands', S) = Count(commands, S)
    BY <2>1
  <2> QED
    BY <1>2, <1>3, <1>4, <2>3, <2>6, <2>7, <2>8
<1> QED
  BY <1>5, <1>6, <1>8, <1>9 DEF PoolStep

\* A list that sends no interest.
LEMMA NoInterestCount ==
    ASSUME NEW list, NoInterest(list), NEW p \in Peers
    PROVE  Count(list, OrdersTo(p, {"Interested"})) = 0
<1>1. ASSUME NEW k \in DOMAIN list PROVE list[k] \notin OrdersTo(p, {"Interested"})
  <2>1. \A i \in Indices : list[k] # To(p, Message("Interested", i))
    BY DEF NoInterest
  <2>2. \A m \in Of({"Interested"}) : \E i \in Indices : m = Message("Interested", i)
    BY DEF Of
  <2> QED
    BY <2>1, <2>2 DEF OrdersTo
<1>2. list \in Seq(Commands)
  BY DEF NoInterest
<1> QED
  BY <1>1, <1>2, CountType

\* What the coordinator sends on its own, requests and peer exchange, is no interest.
LEMMA OnItsOwn ==
    ASSUME Typed, Typed', InCourse, InCourse', NEW p \in Peers, NEW I, NEW E,
           \/ PexTick
           \/ \E i \in Pieces : OnStale(i)
           \/ \E q \in Peers : RequestOne(q)
    PROVE  Flow(p, {"Interested"}, I, E)' <= Flow(p, {"Interested"}, I, E)
<1>0. (at = "sending" <=> out # <<>>) /\ says \in [Peers -> Nat]
  BY DEF InCourse, Typed, CoordinatorTyped
<1>1. out = <<>>
  BY <1>0 DEF PexTick, OnStale, RequestOne
<1>2. \E list, picks : NoInterest(list) /\ Goes(list, picks)
  BY TickGoes, StaleGoes, RequestGoes DEF Requested
<1>3. NoInterest(out')
  BY <1>2 DEF Goes
<1>4. UNCHANGED <<commands, pend, queue>>
  BY DEF PexTick, OnStale, RequestOne, pooling, loops
<1> DEFINE S == OrdersTo(p, {"Interested"})
<1>5. Count(out', S) = 0 /\ Count(out, S) = 0
  BY <1>1, <1>3, NoInterestCount, CountOne
<1>6. Sent(p, {"Interested"})' = Sent(p, {"Interested"}) /\ Sent(p, {"Interested"}) \in Nat
  <2>1. Sent(p, {"Interested"}) =
            Count(out, S) + Count(commands, S) + Count(pend, S) + Count(queue[p], Of({"Interested"}))
    BY DEF Sent
  <2>2. Sent(p, {"Interested"})' =
            Count(out', S) + Count(commands', S) + Count(pend', S) + Count(queue'[p], Of({"Interested"}))
    BY DEF Sent
  <2> HIDE DEF S
  <2>3. Sent(p, {"Interested"})' = Sent(p, {"Interested"})
    BY <1>4, <1>5, <2>1, <2>2
  <2> QED
    BY <1>0, <2>3, Amounts
<1>7. Sent(p, {"Interested"})' <= Sent(p, {"Interested"})
  BY <1>6
<1> QED
  BY <1>7, InnerKeeps, Passes DEF Inner

\* What another peer's connection does is nothing to p.
LEMMA NotOfPeer ==
    ASSUME Typed, Typed', InCourse, InCourse', NEW p \in Peers, NEW q \in Peers, q # p,
           NEW M, NEW I, NEW E, PeerStep(q)
    PROVE  Flow(p, M, I, E)' <= Flow(p, M, I, E)
<1>0. /\ says \in [Peers -> Nat] /\ says' \in [Peers -> Nat]
      /\ events \in Seq(Reports) /\ DOMAIN held = Peers /\ \A r \in Peers : held[r] \in HeldOf(r)
      /\ stage \in [Peers -> {"none", "linked", "running", "over"}]
      /\ inbox \in [Peers -> Seq(Said)] /\ queue \in [Peers -> Seq(Messages)]
  BY DEF InCourse, Typed, LoopsTyped
<1>1. ASSUME Count(events', EventsOf(p, E)) = Count(events, EventsOf(p, E)),
             todo' \subseteq todo, UNCHANGED <<out, commands, pend>>,
             stage'[p] = stage[p], held'[p] = held[p], says'[p] = says[p],
             inbox'[p] = inbox[p], queue'[p] = queue[p]
      PROVE  Flow(p, M, I, E)' <= Flow(p, M, I, E)
  <2>1. Sent(p, M)' = Sent(p, M)
    BY <1>1 DEF Sent
  <2>2. Count(events, EventsOf(p, E)) \in Nat /\ Sent(p, M) \in Nat /\ Flow(p, M, I, E) \in Nat
    BY <1>0, Amounts
  <2>3. /\ Count(events', EventsOf(p, E)) <= Count(events, EventsOf(p, E)) + 0
        /\ Count(events', EventsOf(p, E)) + Sent(p, M)'
              <= Count(events, EventsOf(p, E)) + Sent(p, M) + 0
        /\ 0 \in Int
    BY <1>1, <2>1, <2>2
  <2>4. Flow(p, M, I, E)' <= Flow(p, M, I, E) + 0
    BY <1>0, <1>1, <2>3, Elsewhere
  <2>5. Flow(p, M, I, E)' \in Nat
    BY <1>0, AmountsNext
  <2> QED
    BY <2>2, <2>4, <2>5
<1>2. ASSUME NEW e \in Reports, e.peer = q, events' = Append(events, e)
      PROVE  Count(events', EventsOf(p, E)) = Count(events, EventsOf(p, E))
  <2>1. e \notin EventsOf(p, E)
    BY <1>2, Members
  <2>2. Count(events', EventsOf(p, E)) = Count(events, EventsOf(p, E)) + Flag(e \in EventsOf(p, E))
    BY <1>0, <1>2, CountAppend
  <2>3. Count(events, EventsOf(p, E)) \in Nat
    BY <1>0, Amounts
  <2> QED
    BY <2>1, <2>2, <2>3 DEF Flag
<1>3. CASE SendEvent(q)
  <2>1. PICK t \in EventTypes, i \in Indices : held[q] = <<Event(t, q, i)>> /\ held[q][1] = Event(t, q, i)
    BY <1>0, <1>3, HeldParts DEF SendEvent
  <2>2. Event(t, q, i) \in Reports /\ Event(t, q, i).peer = q
    BY ReportTypes
  <2>3. events' = Append(events, Event(t, q, i)) /\ stage'[p] = stage[p]
    BY <1>0, <1>3, <2>1 DEF SendEvent, Emits
  <2>4. Count(events', EventsOf(p, E)) = Count(events, EventsOf(p, E))
    BY <1>2, <2>2, <2>3
  <2>5. /\ todo' \subseteq todo /\ UNCHANGED <<out, commands, pend>>
        /\ held'[p] = held[p] /\ says'[p] = says[p] /\ inbox'[p] = inbox[p] /\ queue'[p] = queue[p]
    BY <1>0, <1>3 DEF SendEvent, coordinator, tables, pooling, peers
  <2> QED
    BY <1>1, <2>3, <2>4, <2>5
<1>4. CASE Announce(q)
  <2>1. /\ Event("PeerConnected", q, NoPiece) \in Reports /\ Event("PeerConnected", q, NoPiece).peer = q
    BY ReportTypes, MessageParts DEF EventTypes
  <2>2. Count(events', EventsOf(p, E)) = Count(events, EventsOf(p, E))
    BY <1>2, <1>4, <2>1 DEF Announce
  <2>3. /\ todo' \subseteq todo /\ UNCHANGED <<out, commands, pend>> /\ stage'[p] = stage[p]
        /\ held'[p] = held[p] /\ says'[p] = says[p] /\ inbox'[p] = inbox[p] /\ queue'[p] = queue[p]
    BY <1>0, <1>4 DEF Announce, coordinator, tables, pooling, peers
  <2> QED
    BY <1>1, <2>2, <2>3
<1>5. CASE Receive(q)
  <2>1. PICK t \in SaidTypes, i \in Indices :
            /\ EventOf[t] \in EventTypes
            /\ inbox' = [inbox EXCEPT ![q] = Tail(@)]
            /\ \/ HasRoom /\ Emits(q, Event(EventOf[t], q, i)) /\ UNCHANGED held
               \/ /\ ~HasRoom /\ held' = [held EXCEPT ![q] = <<Event(EventOf[t], q, i)>>]
                  /\ UNCHANGED <<events, stage>>
    BY <1>5, ReceiveType
  <2>2. Event(EventOf[t], q, i) \in Reports /\ Event(EventOf[t], q, i).peer = q
    BY <2>1, ReportTypes
  <2>3. events' = events \/ events' = Append(events, Event(EventOf[t], q, i))
    BY <2>1 DEF Emits
  <2>4. Count(events', EventsOf(p, E)) = Count(events, EventsOf(p, E))
    BY <1>2, <2>2, <2>3
  <2>5. stage'[p] = stage[p] /\ held'[p] = held[p] /\ inbox'[p] = inbox[p]
    BY <1>0, <2>1 DEF Emits
  <2>6. /\ todo' \subseteq todo /\ UNCHANGED <<out, commands, pend>>
        /\ says'[p] = says[p] /\ queue'[p] = queue[p]
    BY <1>5 DEF Receive, coordinator, tables, pooling, peers
  <2> QED
    BY <1>1, <2>4, <2>5, <2>6
<1>6. CASE Dial(q) \/ Deliver(q) \/ Dismissed(q)
  <2>1. events' = events
    BY <1>6 DEF Dial, Deliver, Dismissed
  <2>2. /\ todo' \subseteq todo /\ UNCHANGED <<out, commands, pend>> /\ stage'[p] = stage[p]
        /\ held'[p] = held[p] /\ says'[p] = says[p] /\ inbox'[p] = inbox[p] /\ queue'[p] = queue[p]
    BY <1>0, <1>6 DEF Dial, Deliver, Dismissed, coordinator, tables, pooling, peers
  <2> QED
    BY <1>1, <2>1, <2>2
<1>7. CASE PeerSays(q) \/ PeerTurns(q) \/ PeerLeaves(q)
  <2>1. /\ UNCHANGED <<out, todo, commands, pend, queue, events, stage, held>>
        /\ \A r \in Peers \ {q} : says'[r] = says[r]
        /\ \E m : inbox' = [inbox EXCEPT ![q] = Append(@, m)]
    BY <1>0, <1>7, SpeaksCounts
  <2>2. inbox'[p] = inbox[p] /\ says'[p] = says[p] /\ queue'[p] = queue[p] /\ stage'[p] = stage[p]
        /\ held'[p] = held[p] /\ events' = events
    BY <1>0, <2>1
  <2> QED
    BY <1>1, <2>1, <2>2
<1> QED
  BY <1>3, <1>4, <1>5, <1>6, <1>7 DEF PeerStep, LoopStep

\* What p and its loop do turns one thing that is on the way into another.
LEMMA OfPeer ==
    ASSUME Typed, Typed', InCourse, InCourse', NEW p \in Peers, NEW M, NEW I, NEW E, Kind(M, I, E),
           PeerStep(p)
    PROVE  Flow(p, M, I, E)' <= Flow(p, M, I, E)
<1> DEFINE X == EventsOf(p, E)
           J == Of(I)
           Whole == Count(events, X) + Sent(p, M) + Count(held[p], X) + Unread(p, I) + Yet(p, I, E)
           Goal == Count(events', X) + Sent(p, M)' + Count(held'[p], X) + Unread(p, I)' + Yet(p, I, E)' <= Whole
<1>0. /\ says \in [Peers -> Nat] /\ says' \in [Peers -> Nat]
      /\ events \in Seq(Reports) /\ DOMAIN held = Peers /\ held[p] \in HeldOf(p)
      /\ stage \in [Peers -> {"none", "linked", "running", "over"}]
      /\ inbox \in [Peers -> Seq(Said)] /\ queue \in [Peers -> Seq(Messages)]
      /\ p \in todo => stage[p] = "none"
      /\ stage[p] = "none" => inbox[p] = <<>> /\ held[p] = <<>>
      /\ stage[p] = "over" => held[p] = <<>>
  BY DEF InCourse, Typed, LoopsTyped
<1>1. /\ Count(events, X) \in Nat /\ Sent(p, M) \in Nat /\ Count(held[p], X) \in Nat
      /\ Unread(p, I) \in Nat /\ Yet(p, I, E) \in Nat /\ Count(queue[p], Of(M)) \in Nat
      /\ Count(inbox[p], J) \in Nat
  BY <1>0, Amounts
<1>2. /\ Count(events', X) \in Nat /\ Sent(p, M)' \in Nat /\ Count(held'[p], X) \in Nat
      /\ Unread(p, I)' \in Nat /\ Yet(p, I, E)' \in Nat /\ Count(queue'[p], Of(M)) \in Nat
      /\ Count(inbox'[p], J) \in Nat
  BY <1>0, AmountsNext
<1>3. \A b : Flag(b) \in Nat
  BY DEF Flag
<1>4. ASSUME UNCHANGED <<out, commands, pend>>, queue'[p] = queue[p] PROVE Sent(p, M)' = Sent(p, M)
  BY <1>4 DEF Sent
<1>5. /\ M \subseteq {"Interested", "Request"} /\ E \subseteq EventTypes
      /\ "Interested" \in M <=> "Unchoke" \in I
      /\ "Request" \in M <=> "Piece" \in I
      /\ \A s \in SaidTypes : s \in I <=> EventOf[s] \in E
      /\ "Close" \in I <=> "PeerDisconnected" \in E
      /\ \A t \in {"Have", "Pex", "Dropped", "Choke", "Unchoke"} : t \in I => "Have" \in I
  <2>1. EventOf["Close"] = "PeerDisconnected" /\ "Close" \in SaidTypes
    BY DEF EventOf, SaidTypes
  <2> QED
    BY <2>1 DEF Kind
<1>6. ASSUME todo' \subseteq todo, says'[p] = says[p], Open(p)' => Open(p),
             stage'[p] \in {"none", "linked"} => stage[p] \in {"none", "linked"}
      PROVE  Yet(p, I, E)' <= Yet(p, I, E)
  BY <1>0, <1>6, YetLess
<1>7. /\ \A t : \A i \in Indices : Message(t, i) \in J <=> t \in I
      /\ \A t : \A i \in Indices : Event(t, p, i) \in X <=> t \in E
      /\ \A s \in SaidTypes : \A i \in Indices : Event(EventOf[s], p, i) \in X <=> Message(s, i) \in J
  <2>1. \A t : \A i \in Indices : Message(t, i) \in J <=> t \in I
    BY MessageParts
  <2>2. \A t : \A i \in Indices : Event(t, p, i) \in X <=> t \in E
    BY Members
  <2> HIDE DEF X, J
  <2> QED
    BY <1>5, <2>1, <2>2
<1>empty. Count(<<>>, X) = 0 /\ Count(<<>>, J) = 0
  BY CountOne
<1>single. \A e : <<e>> # <<>> /\ <<e>>[1] = e
  OBVIOUS
<1>joined. /\ \A s \in Seq(Said), a \in Said : s \o <<a>> = Append(s, a)
           /\ \A s \in Seq(Said) : s \o <<>> = s
  OBVIOUS
<1>last. \A s \in Seq(Said) : Len(s) > 1 => Tail(s) # <<>> /\ Last(Tail(s)) = Last(s)
  <2> SUFFICES ASSUME NEW s \in Seq(Said), Len(s) > 1
               PROVE  Tail(s) # <<>> /\ Tail(s)[Len(Tail(s))] = s[Len(s)]
    BY DEF Last
  <2>1. Len(Tail(s)) = Len(s) - 1 /\ Len(s) - 1 > 0
    OBVIOUS
  <2>2. Tail(s)[Len(s) - 1] = s[Len(s)]
    OBVIOUS
  <2>3. Tail(s) # <<>>
    <3> DEFINE t == Tail(s)
    <3>1. Len(t) > 0
      BY <2>1
    <3> HIDE DEF t
    <3>2. t # <<>>
      BY <3>1
    <3> QED
      BY <3>2 DEF t
  <2> QED
    BY <2>1, <2>2, <2>3
<1>close. Plain("Close") = Message("Close", NoPiece) /\ NoPiece \in Indices
          /\ Plain("Unchoke") = Message("Unchoke", NoPiece)
  BY MessageParts
<1> DEFINE Y1 == Flag(p \in todo /\ "Bitfield" \in I)
           Y2 == Flag(stage[p] \in {"none", "linked"} /\ "PeerConnected" \in E)
           Y3 == Flag(p \in MayLeave /\ Open(p) /\ "Close" \in I)
           Y4 == IF "Have" \in I THEN says[p] ELSE 0
<1>yet. /\ Yet(p, I, E) = Y1 + Y2 + Y3 + Y4 /\ Yet(p, I, E)' = Y1' + Y2' + Y3' + Y4'
        /\ Y1 \in Nat /\ Y2 \in Nat /\ Y3 \in Nat /\ Y4 \in Nat
        /\ Y1' \in Nat /\ Y2' \in Nat /\ Y3' \in Nat /\ Y4' \in Nat
  <2>1. Yet(p, I, E) = Y1 + Y2 + Y3 + Y4 /\ Yet(p, I, E)' = Y1' + Y2' + Y3' + Y4'
    BY DEF Yet
  <2>2. says[p] \in Nat /\ says'[p] \in Nat
    BY <1>0
  <2> QED
    BY <1>3, <2>1, <2>2
<1> HIDE DEF Goal, J
<1>dial. CASE Dial(p)
  <2>1. /\ p \in todo /\ stage[p] = "none" /\ inbox[p] = <<>> /\ held[p] = <<>>
        /\ todo' = todo \ {p} /\ stage'[p] = "linked" /\ inbox'[p] = <<Plain("Bitfield")>>
        /\ UNCHANGED <<out, commands, pend, events, queue, held, says>>
    BY <1>0, <1>dial DEF Dial, peers
  <2>2. /\ Sent(p, M)' = Sent(p, M) /\ Count(held'[p], X) = Count(held[p], X)
        /\ Count(events', X) = Count(events, X)
    BY <1>4, <2>1
  <2>3. Unread(p, I) = 0 /\ Unread(p, I)' = Flag("Bitfield" \in I)
    <3>1. ~Ending(p) /\ ~Ending(p)'
      BY <2>1 DEF Ending
    <3>2. Plain("Bitfield") \in J <=> "Bitfield" \in I
      BY <1>7, MessageParts
    <3>3. Count(inbox'[p], J) = Flag(Plain("Bitfield") \in J) /\ Count(inbox[p], J) = 0
      BY <2>1, CountOne
    <3>4. Unread(p, I) = Count(inbox[p], J) /\ Unread(p, I)' = Count(inbox'[p], J)
      BY <3>1 DEF Unread, J
    <3> QED
      BY <3>2, <3>3, <3>4 DEF Flag
  <2>4. Open(p)
    BY <2>1 DEF Open, Ending, Closed
  <2>5. Yet(p, I, E)' + Flag("Bitfield" \in I) <= Yet(p, I, E)
    <3>1. Y1' = 0 /\ Y1 = Flag("Bitfield" \in I) /\ Y2' = Y2 /\ Y3' <= Y3
      BY <2>1, <2>4 DEF Flag
    <3>2. Y4' = Y4
      BY <2>1
    <3> HIDE DEF Y1, Y2, Y3, Y4
    <3> QED
      BY <1>yet, <3>1, <3>2
  <2>6. Goal
    BY <1>1, <1>2, <1>3, <2>2, <2>3, <2>5 DEF Goal
  <2> QED
    BY <1>0, <2>1, <2>6, Here DEF Goal
<1>announce. CASE Announce(p)
  <2>1. /\ stage[p] = "linked" /\ stage'[p] = "running"
        /\ events' = Append(events, Event("PeerConnected", p, NoPiece))
        /\ UNCHANGED <<out, commands, pend, queue, held, inbox, says, todo>>
    BY <1>0, <1>announce DEF Announce, Linked, coordinator, tables, pooling, peers
  <2>2. Sent(p, M)' = Sent(p, M) /\ Count(held'[p], X) = Count(held[p], X)
    BY <1>4, <2>1
  <2>3. Unread(p, I)' = Unread(p, I)
    BY <2>1 DEF Unread, Ending
  <2>4. Count(events', X) = Count(events, X) + Flag("PeerConnected" \in E)
    <3>1. Event("PeerConnected", p, NoPiece) \in Reports
      BY <1>close, ReportTypes DEF EventTypes
    <3>2. Event("PeerConnected", p, NoPiece) \in X <=> "PeerConnected" \in E
      BY <1>close, <1>7
    <3>3. Count(events', X) = Count(events, X) + Flag(Event("PeerConnected", p, NoPiece) \in X)
      BY <1>0, <2>1, <3>1, CountAppend
    <3> QED
      BY <3>2, <3>3 DEF Flag
  <2>5. Yet(p, I, E)' + Flag("PeerConnected" \in E) <= Yet(p, I, E)
    <3>1. Open(p)' = Open(p)
      BY <2>1 DEF Open, Ending, Closed
    <3>2. Y1' = Y1 /\ Y2' = 0 /\ Y2 = Flag("PeerConnected" \in E) /\ Y3' = Y3
      BY <2>1, <3>1 DEF Flag
    <3>3. Y4' = Y4
      BY <2>1
    <3> HIDE DEF Y1, Y2, Y3, Y4
    <3> QED
      BY <1>yet, <3>2, <3>3
  <2>6. Goal
    BY <1>1, <1>2, <1>3, <2>2, <2>3, <2>4, <2>5 DEF Goal
  <2> QED
    BY <1>0, <2>1, <2>6, Here DEF Goal
\* An event of p's goes out; after its end p's loop sends and reads no more.
<1>emits. ASSUME NEW t \in EventTypes, NEW i \in Indices, NEW n \in Nat,
                 stage[p] # "over", Emits(p, Event(t, p, i)), held'[p] = <<>>,
                 UNCHANGED <<out, commands, pend, queue, says, todo>>,
                 Count(held[p], X) + Unread(p, I) = Flag(Event(t, p, i) \in X) + n,
                 t # "PeerDisconnected" => Unread(p, I)' = n /\ (Open(p)' => Open(p))
          PROVE  Flow(p, M, I, E)' <= Flow(p, M, I, E)
  <2>1. /\ events' = Append(events, Event(t, p, i))
        /\ stage'[p] = IF t = "PeerDisconnected" THEN "over" ELSE stage[p]
    <3>1. Event(t, p, i).type = t
      BY ReportTypes
    <3>2. /\ events' = Append(events, Event(t, p, i))
          /\ stage' = [stage EXCEPT ![p] = IF Event(t, p, i).type = "PeerDisconnected" THEN "over" ELSE @]
      BY <1>emits DEF Emits
    <3> QED
      BY <1>0, <1>emits, <3>1, <3>2
  <2>2. Sent(p, M)' = Sent(p, M)
    BY <1>4, <1>emits
  <2>3. Count(events', X) = Count(events, X) + Flag(Event(t, p, i) \in X) /\ Count(held'[p], X) = 0
    <3>1. Event(t, p, i) \in Reports
      BY ReportTypes
    <3> QED
      BY <1>0, <1>emits, <1>empty, <2>1, <3>1, CountAppend
  <2>4. CASE t = "PeerDisconnected"
    <3>1. stage'[p] = "over" /\ stage[p] # "over"
      BY <1>emits, <2>1, <2>4
    <3>2. OnTheWay(p, M, I, E)' = Count(events', X) + 0
      BY <3>1 DEF OnTheWay
    <3>3. OnTheWay(p, M, I, E) = Count(events, X) + (Sent(p, M) + Count(held[p], X) + Unread(p, I))
      BY <3>1 DEF OnTheWay
    <3>4. Yet(p, I, E)' <= Yet(p, I, E)
      <4>1. ~Open(p)'
        BY <3>1 DEF Open
      <4> QED
        BY <1>6, <1>emits, <3>1, <4>1
    <3>5. Flow(p, M, I, E)' = Count(events', X) + Yet(p, I, E)'
      BY <1>2, <3>2 DEF Flow
    <3>6. Flow(p, M, I, E) = Count(events, X) + (Sent(p, M) + Count(held[p], X) + Unread(p, I)) + Yet(p, I, E)
      BY <3>3 DEF Flow
    <3>7. Count(held[p], X) + Unread(p, I) = Flag(Event(t, p, i) \in X) + n /\ n \in Nat
      BY <1>emits
    <3> QED
      BY <1>1, <1>2, <1>3, <2>3, <3>4, <3>5, <3>6, <3>7
  <2>5. CASE t # "PeerDisconnected"
    <3>1. Yet(p, I, E)' <= Yet(p, I, E)
      BY <1>6, <1>emits, <2>1, <2>5
    <3>2. /\ Unread(p, I)' = n /\ n \in Nat
          /\ Count(held[p], X) + Unread(p, I) = Flag(Event(t, p, i) \in X) + n
      BY <1>emits, <2>5
    <3>3. Goal
      BY <1>1, <1>2, <1>3, <2>2, <2>3, <3>1, <3>2 DEF Goal
    <3>4. stage[p] # "over"
      BY <1>emits
    <3> QED
      BY <1>0, <3>3, <3>4, Here DEF Goal
  <2> QED
    BY <2>4, <2>5
<1>receive. CASE Receive(p)
  <2>1. /\ stage[p] = "running" /\ held[p] = <<>> /\ inbox[p] # <<>>
        /\ UNCHANGED <<out, commands, pend, queue, says, todo>>
    BY <1>receive DEF Receive, Free, Runs, coordinator, tables, pooling, peers
  <2>2. PICK t \in SaidTypes, i \in Indices :
            /\ inbox[p][1] = Message(t, i) /\ inbox' = [inbox EXCEPT ![p] = Tail(@)]
            /\ EventOf[t] \in EventTypes
            /\ \/ Emits(p, Event(EventOf[t], p, i)) /\ UNCHANGED held
               \/ /\ held' = [held EXCEPT ![p] = <<Event(EventOf[t], p, i)>>]
                  /\ UNCHANGED <<events, stage>>
    BY <1>receive, ReceiveType
  <2> DEFINE x == Message(t, i)
             e == Event(EventOf[t], p, i)
             n == Count(inbox'[p], J)
  <2>3. inbox'[p] = Tail(inbox[p]) /\ inbox[p] \in Seq(Said) /\ Head(inbox[p]) = x
    BY <1>0, <2>1, <2>2
  <2>4. e \in X <=> x \in J
    BY <1>7, <2>2
  <2>5. Count(inbox[p], J) = Flag(x \in J) + n
    BY <2>1, <2>3, CountTail
  <2>6. Count(held[p], X) = 0 /\ Unread(p, I) = Count(inbox[p], J)
    BY <1>empty, <2>1 DEF Unread, Ending, J
  <2>7. Flag(x \in J) = Flag(e \in X)
    BY <2>4 DEF Flag
  <2>8. EventOf[t] = "PeerDisconnected" <=> t = "Close"
    BY ReportTypes
  <2>9. t # "Close" /\ Closed(p) => Closed(p)'
    <3> SUFFICES ASSUME t # "Close", Closed(p) PROVE Closed(p)'
      OBVIOUS
    <3>1. Last(inbox[p]) = Plain("Close")
      BY DEF Closed
    <3>2. x # Plain("Close")
      BY <1>close, MessageParts
    <3>3. Len(inbox[p]) # 1
      <4>1. Last(inbox[p]) = inbox[p][Len(inbox[p])] /\ x = inbox[p][1]
        BY <2>2 DEF Last
      <4> QED
        BY <3>1, <3>2, <4>1
    <3>4. Tail(inbox[p]) # <<>> /\ Last(Tail(inbox[p])) = Last(inbox[p])
      <4>0. \A s \in Seq(Said) : s # <<>> => Len(s) > 0 /\ Len(s) \in Nat
        OBVIOUS
      <4>1. Len(inbox[p]) > 1
        <5>1. Len(inbox[p]) > 0 /\ Len(inbox[p]) \in Nat
          BY <2>1, <2>3, <4>0
        <5> DEFINE m == Len(inbox[p])
        <5>2. m # 1 /\ m > 0 /\ m \in Nat
          BY <3>3, <5>1
        <5> HIDE DEF m
        <5>3. m > 1
          BY <5>2
        <5> QED
          BY <5>3 DEF m
      <4> QED
        BY <1>last, <2>3, <4>1
    <3> QED
      BY <2>3, <3>1, <3>4 DEF Closed
  <2>10. n \in Nat
    BY <1>2
  <2> HIDE DEF x, n
  <2>11. CASE Emits(p, e) /\ UNCHANGED held
    <3>1. held'[p] = <<>> /\ ~Ending(p)' /\ ~Ending(p)
      BY <2>1, <2>11 DEF Ending
    <3>2. Unread(p, I)' = n
      BY <3>1 DEF Unread, n, J
    <3>3. t # "Close" => (Open(p)' => Open(p))
      BY <2>1, <2>9, <3>1 DEF Open
    <3>4. Count(held[p], X) + Unread(p, I) = Flag(e \in X) + n
      BY <1>1, <1>3, <2>5, <2>6, <2>7, <2>10
    <3> QED
      BY <1>emits, <2>1, <2>2, <2>8, <2>10, <2>11, <3>1, <3>2, <3>3, <3>4
  <2>12. CASE held' = [held EXCEPT ![p] = <<e>>] /\ UNCHANGED <<events, stage>>
    <3>1. held'[p] = <<e>> /\ Count(events', X) = Count(events, X) /\ stage'[p] = "running"
      BY <1>0, <2>1, <2>12
    <3>2. Count(held'[p], X) = Flag(e \in X)
      BY <3>1, CountOne
    <3>3. Unread(p, I)' <= n
      BY <1>2 DEF Unread, n, J
    <3>4. t = "Close" => Ending(p)'
      <4>1. e.type = EventOf[t]
        BY ReportTypes
      <4> HIDE DEF e
      <4> QED
        BY <1>single, <2>8, <3>1, <4>1 DEF Ending
    <3>5. Open(p)' => Open(p)
      <4>1. ~Ending(p)
        BY <2>1 DEF Ending
      <4> QED
        BY <2>1, <2>9, <3>4, <4>1 DEF Open
    <3>6. Yet(p, I, E)' <= Yet(p, I, E)
      BY <1>6, <2>1, <3>1, <3>5
    <3>7. Sent(p, M)' = Sent(p, M)
      BY <1>4, <2>1
    <3>8. Goal
      BY <1>1, <1>2, <1>3, <2>5, <2>6, <2>7, <2>10, <3>1, <3>2, <3>3, <3>6, <3>7 DEF Goal
    <3>9. stage[p] # "over"
      BY <2>1
    <3> QED
      BY <1>0, <3>8, <3>9, Here DEF Goal
  <2> QED
    BY <2>2, <2>11, <2>12
<1>event. CASE SendEvent(p)
  <2>1. PICK t \in EventTypes, i \in Indices : held[p] = <<Event(t, p, i)>> /\ held[p][1] = Event(t, p, i)
    BY <1>0, <1>event, HeldParts DEF SendEvent
  <2>2. /\ Emits(p, Event(t, p, i)) /\ held'[p] = <<>>
        /\ UNCHANGED <<out, commands, pend, queue, inbox, says, todo>>
    BY <1>0, <1>event, <2>1 DEF SendEvent, coordinator, tables, pooling, peers
  <2>3. stage[p] # "over"
    BY <1>0, <1>event DEF SendEvent
  <2>4. ~Ending(p)' /\ (Ending(p) <=> t = "PeerDisconnected")
    <3>1. Event(t, p, i).type = t /\ held[p] # <<>>
      BY <1>event, ReportTypes DEF SendEvent
    <3> QED
      BY <2>1, <2>2, <3>1 DEF Ending
  <2>5. Count(held[p], X) = Flag(Event(t, p, i) \in X)
    BY <2>1, CountOne
  <2>6. t # "PeerDisconnected" => Unread(p, I)' = Unread(p, I) /\ (Open(p)' => Open(p))
    BY <2>2, <2>3, <2>4 DEF Unread, Open, Closed
  <2>7. Count(held[p], X) + Unread(p, I) = Flag(Event(t, p, i) \in X) + Unread(p, I)
    BY <2>5
  <2>8. Unread(p, I) \in Nat
    BY <1>1
  <2> QED
    BY <1>emits, <2>2, <2>3, <2>6, <2>7, <2>8
<1>deliver. CASE Deliver(p)
  <2> DEFINE m == Head(queue[p])
             k == m \in Of(M)
  <2>1. /\ stage[p] = "running" /\ stage'[p] = "running" /\ held[p] = <<>> /\ queue[p] # <<>>
        /\ queue'[p] = Tail(queue[p])
        /\ UNCHANGED <<out, commands, pend, events, says, todo>>
    BY <1>0, <1>deliver DEF Deliver, Free, Runs, coordinator, tables, pooling
  <2>2. m \in Messages /\ queue[p] \in Seq(Messages) /\ inbox[p] \in Seq(Said)
    BY <1>0, <2>1
  <2>3. Count(events', X) = Count(events, X)
    BY <2>1
  <2>4. Sent(p, M)' + Flag(k) = Sent(p, M)
    <3>1. Count(queue[p], Of(M)) = Flag(k) + Count(queue'[p], Of(M))
      BY <2>1, <2>2, CountTail
    <3>2. /\ Count(out, OrdersTo(p, M)) \in Nat /\ Count(commands, OrdersTo(p, M)) \in Nat
          /\ Count(pend, OrdersTo(p, M)) \in Nat
      BY <1>0, Amounts
    <3>3. Sent(p, M)' = Count(out, OrdersTo(p, M)) + Count(commands, OrdersTo(p, M))
                + Count(pend, OrdersTo(p, M)) + Count(queue'[p], Of(M))
      BY <2>1 DEF Sent
    <3>4. Sent(p, M) = Count(out, OrdersTo(p, M)) + Count(commands, OrdersTo(p, M))
                + Count(pend, OrdersTo(p, M)) + Count(queue[p], Of(M))
      BY DEF Sent
    <3>5. Flag(k) \in Nat
      BY DEF Flag
    <3> HIDE DEF m, k
    <3> QED
      BY <1>1, <1>2, <3>1, <3>2, <3>3, <3>4, <3>5
  <2>5. Count(held[p], X) = 0 /\ Unread(p, I) = Count(inbox[p], J)
    BY <1>empty, <2>1 DEF Unread, Ending, J
  <2>6. CASE held' = held /\ inbox' = [inbox EXCEPT ![p] = IF Closed(p) THEN @ ELSE @ \o Answer(p, m)]
    <3>1. held'[p] = <<>> /\ inbox'[p] = IF Closed(p) THEN inbox[p] ELSE inbox[p] \o Answer(p, m)
      BY <1>0, <2>1, <2>6
    <3>2. Count(inbox'[p], J) <= Count(inbox[p], J) + Flag(k)
      <4>1. CASE inbox'[p] = inbox[p]
        BY <1>1, <1>3, <4>1
      <4>2. ASSUME NEW a \in Said, inbox'[p] = Append(inbox[p], a), a \in J <=> k
            PROVE  Count(inbox'[p], J) <= Count(inbox[p], J) + Flag(k)
        <5>1. Count(inbox'[p], J) = Count(inbox[p], J) + Flag(a \in J)
          BY <2>2, <4>2, CountAppend
        <5> QED
          BY <1>1, <4>2, <5>1 DEF Flag
      <4>3. m.type \in MessageTypes /\ m.piece \in Indices /\ (k <=> m.type \in M)
        <5>1. m.type \in MessageTypes /\ m.piece \in Indices /\ m = Message(m.type, m.piece)
          BY <2>2, MessageParts DEF Messages
        <5>2. Message(m.type, m.piece) \in Of(M) <=> m.type \in M
          BY <5>1, MessageParts
        <5> QED
          BY <5>1, <5>2
      <4> HIDE DEF m, k
      <4>4. CASE ~Closed(p) /\ m.type = "Interested"
        <5>1. Answer(p, m) = <<Plain("Unchoke")>> /\ Plain("Unchoke") \in Said
          BY <4>4, SaidParts DEF Answer
        <5>2. inbox'[p] = Append(inbox[p], Plain("Unchoke"))
          BY <1>joined, <2>2, <3>1, <4>4, <5>1
        <5>3. Plain("Unchoke") \in J <=> "Unchoke" \in I
          BY <1>7, <1>close
        <5> QED
          BY <1>5, <4>2, <4>3, <4>4, <5>1, <5>2, <5>3
      <4>5. CASE ~Closed(p) /\ m.type = "Request" /\ p \notin choking
        <5>1. Answer(p, m) = <<Message("Piece", m.piece)>> /\ Message("Piece", m.piece) \in Said
          BY <4>3, <4>5, SaidParts DEF Answer
        <5>2. inbox'[p] = Append(inbox[p], Message("Piece", m.piece))
          BY <1>joined, <2>2, <3>1, <4>5, <5>1
        <5>3. Message("Piece", m.piece) \in J <=> "Piece" \in I
          BY <1>7, <4>3
        <5> QED
          BY <1>5, <4>2, <4>3, <4>5, <5>1, <5>2, <5>3
      <4>6. CASE ~Closed(p) /\ (m.type \in {"Have", "Pex"} \/ (m.type = "Request" /\ p \in choking))
        <5>0. Answer(p, m) = <<>>
          BY <4>6 DEF Answer
        <5>1. inbox'[p] = inbox[p]
          BY <1>joined, <2>2, <3>1, <4>6, <5>0
        <5> QED
          BY <4>1, <5>1
      <4> QED
        BY <3>1, <4>1, <4>3, <4>4, <4>5, <4>6 DEF MessageTypes
    <3>3. Count(held'[p], X) = 0 /\ Unread(p, I)' = Count(inbox'[p], J)
      BY <1>empty, <3>1 DEF Unread, Ending, J
    <3>4. Open(p)' => Open(p)
      <4>1. ~Ending(p)
        BY <2>1 DEF Ending
      <4>2. Closed(p) => Closed(p)'
        BY <3>1 DEF Closed
      <4> QED
        BY <2>1, <4>1, <4>2 DEF Open
    <3>5. Yet(p, I, E)' <= Yet(p, I, E)
      BY <1>6, <2>1, <3>4
    <3> HIDE DEF m, k
    <3>6. Goal
      BY <1>1, <1>2, <1>3, <2>3, <2>4, <2>5, <3>2, <3>3, <3>5 DEF Goal
    <3>7. stage[p] # "over"
      BY <2>1
    <3> QED
      BY <1>0, <3>6, <3>7, Here DEF Goal
  <2>7. CASE Closed(p) /\ held' = [held EXCEPT ![p] = <<Event("PeerDisconnected", p, NoPiece)>>]
    <3>0. Event("PeerDisconnected", p, NoPiece).type = "PeerDisconnected"
      BY ReportTypes
    <3>1. held'[p] = <<Event("PeerDisconnected", p, NoPiece)>> /\ Ending(p)'
      <4>1. held'[p] = <<Event("PeerDisconnected", p, NoPiece)>>
        BY <1>0, <2>7
      <4> QED
        BY <1>single, <3>0, <4>1 DEF Ending
    <3>2. Unread(p, I)' = 0 /\ ~Open(p)'
      BY <3>1 DEF Unread, Open
    <3>3. Count(held'[p], X) = Flag("Close" \in I)
      <4>1. Event("PeerDisconnected", p, NoPiece) \in X <=> "Close" \in I
        BY <1>5, <1>7, <1>close
      <4>2. Count(held'[p], X) = Flag(Event("PeerDisconnected", p, NoPiece) \in X)
        BY <3>1, CountOne
      <4> QED
        BY <4>1, <4>2 DEF Flag
    <3>4. Flag("Close" \in I) <= Count(inbox[p], J)
      <4>1. Len(inbox[p]) \in DOMAIN inbox[p] /\ inbox[p][Len(inbox[p])] = Plain("Close")
        BY <2>2, <2>7 DEF Closed, Last
      <4>2. Plain("Close") \in J <=> "Close" \in I
        BY <1>7, <1>close
      <4>3. "Close" \in I => \E j \in DOMAIN inbox[p] : inbox[p][j] \in J
        BY <4>1, <4>2
      <4>4. (\E j \in DOMAIN inbox[p] : inbox[p][j] \in J) => Count(inbox[p], J) >= 1
        BY <2>2, CountType
      <4> QED
        BY <1>1, <4>3, <4>4 DEF Flag
    <3>5. Yet(p, I, E)' <= Yet(p, I, E)
      BY <1>6, <2>1, <3>2
    <3> HIDE DEF m, k
    <3>6. Flag(k) \in Nat
      BY <1>3
    <3>7. Goal
      BY <1>1, <1>2, <2>3, <2>4, <2>5, <3>2, <3>3, <3>4, <3>5, <3>6 DEF Goal
    <3>8. stage[p] # "over"
      BY <2>1
    <3> QED
      BY <1>0, <3>7, <3>8, Here DEF Goal
  <2> QED
    BY <1>deliver, <2>6, <2>7 DEF Deliver
<1>dismissed. CASE Dismissed(p)
  <2>1. /\ stage[p] = "running" /\ stage'[p] = "over"
        /\ UNCHANGED <<out, commands, pend, queue, events, held, inbox, says, todo>>
    BY <1>0, <1>dismissed DEF Dismissed, Free, Runs, coordinator, tables, pooling, peers
  <2>2. ~Open(p)'
    BY <2>1 DEF Open
  <2>3. Yet(p, I, E)' <= Yet(p, I, E)
    BY <1>6, <2>1, <2>2
  <2>4. Sent(p, M)' = Sent(p, M) /\ Unread(p, I)' = Unread(p, I)
    BY <1>4, <2>1 DEF Unread, Ending
  <2>5. Count(events', X) = Count(events, X) /\ Count(held'[p], X) = Count(held[p], X)
    BY <2>1
  <2>6. Goal
    BY <1>1, <1>2, <2>3, <2>4, <2>5 DEF Goal
  <2> QED
    BY <1>0, <2>1, <2>6, Here DEF Goal
<1>said. CASE PeerSays(p) \/ PeerTurns(p) \/ PeerLeaves(p)
  <2>1. /\ stage[p] \notin {"none", "over"} /\ ~Closed(p)
        /\ UNCHANGED <<out, todo, commands, pend, queue, events, stage, held>>
    BY <1>0, <1>said, SpeaksCounts
  <2>2. PICK t \in SaidTypes, i \in Indices :
            /\ inbox' = [inbox EXCEPT ![p] = Append(@, Message(t, i))]
            /\ \/ t = "Close" /\ i = NoPiece /\ p \in MayLeave /\ says' = says
               \/ /\ t \in {"Have", "Pex", "Dropped", "Choke", "Unchoke"}
                  /\ inbox[p] = <<>> /\ says[p] > 0 /\ says'[p] = says[p] - 1
    BY <1>0, <1>said, SpeaksCounts
  <2> DEFINE x == Message(t, i)
             f == Flag(~Ending(p) /\ x \in J)
  <2>3. inbox'[p] = Append(inbox[p], x) /\ x \in Said /\ inbox[p] \in Seq(Said)
    BY <1>0, <2>2, SaidParts
  <2>4. x \in J <=> t \in I
    BY <1>7
  <2> HIDE DEF x
  <2>5. /\ Sent(p, M)' = Sent(p, M) /\ Count(events', X) = Count(events, X)
        /\ Count(held'[p], X) = Count(held[p], X)
    BY <1>4, <2>1
  <2>6. Count(inbox'[p], J) = Count(inbox[p], J) + Flag(x \in J)
    BY <2>3, CountAppend
  <2>7. Ending(p)' = Ending(p)
    BY <2>1 DEF Ending
  <2>8. Unread(p, I)' = Unread(p, I) + f
    <3>1. /\ Unread(p, I) = IF Ending(p) THEN 0 ELSE Count(inbox[p], J)
          /\ Unread(p, I)' = IF Ending(p) THEN 0 ELSE Count(inbox'[p], J)
      BY <2>7 DEF Unread, J
    <3>2. CASE Ending(p)
      BY <3>1, <3>2 DEF Flag
    <3>3. CASE ~Ending(p)
      BY <2>6, <3>1, <3>3 DEF Flag
    <3> QED
      BY <3>2, <3>3
  <2>9. f + Yet(p, I, E)' <= Yet(p, I, E)
    <3>1. CASE t = "Close" /\ i = NoPiece /\ p \in MayLeave /\ says' = says
      <4>1. x = Plain("Close")
        BY <1>close, <3>1 DEF x
      <4>2. Closed(p)'
        BY <2>3, <4>1 DEF Closed, Last
      <4>3. ~Open(p)' /\ (Open(p) <=> ~Ending(p))
        BY <2>1, <4>2 DEF Open
      <4>4. Y1' = Y1 /\ Y2' = Y2 /\ Y3' = 0 /\ Y3 = f
        BY <2>1, <2>4, <3>1, <4>3 DEF Flag
      <4>5. Y4' = Y4
        BY <3>1
      <4> HIDE DEF Y1, Y2, Y3, Y4, f
      <4> QED
        BY <1>yet, <4>4, <4>5
    <3>2. CASE /\ t \in {"Have", "Pex", "Dropped", "Choke", "Unchoke"}
               /\ inbox[p] = <<>> /\ says[p] > 0 /\ says'[p] = says[p] - 1
      <4>1. Open(p)' => Open(p)
        BY <2>1, <2>7 DEF Open
      <4>2. Y1' = Y1 /\ Y2' = Y2 /\ Y3' <= Y3
        BY <2>1, <4>1 DEF Flag
      <4>3. x \in J => "Have" \in I
        BY <1>5, <2>4, <3>2
      <4>4. f + Y4' <= Y4
        <5>1. says[p] \in Nat /\ says'[p] \in Nat
          BY <1>0
        <5> QED
          BY <3>2, <4>3, <5>1 DEF Flag
      <4>5. f \in Nat /\ f + Y4' <= Y4
        BY <1>3, <4>4
      <4>6. Y1 + Y2 + Y3' <= Y1 + Y2 + Y3
        <5> HIDE DEF Y1, Y2, Y3
        <5> QED
          BY <1>yet, <4>2
      <4> DEFINE before == Y1 + Y2 + Y3
                 after == Y1 + Y2 + Y3'
      <4>7. before \in Nat /\ after \in Nat /\ after <= before
        BY <1>yet, <4>6
      <4>8. Yet(p, I, E) = before + Y4 /\ Yet(p, I, E)' = after + Y4' /\ Y4 \in Nat /\ Y4' \in Nat
        BY <1>yet, <4>2
      <4>9. \A a, b, c, d, e \in Nat : a + c <= d /\ e <= b => a + (e + c) <= b + d
        OBVIOUS
      <4> HIDE DEF Y1, Y2, Y3, Y4, f, before, after
      <4>10. f + (after + Y4') <= before + Y4
        BY <4>5, <4>7, <4>8, <4>9
      <4> QED
        BY <4>8, <4>10
    <3> QED
      BY <2>2, <3>1, <3>2
  <2>10. f \in Nat
    BY <1>3
  <2> HIDE DEF f
  <2>11. Goal
    BY <1>1, <1>2, <2>5, <2>8, <2>9, <2>10 DEF Goal
  <2>12. stage[p] # "over"
    BY <2>1
  <2> QED
    BY <1>0, <2>11, <2>12, Here DEF Goal
<1> QED
  BY <1>dial, <1>announce, <1>receive, <1>event, <1>deliver, <1>dismissed, <1>said
     DEF PeerStep, LoopStep

----------------------------------------------------------------------------
(* Room for what may be on the way *)

\* What comes of the requests sent to p; and all else that p may report: its connection,
\* its bitfield or the unchoke it answers our interest with, what it says, its end.
PiecesOf(p) == Flow(p, {"Request"}, {"Piece"}, {"PieceReceived"})
OthersOf(p) == Flow(p, {"Interested"}, SaidTypes \ {"Piece"}, EventTypes \ {"PieceReceived"})

Quota == [p \in Peers |-> 2 + MaxSaid[p] + Flag(p \in MayLeave)]

\* Requests aside, no peer can report more than its quota; and nothing is requested before
\* the loop of the coordinator.
Accounts ==
    /\ \A p \in Peers : OthersOf(p) <= Quota[p]
    /\ at = "connecting" => \A p \in Peers : PiecesOf(p) = 0

LEMMA QuotaType == Quota \in [Peers -> Nat] /\ Sum(Quota) \in Nat
<1>1. Quota \in [Peers -> Nat]
  BY ConstantsAssumption DEF Quota, Flag
<1> QED
  BY <1>1, SlotsFinite

LEMMA Kinds ==
    /\ Kind({"Request"}, {"Piece"}, {"PieceReceived"})
    /\ Kind({"Interested"}, SaidTypes \ {"Piece"}, EventTypes \ {"PieceReceived"})
<1>1. /\ EventOf["Bitfield"] = "BitfieldReceived" /\ EventOf["Unchoke"] = "Unchoked"
      /\ EventOf["Choke"] = "Choked" /\ EventOf["Piece"] = "PieceReceived"
      /\ EventOf["Have"] = "HaveReceived" /\ EventOf["Pex"] = "PexReceived"
      /\ EventOf["Dropped"] = "PexTakenBack" /\ EventOf["Close"] = "PeerDisconnected"
  BY DEF EventOf
<1> QED
  BY <1>1 DEF Kind, SaidTypes, EventTypes

LEMMA InitAccounts == Init => InCourse /\ Accounts
<1> SUFFICES ASSUME Init PROVE InCourse /\ Accounts
  OBVIOUS
<1>0. says \in [Peers -> Nat] /\ \A p \in Peers : says[p] <= MaxSaid[p]
  <2>1. PICK b \in Budgets : says = b.says
    BY DEF Init
  <2> QED
    BY <2>1, ConstantsAssumption
<1>1. InCourse
  BY <1>0 DEF InCourse, Init
<1>2. ASSUME NEW p \in Peers PROVE PiecesOf(p) = 0 /\ OthersOf(p) <= Quota[p]
  <2> DEFINE I == SaidTypes \ {"Piece"}
             E == EventTypes \ {"PieceReceived"}
  <2>1. \A S : Count(<<>>, S) = 0
    BY CountOne
  <2>2. /\ events = <<>> /\ out = <<>> /\ commands = <<>> /\ pend = <<>> /\ queue[p] = <<>>
        /\ held[p] = <<>> /\ inbox[p] = <<>> /\ stage[p] = "none"
    BY DEF Init
  <2>3. \A M, J, F : OnTheWay(p, M, J, F) = 0
    BY <2>1, <2>2 DEF OnTheWay, Sent, Unread
  <2>4. Yet(p, {"Piece"}, {"PieceReceived"}) = 0
    BY DEF Yet, Flag
  <2>5. Yet(p, I, E) <= Quota[p]
    <3>1. says[p] \in Nat /\ says[p] <= MaxSaid[p] /\ MaxSaid[p] \in Nat
      BY <1>0, ConstantsAssumption
    <3>2. "Have" \in I
      BY DEF SaidTypes
    <3>3. Flag(p \in MayLeave /\ Open(p) /\ "Close" \in I) <= Flag(p \in MayLeave)
      BY DEF Flag
    <3>4. \A b : Flag(b) \in {0, 1}
      BY DEF Flag
    <3> DEFINE a == Flag(p \in todo /\ "Bitfield" \in I)
               b == Flag(stage[p] \in {"none", "linked"} /\ "PeerConnected" \in E)
               c == Flag(p \in MayLeave /\ Open(p) /\ "Close" \in I)
    <3>5. Yet(p, I, E) = a + b + c + says[p]
      BY <3>2 DEF Yet
    <3>6. /\ a \in {0, 1} /\ b \in {0, 1} /\ c \in {0, 1}
          /\ c <= Flag(p \in MayLeave) /\ Flag(p \in MayLeave) \in {0, 1}
      BY <3>3, <3>4
    <3> HIDE DEF a, b, c
    <3>7. Quota[p] = 2 + MaxSaid[p] + Flag(p \in MayLeave)
      BY DEF Quota
    <3> QED
      BY <3>1, <3>5, <3>6, <3>7
  <2>6. Quota[p] \in Nat
    BY QuotaType
  <2>7. PiecesOf(p) = 0 /\ OthersOf(p) = Yet(p, I, E)
    <3>1. Yet(p, I, E) \in Nat
      BY <1>0, InitTyped, Amounts
    <3> QED
      BY <2>3, <2>4, <3>1 DEF PiecesOf, OthersOf, Flow
  <2> QED
    BY <2>5, <2>7
<1> QED
  BY <1>1, <1>2 DEF Accounts

\* A handler takes one event and leaves its commands to be sent.
LEMMA Handled ==
    ASSUME Typed, Typed', InCourse, InCourse', NEW p \in Peers, NEW q \in Peers, NEW type \in EventTypes,
           Takes(type, q), NEW M, NEW I, NEW E
    PROVE  Flow(p, M, I, E)'
                <= Flow(p, M, I, E) + Count(out', OrdersTo(p, M)) - Flag(q = p /\ type \in E)
<1>0. /\ says \in [Peers -> Nat] /\ says' \in [Peers -> Nat] /\ events \in Seq(Reports)
      /\ at = "sending" <=> out # <<>>
  BY DEF InCourse, Typed, LoopsTyped, CoordinatorTyped
<1>1. /\ events # <<>> /\ Head(events) \in Reports /\ Head(events).type = type /\ Head(events).peer = q
      /\ events' = Tail(events) /\ out = <<>>
      /\ UNCHANGED <<commands, pend, queue, stage, held, inbox, says, todo>>
  BY <1>0 DEF Takes, pooling, loops, peers
<1> DEFINE X == EventsOf(p, E)
           f == Flag(q = p /\ type \in E)
           n == Count(out', OrdersTo(p, M)) - f
<1>2. Count(events, X) = f + Count(events', X) /\ f \in {0, 1}
  <2>1. Head(events) \in X <=> q = p /\ type \in E
    BY <1>1, Members
  <2>2. Count(events, X) = Flag(Head(events) \in X) + Count(events', X)
    BY <1>0, <1>1, CountTail
  <2>3. Flag(Head(events) \in X) = f
    BY <2>1 DEF Flag
  <2> QED
    BY <2>2, <2>3 DEF Flag
<1>3. Sent(p, M)' = Sent(p, M) + Count(out', OrdersTo(p, M))
  <2>1. Count(out, OrdersTo(p, M)) = 0
    BY <1>1, CountOne
  <2>2. Sent(p, M) = 0 + Count(commands, OrdersTo(p, M)) + Count(pend, OrdersTo(p, M)) + Count(queue[p], Of(M))
    BY <2>1 DEF Sent
  <2>3. Sent(p, M)' = Count(out', OrdersTo(p, M)) + Count(commands, OrdersTo(p, M))
            + Count(pend, OrdersTo(p, M)) + Count(queue[p], Of(M))
    BY <1>1 DEF Sent
  <2>4. /\ Count(commands, OrdersTo(p, M)) \in Nat /\ Count(pend, OrdersTo(p, M)) \in Nat
        /\ Count(queue[p], Of(M)) \in Nat
    BY <1>0, Amounts
  <2>5. Count(out', OrdersTo(p, M)) \in Nat
    BY <1>0, AmountsNext
  <2> QED
    BY <2>2, <2>3, <2>4, <2>5
<1>4. /\ Count(events, X) \in Nat /\ Sent(p, M) \in Nat /\ Flow(p, M, I, E) \in Nat
  BY <1>0, Amounts
<1>5. Count(out', OrdersTo(p, M)) \in Nat /\ Count(events', X) \in Nat
  BY <1>0, AmountsNext
<1>6. n \in Int
  BY <1>2, <1>5
<1>7. /\ Count(events', X) <= Count(events, X) + n
      /\ Count(events', X) + Sent(p, M)' <= Count(events, X) + Sent(p, M) + n
  <2> HIDE DEF f
  <2> QED
    BY <1>2, <1>3, <1>4, <1>5
<1> HIDE DEF n
<1>8. Flow(p, M, I, E)' <= Flow(p, M, I, E) + n
  BY <1>0, <1>1, <1>6, <1>7, Elsewhere
<1>9. Flow(p, M, I, E)' \in Nat
  BY <1>0, AmountsNext
<1> HIDE DEF f
<1>10. Flow(p, M, I, E)' <= Flow(p, M, I, E) + Count(out', OrdersTo(p, M)) - f
  BY <1>2, <1>4, <1>5, <1>8, <1>9 DEF n
<1> QED
  BY <1>10 DEF f

\* A handler sends interest only for a bitfield, which is taken for it.
LEMMA HandlerAccounts ==
    ASSUME Typed, Typed', InCourse, InCourse', HandleEvent, NEW p \in Peers
    PROVE  OthersOf(p)' <= OthersOf(p)
<1>1. PICK q \in Peers, type \in EventTypes : \E list, picks : Effect(q, type, list, picks)
  BY Handles
<1>2. PICK list, picks : Effect(q, type, list, picks)
  BY <1>1
<1>3. /\ Takes(type, q) /\ out' = list
      /\ NoInterest(list) \/ (type = "BitfieldReceived" /\ list = <<To(q, Plain("Interested"))>>)
  BY <1>2 DEF Effect, Goes
<1> DEFINE E == EventTypes \ {"PieceReceived"}
           f == Flag(q = p /\ type \in E)
           n == Count(out', OrdersTo(p, {"Interested"}))
<1>4. OthersOf(p)' <= OthersOf(p) + n - f
  BY <1>3, Handled DEF OthersOf
<1>5. n \in Nat /\ f \in Nat /\ n <= f
  <2>1. f \in Nat
    BY DEF Flag
  <2>2. CASE NoInterest(list)
    <3>1. n = 0
      BY <1>3, <2>2, NoInterestCount
    <3> HIDE DEF f, n
    <3> QED
      BY <2>1, <3>1
  <2>3. CASE type = "BitfieldReceived" /\ list = <<To(q, Plain("Interested"))>>
    <3>1. To(q, Plain("Interested")) \in OrdersTo(p, {"Interested"}) => q = p
      BY Members
    <3>2. n = Flag(To(q, Plain("Interested")) \in OrdersTo(p, {"Interested"}))
      BY <1>3, <2>3, CountOne
    <3>3. type \in E
      BY <2>3 DEF EventTypes
    <3> QED
      BY <3>1, <3>2, <3>3 DEF Flag
  <2> QED
    BY <1>3, <2>2, <2>3
<1>6. OthersOf(p) \in Nat /\ OthersOf(p)' \in Nat
  BY Amounts, AmountsNext DEF OthersOf, InCourse
<1> HIDE DEF f, n
<1> QED
  BY <1>4, <1>5, <1>6

LEMMA NextAccounts == Typed /\ InCourse /\ Accounts /\ [Next]_vars => Accounts'
<1> SUFFICES ASSUME Typed, InCourse, Accounts, [Next]_vars PROVE Accounts'
  OBVIOUS
<1>0. Typed' /\ InCourse'
  BY NextTyped, NextInCourse
<1>at. at' = "connecting" => at = "connecting"
  BY Birth
<1>goes. ASSUME NEW list, NEW picks, Goes(list, picks) PROVE at' # "connecting"
  BY <1>goes DEF Goes
<1>1. ASSUME \A p \in Peers : OthersOf(p)' <= OthersOf(p),
             at' = "connecting" => \A p \in Peers : PiecesOf(p)' <= PiecesOf(p)
      PROVE  Accounts'
  <2>1. \A p \in Peers : /\ PiecesOf(p) \in Nat /\ OthersOf(p) \in Nat
                         /\ PiecesOf(p)' \in Nat /\ OthersOf(p)' \in Nat
    BY <1>0, Amounts, AmountsNext DEF PiecesOf, OthersOf, InCourse
  <2>2. \A p \in Peers : OthersOf(p)' <= Quota[p]
    <3> SUFFICES ASSUME NEW p \in Peers PROVE OthersOf(p)' <= Quota[p]
      OBVIOUS
    <3>1. OthersOf(p) <= Quota[p] /\ Quota[p] \in Nat
      BY QuotaType DEF Accounts
    <3> QED
      BY <1>1, <2>1, <3>1
  <2>3. at' = "connecting" => \A p \in Peers : PiecesOf(p)' = 0
    <3> SUFFICES ASSUME at' = "connecting", NEW p \in Peers PROVE PiecesOf(p)' = 0
      OBVIOUS
    <3>1. PiecesOf(p) = 0
      BY <1>at DEF Accounts
    <3> QED
      BY <1>1, <2>1, <3>1
  <2>4. Quota' = Quota
    BY DEF Quota, Flag
  <2> QED
    BY <2>2, <2>3, <2>4 DEF Accounts
<1>2. CASE HandleEvent
  <2>1. at' # "connecting"
    BY <1>2, <1>goes, Handles DEF Effect
  <2>2. \A p \in Peers : OthersOf(p)' <= OthersOf(p)
    BY <1>0, <1>2, HandlerAccounts
  <2> QED
    BY <1>1, <2>1, <2>2
<1>3. CASE PexTick \/ (\E i \in Pieces : OnStale(i)) \/ \E q \in Peers : RequestOne(q)
  <2>1. at' # "connecting"
    BY <1>3, <1>goes, TickGoes, StaleGoes, RequestGoes DEF Requested
  <2>2. \A p \in Peers : OthersOf(p)' <= OthersOf(p)
    BY <1>0, <1>3, OnItsOwn DEF OthersOf
  <2> QED
    BY <1>1, <2>1, <2>2
<1>4. CASE StartLoop \/ SendCommand \/ PoolStep \/ \E q \in Peers : BanExpires(q)
  <2>1. \A p \in Peers : PiecesOf(p)' <= PiecesOf(p) /\ OthersOf(p)' <= OthersOf(p)
    BY <1>0, <1>4, PassedOn, Kinds DEF PiecesOf, OthersOf
  <2> QED
    BY <1>1, <2>1
<1>5. ASSUME NEW q \in Peers, PeerStep(q) PROVE Accounts'
  <2>1. ASSUME NEW p \in Peers PROVE PiecesOf(p)' <= PiecesOf(p) /\ OthersOf(p)' <= OthersOf(p)
    <3>1. CASE p = q
      BY <1>0, <1>5, <3>1, OfPeer, Kinds DEF PiecesOf, OthersOf
    <3>2. CASE p # q
      BY <1>0, <1>5, <3>2, NotOfPeer DEF PiecesOf, OthersOf
    <3> QED
      BY <3>1, <3>2
  <2> QED
    BY <1>1, <2>1
<1>6. CASE UNCHANGED vars
  <2>1. ASSUME NEW p \in Peers, NEW M, NEW I, NEW E PROVE Flow(p, M, I, E)' = Flow(p, M, I, E)
    BY <1>6 DEF vars, loops, peers, tables, pooling, Flow, OnTheWay, Sent, Unread, Ending, Yet, Open, Closed
  <2>2. ASSUME NEW p \in Peers PROVE PiecesOf(p)' <= PiecesOf(p) /\ OthersOf(p)' <= OthersOf(p)
    <3>1. PiecesOf(p) \in Nat /\ OthersOf(p) \in Nat
      BY Amounts DEF InCourse, PiecesOf, OthersOf
    <3> QED
      BY <2>1, <3>1 DEF PiecesOf, OthersOf
  <2> QED
    BY <1>1, <2>2
<1> QED
  BY <1>2, <1>3, <1>4, <1>5, <1>6, Steps DEF Inner

----------------------------------------------------------------------------
(* The tasks never wait for each other *)

\* What is under way of the requests, at all peers: requests, pieces and their reports.
Underway == Sum([p \in Peers |-> PiecesOf(p)])

\* Of what p may still report, what waits and what is held have been counted.
LEMMA Within ==
    ASSUME Typed, InCourse, NEW p \in Peers, NEW M, NEW I, NEW E
    PROVE  /\ Count(events, EventsOf(p, E)) <= Flow(p, M, I, E)
           /\ \A t \in E, i \in Indices : held[p] = <<Event(t, p, i)>> =>
                Count(events, EventsOf(p, E)) + 1 <= Flow(p, M, I, E)
           /\ stage[p] = "linked" /\ "PeerConnected" \in E =>
                Count(events, EventsOf(p, E)) + 1 <= Flow(p, M, I, E)
<1>0. says \in [Peers -> Nat] /\ (stage[p] = "over" => held[p] = <<>>)
  BY DEF InCourse
<1> DEFINE n == Count(events, EventsOf(p, E))
           h == Count(held[p], EventsOf(p, E))
           s == Sent(p, M)
           u == Unread(p, I)
           y == Yet(p, I, E)
<1>1. n \in Nat /\ h \in Nat /\ s \in Nat /\ u \in Nat /\ y \in Nat
  BY <1>0, Amounts
<1>2. Flow(p, M, I, E) = n + (IF stage[p] = "over" THEN 0 ELSE s + h + u) + y
  BY DEF Flow, OnTheWay
<1>3. ASSUME NEW t \in E, NEW i \in Indices, held[p] = <<Event(t, p, i)>> PROVE h = 1 /\ stage[p] # "over"
  <2>1. Event(t, p, i) \in EventsOf(p, E)
    BY DEF EventsOf
  <2>2. h = Flag(Event(t, p, i) \in EventsOf(p, E))
    BY <1>3, CountOne
  <2>3. <<Event(t, p, i)>> # <<>>
    OBVIOUS
  <2> QED
    BY <1>0, <1>3, <2>1, <2>2, <2>3 DEF Flag
<1>4. ASSUME stage[p] = "linked", "PeerConnected" \in E PROVE y >= 1
  <2> DEFINE a == Flag(p \in todo /\ "Bitfield" \in I)
             b == Flag(p \in MayLeave /\ Open(p) /\ "Close" \in I)
             c == IF "Have" \in I THEN says[p] ELSE 0
  <2>1. a \in Nat /\ b \in Nat /\ c \in Nat
    BY <1>0 DEF Flag
  <2>2. Flag(stage[p] \in {"none", "linked"} /\ "PeerConnected" \in E) = 1
    BY <1>4 DEF Flag
  <2>3. y = a + 1 + b + c
    BY <2>2 DEF Yet
  <2> HIDE DEF a, b, c, y
  <2> QED
    BY <2>1, <2>3
<1> HIDE DEF n, h, s, u, y
<1>5. n <= Flow(p, M, I, E)
  BY <1>1, <1>2
<1>6. ASSUME NEW t \in E, NEW i \in Indices, held[p] = <<Event(t, p, i)>> PROVE n + 1 <= Flow(p, M, I, E)
  BY <1>1, <1>2, <1>3, <1>6
<1>7. ASSUME stage[p] = "linked", "PeerConnected" \in E PROVE n + 1 <= Flow(p, M, I, E)
  BY <1>1, <1>2, <1>4, <1>7
<1> QED
  BY <1>5, <1>6, <1>7 DEF n

\* A list with no more reports of a kind from p than f[p] has no more than the sum.
LEMMA KindBound ==
    ASSUME NEW s \in Seq(Reports), NEW E, NEW f \in [Peers -> Nat],
           \A p \in Peers : Count(s, EventsOf(p, E)) <= f[p]
    PROVE  Cardinality({k \in DOMAIN s : s[k].type \in E}) <= Sum(f)
<1> DEFINE K == {k \in DOMAIN s : s[k].type \in E}
           owner == [k \in K |-> s[k].peer]
<1>1. \A k \in DOMAIN s : s[k] \in Reports
  OBVIOUS
<1>2. \A k \in DOMAIN s : s[k].peer \in Peers
  BY <1>1, ReportTypes
<1>3. owner \in [K -> Peers] /\ \A k \in K : owner[k] = s[k].peer
  BY <1>2
<1>4. IsFiniteSet(K)
  BY FS_Interval, FS_Subset
<1>5. ASSUME NEW p \in Peers PROVE Cardinality({k \in K : owner[k] = p}) <= f[p]
  <2>1. \A k \in DOMAIN s : s[k] \in EventsOf(p, E) <=> s[k].type \in E /\ s[k].peer = p
    BY <1>1, Members
  <2>2. {k \in K : owner[k] = p} = {k \in DOMAIN s : s[k] \in EventsOf(p, E)}
    BY <2>1
  <2> QED
    BY <2>2 DEF Count
<1> HIDE DEF K, owner
<1>6. Cardinality(K) <= Sum(f)
  BY <1>3, <1>4, <1>5, SumBounds
<1> QED
  BY <1>6 DEF K

\* So there is room for one more.
LEMMA Fits ==
    ASSUME NEW s \in Seq(Reports), NEW f \in [Peers -> Nat], NEW g \in [Peers -> Nat],
           \A p \in Peers : /\ Count(s, EventsOf(p, {"PieceReceived"})) <= f[p]
                            /\ Count(s, EventsOf(p, EventTypes \ {"PieceReceived"})) <= g[p]
    PROVE  Len(s) <= Sum(f) + Sum(g)
<1> DEFINE K == {k \in DOMAIN s : s[k].type \in {"PieceReceived"}}
           L == {k \in DOMAIN s : s[k].type \in EventTypes \ {"PieceReceived"}}
<1>1. Cardinality(K) <= Sum(f) /\ Cardinality(L) <= Sum(g)
  BY KindBound
<1>2. IsFiniteSet(K) /\ IsFiniteSet(L)
  BY FS_Interval, FS_Subset
<1>3. \A k \in DOMAIN s : s[k].type \in EventTypes
  <2>1. \A k \in DOMAIN s : s[k] \in Reports
    OBVIOUS
  <2> QED
    BY <2>1, ReportTypes
<1>4. K \cup L = 1 .. Len(s) /\ K \cap L = {}
  BY <1>3
<1>5. Cardinality(1 .. Len(s)) = Len(s) /\ Len(s) \in Nat
  BY FS_Interval
<1>6. Sum(f) \in Nat /\ Sum(g) \in Nat
  BY SlotsFinite
<1> HIDE DEF K, L
<1>7. Len(s) = Cardinality(K) + Cardinality(L)
  <2>1. Cardinality(K \cap L) = 0
    BY <1>4, FS_EmptySet
  <2>2. Cardinality(K) \in Nat /\ Cardinality(L) \in Nat
    BY <1>2, FS_CardinalityType
  <2>3. Cardinality(K \cup L) = Cardinality(K) + Cardinality(L) - Cardinality(K \cap L)
    BY <1>2, FS_Union
  <2>4. Cardinality(K \cup L) = Len(s)
    BY <1>4, <1>5
  <2> QED
    BY <2>1, <2>2, <2>3, <2>4
<1>8. Cardinality(K) \in Nat /\ Cardinality(L) \in Nat
  BY <1>2, FS_CardinalityType
<1> QED
  BY <1>1, <1>6, <1>7, <1>8

LEMMA UnderwayType ==
    ASSUME Typed, InCourse
    PROVE  /\ [p \in Peers |-> PiecesOf(p)] \in [Peers -> Nat] /\ Underway \in Nat
           /\ (\A p \in Peers : PiecesOf(p) = 0) => Underway = 0
<1>1. \A p \in Peers : PiecesOf(p) \in Nat
  BY Amounts DEF InCourse, PiecesOf
<1>2. [p \in Peers |-> PiecesOf(p)] \in [Peers -> Nat]
  BY <1>1
<1> QED
  BY <1>2, SlotsFinite, SumZero DEF Underway

\* Who waits with an event is in the accounts.
LEMMA OneMore ==
    ASSUME Typed, InCourse, Accounts, NEW p \in Peers, NEW t \in EventTypes, NEW i \in Indices,
           held[p] = <<Event(t, p, i)>> \/ (stage[p] = "linked" /\ t = "PeerConnected")
    PROVE  Len(events) + 1 <= Underway + Sum(Quota)
<1> DEFINE s == Append(events, Event(t, p, i))
           types == EventTypes \ {"PieceReceived"}
           pieces == [q \in Peers |-> PiecesOf(q)]
<1>0. pieces \in [Peers -> Nat] /\ Quota \in [Peers -> Nat] /\ events \in Seq(Reports)
  BY UnderwayType, QuotaType DEF Typed, LoopsTyped
<1>1. Event(t, p, i) \in Reports
  BY ReportTypes
<1>2. s \in Seq(Reports) /\ Len(s) = Len(events) + 1
  BY <1>0, <1>1
<1>3. ASSUME NEW q \in Peers, NEW M, NEW I, NEW E
      PROVE  Count(s, EventsOf(q, E)) <= Flow(q, M, I, E)
  <2>1. Event(t, p, i) \in EventsOf(q, E) <=> p = q /\ t \in E
    BY Members
  <2>2. Count(s, EventsOf(q, E)) = Count(events, EventsOf(q, E)) + Flag(Event(t, p, i) \in EventsOf(q, E))
    BY <1>0, <1>1, CountAppend
  <2>3. Count(events, EventsOf(q, E)) \in Nat /\ Flow(q, M, I, E) \in Nat
    BY Amounts DEF InCourse
  <2>4. CASE p = q /\ t \in E
    <3>1. Count(events, EventsOf(q, E)) + 1 <= Flow(q, M, I, E)
      BY <2>4, Within
    <3> QED
      BY <2>1, <2>2, <2>4, <3>1 DEF Flag
  <2>5. CASE ~(p = q /\ t \in E)
    <3>1. Count(events, EventsOf(q, E)) <= Flow(q, M, I, E)
      BY Within
    <3> QED
      BY <2>1, <2>2, <2>3, <2>5, <3>1 DEF Flag
  <2> QED
    BY <2>4, <2>5
<1> HIDE DEF s
<1>4. ASSUME NEW q \in Peers
      PROVE  /\ Count(s, EventsOf(q, {"PieceReceived"})) <= pieces[q]
             /\ Count(s, EventsOf(q, types)) <= Quota[q]
  <2>1. /\ Count(s, EventsOf(q, {"PieceReceived"})) <= PiecesOf(q)
        /\ Count(s, EventsOf(q, types)) <= OthersOf(q)
    BY <1>3 DEF PiecesOf, OthersOf
  <2>2. OthersOf(q) <= Quota[q] /\ Quota[q] \in Nat
    BY <1>0 DEF Accounts
  <2>3. OthersOf(q) \in Nat
    BY Amounts DEF OthersOf, InCourse
  <2>4. Count(s, EventsOf(q, types)) \in Nat
    BY <1>2, CountType
  <2> QED
    BY <2>1, <2>2, <2>3, <2>4
<1> HIDE DEF pieces
<1>5. Len(s) <= Sum(pieces) + Sum(Quota)
  BY <1>0, <1>2, <1>4, Fits
<1> QED
  BY <1>2, <1>5 DEF Underway, pieces

\* The types, the course of the connections and the accounts are kept: requests and pieces
\* aside, what a peer has reported and not seen handled, is about to report and may still say is
\* within its quota, whatever is broadcast, sent again or received twice (coordinator.rs:177-321).
THEOREM AccountsCorrect == Spec => [](Typed /\ InCourse /\ Accounts)
<1>1. Init => Typed /\ InCourse /\ Accounts
  BY InitTyped, InitAccounts
<1>2. Typed /\ InCourse /\ Accounts /\ [Next]_vars => (Typed /\ InCourse /\ Accounts)'
  BY NextTyped, NextInCourse, NextAccounts
<1> QED
  BY <1>1, <1>2, PTL DEF Spec

LEMMA StartFits ==
    ASSUME Typed, InCourse, Accounts, Sum(Quota) <= EventCap
    PROVE  ~StartBlocked
<1> SUFFICES ASSUME StartBlocked PROVE FALSE
  OBVIOUS
<1>1. PICK p \in Peers : stage[p] = "linked"
  BY DEF StartBlocked, Linked
<1>2. Len(events) + 1 <= Underway + Sum(Quota)
  BY <1>1, OneMore, MessageParts DEF EventTypes
<1>3. Underway = 0
  BY UnderwayType DEF Accounts, StartBlocked
<1>4. Len(events) = EventCap /\ EventCap \in Nat /\ Sum(Quota) \in Nat
  BY ConstantsAssumption, QuotaType DEF StartBlocked, Full
<1> QED
  BY <1>2, <1>3, <1>4

\* The start: with room for the connection, the bitfield, the end and all that every peer
\* says unasked, the connections are announced (coordinator.rs:132) though nobody receives.
THEOREM StartNotBlocked == Sum(Quota) <= EventCap => (Spec => []~StartBlocked)
<1> SUFFICES ASSUME Sum(Quota) <= EventCap PROVE Spec => []~StartBlocked
  OBVIOUS
<1>1. Typed /\ InCourse /\ Accounts => ~StartBlocked
  BY StartFits
<1> QED
  BY <1>1, AccountsCorrect, PTL

\* As long as there is room for that and for the requests and pieces under way, sent again
\* and broadcast ones included, no tasks wait for each other in a circle: who waits with an
\* event is one more than the accounts allow (coordinator.rs:132, pool.rs:224).
THEOREM NeverStuckCorrect == Spec => [](Sum(Quota) + Underway <= EventCap => NeverStuck)
<1>1. ASSUME Typed, InCourse, Accounts, Sum(Quota) + Underway <= EventCap PROVE NeverStuck
  <2>0. Sum(Quota) \in Nat /\ Underway \in Nat /\ EventCap \in Nat
    BY <1>1, QuotaType, UnderwayType, ConstantsAssumption
  <2>1. ~StartBlocked
    <3>1. Sum(Quota) <= EventCap
      BY <1>1, <2>0
    <3> QED
      BY <1>1, <3>1, StartFits
  <2>2. ASSUME CircularWait PROVE FALSE
    <3> DEFINE p == Head(pend).peer
    <3>1. pend # <<>> /\ pend \in Seq(Orders)
      BY <1>1, <2>2 DEF Typed, PoolTyped, CircularWait
    <3>2. p \in Peers /\ held[p] # <<>> /\ Len(events) = EventCap
      <4>1. Head(pend) \in Orders
        BY <3>1
      <4>2. p \in Peers
        BY <4>1, OrderParts
      <4> QED
        BY <2>2, <4>2 DEF CircularWait, Full
    <3> HIDE DEF p
    <3>3. PICK t \in EventTypes, i \in Indices : held[p] = <<Event(t, p, i)>>
      BY <1>1, <3>2, HeldParts DEF Typed, LoopsTyped
    <3>4. Len(events) + 1 <= Underway + Sum(Quota)
      BY <1>1, <3>2, <3>3, OneMore
    <3> QED
      BY <1>1, <2>0, <3>2, <3>4
  <2> QED
    BY <2>1, <2>2 DEF NeverStuck
<1>2. Typed /\ InCourse /\ Accounts => (Sum(Quota) + Underway <= EventCap => NeverStuck)
  BY <1>1
<1> QED
  BY <1>2, AccountsCorrect, PTL
=============================================================================
