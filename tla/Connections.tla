---------------------------- MODULE Connections ----------------------------
(***************************************************************************)
(* The tasks of a download and the bounded channels between them: the      *)
(* coordinator (src/src/network/coordinator.rs) with its scheduler, the    *)
(* pool and one loop per connection (pool.rs).  The coordinator sends      *)
(* commands to the pool, the pool messages to the loops, the loops events  *)
(* to the coordinator; who sends into a full channel waits.  With the peer *)
(* exchange of the coordinator (PexManager, discovery/pex.rs).             *)
(*                                                                         *)
(* Each peer is found under one address; a connection keeps what is        *)
(* written to it until it is read.  Whether bytes are right is the subject *)
(* of Download; here a peer's pieces verify or they do not.                *)
(***************************************************************************)
EXTENDS Integers, Sequences, FiniteSets, Functions, SequencesExt

CONSTANTS
    Peers,      \* the peers at the addresses that can be connected
    Pieces,     \* 0 .. piece_count - 1
    Content,    \* Content[p]: the pieces of p's bitfield
    EventCap, CommandCap, PeerCap, \* slots of the channels: 128, 128, 32
    MaxPex,     \* MAX_PEX_ENTRIES
    Depths,     \* what pipeline_depth may give
    MayLeave,   \* peers that may close their connection
    Corrupt,    \* peers whose pieces fail the verification
    MaxSaid,    \* MaxSaid[p]: bound on what p says unasked
    Budgets     \* bounds of which one is chosen: what each peer may say unasked, how often
                \* the PEX interval ticks, how many requests are found stale

ASSUME ConstantsAssumption ==
    /\ IsFiniteSet(Peers)
    /\ IsFiniteSet(Pieces) /\ Pieces \subseteq Nat
    /\ Content \in [Peers -> SUBSET Pieces]
    /\ {EventCap, CommandCap, PeerCap} \subseteq Nat \ {0}
    /\ MaxPex \in Nat /\ Depths \subseteq Nat
    /\ MaxSaid \in [Peers -> Nat]
    /\ Budgets \subseteq [says : [Peers -> Nat], ticks : Nat, stale : Nat]
    /\ \A b \in Budgets, p \in Peers : b.says[p] <= MaxSaid[p]
    /\ MayLeave \cup Corrupt \subseteq Peers

VARIABLES
    \* The coordinator.
    at,         \* "connecting" before the loop; "select", "sending", "picking" in it; "done"
    todo,       \* the peers still to be connected
    out,        \* what the handler has still to send
    burst,      \* burst[p]: what request_pieces has still to pick for p after that
    have, holds, inFlight, rarity, endgame,     \* the scheduler
    stamps,     \* request_timestamps: piece -> the peer last asked for it
    unchoked,   \* unchoked_peers
    banned,     \* peers that is_banned tells
    known,      \* known_peers of the PexManager
    lastSent,   \* last_sent of the PexManager
    \* The pool and the channels.
    pool,       \* "unborn", "idle", "sending"
    pend,       \* the sends the pool has still to do for its command
    tx,         \* the keys of peer_txs
    events, commands,
    \* The connections.
    stage,      \* stage[p]: "none", "linked", "running" with a loop, "over"
    inbox,      \* inbox[p]: what p has sent
    queue,      \* queue[p]: the channel of the loop
    held,       \* held[p]: the event the loop waits to send
    choking,    \* the peers that do not answer requests
    \* What the properties and the bounds speak of; the code does not keep it:
    says,       \* says[p]: how much p may still say unasked
    interested, \* peers that received Interested
    told,       \* told[p]: peers PEX made known to p and did not take back
    ticks,      \* ticks of the PEX interval still to come
    stale       \* requests that may still be found stale

sched == <<have, holds, inFlight, rarity, endgame>>
tables == <<todo, stamps, unchoked, banned>>
pex == <<known, lastSent, told, ticks>>
pooling == <<pool, pend, tx>>
peers == <<says, choking, interested>>
loops == <<stage, inbox, queue, held, peers>>
vars == <<at, out, burst, sched, tables, pex, stale, pooling, events, commands, loops>>
coordinator == <<at, out, burst, sched, tables, pex, stale>>

Sched == INSTANCE Scheduler

Insert(f, k, v) == Sched!Insert(f, k, v)

NoPiece == -1
Message(type, i) == [type |-> type, piece |-> i]
Plain(type) == Message(type, NoPiece)
Event(type, p, i) == [type |-> type, peer |-> p, piece |-> i]
To(p, message) == [type |-> "Send", peer |-> p, message |-> message]
RequestTo(p, i) == To(p, Message("Request", i))
HaveAll(i) == [type |-> "SendHave", piece |-> i]
Disconnect(p) == [type |-> "DisconnectPeer", peer |-> p]
ConnectPeer == [type |-> "ConnectPeer"]

Nobody == [p \in Peers |-> 0]

Init ==
    /\ at = "connecting" /\ todo = Peers /\ out = <<>> /\ burst = Nobody
    /\ Sched!Init
    /\ stamps = [i \in {} |-> {}] /\ unchoked = {} /\ banned = {}
    /\ known = {} /\ lastSent = [p \in Peers |-> {}]
    /\ told = [p \in Peers |-> {}]
    /\ pool = "unborn" /\ pend = <<>> /\ tx = {}
    /\ events = <<>> /\ commands = <<>>
    /\ stage = [p \in Peers |-> "none"]
    /\ inbox = [p \in Peers |-> <<>>] /\ queue = [p \in Peers |-> <<>>]
    /\ held = [p \in Peers |-> <<>>]
    /\ choking = Peers /\ interested = {}
    /\ \E b \in Budgets : says = b.says /\ ticks = b.ticks /\ stale = b.stale

----------------------------------------------------------------------------
(* Before the loop: ConnectionPool::connect, run by the coordinator itself. *)

HasRoom == Len(events) < EventCap

Linked == {p \in Peers : stage[p] = "linked"}

\* The connection is made and the bitfields are exchanged.
Dial(p) ==
    /\ at = "connecting" /\ p \in todo /\ Linked = {}
    /\ todo' = todo \ {p}
    /\ stage' = [stage EXCEPT ![p] = "linked"]
    /\ inbox' = [inbox EXCEPT ![p] = <<Plain("Bitfield")>>]
    /\ tx' = tx \cup {p}
    /\ UNCHANGED <<at, out, burst, sched, stamps, unchoked, banned, pex, stale, pool, pend,
                   events, commands, queue, held, peers>>

\* A seeded defect for the checks: the loop is spawned before the announcement.
Reads(p) == stage[p] \in {"linked", "running"}

\* The loop is spawned.
Runs(p) == stage[p] = "running"

\* PeerConnected is sent; only then the loop is spawned.
Announce(p) ==
    /\ at = "connecting" /\ p \in Linked
    /\ HasRoom
    /\ events' = Append(events, Event("PeerConnected", p, NoPiece))
    /\ stage' = [stage EXCEPT ![p] = "running"]
    /\ UNCHANGED <<coordinator, pooling, commands, inbox, queue, held, peers>>

\* The pool's task is spawned and the loop begins.
StartLoop ==
    /\ at = "connecting" /\ todo = {} /\ Linked = {}
    /\ at' = "select"
    /\ pool' = "idle"
    /\ UNCHANGED <<out, burst, sched, tables, pex, stale, pend, tx, events, commands, loops>>

----------------------------------------------------------------------------
(* The coordinator's loop *)

\* The commands of the list are still to be sent, then what burst says is picked; then
\* the loop goes on, or ends.
Goes(list, picks) ==
    /\ out' = list
    /\ burst' = picks
    /\ at' = IF list # <<>> THEN "sending" ELSE IF picks # Nobody THEN "picking"
             ELSE IF Pieces \subseteq have' THEN "done" ELSE "select"

\* The same, with request_pieces(p) at its end.
Asks(p, list) ==
    IF p \in banned' THEN Goes(list, Nobody)
    ELSE \E depth \in Depths :
            Goes(list, [Nobody EXCEPT ![p] = IF endgame' THEN 1 ELSE depth])

\* ... which the handlers of pieces do for a peer that is unchoked.
MayAsk(p, list) == IF p \in unchoked' THEN Asks(p, list) ELSE Goes(list, Nobody)

\* One pick of request_pieces, or none is left to pick.
RequestOne(p) ==
    /\ at = "picking" /\ burst[p] > 0
    /\ \/ \E i \in Pieces :
            /\ Sched!PickPiece(p, i)
            /\ stamps' = Insert(stamps, i, p)
            /\ Goes(<<RequestTo(p, i)>>, [burst EXCEPT ![p] = @ - 1])
       \/ /\ ~Sched!CanPick(p)
          /\ UNCHANGED <<sched, stamps>>
          /\ Goes(<<>>, Nobody)
    /\ UNCHANGED <<todo, unchoked, banned, pex, stale, pooling, events, commands, loops>>

SendCommand ==
    /\ at = "sending" /\ Len(commands) < CommandCap
    /\ commands' = Append(commands, Head(out))
    /\ UNCHANGED <<sched, tables, pex, stale, pooling, events, loops>>
    /\ Goes(Tail(out), burst)

Takes(type, p) ==
    /\ at = "select" /\ events # <<>>
    /\ Head(events).type = type /\ Head(events).peer = p
    /\ events' = Tail(events)
    /\ UNCHANGED <<todo, pooling, commands, loops, lastSent, told, ticks, stale>>

PeerConnected(p) ==
    /\ Takes("PeerConnected", p)
    /\ known' = known \cup {p}
    /\ UNCHANGED <<sched, stamps, unchoked, banned>>
    /\ Goes(<<>>, Nobody)

BitfieldReceived(p) ==
    /\ Takes("BitfieldReceived", p)
    /\ Sched!RegisterPeer(p, Content[p])
    /\ UNCHANGED <<stamps, unchoked, banned, known>>
    /\ Goes(<<To(p, Plain("Interested"))>>, Nobody)

Unchoked(p) ==
    /\ Takes("Unchoked", p)
    /\ unchoked' = unchoked \cup {p}
    /\ UNCHANGED <<sched, stamps, banned, known>>
    /\ Asks(p, <<>>)

Choked(p) ==
    /\ Takes("Choked", p)
    /\ unchoked' = unchoked \ {p}
    /\ UNCHANGED <<sched, stamps, banned, known>>
    /\ Goes(<<>>, Nobody)

\* A piece we already have.
DuplicateReceived(p) ==
    /\ Takes("PieceReceived", p)
    /\ Head(events).piece \in have
    /\ UNCHANGED <<sched, stamps, unchoked, banned, known>>
    /\ Goes(<<>>, Nobody)

\* The requests after a completed piece in endgame: every unchoked peer is asked for every
\* missing piece it holds, piece by piece, the peers in any order.
Broadcasts ==
    {order \in SetToSeqs({r \in Sched!EndgameRequests' : r[2] \in unchoked}) :
        \A j, k \in DOMAIN order : j < k => order[j][1] <= order[k][1]}

\* A piece that verifies is announced to everyone.
PieceReceived(p) ==
    LET i == Head(events).piece IN
    /\ Takes("PieceReceived", p)
    /\ p \notin Corrupt /\ i \notin have
    /\ Sched!PieceCompleted(i)
    /\ stamps' = Restrict(stamps, DOMAIN stamps \ {i})
    /\ UNCHANGED <<unchoked, banned, known>>
    /\ \E order \in Broadcasts :
        MayAsk(p, <<HaveAll(i)>> \o [k \in DOMAIN order |-> RequestTo(order[k][2], order[k][1])])

\* One that does not goes back; the peer that sent it is banned if it did so too
\* often, and asked again if not.
BadPieceReceived(p) ==
    LET i == Head(events).piece IN
    /\ Takes("PieceReceived", p)
    /\ p \in Corrupt /\ i \notin have
    /\ Sched!PieceFailed(i)
    /\ stamps' = Restrict(stamps, DOMAIN stamps \ {i})
    /\ \/ /\ banned' = banned \cup {p}
          /\ unchoked' = unchoked \ {p}
          /\ Goes(<<Disconnect(p)>>, Nobody)
       \/ /\ p \notin banned
          /\ UNCHANGED <<unchoked, banned>>
          /\ MayAsk(p, <<>>)
    /\ UNCHANGED known

HaveReceived(p) ==
    /\ Takes("HaveReceived", p)
    /\ Sched!PeerHasPiece(p, Head(events).piece)
    /\ UNCHANGED <<stamps, unchoked, banned, known>>
    /\ Goes(<<>>, Nobody)

\* A seeded defect for the checks: a peer that left stays among the unchoked.
StillUnchoked(p) == unchoked

UnchokedWithout(p) == unchoked \ {p}

PeerDisconnected(p) ==
    /\ Takes("PeerDisconnected", p)
    /\ Sched!UnregisterPeer(p)
    /\ stamps' = Restrict(stamps, {i \in DOMAIN stamps : stamps[i] # p})
    /\ unchoked' = UnchokedWithout(p)
    /\ banned' = banned \ {p}
    /\ known' = known \ {p}
    /\ Goes(<<>>, Nobody)

\* The added, here everyone else: ConnectPeer for who is neither unchoked nor banned.
PexReceived(p) ==
    /\ Takes("PexReceived", p)
    /\ LET added == Peers \ {p} IN
        /\ known' = known \cup added
        /\ UNCHANGED <<sched, stamps, unchoked, banned>>
        /\ Goes([k \in 1 .. Cardinality(added \ (unchoked \cup banned)) |-> ConnectPeer], Nobody)

\* The dropped: everyone else, connected to us or not.
PexTakenBack(p) ==
    /\ Takes("PexTakenBack", p)
    /\ known' = known \cap {p}
    /\ UNCHANGED <<sched, stamps, unchoked, banned>>
    /\ Goes(<<>>, Nobody)

HandleEvent ==
    \E p \in Peers :
        \/ PeerConnected(p) \/ BitfieldReceived(p) \/ Unchoked(p) \/ Choked(p)
        \/ PieceReceived(p) \/ BadPieceReceived(p) \/ DuplicateReceived(p)
        \/ HaveReceived(p) \/ PeerDisconnected(p) \/ PexReceived(p) \/ PexTakenBack(p)

\* The stale check, for one request that has waited too long: it is sent to another unchoked
\* holder in good standing, or forgotten. The scheduler is not told.
OnStale(i) ==
    LET others == {q \in Sched!Holders(i) \cap unchoked : q # stamps[i] /\ q \notin banned} IN
    /\ at = "select" /\ i \in DOMAIN stamps /\ stale > 0
    /\ stale' = stale - 1
    /\ UNCHANGED <<sched, todo, unchoked, banned, pex, pooling, events, commands, loops>>
    /\ \/ \E best \in others :
            stamps' = Insert(stamps, i, best) /\ Goes(<<RequestTo(best, i)>>, Nobody)
       \/ /\ others = {}
          /\ stamps' = Restrict(stamps, DOMAIN stamps \ {i})
          /\ Goes(<<>>, Nobody)

\* Sixty seconds after the third strike. (For good after the fourth: a ban need not expire.)
BanExpires(p) ==
    /\ p \in banned
    /\ banned' = banned \ {p}
    /\ UNCHANGED <<at, out, burst, sched, todo, stamps, unchoked, pex, stale, pooling, events,
                   commands, loops>>

----------------------------------------------------------------------------
(* PexManager.  The score of who is connected is 1, and so is what others share *)
(* of it, so that every peer that is known is shared.                          *)

Shareable(p) == known \ {p}

\* What generate_pex may add for p: of new peers at most MaxPex, in any order.
Additions(p) ==
    LET new == Shareable(p) \ lastSent[p] IN
    {added \in SUBSET new : Cardinality(added) = MaxPex \/ (added = new /\ Cardinality(new) < MaxPex)}

\* A seeded defect for the checks: who has gone is not taken back.
NoDroppings(p) == {}

Droppings(p) == lastSent[p] \ known

\* The interval ticks: SendPex for every unchoked peer with news. (With none unchoked
\* nothing happens.)
PexTick ==
    /\ at = "select" /\ unchoked # {} /\ ticks > 0
    /\ ticks' = ticks - 1
    /\ lastSent' = [p \in Peers |-> IF p \in unchoked THEN Shareable(p) ELSE lastSent[p]]
    /\ UNCHANGED <<sched, tables, known, stale, pooling, events, commands, loops>>
    /\ \E added \in [unchoked -> SUBSET known] :
        /\ \A p \in unchoked : added[p] \in Additions(p)
        /\ told' = [p \in Peers |->
                IF p \in unchoked THEN (told[p] \cup added[p]) \ Droppings(p) ELSE told[p]]
        /\ LET news == SetToSeq({p \in unchoked : added[p] # {} \/ Droppings(p) # {}})
           IN  Goes([k \in DOMAIN news |-> To(news[k], Plain("Pex"))], Nobody)

----------------------------------------------------------------------------
(* ConnectionPool::run *)

SendToAll(message) ==
    LET all == SetToSeq(tx) IN [k \in DOMAIN all |-> To(all[k], message)]

\* What a command makes the pool send. The addresses PEX shares are empty, so
\* the connection ConnectPeer asks for fails.
Sending(c) ==
    CASE c.type = "Send" -> IF c.peer \in tx THEN <<c>> ELSE <<>>
      [] c.type = "SendHave" -> SendToAll(Message("Have", c.piece))
      [] c.type \in {"DisconnectPeer", "ConnectPeer"} -> <<>>

TakeCommand ==
    /\ pool = "idle" /\ commands # <<>>
    /\ LET c == Head(commands) IN
        /\ tx' = IF c.type = "DisconnectPeer" THEN tx \ {c.peer} ELSE tx
        /\ pend' = Sending(c)
        /\ pool' = IF pend' = <<>> THEN "idle" ELSE "sending"
    /\ commands' = Tail(commands)
    /\ UNCHANGED <<coordinator, events, loops>>

\* A seeded defect for the checks: what finds no room is lost.
TrySendToPeer ==
    /\ pool = "sending"
    /\ LET p == Head(pend).peer IN
        queue' = IF stage[p] = "over" \/ Len(queue[p]) = PeerCap THEN queue
                 ELSE [queue EXCEPT ![p] = Append(@, Head(pend).message)]
    /\ pend' = Tail(pend)
    /\ pool' = IF pend' = <<>> THEN "idle" ELSE "sending"
    /\ UNCHANGED <<coordinator, tx, events, commands, stage, inbox, held, peers>>

\* There is room in the loop's channel, or nobody receives from it any more.
SendToPeer ==
    /\ pool = "sending"
    /\ LET p == Head(pend).peer IN
        /\ stage[p] = "over" \/ Len(queue[p]) < PeerCap
        /\ queue' = IF stage[p] = "over" THEN queue
                    ELSE [queue EXCEPT ![p] = Append(@, Head(pend).message)]
    /\ pend' = Tail(pend)
    /\ pool' = IF pend' = <<>> THEN "idle" ELSE "sending"
    /\ UNCHANGED <<coordinator, tx, events, commands, stage, inbox, held, peers>>

----------------------------------------------------------------------------
(* peer_loop *)

Free(p) == Runs(p) /\ held[p] = <<>>

EventOf == [Bitfield |-> "BitfieldReceived", Choke |-> "Choked", Unchoke |-> "Unchoked",
            Piece |-> "PieceReceived", Have |-> "HaveReceived", Pex |-> "PexReceived",
            Dropped |-> "PexTakenBack", Close |-> "PeerDisconnected"]

\* After PeerDisconnected the loop returns.
Emits(p, event) ==
    /\ events' = Append(events, event)
    /\ stage' = [stage EXCEPT ![p] = IF event.type = "PeerDisconnected" THEN "over" ELSE @]

\* A message, or the end of the connection, becomes an event, which waits while there is no
\* room for it.
Receive(p) ==
    /\ Free(p) /\ inbox[p] # <<>>
    /\ LET message == Head(inbox[p])
           event == Event(EventOf[message.type], p, message.piece)
       IN  \/ HasRoom /\ Emits(p, event) /\ UNCHANGED held
           \/ ~HasRoom /\ held' = [held EXCEPT ![p] = <<event>>] /\ UNCHANGED <<events, stage>>
    /\ inbox' = [inbox EXCEPT ![p] = Tail(@)]
    /\ UNCHANGED <<coordinator, pooling, commands, queue, peers>>

SendEvent(p) ==
    /\ held[p] # <<>> /\ HasRoom
    /\ Emits(p, held[p][1])
    /\ held' = [held EXCEPT ![p] = <<>>]
    /\ UNCHANGED <<coordinator, pooling, commands, inbox, queue, peers>>

Closed(p) == inbox[p] # <<>> /\ Last(inbox[p]) = Plain("Close")

\* How the peer answers: handle_peer; one that chokes us ignores requests.
Answer(p, message) ==
    CASE message.type = "Interested" -> <<Plain("Unchoke")>>
      [] message.type = "Request" ->
            IF p \in choking THEN <<>> ELSE <<Message("Piece", message.piece)>>
      [] message.type \in {"Have", "Pex"} -> <<>>

\* A message goes out to the peer, which answers as long as it is there; when it
\* has gone, sending may fail.
Deliver(p) ==
    /\ Free(p) /\ queue[p] # <<>>
    /\ LET message == Head(queue[p]) IN
        /\ queue' = [queue EXCEPT ![p] = Tail(@)]
        /\ \/ /\ inbox' = [inbox EXCEPT ![p] = IF Closed(p) THEN @ ELSE @ \o Answer(p, message)]
              /\ UNCHANGED held
           \/ /\ Closed(p)
              /\ held' = [held EXCEPT ![p] = <<Event("PeerDisconnected", p, NoPiece)>>]
              /\ UNCHANGED inbox
        /\ choking' = IF message.type = "Interested" THEN choking \ {p} ELSE choking
        /\ interested' = IF message.type = "Interested" THEN interested \cup {p} ELSE interested
    /\ UNCHANGED <<coordinator, pooling, events, commands, stage, says>>

\* The pool has dropped the sender and the channel is empty.
Dismissed(p) ==
    /\ Free(p) /\ p \notin tx /\ queue[p] = <<>>
    /\ stage' = [stage EXCEPT ![p] = "over"]
    /\ UNCHANGED <<coordinator, pooling, events, commands, inbox, queue, held, peers>>

LoopStep(p) == Receive(p) \/ SendEvent(p) \/ Deliver(p) \/ Dismissed(p)

----------------------------------------------------------------------------
(* The peers *)

Present(p) == stage[p] \in {"linked", "running"} /\ ~Closed(p)

Writes(p, message) == inbox' = [inbox EXCEPT ![p] = Append(@, message)]

\* Bounds of the model: p says a few things unasked, when all it wrote before is read.
Speaks(p, message) ==
    /\ Present(p) /\ inbox[p] = <<>> /\ says[p] > 0
    /\ Writes(p, message)
    /\ says' = [says EXCEPT ![p] = @ - 1]
    /\ UNCHANGED <<coordinator, pooling, events, commands, stage, queue, held, interested>>

\* A peer has a piece more, shares whom it knows, or takes back whom it does not know any
\* more.
PeerSays(p) ==
    /\ \E message \in {Message("Have", i) : i \in Pieces \ Content[p]} \cup {Plain("Pex"), Plain("Dropped")} :
        Speaks(p, message)
    /\ UNCHANGED choking

\* It chokes us, or not any more.
PeerTurns(p) ==
    \/ p \in choking /\ Speaks(p, Plain("Unchoke")) /\ choking' = choking \ {p}
    \/ p \notin choking /\ Speaks(p, Plain("Choke")) /\ choking' = choking \cup {p}

PeerLeaves(p) ==
    /\ Present(p) /\ p \in MayLeave
    /\ Writes(p, Plain("Close"))
    /\ UNCHANGED <<coordinator, pooling, events, commands, stage, queue, held, peers>>

----------------------------------------------------------------------------

CoordinatorStep ==
    \/ \E p \in Peers : Dial(p) \/ Announce(p) \/ RequestOne(p)
    \/ StartLoop \/ HandleEvent \/ SendCommand

PoolStep == TakeCommand \/ SendToPeer

\* When the download is done the tasks are given up, which is not modelled.
Step ==
    \/ CoordinatorStep \/ PexTick \/ PoolStep
    \/ \E i \in Pieces : OnStale(i)
    \/ \E p \in Peers :
        BanExpires(p) \/ LoopStep(p) \/ PeerSays(p) \/ PeerTurns(p) \/ PeerLeaves(p)

Next == at # "done" /\ Step

\* Every task is run while it is not waiting.
Spec ==
    /\ Init /\ [][Next]_vars
    /\ WF_vars(at # "done" /\ CoordinatorStep)
    /\ WF_vars(at # "done" /\ PoolStep)
    /\ \A p \in Peers : WF_vars(at # "done" /\ LoopStep(p))

----------------------------------------------------------------------------
(* Properties *)

Full(channel, slots) == Len(channel) = slots

\* Before the loop nobody receives the events, and the one who connects needs a slot.
StartBlocked == at = "connecting" /\ Linked # {} /\ Full(events, EventCap)

\* The coordinator waits for the pool, the pool for a loop, the loop for the coordinator.
CircularWait ==
    /\ at = "sending" /\ Full(commands, CommandCap)
    /\ pool = "sending"
    /\ LET p == Head(pend).peer IN
        held[p] # <<>> /\ Full(queue[p], PeerCap) /\ Full(events, EventCap)

\* The tasks never wait for each other in a circle, at the start (coordinator.rs:132) or
\* later (pool.rs:224): the channels have room for what may be in them at a time.
NeverStuck == ~StartBlocked /\ ~CircularWait

\* When a connection has ended by itself and what it sent is handled, no piece is assigned
\* to the peer and the stale check, the broadcast and PEX pass it over: the scheduler, the
\* unchoked, the bans and the timestamps are free of it (coordinator.rs:325-336). Its
\* sender in peer_txs stays, and so does what PEX last told it.
ReleasedWhenGone ==
    \A p \in tx :
        stage[p] = "over" /\ (\A k \in DOMAIN events : events[k].peer # p) =>
            /\ p \notin Sched!Registered \cup unchoked \cup banned
            /\ \A i \in DOMAIN inFlight : inFlight[i] # p
            /\ \A i \in DOMAIN stamps : stamps[i] # p

\* As long as all that is to be shared fits into one message, what a peer was told and not
\* told to drop is what last_sent keeps of it (pex.rs:65-77).
PexAgrees ==
    Cardinality(Peers) <= MaxPex => told = lastSent

\* The coordinator begins to read the events (coordinator.rs:169).
StartsUp == <>(at # "connecting")

\* Every peer whose bitfield is registered receives our interest, if its connection and the
\* download go on: nothing on the way to it is lost or waits for ever (pool.rs:222-226).
InterestSent ==
    []<>(at = "done" \/ \A p \in Sched!Registered :
            p \in interested \/ Closed(p) \/ stage[p] = "over")
=============================================================================
