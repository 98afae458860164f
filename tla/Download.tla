------------------------------ MODULE Download ------------------------------
(***************************************************************************)
(* A multi-peer download: the event loop of DownloadCoordinator::run and   *)
(* request_pieces (src/src/network/coordinator.rs) over the scheduler, the *)
(* strikes of the reputation manager, the connection pool's peer loops     *)
(* (src/src/network/pool.rs) and the disk writer (src/src/storage/writer.rs). *)
(*                                                                         *)
(* Queues.  out[p] is everything on its way to peer p, in order: the       *)
(* command channel, the peer's channel and its TCP stream.  inbox[p] is    *)
(* everything on its way back: the TCP stream, the peer loop and the event *)
(* channel.  Between peers no order is kept, as a stream may be as slow as *)
(* it likes.  Capacities are left to a model of the channels.              *)
(*                                                                         *)
(* Steps.  A handler of the loop is one action up to the call of           *)
(* request_pieces, whose iterations are actions of their own (variable     *)
(* burst); nothing else the coordinator does happens in between.           *)
(***************************************************************************)
EXTENDS Integers, Sequences, FiniteSets, Functions, SequencesExt

CONSTANTS
    Peers,      \* the peers that accepted our connection, one connection each
    Pieces,     \* 0 .. piece_count - 1
    Content,    \* Content[p]: the pieces p holds when we connect
    Depths,     \* pipeline depths of a peer with at most one strike ({2, 5, 8})
    MaxBad,     \* MaxBad[p]: how many corrupt pieces p may send
    MaxChoke,   \* MaxChoke[p]: how often p may choke us after its first unchoke
    Gains,      \* the pairs <<p, i>> such that p may acquire piece i later
    MixUps,     \* the triples <<p, i, j>> such that p may send piece j as piece i
    MayLeave,   \* the peers whose connection may fail
    MaxStale,   \* bound on how many requests are found stale
    MayFailDisk \* whether a disk write may fail

ASSUME ConstantsAssumption ==
    /\ IsFiniteSet(Peers)
    /\ IsFiniteSet(Pieces) /\ Pieces \subseteq Nat
    /\ Content \in [Peers -> SUBSET Pieces]
    /\ Depths \subseteq Nat
    /\ MaxBad \in [Peers -> Nat]
    /\ MaxChoke \in [Peers -> Nat]
    /\ Gains \subseteq Peers \X Pieces
    /\ MixUps \subseteq Peers \X Pieces \X Pieces
    /\ MayLeave \subseteq Peers
    /\ MaxStale \in Nat
    /\ MayFailDisk \in BOOLEAN

VARIABLES
    have, holds, inFlight, rarity, endgame,     \* the scheduler
    unchoked,   \* unchoked_peers
    stamps,     \* request_timestamps: piece -> the peer last asked for it
    strikes,    \* strikes of each peer's reputation entry (0 without an entry)
    ban,        \* its ban: "none", "temp" (60 s, not yet over) or "session"
    burst,      \* the request_pieces call in progress, if any
    phase,      \* "running", "closing" (after the loop) or the result
    queue,      \* the disk writer's channel: indices with what their data is
    disk,       \* the file: index -> the piece whose bytes are there
    writer,     \* "ok", or "failed" once a write failed
    conn,       \* peer loops: "up", "dropped" by DisconnectPeer, or "closed"
    out,        \* messages on their way to each peer
    inbox,      \* events on their way from each peer
    remote      \* each peer: [has, choking, bad, chokes], the last two budgets spent

sched == <<have, holds, inFlight, rarity, endgame>>
book == <<unchoked, stamps>>
reputation == <<strikes, ban>>
store == <<queue, disk, writer>>
net == <<conn, remote>>

VARIABLE stale  \* how many requests have been found stale so far

vars == <<sched, book, reputation, burst, phase, store, net, out, inbox, stale>>

Sched == INSTANCE Scheduler

Insert(f, k, v) == Sched!Insert(f, k, v)

Missing == Sched!Missing
Banned(p) == ban[p] # "none"        \* is_banned
Open(p) == conn[p] # "closed"

\* The messages and events that matter here.  Have, Pex and Bitfield messages
\* to a peer are left out: a peer ignores them (src/src/network/seeder.rs).
Interested == [type |-> "interested"]
Request(i) == [type |-> "request", piece |-> i]
Bitfield(S) == [type |-> "bitfield", pieces |-> S]
Unchoke == [type |-> "unchoke"]
Choke == [type |-> "choke"]
HaveEvent(i) == [type |-> "have", piece |-> i]
\* An answer for index i holds the bytes of some piece, with its proof, or
\* bytes that are none.
Damaged == -1
Data == Pieces \cup {Damaged}
Piece(i, data) == [type |-> "piece", piece |-> i, data |-> data]
Disconnected == [type |-> "disconnected"]

\* Requests for the pieces of S, in ascending order.
Requests(S) ==
    LET Rank(i) == Cardinality({j \in S : j <= i})
    IN  [k \in 1 .. Cardinality(S) |-> Request(CHOOSE i \in S : Rank(i) = k)]

\* Whether piece i has been asked of p, or its answer is on the way.
Pending(p, i) ==
    \/ \E k \in DOMAIN out[p] : out[p][k] = Request(i)
    \/ \E k \in DOMAIN inbox[p] : \E data \in Data : inbox[p][k] = Piece(i, data)

----------------------------------------------------------------------------
Init ==
    /\ Sched!Init
    /\ unchoked = {}
    /\ stamps = [i \in {} |-> {}]
    /\ strikes = [p \in Peers |-> 0]
    /\ ban = [p \in Peers |-> "none"]
    /\ burst = [p \in Peers |-> 0]
    /\ phase = "running"
    /\ queue = <<>>
    /\ disk = [i \in {} |-> {}]
    /\ writer = "ok"
    /\ conn = [p \in Peers |-> "up"]
    /\ out = [p \in Peers |-> <<>>]
    /\ inbox = [p \in Peers |-> <<Bitfield(Content[p])>>]
    /\ remote = [p \in Peers |->
           [has |-> Content[p], choking |-> TRUE, bad |-> 0, chokes |-> 0]]
    /\ stale = 0

----------------------------------------------------------------------------
(* The coordinator *)

\* A seeded defect for the checks: DisconnectPeer leaves the channel in peer_txs.
ReachesUntilClosed(p) == Open(p)

\* A message for p is sent unless its loop has ended or it was dropped.
Reaches(p) == conn[p] = "up"
Sent(p, msgs) == [out EXCEPT ![p] = IF Reaches(p) THEN @ \o msgs ELSE @]

\* The top of the event loop: no call in progress, and the file incomplete.
AtLoopTop == phase = "running" /\ \A p \in Peers : burst[p] = 0

\* A seeded defect for the checks: request_pieces runs beside the event loop.
HandlingAnyTime == phase = "running" /\ ~Sched!IsComplete

Handling == AtLoopTop /\ ~Sched!IsComplete

Receive(p, type) ==
    /\ Handling
    /\ inbox[p] # <<>>
    /\ Head(inbox[p]).type = type
    /\ inbox' = [inbox EXCEPT ![p] = Tail(@)]

\* pipeline_depth: the strikes override the depth the peer's speed would give.
PipelineDepths(s) ==
    CASE s <= 1 -> Depths
      [] s = 2  -> {1}
      [] s >= 3 -> {0}

\* The start of request_pieces(p): the number of iterations is fixed here,
\* by the endgame flag as it is now.
RequestPieces(p) ==
    IF ban'[p] # "none"
    THEN UNCHANGED burst
    ELSE \E depth \in PipelineDepths(strikes'[p]) :
            burst' = [burst EXCEPT ![p] = IF endgame' THEN 1 ELSE depth]

\* One iteration of request_pieces(p); it ends early when nothing is picked.
RequestOne(p) ==
    /\ phase = "running"
    /\ burst[p] > 0
    /\ \/ \E i \in Pieces :
            /\ Sched!PickPiece(p, i)
            /\ out' = Sent(p, <<Request(i)>>)
            /\ stamps' = Insert(stamps, i, p)
            /\ burst' = [burst EXCEPT ![p] = @ - 1]
       \/ /\ ~Sched!CanPick(p)
          /\ burst' = [burst EXCEPT ![p] = 0]
          /\ UNCHANGED <<sched, out, stamps>>
    /\ UNCHANGED <<unchoked, reputation, phase, store, net, inbox, stale>>

OnBitfield(p) ==
    /\ Receive(p, "bitfield")
    /\ Sched!RegisterPeer(p, Head(inbox[p]).pieces)
    /\ out' = Sent(p, <<Interested>>)
    /\ UNCHANGED <<book, reputation, burst, phase, store, net, stale>>

OnUnchoked(p) ==
    /\ Receive(p, "unchoke")
    /\ unchoked' = unchoked \cup {p}
    /\ UNCHANGED <<sched, stamps, reputation, phase, store, net, out, stale>>
    /\ RequestPieces(p)

OnChoked(p) ==
    /\ Receive(p, "choke")
    /\ unchoked' = unchoked \ {p}
    /\ UNCHANGED <<sched, stamps, reputation, burst, phase, store, net, out, stale>>

\* A piece we already have: dropped before it is even hashed.
OnDuplicate(p) ==
    /\ Receive(p, "piece")
    /\ Head(inbox[p]).piece \in have
    /\ UNCHANGED <<sched, book, reputation, burst, phase, store, net, out, stale>>

\* The Merkle check of the data against the info hash, by the proof that came with
\* it.  It does not look at the index: any piece with its own proof passes.
Verifies(event) == event.data # Damaged

\* The requests after a completed piece in endgame: every unchoked peer is
\* asked for every missing piece it holds, asked before or not.
EndgameBroadcast ==
    [q \in Peers |->
        IF q \in unchoked /\ Reaches(q)
        THEN out[q] \o Requests({i \in Pieces : <<i, q>> \in Sched!EndgameRequests'})
        ELSE out[q]]

\* A seeded defect for the checks: no test for a piece we already have.
OnGoodPieceAgain(p) ==
    LET i == Head(inbox[p]).piece IN
    /\ Receive(p, "piece")
    /\ Verifies(Head(inbox[p]))
    /\ Sched!PieceCompleted(i)
    /\ stamps' = Restrict(stamps, DOMAIN stamps \ {i})
    /\ queue' = IF writer = "ok" THEN Append(queue, [piece |-> i, data |-> Head(inbox[p]).data])
                                 ELSE queue
    /\ out' = EndgameBroadcast
    /\ UNCHANGED <<unchoked, reputation, phase, disk, writer, net, stale>>
    /\ IF p \in unchoked THEN RequestPieces(p) ELSE UNCHANGED burst

OnGoodPiece(p) ==
    LET i == Head(inbox[p]).piece IN
    /\ Receive(p, "piece")
    /\ i \notin have
    /\ Verifies(Head(inbox[p]))
    /\ Sched!PieceCompleted(i)
    /\ stamps' = Restrict(stamps, DOMAIN stamps \ {i})
    /\ queue' = IF writer = "ok" THEN Append(queue, [piece |-> i, data |-> Head(inbox[p]).data])
                                 ELSE queue
    /\ out' = EndgameBroadcast
    /\ UNCHANGED <<unchoked, reputation, phase, disk, writer, net, stale>>
    /\ IF p \in unchoked THEN RequestPieces(p) ELSE UNCHANGED burst

\* record_failure(BadHash): the third strike bans for a while, the fourth for good.
BanAfter(p, s) ==
    CASE s <= 2 -> ban[p]
      [] s = 3  -> "temp"
      [] s >= 4 -> "session"

\* Seeded defects for the checks: the piece stays in flight; the peer is not
\* asked again.
OnBadPieceStillInFlight(p) ==
    LET i == Head(inbox[p]).piece
        banned == BanAfter(p, strikes[p] + 1) # "none"
    IN
    /\ Receive(p, "piece")
    /\ i \notin have
    /\ ~Verifies(Head(inbox[p]))
    /\ stamps' = Restrict(stamps, DOMAIN stamps \ {i})
    /\ strikes' = [strikes EXCEPT ![p] = @ + 1]
    /\ ban' = [ban EXCEPT ![p] = BanAfter(p, strikes'[p])]
    /\ unchoked' = IF banned THEN unchoked \ {p} ELSE unchoked
    /\ conn' = [conn EXCEPT ![p] = IF banned /\ @ = "up" THEN "dropped" ELSE @]
    /\ UNCHANGED <<sched, phase, store, remote, out, stale>>
    /\ IF p \in unchoked' THEN RequestPieces(p) ELSE UNCHANGED burst
OnBadPieceThenIdle(p) ==
    LET i == Head(inbox[p]).piece IN
    /\ Receive(p, "piece")
    /\ i \notin have
    /\ ~Verifies(Head(inbox[p]))
    /\ Sched!PieceFailed(i)
    /\ stamps' = Restrict(stamps, DOMAIN stamps \ {i})
    /\ strikes' = [strikes EXCEPT ![p] = @ + 1]
    /\ ban' = [ban EXCEPT ![p] = BanAfter(p, strikes'[p])]
    /\ UNCHANGED <<unchoked, conn, burst, phase, store, remote, out, stale>>

OnBadPiece(p) ==
    LET i == Head(inbox[p]).piece
        banned == BanAfter(p, strikes[p] + 1) # "none"
    IN
    /\ Receive(p, "piece")
    /\ i \notin have
    /\ ~Verifies(Head(inbox[p]))
    /\ Sched!PieceFailed(i)
    /\ stamps' = Restrict(stamps, DOMAIN stamps \ {i})
    /\ strikes' = [strikes EXCEPT ![p] = @ + 1]
    /\ ban' = [ban EXCEPT ![p] = BanAfter(p, strikes'[p])]
    /\ unchoked' = IF banned THEN unchoked \ {p} ELSE unchoked
    /\ conn' = [conn EXCEPT ![p] = IF banned /\ @ = "up" THEN "dropped" ELSE @]
    /\ UNCHANGED <<phase, store, remote, out, stale>>
    /\ IF p \in unchoked' THEN RequestPieces(p) ELSE UNCHANGED burst

OnHave(p) ==
    /\ Receive(p, "have")
    /\ Sched!PeerHasPiece(p, Head(inbox[p]).piece)
    /\ UNCHANGED <<book, reputation, burst, phase, store, net, out, stale>>

\* A seeded defect for the checks: the timestamps of the peer are kept.
OnDisconnectedKeepingStamps(p) ==
    /\ Receive(p, "disconnected")
    /\ Sched!UnregisterPeer(p)
    /\ unchoked' = unchoked \ {p}
    /\ strikes' = [strikes EXCEPT ![p] = 0]
    /\ ban' = [ban EXCEPT ![p] = "none"]
    /\ UNCHANGED <<stamps, burst, phase, store, net, out, stale>>

\* The peer leaves every table, its reputation entry included.
OnDisconnected(p) ==
    /\ Receive(p, "disconnected")
    /\ Sched!UnregisterPeer(p)
    /\ unchoked' = unchoked \ {p}
    /\ strikes' = [strikes EXCEPT ![p] = 0]
    /\ ban' = [ban EXCEPT ![p] = "none"]
    /\ stamps' = Restrict(stamps, {i \in DOMAIN stamps : stamps[i] # p})
    /\ UNCHANGED <<burst, phase, store, net, out, stale>>

\* A seeded defect for the checks: the new peer is also made the owner.
OnStaleReassigning(i) ==
    LET others == {q \in Sched!Holders(i) \cap unchoked : q # stamps[i] /\ ~Banned(q)} IN
    /\ Handling
    /\ i \in DOMAIN stamps
    /\ stale < MaxStale
    /\ stale' = stale + 1
    /\ \E best \in others :
          /\ out' = Sent(best, <<Request(i)>>)
          /\ stamps' = Insert(stamps, i, best)
          /\ inFlight' = Insert(inFlight, i, best)
    /\ UNCHANGED <<have, holds, rarity, endgame, unchoked, reputation, burst, phase,
                   store, net, inbox>>

\* The stale check, for one request that has waited too long: it is sent to
\* another unchoked holder in good standing, or forgotten if there is none.
\* The scheduler is not told.
OnStale(i) ==
    LET others == {q \in Sched!Holders(i) \cap unchoked : q # stamps[i] /\ ~Banned(q)} IN
    /\ Handling
    /\ i \in DOMAIN stamps
    /\ stale < MaxStale
    /\ stale' = stale + 1
    /\ \/ \E best \in others :
            /\ out' = Sent(best, <<Request(i)>>)
            /\ stamps' = Insert(stamps, i, best)
       \/ /\ others = {}
          /\ stamps' = Restrict(stamps, DOMAIN stamps \ {i})
          /\ UNCHANGED out
    /\ UNCHANGED <<sched, unchoked, reputation, burst, phase, store, net, inbox>>

\* After the last piece: the pool is aborted, which ends every peer loop, and
\* the writer's channel is closed.
LeaveLoop ==
    /\ AtLoopTop
    /\ Sched!IsComplete
    /\ phase' = "closing"
    /\ conn' = [p \in Peers |-> "closed"]
    /\ out' = [p \in Peers |-> <<>>]
    /\ inbox' = [p \in Peers |-> <<>>]
    /\ UNCHANGED <<sched, book, reputation, burst, store, remote, stale>>

\* A seeded defect for the checks: the writer's error is dropped.
FinishRegardless ==
    /\ phase = "closing"
    /\ queue = <<>>
    /\ phase' = "ok"
    /\ UNCHANGED <<sched, book, reputation, burst, store, net, out, inbox, stale>>

\* writer.finish()? : the result is the writer task's.
Finish ==
    /\ phase = "closing"
    /\ queue = <<>>
    /\ phase' = IF writer = "ok" THEN "ok" ELSE "failed"
    /\ UNCHANGED <<sched, book, reputation, burst, store, net, out, inbox, stale>>

\* Sixty seconds after the third strike.
BanExpires(p) ==
    /\ ban[p] = "temp"
    /\ phase = "running"
    /\ ban' = [ban EXCEPT ![p] = "none"]
    /\ UNCHANGED <<sched, book, strikes, burst, phase, store, net, out, inbox, stale>>

----------------------------------------------------------------------------
(* The disk writer task *)

DiskWrite ==
    /\ writer = "ok"
    /\ queue # <<>>
    /\ disk' = Insert(disk, Head(queue).piece, Head(queue).data)
    /\ queue' = Tail(queue)
    /\ UNCHANGED <<sched, book, reputation, burst, phase, writer, net, out, inbox, stale>>

\* Opening, seeking, writing or flushing fails: the task ends, and what is
\* sent to its channel from then on is lost.
DiskFails ==
    /\ MayFailDisk
    /\ writer = "ok"
    /\ phase \in {"running", "closing"}
    /\ writer' = "failed"
    /\ queue' = <<>>
    /\ UNCHANGED <<sched, book, reputation, burst, phase, disk, net, out, inbox, stale>>

----------------------------------------------------------------------------
(* The connections and the peers behind them *)

\* A connection fails, at any time: what was not read yet may be lost, and the
\* peer loop reports the disconnection last.
Leave(p) ==
    /\ p \in MayLeave
    /\ Open(p)
    /\ conn' = [conn EXCEPT ![p] = "closed"]
    /\ out' = [out EXCEPT ![p] = <<>>]
    /\ \E read \in Prefixes(inbox[p]) :
          inbox' = [inbox EXCEPT ![p] = Append(read, Disconnected)]
    /\ UNCHANGED <<sched, book, reputation, burst, phase, store, remote, stale>>

\* The loop of a peer dropped by DisconnectPeer finds its channel closed and
\* returns, without reporting anything.
LoopEnds(p) ==
    /\ conn[p] = "dropped"
    /\ conn' = [conn EXCEPT ![p] = "closed"]
    /\ out' = [out EXCEPT ![p] = <<>>]
    /\ \E read \in Prefixes(inbox[p]) : inbox' = [inbox EXCEPT ![p] = read]
    /\ UNCHANGED <<sched, book, reputation, burst, phase, store, remote, stale>>

\* Peer p takes the next message, of the given type, and says what to.
Takes(p, type) ==
    /\ Open(p)
    /\ out[p] # <<>>
    /\ Head(out[p]).type = type
    /\ out' = [out EXCEPT ![p] = Tail(@)]
Says(p, event) == inbox' = [inbox EXCEPT ![p] = Append(@, event)]

\* The seeder answers Interested with Unchoke ...
PeerUnchokes(p) ==
    /\ Takes(p, "interested")
    /\ Says(p, Unchoke)
    /\ remote' = [remote EXCEPT ![p].choking = FALSE]
    /\ UNCHANGED <<sched, book, reputation, burst, phase, store, conn, stale>>

\* ... and each request with the piece and its proof.
PeerAnswers(p) ==
    /\ Takes(p, "request")
    /\ ~remote[p].choking
    /\ LET i == Head(out[p]).piece IN Says(p, Piece(i, i))
    /\ UNCHANGED <<sched, book, reputation, burst, phase, store, net, stale>>

\* A faulty peer: the answer is another piece that it has, with that one's proof.
PeerMixesUp(p) ==
    /\ Takes(p, "request")
    /\ ~remote[p].choking
    /\ LET i == Head(out[p]).piece IN
          \E j \in remote[p].has : <<p, i, j>> \in MixUps /\ Says(p, Piece(i, j))
    /\ UNCHANGED <<sched, book, reputation, burst, phase, store, net, stale>>

\* A faulty peer: the data does not match the info hash.
PeerCorrupts(p) ==
    /\ Takes(p, "request")
    /\ ~remote[p].choking
    /\ remote[p].bad < MaxBad[p]
    /\ Says(p, Piece(Head(out[p]).piece, Damaged))
    /\ remote' = [remote EXCEPT ![p].bad = @ + 1]
    /\ UNCHANGED <<sched, book, reputation, burst, phase, store, conn, stale>>

\* Other implementations also choke, ignore requests while they do, unchoke
\* again, and acquire pieces.
PeerIgnores(p) ==
    /\ Takes(p, "request")
    /\ remote[p].choking
    /\ UNCHANGED <<sched, book, reputation, burst, phase, store, net, inbox, stale>>

PeerChokes(p) ==
    /\ Open(p)
    /\ ~remote[p].choking
    /\ remote[p].chokes < MaxChoke[p]
    /\ Says(p, Choke)
    /\ remote' = [remote EXCEPT ![p].choking = TRUE, ![p].chokes = @ + 1]
    /\ UNCHANGED <<sched, book, reputation, burst, phase, store, conn, out, stale>>

PeerUnchokesAgain(p) ==
    /\ Open(p)
    /\ remote[p].choking
    /\ remote[p].chokes > 0
    /\ Says(p, Unchoke)
    /\ remote' = [remote EXCEPT ![p].choking = FALSE]
    /\ UNCHANGED <<sched, book, reputation, burst, phase, store, conn, out, stale>>

PeerGains(p, i) ==
    /\ Open(p)
    /\ <<p, i>> \in Gains
    /\ i \notin remote[p].has
    /\ Says(p, HaveEvent(i))
    /\ remote' = [remote EXCEPT ![p].has = @ \cup {i}]
    /\ UNCHANGED <<sched, book, reputation, burst, phase, store, conn, out, stale>>

----------------------------------------------------------------------------
HandleEvent(p) ==
    \/ OnBitfield(p)
    \/ OnUnchoked(p)
    \/ OnChoked(p)
    \/ OnDuplicate(p)
    \/ OnGoodPiece(p)
    \/ OnBadPiece(p)
    \/ OnHave(p)
    \/ OnDisconnected(p)

Coordinator ==
    \/ \E p \in Peers : HandleEvent(p) \/ RequestOne(p)
    \/ LeaveLoop
    \/ Finish

PeerStep(p) ==
    \/ PeerUnchokes(p)
    \/ PeerAnswers(p)
    \/ PeerMixesUp(p)
    \/ PeerCorrupts(p)
    \/ PeerIgnores(p)
    \/ PeerChokes(p)
    \/ PeerUnchokesAgain(p)
    \/ \E i \in Pieces : PeerGains(p, i)
    \/ Leave(p)
    \/ LoopEnds(p)

Next ==
    \/ Coordinator
    \/ \E i \in Pieces : OnStale(i)
    \/ \E p \in Peers : BanExpires(p)
    \/ DiskWrite
    \/ DiskFails
    \/ \E p \in Peers : PeerStep(p)
    \/ phase \in {"ok", "failed"} /\ UNCHANGED vars    \* run has returned

Spec == Init /\ [][Next]_vars

\* The runtime polls every ready task; the event channel is one queue, so an
\* event is not overtaken for ever; a peer that stays answers what it is asked.
Fairness ==
    /\ WF_vars(Coordinator)
    /\ WF_vars(DiskWrite)
    /\ \A p \in Peers \ MayLeave :
          /\ WF_vars(PeerUnchokes(p))
          /\ WF_vars(PeerAnswers(p))
          /\ WF_vars(PeerIgnores(p))
          /\ WF_vars(PeerUnchokesAgain(p))

FairSpec == Spec /\ Fairness

----------------------------------------------------------------------------
(* Properties *)

Events == {"bitfield", "unchoke", "choke", "have", "piece", "disconnected"}

\* The types of the coordinator's tables, of the writer and of the queues.
TypeOK ==
    /\ Sched!TypeOK
    /\ unchoked \subseteq Peers
    /\ DOMAIN stamps \subseteq Pieces /\ \A i \in DOMAIN stamps : stamps[i] \in Peers
    /\ strikes \in [Peers -> Nat]
    /\ ban \in [Peers -> {"none", "temp", "session"}]
    /\ burst \in [Peers -> Nat]
    /\ \A p, q \in Peers : burst[p] > 0 /\ burst[q] > 0 => p = q
    /\ phase \in {"running", "closing", "ok", "failed"}
    /\ writer \in {"ok", "failed"}
    /\ \A k \in DOMAIN queue : queue[k] \in [piece : Pieces, data : Pieces]
    /\ DOMAIN disk \subseteq Pieces /\ disk \in [DOMAIN disk -> Pieces]
    /\ conn \in [Peers -> {"up", "dropped", "closed"}]
    /\ \A p \in Peers :
          /\ \A k \in DOMAIN out[p] : out[p][k].type \in {"interested", "request"}
          /\ \A k \in DOMAIN inbox[p] : inbox[p][k].type \in Events
          /\ remote[p] \in [has : SUBSET Pieces, choking : BOOLEAN,
                            bad : 0 .. MaxBad[p], chokes : 0 .. MaxChoke[p]]
    /\ stale \in 0 .. MaxStale

\* The coordinator uses the scheduler as its contract asks: what is proved of
\* Scheduler holds of the download, with re-requests, duplicates, failures and
\* disconnections in any order.
SchedulerSpec == Sched!Spec

\* The bytes of piece i, or, as the proof is not checked against the index
\* (merkle.rs:58, coordinator.rs:254), of a piece that some peer takes for it.
PassesFor(i, data) == data = i \/ \E p \in Peers : <<p, i, data>> \in MixUps

\* The download as its caller sees it: each piece is accepted once, only bytes
\* that verified reach the file, in the place of another piece only if a peer
\* mixed the two up, and `Ok` means that every piece is there, a disk error
\* having been kept for `finish`.
Delivers == INSTANCE Delivery WITH
    accepted <- have,
    stored <- {i \in DOMAIN disk : PassesFor(i, disk[i])},
    outcome <- IF phase \in {"ok", "failed"} THEN phase ELSE "pending"
DeliverySpec == Delivers!Spec

\* Endgame and stale re-requests deliver a piece several times, from several
\* peers; it is handed to the disk writer once.
WrittenOnce ==
    /\ \A j, k \in DOMAIN queue : j # k => queue[j].piece # queue[k].piece
    /\ \A k \in DOMAIN queue : queue[k].piece \notin DOMAIN disk

\* No table keeps a peer that has left or a piece that is done: the unchoked
\* peers are registered, and each timestamp, which the stale check may turn
\* into a new request, is of a missing piece and a registered holder.
TablesSound ==
    /\ unchoked \subseteq Sched!Registered
    /\ \A i \in DOMAIN stamps :
          /\ i \in Missing
          /\ stamps[i] \in Sched!Registered
          /\ i \in holds[stamps[i]]

\* A piece marked in flight is about to be answered: its request or its answer
\* is under way at the peer it is assigned to, unless that peer's connection
\* is over or it has choked us.  Otherwise the mark would only keep the piece
\* from being asked of anybody.
InFlightAnswered ==
    \A i \in DOMAIN inFlight :
        LET p == inFlight[i] IN
        conn[p] = "up" /\ remote[p].chokes = 0 => Pending(p, i)

\* A banned peer is sent nothing more, although an Unchoke it sent before may
\* put it back among the unchoked peers, which the endgame broadcast does not
\* check against the bans.
NoRequestWhileBanned ==
    [][\A p \in Peers : Banned(p) => Len(out'[p]) <= Len(out[p])]_vars

\* Nothing under way: no event to handle, no message or request in the network,
\* no request left that the stale check could find.
Quiet ==
    /\ Handling
    /\ \A p \in Peers : out[p] = <<>> /\ inbox[p] = <<>>
    /\ DOMAIN stamps = {}

\* The download never falls silent with a missing piece that a connected,
\* unchoked peer in good standing holds and would send if it were asked.
NeverStalls ==
    Quiet => \A p \in unchoked :
                conn[p] = "up" /\ ~Banned(p) => holds[p] \cap Missing = {}

\* The download ends, with the whole file or with the error of the disk.
Completes == <>(phase \in {"ok", "failed"})
============================================================================
