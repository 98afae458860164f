# AegisTorrent in TLA+

A verification development for AegisTorrent, a peer-to-peer file transfer
program in Rust. TLA+ modules model the parts of the program that keep state and
interact; TLC checks them on small instances; TLAPS proves the main results for
every instance. Paths are relative to the repository, which is `src/` here.

## 1. The system

| Part | Source | State | Operations |
|---|---|---|---|
| Piece scheduler | `src/core/scheduler.rs` | our bitfield, bitfield per peer, piece in flight -> peer, cached rarity, endgame flag | register, unregister, have, pick, completed, failed |
| Download coordinator | `src/network/coordinator.rs` | the scheduler, unchoked peers, completed pieces, request timestamps, reputation, response times, PEX table | one handler per pool event, a stale check every 500 ms, a PEX tick every 30 s, `request_pieces` |
| Connection pool | `src/network/pool.rs` | one channel and one task (peer loop) per peer | send to a peer, connect, drop a peer; the loops turn messages into events |
| Disk writer | `src/storage/writer.rs` | a channel of 64 writes and a task | write, finish |
| Reputation | `src/security/reputation.rs` | strikes, bans, speed, reliability and latency windows per peer | success, failure, ranking, removal |
| Swarm intelligence | `src/core/swarm.rs` | response times per peer | pipeline depth, stale requests, best peer |
| Seeder, leecher | `src/network/seeder.rs`, `leecher.rs` | one connection each | the exchange Bitfield, Interested, Unchoke, Request, Piece |
| Connection | `src/network/peer.rs`, `src/protocol/state.rs` | a framed stream and a state machine | handshake, send, receive, transition |
| Choking manager | `src/core/choking.rs` | upload rates, unchoked set, optimistic peer, tick | update, decide, remove |
| DHT | `src/network/discovery/{routing,lookup,store,rpc,dht}.rs` | buckets, announced peers, state of a lookup | requests, answers and timeouts over UDP |
| Peer exchange | `src/network/discovery/pex.rs` | known peers, what each recipient was sent | generate, merge, remove |
| Data | `src/core/{merkle,chunker,sliding_window}.rs`, `src/storage/store.rs`, `src/protocol/{codec,messages}.rs` | values, a ring buffer | trees and proofs, geometry, encoding |
| Front ends and stubs | `src/cli`, `src/observability`, `src/nat`, ... | none of the protocol | drawing, arguments; several files are only a comment |

**Interaction.** The coordinator is one task. It sends commands to the pool task
over a channel of 128; the pool sends them on to the peer loops over channels of
32; a peer loop writes them to its TCP stream, reads messages from it and sends
events to the coordinator over one channel of 128. Verified pieces go to the
writer task. The scheduler, the reputation manager and the swarm statistics are
plain objects owned by the coordinator.

**What is hard.** Each of these is a line of "hazards" in `PROJECT.json`.

- *Interleaving.* Peer loops, remote peers, the writer and the 60 s of a ban run
  beside the coordinator, which also awaits inside its handlers.
- *Ordering and staleness.* An Unchoke sent before a ban is handled after it; an
  answer arrives after the same piece came from elsewhere; a corrupt piece from
  one peer clears the assignment of another.
- *Two tables for one thing.* `in_flight` (the scheduler) and
  `request_timestamps` (the coordinator) are changed together in some handlers
  and separately in others.
- *Events as the only motor.* A peer is asked for pieces only when it unchokes
  us or delivers a new piece. Whatever frees a piece otherwise relies on a later
  event.
- *Failure.* Connections fail at any time, before or after the pool drops them;
  writes fail and are reported at the end only.
- *Bounded channels in a cycle*, and a start-up that fills one nobody reads yet.
- *Bytes on a stream* that hands them over in portions of any size, with lists whose
  lengths decide where the next field begins.
- *Statistics over the last answers* that decide who is asked for how much.

**What makes each part correct.** The scheduler: rarity is the number of real
holders; a piece in flight is missing and with a peer that can deliver it; no
piece is assigned twice before endgame; endgame begins exactly when everything
missing is assigned. The coordinator: it keeps the scheduler's contract, its
tables agree, a banned peer gets nothing, each piece is written once, success
means verified bytes everywhere, and the download ends if somebody serves it. Reputation:
bans last as long as the peer stays. Pool: no cycle of tasks waits on itself and every connection
that ends by itself is reported and released. Choking: at most five peers are unchoked and the
decisions sent add up to that set. Lookup and routing: a lookup ends within its
limits and the closest nodes found are the closest known. Peer store and PEX:
bounded tables, nothing shareable withheld for ever. Data: proofs verify exactly
the leaf they were made for; offsets and lengths tile the file.

## 2. The modules

| Module | What it is |
|---|---|
| `Scheduler` | the scheduler, one action per method; also the contract its caller keeps |
| `SchedulerProofs` | its theorems |
| `Delivery` | what any download promises its caller, in five lines of state change |
| `Download` | coordinator, strikes and bans, peer loops, writer and remote peers; uses `Scheduler` as its part and implements `Scheduler` and `Delivery` |
| `DownloadProofs` | its theorems; uses `SchedulerProofs` |
| `Connections` | the tasks of a download (coordinator, pool, peer loops), the bounded channels between them, and the peer exchange |
| `ConnectionsProofs` | its theorems |
| `SlidingWindow` | the ring of the last values and its statistics |
| `Reputation` | what the coordinator records about peers, and how that decides whom it asks for how much; uses `SlidingWindow` |
| `ReputationProofs` | its theorems |
| `Merkle`, `Storage` | trees, proofs and verification; pieces, leaves, info hash and bitfield of a file |
| `Transfer` | the download from a single peer: leecher, seeder and the connection between them, over files given byte by byte (`Storage`); implements `Delivery` |
| `TransferProofs` | its theorems |
| `Octets`, `Codec`, `Rpc` | numbers and lists in octets; encode and decode of the peer protocol and of the DHT |
| `Channel` | what a connection promises its two ends |
| `Wire` | one direction of a connection, octet by octet, and a datagram; uses `Codec` and `Rpc`, implements `Channel` |
| `WireProofs` | its theorems |
| `Choking` | the choking manager, one action per method |
| `Lookup` | an iterative DHT lookup over UDP |
| `RankingProofs` | the theorems of these two, which choose by rank: the fastest peers, the closest nodes |
| `DhtNode` | a serving DHT node with its routing table and peer store |
| `DhtNodeProofs` | its theorems |
| `MC...` | instances for TLC, named after their runs |

### Scheduler

`have`, `holds`, `inFlight`, `rarity` and `endgame` are `our_bitfield`,
`peer_bitfields`, `in_flight`, `piece_rarity` and `endgame`; a bitfield is the set
of its pieces. `CheckEndgame` is evaluated in `PickPiece` and `PieceCompleted`, as
in the code, on the values the method leaves. `PickPiece(p, i)` allows every
piece that `choose` could draw from the rarest candidates. `Spec` is the
scheduler under *any* caller that registers a peer only while it is not
registered and completes or fails only missing pieces. Completions are not tied
to the peer the piece was asked of, since the coordinator does not tie them.

### Download

| Variables | Code |
|---|---|
| `have` ... `endgame` | the scheduler; `completed_pieces` is equal to `have` |
| `unchoked`, `stamps` | `unchoked_peers`, `request_timestamps` (peers without times) |
| `strikes`, `ban` | the reputation entry; `"temp"` is the 60 s after the third strike |
| `burst` | iterations left of the `request_pieces` call in progress |
| `phase` | inside the loop, in `writer.finish()`, or the result |
| `queue`, `disk`, `writer` | the writer's channel, the file, the writer task |
| `conn` | the peer loop: `"up"`, `"dropped"` (its channel is out of `peer_txs`), `"closed"` |
| `out`, `inbox` | all that is under way to a peer and from it, in order |
| `remote` | the peer itself: what it holds, whether it chokes us, faults spent |
| `stale` | how many requests were found stale; only a bound |

A handler is one action up to its call of `request_pieces`; each iteration of that
loop is an action too, as it awaits. Nothing else the coordinator does comes
between (`Handling`), but peers, writer and bans go on. `out` joins command
channel, peer channel and stream, `inbox` stream, loop and event channel: one
FIFO per peer and direction. The single event channel orders events of different
peers by when the loops sent them, which streams of any speed make arbitrary.

A connection may fail at any time (`Leave`): requests on their way are lost,
events not read yet are lost from some point on, and the loop reports
`Disconnected` last. A loop dropped by the pool ends without a report
(`LoopEnds`), possibly after a failure that is reported.

Choices left open: which of the rarest pieces is picked, the pipeline depth among
those the code can compute for the strikes, which peer is best, when a request
is stale. Assumptions: answers carry the index that was asked for; peers never
choke before the first unchoke; a peer accepted one connection.

What an answer holds is another matter: the bytes of the piece, bytes that are none
(`Damaged`), or, from a peer in `MixUps`, another piece of the file with that one's
proof. `Verifies` is what `MerkleTree::verify` makes of them: it climbs by the proof that
came along and never looks at `leaf_index`, so the last kind passes (3.1) and
is written where the requested piece belongs.

`SchedulerSpec` says that `Download` implements `Scheduler`: with `Scheduler`'s own
variables, each step is a step of `Sched!Next` or leaves them alone. What is proved
of `Scheduler` therefore holds of the download. `DeliverySpec` says that it
implements `Delivery` with `accepted <- have`, `stored` the indices where the file has
bytes that pass for that piece (`PassesFor`: its own, or another piece's that some peer
takes for it), and `outcome` the result. `Ok` thus means that something
verified is everywhere. That everything is right follows only if nobody mixes pieces up
(`RightBytes`, section 4).

### Connections

The same coordinator seen from its channels: what `Download` leaves unbounded has slots
here, and each command, message and event takes its slot. `at` is where the coordinator
is: connecting, receiving, or with a list `out` of commands it has still to send, one
`cmd_tx.send().await` each, and then `burst[p]` picks of `request_pieces`, one pick and one
send at a time. The handlers are those of `Download`, with the scheduler (`Scheduler` again),
the timestamps, the endgame broadcast to every unchoked holder of every missing piece, the
duplicate that is dropped without a refill, and the stale check. `pool` and `pend` are the
same of the pool, whose `SendHave` goes to every peer in turn; `held[p]` is the event that
the loop of `p` waits to send, during which it neither reads nor writes. Who sends into
a full channel has no action until there is room. `stage[p]` tells whether the loop
exists: `connect` sends `PeerConnected` before it spawns it.

Whether a piece verifies depends on the peer only (`Corrupt`); when a ban begins and ends is left open.
Several stale requests found by one tick are handled here as by ticks of their own,
since the commands of one are sent before the next is looked at. The writer
is not here: its channel is fed by the coordinator and emptied by a task
that waits for nobody, so it is in no circle. The order in which the broadcast takes the
holders of a piece is open, as that of a `HashMap`; the pieces come in order.

`known` and `lastSent` are the fields of `PexManager`; `told` is history, what a recipient was
told and not told to drop. The addresses the program shares are empty
(`coordinator.rs:219`), so `ConnectPeer` fails and is a step of the pool that
changes nothing; only a peer of another program could send one that works. A
remote peer may close its connection, choke and unchoke us, and say something unasked
(`Have`, or a `Pex` that adds or drops); it reads whatever it is sent and answers requests while it
does not choke. `says`, `ticks` and `stale` are what is left of the budgets of the peers and of time.

`NeverStuck` names the two circles the code could get into: the start, where the one
who connects is the one who would have to receive (`coordinator.rs:132`), and coordinator,
pool and a loop each waiting for the next (`pool.rs:224`). Both depend on how much
may be in the channels at a time. `InterestSent` is the liveness of
the same circle: nothing on the way to a peer waits for ever.

`ReleasedWhenGone` is about a connection that ended by itself. What decides about requests is cleared:
the scheduler, the unchoked, the bans, the timestamps. Other things stay, in the model as in the code,
and the property does not speak of them: the sender in `peer_txs`, which only `DisconnectPeer`
removes (a send to it fails and is ignored); `last_sent`, as `PexManager::remove_peer` clears
`known_peers` only; `known_peers` and `peer_sources` once another peer mentions it
(`coordinator.rs:351, 355`). A peer the pool dropped is reported by nobody and stays registered.

### Reputation

`rep`, `times`, `stamps` and `unchoked` are the entries of `ReputationManager`, the windows of
`SwarmIntel`, `request_timestamps` and `unchoked_peers`. Here, unlike in `Download`, the
statistics are computed: score, rank, pipeline depth and stale threshold by the
formulas of the code, in whole numbers (a median is doubled, a mean left as sum
and count, the score a fraction with the weights 5, 3 and 2). A unit of time is one interval of the
stale check; an instant is the time since or until then. Which piece the
scheduler picks is open. `StaleCheck` handles all stale requests at once, as the
code does between two awaits that change nothing it reads. `outcomes` is history: what the
answers of a peer came to since it has an entry.

### Merkle, Storage and Transfer

A hash is the record of what it is taken of, so that hashes never collide.
`Tree`, `Path` with `Proof`, and `Climb` with `Verify` are the code's heap of nodes, its walk
to the root and the loop over the siblings, as recursive functions. The tree repeats its last leaf up to a power of two: a file that
ends with such repetitions has the info hash of the shorter file. `Transfer` assumes
(`ConstantsAssumption`) that the files of its instance are not of that kind.

`at[e]` is where end `e` of the connection stands: the `recv` of `download` or of
`handle_peer` it awaits, or the leecher's connect, write and return. One action
runs from a received message to the next `recv`, with all it sends in between:
the other end sees only the messages, and `Break` may cut these short anywhere,
so a failure between two sends is included. `state[e]` is the connection's state
machine, `pieces` the vector of received pieces, `file` what is written: pieces
sorted by index (`Place` is where the stable sort puts one), one after the other. Every `?` of the code is `Refuse` (an
unexpected message or a piece that does not verify), `LoseSeeder`, `LoseLeecher`,
`TurnAway` or `WriteFails`. An end that returns drops its connection; the other
notices at its next send or recv. `Init` lets the two ends want different
torrents.

`DeliverySpec` is the same promise the coordinator keeps: `accepted` are the
indices received, `stored` the positions of the file with the verified piece of
that index.

### Octets, Codec, Rpc and Wire

`Encode` and `Decode` are the codec's two functions, `Decode` with its three ways to end (no
whole frame yet, an error, a message) and what it leaves in the buffer each time;
`EncodeRpc` and `DecodeRpc` those of a datagram. Lengths are written before the payload
from a formula of their own (`PayloadLen`), as in the code: that they agree is a
matter of the properties. `Wire` puts the codec behind a stream (`pipe`, then `src`, the
buffer of `Framed`), where `Arrive` hands over any number of octets and `Cut` loses what
has not arrived. The other end may also send frames that are no messages (`Refused`).
`AllMessages` and `AllQueries` are the enums of the code: a number has its width, an
array its length, and a list as many items as the field before it can count. The program
sends no longer ones (`ConstantsAssumption` of `Wire`), and no payload above 4 MiB.
`ChannelSpec` says that `Wire` implements `Channel`: messages arrive whole, in order, once,
and none after an error. This is the channel that `Transfer` and `Download` take
for granted.

### Choking

`rates`, `unchoked`, `optimistic` and `tick` are the fields of `ChokingManager`; `tick` is
kept modulo the interval, the only way it is read. `Decide(interested)` allows every
order the sort can produce among equal rates and every optimistic peer that
`choose` can draw. `served`, `recent` and `overdue` are history: what a caller that
acts on the decisions has told the peers, what was uploaded in this round, and
for how many rounds nobody got the optimistic slot. No other module calls the
manager yet, so the caller is any sequence of `update_rate`, `decide` and
`remove_peer`.

### Lookup

`candidates`, `queried`, `queryCount` and `found` are the fields of `LookupState`; `phase`,
`pending` and `responses` are the control state of `find_peers`. A node is identified
with its distance to the target. `net` holds the nodes whose request or answer
is under way; as `find_peers` never looks at the sender of an answer, an answer
of an earlier round counts like one of this round, and the model keeps that. The
bootstrap nodes come with made-up ids (`cli/main.rs:187-198`), which are distinct, so a
node may be known under two names; for the lookup these are two nodes.

### DhtNode

`buckets` is the routing table, `store` the peers announced for one torrent with the
age and count of their announcements. An id is the set of its one bits, so a
distance is a symmetric difference. The code reads a distance in two ways, and
so does the model: `BucketOf` from the last byte, `Closer` from the first. A datagram
is handled in one action, from the insertion of its sender to the answer; `sent`
holds what that step sent. Who sends what is arbitrary, which covers loss,
delay and duplication. Time advances in units of five minutes, the one the rank
counts in; the intervals of 15 minutes are served before the next unit is
over. `Rank` is the code's formula in integers. Equal ranks are displaced or cut off
in any order.

Operators described as seeded defects model plausible bugs. No specification uses
them; replacing the definition below them by one shows that a property can fail.

## 3. The runs

| Run | Instance | Shows |
|---|---|---|
| `scheduler` | 3 peers, 3 pieces, symmetric in both | every order of calls: counters, assignments, endgame and rarest-first |
| `download` | a full seed; a peer with one of two pieces that may choke, corrupt three pieces and leave; one stale request | the coordinator's tables agree with each other, with the network, and with the scheduler's contract; a banned peer is sent nothing |
| `seed` | a full seed that stays (one corrupt piece); a partial peer that may gain a piece, send it for another, corrupt one, leave; three pieces; a disk that may fail | the promise of the download, once-only writes, and completion |
| `connections` | two peers, one with a piece that may leave, and one with both whose pieces fail; the first says something unasked, or two ticks of PEX, or two requests found stale; one slot for commands and per peer, five for events | no circle of waiting tasks, a peer that ended is out of the tables that decide about requests, PEX tells what it records, interest reaches every peer |
| `reputation` | two peers alike and one whose pieces may fail, three pieces, windows of two | statistics are those of the last answers, the depth follows the speed, and the bans hold |
| `transfer` | two files of five pieces of two bytes, the last one shorter; the same or different torrents; connection, bytes and disk may fail | the ends stay in step, stay within one torrent, keep `Delivery`, and neither waits for ever |
| `wire` | seven messages that cover the layouts, four frames that are none, two of them in a row; eight datagrams | no octet is lost or misread however the stream is cut, the stream is a `Channel`, what is sent is received, datagrams are understood |
| `choking` | 4 symmetric peers, 2 slots, interval 3 | decisions add up to at most slots + 1 peers, the fastest are served, the optimistic slot rotates in time |
| `lookup` | 7 nodes, 3 known at first, one without a usable address; batches of 2, limit 5, early end at 3 good peers | the lookup ends, asks nobody twice and the closest first, loses nothing it heard |
| `dhtnode` | three nodes for a bucket of two, one elsewhere, one with two addresses; three announcers for a store of two | the table stays sound and pings the longest silent node, no answer is empty, a regular announcer of high score is found |
| `churn` | violation | see 3.1 |
| `startup` | violation | see 3.1 |

**Bounds.** All are constants. `MaxBad`, `MaxChoke`, `Gains`, `MixUps` and `MaxStale` bound what
peers and time can do; they are budgets of the environment, not of the
coordinator. Three corrupt pieces are what a ban takes, four a session ban. Two
pieces already separate "assigned to another peer" from "endgame"; three also
leave a piece out of a pipeline of one or two. `Depths` scales 2, 5 and 8 down with
the number of pieces: what matters is whether all missing pieces fit in one
pipeline. The seeds and partial peers differ in every respect the handlers look
at, so the peers are not symmetric in `Download`. In `Connections` one slot per channel makes every sender wait
at some time; two peers are needed for one to be in the way of the other, and for a stale request, a
broadcast and a duplicate to exist at all. `Budgets` are those of the peers and of time: one of them is chosen
at the start, so that what a peer says, ticks and stale requests each meet everything else,
but not one another. The first peer's piece is also the second's, the second fails every time, and
either choice after a failure (banned or not) is there. In `Reputation` windows of two
wrap with the third answer; four failures are the session ban; a temporary ban lasts
one unit, so that it runs out between two others; ages up to two make a
request stale, or not, for every mean. With three peers the highest rank is
two of three, so a depth of 8 is not reached; 2 and 5 are. In `Transfer` five pieces
of two bytes give a tree of three levels with a repeated leaf, a shorter last
piece and fill bits in the bitfield; failures need no budget, since each ends
the exchange. In `Wire` bytes of 16 values and ids, hashes and scores of one byte
keep frames short and still make lengths of several octets; two frames in the
stream are what a portion can join. In `Choking` four peers fill two regular slots and the optimistic one
and leave one choked; rates up to 2 give ties and strict orders; `tick` is cyclic.
In `Lookup`, two per batch, five queries and three good peers stand for 5, 20 and 20: the
limits are reached with nodes left to ask, in the middle of a batch, or not at
all, and the nodes closest to the target are heard of last. `MaxDuplicates` is a
budget of the network. In `DhtNode` a bucket and a store of two overflow with the
third; two bytes of two bits are the smallest ids for which the two orders of
distances differ. `Stale = 1` shortens 15 minutes to one unit; ages stay below
`2 * Stale + 1` by the cleanup, and higher counts rank the same.

**Deadlock** is checked in `scheduler`, `seed`, `reputation`, `transfer`, `choking`, `lookup` and `dhtnode`. It is
off where the system really may stop: in `download` and `churn` (peers that hold the rest have
gone, or the silence of 3.1), in `connections` and `startup` (done, or every peer gone or
waiting), and in `wire` (everything read, or the stream ended).

**Fairness** (`FairSpec` of `Download`, `Transfer` and `Lookup`, `Spec` of `Connections` and `Wire`). The runtime polls every ready task, so the
coordinator and the writer are weakly fair. Weak fairness of the coordinator as a
whole is enough: events are consumed and budgets are finite, so no behaviour
handles other events for ever. A peer outside `MayLeave` answers what it is asked;
nothing is assumed of the others, of bans, of disks, or of the stale check. In
`Transfer` both tasks are weakly fair, and a broken connection is an error of the
next send or recv; the network need not fail. In `Lookup` the task is weakly fair at
the head of its loop and the timer of a round fires; no answer needs to arrive.
In `Connections` the coordinator, the pool and each peer loop are weakly fair, each as
a whole: a task that waits for room has no step, so fairness asks nothing of it. In
`Wire` the receiver calls `recv` and TCP delivers what it has not lost.

### 3.1 Where code and documentation disagree

1. *Churn* (`coordinator.rs:325-336`; `README.md:411`). When a peer leaves, its pieces
   become free, but idle unchoked peers that hold them are not asked. The run: `a` and `b`
   hold piece 0, `c` holds piece 1. `a` is asked for 0; `b` unchokes and is idle, as 0 is in flight;
   the disconnection of `a` is handled; only then `c` unchokes, is asked for 1 and
   delivers it. The order matters: were 1 picked while 0 is in flight, endgame would begin
   and the delivery of 1 would broadcast 0 to `b`. After the departure endgame does not help, as
   the freed piece is not in flight when 1 is picked.
2. *Start-up* (`coordinator.rs:132`; `README.md:234, 324`). All peers are connected before the
   first event is received. Each puts two events into the channel of 128, so the
   65th connect waits for a receiver that comes after it. The run has three
   peers and four slots.

Four more disagreements are known, without a run of their own:

- *Proofs without their place* (`merkle.rs:58-70`, `coordinator.rs:254-263`; `README.md:55, 409, 412`).
  Corrupt data is to be caught by the Merkle tree "on every piece", with "No data corruption" whoever is
  connected. But `leaf_index` is never compared with the way the proof takes, so piece
  `k` with the proof of `k`, sent as the answer for `i`, is accepted, written at the offset of `i`, and `run`
  returns `Ok`. In `seed` one peer does so, and `DeliverySpec` speaks of bytes that verified,
  not of the right ones; with `stored <- {i \in DOMAIN disk : disk[i] = i}` in its place it fails there.

- *Stale answers* (`coordinator.rs:250-252`; `README.md:53`). The answer of a slow peer,
  overtaken by that to the stale re-request, is dropped before the refill of its
  pipeline, so a healthy seed may end up idle with pieces missing. With one stale
  request `seed` ends in this silence, a deadlock; the run therefore has none.
- *Session bans* (`coordinator.rs:331`; `docs/plans/2026-03-29-phase3b-design.md:108`). A
  reported disconnection removes the reputation entry and the session ban.
  `BlacklistHolds` therefore speaks of the time until the peer leaves.
- *Connection states* (`leecher.rs:50`, `peer.rs:86, 115`; `README.md:52, 130-137`). The only
  transition ever made is that of the handshake: pieces arrive while the state
  is `Choked`, and no message is checked against the state.

`seed` shows the other side: silence needs a departure whose pieces nobody
busy holds, or stale requests. With a full seed that stays and nothing stale,
`Completes` holds: the seed's own pipeline only runs dry when
everything missing is assigned, which is endgame, and from then on each
completed piece is followed by a broadcast that reaches the seed.

## 4. The proofs

Each `...Proofs` module extends the module it is about (`RankingProofs` two). A theorem holds for every value
of the constants that satisfies the assumption named in that module; TLC checks the
invariants of the runs on small instances, and the strengthenings below were model-checked
on the same instances before they were proved.

**Scheduler**, for all sets `Pieces` and all finite sets `Peers` (`PeersAssumption`, needed
only to count holders): every property of run `scheduler`, and the types.

- *Types* (`TypeCorrect`) are inductive as stated (`InitType`, `NextType`).
- *In flight* (`NextInFlightSound`) is inductive given types: a pick takes a candidate, so
  a missing piece the peer holds; bitfields only grow while a peer is
  registered; unregistering restricts `inFlight`. The contract is used where a
  registered peer would otherwise get a new, smaller bitfield.
- *Endgame detection* (`NextEndgameDetected`) is inductive given types. Only a pick adds to
  `inFlight` and only a completion shrinks the missing pieces; both evaluate
  `CheckEndgame`; every other action keeps `Missing` and shrinks `inFlight`.
- *Rarity* (`NextRarity`) is inductive given types. `HolderGained` and `HolderLost` turn one
  more or one less registered holder into plus or minus one of a cardinality;
  since the counter is positive whenever there is a holder, the saturating
  subtraction never saturates.
- *Action properties* (`NoReassignmentCorrect`, `EndgameEntryCorrect`, `RarestFirstCorrect`)
  follow per action from these invariants; rarest-first by real holders is
  rarest-first by the cached counters plus `RarityIsHolderCount`.

**Choking**, for every finite set of peers, every number of slots and every
interval (`SlotsAssumption`): the types and the three properties of run `choking`.
`ServedAsDecided` is inductive given types once the fastest are known to be at most `Slots`
peers. `OptimisticInTime` is not inductive: it rests on `OverdueWithinTick`, which bounds
the rounds without an optimistic peer by those since the last multiple of the
interval. `Reciprocal` needs `RecentIsRate`: the counters of the code are what was
uploaded in this round.

**Download**, for any finite sets of peers and pieces, contents, budgets and depths: every
safety property of the runs `download` and `seed`.

- *Types and order* (`Typed`, `InboxOrdered`): a connection's events come as bitfield first,
  then the rest, and the disconnection last; this is what makes a peer registered once per
  connection. With it each step is a step of `Sched!Next` or leaves the scheduler alone
  (`SchedulerStep`), which is the refinement `SchedulerContract`. `SchedulerInDownload` then
  takes the theorems of `SchedulerProofs` over to every download.
- *`TablesSound`* needs them: a request the stale check may renew is for a
  piece in flight, so missing and with a registered holder.
- *`StoreSound`* is about the way of a piece from acceptance to disk: what is queued is good,
  accepted, queued once and not yet written, and nothing accepted is lost while the writer is
  fine. `WrittenOnce` and the refinement of `Delivery` (`DeliveryCorrect`) follow. Good means that it
  verified: what is under way to us, queued or written for an index passes for it. With `MixUps = {}`, and only then,
  that is the piece itself (`RightBytes`).
- *`BansCut`*: a banned peer has no connection of ours left and its `request_pieces`
  is not running, so no handler can send to it. This carries
  `NoRequestWhileBanned`, although neither the broadcast nor the handler of a late Unchoke is
  the one that looks at the ban.
- *`InFlightAnswered`* needs `AskedAfterUnchoke` (a peer that never unchoked us was asked nothing)
  and, per step, what it adds to and takes from the two queues of a peer (`OutStep`, `InboxStep`).

**Connections**, for any finite sets of peers and pieces, contents, capacities, depths and budgets.

- *`PexAgrees`* is inductive with `PexSound`: only peers are shared and nobody is told of itself.
- *Types* (`Typed`): each channel holds only what its senders send, within its capacity, and each
  task stands where the code awaits. It is proved task by task (`NextCoordinatorTyped`,
  `NextPoolTyped`, `NextLoopsTyped`).
- *`ReleasedWhenGone`* needs `LeavesNothing`: a loop that ended by itself has its disconnection
  in the events with nothing of that peer after it, or it is handled and the tables are
  clear of the peer. Since the report is in order, the handlers of what comes before cannot enter the
  peer again afterwards; neither can a pick, a broadcast or a re-request, which take registered and unchoked
  peers only (`StaysForgotten`).
- *`NeverStuck`* is a matter of counting. `InCourse`: nothing is said before a connection is made nor after
  it has ended. `Flow` is what may still become an event of a peer, of one kind: events, the event its loop
  holds, and all that may lead to one, in every queue from the coordinator to the peer and back, counted as
  often as it is there. Two kinds are told apart. All but requests and pieces: a handler sends at most one
  message of interest per bitfield, so that the count never grows, and stays within `Quota` (two for the
  connection and for the bitfield or the unchoke that follows, what the peer says unasked, its end): `Accounts`,
  proved per step (`OfPeer`, `NotOfPeer`, `HandlerAccounts`). Requests and pieces: these do grow, with every broadcast
  and re-request, and no bound on them is claimed; `Underway` is how many there are now. Whoever waits for a slot
  has an event that is not in the channel yet, so the channel holds at most one less than
  `Sum(Quota) + Underway` (`OneMore`). While that fits the slots, nobody waits in a circle
  (`NeverStuckCorrect`). At the start nothing is requested, so `Sum(Quota)` slots are enough
  (`StartNotBlocked`): two for each peer that is silent until it is asked and stays, so 128
  for 64; `MCStartup` shows the 65th.

**Reputation**, for all windows, bans and times. `RepSound` is `Typed` and `Struck`: strikes are the pieces that
failed since the entry was made, and four are a session ban. `BlacklistHolds` follows as every
place that starts a wait looks at the ban (`AskedIsNotBanned`). `DepthFollowsSpeed` needs that the
median exists: every place of an order statistic of a ring is taken (`EveryPlaceTaken`), by
an injection of the ring's slots into the places. `WindowsKeepLast` needs more than it says: the order
of the ring. `Recorded` lists the history from its end back along the slots before the cursor; a push
puts its value in front of that list and drops the last one of a full ring (`PushRecords`). The
list has the last n positions (`LastKept`), and going back from a slot twice is the identity
(`SlotTwice`), which gives the bijection of slots and values.

**Lookup**, for every graph of nodes, bootstrap set, batch and limit. `LookupSound`: the list is in strict order of
distance and holds the queried (`Listed`); what is under way was asked (`Typed`); every answer heard is
put to use (`Used`); the counters of the round equal what is under way when nothing was lost or
doubled (`Counted`). The list and the batch are defined by places in an order of numbers, so that the
same facts about counting (`PlaceInjective`, `PlaceTaken`) give sorting, batches and `ClosestFirst`.

**Wire**, for all sets of messages and of frames that are none, every base, every length of the ids and
hashes, and every limit under the `ConstantsAssumption`: the types and the longest frame fit their fields.

- *Numbers.* `Put` and `Value` are recursive functions; that they exist and undo each other is
  shown by induction over the octets (`Recursion`, from `UpFromZero`; `NumberOf`).
- *Lists.* What is read after `k` items is the first `k` and the encoding of the others (`After`), for every way to read
  one item that undoes writing it. One such course per list: siblings, ids, PEX peers, nodes, peers.
- *Messages.* One lemma per variant (`HandshakeRead` ... `PexRead`, `PingRead` ... `AnnounceRead`)
  says that the decoder restores it and that the length written before it is that of its payload.
  `DecodeUndoesEncode` and `DecodeUndoesEncodeRpc` combine them.
- *Frames.* With the beginning of a frame the decoder waits; with all of it, and whatever follows, it
  takes it off (`DecodeMessage`); a refused frame never becomes a message (`DecodeStrange`).
- *The connection.* `InStep`: buffer, stream and what a break lost are together the
  frames of what was sent and is not received yet, and nothing is lost while it is open.
  It is inductive; `NothingLost` follows, and every step is one of `Channel` or a stutter
  (`ChannelSpecCorrect`).
- `SaidIsHeard` is `DecodeUndoesEncodeRpc` for the datagram sent.

**DhtNode**, for all ids, told lists, bucket sizes, limits and scores.

- *`TableAgrees`*: each bucket lists ids of its distance, once, never ours, at most `K`, and in the
  order in which they were last mentioned. The first half is `TableSound`; with the second half the
  head of a full bucket, the node pinged, is the longest silent one (`PingsLongestSilent`). A list
  of nodes in an answer is a loop in the code and a recursive function here; `AllAgree` goes
  through it by induction over its indices (`UpFromZero`: a set of naturals with 0 and successors
  is all of them, taken from the least element outside).
- *`NeverEmptyAnswer`*: the asker is inserted before it is answered, so the table knows
  somebody, and a finite set under the order of distances, a strict total
  order of sets (`PrecedesOrders`, `CloserTransitive`), has a closest element.
  A node under our own id is never inserted; it gets no such guarantee.
- *`AliveIsFound`* rests on `StoreSound`: a top peer heard of lately is stored with that age. The rank of
  a top peer exceeds that of any other by the bounds of freshness and constancy
  (`RankBounds`), so it is neither displaced from a full store nor cut from an answer.

**Transfer**, for all files of the assumption. `TransferSound`: types of the wire (`Wired`), the received pieces are those
of 0, 1, 2, ... (`InOrder`), and at most one request or piece is under way, that of the piece the leecher
waits for, and only to or from a seeder that serves (`Lockstep`). `InStep` follows. `SameTorrent` needs
`Strangers`: with different torrents neither end gets past its handshake.

- *`DeliveryCorrect`*: `Transfer` implements `Delivery`, step by step. Two more invariants carry it.
  `Truthful`: every request under way is for a piece there is, every bitfield is the seeder's, every
  piece has the proof of its index, damaged bytes or not. `Faithful`: the leecher counts on as
  many pieces as there are, holds less until it writes, each one that of the file, and what
  it writes is the file. `OkIsTheFile` follows. Neither `ConstantsAssumption`'s
  clause about files of the same hash nor any comparison of indices is needed: the piece is the
  right one by `InOrder` and its bytes by the tree.
- The tree, for any number of leaves. `PathOf`: from a leaf, halving ends at the root after `Depth`
  steps, inside the heap all the way. `OwnProofVerifies`: climbing passes the nodes of the path, as
  each is the hash of its two children. `VerifiedIs`: two leaves that climb to the same root by the
  same siblings are equal (`Binding`, down from the root), so that the proof made for a piece admits its bytes
  only.
- The geometry, for any length and piece size. `PiecesOf`: the pieces cut by `chunk` are those
  `read_piece` reads. `BitsOf`: the bits set are as many. `JoinedIs`: put together in order,
  they are the file.
- A recursive function is a `CHOOSE`; that one exists is shown by `UpFromZero` wherever it is
  used (`PowersStep`, `TreeStep`, `PathStep`, `ClimbStep`, `JoinedStep`).

**Only model-checked.**

- Liveness under fairness is beyond the prover: `Completes`, `EndsWell`, `Terminates`, `Received`,
  `InterestSent`, and the violations of 3.1.
- That `NeverStuck` holds in the instance of `MCConnections` at every moment, also where the condition of
  `NeverStuckCorrect` does not. It is not a law: in other instances the circle of `pool.rs:224` closes. With one
  peer and a pipeline of two or more, one slot for events is too few for two pieces, two for three pieces, and three for
  four with a pipeline of three; with the two peers of the run and a pipeline of two, two slots are too few.
  The 128 slots of the code fill up only with very many requests under way.

## 5. What is left

Every safety and action property of the runs is proved, `NeverStuck` under the condition of section 4. What is left is one composition:
`Lookup` with several instances of `DhtNode`, where a seeder that announces
itself to one bootstrap node is found through another.

## 6. Not modelled

Command line, dashboard, stats server and stub files hold no protocol state.
`from_utf8_lossy` (an address that is not UTF-8 changes) and the rounding of floating-point
numbers are left out: addresses are valid, speeds and scores whole or fractions.
Without a caller, and so left out: `RoutingTable::remove` and `evict_and_replace`,
`PexManager::update_score`, `SlidingWindow::percentile` and `sum`, `SwarmIntel::avg_response_ms`,
`PieceStore::empty`, `write_piece` and `verify_piece`, the commands `CancelPiece`, `ChokePeer` and
`UnchokePeer`, and every state transition but that of the handshake. A PEX address that
works, sent by a peer of another program, would open a second connection to a
peer that is connected but not unchoked (`coordinator.rs:343`); the pool's successful
`ConnectPeer` is not modelled. `DhtNode` leaves out the bootstrap datagrams and the
event for an answer nobody asked for. The three views of the coordinator (`Download`,
`Connections`, `Reputation`) are not composed into one module: their product is out of TLC's
reach. `Connections` leaves out the writer (above) and lets a stream take whatever is written to it.
