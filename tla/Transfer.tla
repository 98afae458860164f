------------------------------ MODULE Transfer ------------------------------
(***************************************************************************)
(* The download from a single peer: Leecher::download                      *)
(* (src/src/network/leecher.rs) over one connection to the handle_peer     *)
(* task of a Seeder (seeder.rs), both through PeerConnection (peer.rs).    *)
(* A handler runs from one recv to the next in one step: no one but the    *)
(* other end of the connection could see it half done, and it sees only    *)
(* the messages, which a failing connection cuts short anywhere: they form *)
(* the channel that Wire is shown to be.                                   *)
(***************************************************************************)
EXTENDS Storage

CONSTANTS
    Files,      \* contents of files that are seeded
    Count       \* pieces of each of them

\* A tree repeats its last leaf up to a power of two, so that a file may have
\* the hash of another that ends with a repetition; such files are left out.
ASSUME ConstantsAssumption ==
    /\ PieceSize \in Nat \ {0} /\ Count \in Nat \ {0}
    /\ Files \subseteq Seq(Nat)
    /\ \A f \in Files : PieceCount(f) = Count
    /\ \A f, g \in Files : InfoHash(f) = InfoHash(g) => f = g

VARIABLES
    want,       \* info_hash of the leecher
    have,       \* the seeder's file
    at,         \* at[e]: what end e of the connection waits for or does
    state,      \* state[e]: ConnectionState of e's PeerConnection
    inbox,      \* inbox[e]: messages under way to e
    up,         \* whether the connection has not failed
    count,      \* the leecher's piece_count
    pieces,     \* its pieces, in the order they were received
    file,       \* the bytes written to output_path
    outcome,    \* what download() has returned
    trouble     \* whether connection, bytes or disk failed; not in the code

wire == <<inbox, up>>
disk == <<file, outcome>>
torrent == <<want, have, count>>
vars == <<torrent, at, state, wire, pieces, disk, trouble>>

Ends == {"leecher", "seeder"}
Other(e) == IF e = "leecher" THEN "seeder" ELSE "leecher"

Handshake(hash) == [type |-> "Handshake", hash |-> hash]
Plain(type) == [type |-> type]
Request(i) == [type |-> "Request", index |-> i]
Have(i) == [type |-> "Have", index |-> i]
BitfieldOf(bits) == [type |-> "Bitfield", bits |-> bits]
Piece(i, data, proof) == [type |-> "Piece", index |-> i, data |-> data, proof |-> proof]

Init ==
    /\ want \in {InfoHash(f) : f \in Files} /\ have \in Files
    /\ count = 0
    /\ at = [leecher |-> "connect", seeder |-> "handshake"]
    /\ state = [e \in Ends |-> "Handshaking"]
    /\ inbox = [e \in Ends |-> <<>>]
    /\ up = TRUE
    /\ pieces = <<>> /\ file = <<>>
    /\ outcome = "pending"
    /\ trouble = FALSE

----------------------------------------------------------------------------
(* PeerConnection *)

Intact(e) == up /\ at[Other(e)] # "over"

\* End e sends the messages; nobody receives them on a broken connection.
Sends(e, messages) ==
    inbox' = [inbox EXCEPT ![Other(e)] = IF Intact(e) THEN @ \o messages ELSE @]

\* End e takes m out of its inbox and sends the messages.
Exchanges(e, m, messages) ==
    /\ inbox[e] # <<>> /\ m = Head(inbox[e])
    /\ inbox' = [inbox EXCEPT
            ![e] = Tail(@),
            ![Other(e)] = IF Intact(e) THEN @ \o messages ELSE @]

Moves(e, there) == at' = [at EXCEPT ![e] = there]

\* ConnectionState::transition, for the event HandshakeComplete.
HandshakeComplete(e) ==
    /\ state[e] = "Handshaking"
    /\ state' = [state EXCEPT ![e] = "Choked"]

\* End e returns and drops its connection with what it had not read.
Drops(e) ==
    /\ Moves(e, "over")
    /\ inbox' = [inbox EXCEPT ![e] = <<>>]
    /\ UNCHANGED <<torrent, state, up, pieces, file>>

----------------------------------------------------------------------------
(* Leecher::download *)

\* What the ? operators and the comparisons of download() let pass.
Acceptable(m) ==
    \/ at["leecher"] = "handshake" /\ m.type = "Handshake" /\ m.hash = want
    \/ at["leecher"] = "bitfield" /\ m.type = "Bitfield"
    \/ at["leecher"] = "unchoke" /\ m.type = "Unchoke"
    \/ /\ at["leecher"] = "piece" /\ m.type = "Piece"
       /\ Verify(want, LeafHash(m.data), m.proof)

Waits == at["leecher"] \in {"handshake", "bitfield", "unchoke", "piece"}

Connect ==
    /\ at["leecher"] = "connect"
    /\ Sends("leecher", <<Handshake(want)>>)
    /\ Moves("leecher", "handshake")
    /\ UNCHANGED <<torrent, state, up, pieces, disk, trouble>>

OnHandshake(m) ==
    /\ at["leecher"] = "handshake" /\ Acceptable(m)
    /\ Exchanges("leecher", m, <<>>)
    /\ HandshakeComplete("leecher")
    /\ Moves("leecher", "bitfield")
    /\ UNCHANGED <<torrent, up, pieces, disk, trouble>>

\* Our bitfield: as long as theirs, and empty.
Cleared(m) == BitfieldOf([k \in DOMAIN m.bits |-> FALSE])

\* A seeded defect for the checks: the peer is not told of the interest.
OnBitfieldSilently(m) ==
    /\ at["leecher"] = "bitfield" /\ Acceptable(m)
    /\ Exchanges("leecher", m, <<Cleared(m)>>)
    /\ count' = CountOnes(m.bits)
    /\ Moves("leecher", "unchoke")
    /\ UNCHANGED <<want, have, state, up, pieces, disk, trouble>>

OnBitfield(m) ==
    /\ at["leecher"] = "bitfield" /\ Acceptable(m)
    /\ Exchanges("leecher", m, <<Cleared(m), Plain("Interested")>>)
    /\ count' = CountOnes(m.bits)
    /\ Moves("leecher", "unchoke")
    /\ UNCHANGED <<want, have, state, up, pieces, disk, trouble>>

OnUnchoke(m) ==
    /\ at["leecher"] = "unchoke" /\ Acceptable(m)
    /\ Exchanges("leecher", m, <<Request(0)>>)
    /\ Moves("leecher", "piece")
    /\ UNCHANGED <<torrent, state, up, pieces, disk, trouble>>

\* A seeded defect for the checks: the download ends one piece early.
LastPieceEarly(received) == Len(received) >= count - 1

\* The end of the loop over the pieces.
LastPiece(received) == Len(received) = count

OnPiece(m) ==
    /\ at["leecher"] = "piece" /\ Acceptable(m)
    /\ pieces' = Append(pieces, [index |-> m.index, data |-> m.data])
    /\ IF LastPiece(pieces')
       THEN Exchanges("leecher", m, <<Have(m.index)>>) /\ Moves("leecher", "write")
       ELSE /\ Exchanges("leecher", m, <<Have(m.index), Request(Len(pieces'))>>)
            /\ UNCHANGED at
    /\ UNCHANGED <<torrent, state, up, disk, trouble>>

\* Any other message ends the download: the wrong type, the wrong torrent, or
\* a piece that fails MerkleTree::verify.
Refuse ==
    /\ Waits
    /\ inbox["leecher"] # <<>> /\ ~Acceptable(Head(inbox["leecher"]))
    /\ outcome' = "failed"
    /\ Drops("leecher")
    /\ UNCHANGED trouble

\* connect, send or recv fails on a broken connection.
LoseSeeder ==
    /\ Waits \/ at["leecher"] = "connect"
    /\ ~Intact("leecher")
    /\ outcome' = "failed"
    /\ Drops("leecher")
    /\ UNCHANGED trouble

\* sort_by_key on the index: how many come before a position, itself included.
Place(received, j) ==
    Cardinality({i \in DOMAIN received :
        \/ received[i].index < received[j].index
        \/ received[i].index = received[j].index /\ i <= j})

\* The bytes of the pieces sorted by index.
Joined(received) ==
    LET next(k) == received[CHOOSE j \in DOMAIN received : Place(received, j) = k]
        bytes[k \in 0 .. Len(received)] == IF k = 0 THEN <<>> ELSE bytes[k - 1] \o next(k).data
    IN  bytes[Len(received)]

\* The pieces are sorted by index and written at once, or the write fails.
WriteFile ==
    /\ at["leecher"] = "write"
    /\ file' = Joined(pieces)
    /\ Moves("leecher", "return")
    /\ UNCHANGED <<torrent, state, wire, pieces, outcome, trouble>>

WriteFails ==
    /\ at["leecher"] = "write"
    /\ outcome' = "failed"
    /\ trouble' = TRUE
    /\ Drops("leecher")

Return ==
    /\ at["leecher"] = "return"
    /\ outcome' = "ok"
    /\ Drops("leecher")
    /\ UNCHANGED trouble

LeecherStep ==
    \/ Connect
    \/ inbox["leecher"] # <<>> /\
         LET m == Head(inbox["leecher"])
         IN  OnHandshake(m) \/ OnBitfield(m) \/ OnUnchoke(m) \/ OnPiece(m)
    \/ Refuse \/ LoseSeeder
    \/ WriteFile \/ WriteFails \/ Return

----------------------------------------------------------------------------
(* handle_peer *)

\* A seeded defect for the checks: any torrent is served as ours.
WelcomeAny(m) == m.type = "Handshake"

\* The handshakes accept_handshake accepts.
Welcome(m) == m.type = "Handshake" /\ m.hash = InfoHash(have)

OnHello(m) ==
    /\ at["seeder"] = "handshake" /\ Welcome(m)
    /\ Exchanges("seeder", m, <<Handshake(InfoHash(have)), BitfieldOf(Bitfield(have))>>)
    /\ HandshakeComplete("seeder")
    /\ Moves("seeder", "bitfield")
    /\ UNCHANGED <<torrent, up, pieces, disk, trouble>>

TurnAway(m) ==
    /\ at["seeder"] = "handshake" /\ ~Welcome(m)
    /\ m = Head(inbox["seeder"])
    /\ Drops("seeder")
    /\ UNCHANGED <<outcome, trouble>>

\* Whatever comes first counts as the bitfield.
OnTheirBitfield(m) ==
    /\ at["seeder"] = "bitfield"
    /\ Exchanges("seeder", m, <<>>)
    /\ Moves("seeder", "interested")
    /\ UNCHANGED <<torrent, state, up, pieces, disk, trouble>>

OnInterested(m) ==
    /\ at["seeder"] = "interested" /\ m.type = "Interested"
    /\ Exchanges("seeder", m, <<Plain("Unchoke")>>)
    /\ Moves("seeder", "serve")
    /\ UNCHANGED <<torrent, state, up, pieces, disk, trouble>>

Served(i) == Piece(i, ReadPiece(have, i), Proof(Leaves(have), i))

\* A seeded defect for the checks: the next piece is sent along.
AnswersAhead(m) ==
    IF m.index + 1 < PieceCount(have) THEN <<Served(m.index), Served(m.index + 1)>>
    ELSE <<Served(m.index)>>

\* The piece and its proof, from the store and the tree made at the start.
Answers(m) == <<Served(m.index)>>

OnRequest(m) ==
    /\ at["seeder"] = "serve" /\ m.type = "Request"
    /\ Exchanges("seeder", m, Answers(m))
    /\ UNCHANGED <<torrent, at, state, up, pieces, disk, trouble>>

\* The arms that continue: anything before Interested, a Have later.
Ignore(m) ==
    /\ at["seeder"] \in {"interested", "serve"}
    /\ m.type # (IF at["seeder"] = "serve" THEN "Request" ELSE "Interested")
    /\ Exchanges("seeder", m, <<>>)
    /\ UNCHANGED <<torrent, at, state, up, pieces, disk, trouble>>

LoseLeecher ==
    /\ at["seeder"] # "over"
    /\ ~Intact("seeder")
    /\ Drops("seeder")
    /\ UNCHANGED <<outcome, trouble>>

SeederStep ==
    \/ inbox["seeder"] # <<>> /\
         LET m == Head(inbox["seeder"])
         IN  \/ OnHello(m) \/ TurnAway(m) \/ OnTheirBitfield(m)
             \/ OnInterested(m) \/ OnRequest(m) \/ Ignore(m)
    \/ LoseLeecher

----------------------------------------------------------------------------
(* The network *)

\* The connection fails; each end may still read a part of what was sent.
Break ==
    /\ up /\ outcome = "pending"
    /\ up' = FALSE
    /\ trouble' = TRUE
    /\ inbox' \in {[leecher |-> l, seeder |-> s] :
            l \in Prefixes(inbox["leecher"]), s \in Prefixes(inbox["seeder"])}
    /\ UNCHANGED <<torrent, at, state, pieces, disk>>

\* A byte of a piece is not the one the seeder's tree was built from.
Damage ==
    /\ \E k \in DOMAIN inbox["leecher"] :
        /\ inbox["leecher"][k].type = "Piece"
        /\ inbox' = [inbox EXCEPT !["leecher"][k].data[1] = 0]
        /\ inbox' # inbox
    /\ trouble' = TRUE
    /\ UNCHANGED <<torrent, at, state, up, pieces, disk>>

Over == \A e \in Ends : at[e] = "over"

Next ==
    \/ LeecherStep
    \/ SeederStep
    \/ Break
    \/ Damage
    \/ Over /\ UNCHANGED vars

Spec == Init /\ [][Next]_vars

\* Both tasks are run, and a broken connection is noticed by whoever uses it.
FairSpec == Spec /\ WF_vars(LeecherStep) /\ WF_vars(SeederStep)

----------------------------------------------------------------------------
(* Properties *)

InTransit == {m \in ToSet(inbox["leecher"]) \cup ToSet(inbox["seeder"]) :
                m.type \in {"Request", "Piece"}}

\* One piece at a time: what is under way between the ends, in one direction
\* or the other, is the request the leecher waits on or its answer, and as
\* long as the connection lives it is not lost.
InStep ==
    /\ \A m \in InTransit : at["leecher"] = "piece" => m.index = Len(pieces)
    /\ at["leecher"] = "piece" /\ Intact("leecher") => InTransit # {}
    /\ at["leecher"] \in {"write", "return"} => InTransit = {}

\* An end that completed its handshake talks to a peer with the same torrent,
\* and nothing but a handshake is ever sent to another one.
SameTorrent ==
    want # InfoHash(have) =>
        /\ \A e \in Ends : state[e] = "Handshaking"
        /\ \A e \in Ends : \A m \in ToSet(inbox[e]) : m.type = "Handshake"
        /\ pieces = <<>> /\ outcome # "ok"

\* download() keeps the promise of every download: it returns Ok only with
\* every byte of the seeder's file at its place, although no piece is checked
\* against the index it was asked for.
Promise == INSTANCE Delivery WITH
    Pieces <- 0 .. Count - 1,
    accepted <- {m.index : m \in ToSet(pieces)},
    stored <- {i \in 0 .. Count - 1 : file # <<>> /\ ReadPiece(file, i) = ReadPiece(have, i)},
    outcome <- outcome
DeliverySpec == Promise!Spec

\* Neither end waits for the other forever, and a download of the seeder's own
\* torrent succeeds unless connection, bytes or disk fail.
EndsWell == <>(Over /\ (outcome = "ok" \/ trouble \/ want # InfoHash(have)))
=============================================================================
