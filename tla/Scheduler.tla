----------------------------- MODULE Scheduler -----------------------------
(***************************************************************************)
(* The piece scheduler of a download (src/src/core/scheduler.rs): which    *)
(* pieces we have, which connected peer holds which piece, which piece has *)
(* been asked of which peer, and how rare each piece is.  Every method     *)
(* that changes the struct is one action; the scheduler is a plain object  *)
(* without threads, so each call is atomic.                                *)
(*                                                                         *)
(* A caller registers a peer once per connection (contract of Register,    *)
(* below) and completes a piece at most once.                              *)
(***************************************************************************)
EXTENDS Integers, FiniteSets, Functions

CONSTANTS
    Peers,      \* ids of the peers that may connect
    Pieces      \* the piece indices 0 .. piece_count - 1

ASSUME PeersAssumption == IsFiniteSet(Peers)

VARIABLES
    have,       \* our_bitfield: the set of completed pieces
    holds,      \* peer_bitfields: registered peer -> set of pieces it has
    inFlight,   \* in_flight: piece -> the peer it was asked of
    rarity,     \* piece_rarity: cached number of holders of each piece
    endgame     \* the sticky endgame flag

vars == <<have, holds, inFlight, rarity, endgame>>

\* HashMap insert: f with v at k, over any former value.
Insert(f, k, v) == [x \in DOMAIN f \cup {k} |-> IF x = k THEN v ELSE f[x]]

----------------------------------------------------------------------------
(* Queries: they change nothing. *)

Registered == DOMAIN holds
Missing == Pieces \ have
IsComplete == Missing = {}

\* peers_with_piece
Holders(i) == {p \in Registered : i \in holds[p]}

\* A seeded defect for the checks: a piece in flight is still a candidate.
CandidatesIgnoringFlight(p) == holds[p] \cap Missing

\* The filter of pick_piece.
Candidates(p) ==
    {i \in holds[p] \cap Missing : endgame \/ i \notin DOMAIN inFlight}

\* A seeded defect for the checks: ties and order of rarity are ignored.
AnyCandidate(p) == Candidates(p)

\* The pieces pick_piece draws from: the candidates of least cached rarity.
Rarest(p) ==
    {i \in Candidates(p) : \A j \in Candidates(p) : rarity[i] <= rarity[j]}

CanPick(p) == p \in Registered /\ Candidates(p) # {}

\* endgame_requests, as pairs of a missing piece and a holder of it.
EndgameRequests ==
    IF endgame THEN {r \in Missing \X Registered : r[1] \in holds[r[2]]} ELSE {}

----------------------------------------------------------------------------
(* check_endgame, evaluated on the values the calling method leaves. *)

\* A seeded defect for the checks: no test that a piece is missing.
CheckEndgameNoMissing ==
    endgame' = (endgame \/ Pieces \ have' \subseteq DOMAIN inFlight')

CheckEndgame ==
    LET missing == Pieces \ have'
    IN  endgame' = (endgame \/ (missing # {} /\ missing \subseteq DOMAIN inFlight'))

----------------------------------------------------------------------------
Init ==
    /\ have = {}
    /\ holds = [p \in {} |-> {}]
    /\ inFlight = [i \in {} |-> {}]
    /\ rarity = [i \in Pieces |-> 0]
    /\ endgame = FALSE

\* register_peer: counts the bitfield and stores it over any former one; the
\* former one, if any, is not discounted.
RegisterPeer(p, bitfield) ==
    /\ rarity' = [i \in Pieces |-> IF i \in bitfield THEN rarity[i] + 1 ELSE rarity[i]]
    /\ holds' = Insert(holds, p, bitfield)
    /\ UNCHANGED <<have, inFlight, endgame>>

\* The counters after p's bitfield, if it is registered, is discounted.
Discounted(p) ==
    [i \in Pieces |->
        IF p \in Registered /\ i \in holds[p] /\ rarity[i] > 0
        THEN rarity[i] - 1 ELSE rarity[i]]

\* Seeded defects for the checks: rarity left behind; requests left behind.
UnregisterPeerKeepingRarity(p) ==
    /\ holds' = Restrict(holds, Registered \ {p})
    /\ inFlight' = Restrict(inFlight, {i \in DOMAIN inFlight : inFlight[i] # p})
    /\ UNCHANGED <<have, rarity, endgame>>
UnregisterPeerKeepingRequests(p) ==
    /\ rarity' = Discounted(p)
    /\ holds' = Restrict(holds, Registered \ {p})
    /\ UNCHANGED <<have, inFlight, endgame>>

\* unregister_peer: also for a peer that never sent its bitfield.
UnregisterPeer(p) ==
    /\ rarity' = Discounted(p)
    /\ holds' = Restrict(holds, Registered \ {p})
    /\ inFlight' = Restrict(inFlight, {i \in DOMAIN inFlight : inFlight[i] # p})
    /\ UNCHANGED <<have, endgame>>

\* peer_has_piece: a Have of an unknown peer or of a known piece is ignored.
PeerHasPiece(p, i) ==
    /\ IF p \in Registered /\ i \notin holds[p]
       THEN /\ holds' = [holds EXCEPT ![p] = @ \cup {i}]
            /\ rarity' = [rarity EXCEPT ![i] = @ + 1]
       ELSE UNCHANGED <<holds, rarity>>
    /\ UNCHANGED <<have, inFlight, endgame>>

\* pick_piece, when it returns piece i; it changes nothing when it returns None.
PickPiece(p, i) ==
    /\ p \in Registered
    /\ i \in Rarest(p)
    /\ UNCHANGED <<have, holds, rarity>>
    /\ IF endgame
       THEN UNCHANGED <<inFlight, endgame>>
       ELSE inFlight' = Insert(inFlight, i, p) /\ CheckEndgame

\* A seeded defect for the checks: the endgame test is forgotten.
PieceCompletedUnchecked(i) ==
    /\ have' = have \cup {i}
    /\ inFlight' = Restrict(inFlight, DOMAIN inFlight \ {i})
    /\ UNCHANGED <<holds, rarity, endgame>>

\* piece_completed
PieceCompleted(i) ==
    /\ have' = have \cup {i}
    /\ inFlight' = Restrict(inFlight, DOMAIN inFlight \ {i})
    /\ CheckEndgame
    /\ UNCHANGED <<holds, rarity>>

\* piece_failed
PieceFailed(i) ==
    /\ inFlight' = Restrict(inFlight, DOMAIN inFlight \ {i})
    /\ UNCHANGED <<have, holds, rarity, endgame>>

----------------------------------------------------------------------------
(* The scheduler under any caller that keeps the contract: a peer is       *)
(* registered only while it is not, and pieces completed or failed are     *)
(* missing ones.  Nothing ties a completion to the peer it was asked of.   *)

Register ==
    \E p \in Peers \ Registered, bitfield \in SUBSET Pieces : RegisterPeer(p, bitfield)
Unregister == \E p \in Peers : UnregisterPeer(p)
Announce == \E p \in Peers, i \in Pieces : PeerHasPiece(p, i)
Pick == \E p \in Peers, i \in Pieces : PickPiece(p, i)
Complete == \E i \in Missing : PieceCompleted(i)
Fail == \E i \in Missing : PieceFailed(i)

Next == Register \/ Unregister \/ Announce \/ Pick \/ Complete \/ Fail

Spec == Init /\ [][Next]_vars

----------------------------------------------------------------------------
(* Properties *)

\* The types of the five fields of struct Scheduler.
TypeOK ==
    /\ have \subseteq Pieces
    /\ DOMAIN holds \subseteq Peers
    /\ holds \in [DOMAIN holds -> SUBSET Pieces]
    /\ DOMAIN inFlight \subseteq Pieces
    /\ inFlight \in [DOMAIN inFlight -> Peers]
    /\ rarity \in [Pieces -> Nat]
    /\ endgame \in BOOLEAN

\* The incrementally maintained piece_rarity is always the number of
\* registered peers that hold the piece, through every register, have and
\* unregister; in particular the saturating subtraction never saturates.
RarityIsHolderCount == \A i \in Pieces : rarity[i] = Cardinality(Holders(i))

\* A piece is in flight only while it is missing, and only with a peer that
\* is still registered and holds it: completions, failures and departures
\* leave no stale entry that would keep pick_piece from offering the piece.
InFlightSound ==
    \A i \in DOMAIN inFlight :
        i \in Missing /\ inFlight[i] \in Registered /\ i \in holds[inFlight[i]]

\* check_endgame is called wherever its answer could turn to yes: outside
\* endgame some missing piece is always unassigned, so that a peer holding
\* every missing piece can never be told there is nothing to pick.
EndgameDetected == ~endgame /\ Missing # {} => ~(Missing \subseteq DOMAIN inFlight)

\* Before endgame a piece in flight keeps its peer until it is completed,
\* failed or its peer leaves: no piece is assigned to two peers at once.
NoReassignment ==
    [][\A i \in DOMAIN inFlight \cap DOMAIN inFlight' : inFlight'[i] = inFlight[i]]_vars

\* Endgame begins only when every missing piece is assigned to a registered
\* peer that holds it, and never after the last piece, whichever of
\* pick_piece and piece_completed detects it.
EndgameEntry ==
    [][~endgame /\ endgame' =>
        /\ Pieces \ have' # {}
        /\ \A i \in Pieces \ have' :
               i \in DOMAIN inFlight' /\ i \in holds'[inFlight'[i]]]_vars

\* The piece a pick puts in flight has no more real holders than any other
\* unassigned missing piece of that peer: rarest-first by the swarm as it is,
\* not by the cached counter.
RarestFirst ==
    [][\A i \in DOMAIN inFlight' \ DOMAIN inFlight :
           \A j \in holds[inFlight'[i]] \ (have \cup DOMAIN inFlight) :
               Cardinality(Holders(i)) <= Cardinality(Holders(j))]_vars
============================================================================
