----------------------------- MODULE Reputation -----------------------------
(***************************************************************************)
(* What the coordinator (src/src/network/coordinator.rs) knows of its      *)
(* peers, and how that decides whom it asks for pieces: ReputationManager  *)
(* (security/reputation.rs), SwarmIntel (core/swarm.rs) and the time       *)
(* stamps of the requests.                                                 *)
(*                                                                         *)
(* Time passes in units of the stale check's interval, and what the code   *)
(* keeps as an instant is kept here as the time since or until then.       *)
(* Which piece the scheduler picks is the subject of Download; here it is  *)
(* any that is neither completed nor waited for.                           *)
(***************************************************************************)
EXTENDS SlidingWindow, Functions

CONSTANTS
    Peers, Pieces,
    WindowSize, ResponseWindow, \* WINDOW_SIZE, RESPONSE_WINDOW
    TempBan,    \* TEMP_BAN_SECS
    Fast, Slow, \* the speed and the latency with the best and the worst score
    Bytes,      \* the size of a piece
    MinWait, DefaultWait, \* least threshold, and the mean taken for a new peer
    MaxAge,     \* bound on how long a request waits
    Corrupt,    \* peers whose pieces may fail their verification
    MaxBad      \* bound on how many do

ASSUME ConstantsAssumption ==
    /\ IsFiniteSet(Peers) /\ IsFiniteSet(Pieces) /\ Corrupt \subseteq Peers
    /\ {WindowSize, ResponseWindow, TempBan, Fast, Slow, Bytes, MaxAge} \subseteq Nat \ {0}
    /\ {MinWait, DefaultWait, MaxBad} \subseteq Nat
    \* Whole speeds, so that no median is rounded.
    /\ \A age \in 1 .. MaxAge : Bytes % age = 0

VARIABLES
    rep,        \* the entries of the ReputationManager
    times,      \* peer_response_times of SwarmIntel
    stamps,     \* request_timestamps: piece -> the peer asked, and how long ago
    unchoked,   \* unchoked_peers
    conn,       \* conn[p]: "up", "dropped" after DisconnectPeer, "gone"
    completed,  \* completed_pieces
    \* What the properties speak of; the code does not keep it:
    outcomes    \* outcomes[p]: what p's requests came to since it has an entry

vars == <<rep, times, stamps, unchoked, conn, completed, outcomes>>

None == -1      \* no banned_until
Bad == -1       \* the outcome of a piece that fails its verification

NewEntry ==     \* PeerReputation::new
    [speed |-> NewWindow(WindowSize), reliability |-> NewWindow(WindowSize),
     latency |-> NewWindow(WindowSize), strikes |-> 0, until |-> None, session |-> FALSE]

NoEntry == [p \in {} |-> NewEntry]

Entry(p) == IF p \in DOMAIN rep THEN rep[p] ELSE NewEntry

With(f, x, y) == [z \in DOMAIN f \cup {x} |-> IF z = x THEN y ELSE f[z]]
Without(f, X) == Restrict(f, DOMAIN f \ X)

----------------------------------------------------------------------------
(* ReputationManager *)

\* record_success: an answer within a millisecond has no speed.
AfterSuccess(p, age) ==
    LET e == Entry(p)
        timed == IF age = 0 THEN e
                 ELSE [e EXCEPT !.speed = Push(@, Bytes \div age), !.latency = Push(@, age)]
    IN  With(rep, p, [timed EXCEPT !.reliability = Push(@, 1)])

\* record_failure, of a piece that fails its verification.
AfterBadHash(p) ==
    LET e == Entry(p) IN
    With(rep, p, [e EXCEPT
        !.reliability = Push(@, 0),
        !.strikes = @ + 1,
        !.until = IF e.strikes + 1 = 3 THEN TempBan ELSE @,
        !.session = @ \/ e.strikes + 1 >= 4])

\* A seeded defect for the checks: the temporary ban is looked at first.
IsBannedTempFirst(p) ==
    IF Entry(p).until # None THEN Entry(p).until > 0 ELSE Entry(p).session

IsBanned(p) == Entry(p).session \/ Entry(p).until > 0

LeastOf(a, b) == IF a < b THEN a ELSE b

\* composite_score, as a numerator and a denominator.
Score(p) ==
    LET e == Entry(p)
        speed == IF e.speed.count = 0 THEN Fast ELSE LeastOf(TwiceMedian(e.speed), 2 * Fast)
        latency == IF e.latency.count = 0 THEN Slow
                   ELSE 2 * Slow - LeastOf(TwiceMedian(e.latency), 2 * Slow)
        good == IF e.reliability.count = 0 THEN 1 ELSE Total(Live(e.reliability))
        all == IF e.reliability.count = 0 THEN 2 ELSE e.reliability.count
    IN  IF e.session THEN <<0, 1>>
        ELSE <<5 * speed * all * 2 * Slow + 3 * good * 4 * Fast * Slow + 2 * latency * all * 2 * Fast,
               40 * Fast * Slow * all>>

AtLeast(x, y) == x[1] * y[2] >= y[1] * x[2]

\* Whom rank_peers may put first, and pick_best_peer picks.
Best(candidates) ==
    LET able == {p \in candidates : ~IsBanned(p)} IN
    {p \in able : \A q \in able : AtLeast(Score(p), Score(q))}

----------------------------------------------------------------------------
(* SwarmIntel *)

AfterResponse(p, age) ==
    With(times, p, Push(IF p \in DOMAIN times THEN times[p] ELSE NewWindow(ResponseWindow), age))

Speed(p) == TwiceMedian(Entry(p).speed)

Measured == {p \in DOMAIN times : Speed(p) > 0}

\* A seeded defect for the checks: the rank counts the peers that are faster.
RankFromTop(p) == Cardinality({q \in Measured : Speed(q) > Speed(p)})

\* How many peers are slower; without a peer as fast, none is.
Rank(p) ==
    IF \A q \in Measured : Speed(q) < Speed(p) THEN 0
    ELSE Cardinality({q \in Measured : Speed(q) < Speed(p)})

DepthOf(rank, n) == IF 4 * rank >= 3 * n THEN 8 ELSE IF 4 * rank <= n THEN 2 ELSE 5

\* pipeline_depth, the override of the strikes first.
PipelineDepth(p) ==
    CASE Entry(p).strikes = 2 -> 1
      [] Entry(p).strikes > 2 -> 0
      [] OTHER -> IF Speed(p) = 0 \/ Measured = {} THEN 5
                  ELSE DepthOf(Rank(p), Cardinality(Measured))

\* stale_requests: longer than twice the mean of the peer's answers.
Stale(i) ==
    LET p == stamps[i].peer
        w == times[p]
        age == stamps[i].age
    IN  /\ age > MinWait
        /\ IF p \in DOMAIN times THEN age * w.count > 2 * Total(Live(w)) ELSE age > 2 * DefaultWait

----------------------------------------------------------------------------
(* The coordinator *)

Init ==
    /\ rep = NoEntry /\ times = NoEntry
    /\ stamps = [i \in {} |-> [peer |-> {}, age |-> 0]]
    /\ unchoked = {} /\ conn = [p \in Peers |-> "up"]
    /\ completed = {}
    /\ outcomes = [p \in Peers |-> <<>>]

Asked(p) == [peer |-> p, age |-> 0]

\* request_pieces, after the step's changes: as many as the depth says, or one in
\* endgame, and as there are.
RequestPieces(p, waiting) ==
    IF IsBanned(p)' THEN stamps' = waiting
    ELSE \E max \in {1, PipelineDepth(p)'} :
         \E picked \in SUBSET (Pieces \ (completed' \cup DOMAIN waiting)) :
            /\ Cardinality(picked) =
                    LeastOf(max, Cardinality(Pieces \ (completed' \cup DOMAIN waiting)))
            /\ stamps' = [i \in DOMAIN waiting \cup picked |->
                                IF i \in picked THEN Asked(p) ELSE waiting[i]]

Unchoked(p) ==
    /\ conn[p] # "gone"
    /\ unchoked' = unchoked \cup {p}
    /\ UNCHANGED <<rep, times, conn, completed, outcomes>>
    /\ RequestPieces(p, stamps)

Choked(p) ==
    /\ conn[p] # "gone"
    /\ unchoked' = unchoked \ {p}
    /\ UNCHANGED <<rep, times, stamps, conn, completed, outcomes>>

\* A piece that verifies: who was asked last is credited.
PieceVerified(p, i) ==
    /\ conn[p] # "gone" /\ i \notin completed
    /\ completed' = completed \cup {i}
    /\ IF i \in DOMAIN stamps
       THEN LET asked == stamps[i].peer
                age == stamps[i].age
            IN  /\ rep' = AfterSuccess(asked, age)
                /\ times' = AfterResponse(asked, age)
                /\ outcomes' = [outcomes EXCEPT ![asked] = Append(@, age)]
       ELSE UNCHANGED <<rep, times, outcomes>>
    /\ UNCHANGED <<unchoked, conn>>
    /\ IF p \in unchoked THEN RequestPieces(p, Without(stamps, {i}))
       ELSE stamps' = Without(stamps, {i})

Fails(p) == {k \in DOMAIN outcomes[p] : outcomes[p][k] = Bad}

BadSoFar == MapThenSumSet(LAMBDA p : Cardinality(Fails(p)), Peers)

\* One that does not: who sent it gets a strike and is dropped once it is banned.
PieceFailed(p, i) ==
    /\ conn[p] # "gone" /\ i \notin completed
    /\ p \in Corrupt /\ BadSoFar < MaxBad
    /\ rep' = AfterBadHash(p)
    /\ outcomes' = [outcomes EXCEPT ![p] = Append(@, Bad)]
    /\ unchoked' = IF IsBanned(p)' THEN unchoked \ {p} ELSE unchoked
    /\ conn' = IF IsBanned(p)' THEN [conn EXCEPT ![p] = "dropped"] ELSE conn
    /\ UNCHANGED <<times, completed>>
    /\ IF p \in unchoked' THEN RequestPieces(p, Without(stamps, {i}))
       ELSE stamps' = Without(stamps, {i})

PeerDisconnected(p) ==
    /\ conn[p] # "gone"
    /\ conn' = [conn EXCEPT ![p] = "gone"]
    /\ unchoked' = unchoked \ {p}
    /\ rep' = Without(rep, {p})
    /\ times' = Without(times, {p})
    /\ stamps' = Restrict(stamps, {i \in DOMAIN stamps : stamps[i].peer # p})
    /\ outcomes' = [outcomes EXCEPT ![p] = <<>>]
    /\ UNCHANGED completed

\* The stale check: the best of the others is asked, or nobody.
StaleCheck ==
    LET stale == {i \in DOMAIN stamps : Stale(i)}
        best(i) == Best(unchoked \ {stamps[i].peer})
        again == {i \in stale : best(i) # {}}
    IN  /\ stale # {}
        /\ \E pick \in [again -> unchoked] :
            /\ \A i \in again : pick[i] \in best(i)
            /\ stamps' = [i \in DOMAIN stamps \ (stale \ again) |->
                                IF i \in again THEN Asked(pick[i]) ELSE stamps[i]]
        /\ UNCHANGED <<rep, times, unchoked, conn, completed, outcomes>>

\* Half a second passes.
Tick ==
    /\ \A i \in DOMAIN stamps : stamps[i].age < MaxAge
    /\ stamps' = [i \in DOMAIN stamps |-> [stamps[i] EXCEPT !.age = @ + 1]]
    /\ rep' = [p \in DOMAIN rep |-> [rep[p] EXCEPT !.until = IF @ > 0 THEN @ - 1 ELSE @]]
    /\ UNCHANGED <<times, unchoked, conn, completed, outcomes>>

Next ==
    \/ \E p \in Peers :
        \/ Unchoked(p) \/ Choked(p) \/ PeerDisconnected(p)
        \/ \E i \in Pieces : PieceVerified(p, i) \/ PieceFailed(p, i)
    \/ StaleCheck \/ Tick

Spec == Init /\ [][Next]_vars

----------------------------------------------------------------------------
(* Properties *)

\* The last n of a set of positions, or all of them.
Recent(S, n) == {j \in S : Cardinality({k \in S : k > j}) < n}

\* The slots that the statistics read are, in some order, the last values of a history.
Keeps(w, history) ==
    \E place \in Bijection(0 .. w.count - 1, Recent(DOMAIN history, Capacity(w))) :
        \A slot \in 0 .. w.count - 1 : w.values[slot] = history[place[slot]]

\* What the outcomes s of a peer are in the windows, by their positions.
Answers(s) == {k \in DOMAIN s : s[k] # Bad}
Timed(s) == {k \in Answers(s) : s[k] > 0}
Responses(s) == [k \in Answers(s) |-> s[k]]
Latencies(s) == [k \in Timed(s) |-> s[k]]
Speeds(s) == [k \in Timed(s) |-> Bytes \div s[k]]
Verdicts(s) == [k \in DOMAIN s |-> IF s[k] = Bad THEN 0 ELSE 1]

\* The slots the statistics read hold what was pushed last, as often as it was, whatever the
\* cursor did (sliding_window.rs:18): of every answer in the response times, of those that
\* took a time in the speeds and latencies, of every outcome in the reliability.
WindowsKeepLast ==
    \A p \in Peers :
        /\ p \in DOMAIN rep =>
            /\ Keeps(rep[p].latency, Latencies(outcomes[p]))
            /\ Keeps(rep[p].speed, Speeds(outcomes[p]))
            /\ Keeps(rep[p].reliability, Verdicts(outcomes[p]))
        /\ p \in DOMAIN times => Keeps(times[p], Responses(outcomes[p]))
        /\ outcomes[p] # <<>> => p \in DOMAIN rep

\* Of two peers that have been measured and have at most one strike, the faster is asked for
\* no fewer pieces at a time (swarm.rs:46).
DepthFollowsSpeed ==
    \A p, q \in Measured :
        Speed(p) >= Speed(q) /\ Entry(p).strikes < 2 /\ Entry(q).strikes < 2 =>
            PipelineDepth(p) >= PipelineDepth(q)

\* No request waits for a peer of whom four pieces have failed before it leaves: not when
\* the temporary ban of the third has run out, nor when it unchokes us, nor a request that
\* someone else left (reputation.rs:99, coordinator.rs:184).  The requests of the endgame,
\* that nobody waits for, do not look at the bans.
BlacklistHolds ==
    [][\A i \in DOMAIN stamps' :
        (i \notin DOMAIN stamps \/ stamps'[i].peer # stamps[i].peer \/ stamps'[i].age < stamps[i].age)
            => Cardinality(Fails(stamps'[i].peer)) < 4 ]_vars
=============================================================================
