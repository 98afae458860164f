------------------------------ MODULE Choking ------------------------------
(***************************************************************************)
(* The tit-for-tat choking manager (src/src/core/choking.rs): which of the *)
(* interested peers are served during the next round.  A caller counts the *)
(* bytes each peer uploads to us, asks for a decision at the end of every  *)
(* round, and removes the peers that leave.                                *)
(***************************************************************************)
EXTENDS Integers, FiniteSets, Functions

CONSTANTS
    Peers,      \* ids of the peers
    Slots,      \* UNCHOKE_SLOTS
    Interval,   \* OPTIMISTIC_INTERVAL_TICKS
    MaxRate,    \* bound on the bytes counted for a peer
    None        \* no optimistic peer

ASSUME SlotsAssumption ==
    /\ IsFiniteSet(Peers)
    /\ Slots \in Nat
    /\ Interval \in Nat \ {0}
    /\ MaxRate \in Nat
    /\ None \notin Peers

VARIABLES
    rates,      \* upload_rates: peer -> bytes since the last decision
    unchoked,   \* the peers unchoked by the last decision
    optimistic, \* optimistic_peer
    tick,       \* tick_count modulo Interval
    \* What the properties compare with; no method reads it:
    served,     \* peers that were told Unchoke and not told Choke since
    recent,     \* bytes each peer has uploaded in the present round
    overdue     \* rounds in a row that left an interested peer choked and
                \* unchoked nobody beyond the fastest

chokingVars == <<rates, unchoked, optimistic, tick, served, recent, overdue>>

ChokingInit ==
    /\ rates = [p \in {} |-> 0]
    /\ unchoked = {}
    /\ optimistic = None
    /\ tick = 0
    /\ served = {}
    /\ recent = [p \in Peers |-> 0]
    /\ overdue = 0

\* update_rate
UpdateRate(p, bytes) ==
    LET former == IF p \in DOMAIN rates THEN rates[p] ELSE 0 IN
    /\ former + bytes <= MaxRate
    /\ rates' = [q \in DOMAIN rates \cup {p} |-> IF q = p THEN former + bytes ELSE rates[q]]
    /\ recent' = [recent EXCEPT ![p] = @ + bytes]
    /\ UNCHANGED <<unchoked, optimistic, tick, served, overdue>>

\* A seeded defect for the checks: the peer stays in the unchoked list.
RemovePeerFromRates(p) ==
    /\ rates' = Restrict(rates, DOMAIN rates \ {p})
    /\ optimistic' = IF optimistic = p THEN None ELSE optimistic
    /\ served' = served \ {p}
    /\ recent' = [recent EXCEPT ![p] = 0]
    /\ UNCHANGED <<unchoked, tick, overdue>>

\* remove_peer; the peer is gone, so it is not told anything.
RemovePeer(p) ==
    /\ rates' = Restrict(rates, DOMAIN rates \ {p})
    /\ unchoked' = unchoked \ {p}
    /\ optimistic' = IF optimistic = p THEN None ELSE optimistic
    /\ served' = served \ {p}
    /\ recent' = [recent EXCEPT ![p] = 0]
    /\ UNCHANGED <<tick, overdue>>

\* The regular slots: the fastest of the interested peers that have a rate,
\* ties broken by the order in which the caller lists them.
Fastest(interested) ==
    LET ranked == interested \cap DOMAIN rates IN
    {top \in SUBSET ranked :
        /\ Cardinality(top) <= Slots
        /\ Cardinality(top) = Slots \/ top = ranked
        /\ \A p \in top, q \in ranked \ top : rates[p] >= rates[q]}

\* A seeded defect for the checks: the optimistic peer is never rotated.
OptimisticWhenNone(choked) ==
    IF optimistic = None /\ choked # {} THEN choked ELSE {optimistic}

\* The optimistic peer after a decision that leaves `choked` without a slot:
\* drawn at random in every Interval-th round or if there is none, or kept.
Optimistic(choked) ==
    IF (tick' = 0 \/ optimistic = None) /\ choked # {} THEN choked ELSE {optimistic}

\* A seeded defect for the checks: the rates add up over the rounds.
RatesKept == rates

\* The rates for the next round; peers are kept.
RatesReset == [p \in DOMAIN rates |-> 0]

\* The peers to serve: the regular slots, and the optimistic one if it is
\* still interested.
Served(top, interested) ==
    top \cup ({optimistic'} \cap interested)

\* decide, with the messages its caller sends: Unchoke to the peers of
\* to_unchoke, Choke to those of to_choke.
Decide(interested) ==
    /\ tick' = (tick + 1) % Interval
    /\ \E top \in Fastest(interested) :
          /\ optimistic' \in Optimistic(interested \ top)
          /\ unchoked' = Served(top, interested)
          /\ overdue' = IF interested # top /\ unchoked' = top THEN overdue + 1 ELSE 0
    /\ served' = (served \ (unchoked \ unchoked')) \cup (unchoked' \ unchoked)
    /\ rates' = RatesReset
    /\ recent' = [p \in Peers |-> 0]

Upload == \E p \in Peers, bytes \in 1 .. MaxRate : UpdateRate(p, bytes)
Depart == \E p \in Peers : RemovePeer(p)
Round == \E interested \in SUBSET Peers : Decide(interested)

ChokingNext == Upload \/ Depart \/ Round

ChokingSpec == ChokingInit /\ [][ChokingNext]_chokingVars

----------------------------------------------------------------------------
(* Properties *)

\* The types of the manager's fields.
TypeOK ==
    /\ DOMAIN rates \subseteq Peers
    /\ rates \in [DOMAIN rates -> Nat]
    /\ unchoked \subseteq Peers
    /\ optimistic \in Peers \cup {None}
    /\ tick \in 0 .. Interval - 1
    /\ served \subseteq Peers
    /\ recent \in [Peers -> Nat]
    /\ overdue \in Nat

\* Each decision is only a difference to the one before; applied one after the
\* other, with peers leaving and coming back in between, the differences leave
\* exactly the peers of the last decision served, and never more than the
\* regular slots and the optimistic one.
ServedAsDecided ==
    /\ served = unchoked
    /\ Cardinality(served) <= Slots + 1

\* A newcomer, which has uploaded nothing, gets its chance: fewer than Interval
\* rounds in a row leave an interested peer choked and serve nobody beyond the
\* fastest, although the optimistic peer may become a fast one, lose interest
\* or leave at any time.
OptimisticInTime == overdue < Interval

\* Tit for tat by what was uploaded in this round, not before: a peer served
\* beside the optimistic one has uploaded at least as much since the last
\* decision as any interested peer with a counter that stays choked.
Reciprocal ==
    [][\A interested \in SUBSET Peers :
          Decide(interested) =>
              \A p \in unchoked' \ {optimistic'} :
                  \A q \in (interested \cap DOMAIN rates) \ unchoked' :
                      recent[p] >= recent[q]]_chokingVars
=============================================================================
