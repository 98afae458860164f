--------------------------- MODULE RankingProofs ---------------------------
(* Proofs about the two that choose by rank: the choking manager, which      *)
(* serves the fastest of its peers, for every finite set of peers and every  *)
(* number of slots and rounds; and the lookup, which asks the closest of the *)
(* nodes it knows, for every DHT, start, answers and limits.                 *)
EXTENDS Choking, Lookup, FiniteSetTheorems, TLAPS

----------------------------------------------------------------------------
(* The choking manager *)
----------------------------------------------------------------------------

\* The counter kept for the properties agrees with upload_rates.
RecentIsRate ==
    \A p \in Peers : recent[p] = IF p \in DOMAIN rates THEN rates[p] ELSE 0

\* What makes OptimisticInTime inductive: an overdue round is never the one in
\* which the optimistic peer is drawn, so overdue rounds are at most the rounds
\* since the last such one.
OverdueWithinTick == overdue <= tick

----------------------------------------------------------------------------
(* Types *)

LEMMA InitType == ChokingInit => TypeOK
  BY SlotsAssumption DEF ChokingInit, TypeOK

LEMMA FastestInterested ==
    ASSUME NEW interested, NEW top \in Fastest(interested)
    PROVE  top \subseteq interested \cap DOMAIN rates /\ Cardinality(top) <= Slots
  BY DEF Fastest

LEMMA NextType == TypeOK /\ [ChokingNext]_chokingVars => TypeOK'
<1> SUFFICES ASSUME TypeOK, [ChokingNext]_chokingVars PROVE TypeOK'
  OBVIOUS
<1> USE SlotsAssumption DEF TypeOK
<1>1. CASE Upload
  <2> PICK p \in Peers, bytes \in 1 .. MaxRate : UpdateRate(p, bytes)
    BY <1>1 DEF Upload
  <2>1. DOMAIN rates' = DOMAIN rates \cup {p} /\ rates' \in [DOMAIN rates' -> Nat]
    BY DEF UpdateRate
  <2>2. recent' \in [Peers -> Nat]
    BY DEF UpdateRate
  <2> QED
    BY <2>1, <2>2 DEF UpdateRate
<1>2. CASE Depart
  <2> PICK p \in Peers : RemovePeer(p)
    BY <1>2 DEF Depart
  <2>1. DOMAIN rates' \subseteq DOMAIN rates /\ rates' \in [DOMAIN rates' -> Nat]
    BY DEF RemovePeer, Restrict
  <2> QED
    BY <2>1 DEF RemovePeer
<1>3. CASE Round
  <2> PICK interested \in SUBSET Peers : Decide(interested)
    BY <1>3 DEF Round
  <2> PICK top \in Fastest(interested) :
        /\ optimistic' \in Optimistic(interested \ top)
        /\ unchoked' = Served(top, interested)
        /\ overdue' = IF interested # top /\ unchoked' = top THEN overdue + 1 ELSE 0
    BY DEF Decide
  <2>1. top \subseteq Peers
    BY FastestInterested
  <2>2. optimistic' \in Peers \cup {None}
    BY DEF Optimistic
  <2>3. unchoked' \subseteq Peers
    BY <2>1 DEF Served
  <2>4. tick' \in 0 .. Interval - 1
    BY DEF Decide
  <2>5. rates' \in [DOMAIN rates' -> Nat] /\ DOMAIN rates' = DOMAIN rates
    BY DEF Decide, RatesReset
  <2>6. served' \subseteq Peers /\ recent' \in [Peers -> Nat]
    BY <2>3 DEF Decide
  <2> QED
    BY <2>2, <2>3, <2>4, <2>5, <2>6
<1>4. CASE UNCHANGED chokingVars
  BY <1>4 DEF chokingVars
<1> QED
  BY <1>1, <1>2, <1>3, <1>4 DEF ChokingNext

\* The fields keep their types.
THEOREM TypeCorrect == ChokingSpec => []TypeOK
  BY InitType, NextType, PTL DEF ChokingSpec

----------------------------------------------------------------------------
(* The decisions add up, within the slots *)

\* The regular slots and at most one peer more.
LEMMA ServedFits ==
    ASSUME NEW top, IsFiniteSet(top), Cardinality(top) <= Slots, NEW interested
    PROVE  Cardinality(Served(top, interested)) <= Slots + 1
<1>1. CASE optimistic' \in interested
  <2>1. Served(top, interested) = top \cup {optimistic'}
    BY <1>1 DEF Served
  <2>2. Cardinality(top) \in Nat
    BY FS_CardinalityType
  <2>3. Cardinality(top \cup {optimistic'}) <= Cardinality(top) + 1
    BY FS_AddElement, <2>2
  <2>4. Cardinality(top \cup {optimistic'}) \in Nat
    BY FS_AddElement, FS_CardinalityType
  <2> QED
    BY <2>1, <2>2, <2>3, <2>4, SlotsAssumption
<1>2. CASE optimistic' \notin interested
  <2>1. Served(top, interested) = top
    BY <1>2 DEF Served
  <2> QED
    BY <2>1, FS_CardinalityType, SlotsAssumption
<1> QED
  BY <1>1, <1>2

LEMMA NextServed == TypeOK /\ ServedAsDecided /\ [ChokingNext]_chokingVars => ServedAsDecided'
<1> SUFFICES ASSUME TypeOK, ServedAsDecided, [ChokingNext]_chokingVars PROVE ServedAsDecided'
  OBVIOUS
<1> USE DEF ServedAsDecided
<1>1. CASE Upload
  BY <1>1 DEF Upload, UpdateRate
<1>2. CASE Depart
  <2> PICK p \in Peers : RemovePeer(p)
    BY <1>2 DEF Depart
  <2>1. served' = unchoked' /\ served' \subseteq served
    BY DEF RemovePeer
  <2>2. IsFiniteSet(served)
    BY SlotsAssumption, FS_Subset DEF TypeOK
  <2>3. Cardinality(served') <= Cardinality(served)
        /\ Cardinality(served) \in Nat /\ Cardinality(served') \in Nat
    BY <2>1, <2>2, FS_Subset, FS_CardinalityType
  <2> QED
    BY <2>1, <2>3, SlotsAssumption
<1>3. CASE Round
  <2> PICK interested \in SUBSET Peers : Decide(interested)
    BY <1>3 DEF Round
  <2> PICK top \in Fastest(interested) : unchoked' = Served(top, interested)
    BY DEF Decide
  <2>1. served' = unchoked'
    BY DEF Decide
  <2>2. IsFiniteSet(top) /\ Cardinality(top) <= Slots
    BY FastestInterested, SlotsAssumption, FS_Subset
  <2> QED
    BY <2>1, <2>2, ServedFits
<1>4. CASE UNCHANGED chokingVars
  BY <1>4 DEF chokingVars
<1> QED
  BY <1>1, <1>2, <1>3, <1>4 DEF ChokingNext

\* Peers are served exactly as decided, and never more than the slots allow.
THEOREM ServedCorrect == ChokingSpec => []ServedAsDecided
<1>1. ChokingInit => ServedAsDecided
  BY FS_EmptySet, SlotsAssumption DEF ChokingInit, ServedAsDecided
<1> QED
  BY <1>1, TypeCorrect, NextServed, PTL DEF ChokingSpec

----------------------------------------------------------------------------
(* The optimistic slot *)

\* In a round that draws, a choked interested peer is served.
LEMMA DrawnIsServed ==
    ASSUME TypeOK, NEW interested \in SUBSET Peers, NEW top \in Fastest(interested),
           tick' = 0, interested # top,
           optimistic' \in Optimistic(interested \ top)
    PROVE  Served(top, interested) # top
<1>1. top \subseteq interested
  BY FastestInterested
<1>2. interested \ top # {}
  BY <1>1
<1>3. optimistic' \in interested \ top
  BY <1>2 DEF Optimistic
<1> QED
  BY <1>3 DEF Served

LEMMA NextOverdue == TypeOK /\ OverdueWithinTick /\ [ChokingNext]_chokingVars => OverdueWithinTick'
<1> SUFFICES ASSUME TypeOK, OverdueWithinTick, [ChokingNext]_chokingVars PROVE OverdueWithinTick'
  OBVIOUS
<1> USE DEF OverdueWithinTick
<1>1. CASE Round
  <2> PICK interested \in SUBSET Peers : Decide(interested)
    BY <1>1 DEF Round
  <2> PICK top \in Fastest(interested) :
        /\ optimistic' \in Optimistic(interested \ top)
        /\ unchoked' = Served(top, interested)
        /\ overdue' = IF interested # top /\ unchoked' = top THEN overdue + 1 ELSE 0
    BY DEF Decide
  <2>1. tick' = 0 \/ tick' = tick + 1
    BY SlotsAssumption DEF Decide, TypeOK
  <2>2. CASE tick' = 0
    <3>1. ~(interested # top /\ unchoked' = top)
      BY <2>2, DrawnIsServed
    <3> QED
      BY <2>2, <3>1
  <2>3. CASE tick' = tick + 1
    BY <2>3 DEF TypeOK
  <2> QED
    BY <2>1, <2>2, <2>3
<1>2. CASE Upload
  BY <1>2 DEF Upload, UpdateRate
<1>3. CASE Depart
  BY <1>3 DEF Depart, RemovePeer
<1>4. CASE UNCHANGED chokingVars
  BY <1>4 DEF chokingVars
<1> QED
  BY <1>1, <1>2, <1>3, <1>4 DEF ChokingNext

\* A newcomer's chance comes at least once in Interval rounds.
THEOREM OptimisticCorrect == ChokingSpec => []OptimisticInTime
<1>1. ChokingInit => OverdueWithinTick
  BY DEF ChokingInit, OverdueWithinTick
<1>2. TypeOK /\ OverdueWithinTick => OptimisticInTime
  BY SlotsAssumption DEF TypeOK, OverdueWithinTick, OptimisticInTime
<1> QED
  BY <1>1, <1>2, TypeCorrect, NextOverdue, PTL DEF ChokingSpec

----------------------------------------------------------------------------
(* Tit for tat *)

LEMMA NextRecent == TypeOK /\ RecentIsRate /\ [ChokingNext]_chokingVars => RecentIsRate'
<1> SUFFICES ASSUME TypeOK, RecentIsRate, [ChokingNext]_chokingVars PROVE RecentIsRate'
  OBVIOUS
<1> USE DEF RecentIsRate, TypeOK
<1>1. CASE Upload
  BY <1>1 DEF Upload, UpdateRate
<1>2. CASE Depart
  BY <1>2 DEF Depart, RemovePeer, Restrict
<1>3. CASE Round
  BY <1>3 DEF Round, Decide, RatesReset
<1>4. CASE UNCHANGED chokingVars
  BY <1>4 DEF chokingVars
<1> QED
  BY <1>1, <1>2, <1>3, <1>4 DEF ChokingNext

\* The regular slots go by the bytes of the present round.
THEOREM ReciprocalCorrect == ChokingSpec => Reciprocal
<1> DEFINE Fair ==
        \A interested \in SUBSET Peers :
            Decide(interested) =>
                \A p \in unchoked' \ {optimistic'} :
                    \A q \in (interested \cap DOMAIN rates) \ unchoked' :
                        recent[p] >= recent[q]
<1>1. ASSUME TypeOK, RecentIsRate PROVE Fair
  <2> SUFFICES ASSUME NEW interested \in SUBSET Peers, Decide(interested),
                      NEW p \in unchoked' \ {optimistic'},
                      NEW q \in (interested \cap DOMAIN rates) \ unchoked'
               PROVE  recent[p] >= recent[q]
    OBVIOUS
  <2> PICK top \in Fastest(interested) : unchoked' = Served(top, interested)
    BY DEF Decide
  <2>1. p \in top /\ q \in (interested \cap DOMAIN rates) \ top
    BY DEF Served
  <2>2. rates[p] >= rates[q] /\ p \in DOMAIN rates
    BY <2>1 DEF Fastest
  <2> QED
    BY <2>2, <1>1 DEF RecentIsRate, TypeOK
<1>2. ChokingInit => RecentIsRate
  BY DEF ChokingInit, RecentIsRate
<1>3. TypeOK /\ RecentIsRate => [Fair]_chokingVars
  BY <1>1
<1> QED
  BY <1>2, <1>3, TypeCorrect, NextRecent, PTL DEF ChokingSpec, Reciprocal

----------------------------------------------------------------------------
(* The lookup *)
----------------------------------------------------------------------------

(* Places *)

LEMMA PlaceType ==
    ASSUME NEW S, IsFiniteSet(S), S \subseteq Nat, NEW n \in S
    PROVE  /\ Place(S, n) \in Nat \ {0} /\ Place(S, n) <= Cardinality(S) /\ Cardinality(S) \in Nat
           /\ IsFiniteSet({m \in S : m <= n})
<1> DEFINE T == {m \in S : m <= n}
<1>1. T \in SUBSET S /\ n \in T
  OBVIOUS
<1> HIDE DEF T
<1>2. IsFiniteSet(T) /\ Cardinality(T) <= Cardinality(S)
  BY <1>1, FS_Subset
<1>3. Cardinality(S) \in Nat /\ Cardinality(T) \in Nat /\ Cardinality(T) # 0
  BY <1>1, <1>2, FS_CardinalityType, FS_EmptySet
<1> QED
  BY <1>2, <1>3 DEF Place, T

LEMMA PlaceMonotone ==
    ASSUME NEW S, IsFiniteSet(S), S \subseteq Nat, NEW m \in S, NEW n \in S, m < n
    PROVE  Place(S, m) < Place(S, n)
<1> DEFINE upTo(x) == {y \in S : y <= x}
<1>1. upTo(m) \in SUBSET upTo(n) /\ n \in upTo(n) /\ n \notin upTo(m)
  <2>1. m \in Nat /\ n \in Nat /\ \A x \in S : x \in Nat
    OBVIOUS
  <2>2. \A x \in S : x <= m => x <= n
    BY <2>1
  <2>3. n <= n /\ ~(n <= m)
    BY <2>1
  <2>4. upTo(m) \in SUBSET upTo(n)
    BY <2>2
  <2> QED
    BY <2>3, <2>4
<1>2. IsFiniteSet(upTo(n))
  BY PlaceType
<1> HIDE DEF upTo
<1>3. Cardinality(upTo(m)) <= Cardinality(upTo(n)) /\ Cardinality(upTo(m)) # Cardinality(upTo(n))
  BY <1>1, <1>2, FS_Subset
<1>4. Place(S, m) \in Nat /\ Place(S, n) \in Nat
  BY PlaceType
<1> QED
  BY <1>3, <1>4 DEF Place, upTo

LEMMA PlaceInjective ==
    ASSUME NEW S, IsFiniteSet(S), S \subseteq Nat, NEW m \in S, NEW n \in S, Place(S, m) = Place(S, n)
    PROVE  m = n
<1>1. Place(S, m) \in Nat /\ m \in Nat /\ n \in Nat
  BY PlaceType
<1>2. ~(m < n) /\ ~(n < m)
  <2>1. m < n => Place(S, m) < Place(S, n)
    BY PlaceMonotone
  <2>2. n < m => Place(S, n) < Place(S, m)
    BY PlaceMonotone
  <2> QED
    BY <1>1, <2>1, <2>2
<1> QED
  BY <1>1, <1>2

\* Every place is somebody's.
LEMMA PlaceTaken ==
    ASSUME NEW S, IsFiniteSet(S), S \subseteq Nat, NEW k \in 1 .. Cardinality(S)
    PROVE  \E n \in S : Place(S, n) = k
<1> DEFINE T == 1 .. Cardinality(S)
           place == [n \in S |-> Place(S, n)]
<1>1. Cardinality(S) \in Nat
  BY FS_CardinalityType
<1>2. IsFiniteSet(T) /\ Cardinality(T) = Cardinality(S)
  BY <1>1, FS_Interval
<1>3. place \in [S -> T] /\ \A m, n \in S : place[m] = place[n] => m = n
  <2>1. \A n \in S : Place(S, n) \in T
    <3> SUFFICES ASSUME NEW n \in S PROVE Place(S, n) \in T
      OBVIOUS
    <3>1. Place(S, n) \in Nat \ {0} /\ Place(S, n) <= Cardinality(S) /\ Cardinality(S) \in Nat
      BY PlaceType
    <3> QED
      BY <3>1
  <2>2. \A m, n \in S : Place(S, m) = Place(S, n) => m = n
    BY PlaceInjective
  <2> QED
    BY <2>1, <2>2
<1> HIDE DEF place, T
<1>4. place \in Injection(S, T)
  BY <1>3 DEF Injection, IsInjective
<1>5. place \in Surjection(S, T)
  BY <1>2, <1>4, FS_Injection
<1>6. \E n \in S : place[n] = k
  BY <1>5 DEF Surjection, T
<1> QED
  BY <1>6 DEF place

\* A sorted list has every member once, and the closer ones first.
LEMMA SortedList ==
    ASSUME NEW S, IsFiniteSet(S), S \subseteq Nat
    PROVE  /\ Sorted(S) \in Seq(S) /\ DOMAIN Sorted(S) = 1 .. Cardinality(S)
           /\ ToSet(Sorted(S)) = S
           /\ \A j, k \in DOMAIN Sorted(S) : j < k => Sorted(S)[j] < Sorted(S)[k]
<1>1. Cardinality(S) \in Nat
  BY FS_CardinalityType
<1>2. \A k \in 1 .. Cardinality(S) : Sorted(S)[k] \in S /\ Place(S, Sorted(S)[k]) = k
  BY PlaceTaken DEF Sorted
<1>3. DOMAIN Sorted(S) = 1 .. Cardinality(S) /\ Sorted(S) \in [1 .. Cardinality(S) -> S]
  BY <1>2 DEF Sorted
<1>4. Sorted(S) \in Seq(S)
  BY <1>1, <1>3
<1>5. ASSUME NEW n \in S PROVE \E k \in DOMAIN Sorted(S) : Sorted(S)[k] = n
  <2>1. PICK k \in 1 .. Cardinality(S) : k = Place(S, n)
    <3>1. Place(S, n) \in Nat \ {0} /\ Place(S, n) <= Cardinality(S)
      BY PlaceType
    <3> QED
      BY <1>1, <3>1
  <2>2. Sorted(S)[k] = n
    BY <1>2, <2>1, PlaceInjective
  <2> QED
    BY <1>3, <2>2
<1>6. ToSet(Sorted(S)) = S
  BY <1>2, <1>3, <1>5 DEF ToSet
<1>7. ASSUME NEW j \in DOMAIN Sorted(S), NEW k \in DOMAIN Sorted(S), j < k
      PROVE  Sorted(S)[j] < Sorted(S)[k]
  <2>1. PICK m \in S, n \in S : m = Sorted(S)[j] /\ n = Sorted(S)[k]
    BY <1>2, <1>3
  <2>2. Place(S, m) = j /\ Place(S, n) = k /\ m \in Nat /\ n \in Nat
    BY <1>2, <1>3, <2>1
  <2>3. m # n /\ ~(n < m)
    <3>1. j \in Int /\ k \in Int
      BY <1>1, <1>3
    <3>2. ~(n < m)
      <4>1. n < m => k < j
        BY <2>2, PlaceMonotone
      <4> QED
        BY <1>7, <3>1, <4>1
    <3> QED
      BY <1>7, <2>2, <3>1, <3>2
  <2> QED
    BY <2>1, <2>2, <2>3
<1> QED
  BY <1>3, <1>4, <1>6, <1>7

----------------------------------------------------------------------------
(* The list and the batches *)

\* Nodes are asked once and in the order of the list, and the count keeps up with them.
Listed ==
    /\ candidates \in Seq(Nodes)
    /\ \A j, k \in DOMAIN candidates : j < k => candidates[j] < candidates[k]
    /\ queried \subseteq Known
    /\ queryCount = Cardinality(queried) /\ queryCount < MaxQueries + Alpha

Typed ==
    /\ phase \in {"deciding", "waiting", "done"}
    /\ pending \in Nat /\ responses \in Nat /\ duplicates \in Nat /\ timeouts \in BOOLEAN
    /\ net \subseteq queried \cap Resolvable /\ heard \subseteq queried

LEMMA KnownNodes ==
    ASSUME Listed
    PROVE  /\ Known \subseteq Nodes /\ IsFiniteSet(Known) /\ IsFiniteSet(queried)
           /\ \A n \in Known : \E k \in DOMAIN candidates : candidates[k] = n
           /\ \A k \in DOMAIN candidates : candidates[k] \in Known
           /\ DOMAIN candidates = 1 .. Len(candidates) /\ Len(candidates) \in Nat
<1>1. Known \in SUBSET Nodes /\ queried \in SUBSET Nodes
  BY DEF Listed, Known, ToSet
<1>2. IsFiniteSet(Known) /\ IsFiniteSet(queried)
  BY <1>1, ConstantsAssumption, FS_Subset
<1>3. DOMAIN candidates = 1 .. Len(candidates) /\ Len(candidates) \in Nat
  BY DEF Listed
<1> QED
  BY <1>1, <1>2, <1>3 DEF Known, ToSet

Fresh == {k \in DOMAIN candidates : candidates[k] \notin queried}

LEMMA FreshPlaces ==
    ASSUME Listed
    PROVE  /\ IsFiniteSet(Fresh) /\ Fresh \subseteq Nat
           /\ NextBatch = {candidates[k] : k \in {k \in Fresh : Place(Fresh, k) <= Alpha}}
<1>1. Fresh \in SUBSET (1 .. Len(candidates)) /\ Len(candidates) \in Nat
  BY KnownNodes DEF Fresh
<1>2. IsFiniteSet(1 .. Len(candidates))
  BY <1>1, FS_Interval
<1>3. IsFiniteSet(Fresh)
  BY <1>1, <1>2, FS_Subset
<1> QED
  BY <1>1, <1>3 DEF NextBatch, Fresh

\* A batch is of known nodes that were not asked, no more than Alpha, and not empty
\* while there are such nodes.
LEMMA BatchOf ==
    ASSUME Listed
    PROVE  /\ NextBatch \subseteq Known \ queried
           /\ IsFiniteSet(NextBatch) /\ Cardinality(NextBatch) \in 0 .. Alpha
           /\ NextBatch = {} => Known \subseteq queried
<1> DEFINE F == {k \in Fresh : Place(Fresh, k) <= Alpha}
           B == {candidates[k] : k \in F}
           place == [k \in F |-> Place(Fresh, k)]
<1>0. IsFiniteSet(Fresh) /\ Fresh \subseteq Nat /\ NextBatch = B /\ Alpha \in Nat \ {0}
  BY FreshPlaces, ConstantsAssumption
<1>1. NextBatch \subseteq Known \ queried
  BY <1>0, KnownNodes DEF Fresh
<1>2. IsFiniteSet(F)
  BY <1>0, FS_Subset
<1>3. place \in [F -> 1 .. Alpha] /\ \A j, k \in F : place[j] = place[k] => j = k
  <2>1. \A k \in F : Place(Fresh, k) \in 1 .. Alpha
    <3> SUFFICES ASSUME NEW k \in F PROVE Place(Fresh, k) \in 1 .. Alpha
      OBVIOUS
    <3>1. Place(Fresh, k) \in Nat \ {0}
      BY <1>0, PlaceType
    <3> QED
      BY <1>0, <3>1
  <2>2. \A j, k \in F : Place(Fresh, j) = Place(Fresh, k) => j = k
    BY <1>0, PlaceInjective
  <2> HIDE DEF F
  <2> QED
    BY <2>1, <2>2
<1>4. Cardinality(F) <= Alpha
  <2>1. IsFiniteSet(1 .. Alpha) /\ Cardinality(1 .. Alpha) = Alpha
    BY <1>0, FS_Interval
  <2> HIDE DEF F, place
  <2>2. place \in Injection(F, 1 .. Alpha)
    BY <1>3 DEF Injection, IsInjective
  <2> QED
    BY <2>1, <2>2, FS_Injection
<1>5. IsFiniteSet(B) /\ Cardinality(B) <= Cardinality(F)
  <2> DEFINE f == [k \in F |-> candidates[k]]
  <2>1. f \in Surjection(F, B)
    BY DEF Surjection
  <2> HIDE DEF F, B, f
  <2> QED
    BY <1>2, <2>1, FS_Surjection
<1>6. Cardinality(B) \in 0 .. Alpha
  <2> HIDE DEF F, B
  <2> QED
    BY <1>0, <1>2, <1>4, <1>5, FS_CardinalityType
<1>7. ASSUME NEW n \in Known, n \notin queried PROVE B # {}
  <2>1. PICK j \in DOMAIN candidates : candidates[j] = n
    BY KnownNodes
  <2>2. j \in Fresh
    BY <1>7, <2>1 DEF Fresh
  <2>3. Cardinality(Fresh) \in Nat /\ Cardinality(Fresh) # 0
    BY <1>0, <2>2, FS_CardinalityType, FS_EmptySet
  <2>4. PICK k \in Fresh : Place(Fresh, k) = 1
    <3>1. 1 \in 1 .. Cardinality(Fresh)
      BY <2>3
    <3> QED
      BY <1>0, <3>1, PlaceTaken
  <2>5. k \in F
    BY <1>0, <2>4
  <2> QED
    BY <2>5
<1> QED
  BY <1>0, <1>1, <1>5, <1>6, <1>7

----------------------------------------------------------------------------
(* The steps *)

\* Nodes asked, and reachable, whose answer has not come.
Unheard == (queried \cap Resolvable) \ heard

\* All that was heard is in the list and among the peers, and a lookup that no limit
\* ended has asked the whole list.
Used ==
    /\ \A n \in heard : Knows[n] \subseteq Known /\ Offers[n] \subseteq found
    /\ phase = "done" /\ ~LimitReached => Known \subseteq queried

\* Where every round ended with its last answer, those still to come are those of this
\* round, as many as were not counted yet.
Counted ==
    ~timeouts /\ duplicates = 0 =>
        /\ net \subseteq Unheard
        /\ phase # "waiting" => Unheard = {}
        /\ phase = "waiting" => Cardinality(Unheard) = pending - responses

LookupSound == Listed /\ Typed /\ Used /\ Counted

LEMMA ListOfMore ==
    ASSUME NEW S, NEW T, S \subseteq T, NEW s \in Seq(S)
    PROVE  s \in Seq(T)
OBVIOUS

LEMMA InitSound == Init => LookupSound
<1> SUFFICES ASSUME Init PROVE LookupSound
  OBVIOUS
<1>1. IsFiniteSet(Start) /\ Start \subseteq Nat /\ Start \subseteq Nodes
      /\ MaxQueries + Alpha \in Nat /\ 0 < MaxQueries + Alpha
  <2>1. IsFiniteSet(Nodes) /\ Start \in SUBSET Nodes /\ Nodes \subseteq Nat
        /\ MaxQueries \in Nat /\ Alpha \in Nat \ {0}
    BY ConstantsAssumption
  <2>2. IsFiniteSet(Start)
    BY <2>1, FS_Subset
  <2> QED
    BY <2>1, <2>2
<1>2. Listed
  <2>1. Cardinality({}) = 0
    BY FS_EmptySet
  <2>2. candidates = Sorted(Start) /\ queried = {} /\ queryCount = 0
    BY DEF Init
  <2>3. /\ candidates \in Seq(Start)
        /\ \A j, k \in DOMAIN candidates : j < k => candidates[j] < candidates[k]
    BY <1>1, <2>2, SortedList
  <2>4. candidates \in Seq(Nodes)
    BY <1>1, <2>3, ListOfMore
  <2> QED
    BY <1>1, <2>1, <2>2, <2>3, <2>4 DEF Listed
<1>3. Typed /\ Used /\ Counted
  BY DEF Init, Typed, Used, Counted, Unheard
<1> QED
  BY <1>2, <1>3 DEF LookupSound

LEMMA StopSound ==
    ASSUME LookupSound, Stop
    PROVE  LookupSound'
<1>1. UNCHANGED <<state, pending, responses, net, heard, timeouts, duplicates>> /\ phase' = "done"
      /\ phase = "deciding" /\ UNCHANGED <<candidates, queried, queryCount, found>>
  BY DEF Stop, state
<1>2. Listed' /\ Typed'
  BY <1>1 DEF LookupSound, Listed, Typed, Known
<1>3. ~LimitReached => Known \subseteq queried
  BY BatchOf DEF Stop, ShouldTerminate, LookupSound
<1>4. Used'
  BY <1>1, <1>3 DEF LookupSound, Used, Known, LimitReached
<1>5. Counted'
  BY <1>1 DEF LookupSound, Counted, Unheard
<1> QED
  BY <1>2, <1>4, <1>5 DEF LookupSound

LEMMA StartRoundSound ==
    ASSUME LookupSound, StartRound
    PROVE  LookupSound'
<1>0. Listed /\ Typed /\ Used /\ Counted
  BY DEF LookupSound
<1> DEFINE B == NextBatch
<1>1. /\ phase = "deciding" /\ ~LimitReached
      /\ queried' = queried \cup B /\ queryCount' = queryCount + Cardinality(B)
      /\ phase' = "waiting" /\ pending' = Cardinality(B \cap Resolvable) /\ responses' = 0
      /\ net' = net \cup (B \cap Resolvable)
      /\ UNCHANGED <<candidates, found, results, heard, timeouts, duplicates>>
  BY DEF StartRound, ShouldTerminate
<1>2. /\ B \subseteq Known \ queried /\ IsFiniteSet(B) /\ Cardinality(B) \in 0 .. Alpha
  BY <1>0, BatchOf
<1> HIDE DEF B
<1>3. Listed'
  <2>1. IsFiniteSet(queried) /\ queried \cap B = {}
    BY <1>0, <1>2, KnownNodes
  <2>2. Cardinality(queried \cup B) = Cardinality(queried) + Cardinality(B)
    <3>1. Cardinality(queried \cup B) =
            Cardinality(queried) + Cardinality(B) - Cardinality(queried \cap B)
      BY <1>2, <2>1, FS_Union
    <3>2. Cardinality(queried \cap B) = 0 /\ Cardinality(queried) \in Nat
      BY <2>1, FS_EmptySet, FS_CardinalityType
    <3> QED
      BY <1>2, <3>1, <3>2
  <2>3. queryCount < MaxQueries /\ queryCount \in Nat /\ MaxQueries \in Nat /\ Alpha \in Nat
    BY <1>0, <1>1, <2>1, FS_CardinalityType, ConstantsAssumption DEF LimitReached, Listed
  <2>4. queryCount' = Cardinality(queried)' /\ queryCount' < MaxQueries + Alpha
    BY <1>0, <1>1, <1>2, <2>2, <2>3 DEF Listed
  <2> QED
    BY <1>0, <1>1, <1>2, <2>4 DEF Listed, Known
<1>4. IsFiniteSet(B \cap Resolvable) /\ Cardinality(B \cap Resolvable) \in Nat
  BY <1>2, FS_Subset, FS_CardinalityType
<1>5. Typed'
  BY <1>0, <1>1, <1>2, <1>4 DEF Typed
<1>6. Used'
  BY <1>0, <1>1 DEF Used, Known
<1>7. Counted'
  <2>1. Unheard' = Unheard \cup (B \cap Resolvable)
    BY <1>0, <1>1, <1>2 DEF Unheard, Typed
  <2>2. ASSUME ~timeouts, duplicates = 0
        PROVE  Unheard' = B \cap Resolvable /\ net' \subseteq Unheard'
    BY <1>0, <1>1, <2>1, <2>2 DEF Counted
  <2>3. ASSUME ~timeouts, duplicates = 0
        PROVE  Cardinality(Unheard)' = pending' - responses'
    <3>1. Cardinality(Unheard') = pending'
      BY <1>1, <2>2, <2>3
    <3>2. Cardinality(Unheard)' = Cardinality(Unheard')
      OBVIOUS
    <3>3. pending' \in Nat /\ responses' = 0
      BY <1>1, <1>4
    <3>4. pending' - responses' = pending'
      <4>1. \A x \in Nat : x - 0 = x
        OBVIOUS
      <4> QED
        BY <3>3, <4>1, Zenon
    <3> QED
      BY <3>1, <3>2, <3>4, Zenon
  <2> QED
    BY <1>1, <2>2, <2>3 DEF Counted
<1> QED
  BY <1>3, <1>5, <1>6, <1>7 DEF LookupSound

LEMMA ReceiveSound ==
    ASSUME LookupSound, NEW n \in Nodes, Receive(n)
    PROVE  LookupSound'
<1>0. Listed /\ Typed /\ Used /\ Counted
  BY DEF LookupSound
<1>1. /\ phase = "waiting" /\ n \in net /\ found' = found \cup Offers[n]
      /\ candidates' = Sorted(Known \cup Knows[n]) /\ responses' = responses + 1
      /\ phase' = (IF responses' >= pending THEN "deciding" ELSE "waiting")
      /\ heard' = heard \cup {n}
      /\ \/ net' = net \ {n} /\ duplicates' = duplicates
         \/ duplicates' = duplicates + 1 /\ net' = net
      /\ UNCHANGED <<queried, queryCount, pending, results, timeouts>>
  BY DEF Receive, AddNodes, RoundOver
<1>2. /\ Known \cup Knows[n] \subseteq Nodes /\ Known \cup Knows[n] \subseteq Nat
      /\ IsFiniteSet(Known \cup Knows[n])
  <2>1. Known \cup Knows[n] \in SUBSET Nodes /\ Nodes \subseteq Nat /\ IsFiniteSet(Nodes)
    BY <1>0, KnownNodes, ConstantsAssumption
  <2> QED
    BY <2>1, FS_Subset
<1>3. /\ candidates' \in Seq(Known \cup Knows[n]) /\ Known' = Known \cup Knows[n]
      /\ \A j, k \in DOMAIN candidates' : j < k => candidates'[j] < candidates'[k]
  BY <1>1, <1>2, SortedList DEF Known
<1>4. Listed'
  <2>1. candidates' \in Seq(Nodes)
    BY <1>2, <1>3
  <2> QED
    BY <1>0, <1>1, <1>3, <2>1 DEF Listed
<1>5. Typed'
  BY <1>0, <1>1 DEF Typed
<1>6. Used'
  BY <1>0, <1>1, <1>3 DEF Used
<1>7. Counted'
  <2> SUFFICES ASSUME ~timeouts', duplicates' = 0
               PROVE  /\ net' \subseteq Unheard'
                      /\ phase' # "waiting" => Unheard' = {}
                      /\ phase' = "waiting" => Cardinality(Unheard)' = pending' - responses'
    BY DEF Counted
  <2>1. /\ duplicates = 0 /\ ~timeouts /\ net' = net \ {n} /\ pending \in Nat /\ responses \in Nat
    BY <1>0, <1>1 DEF Typed
  <2>2. /\ net \subseteq Unheard /\ n \in Unheard /\ Unheard' = Unheard \ {n}
        /\ Cardinality(Unheard) = pending - responses
    BY <1>0, <1>1, <2>1 DEF Counted, Unheard
  <2>3. IsFiniteSet(Unheard)
    <3>1. IsFiniteSet(queried) /\ Unheard \in SUBSET queried
      BY <1>0, KnownNodes DEF Unheard
    <3> QED
      BY <3>1, FS_Subset
  <2>4. /\ IsFiniteSet(Unheard \ {n}) /\ Cardinality(Unheard \ {n}) \in Nat
        /\ Cardinality(Unheard \ {n}) = pending - responses - 1
    BY <2>2, <2>3, FS_RemoveElement, FS_CardinalityType
  <2>5. CASE responses + 1 >= pending
    <3>1. Cardinality(Unheard \ {n}) = 0
      BY <2>1, <2>4, <2>5
    <3>2. Unheard' = {}
      BY <2>2, <2>4, <3>1, FS_EmptySet
    <3> QED
      BY <1>1, <2>1, <2>2, <2>5, <3>2
  <2>6. CASE ~(responses + 1 >= pending)
    BY <1>1, <2>1, <2>2, <2>4, <2>6
  <2> QED
    BY <2>5, <2>6
<1> QED
  BY <1>4, <1>5, <1>6, <1>7 DEF LookupSound

LEMMA QuietSound ==
    ASSUME LookupSound, Timeout \/ (\E n \in Nodes : Lose(n)) \/ UNCHANGED vars
    PROVE  LookupSound'
<1>0. Listed /\ Typed /\ Used /\ Counted
  BY DEF LookupSound
<1>1. /\ UNCHANGED <<candidates, queried, queryCount, found, pending, responses, heard, duplicates>>
      /\ net' \subseteq net
      /\ \/ UNCHANGED <<phase, timeouts>>
         \/ phase = "waiting" /\ phase' = "deciding" /\ timeouts' = TRUE
  <2>1. CASE Timeout
    BY <2>1 DEF Timeout, state
  <2>2. CASE \E n \in Nodes : Lose(n)
    BY <2>2 DEF Lose, state, round
  <2>3. CASE UNCHANGED vars
    BY <2>3 DEF vars, state, round
  <2> QED
    BY <2>1, <2>2, <2>3
<1>2. Listed' /\ Typed'
  BY <1>0, <1>1 DEF Listed, Typed, Known
<1>3. Used'
  BY <1>0, <1>1 DEF Used, Known, LimitReached
<1>4. Counted'
  BY <1>0, <1>1 DEF Counted, Unheard
<1> QED
  BY <1>2, <1>3, <1>4 DEF LookupSound

LEMMA NextSound == LookupSound /\ [Next]_vars => LookupSound'
BY StopSound, StartRoundSound, ReceiveSound, QuietSound DEF Next

\* No node is asked twice, and a lookup asks fewer than a batch beyond its limit, whatever
\* answers arrive.
QueriesBounded == queryCount = Cardinality(queried) /\ queryCount < MaxQueries + Alpha

\* The count of the requests is that of the nodes asked, so that no node is asked twice,
\* and the limit on it is exceeded by less than a batch (lookup.rs:33, 67).
THEOREM QueriesBoundedCorrect == Spec => []QueriesBounded
<1>1. LookupSound => QueriesBounded
  BY DEF LookupSound, Listed, QueriesBounded
<1> QED
  BY <1>1, InitSound, NextSound, PTL DEF Spec

\* Unless a limit ends it, a lookup ends with all it has heard put to use.
THEOREM NothingWasted == Spec => []NothingHeardIsWasted
<1>1. LookupSound => NothingHeardIsWasted
  BY DEF LookupSound, Used, NothingHeardIsWasted
<1> QED
  BY <1>1, InitSound, NextSound, PTL DEF Spec

\* Where no answer is late, lost or doubled, every node that was asked and could be was heard.
THEOREM EveryoneHeardCorrect == Spec => []EveryoneHeard
<1>1. LookupSound => EveryoneHeard
  BY DEF LookupSound, Counted, Unheard, EveryoneHeard
<1> QED
  BY <1>1, InitSound, NextSound, PTL DEF Spec

\* A batch holds with a node all that are closer and were not asked.
LEMMA BatchIsClosest ==
    ASSUME Listed, NEW n \in NextBatch, NEW m \in Known, m < n
    PROVE  m \in queried \cup NextBatch
<1>0. IsFiniteSet(Fresh) /\ Fresh \subseteq Nat /\ Alpha \in Nat
      /\ NextBatch = {candidates[k] : k \in {k \in Fresh : Place(Fresh, k) <= Alpha}}
  BY FreshPlaces, ConstantsAssumption
<1>1. PICK k \in Fresh : candidates[k] = n /\ Place(Fresh, k) <= Alpha
  BY <1>0
<1>2. PICK j \in DOMAIN candidates : candidates[j] = m
  BY KnownNodes
<1>3. j \in Nat /\ k \in Nat /\ k \in DOMAIN candidates /\ m \in Nat /\ n \in Nat
  <2>1. k \in DOMAIN candidates /\ n \in Known /\ Known \subseteq Nat
    BY <1>1, KnownNodes, ConstantsAssumption DEF Fresh
  <2> QED
    BY <1>2, <2>1, KnownNodes
<1>4. j < k
  <2>1. j # k /\ ~(k < j)
    BY <1>1, <1>2, <1>3 DEF Listed
  <2> QED
    BY <1>3, <2>1
<1>5. ASSUME m \notin queried PROVE m \in NextBatch
  <2>1. j \in Fresh
    BY <1>2, <1>5 DEF Fresh
  <2>2. Place(Fresh, j) < Place(Fresh, k) /\ Place(Fresh, j) \in Nat /\ Place(Fresh, k) \in Nat
    BY <1>0, <1>4, <2>1, PlaceMonotone, PlaceType
  <2>3. Place(Fresh, j) <= Alpha
    BY <1>0, <1>1, <2>2
  <2> QED
    BY <1>0, <1>2, <2>1, <2>3
<1> QED
  BY <1>5

\* A node is asked only with or after every closer node known by then.
THEOREM ClosestFirstCorrect == Spec => ClosestFirst
<1> DEFINE Closest == \A n \in queried' \ queried : \A m \in Known : m < n => m \in queried'
<1>1. ASSUME LookupSound, [Next]_vars PROVE [Closest]_vars
  <2>1. CASE StartRound
    BY <1>1, <2>1, BatchIsClosest DEF LookupSound, StartRound
  <2>2. CASE UNCHANGED queried
    BY <2>2
  <2>3. CASE Stop \/ (\E n \in Nodes : Receive(n)) \/ Timeout \/ (\E n \in Nodes : Lose(n)) \/ UNCHANGED vars
    <3>1. UNCHANGED queried
      BY <2>3 DEF Stop, Receive, Timeout, Lose, vars, state
    <3> QED
      BY <2>2, <3>1
  <2> QED
    BY <1>1, <2>1, <2>3 DEF Next
<1>2. LookupSound /\ [Next]_vars => [Closest]_vars
  BY <1>1
<1>3. Spec => []LookupSound
  BY InitSound, NextSound, PTL DEF Spec
<1> QED
  BY <1>2, <1>3, PTL DEF Spec, ClosestFirst
=============================================================================
