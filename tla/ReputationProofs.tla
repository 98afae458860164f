-------------------------- MODULE ReputationProofs --------------------------
(* Proofs, for every set of peers and pieces, sizes of the windows and of    *)
(* the pieces, of what MCReputation checks on three peers.                   *)
EXTENDS Reputation, FiniteSetTheorems, TLAPS

----------------------------------------------------------------------------
(* Windows *)

Windows(n) == [values : [0 .. n - 1 -> Int], cursor : 0 .. n - 1, count : 0 .. n]

LEMMA CapacityOf ==
    ASSUME NEW n \in Nat \ {0}, NEW w \in Windows(n)
    PROVE  Capacity(w) = n
BY FS_Interval DEF Windows, Capacity

LEMMA NewWindowType ==
    ASSUME NEW n \in Nat \ {0}
    PROVE  NewWindow(n) \in Windows(n)
BY DEF NewWindow, Windows

\* The cursor never leaves the slots, and no more is counted than there are.
LEMMA PushType ==
    ASSUME NEW n \in Nat \ {0}, NEW w \in Windows(n), NEW v \in Int
    PROVE  Push(w, v) \in Windows(n)
<1>1. /\ w.values \in [0 .. n - 1 -> Int] /\ w.cursor \in 0 .. n - 1 /\ w.count \in 0 .. n
      /\ Capacity(w) = n
  BY CapacityOf DEF Windows
<1>2. (w.cursor + 1) % n \in 0 .. n - 1
  BY <1>1
<1>3. [w.values EXCEPT ![w.cursor] = v] \in [0 .. n - 1 -> Int]
  BY <1>1
<1>4. (IF w.count < n THEN w.count + 1 ELSE w.count) \in 0 .. n
  BY <1>1
<1> QED
  BY <1>1, <1>2, <1>3, <1>4 DEF Push, Windows

\* How many precede a position in the sorted order, equal values by position.
Before(s, k) == {j \in DOMAIN s : s[j] < s[k] \/ (s[j] = s[k] /\ j <= k)}

LEMMA BeforeRank ==
    ASSUME NEW n \in Nat, NEW s \in [1 .. n -> Int], NEW k \in 1 .. n
    PROVE  IsFiniteSet(Before(s, k)) /\ Cardinality(Before(s, k)) \in 1 .. n
<1>1. IsFiniteSet(1 .. n) /\ Cardinality(1 .. n) = n
  BY FS_Interval
<1>2. Before(s, k) \in SUBSET (1 .. n) /\ k \in Before(s, k)
  BY DEF Before
<1>3. IsFiniteSet(Before(s, k)) /\ Cardinality(Before(s, k)) <= n
  BY <1>1, <1>2, FS_Subset
<1>4. Cardinality(Before(s, k)) \in Nat /\ Cardinality(Before(s, k)) # 0
  BY <1>2, <1>3, FS_CardinalityType, FS_EmptySet
<1> QED
  BY <1>3, <1>4

\* Every place of the sorted sequence is some position's.
LEMMA EveryPlaceTaken ==
    ASSUME NEW n \in Nat, NEW s \in [1 .. n -> Int], NEW k \in 1 .. n
    PROVE  \E i \in 1 .. n : Cardinality(Before(s, i)) = k
<1> DEFINE S == 1 .. n
           rank == [i \in S |-> Cardinality(Before(s, i))]
<1>1. rank \in [S -> S]
  BY BeforeRank
<1>2. IsFiniteSet(S)
  BY FS_Interval
<1>3. ASSUME NEW i \in S, NEW j \in S, i # j, s[i] < s[j] \/ (s[i] = s[j] /\ i < j)
      PROVE  rank[i] < rank[j]
  <2>1. Before(s, i) \in SUBSET Before(s, j) /\ j \in Before(s, j) /\ j \notin Before(s, i)
    BY <1>3 DEF Before
  <2>2. Before(s, i) # Before(s, j)
    BY <2>1
  <2>3. /\ Cardinality(Before(s, i)) <= Cardinality(Before(s, j))
        /\ Cardinality(Before(s, i)) # Cardinality(Before(s, j))
    BY <2>1, <2>2, BeforeRank, FS_Subset
  <2> QED
    BY <2>3, BeforeRank
<1>4. ASSUME NEW i \in S, NEW j \in S, rank[i] = rank[j] PROVE i = j
  <2> SUFFICES ASSUME i # j PROVE FALSE
    BY <1>4
  <2>1. s[i] \in Int /\ s[j] \in Int /\ rank[i] \in Int /\ rank[j] \in Int
    BY <1>1
  <2> HIDE DEF rank
  <2>2. rank[i] < rank[j] \/ rank[j] < rank[i]
    BY <1>3, <2>1
  <2> QED
    BY <1>4, <2>1, <2>2
<1>5. rank \in Injection(S, S)
  <2> HIDE DEF rank
  <2> QED
    BY <1>1, <1>4 DEF Injection, IsInjective
<1>6. rank \in Surjection(S, S)
  BY <1>2, <1>5, FS_Injection
<1>7. \E i \in S : rank[i] = k
  <2> HIDE DEF rank
  <2> QED
    BY <1>6 DEF Surjection
<1> QED
  BY <1>7

\* The sorted sequence has as many values, all from the given one.
LEMMA AscendingType ==
    ASSUME NEW n \in Nat, NEW s \in [1 .. n -> Int]
    PROVE  Ascending(s) \in [1 .. n -> Int]
<1> DEFINE less(v) == {j \in DOMAIN s : s[j] < v}
           atMost(v) == {j \in DOMAIN s : s[j] <= v}
           OfPlace(v, k) == Cardinality(less(v)) < k /\ Cardinality(atMost(v)) >= k
<1>1. ASSUME NEW k \in 1 .. n PROVE \E v \in ToSet(s) : OfPlace(v, k)
  <2>1. PICK i \in 1 .. n : Cardinality(Before(s, i)) = k
    BY EveryPlaceTaken
  <2>2. /\ less(s[i]) \in SUBSET (Before(s, i) \ {i})
        /\ Before(s, i) \in SUBSET atMost(s[i])
        /\ i \in Before(s, i) /\ atMost(s[i]) \in SUBSET (1 .. n)
    BY DEF Before
  <2>3. IsFiniteSet(1 .. n) /\ IsFiniteSet(Before(s, i))
    <3>1. IsFiniteSet(1 .. n)
      BY FS_Interval
    <3> QED
      BY <3>1, BeforeRank
  <2>4. IsFiniteSet(Before(s, i) \ {i}) /\ Cardinality(Before(s, i) \ {i}) = k - 1
    BY <2>1, <2>2, <2>3, FS_RemoveElement
  <2>5. Cardinality(less(s[i])) <= k - 1 /\ Cardinality(less(s[i])) \in Nat
    BY <2>2, <2>4, FS_Subset, FS_CardinalityType
  <2>6. Cardinality(atMost(s[i])) >= k
    BY <2>1, <2>2, <2>3, FS_Subset
  <2>7. s[i] \in ToSet(s)
    BY DEF ToSet
  <2> HIDE DEF less, atMost
  <2> QED
    BY <2>5, <2>6, <2>7
<1>2. DOMAIN s = 1 .. n /\ ToSet(s) \subseteq Int
  BY DEF ToSet
<1>3. Ascending(s) = [k \in 1 .. n |-> CHOOSE v \in ToSet(s) : OfPlace(v, k)]
  BY <1>2 DEF Ascending
<1> HIDE DEF OfPlace
<1>4. \A k \in 1 .. n : (CHOOSE v \in ToSet(s) : OfPlace(v, k)) \in Int
  BY <1>1, <1>2
<1> QED
  BY <1>3, <1>4

LEMMA MedianType ==
    ASSUME NEW n \in Nat \ {0}, NEW w \in Windows(n)
    PROVE  TwiceMedian(w) \in Int
<1>1. w.count \in Nat /\ w.count <= n /\ w.values \in [0 .. n - 1 -> Int]
  BY DEF Windows
<1>2. Live(w) \in [1 .. w.count -> Int]
  BY <1>1 DEF Live
<1>3. Ascending(Live(w)) \in [1 .. w.count -> Int]
  BY <1>1, <1>2, AscendingType
<1>4. CASE w.count = 0
  BY <1>4 DEF TwiceMedian
<1>5. CASE w.count # 0 /\ w.count % 2 = 0
  <2>1. w.count \div 2 \in 1 .. w.count /\ w.count \div 2 + 1 \in 1 .. w.count
    BY <1>1, <1>5
  <2> QED
    BY <1>3, <1>5, <2>1 DEF TwiceMedian
<1>6. CASE w.count # 0 /\ w.count % 2 # 0
  <2>1. w.count \div 2 + 1 \in 1 .. w.count
    BY <1>1, <1>6
  <2> QED
    BY <1>3, <1>6, <2>1 DEF TwiceMedian
<1> QED
  BY <1>4, <1>5, <1>6

----------------------------------------------------------------------------
(* Types *)

Entries ==
    [speed : Windows(WindowSize), reliability : Windows(WindowSize),
     latency : Windows(WindowSize), strikes : Nat, until : Nat \cup {None}, session : BOOLEAN]

TablesTyped ==
    /\ DOMAIN rep \subseteq Peers /\ \A p \in DOMAIN rep : rep[p] \in Entries
    /\ DOMAIN times \subseteq Peers
    /\ \A p \in DOMAIN times : times[p] \in Windows(ResponseWindow)
    /\ outcomes \in [Peers -> Seq(Int)]

WaitersTyped ==
    /\ DOMAIN stamps \subseteq Pieces
    /\ \A i \in DOMAIN stamps : stamps[i] \in [peer : Peers, age : 0 .. MaxAge]
    /\ unchoked \subseteq Peers
    /\ conn \in [Peers -> {"up", "dropped", "gone"}]
    /\ completed \subseteq Pieces

\* Every table has its type, and no cursor or count of a window leaves its slots.
Typed == TablesTyped /\ WaitersTyped

LEMMA Sizes ==
    /\ WindowSize \in Nat \ {0} /\ ResponseWindow \in Nat \ {0} /\ TempBan \in Nat
    /\ Bytes \in Nat /\ MaxAge \in Nat \ {0}
BY ConstantsAssumption

LEMMA NewEntryType == NewEntry \in Entries /\ NewEntry.strikes = 0 /\ NewEntry.session = FALSE
BY Sizes, NewWindowType DEF NewEntry, Entries, None

LEMMA NewEntryStruck == NewEntry.strikes = 0 /\ NewEntry.session = (0 >= 4)
<1>1. (0 >= 4) = FALSE
  OBVIOUS
<1> QED
  BY <1>1 DEF NewEntry

LEMMA EntryType ==
    ASSUME TablesTyped, NEW p
    PROVE  Entry(p) \in Entries
BY NewEntryType DEF TablesTyped, Entry

LEMMA SuccessType ==
    ASSUME TablesTyped, NEW p \in Peers, NEW age \in 0 .. MaxAge
    PROVE  /\ DOMAIN AfterSuccess(p, age) = DOMAIN rep \cup {p}
           /\ AfterSuccess(p, age)[p] \in Entries
           /\ AfterSuccess(p, age)[p].strikes = Entry(p).strikes
           /\ AfterSuccess(p, age)[p].session = Entry(p).session
           /\ \A q \in DOMAIN rep \ {p} : AfterSuccess(p, age)[q] = rep[q]
<1> DEFINE e == Entry(p)
           timed == IF age = 0 THEN e
                    ELSE [e EXCEPT !.speed = Push(@, Bytes \div age), !.latency = Push(@, age)]
           new == [timed EXCEPT !.reliability = Push(@, 1)]
<1>1. e \in Entries
  BY EntryType
<1> HIDE DEF e
<1>2. timed \in Entries /\ timed.strikes = e.strikes /\ timed.session = e.session
  <2>1. CASE age = 0
    BY <1>1, <2>1
  <2>2. CASE age # 0
    <3>1. age \in Nat \ {0} /\ Bytes \div age \in Int /\ age \in Int
      BY <2>2, Sizes
    <3>2. e.speed \in Windows(WindowSize) /\ e.latency \in Windows(WindowSize)
      BY <1>1 DEF Entries
    <3>3. /\ Push(e.speed, Bytes \div age) \in Windows(WindowSize)
          /\ Push(e.latency, age) \in Windows(WindowSize)
      BY <3>1, <3>2, PushType, Sizes
    <3> QED
      BY <1>1, <2>2, <3>3 DEF Entries
  <2> QED
    BY <2>1, <2>2
<1> HIDE DEF timed
<1>3. new \in Entries /\ new.strikes = e.strikes /\ new.session = e.session
  <2>1. Push(timed.reliability, 1) \in Windows(WindowSize)
    <3>1. timed.reliability \in Windows(WindowSize)
      BY <1>2 DEF Entries
    <3> QED
      BY <3>1, PushType, Sizes
  <2> QED
    BY <1>2, <2>1 DEF Entries
<1>4. AfterSuccess(p, age) = With(rep, p, new)
  BY DEF AfterSuccess, timed, e
<1> HIDE DEF new
<1> QED
  BY <1>3, <1>4 DEF With, e

LEMMA BadHashType ==
    ASSUME TablesTyped, NEW p \in Peers, Entry(p).session = (Entry(p).strikes >= 4)
    PROVE  /\ DOMAIN AfterBadHash(p) = DOMAIN rep \cup {p}
           /\ AfterBadHash(p)[p] \in Entries
           /\ AfterBadHash(p)[p].strikes = Entry(p).strikes + 1
           /\ AfterBadHash(p)[p].session = (Entry(p).strikes + 1 >= 4)
           /\ \A q \in DOMAIN rep \ {p} : AfterBadHash(p)[q] = rep[q]
<1> DEFINE e == Entry(p)
           new == [e EXCEPT
                    !.reliability = Push(@, 0),
                    !.strikes = @ + 1,
                    !.until = IF e.strikes + 1 = 3 THEN TempBan ELSE @,
                    !.session = @ \/ e.strikes + 1 >= 4]
<1>1. e \in Entries /\ e.session = (e.strikes >= 4)
  BY EntryType
<1>2. AfterBadHash(p) = With(rep, p, new)
  BY DEF AfterBadHash
<1> HIDE DEF e
<1>3. Push(e.reliability, 0) \in Windows(WindowSize)
  <2>1. e.reliability \in Windows(WindowSize)
    BY <1>1 DEF Entries
  <2> QED
    BY <2>1, PushType, Sizes
<1>4. /\ e.strikes + 1 \in Nat
      /\ (IF e.strikes + 1 = 3 THEN TempBan ELSE e.until) \in Nat \cup {None}
      /\ (e.session \/ e.strikes + 1 >= 4) \in BOOLEAN
      /\ (e.session \/ e.strikes + 1 >= 4) = (e.strikes + 1 >= 4)
  BY <1>1, Sizes DEF Entries
<1>5. /\ new \in Entries /\ new.strikes = e.strikes + 1
      /\ new.session = (e.session \/ e.strikes + 1 >= 4)
  BY <1>1, <1>3, <1>4 DEF Entries
<1> HIDE DEF new
<1> QED
  BY <1>2, <1>4, <1>5 DEF With, e

LEMMA ResponseType ==
    ASSUME TablesTyped, NEW p \in Peers, NEW age \in 0 .. MaxAge
    PROVE  /\ DOMAIN AfterResponse(p, age) \subseteq Peers
           /\ \A q \in DOMAIN AfterResponse(p, age) :
                  AfterResponse(p, age)[q] \in Windows(ResponseWindow)
<1> DEFINE old == IF p \in DOMAIN times THEN times[p] ELSE NewWindow(ResponseWindow)
<1>1. old \in Windows(ResponseWindow)
  BY NewWindowType, Sizes DEF TablesTyped
<1>2. Push(old, age) \in Windows(ResponseWindow)
  <2> HIDE DEF old
  <2>1. age \in Int
    OBVIOUS
  <2> QED
    BY <1>1, <2>1, PushType, Sizes
<1>3. AfterResponse(p, age) = With(times, p, Push(old, age))
  BY DEF AfterResponse
<1> HIDE DEF old
<1> QED
  BY <1>2, <1>3 DEF With, TablesTyped
----------------------------------------------------------------------------
(* Strikes and requests *)

\* A strike for every piece that failed since the entry was made, and the ban
\* of the session from the fourth on.
Struck == \A p \in Peers : /\ Entry(p).strikes = Cardinality(Fails(p))
                           /\ Entry(p).session = (Entry(p).strikes >= 4)

RepSound == Typed /\ Struck

LEMMA FailsFinite ==
    ASSUME TablesTyped, NEW p \in Peers
    PROVE  IsFiniteSet(Fails(p)) /\ Cardinality(Fails(p)) \in Nat
<1>1. outcomes[p] \in Seq(Int)
  BY DEF TablesTyped
<1>2. Len(outcomes[p]) \in Nat /\ Fails(p) \in SUBSET (1 .. Len(outcomes[p]))
  BY <1>1 DEF Fails
<1>3. IsFiniteSet(1 .. Len(outcomes[p]))
  BY <1>2, FS_Interval
<1> QED
  BY <1>2, <1>3, FS_Subset, FS_CardinalityType

\* What an outcome of p does to the failures.
LEMMA OutcomeFails ==
    ASSUME TablesTyped, NEW p \in Peers, NEW o \in Int,
           outcomes' = [outcomes EXCEPT ![p] = Append(@, o)]
    PROVE  /\ outcomes' \in [Peers -> Seq(Int)]
           /\ Cardinality(Fails(p))' = Cardinality(Fails(p)) + (IF o = Bad THEN 1 ELSE 0)
           /\ \A q \in Peers \ {p} : Cardinality(Fails(q))' = Cardinality(Fails(q))
<1> DEFINE old == outcomes[p]
<1>1. old \in Seq(Int) /\ outcomes \in [Peers -> Seq(Int)]
  BY DEF TablesTyped
<1>2. outcomes'[p] = Append(old, o) /\ Append(old, o) \in Seq(Int)
  BY <1>1
<1>3. outcomes' \in [Peers -> Seq(Int)] /\ \A q \in Peers \ {p} : outcomes'[q] = outcomes[q]
  BY <1>1, <1>2
<1>4. \A q \in Peers \ {p} : Fails(q)' = Fails(q)
  BY <1>3 DEF Fails
<1> HIDE DEF old
<1>5. /\ DOMAIN Append(old, o) = DOMAIN old \cup {Len(old) + 1} /\ Len(old) + 1 \notin DOMAIN old
      /\ Append(old, o)[Len(old) + 1] = o
      /\ \A k \in DOMAIN old : Append(old, o)[k] = old[k]
  BY <1>1
<1>6. Fails(p) = {k \in DOMAIN old : old[k] = Bad}
  BY DEF Fails, old
<1>7. Fails(p)' = {k \in DOMAIN Append(old, o) : Append(old, o)[k] = Bad}
  BY <1>2 DEF Fails
<1>8. Fails(p)' = Fails(p) \cup (IF o = Bad THEN {Len(old) + 1} ELSE {})
  BY <1>5, <1>6, <1>7
<1>9. Len(old) + 1 \notin Fails(p)
  BY <1>5, <1>6
<1>10. IsFiniteSet(Fails(p)) /\ Cardinality(Fails(p)) \in Nat
  BY FailsFinite
<1>11. Cardinality(Fails(p))' = Cardinality(Fails(p)')
  OBVIOUS
<1>12. CASE o = Bad
  BY <1>3, <1>4, <1>8, <1>9, <1>10, <1>11, <1>12, FS_AddElement
<1>13. CASE o # Bad
  BY <1>3, <1>4, <1>8, <1>10, <1>11, <1>13
<1> QED
  BY <1>12, <1>13

WaitersOf(waiting) ==
    /\ DOMAIN waiting \subseteq Pieces
    /\ \A i \in DOMAIN waiting : waiting[i] \in [peer : Peers, age : 0 .. MaxAge]

\* request_pieces adds requests to a peer that is not banned, and no others.
LEMMA RequestsAdded ==
    ASSUME NEW p \in Peers, NEW waiting, WaitersOf(waiting), RequestPieces(p, waiting)
    PROVE  /\ WaitersOf(stamps')
           /\ \A i \in DOMAIN stamps' :
                 \/ i \in DOMAIN waiting /\ stamps'[i] = waiting[i]
                 \/ stamps'[i] = Asked(p) /\ ~IsBanned(p)'
<1>1. CASE IsBanned(p)'
  BY <1>1 DEF RequestPieces
<1>2. CASE ~IsBanned(p)'
  <2>1. PICK picked \in SUBSET (Pieces \ (completed' \cup DOMAIN waiting)) :
          stamps' = [i \in DOMAIN waiting \cup picked |->
                        IF i \in picked THEN Asked(p) ELSE waiting[i]]
    BY <1>2 DEF RequestPieces
  <2>2. Asked(p) \in [peer : Peers, age : 0 .. MaxAge]
    BY Sizes DEF Asked
  <2>3. DOMAIN stamps' \subseteq Pieces
    BY <2>1 DEF WaitersOf
  <2>4. ASSUME NEW i \in DOMAIN stamps'
        PROVE  \/ i \in DOMAIN waiting /\ stamps'[i] = waiting[i]
               \/ stamps'[i] = Asked(p) /\ ~IsBanned(p)'
    BY <1>2, <2>1, <2>4
  <2> QED
    BY <2>2, <2>3, <2>4 DEF WaitersOf
<1> QED
  BY <1>1, <1>2

\* Requests that are only taken away.
LEMMA RequestsLeft ==
    ASSUME Typed, NEW S, S \subseteq DOMAIN stamps
    PROVE  WaitersOf(Restrict(stamps, S)) /\ WaitersOf(stamps)
           /\ DOMAIN Restrict(stamps, S) = S /\ \A i \in S : Restrict(stamps, S)[i] = stamps[i]
BY DEF Typed, WaitersTyped, WaitersOf, Restrict

\* What every step with a new request keeps to.
Asks(p) ==
    \A i \in DOMAIN stamps' :
        \/ i \in DOMAIN stamps /\ stamps'[i] = stamps[i]
        \/ stamps'[i] = Asked(p) /\ ~IsBanned(p)'

LEMMA AskingTyped ==
    ASSUME Typed, NEW p \in Peers, NEW T,
           \/ RequestPieces(p, Restrict(stamps, DOMAIN stamps \ T)) \/ RequestPieces(p, stamps)
           \/ stamps' = Restrict(stamps, DOMAIN stamps \ T)
    PROVE  WaitersOf(stamps') /\ Asks(p)
<1> DEFINE left == Restrict(stamps, DOMAIN stamps \ T)
<1>1. /\ WaitersOf(left) /\ WaitersOf(stamps)
      /\ DOMAIN left \subseteq DOMAIN stamps /\ \A i \in DOMAIN left : left[i] = stamps[i]
  BY RequestsLeft
<1> HIDE DEF left
<1>2. CASE RequestPieces(p, left)
  BY <1>1, <1>2, RequestsAdded DEF Asks
<1>3. CASE RequestPieces(p, stamps)
  BY <1>1, <1>3, RequestsAdded DEF Asks
<1>4. CASE stamps' = left
  BY <1>1, <1>4 DEF Asks
<1> QED
  BY <1>2, <1>3, <1>4 DEF left

\* The steps of the entries: strikes come with failures, and go with the peer.
LEMMA EntriesKept ==
    ASSUME RepSound, NEW p \in Peers, NEW new, new \in Entries,
           DOMAIN rep' = DOMAIN rep \cup {p}, rep'[p] = new,
           \A q \in DOMAIN rep \ {p} : rep'[q] = rep[q]
    PROVE  /\ DOMAIN rep' \subseteq Peers /\ \A q \in DOMAIN rep' : rep'[q] \in Entries
           /\ Entry(p)' = new /\ \A q \in Peers \ {p} : Entry(q)' = Entry(q)
<1>1. DOMAIN rep \subseteq Peers /\ \A q \in DOMAIN rep : rep[q] \in Entries
  BY DEF RepSound, Typed, TablesTyped
<1>2. Entry(p)' = new
  BY DEF Entry
<1>3. \A q \in Peers \ {p} : Entry(q)' = Entry(q)
  BY DEF Entry
<1> QED
  BY <1>1, <1>2, <1>3

LEMMA VerifiedSound ==
    ASSUME RepSound, NEW p \in Peers, NEW i \in Pieces, PieceVerified(p, i)
    PROVE  RepSound' /\ Asks(p) /\ \A q \in Peers : Entry(q)'.strikes = Entry(q).strikes
<1>0. Typed /\ Struck /\ TablesTyped
  BY DEF RepSound, Typed
<1>1. WaitersOf(stamps') /\ Asks(p)
  BY <1>0, AskingTyped DEF PieceVerified, Without
<1>2. WaitersTyped'
  BY <1>0, <1>1 DEF PieceVerified, WaitersTyped, WaitersOf, Typed
<1>3. CASE i \in DOMAIN stamps
  <2>0. PICK asked \in Peers, age \in 0 .. MaxAge : asked = stamps[i].peer /\ age = stamps[i].age
    BY <1>0, <1>3 DEF Typed, WaitersTyped
  <2>1. age \in Int /\ age # Bad
    BY DEF Bad
  <2>2. /\ rep' = AfterSuccess(asked, age) /\ times' = AfterResponse(asked, age)
        /\ outcomes' = [outcomes EXCEPT ![asked] = Append(@, age)]
    BY <1>3, <2>0 DEF PieceVerified
  <2>3. /\ DOMAIN rep' = DOMAIN rep \cup {asked} /\ rep'[asked] \in Entries
        /\ rep'[asked].strikes = Entry(asked).strikes
        /\ rep'[asked].session = Entry(asked).session
        /\ \A q \in DOMAIN rep \ {asked} : rep'[q] = rep[q]
    BY <1>0, <2>1, <2>2, SuccessType
  <2>4. /\ DOMAIN rep' \subseteq Peers /\ \A q \in DOMAIN rep' : rep'[q] \in Entries
        /\ Entry(asked)' = rep'[asked] /\ \A q \in Peers \ {asked} : Entry(q)' = Entry(q)
    BY <2>1, <2>3, EntriesKept
  <2>5. \A q \in Peers : /\ Entry(q)'.strikes = Entry(q).strikes
                         /\ Entry(q)'.session = Entry(q).session
    BY <2>3, <2>4
  <2>6. /\ outcomes' \in [Peers -> Seq(Int)]
        /\ \A q \in Peers : Cardinality(Fails(q))' = Cardinality(Fails(q))
    <3>1. /\ outcomes' \in [Peers -> Seq(Int)]
          /\ Cardinality(Fails(asked))' = Cardinality(Fails(asked)) + 0
          /\ \A q \in Peers \ {asked} : Cardinality(Fails(q))' = Cardinality(Fails(q))
      BY <1>0, <2>1, <2>2, OutcomeFails
    <3>2. Cardinality(Fails(asked)) \in Nat
      BY <1>0, <2>1, FailsFinite
    <3> QED
      BY <3>1, <3>2
  <2>7. TablesTyped'
    BY <1>0, <2>1, <2>2, <2>4, <2>6, ResponseType DEF TablesTyped
  <2>8. Struck'
    BY <1>0, <2>5, <2>6 DEF Struck
  <2> QED
    BY <1>1, <1>2, <2>5, <2>7, <2>8 DEF RepSound, Typed
<1>4. CASE i \notin DOMAIN stamps
  <2>1. UNCHANGED <<rep, times, outcomes>>
    BY <1>4 DEF PieceVerified
  <2>2. TablesTyped' /\ Struck' /\ \A q \in Peers : Entry(q)'.strikes = Entry(q).strikes
    BY <1>0, <2>1 DEF TablesTyped, Struck, Entry, Fails
  <2> QED
    BY <1>1, <1>2, <2>2 DEF RepSound, Typed
<1> QED
  BY <1>3, <1>4

LEMMA FailedSound ==
    ASSUME RepSound, NEW p \in Peers, NEW i \in Pieces, PieceFailed(p, i)
    PROVE  RepSound' /\ Asks(p) /\ \A q \in Peers : Entry(q)'.strikes >= Entry(q).strikes
<1>0. Typed /\ Struck /\ TablesTyped
  BY DEF RepSound, Typed
<1>1. WaitersOf(stamps') /\ Asks(p)
  BY <1>0, AskingTyped DEF PieceFailed, Without
<1>2. WaitersTyped'
  BY <1>0, <1>1 DEF PieceFailed, WaitersTyped, WaitersOf, Typed
<1>3. Entry(p).session = (Entry(p).strikes >= 4) /\ Entry(p).strikes = Cardinality(Fails(p))
  BY <1>0 DEF Struck
<1>4. rep' = AfterBadHash(p) /\ outcomes' = [outcomes EXCEPT ![p] = Append(@, Bad)]
      /\ times' = times
  BY DEF PieceFailed
<1>5. /\ DOMAIN rep' = DOMAIN rep \cup {p} /\ rep'[p] \in Entries
      /\ rep'[p].strikes = Entry(p).strikes + 1
      /\ rep'[p].session = (Entry(p).strikes + 1 >= 4)
      /\ \A q \in DOMAIN rep \ {p} : rep'[q] = rep[q]
  BY <1>0, <1>3, <1>4, BadHashType
<1>6. /\ DOMAIN rep' \subseteq Peers /\ \A q \in DOMAIN rep' : rep'[q] \in Entries
      /\ Entry(p)' = rep'[p] /\ \A q \in Peers \ {p} : Entry(q)' = Entry(q)
  BY <1>5, EntriesKept
<1>7. /\ outcomes' \in [Peers -> Seq(Int)]
      /\ Cardinality(Fails(p))' = Cardinality(Fails(p)) + 1
      /\ \A q \in Peers \ {p} : Cardinality(Fails(q))' = Cardinality(Fails(q))
  <2>1. Bad \in Int
    BY DEF Bad
  <2> QED
    BY <1>0, <1>4, <2>1, OutcomeFails
<1>8. \A q \in Peers : Entry(q).strikes \in Nat
  BY <1>0, EntryType DEF Entries
<1>9. TablesTyped'
  BY <1>0, <1>4, <1>6, <1>7 DEF TablesTyped
<1>10. Struck'
  BY <1>0, <1>3, <1>5, <1>6, <1>7 DEF Struck
<1> QED
  BY <1>1, <1>2, <1>5, <1>6, <1>8, <1>9, <1>10 DEF RepSound, Typed

LEMMA LeavesSound ==
    ASSUME RepSound, NEW p \in Peers, PeerDisconnected(p)
    PROVE  RepSound' /\ \A i \in DOMAIN stamps' : i \in DOMAIN stamps /\ stamps'[i] = stamps[i]
<1>0. Typed /\ Struck /\ TablesTyped /\ WaitersTyped
  BY DEF RepSound, Typed
<1>1. /\ WaitersOf(stamps')
      /\ \A i \in DOMAIN stamps' : i \in DOMAIN stamps /\ stamps'[i] = stamps[i]
  <2> DEFINE S == {i \in DOMAIN stamps : stamps[i].peer # p}
  <2>1. stamps' = Restrict(stamps, S) /\ S \subseteq DOMAIN stamps
    BY DEF PeerDisconnected
  <2> HIDE DEF S
  <2>2. /\ DOMAIN stamps' = S /\ \A i \in S : stamps'[i] = stamps[i]
    BY <2>1 DEF Restrict
  <2> QED
    BY <1>0, <2>1, <2>2 DEF WaitersOf, WaitersTyped
<1>2. WaitersTyped'
  BY <1>0, <1>1 DEF PeerDisconnected, WaitersTyped, WaitersOf
<1>3. /\ DOMAIN rep' = DOMAIN rep \ {p} /\ \A q \in DOMAIN rep' : rep'[q] = rep[q]
      /\ DOMAIN times' = DOMAIN times \ {p} /\ \A q \in DOMAIN times' : times'[q] = times[q]
  BY DEF PeerDisconnected, Without, Restrict
<1>4. outcomes' \in [Peers -> Seq(Int)] /\ outcomes'[p] = <<>>
      /\ \A q \in Peers \ {p} : outcomes'[q] = outcomes[q]
  BY <1>0 DEF PeerDisconnected, TablesTyped
<1>5. TablesTyped'
  BY <1>0, <1>3, <1>4 DEF TablesTyped
<1>6. Struck'
  <2>1. ASSUME NEW q \in Peers \ {p}
        PROVE  Entry(q)' = Entry(q) /\ Cardinality(Fails(q))' = Cardinality(Fails(q))
    <3>1. Fails(q)' = Fails(q)
      BY <1>4 DEF Fails
    <3> QED
      BY <1>3, <3>1 DEF Entry
  <2>2. Entry(p)' = NewEntry
    BY <1>3 DEF Entry
  <2>3. Cardinality(Fails(p))' = 0
    <3>1. Fails(p)' = {}
      BY <1>4 DEF Fails
    <3> QED
      BY <3>1, FS_EmptySet
  <2> QED
    BY <1>0, <2>1, <2>2, <2>3, NewEntryStruck DEF Struck
<1> QED
  BY <1>1, <1>2, <1>5, <1>6 DEF RepSound, Typed

LEMMA TickSound ==
    ASSUME RepSound, Tick
    PROVE  RepSound'
<1>0. Typed /\ Struck /\ TablesTyped /\ WaitersTyped
  BY DEF RepSound, Typed
<1>1. /\ DOMAIN stamps' = DOMAIN stamps
      /\ \A i \in DOMAIN stamps : stamps'[i] = [stamps[i] EXCEPT !.age = @ + 1]
                                /\ stamps[i].age < MaxAge
  BY DEF Tick
<1>2. WaitersTyped'
  <2>1. \A i \in DOMAIN stamps : stamps'[i] \in [peer : Peers, age : 0 .. MaxAge]
    BY <1>0, <1>1, Sizes DEF WaitersTyped
  <2> QED
    BY <1>0, <1>1, <2>1 DEF Tick, WaitersTyped
<1>3. /\ DOMAIN rep' = DOMAIN rep
      /\ \A p \in DOMAIN rep :
            rep'[p] = [rep[p] EXCEPT !.until = IF @ > 0 THEN @ - 1 ELSE @]
  BY DEF Tick
<1>4. \A p \in DOMAIN rep : /\ rep'[p] \in Entries /\ rep'[p].strikes = rep[p].strikes
                           /\ rep'[p].session = rep[p].session
  BY <1>0, <1>3 DEF TablesTyped, Entries, None
<1>5. TablesTyped'
  BY <1>0, <1>3, <1>4 DEF Tick, TablesTyped
<1>6. Struck'
  <2>1. \A p \in Peers : Fails(p)' = Fails(p)
    BY DEF Tick, Fails
  <2>2. \A p \in Peers : Entry(p)'.strikes = Entry(p).strikes /\ Entry(p)'.session = Entry(p).session
    BY <1>3, <1>4 DEF Entry
  <2> QED
    BY <1>0, <2>1, <2>2 DEF Struck
<1> QED
  BY <1>2, <1>5, <1>6 DEF RepSound, Typed

\* The stale check asks those whom rank_peers ranks: none that is banned.
LEMMA StaleSound ==
    ASSUME RepSound, StaleCheck
    PROVE  /\ RepSound'
           /\ \A i \in DOMAIN stamps' :
                \/ i \in DOMAIN stamps /\ stamps'[i] = stamps[i]
                \/ stamps'[i].peer \in Peers /\ ~IsBanned(stamps'[i].peer)
           /\ UNCHANGED <<rep, outcomes>>
<1>0. Typed /\ Struck /\ TablesTyped /\ WaitersTyped
  BY DEF RepSound, Typed
<1> DEFINE stale == {i \in DOMAIN stamps : Stale(i)}
           best(i) == Best(unchoked \ {stamps[i].peer})
           again == {i \in stale : best(i) # {}}
<1>1. UNCHANGED <<rep, times, unchoked, conn, completed, outcomes>>
  BY DEF StaleCheck
<1>2. PICK pick \in [again -> unchoked] :
        /\ \A i \in again : pick[i] \in best(i)
        /\ stamps' = [i \in DOMAIN stamps \ (stale \ again) |->
                            IF i \in again THEN Asked(pick[i]) ELSE stamps[i]]
  BY DEF StaleCheck
<1>3. \A i \in again : pick[i] \in Peers /\ ~IsBanned(pick[i])
  BY <1>0, <1>2 DEF Best, WaitersTyped
<1>4. \A p \in Peers : Asked(p).peer = p /\ Asked(p) \in [peer : Peers, age : 0 .. MaxAge]
  BY Sizes DEF Asked
<1>5. DOMAIN stamps' \subseteq DOMAIN stamps
  BY <1>2
<1>6. \A i \in DOMAIN stamps' :
        \/ stamps'[i] = stamps[i]
        \/ /\ stamps'[i].peer \in Peers /\ ~IsBanned(stamps'[i].peer)
           /\ stamps'[i] \in [peer : Peers, age : 0 .. MaxAge]
  <2> HIDE DEF stale, again
  <2> QED
    BY <1>2, <1>3, <1>4
<1>7. WaitersTyped'
  BY <1>0, <1>1, <1>5, <1>6 DEF WaitersTyped
<1>8. TablesTyped' /\ Struck'
  BY <1>0, <1>1 DEF TablesTyped, Struck, Entry, Fails
<1> QED
  BY <1>1, <1>5, <1>6, <1>7, <1>8 DEF RepSound, Typed

LEMMA ChokingSound ==
    ASSUME RepSound, NEW p \in Peers, Unchoked(p) \/ Choked(p)
    PROVE  RepSound' /\ Asks(p) /\ UNCHANGED <<rep, outcomes>>
<1>0. Typed /\ Struck /\ TablesTyped /\ WaitersTyped
  BY DEF RepSound, Typed
<1>1. UNCHANGED <<rep, times, conn, completed, outcomes>> /\ unchoked' \subseteq Peers
  BY <1>0 DEF Unchoked, Choked, WaitersTyped
<1>2. TablesTyped' /\ Struck'
  BY <1>0, <1>1 DEF TablesTyped, Struck, Entry, Fails
<1>3. WaitersOf(stamps') /\ Asks(p)
  <2>1. CASE Unchoked(p)
    BY <1>0, <2>1, AskingTyped DEF Unchoked
  <2>2. CASE Choked(p)
    BY <1>0, <2>2 DEF Choked, Asks, WaitersOf, WaitersTyped
  <2> QED
    BY <2>1, <2>2
<1>4. WaitersTyped'
  BY <1>0, <1>1, <1>3 DEF WaitersTyped, WaitersOf
<1> QED
  BY <1>1, <1>2, <1>3, <1>4 DEF RepSound, Typed

LEMMA InitSound == Init => RepSound
<1> SUFFICES ASSUME Init PROVE RepSound
  OBVIOUS
<1>1. TablesTyped
  BY DEF Init, NoEntry, TablesTyped
<1>2. WaitersTyped
  BY Sizes DEF Init, WaitersTyped
<1>3. \A p \in Peers : Entry(p) = NewEntry
  BY DEF Init, NoEntry, Entry
<1>4. \A p \in Peers : Fails(p) = {}
  BY DEF Init, Fails
<1>5. Struck
  BY <1>3, <1>4, NewEntryStruck, FS_EmptySet DEF Struck
<1> QED
  BY <1>1, <1>2, <1>5 DEF RepSound, Typed

LEMMA NextSound == RepSound /\ [Next]_vars => RepSound'
<1> SUFFICES ASSUME RepSound, [Next]_vars PROVE RepSound'
  OBVIOUS
<1>1. ASSUME NEW p \in Peers, \/ Unchoked(p) \/ Choked(p) \/ PeerDisconnected(p)
                             \/ \E i \in Pieces : PieceVerified(p, i) \/ PieceFailed(p, i)
      PROVE  RepSound'
  BY <1>1, ChokingSound, LeavesSound, VerifiedSound, FailedSound
<1>2. CASE UNCHANGED vars
  BY <1>2 DEF vars, RepSound, Typed, TablesTyped, WaitersTyped, Struck, Entry, Fails
<1> QED
  BY <1>1, <1>2, StaleSound, TickSound DEF Next

\* The tables of ReputationManager and SwarmIntel keep their types, and no window's
\* cursor or count leaves its slots, whoever is asked, answers, fails and leaves.
THEOREM TypeCorrect == Spec => []Typed
<1>1. RepSound => Typed
  BY DEF RepSound
<1> QED
  BY <1>1, InitSound, NextSound, PTL DEF Spec

\* What a new request says of the peer that is asked.
LEMMA AskedIsNotBanned ==
    ASSUME RepSound', NEW p \in Peers, ~IsBanned(p)'
    PROVE  Entry(p)'.strikes < 4 /\ Entry(p)'.strikes \in Nat
<1>1. Entry(p)'.session = (Entry(p)'.strikes >= 4) /\ ~Entry(p)'.session
  BY DEF RepSound, Struck, IsBanned
<1>2. Entry(p)' \in Entries
  BY NewEntryType DEF RepSound, Typed, TablesTyped, Entry
<1> QED
  BY <1>1, <1>2 DEF Entries

\* No request waits for a peer of whom four pieces have failed before it leaves:
\* request_pieces and the stale check look at the ban of the session, which no other
\* answer, no end of a temporary ban and no unchoking lifts.
THEOREM BlacklistCorrect == Spec => BlacklistHolds
<1> DEFINE Fresh(i) == i \notin DOMAIN stamps \/ stamps'[i].peer # stamps[i].peer
                                            \/ stamps'[i].age < stamps[i].age
           Held == \A i \in DOMAIN stamps' :
                        Fresh(i) => Cardinality(Fails(stamps'[i].peer)) < 4
<1>1. ASSUME RepSound, [Next]_vars PROVE [Held]_vars
  <2>1. \A p \in Peers : Cardinality(Fails(p)) = Entry(p).strikes /\ Entry(p).strikes \in Nat
    BY <1>1, EntryType DEF RepSound, Struck, Typed, Entries
  <2>2. \A i \in DOMAIN stamps : stamps[i].age \in Nat
    BY <1>1, Sizes DEF RepSound, Typed, WaitersTyped
  <2>3. \A i \in DOMAIN stamps : stamps'[i] = stamps[i] => ~Fresh(i)
    BY <2>2
  <2>4. RepSound'
    BY <1>1, NextSound
  <2>5. ASSUME NEW p \in Peers, Asks(p), \A q \in Peers : Entry(q)'.strikes >= Entry(q).strikes
        PROVE  Held
    <3> SUFFICES ASSUME NEW i \in DOMAIN stamps', Fresh(i)
                 PROVE  Cardinality(Fails(stamps'[i].peer)) < 4
      OBVIOUS
    <3>1. stamps'[i] = Asked(p) /\ ~IsBanned(p)'
      BY <2>3, <2>5 DEF Asks
    <3>2. stamps'[i].peer = p
      BY <3>1 DEF Asked
    <3>3. Entry(p)'.strikes < 4 /\ Entry(p)'.strikes \in Nat
      BY <2>4, <3>1, AskedIsNotBanned
    <3> QED
      BY <2>1, <2>5, <3>2, <3>3
  <2>6. ASSUME NEW p \in Peers, \/ Unchoked(p) \/ Choked(p)
                               \/ \E i \in Pieces : PieceVerified(p, i) \/ PieceFailed(p, i)
        PROVE  Held
    <3>1. Asks(p)
      BY <1>1, <2>6, ChokingSound, VerifiedSound, FailedSound
    <3>2. \A q \in Peers : Entry(q)'.strikes >= Entry(q).strikes
      <4>1. CASE Unchoked(p) \/ Choked(p)
        <5>1. \A q \in Peers : Entry(q)' = Entry(q)
          BY <1>1, <4>1, ChokingSound DEF Entry
        <5> QED
          BY <2>1, <5>1
      <4>2. CASE \E i \in Pieces : PieceVerified(p, i)
        BY <1>1, <2>1, <4>2, VerifiedSound
      <4>3. CASE \E i \in Pieces : PieceFailed(p, i)
        BY <1>1, <4>3, FailedSound
      <4> QED
        BY <2>6, <4>1, <4>2, <4>3
    <3> QED
      BY <2>5, <3>1, <3>2
  <2>7. ASSUME NEW p \in Peers, PeerDisconnected(p) PROVE Held
    BY <1>1, <2>3, <2>7, LeavesSound
  <2>8. CASE StaleCheck
    <3> SUFFICES ASSUME NEW i \in DOMAIN stamps', Fresh(i)
                 PROVE  Cardinality(Fails(stamps'[i].peer)) < 4
      OBVIOUS
    <3>1. PICK p : p = stamps'[i].peer
      OBVIOUS
    <3>2. p \in Peers /\ ~IsBanned(p)
      BY <1>1, <2>3, <2>8, <3>1, StaleSound
    <3>3. Entry(p).session = (Entry(p).strikes >= 4)
      BY <1>1, <3>2 DEF RepSound, Struck
    <3>4. ~Entry(p).session
      BY <3>2 DEF IsBanned
    <3>5. Cardinality(Fails(p)) < 4
      <4>1. ~(Entry(p).strikes >= 4)
        BY <3>3, <3>4, Zenon
      <4> QED
        BY <2>1, <3>2, <4>1
    <3> QED
      BY <3>1, <3>5
  <2>9. CASE Tick
    <3>1. \A i \in DOMAIN stamps : stamps[i] \in [peer : Peers, age : 0 .. MaxAge]
      BY <1>1 DEF RepSound, Typed, WaitersTyped
    <3>2. /\ DOMAIN stamps' = DOMAIN stamps
          /\ \A i \in DOMAIN stamps : stamps'[i] = [stamps[i] EXCEPT !.age = @ + 1]
      BY <2>9 DEF Tick
    <3>3. \A i \in DOMAIN stamps : stamps'[i].peer = stamps[i].peer /\ stamps'[i].age = stamps[i].age + 1
      BY <3>1, <3>2
    <3> QED
      BY <2>2, <3>2, <3>3
  <2>10. CASE UNCHANGED vars
    BY <2>10
  <2> QED
    BY <1>1, <2>6, <2>7, <2>8, <2>9, <2>10 DEF Next
<1>2. RepSound /\ [Next]_vars => [Held]_vars
  BY <1>1
<1>3. Spec => []RepSound
  BY InitSound, NextSound, PTL DEF Spec
<1> QED
  BY <1>2, <1>3, PTL DEF Spec, BlacklistHolds

----------------------------------------------------------------------------
(* Pipelines *)

LEMMA DepthMonotone ==
    ASSUME NEW n \in Nat, NEW r1 \in Nat, NEW r2 \in Nat, r1 >= r2, n > 0
    PROVE  DepthOf(r1, n) >= DepthOf(r2, n)
BY DEF DepthOf

\* More measured peers are slower than the faster one.
LEMMA RankFollowsSpeed ==
    ASSUME Typed, NEW p \in Measured, NEW q \in Measured, Speed(p) >= Speed(q)
    PROVE  /\ Rank(p) \in Nat /\ Rank(q) \in Nat /\ Rank(p) >= Rank(q)
           /\ Cardinality(Measured) \in Nat \ {0}
<1> DEFINE slower(x) == {m \in Measured : Speed(m) < Speed(x)}
<1>1. \A x : Speed(x) \in Int
  <2>1. \A x : Entry(x).speed \in Windows(WindowSize)
    BY EntryType DEF Typed, Entries
  <2> QED
    BY <2>1, Sizes, MedianType DEF Speed
<1>2. Measured \in SUBSET Peers /\ IsFiniteSet(Peers)
  BY ConstantsAssumption DEF Measured, Typed, TablesTyped
<1>3. IsFiniteSet(Measured) /\ Cardinality(Measured) \in Nat \ {0}
  <2>1. IsFiniteSet(Measured)
    BY <1>2, FS_Subset
  <2> QED
    BY <2>1, FS_CardinalityType, FS_EmptySet
<1>4. Rank(p) = Cardinality(slower(p)) /\ Rank(q) = Cardinality(slower(q))
  BY <1>1 DEF Rank
<1>5. slower(p) \in SUBSET Measured /\ slower(q) \in SUBSET slower(p)
  BY <1>1
<1> HIDE DEF slower
<1>6. IsFiniteSet(slower(p)) /\ IsFiniteSet(slower(q)) /\ Cardinality(slower(q)) <= Cardinality(slower(p))
  BY <1>3, <1>5, FS_Subset
<1> QED
  BY <1>3, <1>4, <1>6, FS_CardinalityType

\* Of two peers measured, the faster is asked for no fewer pieces at a time, whatever
\* the windows hold: the median of a window is a number, and ranks follow the speeds.
THEOREM DepthFollowsSpeedCorrect == Spec => []DepthFollowsSpeed
<1>1. ASSUME RepSound PROVE DepthFollowsSpeed
  <2> SUFFICES ASSUME NEW p \in Measured, NEW q \in Measured, Speed(p) >= Speed(q),
                      Entry(p).strikes < 2, Entry(q).strikes < 2
               PROVE  PipelineDepth(p) >= PipelineDepth(q)
    BY DEF DepthFollowsSpeed
  <2>1. /\ Rank(p) \in Nat /\ Rank(q) \in Nat /\ Rank(p) >= Rank(q)
        /\ Cardinality(Measured) \in Nat \ {0}
    BY <1>1, RankFollowsSpeed DEF RepSound
  <2>2. \A x \in {p, q} : PipelineDepth(x) = DepthOf(Rank(x), Cardinality(Measured))
    <3>1. \A x \in {p, q} : Speed(x) # 0 /\ Measured # {}
      BY DEF Measured
    <3>2. \A x \in {p, q} : Entry(x).strikes # 2 /\ ~(Entry(x).strikes > 2)
      <4>1. \A x \in {p, q} : Entry(x).strikes \in Nat
        BY <1>1, EntryType DEF RepSound, Typed, Entries
      <4> QED
        BY <4>1
    <3> QED
      BY <3>1, <3>2 DEF PipelineDepth
  <2> QED
    BY <2>1, <2>2, DepthMonotone
<1>2. RepSound => DepthFollowsSpeed
  BY <1>1
<1> QED
  BY <1>2, InitSound, NextSound, PTL DEF Spec

----------------------------------------------------------------------------
(* What the windows hold *)

\* The slot of the value pushed k pushes before the last one.
Slot(w, n, k) == IF k < w.cursor THEN w.cursor - 1 - k ELSE w.cursor - 1 - k + n

\* q lists the last c of a set of positions from its end back: the first ones are missing
\* only where all n slots are used.
GoesBack(q, c, n, S) ==
    LET K == 0 .. c - 1 IN
    /\ q \in [K -> S]
    /\ \A j, k \in K : j < k => q[k] < q[j]
    /\ \A h \in S : (\E k \in K : q[k] = h) \/ (c = n /\ \A k \in K : h < q[k])

\* The slots, from the last one filled back, hold the values of the history from its end back.
Tracks(w, n, history, q) ==
    /\ GoesBack(q, w.count, n, DOMAIN history)
    /\ \A k \in 0 .. w.count - 1 : w.values[Slot(w, n, k)] = history[q[k]]

Recorded(w, n, history) ==
    /\ w.count < n => w.cursor = w.count
    /\ \E q : Tracks(w, n, history, q)

LEMMA NewRecords ==
    ASSUME NEW n \in Nat \ {0}, NEW history, DOMAIN history = {}
    PROVE  Recorded(NewWindow(n), n, history)
<1> DEFINE w == NewWindow(n)
           q == [k \in 0 .. -1 |-> 0]
<1>1. w.count = 0 /\ w.cursor = 0
  BY DEF NewWindow
<1>2. 0 .. w.count - 1 = {} /\ q = [k \in {} |-> 0]
  BY <1>1
<1> HIDE DEF w, q
<1>3. Tracks(w, n, history, q)
  BY <1>2 DEF Tracks, GoesBack
<1> QED
  BY <1>1, <1>3 DEF Recorded, w

LEMMA NextCursor ==
    ASSUME NEW n \in Nat \ {0}, NEW c \in 0 .. n - 1
    PROVE  (c + 1) % n = IF c + 1 = n THEN 0 ELSE c + 1
<1>1. CASE c + 1 = n
  <2>1. n % n = 0
    OBVIOUS
  <2> QED
    BY <1>1, <2>1
<1>2. CASE c + 1 # n
  <2> DEFINE x == c + 1
  <2>1. x \in 0 .. n - 1
    BY <1>2
  <2> HIDE DEF x
  <2>2. x % n = x
    BY <2>1
  <2> QED
    BY <1>2, <2>2 DEF x
<1> QED
  BY <1>1, <1>2

\* The history goes on with v at m.
Grows(old, new, m, v) ==
    /\ DOMAIN new = DOMAIN old \cup {m}
    /\ new[m] = v
    /\ \A k \in DOMAIN old : new[k] = old[k]

LEMMA PushRecords ==
    ASSUME NEW n \in Nat \ {0}, NEW w \in Windows(n), NEW v \in Int, NEW m \in Nat,
           NEW old, NEW new, Grows(old, new, m, v), DOMAIN old \subseteq 1 .. m - 1,
           Recorded(w, n, old)
    PROVE  Recorded(Push(w, v), n, new)
<1> DEFINE u == Push(w, v)
           K == 0 .. w.count - 1
           L == 0 .. u.count - 1
<1>0. PICK q : Tracks(w, n, old, q)
  BY DEF Recorded
<1> DEFINE r == [k \in L |-> IF k = 0 THEN m ELSE q[k - 1]]
<1>1. /\ w.values \in [0 .. n - 1 -> Int] /\ w.cursor \in 0 .. n - 1 /\ w.count \in 0 .. n
      /\ Capacity(w) = n /\ (w.count < n => w.cursor = w.count)
  BY CapacityOf DEF Windows, Recorded
<1>2. (w.cursor + 1) % n = IF w.cursor + 1 = n THEN 0 ELSE w.cursor + 1
  BY <1>1, NextCursor
<1>3. /\ u.values = [w.values EXCEPT ![w.cursor] = v]
      /\ u.cursor = IF w.cursor + 1 = n THEN 0 ELSE w.cursor + 1
      /\ u.count = IF w.count < n THEN w.count + 1 ELSE w.count
  BY <1>1, <1>2 DEF Push
<1> HIDE DEF u
<1>4. u.count < n => u.cursor = u.count
  BY <1>1, <1>3
<1>5. /\ q \in [K -> DOMAIN old] /\ \A j, k \in K : j < k => q[k] < q[j]
      /\ \A k \in K : w.values[Slot(w, n, k)] = old[q[k]]
      /\ \A h \in DOMAIN old : (\E k \in K : q[k] = h) \/ (w.count = n /\ \A k \in K : h < q[k])
  BY <1>0 DEF Tracks, GoesBack
<1>6. ASSUME NEW k \in L, k # 0 PROVE k - 1 \in K /\ r[k] = q[k - 1] /\ q[k - 1] \in DOMAIN old
  <2>1. k - 1 \in K
    BY <1>1, <1>3, <1>6
  <2>2. r[k] = q[k - 1]
    BY <1>6
  <2> HIDE DEF K, r
  <2> QED
    BY <1>5, <2>1, <2>2
<1>7. 0 \in L /\ r[0] = m
  BY <1>1, <1>3
<1>8. r \in [L -> DOMAIN new]
  <2>1. \A k \in L : r[k] \in DOMAIN new
    BY <1>6, <1>7 DEF Grows
  <2> QED
    BY <2>1
<1>9. ASSUME NEW j \in L, NEW k \in L, j < k PROVE r[k] < r[j]
  <2>1. k # 0 /\ k - 1 \in K /\ r[k] = q[k - 1] /\ q[k - 1] \in 1 .. m - 1
    <3>1. k # 0
      BY <1>9
    <3> HIDE DEF K, L, r
    <3> QED
      BY <1>6, <3>1
  <2>2. CASE j = 0
    BY <1>7, <2>1, <2>2
  <2>3. CASE j # 0
    <3>1. j - 1 < k - 1
      BY <1>9
    <3> HIDE DEF K, L, r
    <3> QED
      BY <1>5, <1>6, <2>1, <2>3, <3>1
  <2> QED
    BY <2>2, <2>3
<1>10. ASSUME NEW k \in L PROVE u.values[Slot(u, n, k)] = new[r[k]]
  <2>1. CASE k = 0
    <3>1. Slot(u, n, 0) = w.cursor
      BY <1>1, <1>3 DEF Slot
    <3>2. u.values[w.cursor] = v
      BY <1>1, <1>3
    <3> QED
      BY <1>7, <2>1, <3>1, <3>2 DEF Grows
  <2>2. CASE k # 0
    <3>1. k - 1 \in K /\ r[k] = q[k - 1] /\ q[k - 1] \in DOMAIN old
      BY <1>6, <2>2
    <3>2. Slot(u, n, k) = Slot(w, n, k - 1)
      <4>1. k \in Int /\ k > 0 /\ w.cursor \in Int /\ n \in Int
        BY <1>1, <2>2
      <4>2. CASE w.cursor + 1 = n
        <5>1. u.cursor = 0 /\ ~(k < 0)
          BY <1>3, <4>1, <4>2
        <5>2. k - 1 < w.cursor
          BY <1>1, <1>3, <4>1, <4>2
        <5>3. Slot(u, n, k) = 0 - 1 - k + n /\ Slot(w, n, k - 1) = w.cursor - 1 - (k - 1)
          BY <5>1, <5>2 DEF Slot
        <5> QED
          BY <4>1, <4>2, <5>3
      <4>3. CASE w.cursor + 1 # n
        <5>1. u.cursor = w.cursor + 1
          BY <1>3, <4>3
        <5> QED
          BY <4>1, <5>1 DEF Slot
      <4> QED
        BY <4>2, <4>3
    <3>3. Slot(w, n, k - 1) \in 0 .. n - 1 /\ Slot(w, n, k - 1) # w.cursor
      <4>1. /\ k - 1 \in Int /\ 0 <= k - 1 /\ k - 1 <= w.count - 1 /\ w.cursor \in Int /\ n \in Int
            /\ w.cursor >= 0 /\ w.cursor < n /\ w.count \in Int /\ w.count <= n
            /\ (w.count < n => w.cursor = w.count)
        BY <1>1, <3>1
      <4>2. k <= n - 1
        BY <1>1, <1>3
      <4> QED
        BY <4>1, <4>2 DEF Slot
    <3>4. u.values[Slot(w, n, k - 1)] = w.values[Slot(w, n, k - 1)]
      BY <1>1, <1>3, <3>3
    <3> QED
      BY <1>5, <3>1, <3>2, <3>4 DEF Grows
  <2> QED
    BY <2>1, <2>2
<1>11. ASSUME NEW h \in DOMAIN new
       PROVE  (\E k \in L : r[k] = h) \/ (u.count = n /\ \A k \in L : h < r[k])
  <2>1. CASE h = m
    BY <1>7, <2>1
  <2>2. CASE h \in DOMAIN old /\ \E k \in K : q[k] = h
    <3>1. PICK k \in K : q[k] = h
      BY <2>2
    <3>2. CASE k + 1 \in L
      <4>1. k + 1 # 0 /\ (k + 1) - 1 = k
        BY <1>1
      <4> QED
        BY <1>6, <3>1, <3>2, <4>1
    <3>3. CASE k + 1 \notin L
      <4>1. w.count = n /\ k = n - 1 /\ u.count = n
        BY <1>1, <1>3, <3>3
      <4>2. ASSUME NEW j \in L PROVE h < r[j]
        <5>1. CASE j = 0
          BY <1>7, <2>2, <5>1
        <5>2. CASE j # 0
          BY <1>1, <1>5, <1>6, <3>1, <4>1, <5>2
        <5> QED
          BY <5>1, <5>2
      <4> QED
        BY <4>1, <4>2
    <3> QED
      BY <3>2, <3>3
  <2>3. CASE h \in DOMAIN old /\ w.count = n /\ \A k \in K : h < q[k]
    <3>1. u.count = n
      BY <1>3, <2>3
    <3>2. ASSUME NEW j \in L PROVE h < r[j]
      <4>1. CASE j = 0
        BY <1>7, <2>3, <4>1
      <4>2. CASE j # 0
        BY <1>6, <2>3, <4>2
      <4> QED
        BY <4>1, <4>2
    <3> QED
      BY <3>1, <3>2
  <2> QED
    BY <1>5, <2>1, <2>2, <2>3 DEF Grows
<1>12. Tracks(u, n, new, r)
  <2> HIDE DEF r
  <2> QED
    BY <1>8, <1>9, <1>10, <1>11 DEF Tracks, GoesBack
<1> QED
  BY <1>4, <1>12 DEF Recorded, u

\* The positions a window keeps are the last n of its history.
LEMMA LastKept ==
    ASSUME NEW n \in Nat \ {0}, NEW S, S \subseteq Nat, IsFiniteSet(S), NEW c \in 0 .. n,
           NEW q, GoesBack(q, c, n, S)
    PROVE  \A h \in S : h \in Recent(S, n) <=> \E k \in 0 .. c - 1 : q[k] = h
<1> DEFINE K == 0 .. c - 1
           after(h) == {x \in S : x > h}
<1> USE DEF GoesBack
<1>0. K \subseteq Nat /\ \A k \in K : q[k] \in S /\ q[k] \in Nat
  <2>1. K \subseteq Nat
    OBVIOUS
  <2>2. \A k \in K : q[k] \in S
    OBVIOUS
  <2> QED
    BY <2>1, <2>2
<1>1. \A h : IsFiniteSet(after(h)) /\ Cardinality(after(h)) \in Nat
  <2> SUFFICES ASSUME NEW h PROVE IsFiniteSet(after(h)) /\ Cardinality(after(h)) \in Nat
    OBVIOUS
  <2>1. after(h) \in SUBSET S
    OBVIOUS
  <2> HIDE DEF after
  <2> QED
    BY <2>1, FS_Subset, FS_CardinalityType
<1>2. ASSUME NEW k \in K PROVE Cardinality(after(q[k])) < n
  <2> DEFINE J == 0 .. k - 1
             T == {q[j] : j \in J}
             f == [j \in J |-> q[j]]
  <2>1. J \subseteq K /\ k \in Nat /\ k < n
    OBVIOUS
  <2>2. IsFiniteSet(J) /\ Cardinality(J) = k
    <3>1. 0 \in Int /\ k - 1 \in Int
      BY <2>1
    <3>2. IsFiniteSet(J) /\ Cardinality(J) = IF 0 > k - 1 THEN 0 ELSE k - 1 - 0 + 1
      BY <3>1, FS_Interval
    <3> HIDE DEF J
    <3> QED
      BY <2>1, <3>2
  <2>3. f \in Surjection(J, T)
    BY DEF Surjection
  <2>4. IsFiniteSet(T) /\ Cardinality(T) <= k
    <3> HIDE DEF f, J, T
    <3> QED
      BY <2>2, <2>3, FS_Surjection
  <2>5. after(q[k]) \in SUBSET T
    <3> SUFFICES ASSUME NEW x \in S, x > q[k] PROVE x \in T
      OBVIOUS
    <3>1. x \in Nat /\ q[k] \in Nat /\ ~(x < q[k])
      BY <1>0
    <3>2. PICK j \in K : q[j] = x
      BY <3>1
    <3>3. j \in Nat /\ k \in Nat /\ ~(k < j) /\ k # j
      <4>1. j \in Nat /\ k \in Nat
        BY <1>0
      <4>2. k < j => q[j] < q[k]
        OBVIOUS
      <4> QED
        BY <3>1, <3>2, <4>1, <4>2
    <3>4. j \in J
      BY <3>3
    <3> QED
      BY <3>2, <3>4
  <2>6. Cardinality(after(q[k])) <= Cardinality(T)
    <3> HIDE DEF after, T
    <3> QED
      BY <2>4, <2>5, FS_Subset
  <2>7. Cardinality(T) \in Nat /\ Cardinality(after(q[k])) \in Nat
    BY <1>1, <2>4, FS_CardinalityType
  <2> HIDE DEF after, T, J, f
  <2> QED
    BY <2>1, <2>4, <2>6, <2>7
<1>3. ASSUME NEW h \in S, c = n, \A k \in K : h < q[k] PROVE ~(Cardinality(after(h)) < n)
  <2>1. IsFiniteSet(K) /\ Cardinality(K) = n
    BY <1>3, FS_Interval
  <2>2. q \in [K -> after(h)]
    <3>1. \A k \in K : q[k] \in after(h)
      BY <1>0, <1>3
    <3> HIDE DEF after
    <3> QED
      BY <3>1
  <2>3. \A j, k \in K : q[j] = q[k] => j = k
    <3> SUFFICES ASSUME NEW j \in K, NEW k \in K, j < k PROVE q[j] # q[k]
      BY <1>0
    <3>1. q[k] < q[j] /\ q[k] \in Nat /\ q[j] \in Nat
      BY <1>0
    <3> QED
      BY <3>1
  <2> HIDE DEF K, after
  <2>4. q \in Injection(K, after(h))
    BY <2>2, <2>3 DEF Injection, IsInjective
  <2>5. Cardinality(K) <= Cardinality(after(h))
    BY <1>1, <2>4, FS_Injection
  <2> QED
    BY <1>1, <2>1, <2>5
<1>4. \A h \in S : h \in Recent(S, n) <=> Cardinality(after(h)) < n
  BY DEF Recent
<1> HIDE DEF after
<1> QED
  BY <1>2, <1>3, <1>4

\* Counting back twice leads to where one was.
LEMMA SlotTwice ==
    ASSUME NEW n \in Nat \ {0}, NEW w \in Windows(n), w.count < n => w.cursor = w.count,
           NEW k \in 0 .. w.count - 1
    PROVE  Slot(w, n, k) \in 0 .. w.count - 1 /\ Slot(w, n, Slot(w, n, k)) = k
<1>1. w.cursor \in 0 .. n - 1 /\ w.count \in 0 .. n
  BY DEF Windows
<1>2. CASE k < w.cursor
  <2>1. Slot(w, n, k) = w.cursor - 1 - k
    BY <1>2 DEF Slot
  <2>2. w.cursor - 1 - k < w.cursor /\ w.cursor - 1 - k \in 0 .. w.count - 1
    BY <1>1, <1>2
  <2> QED
    BY <1>1, <2>1, <2>2 DEF Slot
<1>3. CASE ~(k < w.cursor)
  <2>1. Slot(w, n, k) = w.cursor - 1 - k + n /\ w.count = n
    BY <1>1, <1>3 DEF Slot
  <2>2. ~(w.cursor - 1 - k + n < w.cursor) /\ w.cursor - 1 - k + n \in 0 .. w.count - 1
    BY <1>1, <1>3, <2>1
  <2> QED
    BY <1>1, <2>1, <2>2 DEF Slot
<1> QED
  BY <1>2, <1>3

LEMMA RecordedKeeps ==
    ASSUME NEW n \in Nat \ {0}, NEW w \in Windows(n), NEW history,
           DOMAIN history \subseteq Nat, IsFiniteSet(DOMAIN history), Recorded(w, n, history)
    PROVE  Keeps(w, history)
<1> DEFINE S == DOMAIN history
           K == 0 .. w.count - 1
<1>0. PICK q : Tracks(w, n, history, q)
  BY DEF Recorded
<1> DEFINE place == [k \in K |-> q[Slot(w, n, k)]]
<1>1. w.count \in 0 .. n /\ Capacity(w) = n /\ (w.count < n => w.cursor = w.count)
  BY CapacityOf DEF Windows, Recorded
<1>2. /\ q \in [K -> S] /\ \A j, k \in K : j < k => q[k] < q[j]
      /\ \A k \in K : w.values[Slot(w, n, k)] = history[q[k]]
      /\ \A h \in S : (\E k \in K : q[k] = h) \/ (w.count = n /\ \A k \in K : h < q[k])
  BY <1>0 DEF Tracks, GoesBack
<1>3. \A h \in S : h \in Recent(S, n) <=> \E k \in K : q[k] = h
  <2>1. GoesBack(q, w.count, n, DOMAIN history)
    BY <1>0 DEF Tracks
  <2> QED
    BY <1>1, <2>1, LastKept
<1>4. \A k \in K : Slot(w, n, k) \in K /\ Slot(w, n, Slot(w, n, k)) = k
  BY <1>1, SlotTwice
<1>5. Recent(S, n) \subseteq S
  BY DEF Recent
<1>6. K \subseteq Int /\ \A k \in K : q[k] \in S /\ q[k] \in Nat
  BY <1>2
<1> HIDE DEF K, S
<1>7. place \in [K -> Recent(S, n)]
  BY <1>3, <1>4, <1>6
<1>8. \A j, k \in K : q[j] = q[k] => j = k
  <2> SUFFICES ASSUME NEW j \in K, NEW k \in K, j < k PROVE q[j] # q[k]
    BY <1>6
  <2>1. q[k] < q[j] /\ q[k] \in Nat /\ q[j] \in Nat
    BY <1>2, <1>6
  <2> QED
    BY <2>1
<1>9. \A j, k \in K : place[j] = place[k] => j = k
  <2> SUFFICES ASSUME NEW j \in K, NEW k \in K, place[j] = place[k] PROVE j = k
    OBVIOUS
  <2>1. Slot(w, n, j) = Slot(w, n, k)
    BY <1>4, <1>8
  <2> QED
    BY <1>4, <2>1
<1>10. \A h \in Recent(S, n) : \E k \in K : place[k] = h
  <2> SUFFICES ASSUME NEW h \in Recent(S, n) PROVE \E k \in K : place[k] = h
    OBVIOUS
  <2>1. PICK k \in K : q[k] = h
    BY <1>3, <1>5
  <2>2. Slot(w, n, k) \in K /\ place[Slot(w, n, k)] = h
    BY <1>4, <2>1
  <2> QED
    BY <2>2
<1>11. \A k \in K : w.values[k] = history[place[k]]
  BY <1>2, <1>4
<1> HIDE DEF place
<1>12. place \in Bijection(K, Recent(S, n))
  BY <1>7, <1>9, <1>10 DEF Bijection, Injection, IsInjective, Surjection
<1> QED
  BY <1>1, <1>11, <1>12 DEF Keeps, K, S

----------------------------------------------------------------------------
(* The histories of the windows *)

LEMMA LogPositions ==
    ASSUME NEW s \in Seq(Int)
    PROVE  LET n == Len(s) IN
           /\ DOMAIN Responses(s) \subseteq 1 .. n /\ DOMAIN Latencies(s) \subseteq 1 .. n
           /\ DOMAIN Speeds(s) \subseteq 1 .. n /\ DOMAIN Verdicts(s) \subseteq 1 .. n
BY DEF Responses, Latencies, Speeds, Verdicts, Timed, Answers

\* What one more outcome adds to each of them.
LEMMA LogsGrow ==
    ASSUME NEW s \in Seq(Int), NEW o \in Int
    PROVE  LET t == Append(s, o)
               m == Len(s) + 1
           IN  /\ Grows(Verdicts(s), Verdicts(t), m, IF o = Bad THEN 0 ELSE 1)
               /\ o = Bad => Responses(t) = Responses(s)
               /\ o # Bad => Grows(Responses(s), Responses(t), m, o)
               /\ o # Bad /\ o > 0 => /\ Grows(Latencies(s), Latencies(t), m, o)
                                      /\ Grows(Speeds(s), Speeds(t), m, Bytes \div o)
               /\ ~(o > 0) => Latencies(t) = Latencies(s) /\ Speeds(t) = Speeds(s)
<1> DEFINE t == Append(s, o)
           m == Len(s) + 1
<1>1. /\ DOMAIN t = DOMAIN s \cup {m} /\ m \notin DOMAIN s /\ t[m] = o
      /\ \A k \in DOMAIN s : t[k] = s[k]
  OBVIOUS
<1> HIDE DEF t, m
<1>2. Answers(t) = Answers(s) \cup (IF o = Bad THEN {} ELSE {m}) /\ Answers(s) \subseteq DOMAIN s
  BY <1>1 DEF Answers
<1>3. Bad = -1
  BY DEF Bad
<1>4. Timed(s) \subseteq Answers(s)
  BY DEF Timed
<1>5. CASE o = Bad
  <2>1. ~(o > 0)
    BY <1>3, <1>5
  <2>2. Answers(t) = Answers(s)
    BY <1>2, <1>5
  <2>3. Timed(t) = Timed(s)
    BY <1>1, <1>2, <2>2 DEF Timed
  <2>4. Responses(t) = Responses(s) /\ Latencies(t) = Latencies(s) /\ Speeds(t) = Speeds(s)
    BY <1>1, <1>2, <1>4, <2>2, <2>3 DEF Responses, Latencies, Speeds
  <2>5. Grows(Verdicts(s), Verdicts(t), m, 0)
    BY <1>1, <1>5 DEF Verdicts, Grows
  <2> QED
    BY <1>5, <2>1, <2>4, <2>5 DEF t, m
<1>6. CASE o # Bad /\ ~(o > 0)
  <2>1. Answers(t) = Answers(s) \cup {m}
    BY <1>2, <1>6
  <2>2. Timed(t) = Timed(s)
    BY <1>1, <1>2, <1>6, <2>1 DEF Timed
  <2>3. Latencies(t) = Latencies(s) /\ Speeds(t) = Speeds(s)
    BY <1>1, <1>2, <1>4, <2>2 DEF Latencies, Speeds
  <2>4. Grows(Responses(s), Responses(t), m, o)
    BY <1>1, <1>2, <2>1 DEF Responses, Grows
  <2>5. Grows(Verdicts(s), Verdicts(t), m, 1)
    BY <1>1, <1>6 DEF Verdicts, Grows
  <2> QED
    BY <1>6, <2>3, <2>4, <2>5 DEF t, m
<1>7. CASE o # Bad /\ o > 0
  <2>1. Answers(t) = Answers(s) \cup {m}
    BY <1>2, <1>7
  <2>2. Timed(t) = Timed(s) \cup {m}
    BY <1>1, <1>2, <1>7, <2>1 DEF Timed
  <2>3. Grows(Latencies(s), Latencies(t), m, o) /\ Grows(Speeds(s), Speeds(t), m, Bytes \div o)
    BY <1>1, <1>2, <1>4, <2>2 DEF Latencies, Speeds, Grows
  <2>4. Grows(Responses(s), Responses(t), m, o)
    BY <1>1, <1>2, <2>1 DEF Responses, Grows
  <2>5. Grows(Verdicts(s), Verdicts(t), m, 1)
    BY <1>1, <1>7 DEF Verdicts, Grows
  <2> QED
    BY <1>7, <2>3, <2>4, <2>5 DEF t, m
<1> QED
  BY <1>5, <1>6, <1>7

\* The windows of an entry e and the response times w hold the outcomes s, and without an
\* entry there are none.
Remembers(e, w, known, s) ==
    /\ Recorded(e.latency, WindowSize, Latencies(s))
    /\ Recorded(e.speed, WindowSize, Speeds(s))
    /\ Recorded(e.reliability, WindowSize, Verdicts(s))
    /\ Recorded(w, ResponseWindow, Responses(s))
    /\ ~known => s = <<>>

LEMMA NothingToRemember ==
    ASSUME NEW known
    PROVE  Remembers(NewEntry, NewWindow(ResponseWindow), known, <<>>)
<1>1. /\ DOMAIN Latencies(<<>>) = {} /\ DOMAIN Speeds(<<>>) = {}
      /\ DOMAIN Verdicts(<<>>) = {} /\ DOMAIN Responses(<<>>) = {}
  BY DEF Responses, Latencies, Speeds, Verdicts, Timed, Answers
<1> QED
  BY <1>1, Sizes, NewRecords DEF Remembers, NewEntry

LEMMA AnswerRemembered ==
    ASSUME NEW e \in Entries, NEW w \in Windows(ResponseWindow), NEW known, NEW s \in Seq(Int),
           Remembers(e, w, known, s), NEW age \in Nat, NEW new,
           new.reliability = Push(e.reliability, 1),
           age = 0 => new.speed = e.speed /\ new.latency = e.latency,
           age # 0 => /\ new.speed = Push(e.speed, Bytes \div age)
                      /\ new.latency = Push(e.latency, age)
    PROVE  Remembers(new, Push(w, age), TRUE, Append(s, age))
<1> DEFINE t == Append(s, age)
           m == Len(s) + 1
<1>1. /\ e.speed \in Windows(WindowSize) /\ e.latency \in Windows(WindowSize)
      /\ e.reliability \in Windows(WindowSize)
  BY DEF Entries
<1>2. age \in Int /\ age # Bad /\ m \in Nat /\ 1 \in Int /\ (age # 0 <=> age > 0)
  BY DEF Bad
<1>3. /\ Grows(Verdicts(s), Verdicts(t), m, 1)
      /\ Grows(Responses(s), Responses(t), m, age)
      /\ age # 0 => /\ Grows(Latencies(s), Latencies(t), m, age)
                    /\ Grows(Speeds(s), Speeds(t), m, Bytes \div age)
      /\ age = 0 => Latencies(t) = Latencies(s) /\ Speeds(t) = Speeds(s)
  BY <1>2, LogsGrow
<1>4. /\ DOMAIN Responses(s) \subseteq 1 .. m - 1 /\ DOMAIN Latencies(s) \subseteq 1 .. m - 1
      /\ DOMAIN Speeds(s) \subseteq 1 .. m - 1 /\ DOMAIN Verdicts(s) \subseteq 1 .. m - 1
  BY LogPositions
<1> HIDE DEF t, m
<1>5. Recorded(new.reliability, WindowSize, Verdicts(t))
  BY <1>1, <1>2, <1>3, <1>4, Sizes, PushRecords DEF Remembers
<1>6. Recorded(Push(w, age), ResponseWindow, Responses(t))
  BY <1>2, <1>3, <1>4, Sizes, PushRecords DEF Remembers
<1>7. Recorded(new.latency, WindowSize, Latencies(t)) /\ Recorded(new.speed, WindowSize, Speeds(t))
  <2>1. CASE age = 0
    BY <1>3, <2>1 DEF Remembers
  <2>2. CASE age # 0
    <3>1. Bytes \div age \in Int
      BY <2>2, Sizes
    <3>2. Recorded(new.latency, WindowSize, Latencies(t))
      BY <1>1, <1>2, <1>3, <1>4, <2>2, Sizes, PushRecords DEF Remembers
    <3>3. Recorded(new.speed, WindowSize, Speeds(t))
      BY <1>1, <1>2, <1>3, <1>4, <2>2, <3>1, Sizes, PushRecords DEF Remembers
    <3> QED
      BY <3>2, <3>3
  <2> QED
    BY <2>1, <2>2
<1> QED
  BY <1>5, <1>6, <1>7 DEF Remembers, t

LEMMA FailureRemembered ==
    ASSUME NEW e \in Entries, NEW w, NEW known, NEW s \in Seq(Int),
           Remembers(e, w, known, s), NEW new,
           new.reliability = Push(e.reliability, 0), new.speed = e.speed, new.latency = e.latency
    PROVE  Remembers(new, w, TRUE, Append(s, Bad))
<1> DEFINE t == Append(s, Bad)
           m == Len(s) + 1
<1>1. e.reliability \in Windows(WindowSize)
  BY DEF Entries
<1>2. Bad \in Int /\ ~(Bad > 0) /\ m \in Nat /\ 0 \in Int
  BY DEF Bad
<1>3. /\ Grows(Verdicts(s), Verdicts(t), m, 0)
      /\ Responses(t) = Responses(s) /\ Latencies(t) = Latencies(s) /\ Speeds(t) = Speeds(s)
  BY <1>2, LogsGrow
<1>4. DOMAIN Verdicts(s) \subseteq 1 .. m - 1
  BY LogPositions
<1> HIDE DEF t, m
<1>5. Recorded(new.reliability, WindowSize, Verdicts(t))
  BY <1>1, <1>2, <1>3, <1>4, Sizes, PushRecords DEF Remembers
<1> QED
  BY <1>3, <1>5 DEF Remembers, t

ResponseTimes(p) == IF p \in DOMAIN times THEN times[p] ELSE NewWindow(ResponseWindow)

Remembered == \A p \in Peers : Remembers(Entry(p), ResponseTimes(p), p \in DOMAIN rep, outcomes[p])

LEMMA ResponseTimesType ==
    ASSUME TablesTyped, NEW p \in Peers
    PROVE  ResponseTimes(p) \in Windows(ResponseWindow)
BY NewWindowType, Sizes DEF TablesTyped, ResponseTimes

\* A peer to whom nothing happens.
LEMMA SameRemembered ==
    ASSUME NEW p \in Peers, Remembers(Entry(p), ResponseTimes(p), p \in DOMAIN rep, outcomes[p]),
           Entry(p)'.latency = Entry(p).latency, Entry(p)'.speed = Entry(p).speed,
           Entry(p)'.reliability = Entry(p).reliability,
           ResponseTimes(p)' = ResponseTimes(p), outcomes'[p] = outcomes[p],
           p \in DOMAIN rep => p \in DOMAIN rep'
    PROVE  Remembers(Entry(p), ResponseTimes(p), p \in DOMAIN rep, outcomes[p])'
BY DEF Remembers

LEMMA VerifiedRemembered ==
    ASSUME RepSound, Remembered, NEW p \in Peers, NEW i \in Pieces, PieceVerified(p, i)
    PROVE  Remembered'
<1>0. TablesTyped /\ WaitersTyped
  BY DEF RepSound, Typed
<1>1. CASE i \in DOMAIN stamps
  <2>0. PICK asked \in Peers, age \in 0 .. MaxAge : asked = stamps[i].peer /\ age = stamps[i].age
    BY <1>0, <1>1 DEF WaitersTyped
  <2>1. /\ rep' = AfterSuccess(asked, age) /\ times' = AfterResponse(asked, age)
        /\ outcomes' = [outcomes EXCEPT ![asked] = Append(@, age)]
    BY <1>1, <2>0 DEF PieceVerified
  <2>2. age \in Nat /\ Entry(asked) \in Entries /\ outcomes \in [Peers -> Seq(Int)]
    BY <1>0, EntryType, Sizes DEF TablesTyped
  <2>3. /\ DOMAIN rep' = DOMAIN rep \cup {asked} /\ \A q \in DOMAIN rep \ {asked} : rep'[q] = rep[q]
        /\ Entry(asked)' = rep'[asked]
    BY <2>1 DEF AfterSuccess, With, Entry
  <2>4. /\ rep'[asked].reliability = Push(Entry(asked).reliability, 1)
        /\ age = 0 => /\ rep'[asked].speed = Entry(asked).speed
                      /\ rep'[asked].latency = Entry(asked).latency
        /\ age # 0 => /\ rep'[asked].speed = Push(Entry(asked).speed, Bytes \div age)
                      /\ rep'[asked].latency = Push(Entry(asked).latency, age)
    <3> DEFINE e == Entry(asked)
    <3>1. rep'[asked] = [(IF age = 0 THEN e
                          ELSE [e EXCEPT !.speed = Push(@, Bytes \div age), !.latency = Push(@, age)])
                         EXCEPT !.reliability = Push(@, 1)]
      BY <2>1 DEF AfterSuccess, With
    <3> HIDE DEF e
    <3>2. e \in Entries
      BY <2>2 DEF e
    <3>3. CASE age = 0
      BY <3>1, <3>2, <3>3 DEF Entries, e
    <3>4. CASE age # 0
      BY <3>1, <3>2, <3>4 DEF Entries, e
    <3> QED
      BY <3>3, <3>4
  <2>5. /\ ResponseTimes(asked)' = Push(ResponseTimes(asked), age)
        /\ \A q \in Peers \ {asked} : ResponseTimes(q)' = ResponseTimes(q)
    BY <2>1 DEF AfterResponse, With, ResponseTimes
  <2>6. Remembers(Entry(asked), ResponseTimes(asked), asked \in DOMAIN rep, outcomes[asked])'
    <3>1. Remembers(Entry(asked), ResponseTimes(asked), asked \in DOMAIN rep, outcomes[asked])
      BY DEF Remembered
    <3>2. Remembers(rep'[asked], Push(ResponseTimes(asked), age), TRUE, Append(outcomes[asked], age))
      BY <1>0, <2>2, <2>4, <3>1, ResponseTimesType, AnswerRemembered
    <3>3. outcomes'[asked] = Append(outcomes[asked], age) /\ asked \in DOMAIN rep'
      BY <2>1, <2>2, <2>3
    <3> QED
      BY <2>3, <2>5, <3>2, <3>3 DEF Remembers
  <2>7. ASSUME NEW q \in Peers \ {asked}
        PROVE  Remembers(Entry(q), ResponseTimes(q), q \in DOMAIN rep, outcomes[q])'
    <3>1. Entry(q)' = Entry(q) /\ outcomes'[q] = outcomes[q] /\ (q \in DOMAIN rep => q \in DOMAIN rep')
      BY <2>1, <2>2, <2>3 DEF Entry
    <3> QED
      BY <2>5, <3>1, SameRemembered DEF Remembered
  <2> QED
    BY <2>6, <2>7 DEF Remembered
<1>2. CASE i \notin DOMAIN stamps
  BY <1>2 DEF PieceVerified, Remembered, Remembers, Entry, ResponseTimes
<1> QED
  BY <1>1, <1>2

LEMMA FailedRemembered ==
    ASSUME RepSound, Remembered, NEW p \in Peers, NEW i \in Pieces, PieceFailed(p, i)
    PROVE  Remembered'
<1>0. Entry(p) \in Entries /\ outcomes \in [Peers -> Seq(Int)]
  BY EntryType DEF RepSound, Typed, TablesTyped
<1>1. rep' = AfterBadHash(p) /\ outcomes' = [outcomes EXCEPT ![p] = Append(@, Bad)]
      /\ times' = times
  BY DEF PieceFailed
<1>2. /\ DOMAIN rep' = DOMAIN rep \cup {p} /\ \A q \in DOMAIN rep \ {p} : rep'[q] = rep[q]
      /\ Entry(p)' = rep'[p]
  BY <1>1 DEF AfterBadHash, With, Entry
<1>3. /\ rep'[p].reliability = Push(Entry(p).reliability, 0)
      /\ rep'[p].speed = Entry(p).speed /\ rep'[p].latency = Entry(p).latency
  <2> DEFINE e == Entry(p)
  <2>1. rep'[p] = [e EXCEPT !.reliability = Push(@, 0), !.strikes = @ + 1,
                            !.until = IF e.strikes + 1 = 3 THEN TempBan ELSE @,
                            !.session = @ \/ e.strikes + 1 >= 4]
    BY <1>1 DEF AfterBadHash, With
  <2>2. e \in Entries
    BY <1>0
  <2> HIDE DEF e
  <2>3. /\ rep'[p].reliability = Push(e.reliability, 0)
        /\ rep'[p].speed = e.speed /\ rep'[p].latency = e.latency
    BY <2>1, <2>2 DEF Entries
  <2> QED
    BY <2>3 DEF e
<1>4. \A q \in Peers : ResponseTimes(q)' = ResponseTimes(q)
  BY <1>1 DEF ResponseTimes
<1>5. Remembers(Entry(p), ResponseTimes(p), p \in DOMAIN rep, outcomes[p])'
  <2>1. Remembers(Entry(p), ResponseTimes(p), p \in DOMAIN rep, outcomes[p])
    BY DEF Remembered
  <2>2. Remembers(rep'[p], ResponseTimes(p), TRUE, Append(outcomes[p], Bad))
    BY <1>0, <1>3, <2>1, FailureRemembered
  <2>3. outcomes'[p] = Append(outcomes[p], Bad) /\ p \in DOMAIN rep'
    BY <1>0, <1>1, <1>2
  <2> QED
    BY <1>2, <1>4, <2>2, <2>3 DEF Remembers
<1>6. ASSUME NEW q \in Peers \ {p}
      PROVE  Remembers(Entry(q), ResponseTimes(q), q \in DOMAIN rep, outcomes[q])'
  <2>1. Entry(q)' = Entry(q) /\ outcomes'[q] = outcomes[q] /\ (q \in DOMAIN rep => q \in DOMAIN rep')
    BY <1>0, <1>1, <1>2 DEF Entry
  <2> QED
    BY <1>4, <2>1, SameRemembered DEF Remembered
<1> QED
  BY <1>5, <1>6 DEF Remembered

LEMMA LeavesRemembered ==
    ASSUME RepSound, Remembered, NEW p \in Peers, PeerDisconnected(p)
    PROVE  Remembered'
<1>1. /\ DOMAIN rep' = DOMAIN rep \ {p} /\ \A q \in DOMAIN rep' : rep'[q] = rep[q]
      /\ DOMAIN times' = DOMAIN times \ {p} /\ \A q \in DOMAIN times' : times'[q] = times[q]
  BY DEF PeerDisconnected, Without, Restrict
<1>2. outcomes'[p] = <<>> /\ \A q \in Peers \ {p} : outcomes'[q] = outcomes[q]
  BY DEF PeerDisconnected, RepSound, Typed, TablesTyped
<1>3. Remembers(Entry(p), ResponseTimes(p), p \in DOMAIN rep, outcomes[p])'
  <2>1. Entry(p)' = NewEntry /\ ResponseTimes(p)' = NewWindow(ResponseWindow)
    BY <1>1 DEF Entry, ResponseTimes
  <2> QED
    BY <1>2, <2>1, NothingToRemember DEF Remembers
<1>4. ASSUME NEW q \in Peers \ {p}
      PROVE  Remembers(Entry(q), ResponseTimes(q), q \in DOMAIN rep, outcomes[q])'
  <2>1. /\ Entry(q)' = Entry(q) /\ ResponseTimes(q)' = ResponseTimes(q) /\ outcomes'[q] = outcomes[q]
        /\ (q \in DOMAIN rep => q \in DOMAIN rep')
    BY <1>1, <1>2 DEF Entry, ResponseTimes
  <2> QED
    BY <2>1, SameRemembered DEF Remembered
<1> QED
  BY <1>3, <1>4 DEF Remembered

LEMMA TickRemembered ==
    ASSUME RepSound, Remembered, Tick
    PROVE  Remembered'
<1>1. /\ DOMAIN rep' = DOMAIN rep
      /\ \A p \in DOMAIN rep :
            rep'[p] = [rep[p] EXCEPT !.until = IF @ > 0 THEN @ - 1 ELSE @]
      /\ times' = times /\ outcomes' = outcomes
  BY DEF Tick
<1>2. \A p \in DOMAIN rep : rep[p] \in Entries
  BY DEF RepSound, Typed, TablesTyped
<1>3. \A p \in DOMAIN rep : /\ rep'[p].latency = rep[p].latency /\ rep'[p].speed = rep[p].speed
                           /\ rep'[p].reliability = rep[p].reliability
  BY <1>1, <1>2 DEF Entries
<1>4. ASSUME NEW p \in Peers
      PROVE  Remembers(Entry(p), ResponseTimes(p), p \in DOMAIN rep, outcomes[p])'
  <2>1. /\ Entry(p)'.latency = Entry(p).latency /\ Entry(p)'.speed = Entry(p).speed
        /\ Entry(p)'.reliability = Entry(p).reliability
        /\ ResponseTimes(p)' = ResponseTimes(p) /\ outcomes'[p] = outcomes[p]
    BY <1>1, <1>3 DEF Entry, ResponseTimes
  <2> QED
    BY <1>1, <2>1, SameRemembered DEF Remembered
<1> QED
  BY <1>4 DEF Remembered

\* The statistics are those of the last answers: neither the cursor nor who is credited,
\* nor a peer that comes back, mixes in or loses a value.
THEOREM WindowsKeepLastCorrect == Spec => []WindowsKeepLast
<1>1. Init => Remembered
  <2> SUFFICES ASSUME Init, NEW p \in Peers
               PROVE  Remembers(Entry(p), ResponseTimes(p), p \in DOMAIN rep, outcomes[p])
    BY DEF Remembered
  <2>1. Entry(p) = NewEntry /\ ResponseTimes(p) = NewWindow(ResponseWindow) /\ outcomes[p] = <<>>
    BY DEF Init, NoEntry, Entry, ResponseTimes
  <2> QED
    BY <2>1, NothingToRemember DEF Remembers
<1>2. RepSound /\ Remembered /\ [Next]_vars => Remembered'
  <2> SUFFICES ASSUME RepSound, Remembered, [Next]_vars PROVE Remembered'
    OBVIOUS
  <2>1. CASE \/ StaleCheck \/ UNCHANGED vars \/ \E p \in Peers : Unchoked(p) \/ Choked(p)
    <3>1. UNCHANGED <<rep, times, outcomes>>
      BY <2>1 DEF StaleCheck, Unchoked, Choked, vars
    <3> QED
      BY <3>1 DEF Remembered, Remembers, Entry, ResponseTimes
  <2> QED
    BY <2>1, VerifiedRemembered, FailedRemembered, LeavesRemembered, TickRemembered DEF Next
<1>3. RepSound /\ Remembered => WindowsKeepLast
  <2> SUFFICES ASSUME RepSound, Remembered, NEW p \in Peers
               PROVE  /\ p \in DOMAIN rep =>
                            /\ Keeps(rep[p].latency, Latencies(outcomes[p]))
                            /\ Keeps(rep[p].speed, Speeds(outcomes[p]))
                            /\ Keeps(rep[p].reliability, Verdicts(outcomes[p]))
                      /\ p \in DOMAIN times => Keeps(times[p], Responses(outcomes[p]))
                      /\ outcomes[p] # <<>> => p \in DOMAIN rep
    BY DEF WindowsKeepLast
  <2> DEFINE s == outcomes[p]
  <2>1. Remembers(Entry(p), ResponseTimes(p), p \in DOMAIN rep, s)
    BY DEF Remembered
  <2>2. s \in Seq(Int) /\ Len(s) \in Nat /\ 1 .. Len(s) \subseteq Nat /\ IsFiniteSet(1 .. Len(s))
    <3>1. s \in Seq(Int)
      BY DEF RepSound, Typed, TablesTyped
    <3>2. Len(s) \in Nat /\ 1 .. Len(s) \subseteq Nat
      BY <3>1
    <3>3. IsFiniteSet(1 .. Len(s))
      BY <3>2, FS_Interval
    <3> QED
      BY <3>1, <3>2, <3>3
  <2>3. /\ DOMAIN Responses(s) \subseteq Nat /\ IsFiniteSet(DOMAIN Responses(s))
        /\ DOMAIN Latencies(s) \subseteq Nat /\ IsFiniteSet(DOMAIN Latencies(s))
        /\ DOMAIN Speeds(s) \subseteq Nat /\ IsFiniteSet(DOMAIN Speeds(s))
        /\ DOMAIN Verdicts(s) \subseteq Nat /\ IsFiniteSet(DOMAIN Verdicts(s))
    <3>1. /\ DOMAIN Responses(s) \in SUBSET (1 .. Len(s)) /\ DOMAIN Latencies(s) \in SUBSET (1 .. Len(s))
          /\ DOMAIN Speeds(s) \in SUBSET (1 .. Len(s)) /\ DOMAIN Verdicts(s) \in SUBSET (1 .. Len(s))
      BY <2>2, LogPositions
    <3> HIDE DEF s
    <3> QED
      BY <2>2, <3>1, FS_Subset
  <2> HIDE DEF s
  <2>4. ASSUME p \in DOMAIN rep
        PROVE  /\ Keeps(rep[p].latency, Latencies(s)) /\ Keeps(rep[p].speed, Speeds(s))
               /\ Keeps(rep[p].reliability, Verdicts(s))
    <3>1. Entry(p) = rep[p] /\ rep[p] \in Entries
      BY <2>4 DEF Entry, RepSound, Typed, TablesTyped
    <3>2. /\ rep[p].latency \in Windows(WindowSize) /\ rep[p].speed \in Windows(WindowSize)
          /\ rep[p].reliability \in Windows(WindowSize)
      BY <3>1 DEF Entries
    <3> QED
      BY <2>1, <2>3, <3>1, <3>2, Sizes, RecordedKeeps DEF Remembers
  <2>5. ASSUME p \in DOMAIN times PROVE Keeps(times[p], Responses(s))
    <3>1. ResponseTimes(p) = times[p] /\ times[p] \in Windows(ResponseWindow)
      BY <2>5 DEF ResponseTimes, RepSound, Typed, TablesTyped
    <3> QED
      BY <2>1, <2>3, <3>1, Sizes, RecordedKeeps DEF Remembers
  <2> QED
    BY <2>1, <2>4, <2>5 DEF Remembers, s
<1> QED
  BY <1>1, <1>2, <1>3, InitSound, NextSound, PTL DEF Spec
=============================================================================
