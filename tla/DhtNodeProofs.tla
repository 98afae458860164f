--------------------------- MODULE DhtNodeProofs ---------------------------
(* Proofs, for every set of ids, nodes and lists of nodes and all sizes, of  *)
(* what MCDhtNode checks on four nodes.                                      *)
EXTENDS DhtNode, FiniteSetTheorems, WellFoundedInduction, TLAPS

----------------------------------------------------------------------------
(* Natural numbers and places *)

LEMMA LeastOf ==
    ASSUME NEW S, S \subseteq Nat, S # {}
    PROVE  \E x \in S : \A y \in S : x <= y
<1>1. PICK x \in S : \A y \in S : ~(<<y, x>> \in OpToRel(<, Nat))
  BY NatLessThanWellFounded, WFMin
<1>2. \A y \in S : ~(y < x)
  BY <1>1 DEF OpToRel
<1> QED
  BY <1>2

\* Induction, over a set.
LEMMA UpFromZero ==
    ASSUME NEW S, 0 \in S, \A k \in Nat : k \in S => k + 1 \in S
    PROVE  Nat \subseteq S
<1> SUFFICES ASSUME Nat \ S # {} PROVE FALSE
  OBVIOUS
<1>1. PICK x \in Nat \ S : \A y \in Nat \ S : x <= y
  BY LeastOf
<1>2. x # 0 /\ x - 1 \in Nat /\ x - 1 \in S /\ (x - 1) + 1 = x
  BY <1>1
<1> QED
  BY <1>1, <1>2

LEMMA PlaceType ==
    ASSUME NEW S, IsFiniteSet(S), S \subseteq Nat, NEW n \in S
    PROVE  /\ Place(S, n) \in Nat \ {0} /\ Place(S, n) <= Cardinality(S) /\ Cardinality(S) \in Nat
           /\ IsFiniteSet({m \in S : m <= n})
<1> DEFINE T == {m \in S : m <= n}
<1>1. T \in SUBSET S /\ n \in T
  OBVIOUS
<1> HIDE DEF T
<1>2. IsFiniteSet(T) /\ Cardinality(T) <= Cardinality(S)
  BY <1>1, FS_Subset
<1>3. Cardinality(S) \in Nat /\ Cardinality(T) \in Nat /\ Cardinality(T) # 0
  BY <1>1, <1>2, FS_CardinalityType, FS_EmptySet
<1> QED
  BY <1>2, <1>3 DEF Place, T

LEMMA PlaceMonotone ==
    ASSUME NEW S, IsFiniteSet(S), S \subseteq Nat, NEW m \in S, NEW n \in S, m < n
    PROVE  Place(S, m) < Place(S, n)
<1> DEFINE upTo(x) == {y \in S : y <= x}
<1>1. upTo(m) \in SUBSET upTo(n) /\ n \in upTo(n) /\ n \notin upTo(m)
  <2>1. m \in Nat /\ n \in Nat /\ \A x \in S : x \in Nat
    OBVIOUS
  <2>2. \A x \in S : x <= m => x <= n
    BY <2>1
  <2>3. n <= n /\ ~(n <= m)
    BY <2>1
  <2>4. upTo(m) \in SUBSET upTo(n)
    BY <2>2
  <2> QED
    BY <2>3, <2>4
<1>2. IsFiniteSet(upTo(n))
  BY PlaceType
<1> HIDE DEF upTo
<1>3. Cardinality(upTo(m)) <= Cardinality(upTo(n)) /\ Cardinality(upTo(m)) # Cardinality(upTo(n))
  BY <1>1, <1>2, FS_Subset
<1>4. Place(S, m) \in Nat /\ Place(S, n) \in Nat
  BY PlaceType
<1> QED
  BY <1>3, <1>4 DEF Place, upTo

LEMMA PlaceInjective ==
    ASSUME NEW S, IsFiniteSet(S), S \subseteq Nat, NEW m \in S, NEW n \in S, Place(S, m) = Place(S, n)
    PROVE  m = n
<1>1. Place(S, m) \in Nat /\ m \in Nat /\ n \in Nat
  BY PlaceType
<1>2. ~(m < n) /\ ~(n < m)
  <2>1. m < n => Place(S, m) < Place(S, n)
    BY PlaceMonotone
  <2>2. n < m => Place(S, n) < Place(S, m)
    BY PlaceMonotone
  <2> QED
    BY <1>1, <2>1, <2>2
<1> QED
  BY <1>1, <1>2

\* Every place is somebody's.
LEMMA PlaceTaken ==
    ASSUME NEW S, IsFiniteSet(S), S \subseteq Nat, NEW k \in 1 .. Cardinality(S)
    PROVE  \E n \in S : Place(S, n) = k
<1> DEFINE T == 1 .. Cardinality(S)
           place == [n \in S |-> Place(S, n)]
<1>1. Cardinality(S) \in Nat
  BY FS_CardinalityType
<1>2. IsFiniteSet(T) /\ Cardinality(T) = Cardinality(S)
  BY <1>1, FS_Interval
<1>3. place \in [S -> T] /\ \A m, n \in S : place[m] = place[n] => m = n
  <2>1. \A n \in S : Place(S, n) \in T
    <3> SUFFICES ASSUME NEW n \in S PROVE Place(S, n) \in T
      OBVIOUS
    <3>1. Place(S, n) \in Nat \ {0} /\ Place(S, n) <= Cardinality(S) /\ Cardinality(S) \in Nat
      BY PlaceType
    <3> QED
      BY <3>1
  <2>2. \A m, n \in S : Place(S, m) = Place(S, n) => m = n
    BY PlaceInjective
  <2> QED
    BY <2>1, <2>2
<1> HIDE DEF place, T
<1>4. place \in Injection(S, T)
  BY <1>3 DEF Injection, IsInjective
<1>5. place \in Surjection(S, T)
  BY <1>2, <1>4, FS_Injection
<1>6. \E n \in S : place[n] = k
  BY <1>5 DEF Surjection, T
<1> QED
  BY <1>6 DEF place

\* What is picked is in the order of the positions, and all of it.
LEMMA PickedOf ==
    ASSUME NEW s, NEW S, IsFiniteSet(S), S \subseteq Nat
    PROVE  \E f \in [1 .. Cardinality(S) -> S] :
              /\ Picked(s, S) = [k \in 1 .. Cardinality(S) |-> s[f[k]]]
              /\ \A j \in S : \E k \in 1 .. Cardinality(S) : f[k] = j
              /\ \A j, k \in 1 .. Cardinality(S) : j < k => f[j] < f[k]
<1> DEFINE N == 1 .. Cardinality(S)
           f == [k \in N |-> CHOOSE j \in S : Place(S, j) = k]
<1>1. Cardinality(S) \in Nat
  BY FS_CardinalityType
<1>2. \A k \in N : f[k] \in S /\ Place(S, f[k]) = k
  BY PlaceTaken
<1>3. f \in [N -> S]
  BY <1>2
<1>4. Picked(s, S) = [k \in N |-> s[f[k]]]
  BY DEF Picked
<1> HIDE DEF f
<1>5. ASSUME NEW j \in S PROVE \E k \in N : f[k] = j
  <2>1. PICK k \in N : k = Place(S, j)
    <3>1. Place(S, j) \in Nat \ {0} /\ Place(S, j) <= Cardinality(S)
      BY PlaceType
    <3> QED
      BY <1>1, <3>1
  <2> QED
    BY <1>2, <2>1, PlaceInjective
<1>6. ASSUME NEW j \in N, NEW k \in N, j < k PROVE f[j] < f[k]
  <2>1. PICK x \in S, y \in S : x = f[j] /\ y = f[k]
    BY <1>2
  <2>2. Place(S, x) = j /\ Place(S, y) = k /\ x \in Nat /\ y \in Nat /\ j \in Nat /\ k \in Nat
    BY <1>1, <1>2, <2>1
  <2>3. y < x => k < j
    BY <2>2, PlaceMonotone
  <2>4. x # y /\ ~(y < x)
    BY <1>6, <2>2, <2>3
  <2> QED
    BY <2>1, <2>2, <2>4
<1> QED
  BY <1>3, <1>4, <1>5, <1>6

----------------------------------------------------------------------------
(* Buckets *)

\* Every node that a datagram can bring into the table.
AnyNode == Nodes \cup UNION {ToSet(nodes) : nodes \in Told}

LEMMA NodeIds == \A n \in AnyNode : n.id \subseteq Bits
BY ConstantsAssumption DEF AnyNode

LEMMA GreatestOf ==
    ASSUME NEW S, IsFiniteSet(S), S \subseteq Nat, S # {}
    PROVE  \E x \in S : \A y \in S : y <= x
<1>1. Cardinality(S) \in Nat /\ Cardinality(S) # 0
  BY FS_CardinalityType, FS_EmptySet
<1>2. Cardinality(S) \in 1 .. Cardinality(S)
  BY <1>1
<1>3. PICK x \in S : Place(S, x) = Cardinality(S)
  BY <1>2, PlaceTaken
<1>4. {i \in S : i <= x} = S
  <2>1. {i \in S : i <= x} \in SUBSET S
    OBVIOUS
  <2> QED
    BY <1>3, <2>1, FS_Subset DEF Place
<1> QED
  BY <1>4

LEMMA BucketExists ==
    ASSUME NEW id, id \subseteq Bits, id # OurId
    PROVE  BucketOf(id) \in Bits
<1> DEFINE d == Distance(OurId, id)
           bytes == {x[1] : x \in d}
           OneOf(x) == \A y \in d : y[1] < x[1] \/ (y[1] = x[1] /\ y[2] >= x[2])
<1>1. d \subseteq Bits /\ d # {}
  BY ConstantsAssumption DEF Distance
<1>2. IsFiniteSet(d) /\ d \subseteq Nat \X Nat
  BY <1>1, ConstantsAssumption, FS_Subset
<1> HIDE DEF d
<1>3. IsFiniteSet(bytes) /\ bytes \subseteq Nat /\ bytes # {}
  <2> DEFINE f == [x \in d |-> x[1]]
  <2>1. f \in Surjection(d, bytes)
    BY DEF Surjection
  <2> HIDE DEF f
  <2>2. IsFiniteSet(bytes)
    BY <1>2, <2>1, FS_Surjection
  <2> QED
    BY <1>1, <1>2, <2>2
<1>4. PICK top \in bytes : \A y \in bytes : y <= top
  BY <1>3, GreatestOf
<1> DEFINE lows == {x[2] : x \in {x \in d : x[1] = top}}
<1>5. lows \subseteq Nat /\ lows # {}
  BY <1>2, <1>4
<1>6. PICK low \in lows : \A y \in lows : low <= y
  BY <1>5, LeastOf
<1>7. PICK x \in d : x[1] = top /\ x[2] = low
  BY <1>6
<1>8. ASSUME NEW y \in d PROVE y[1] < x[1] \/ (y[1] = x[1] /\ y[2] >= x[2])
  <2>1. y[1] \in Nat /\ y[2] \in Nat /\ x[1] \in Nat /\ x[2] \in Nat /\ y[1] <= top
    BY <1>2, <1>4, <1>7
  <2>2. y[1] = top => y[2] \in lows
    BY <1>7
  <2> HIDE DEF lows, bytes
  <2> QED
    BY <1>6, <1>7, <2>1, <2>2
<1>9. \E z \in d : OneOf(z)
  BY <1>7, <1>8
<1>10. (CHOOSE z \in d : OneOf(z)) \in d
  <2> HIDE DEF OneOf
  <2> QED
    BY <1>9
<1> QED
  BY <1>1, <1>10 DEF BucketOf, d

\* A bucket for b lists each id once, none is ours, and they are no more than K.
BucketSound(bucket, b) ==
    /\ bucket \in Seq(AnyNode) /\ Len(bucket) <= K
    /\ \A k \in DOMAIN bucket : bucket[k].id # OurId /\ BucketOf(bucket[k].id) = b
    /\ \A j, k \in DOMAIN bucket : bucket[j].id = bucket[k].id => j = k

\* What insert makes of a bucket.
Entered(bucket, n) ==
    IF Lists(bucket, n.id) THEN Append(Without(bucket, n.id), n)
    ELSE IF Len(bucket) < K THEN Append(bucket, n) ELSE bucket

LEMMA WithoutOf ==
    ASSUME NEW b, NEW bucket, BucketSound(bucket, b), NEW id, Lists(bucket, id)
    PROVE  /\ Without(bucket, id) \in Seq(AnyNode) /\ Len(Without(bucket, id)) < Len(bucket)
           /\ \A k \in DOMAIN Without(bucket, id) :
                \E x \in DOMAIN bucket : bucket[x].id # id /\ Without(bucket, id)[k] = bucket[x]
           /\ \A j, k \in DOMAIN Without(bucket, id) : j < k =>
                \E x, y \in DOMAIN bucket :
                    /\ x < y /\ bucket[x].id # id /\ bucket[y].id # id
                    /\ Without(bucket, id)[j] = bucket[x] /\ Without(bucket, id)[k] = bucket[y]
<1> DEFINE S == {k \in DOMAIN bucket : bucket[k].id # id}
           W == Without(bucket, id)
<1>1. bucket \in Seq(AnyNode) /\ DOMAIN bucket = 1 .. Len(bucket) /\ Len(bucket) \in Nat
  BY DEF BucketSound
<1>2. IsFiniteSet(1 .. Len(bucket)) /\ Cardinality(1 .. Len(bucket)) = Len(bucket)
  BY <1>1, FS_Interval
<1>3. S \in SUBSET (1 .. Len(bucket)) /\ S # 1 .. Len(bucket)
  BY <1>1 DEF Lists
<1>4. /\ IsFiniteSet(S) /\ S \subseteq Nat /\ Cardinality(S) \in Nat
      /\ Cardinality(S) <= Len(bucket) /\ Cardinality(S) # Len(bucket)
  <2> HIDE DEF S
  <2>1. IsFiniteSet(S) /\ Cardinality(S) <= Len(bucket) /\ Cardinality(S) # Len(bucket)
    BY <1>2, <1>3, FS_Subset
  <2>2. S \subseteq Nat
    BY <1>3
  <2> QED
    BY <2>1, <2>2, FS_CardinalityType
<1>5. PICK f \in [1 .. Cardinality(S) -> S] :
          /\ Picked(bucket, S) = [k \in 1 .. Cardinality(S) |-> bucket[f[k]]]
          /\ \A j \in S : \E k \in 1 .. Cardinality(S) : f[k] = j
          /\ \A j, k \in 1 .. Cardinality(S) : j < k => f[j] < f[k]
  <2> HIDE DEF S
  <2> QED
    BY <1>4, PickedOf
<1>6. W = [k \in 1 .. Cardinality(S) |-> bucket[f[k]]]
  BY <1>5 DEF Without
<1>7. \A x \in S : x \in DOMAIN bucket /\ bucket[x].id # id /\ bucket[x] \in AnyNode
  BY <1>1
<1> HIDE DEF S, W
<1>8. W \in [1 .. Cardinality(S) -> AnyNode]
  BY <1>5, <1>6, <1>7
<1>9. W \in Seq(AnyNode) /\ Len(W) = Cardinality(S) /\ DOMAIN W = 1 .. Cardinality(S)
  BY <1>4, <1>8
<1>10. ASSUME NEW k \in DOMAIN W PROVE \E x \in DOMAIN bucket : bucket[x].id # id /\ W[k] = bucket[x]
  BY <1>5, <1>6, <1>7, <1>9
<1>11. ASSUME NEW j \in DOMAIN W, NEW k \in DOMAIN W, j < k
       PROVE  \E x, y \in DOMAIN bucket : /\ x < y /\ bucket[x].id # id /\ bucket[y].id # id
                                          /\ W[j] = bucket[x] /\ W[k] = bucket[y]
  <2>1. f[j] \in S /\ f[k] \in S /\ f[j] < f[k] /\ W[j] = bucket[f[j]] /\ W[k] = bucket[f[k]]
    BY <1>5, <1>6, <1>9, <1>11
  <2> QED
    BY <1>7, <2>1
<1> QED
  BY <1>4, <1>9, <1>10, <1>11 DEF W

LEMMA EnteredSound ==
    ASSUME NEW b, NEW bucket, BucketSound(bucket, b), NEW n \in AnyNode,
           n.id # OurId, BucketOf(n.id) = b
    PROVE  BucketSound(Entered(bucket, n), b)
<1> DEFINE E == Entered(bucket, n)
<1>0. K \in Nat /\ bucket \in Seq(AnyNode) /\ Len(bucket) \in Nat /\ Len(bucket) <= K
  BY ConstantsAssumption DEF BucketSound
<1>1. CASE Lists(bucket, n.id)
  <2> DEFINE W == Without(bucket, n.id)
  <2>1. E = Append(W, n)
    BY <1>1 DEF Entered
  <2>2. /\ W \in Seq(AnyNode) /\ Len(W) < Len(bucket)
        /\ \A k \in DOMAIN W : \E x \in DOMAIN bucket : bucket[x].id # n.id /\ W[k] = bucket[x]
        /\ \A j, k \in DOMAIN W : j < k =>
              \E x, y \in DOMAIN bucket : /\ x < y /\ bucket[x].id # n.id /\ bucket[y].id # n.id
                                          /\ W[j] = bucket[x] /\ W[k] = bucket[y]
    BY <1>1, WithoutOf
  <2> HIDE DEF W, E
  <2>3. E \in Seq(AnyNode) /\ Len(E) = Len(W) + 1 /\ E[Len(E)] = n /\ Len(W) \in Nat
        /\ \A k \in DOMAIN E : k = Len(E) \/ (k \in DOMAIN W /\ E[k] = W[k])
    BY <2>1, <2>2
  <2>4. Len(E) <= K
    BY <1>0, <2>2, <2>3
  <2>5. \A k \in DOMAIN E : E[k].id # OurId /\ BucketOf(E[k].id) = b
    BY <2>2, <2>3 DEF BucketSound
  <2>6. \A k \in DOMAIN W : W[k].id # n.id
    BY <2>2
  <2>7. ASSUME NEW j \in DOMAIN W, NEW k \in DOMAIN W, j < k PROVE W[j].id # W[k].id
    <3>1. PICK x \in DOMAIN bucket, y \in DOMAIN bucket : x < y /\ W[j] = bucket[x] /\ W[k] = bucket[y]
      BY <2>2, <2>7
    <3>2. x \in Nat /\ y \in Nat
      BY <1>0
    <3> QED
      BY <3>1, <3>2 DEF BucketSound
  <2>8. \A j, k \in DOMAIN W : W[j].id = W[k].id => j = k
    <3>1. \A j \in DOMAIN W : j \in Nat
      BY <2>2
    <3>2. \A j, k \in DOMAIN W : j < k \/ k < j \/ j = k
      BY <3>1
    <3> QED
      BY <2>7, <3>2
  <2>9. \A j, k \in DOMAIN E : E[j].id = E[k].id => j = k
    BY <2>3, <2>6, <2>8
  <2> QED
    BY <2>3, <2>4, <2>5, <2>9 DEF BucketSound, E
<1>2. CASE ~Lists(bucket, n.id) /\ Len(bucket) < K
  <2>1. E = Append(bucket, n)
    BY <1>2 DEF Entered
  <2>2. \A k \in DOMAIN bucket : bucket[k].id # n.id
    BY <1>2 DEF Lists
  <2> HIDE DEF E
  <2>3. E \in Seq(AnyNode) /\ Len(E) = Len(bucket) + 1 /\ E[Len(E)] = n
        /\ \A k \in DOMAIN E : k = Len(E) \/ (k \in DOMAIN bucket /\ E[k] = bucket[k])
    BY <1>0, <2>1
  <2>4. Len(E) <= K
    BY <1>0, <1>2, <2>3
  <2>5. \A k \in DOMAIN E : E[k].id # OurId /\ BucketOf(E[k].id) = b
    BY <2>3 DEF BucketSound
  <2>6. \A j, k \in DOMAIN E : E[j].id = E[k].id => j = k
    BY <2>2, <2>3 DEF BucketSound
  <2> QED
    BY <2>3, <2>4, <2>5, <2>6 DEF BucketSound, E
<1>3. CASE ~Lists(bucket, n.id) /\ ~(Len(bucket) < K)
  BY <1>3 DEF Entered
<1> QED
  BY <1>1, <1>2, <1>3

Tables == {t \in [Bits -> Seq(AnyNode)] : \A b \in Bits : BucketSound(t[b], b)}

LEMMA InsertOf ==
    ASSUME NEW t \in Tables, NEW n \in AnyNode, n.id # OurId
    PROVE  /\ BucketOf(n.id) \in Bits
           /\ Insert(t, n) = [t EXCEPT ![BucketOf(n.id)] = Entered(t[BucketOf(n.id)], n)]
<1>1. BucketOf(n.id) \in Bits
  BY NodeIds, BucketExists
<1> QED
  BY <1>1 DEF Insert, Entered, Tables

LEMMA InsertSound ==
    ASSUME NEW t \in Tables, NEW n \in AnyNode
    PROVE  Insert(t, n) \in Tables
<1>1. CASE n.id = OurId
  BY <1>1 DEF Insert
<1>2. CASE n.id # OurId
  <2>1. PICK b \in Bits : b = BucketOf(n.id) /\ Insert(t, n) = [t EXCEPT ![b] = Entered(t[b], n)]
    BY <1>2, InsertOf
  <2>2. BucketSound(Entered(t[b], n), b)
    BY <1>2, <2>1, EnteredSound DEF Tables
  <2>3. Entered(t[b], n) \in Seq(AnyNode)
    BY <2>2 DEF BucketSound
  <2> QED
    BY <2>1, <2>2, <2>3 DEF Tables
<1> QED
  BY <1>1, <1>2

----------------------------------------------------------------------------
(* The order in which nodes were mentioned *)

Distinct(s) == \A x, y \in DOMAIN s : s[x] = s[y] => x = y

Has(s, i) == \E x \in DOMAIN s : s[x] = i
Earlier(s, i, j) == \E x, y \in DOMAIN s : x < y /\ s[x] = i /\ s[y] = j

MovedLast(s, id) == Append(Picked(s, {k \in DOMAIN s : s[k] # id}), id)

\* The id moves to the end, and the others keep their order.
LEMMA MovedLastOf ==
    ASSUME NEW T, NEW s \in Seq(T), Distinct(s), NEW id \in T
    PROVE  /\ MovedLast(s, id) \in Seq(T) /\ Distinct(MovedLast(s, id))
           /\ Has(MovedLast(s, id), id)
           /\ \A i : Has(s, i) /\ i # id => Has(MovedLast(s, id), i) /\ Earlier(MovedLast(s, id), i, id)
           /\ \A i, j : Earlier(s, i, j) /\ i # id /\ j # id => Earlier(MovedLast(s, id), i, j)
<1> DEFINE S == {k \in DOMAIN s : s[k] # id}
           P == Picked(s, S)
           M == MovedLast(s, id)
<1>1. DOMAIN s = 1 .. Len(s) /\ Len(s) \in Nat
  OBVIOUS
<1>2. S \in SUBSET (1 .. Len(s)) /\ \A x \in S : x \in DOMAIN s /\ s[x] # id /\ s[x] \in T
  BY <1>1
<1>3. \A x \in DOMAIN s : s[x] # id => x \in S
  OBVIOUS
<1>4. M = Append(P, id)
  BY DEF MovedLast
<1> HIDE DEF S, M
<1>5. IsFiniteSet(S) /\ S \subseteq Nat /\ Cardinality(S) \in Nat
  <2>1. IsFiniteSet(1 .. Len(s))
    BY <1>1, FS_Interval
  <2>2. IsFiniteSet(S)
    BY <1>2, <2>1, FS_Subset
  <2>3. S \subseteq Nat
    BY <1>2
  <2> QED
    BY <2>2, <2>3, FS_CardinalityType
<1>6. PICK f \in [1 .. Cardinality(S) -> S] :
          /\ P = [k \in 1 .. Cardinality(S) |-> s[f[k]]]
          /\ \A j \in S : \E k \in 1 .. Cardinality(S) : f[k] = j
          /\ \A j, k \in 1 .. Cardinality(S) : j < k => f[j] < f[k]
  BY <1>5, PickedOf
<1> HIDE DEF P
<1>7. P \in [1 .. Cardinality(S) -> T]
  BY <1>2, <1>6
<1>8. P \in Seq(T) /\ Len(P) = Cardinality(S) /\ DOMAIN P = 1 .. Cardinality(S)
  BY <1>5, <1>7
<1>9. /\ M \in Seq(T) /\ Len(M) = Len(P) + 1 /\ Len(M) \in DOMAIN M /\ M[Len(M)] = id
      /\ \A k \in DOMAIN M : k = Len(M) \/ k \in DOMAIN P
      /\ \A k \in DOMAIN P : k \in DOMAIN M /\ M[k] = P[k] /\ k < Len(M) /\ k \in Nat
  BY <1>4, <1>5, <1>8
<1>10. \A k \in DOMAIN P : P[k] = s[f[k]] /\ f[k] \in S
  BY <1>6, <1>8
<1>11. Distinct(M)
  <2>1. ASSUME NEW j \in DOMAIN P, NEW k \in DOMAIN P, j < k PROVE P[j] # P[k]
    <3>1. f[j] < f[k] /\ f[j] \in DOMAIN s /\ f[k] \in DOMAIN s /\ f[j] \in Nat /\ f[k] \in Nat
      BY <1>2, <1>5, <1>6, <1>8, <1>10, <2>1
    <3>2. s[f[j]] # s[f[k]]
      BY <3>1 DEF Distinct
    <3> QED
      BY <1>10, <3>2
  <2>2. \A j, k \in DOMAIN P : P[j] = P[k] => j = k
    <3>1. \A j, k \in DOMAIN P : j < k \/ k < j \/ j = k
      BY <1>9
    <3> QED
      BY <2>1, <3>1
  <2>3. \A k \in DOMAIN P : P[k] # id
    BY <1>2, <1>10
  <2> QED
    BY <1>9, <2>2, <2>3 DEF Distinct
<1>12. ASSUME NEW i, Has(s, i), i # id
       PROVE  \E k \in DOMAIN P : M[k] = i
  <2>1. PICK x \in DOMAIN s : s[x] = i
    BY <1>12 DEF Has
  <2>2. PICK k \in 1 .. Cardinality(S) : f[k] = x
    BY <1>3, <1>6, <1>12, <2>1
  <2> QED
    BY <1>8, <1>9, <1>10, <2>1, <2>2
<1>13. ASSUME NEW i, NEW j, Earlier(s, i, j), i # id, j # id
       PROVE  Earlier(M, i, j)
  <2>1. PICK x \in DOMAIN s, y \in DOMAIN s : x < y /\ s[x] = i /\ s[y] = j
    BY <1>13 DEF Earlier
  <2>2. PICK k \in DOMAIN P, l \in DOMAIN P : f[k] = x /\ f[l] = y
    BY <1>3, <1>6, <1>8, <1>13, <2>1
  <2>3. x \in Nat /\ y \in Nat /\ k \in Nat /\ l \in Nat
    BY <1>1, <1>9, <2>1
  <2>4. l < k => f[l] < f[k]
    BY <1>6, <1>8
  <2>5. k < l
    BY <2>1, <2>2, <2>3, <2>4
  <2>6. M[k] = i /\ M[l] = j /\ k \in DOMAIN M /\ l \in DOMAIN M
    BY <1>9, <1>10, <2>1, <2>2
  <2> QED
    BY <2>5, <2>6 DEF Earlier
<1>14. Has(M, id)
  BY <1>9 DEF Has
<1>15. ASSUME NEW i, Has(s, i), i # id PROVE Has(M, i) /\ Earlier(M, i, id)
  BY <1>9, <1>12, <1>15 DEF Has, Earlier
<1> QED
  BY <1>9, <1>11, <1>13, <1>14, <1>15 DEF M

Orders == {o \in [Bits -> Seq(SUBSET Bits)] : \A b \in Bits : Distinct(o[b])}

LEMMA LastOfOf ==
    ASSUME NEW o \in Orders, NEW id, id \subseteq Bits, id # OurId
    PROVE  /\ BucketOf(id) \in Bits
           /\ LastOf(o, id) = [o EXCEPT ![BucketOf(id)] = MovedLast(o[BucketOf(id)], id)]
<1>1. BucketOf(id) \in Bits
  BY BucketExists
<1> QED
  BY <1>1 DEF LastOf, MovedLast, Orders

LEMMA LastOfSound ==
    ASSUME NEW o \in Orders, NEW id, id \subseteq Bits
    PROVE  LastOf(o, id) \in Orders
<1>1. CASE id = OurId
  BY <1>1 DEF LastOf
<1>2. CASE id # OurId
  <2>1. PICK b \in Bits : b = BucketOf(id) /\ LastOf(o, id) = [o EXCEPT ![b] = MovedLast(o[b], id)]
    BY <1>2, LastOfOf
  <2>2. MovedLast(o[b], id) \in Seq(SUBSET Bits) /\ Distinct(MovedLast(o[b], id))
    BY MovedLastOf DEF Orders
  <2> QED
    BY <2>1, <2>2 DEF Orders
<1> QED
  BY <1>1, <1>2

\* The nodes of a bucket were all mentioned, and are listed in the order of the mentions.
InOrder(bucket, s) ==
    /\ \A k \in DOMAIN bucket : Has(s, bucket[k].id)
    /\ \A j, k \in DOMAIN bucket : j < k => Earlier(s, bucket[j].id, bucket[k].id)

LEMMA EnteredInOrder ==
    ASSUME NEW b, NEW bucket, BucketSound(bucket, b), NEW n \in AnyNode,
           NEW s \in Seq(SUBSET Bits), Distinct(s), InOrder(bucket, s)
    PROVE  InOrder(Entered(bucket, n), MovedLast(s, n.id))
<1> DEFINE E == Entered(bucket, n)
           M == MovedLast(s, n.id)
<1>1. /\ Has(M, n.id)
      /\ \A i : Has(s, i) /\ i # n.id => Has(M, i) /\ Earlier(M, i, n.id)
      /\ \A i, j : Earlier(s, i, j) /\ i # n.id /\ j # n.id => Earlier(M, i, j)
  BY NodeIds, MovedLastOf
<1>2. bucket \in Seq(AnyNode) /\ Len(bucket) \in Nat
  BY DEF BucketSound
<1> HIDE DEF M
<1>3. CASE Lists(bucket, n.id)
  <2> DEFINE W == Without(bucket, n.id)
  <2>1. E = Append(W, n)
    BY <1>3 DEF Entered
  <2>2. /\ W \in Seq(AnyNode) /\ Len(W) < Len(bucket)
        /\ \A k \in DOMAIN W : \E x \in DOMAIN bucket : bucket[x].id # n.id /\ W[k] = bucket[x]
        /\ \A j, k \in DOMAIN W : j < k =>
              \E x, y \in DOMAIN bucket : /\ x < y /\ bucket[x].id # n.id /\ bucket[y].id # n.id
                                          /\ W[j] = bucket[x] /\ W[k] = bucket[y]
    BY <1>3, WithoutOf
  <2> HIDE DEF W, E
  <2>3. /\ DOMAIN E = 1 .. Len(W) + 1 /\ Len(W) \in Nat /\ DOMAIN W = 1 .. Len(W)
        /\ E[Len(W) + 1] = n /\ \A k \in DOMAIN W : E[k] = W[k]
    BY <2>1, <2>2
  <2>4. \A k \in DOMAIN E : Has(M, E[k].id) /\ (k # Len(W) + 1 => Earlier(M, E[k].id, n.id))
    <3>1. \A k \in DOMAIN W : Has(s, W[k].id) /\ W[k].id # n.id
      BY <2>2 DEF InOrder
    <3> QED
      BY <1>1, <2>3, <3>1
  <2>5. ASSUME NEW j \in DOMAIN E, NEW k \in DOMAIN E, j < k PROVE Earlier(M, E[j].id, E[k].id)
    <3>1. CASE k = Len(W) + 1
      BY <2>3, <2>4, <2>5, <3>1
    <3>2. CASE k # Len(W) + 1
      <4>1. j \in DOMAIN W /\ k \in DOMAIN W
        BY <2>3, <2>5, <3>2
      <4>2. Earlier(s, W[j].id, W[k].id) /\ W[j].id # n.id /\ W[k].id # n.id
        BY <2>2, <2>5, <4>1 DEF InOrder
      <4> QED
        BY <1>1, <2>3, <4>1, <4>2
    <3> QED
      BY <3>1, <3>2
  <2> QED
    BY <2>4, <2>5 DEF InOrder, E, M
<1>4. CASE ~Lists(bucket, n.id)
  <2>1. \A k \in DOMAIN bucket : bucket[k].id # n.id
    BY <1>4 DEF Lists
  <2>2. \A k \in DOMAIN bucket : Has(M, bucket[k].id) /\ Earlier(M, bucket[k].id, n.id)
    BY <1>1, <2>1 DEF InOrder
  <2>3. \A j, k \in DOMAIN bucket : j < k => Earlier(M, bucket[j].id, bucket[k].id)
    BY <1>1, <2>1 DEF InOrder
  <2>4. CASE Len(bucket) < K
    <3>1. E = Append(bucket, n)
      BY <1>4, <2>4 DEF Entered
    <3> HIDE DEF E
    <3>2. /\ DOMAIN E = 1 .. Len(bucket) + 1 /\ DOMAIN bucket = 1 .. Len(bucket)
          /\ E[Len(bucket) + 1] = n /\ \A k \in DOMAIN bucket : E[k] = bucket[k]
      BY <1>2, <3>1
    <3>3. \A k \in DOMAIN E : Has(M, E[k].id)
      BY <1>1, <1>2, <2>2, <3>2
    <3>4. ASSUME NEW j \in DOMAIN E, NEW k \in DOMAIN E, j < k PROVE Earlier(M, E[j].id, E[k].id)
      <4>1. j \in DOMAIN bucket /\ (k \in DOMAIN bucket \/ k = Len(bucket) + 1)
        BY <1>2, <3>2, <3>4
      <4> QED
        BY <2>2, <2>3, <3>2, <3>4, <4>1
    <3> QED
      BY <3>3, <3>4 DEF InOrder, E, M
  <2>5. CASE ~(Len(bucket) < K)
    <3>1. E = bucket
      BY <1>4, <2>5 DEF Entered
    <3> QED
      BY <2>2, <2>3, <3>1 DEF InOrder, M
  <2> QED
    BY <2>4, <2>5
<1> QED
  BY <1>3, <1>4

\* The table, and the order of the mentions, of one moment.
Agree(t, o) == t \in Tables /\ o \in Orders /\ \A b \in Bits : InOrder(t[b], o[b])

LEMMA InsertAgrees ==
    ASSUME NEW t, NEW o, Agree(t, o), NEW n \in AnyNode
    PROVE  Agree(Insert(t, n), LastOf(o, n.id))
<1>1. CASE n.id = OurId
  BY <1>1 DEF Insert, LastOf
<1>2. CASE n.id # OurId
  <2>0. t \in Tables /\ o \in Orders /\ \A b \in Bits : InOrder(t[b], o[b])
    BY DEF Agree
  <2>1. PICK b \in Bits : /\ b = BucketOf(n.id)
                         /\ Insert(t, n) = [t EXCEPT ![b] = Entered(t[b], n)]
                         /\ LastOf(o, n.id) = [o EXCEPT ![b] = MovedLast(o[b], n.id)]
    BY <1>2, <2>0, NodeIds, InsertOf, LastOfOf
  <2>2. Insert(t, n) \in Tables /\ LastOf(o, n.id) \in Orders
    BY <2>0, NodeIds, InsertSound, LastOfSound
  <2>3. InOrder(Entered(t[b], n), MovedLast(o[b], n.id))
    BY <2>0, EnteredInOrder DEF Tables, Orders
  <2>4. \A c \in Bits : InOrder(Insert(t, n)[c], LastOf(o, n.id)[c])
    BY <2>0, <2>1, <2>3 DEF Tables, Orders
  <2> QED
    BY <2>2, <2>4 DEF Agree
<1> QED
  BY <1>1, <1>2

\* The loop over a list of nodes: there are tables to be had from one another.
LEMMA AllInsertedSteps ==
    ASSUME NEW t, NEW nodes, Len(nodes) \in Nat
    PROVE  \E g : /\ g = [k \in 0 .. Len(nodes) |-> IF k = 0 THEN t ELSE Insert(g[k - 1], nodes[k])]
                 /\ AllInserted(t, nodes) = g[Len(nodes)]
<1> DEFINE IsT(g, m) == g = [k \in 0 .. m |-> IF k = 0 THEN t ELSE Insert(g[k - 1], nodes[k])]
           S == {m \in Nat : \E g : IsT(g, m)}
<1>1. 0 \in S
  <2> DEFINE g == [k \in 0 .. 0 |-> t]
  <2>1. IsT(g, 0)
    OBVIOUS
  <2> QED
    BY <2>1
<1>2. ASSUME NEW m \in Nat, m \in S PROVE m + 1 \in S
  <2>1. PICK g : IsT(g, m)
    BY <1>2
  <2> DEFINE h == [k \in 0 .. m + 1 |-> IF k <= m THEN g[k] ELSE Insert(g[m], nodes[m + 1])]
  <2>2. ASSUME NEW k \in 0 .. m + 1
        PROVE  h[k] = IF k = 0 THEN t ELSE Insert(h[k - 1], nodes[k])
    <3>1. CASE k = 0
      BY <2>1, <3>1
    <3>2. CASE k \in 1 .. m
      <4>1. h[k] = g[k] /\ k - 1 \in 0 .. m + 1 /\ h[k - 1] = g[k - 1] /\ k \in 0 .. m /\ k # 0
        BY <3>2
      <4>2. g[k] = Insert(g[k - 1], nodes[k])
        BY <2>1, <4>1
      <4> QED
        BY <4>1, <4>2
    <3>3. CASE k = m + 1
      BY <3>3
    <3> QED
      BY <3>1, <3>2, <3>3
  <2>3. IsT(h, m + 1)
    <3>1. h = [k \in 0 .. m + 1 |-> h[k]]
      OBVIOUS
    <3> HIDE DEF h
    <3> QED
      BY <2>2, <3>1
  <2> HIDE DEF IsT
  <2> QED
    BY <2>3
<1> HIDE DEF IsT
<1>3. Len(nodes) \in S
  <2> HIDE DEF S
  <2> QED
    BY <1>1, <1>2, UpFromZero
<1>4. \E g : IsT(g, Len(nodes))
  BY <1>3
<1>5. IsT(CHOOSE g : IsT(g, Len(nodes)), Len(nodes))
  BY <1>4
<1>6. AllInserted(t, nodes) = (CHOOSE g : IsT(g, Len(nodes)))[Len(nodes)]
  BY DEF AllInserted, IsT
<1> QED
  BY <1>5, <1>6 DEF IsT

LEMMA AllMentionedSteps ==
    ASSUME NEW o, NEW nodes, Len(nodes) \in Nat
    PROVE  \E g : /\ g = [k \in 0 .. Len(nodes) |-> IF k = 0 THEN o ELSE LastOf(g[k - 1], nodes[k].id)]
                 /\ AllMentioned(o, nodes) = g[Len(nodes)]
<1> DEFINE IsO(g, m) == g = [k \in 0 .. m |-> IF k = 0 THEN o ELSE LastOf(g[k - 1], nodes[k].id)]
           S == {m \in Nat : \E g : IsO(g, m)}
<1>1. 0 \in S
  <2> DEFINE g == [k \in 0 .. 0 |-> o]
  <2>1. IsO(g, 0)
    OBVIOUS
  <2> QED
    BY <2>1
<1>2. ASSUME NEW m \in Nat, m \in S PROVE m + 1 \in S
  <2>1. PICK g : IsO(g, m)
    BY <1>2
  <2> DEFINE h == [k \in 0 .. m + 1 |-> IF k <= m THEN g[k] ELSE LastOf(g[m], nodes[m + 1].id)]
  <2>2. ASSUME NEW k \in 0 .. m + 1
        PROVE  h[k] = IF k = 0 THEN o ELSE LastOf(h[k - 1], nodes[k].id)
    <3>1. CASE k = 0
      BY <2>1, <3>1
    <3>2. CASE k \in 1 .. m
      <4>1. h[k] = g[k] /\ k - 1 \in 0 .. m + 1 /\ h[k - 1] = g[k - 1] /\ k \in 0 .. m /\ k # 0
        BY <3>2
      <4>2. g[k] = LastOf(g[k - 1], nodes[k].id)
        BY <2>1, <4>1
      <4> QED
        BY <4>1, <4>2
    <3>3. CASE k = m + 1
      BY <3>3
    <3> QED
      BY <3>1, <3>2, <3>3
  <2>3. IsO(h, m + 1)
    <3>1. h = [k \in 0 .. m + 1 |-> h[k]]
      OBVIOUS
    <3> HIDE DEF h
    <3> QED
      BY <2>2, <3>1
  <2> HIDE DEF IsO
  <2> QED
    BY <2>3
<1> HIDE DEF IsO
<1>3. Len(nodes) \in S
  <2> HIDE DEF S
  <2> QED
    BY <1>1, <1>2, UpFromZero
<1>4. \E g : IsO(g, Len(nodes))
  BY <1>3
<1>5. IsO(CHOOSE g : IsO(g, Len(nodes)), Len(nodes))
  BY <1>4
<1>6. AllMentioned(o, nodes) = (CHOOSE g : IsO(g, Len(nodes)))[Len(nodes)]
  BY DEF AllMentioned, IsO
<1> QED
  BY <1>5, <1>6 DEF IsO

\* Whatever list of nodes a response carries.
LEMMA AllAgree ==
    ASSUME NEW t, NEW o, Agree(t, o), NEW nodes \in Told
    PROVE  Agree(AllInserted(t, nodes), AllMentioned(o, nodes))
<1> DEFINE N == Len(nodes)
<1>1. N \in Nat /\ \A k \in 1 .. N : nodes[k] \in AnyNode
  <2>1. nodes \in Seq(ToSet(nodes)) /\ ToSet(nodes) \subseteq AnyNode
    BY ConstantsAssumption DEF AnyNode
  <2> QED
    BY <2>1
<1>2. PICK g : /\ g = [k \in 0 .. N |-> IF k = 0 THEN t ELSE Insert(g[k - 1], nodes[k])]
               /\ AllInserted(t, nodes) = g[N]
  BY <1>1, AllInsertedSteps
<1>3. PICK h : /\ h = [k \in 0 .. N |-> IF k = 0 THEN o ELSE LastOf(h[k - 1], nodes[k].id)]
               /\ AllMentioned(o, nodes) = h[N]
  BY <1>1, AllMentionedSteps
<1> DEFINE S == {m \in Nat : m <= N => Agree(g[m], h[m])}
<1> HIDE DEF N
<1>4. 0 \in S
  <2>1. 0 \in 0 .. N
    BY <1>1
  <2>2. g[0] = t /\ h[0] = o
    BY <1>2, <1>3, <2>1
  <2> QED
    BY <2>2
<1>5. ASSUME NEW m \in Nat, m \in S PROVE m + 1 \in S
  <2> SUFFICES ASSUME m + 1 <= N PROVE Agree(g[m + 1], h[m + 1])
    OBVIOUS
  <2>1. Agree(g[m], h[m])
    BY <1>1, <1>5
  <2>2. m + 1 \in 0 .. N /\ m + 1 # 0 /\ (m + 1) - 1 = m /\ m + 1 \in 1 .. N
    BY <1>1
  <2>3. g[m + 1] = Insert(g[m], nodes[m + 1]) /\ h[m + 1] = LastOf(h[m], nodes[m + 1].id)
    BY <1>2, <1>3, <2>2
  <2> QED
    BY <1>1, <2>1, <2>2, <2>3, InsertAgrees
<1>6. N \in S
  <2> HIDE DEF S
  <2> QED
    BY <1>1, <1>4, <1>5, UpFromZero
<1> QED
  BY <1>1, <1>2, <1>3, <1>6 DEF N

----------------------------------------------------------------------------
(* The table of the node *)

TableAgrees == Agree(buckets, mentions)

LEMMA InitAgrees == Init => TableAgrees
<1> SUFFICES ASSUME Init PROVE TableAgrees
  OBVIOUS
<1>1. buckets = [b \in Bits |-> <<>>] /\ mentions = [b \in Bits |-> <<>>]
  BY DEF Init
<1>2. \A b : BucketSound(<<>>, b)
  BY ConstantsAssumption DEF BucketSound
<1>3. buckets \in Tables
  BY <1>1, <1>2 DEF Tables
<1>4. mentions \in Orders
  BY <1>1 DEF Orders, Distinct
<1>5. \A b \in Bits : InOrder(buckets[b], mentions[b])
  BY <1>1 DEF InOrder
<1> QED
  BY <1>3, <1>4, <1>5 DEF TableAgrees, Agree

LEMMA HeardAgrees ==
    ASSUME TableAgrees, NEW from \in Nodes, HandleMessage(from)
    PROVE  TableAgrees'
<1>1. from \in AnyNode
  BY DEF AnyNode
<1>2. Agree(Insert(buckets, from), LastOf(mentions, from.id))
  BY <1>1, InsertAgrees DEF TableAgrees
<1>3. CASE Heard(from)
  <2>1. buckets' = Insert(buckets, from) /\ mentions' = LastOf(mentions, from.id)
    BY <1>3 DEF Heard
  <2> QED
    BY <1>2, <2>1 DEF TableAgrees
<1>4. ASSUME NEW nodes \in Told, Response(from, nodes) PROVE TableAgrees'
  <2>1. /\ buckets' = AllInserted(Insert(buckets, from), nodes)
        /\ mentions' = AllMentioned(LastOf(mentions, from.id), nodes)
    BY <1>4 DEF Response
  <2> QED
    BY <1>2, <2>1, AllAgree DEF TableAgrees
<1> QED
  BY <1>3, <1>4 DEF HandleMessage, Ping, Pong, FindNode, GetPeers, AnnouncePeer

LEMMA NextAgrees == TableAgrees /\ [Next]_vars => TableAgrees'
<1> SUFFICES ASSUME TableAgrees, [Next]_vars PROVE TableAgrees'
  OBVIOUS
<1>1. CASE Refresh \/ Cleanup \/ Tick \/ UNCHANGED vars
  <2>1. UNCHANGED <<buckets, mentions>>
    BY <1>1 DEF Refresh, Cleanup, Tick, vars
  <2> QED
    BY <2>1 DEF TableAgrees
<1> QED
  BY <1>1, HeardAgrees DEF Next

\* Whatever is said by and about nodes, no id is listed twice or in two buckets, ours is
\* in none, and no bucket outgrows K.
THEOREM TableSoundCorrect == Spec => []TableSound
<1>1. ASSUME TableAgrees PROVE TableSound
  <2>1. \A b \in Bits : BucketSound(buckets[b], b)
    BY <1>1 DEF TableAgrees, Agree, Tables
  <2>2. ASSUME NEW b \in Bits, NEW c \in Bits, NEW j \in DOMAIN buckets[b], NEW k \in DOMAIN buckets[c],
               buckets[b][j].id = buckets[c][k].id
        PROVE  b = c /\ j = k
    <3>1. b = c
      BY <2>1, <2>2 DEF BucketSound
    <3> QED
      BY <2>1, <2>2, <3>1 DEF BucketSound
  <2>3. \A b \in Bits : Len(buckets[b]) <= K /\ ~Lists(buckets[b], OurId)
    BY <2>1 DEF BucketSound, Lists
  <2> QED
    BY <2>2, <2>3 DEF TableSound
<1>2. TableAgrees => TableSound
  BY <1>1
<1> QED
  BY <1>2, InitAgrees, NextAgrees, PTL DEF Spec

\* The first of a bucket was mentioned before the others of the bucket.
LEMMA OldestIsSilent ==
    ASSUME TableAgrees, NEW from, NEW to \in Oldest(from),
           from.id # OurId => BucketOf(from.id) \in Bits
    PROVE  LET b == BucketOf(to.id) IN
           \A k \in DOMAIN mentions[b] : mentions[b][k] = to.id =>
               \A j \in 1 .. k - 1 : ~Lists(buckets[b], mentions[b][j])
<1>1. PICK b \in Bits : /\ b = BucketOf(from.id) /\ Len(buckets[b]) >= K /\ to = buckets[b][1]
  BY DEF Oldest
<1>2. /\ BucketSound(buckets[b], b) /\ InOrder(buckets[b], mentions[b]) /\ Distinct(mentions[b])
      /\ mentions[b] \in Seq(SUBSET Bits) /\ buckets[b] \in Seq(AnyNode)
  BY DEF TableAgrees, Agree, Tables, Orders
<1>3. 1 \in DOMAIN buckets[b] /\ BucketOf(to.id) = b
  <2>1. Len(buckets[b]) \in Nat /\ Len(buckets[b]) # 0 /\ DOMAIN buckets[b] = 1 .. Len(buckets[b])
    BY <1>1, <1>2, ConstantsAssumption
  <2>2. 1 \in DOMAIN buckets[b]
    BY <2>1
  <2> QED
    BY <1>1, <1>2, <2>2 DEF BucketSound
<1>4. ASSUME NEW k \in DOMAIN mentions[b], mentions[b][k] = to.id, NEW j \in 1 .. k - 1,
             Lists(buckets[b], mentions[b][j])
      PROVE  FALSE
  <2>1. PICK i \in DOMAIN buckets[b] : buckets[b][i].id = mentions[b][j]
    BY <1>4 DEF Lists
  <2>2. j \in DOMAIN mentions[b] /\ j < k /\ j \in Nat /\ k \in Nat /\ i \in Nat /\ i >= 1
    BY <1>2, <1>4
  <2>3. CASE i = 1
    <3>1. mentions[b][j] = mentions[b][k]
      BY <1>1, <1>4, <2>1, <2>3
    <3> QED
      BY <1>2, <2>2, <3>1 DEF Distinct
  <2>4. CASE i # 1
    <3>1. Earlier(mentions[b], buckets[b][1].id, buckets[b][i].id)
      BY <1>2, <1>3, <2>2, <2>4 DEF InOrder
    <3>2. PICK x \in DOMAIN mentions[b], y \in DOMAIN mentions[b] :
              x < y /\ mentions[b][x] = to.id /\ mentions[b][y] = mentions[b][j]
      BY <1>1, <2>1, <3>1 DEF Earlier
    <3>3. x = k /\ y = j
      BY <1>2, <1>4, <2>2, <3>2 DEF Distinct
    <3> QED
      BY <2>2, <3>2, <3>3
  <2> QED
    BY <2>3, <2>4
<1> QED
  BY <1>3, <1>4

\* For a full bucket the node that is pinged is the one of which nothing was heard for
\* the longest time.
THEOREM PingsLongestSilentCorrect == Spec => PingsLongestSilent
<1> DEFINE Silent(to) == LET b == BucketOf(to.id) IN
                \A k \in DOMAIN mentions[b] : mentions[b][k] = to.id =>
                    \A j \in 1 .. k - 1 : ~Lists(buckets[b], mentions[b][j])
           Pinged == \A m \in sent' : m.type = "Ping" => Silent(m.to)
<1>1. ASSUME TableAgrees, [Next]_vars PROVE [Pinged]_vars
  <2>1. ASSUME NEW from \in Nodes, NEW to \in Oldest(from) PROVE Silent(to)
    <3>1. from.id # OurId => BucketOf(from.id) \in Bits
      BY NodeIds, BucketExists DEF AnyNode
    <3> QED
      BY <1>1, <3>1, OldestIsSilent
  <2> HIDE DEF Silent
  <2>2. ASSUME NEW from \in Nodes, HandleMessage(from) PROVE Pinged
    <3>1. sent' \subseteq Greets(from) \cup {m \in sent' : m.type # "Ping"}
      BY <2>2 DEF HandleMessage, Ping, Pong, FindNode, GetPeers, Response, AnnouncePeer
    <3>2. \A m \in Greets(from) : \E to \in Oldest(from) : m.to = to
      BY DEF Greets
    <3> QED
      BY <2>1, <3>1, <3>2
  <2>3. CASE Refresh \/ Cleanup \/ Tick
    BY <2>3 DEF Refresh, Cleanup, Tick
  <2>4. CASE UNCHANGED vars
    BY <2>4
  <2> QED
    BY <1>1, <2>2, <2>3, <2>4 DEF Next
<1>2. TableAgrees /\ [Next]_vars => [Pinged]_vars
  BY <1>1
<1>3. Spec => []TableAgrees
  BY InitAgrees, NextAgrees, PTL DEF Spec
<1> QED
  BY <1>2, <1>3, PTL DEF Spec, PingsLongestSilent
----------------------------------------------------------------------------
(* The order of the distances *)

LEMMA PrecedesOrders ==
    /\ \A x, y, z \in Bits : Precedes(x, y) /\ Precedes(y, z) => Precedes(x, z)
    /\ \A x, y \in Bits : x = y \/ Precedes(x, y) \/ Precedes(y, x)
    /\ \A x, y \in Bits : Precedes(x, y) => ~Precedes(y, x) /\ x # y
<1>1. \A x \in Bits : x[1] \in Nat /\ x[2] \in Nat /\ x = <<x[1], x[2]>>
  BY ConstantsAssumption
<1>2. ASSUME NEW x \in Bits, NEW y \in Bits PROVE x = y \/ Precedes(x, y) \/ Precedes(y, x)
  <2>1. x[1] = y[1] /\ x[2] = y[2] => x = y
    BY <1>1
  <2>2. x[1] \in Nat /\ x[2] \in Nat /\ y[1] \in Nat /\ y[2] \in Nat
    BY <1>1
  <2> QED
    BY <2>1, <2>2 DEF Precedes
<1>3. ASSUME NEW x \in Bits, NEW y \in Bits, NEW z \in Bits, Precedes(x, y), Precedes(y, z)
      PROVE  Precedes(x, z)
  BY <1>1, <1>3 DEF Precedes
<1>4. ASSUME NEW x \in Bits, NEW y \in Bits, Precedes(x, y) PROVE ~Precedes(y, x) /\ x # y
  BY <1>1, <1>4 DEF Precedes
<1> QED
  BY <1>2, <1>3, <1>4

LEMMA CloserIrreflexive == \A d : ~Closer(d, d)
BY DEF Closer

LEMMA CloserTransitive ==
    ASSUME NEW d \in SUBSET Bits, NEW e \in SUBSET Bits, NEW f \in SUBSET Bits,
           Closer(d, e), Closer(e, f)
    PROVE  Closer(d, f)
<1>1. PICK x \in e \ d : \A y \in Distance(d, e) : y = x \/ Precedes(x, y)
  BY DEF Closer
<1>2. PICK z \in f \ e : \A y \in Distance(e, f) : y = z \/ Precedes(z, y)
  BY DEF Closer
<1>3. \A y \in Distance(d, f) : y \in Bits /\ (y \in Distance(d, e) \/ y \in Distance(e, f))
  BY DEF Distance
<1>4. x \in Bits /\ z \in Bits /\ x # z
  BY <1>1, <1>2
<1>5. CASE Precedes(x, z)
  <2>1. x \in f
    <3>1. x \in Distance(e, f) => Precedes(z, x)
      BY <1>2, <1>4
    <3> QED
      BY <1>1, <1>4, <1>5, <3>1, PrecedesOrders DEF Distance
  <2>2. \A y \in Distance(d, f) : y = x \/ Precedes(x, y)
    BY <1>1, <1>2, <1>3, <1>4, <1>5, PrecedesOrders
  <2> QED
    BY <1>1, <2>1, <2>2 DEF Closer
<1>6. CASE Precedes(z, x)
  <2>1. z \notin d
    <3>1. z \in Distance(d, e) => Precedes(x, z)
      BY <1>1, <1>4
    <3> QED
      BY <1>2, <1>4, <1>6, <3>1, PrecedesOrders DEF Distance
  <2>2. \A y \in Distance(d, f) : y = z \/ Precedes(z, y)
    BY <1>1, <1>2, <1>3, <1>4, <1>6, PrecedesOrders
  <2> QED
    BY <1>2, <2>1, <2>2 DEF Closer
<1> QED
  BY <1>4, <1>5, <1>6, PrecedesOrders

----------------------------------------------------------------------------
(* Answers *)

\* The nodes of a table.
Known(t) == UNION {ToSet(t[b]) : b \in Bits}

LEMMA KnownFinite ==
    ASSUME NEW t \in Tables
    PROVE  IsFiniteSet(Known(t)) /\ Known(t) \subseteq AnyNode
<1>1. ASSUME NEW b \in Bits PROVE IsFiniteSet(ToSet(t[b])) /\ ToSet(t[b]) \subseteq AnyNode
  <2> DEFINE s == t[b]
  <2>1. s \in Seq(AnyNode) /\ Len(s) \in Nat /\ DOMAIN s = 1 .. Len(s)
    BY DEF Tables
  <2> HIDE DEF s
  <2>2. IsFiniteSet(1 .. Len(s))
    BY <2>1, FS_Interval
  <2> DEFINE f == [k \in 1 .. Len(s) |-> s[k]]
  <2>3. f \in Surjection(1 .. Len(s), ToSet(s))
    BY <2>1 DEF Surjection, ToSet
  <2> HIDE DEF f
  <2>4. IsFiniteSet(ToSet(s))
    BY <2>2, <2>3, FS_Surjection
  <2>5. ToSet(s) \subseteq AnyNode
    BY <2>1 DEF ToSet
  <2> QED
    BY <2>4, <2>5 DEF s
<1> DEFINE parts == {ToSet(t[b]) : b \in Bits}
           g == [b \in Bits |-> ToSet(t[b])]
<1>2. g \in Surjection(Bits, parts)
  BY DEF Surjection
<1>3. \A part \in parts : IsFiniteSet(part) /\ part \subseteq AnyNode
  BY <1>1
<1> HIDE DEF g, parts
<1>4. IsFiniteSet(parts)
  BY <1>2, ConstantsAssumption, FS_Surjection
<1>5. IsFiniteSet(UNION parts)
  BY <1>3, <1>4, FS_UNION
<1> QED
  BY <1>3, <1>5 DEF Known, parts

\* A table that knows somebody has a closest node.
LEMMA ClosestExists ==
    ASSUME NEW t \in Tables, Known(t) # {}, NEW target \in SUBSET Bits, NEW n \in Nat \ {0}
    PROVE  Closest(t, target, n) # {}
<1> DEFINE all == Known(t)
           Far(x) == Distance(x.id, target)
           Before(x) == {m \in all : Closer(Far(m), Far(x))}
           counts == {Cardinality(Before(x)) : x \in all}
<1>1. IsFiniteSet(all) /\ \A x \in all : Far(x) \in SUBSET Bits
  BY KnownFinite, NodeIds DEF Distance
<1>2. Closest(t, target, n) = {x \in all : Cardinality(Before(x)) < n}
  BY DEF Closest, Known
<1>3. \A x \in all : Before(x) \in SUBSET all
  OBVIOUS
<1>4. \A x, y \in all : y \in Before(x) => Before(y) \in SUBSET Before(x) /\ y \notin Before(y)
  BY <1>1, CloserTransitive, CloserIrreflexive
<1>5. all # {}
  OBVIOUS
<1> HIDE DEF all, Far, Before
<1>6. \A x \in all : IsFiniteSet(Before(x)) /\ Cardinality(Before(x)) \in Nat
  BY <1>1, <1>3, FS_Subset, FS_CardinalityType
<1>7. PICK least \in counts : \A c \in counts : least <= c
  <2>1. counts \subseteq Nat /\ counts # {}
    BY <1>5, <1>6
  <2> HIDE DEF counts
  <2> QED
    BY <2>1, LeastOf
<1>8. PICK x \in all : Cardinality(Before(x)) = least
  BY <1>7
<1>9. Before(x) = {}
  <2> SUFFICES ASSUME NEW y \in Before(x) PROVE FALSE
    OBVIOUS
  <2>1. y \in all /\ Before(y) \in SUBSET Before(x) /\ Before(y) # Before(x)
    BY <1>3, <1>4, <1>8
  <2>2. Cardinality(Before(y)) <= Cardinality(Before(x)) /\ Cardinality(Before(y)) # Cardinality(Before(x))
    BY <1>6, <1>8, <2>1, FS_Subset
  <2>3. least <= Cardinality(Before(y)) /\ Cardinality(Before(y)) \in Nat /\ Cardinality(Before(x)) \in Nat
    BY <1>6, <1>7, <1>8, <2>1
  <2> QED
    BY <1>8, <2>2, <2>3
<1>10. Cardinality(Before(x)) < n
  BY <1>9, FS_EmptySet
<1> QED
  BY <1>2, <1>8, <1>10

\* Whoever is inserted leaves a table that knows somebody.
LEMMA InsertKnown ==
    ASSUME NEW t \in Tables, NEW n \in AnyNode, n.id # OurId
    PROVE  Known(Insert(t, n)) # {}
<1>1. PICK b \in Bits : b = BucketOf(n.id) /\ Insert(t, n) = [t EXCEPT ![b] = Entered(t[b], n)]
  BY InsertOf
<1>2. BucketSound(t[b], b) /\ BucketSound(Entered(t[b], n), b)
  BY <1>1, EnteredSound DEF Tables
<1>3. Entered(t[b], n) # <<>>
  <2>1. t[b] \in Seq(AnyNode) /\ K \in Nat \ {0}
    BY <1>2, ConstantsAssumption DEF BucketSound
  <2>2. CASE Lists(t[b], n.id)
    <3>1. Without(t[b], n.id) \in Seq(AnyNode)
      BY <1>2, <2>2, WithoutOf
    <3> QED
      BY <2>2, <3>1 DEF Entered
  <2>3. CASE ~Lists(t[b], n.id)
    BY <2>1, <2>3 DEF Entered
  <2> QED
    BY <2>2, <2>3
<1>4. Entered(t[b], n)[1] \in ToSet(Entered(t[b], n))
  <2>1. Entered(t[b], n) \in Seq(AnyNode)
    BY <1>2 DEF BucketSound
  <2>2. 1 \in DOMAIN Entered(t[b], n)
    BY <1>3, <2>1
  <2> QED
    BY <2>2 DEF ToSet
<1>5. Insert(t, n)[b] = Entered(t[b], n)
  BY <1>1 DEF Tables
<1> QED
  BY <1>4, <1>5 DEF Known

\* Who asks for peers gets peers or nodes.
THEOREM NeverEmptyAnswerCorrect == Spec => []NeverEmptyAnswer
<1>1. Init => NeverEmptyAnswer
  BY DEF Init, NeverEmptyAnswer
<1>2. ASSUME TableAgrees, [Next]_vars, NeverEmptyAnswer PROVE NeverEmptyAnswer'
  <2>1. ASSUME NEW from \in Nodes, GetPeers(from) PROVE NeverEmptyAnswer'
    <3>1. PICK peers \in BestPeers :
            sent' = Greets(from) \cup
              {[type |-> "GetPeersResponse", to |-> from, peers |-> peers,
                nodes |-> IF peers = {} THEN Closest(TableWith(from), Target, CloseCount) ELSE {}]}
      BY <2>1 DEF GetPeers
    <3>2. \A m \in Greets(from) : m.type = "Ping"
      BY DEF Greets
    <3>3. from.id # OurId => Closest(TableWith(from), Target, CloseCount) # {}
      <4>1. buckets \in Tables /\ from \in AnyNode
        BY <1>2 DEF TableAgrees, Agree, AnyNode
      <4>2. Target \in SUBSET Bits /\ CloseCount \in Nat \ {0}
        BY ConstantsAssumption
      <4> QED
        BY <4>1, <4>2, InsertSound, InsertKnown, ClosestExists DEF TableWith
    <3>4. ASSUME NEW m \in sent', m.type = "GetPeersResponse"
          PROVE  m.peers # {} \/ m.nodes # {} \/ m.to.id = OurId
      <4> DEFINE close == Closest(TableWith(from), Target, CloseCount)
      <4> HIDE DEF close
      <4>1. m = [type |-> "GetPeersResponse", to |-> from, peers |-> peers,
                 nodes |-> IF peers = {} THEN close ELSE {}]
        BY <3>1, <3>2, <3>4 DEF close
      <4> QED
        BY <3>3, <4>1 DEF close
    <3> QED
      BY <3>4 DEF NeverEmptyAnswer
  <2>2. ASSUME NEW from \in Nodes, HandleMessage(from), ~GetPeers(from) PROVE NeverEmptyAnswer'
    <3>1. \A m \in Greets(from) : m.type # "GetPeersResponse"
      BY DEF Greets
    <3>2. \A m \in sent' : m.type # "GetPeersResponse"
      BY <2>2, <3>1 DEF HandleMessage, Ping, Pong, FindNode, Response, AnnouncePeer
    <3> QED
      BY <3>2 DEF NeverEmptyAnswer
  <2>3. CASE Refresh \/ Cleanup \/ Tick
    BY <2>3 DEF Refresh, Cleanup, Tick, NeverEmptyAnswer
  <2>4. CASE UNCHANGED vars
    BY <1>2, <2>4 DEF vars, NeverEmptyAnswer
  <2> QED
    BY <1>2, <2>1, <2>2, <2>3, <2>4 DEF Next
<1>3. TableAgrees /\ NeverEmptyAnswer /\ [Next]_vars => NeverEmptyAnswer'
  BY <1>2
<1> QED
  BY <1>1, <1>3, InitAgrees, NextAgrees, PTL DEF Spec

----------------------------------------------------------------------------
(* The store of the announced peers *)

Ids == {p.id : p \in Peers}

Settled ==
    /\ Cardinality(Top) < MaxPeers /\ Cardinality(Top) <= ReturnLimit
    /\ \A id \in Others : Score[id] <= 3

\* A Top peer that was heard of lately is in the store, and as old as what was heard.
StoreSound ==
    /\ DOMAIN store \subseteq Ids /\ store \in [DOMAIN store -> [age : Nat, count : Nat]]
    /\ heard \in [Top -> Nat]
    /\ Settled => \A id \in Top : heard[id] <= Stale => id \in DOMAIN store /\ store[id].age = heard[id]

LEMMA IdsFinite == IsFiniteSet(Ids) /\ Top \subseteq Ids /\ Ids \ Top = Others /\ IsFiniteSet(Top)
<1> DEFINE f == [p \in Peers |-> p.id]
<1>1. f \in Surjection(Peers, Ids)
  BY DEF Surjection, Ids
<1>2. IsFiniteSet(Peers)
  BY ConstantsAssumption, FS_Subset
<1> HIDE DEF f
<1>3. IsFiniteSet(Ids)
  BY <1>1, <1>2, FS_Surjection
<1>4. Top \in SUBSET Ids /\ Ids \ Top = Others
  BY DEF Top, Ids, Others
<1> QED
  BY <1>3, <1>4, FS_Subset

LEMMA ShareBound ==
    ASSUME NEW a \in Nat, NEW m \in Nat, NEW u \in Nat \ {0}, m <= u
    PROVE  (a * m) \div u \in 0 .. a
<1> DEFINE q == (a * m) \div u
<1>1. q \in Int /\ a * m \in Nat
  OBVIOUS
<1>2. u * q <= a * m /\ a * m < u * q + u
  OBVIOUS
<1>3. a * m <= a * u
  OBVIOUS
<1> HIDE DEF q
<1>4. q <= a
  <2> SUFFICES ASSUME q >= a + 1 PROVE FALSE
    BY <1>1
  <2>1. u * q >= u * (a + 1)
    BY <1>1
  <2>2. u * (a + 1) = a * u + u
    OBVIOUS
  <2>3. a * u \in Nat /\ u * q \in Int
    BY <1>1
  <2> QED
    BY <1>1, <1>2, <1>3, <2>1, <2>2, <2>3
<1>5. q >= 0
  <2> SUFFICES ASSUME q <= -1 PROVE FALSE
    BY <1>1
  <2>1. u * q <= -u
    BY <1>1
  <2> QED
    BY <1>1, <1>2, <2>1
<1> QED
  BY <1>1, <1>4, <1>5 DEF q

\* A score of ten outweighs whatever freshness and constancy can add to three.
LEMMA RankBounds ==
    ASSUME StoreSound, NEW id \in DOMAIN store
    PROVE  /\ Rank(id) \in Nat
           /\ Score[id] = 10 => Rank(id) >= 360 * Stale
           /\ Score[id] <= 3 => Rank(id) <= 348 * Stale
<1> DEFINE age == store[id].age
           count == store[id].count
           units == age + 1
           fresh == Stale - Smaller(age, Stale)
           share == ((120 * Stale * Smaller(count, units)) \div units)
<1>1. age \in Nat /\ count \in Nat /\ Stale \in Nat
  BY ConstantsAssumption DEF StoreSound
<1>2. Score[id] \in 0 .. 10
  BY ConstantsAssumption DEF StoreSound, Ids
<1>3. Rank(id) = 36 * Stale * Score[id] + 120 * fresh + share
  BY DEF Rank
<1> HIDE DEF age, count
<1>4. fresh \in 0 .. Stale
  BY <1>1 DEF Smaller
<1>5. share \in 0 .. 120 * Stale
  <2>1. 120 * Stale \in Nat /\ Smaller(count, units) \in Nat /\ units \in Nat \ {0} /\ Smaller(count, units) <= units
    BY <1>1 DEF Smaller
  <2> QED
    BY <2>1, ShareBound
<1> HIDE DEF fresh, share
<1>6. 36 * Stale * Score[id] \in Nat
  BY <1>1, <1>2
<1>7. Score[id] <= 3 => 36 * Stale * Score[id] <= 108 * Stale
  <2>1. Score[id] <= 3 => Score[id] = 0 \/ Score[id] = 1 \/ Score[id] = 2 \/ Score[id] = 3
    BY <1>2
  <2> QED
    BY <1>1, <2>1
<1> QED
  BY <1>1, <1>3, <1>4, <1>5, <1>6, <1>7

\* The hindmost of a full store is not a Top peer, which leaves room for others.
LEMMA HindmostIsOther ==
    ASSUME StoreSound, Settled, Cardinality(DOMAIN store) >= MaxPeers, NEW id \in Hindmost
    PROVE  id \notin Top
<1> SUFFICES ASSUME id \in Top PROVE FALSE
  OBVIOUS
<1>1. DOMAIN store \subseteq Ids /\ IsFiniteSet(DOMAIN store)
  BY IdsFinite, FS_Subset DEF StoreSound
<1>2. ~(DOMAIN store \subseteq Top)
  <2> SUFFICES ASSUME DOMAIN store \in SUBSET Top PROVE FALSE
    OBVIOUS
  <2>1. Cardinality(DOMAIN store) <= Cardinality(Top)
    BY IdsFinite, FS_Subset
  <2>2. Cardinality(DOMAIN store) \in Nat /\ Cardinality(Top) \in Nat /\ MaxPeers \in Nat
    BY <1>1, IdsFinite, FS_CardinalityType, ConstantsAssumption
  <2> QED
    BY <2>1, <2>2 DEF Settled
<1>3. PICK other \in DOMAIN store : other \notin Top
  BY <1>2
<1>4. Score[other] <= 3 /\ Score[id] = 10
  <2>1. other \in Others
    BY <1>1, <1>3, IdsFinite
  <2> QED
    BY <2>1 DEF Settled, Top
<1>5. id \in DOMAIN store /\ Rank(id) <= Rank(other)
  BY <1>3 DEF Hindmost
<1>6. Rank(id) \in Nat /\ Rank(other) \in Nat /\ Rank(id) >= 360 * Stale /\ Rank(other) <= 348 * Stale
  BY <1>3, <1>4, <1>5, RankBounds
<1> QED
  BY <1>5, <1>6, ConstantsAssumption

LEMMA InitStore == Init => StoreSound
<1> SUFFICES ASSUME Init PROVE StoreSound
  OBVIOUS
<1>1. store = [id \in {} |-> 0] /\ DOMAIN store = {}
  BY DEF Init
<1>2. heard = [id \in Top |-> Never] /\ Never \in Nat /\ ~(Never <= Stale)
  BY ConstantsAssumption DEF Init, Never
<1> QED
  BY <1>1, <1>2 DEF StoreSound

LEMMA AnnounceStore ==
    ASSUME StoreSound, NEW from \in Peers, AnnouncePeer(from)
    PROVE  StoreSound'
<1> DEFINE new == from.id
           T == [age : Nat, count : Nat]
<1>1. new \in Ids /\ Announce(new) /\ heard' = [id \in Top |-> IF id = new THEN 0 ELSE heard[id]]
  BY DEF AnnouncePeer, Ids
<1>2. DOMAIN store \subseteq Ids /\ store \in [DOMAIN store -> T] /\ heard \in [Top -> Nat]
  BY DEF StoreSound
<1> HIDE DEF new, T
<1>3. heard' \in [Top -> Nat]
  BY <1>1, <1>2
<1>4. CASE new \in DOMAIN store
  <2>1. store' = [store EXCEPT ![new] = AnnouncedAgain(new)]
    BY <1>1, <1>4 DEF Announce
  <2>2. AnnouncedAgain(new) \in T /\ AnnouncedAgain(new).age = 0
    <3>1. store[new].count \in Nat /\ Never \in Nat
      BY <1>2, <1>4, ConstantsAssumption DEF T, Never
    <3>2. Smaller(store[new].count + 1, Never) \in Nat
      BY <3>1 DEF Smaller
    <3> QED
      BY <3>2 DEF AnnouncedAgain, T
  <2>3. DOMAIN store' = DOMAIN store /\ store' \in [DOMAIN store -> T]
    BY <1>2, <2>1, <2>2
  <2>4. \A id \in DOMAIN store : store'[id] = IF id = new THEN AnnouncedAgain(new) ELSE store[id]
    BY <2>1
  <2> HIDE DEF T
  <2>5. ASSUME Settled, NEW id \in Top, heard'[id] <= Stale
        PROVE  id \in DOMAIN store' /\ store'[id].age = heard'[id]
    <3>1. CASE id = new
      BY <1>1, <1>4, <2>2, <2>3, <2>4, <3>1
    <3>2. CASE id # new
      BY <1>1, <2>3, <2>4, <2>5, <3>2 DEF StoreSound
    <3> QED
      BY <3>1, <3>2
  <2> QED
    BY <1>2, <1>3, <2>3, <2>5 DEF StoreSound, Settled, T
<1>5. CASE new \notin DOMAIN store
  <2>1. PICK gone \in IF Cardinality(DOMAIN store) >= MaxPeers THEN {{id2} : id2 \in Hindmost} ELSE {{}} :
            store' = [other \in (DOMAIN store \ gone) \cup {new} |->
                        IF other = new THEN [age |-> 0, count |-> 1] ELSE store[other]]
    BY <1>1, <1>5 DEF Announce
  <2>2. DOMAIN store' = (DOMAIN store \ gone) \cup {new}
    BY <2>1
  <2>3. \A id \in DOMAIN store' : store'[id] = IF id = new THEN [age |-> 0, count |-> 1] ELSE store[id]
    BY <2>1
  <2>4. \A id \in DOMAIN store' : store'[id] \in T
    BY <1>2, <2>2, <2>3 DEF T
  <2>5. store' \in [DOMAIN store' -> T] /\ DOMAIN store' \subseteq Ids
    BY <1>1, <1>2, <2>1, <2>2, <2>4
  <2>6. Settled => gone \cap Top = {}
    BY <2>1, HindmostIsOther
  <2>7. ASSUME Settled, NEW id \in Top, heard'[id] <= Stale
        PROVE  id \in DOMAIN store' /\ store'[id].age = heard'[id]
    <3>1. CASE id = new
      BY <1>1, <2>2, <2>3, <3>1
    <3>2. CASE id # new
      <4>1. heard'[id] = heard[id]
        BY <1>1, <3>2
      <4>2. id \in DOMAIN store /\ store[id].age = heard[id]
        BY <2>7, <4>1 DEF StoreSound
      <4> QED
        BY <2>2, <2>3, <2>6, <2>7, <3>2, <4>1, <4>2
    <3> QED
      BY <3>1, <3>2
  <2> QED
    BY <1>3, <2>5, <2>7 DEF StoreSound, Settled, T
<1> QED
  BY <1>4, <1>5

LEMMA TickStore ==
    ASSUME StoreSound, Tick
    PROVE  StoreSound'
<1> DEFINE T == [age : Nat, count : Nat]
<1>1. /\ store' = [id \in DOMAIN store |-> [store[id] EXCEPT !.age = @ + 1]]
      /\ heard' = [id \in Top |-> Smaller(heard[id] + 1, Never)]
  BY DEF Tick
<1>2. DOMAIN store \subseteq Ids /\ store \in [DOMAIN store -> T] /\ heard \in [Top -> Nat]
  BY DEF StoreSound
<1>3. Never \in Nat /\ ~(Never <= Stale) /\ Stale \in Nat
  BY ConstantsAssumption DEF Never
<1>4. \A id \in DOMAIN store : store'[id] \in T /\ store'[id].age = store[id].age + 1
  BY <1>1, <1>2
<1>5. DOMAIN store' = DOMAIN store /\ store' \in [DOMAIN store -> T]
  BY <1>1, <1>4
<1>6. \A id \in Top : heard'[id] \in Nat /\ (heard'[id] <= Stale => heard'[id] = heard[id] + 1 /\ heard[id] <= Stale)
  BY <1>1, <1>2, <1>3 DEF Smaller
<1>7. heard' \in [Top -> Nat]
  BY <1>1, <1>6
<1> HIDE DEF T
<1>8. ASSUME Settled, NEW id \in Top, heard'[id] <= Stale
      PROVE  id \in DOMAIN store' /\ store'[id].age = heard'[id]
  BY <1>4, <1>5, <1>6, <1>8 DEF StoreSound
<1> QED
  BY <1>2, <1>5, <1>7, <1>8 DEF StoreSound, Settled, T

LEMMA CleanupStore ==
    ASSUME StoreSound, Cleanup
    PROVE  StoreSound'
<1> DEFINE T == [age : Nat, count : Nat]
<1>1. store' = [id \in {id \in DOMAIN store : ~IsStale(id)} |-> store[id]] /\ heard' = heard
  BY DEF Cleanup
<1>2. DOMAIN store \subseteq Ids /\ store \in [DOMAIN store -> T] /\ heard \in [Top -> Nat]
  BY DEF StoreSound
<1> HIDE DEF T
<1>3. DOMAIN store' \subseteq Ids /\ store' \in [DOMAIN store' -> T]
  BY <1>1, <1>2
<1>4. ASSUME Settled, NEW id \in Top, heard[id] <= Stale
      PROVE  id \in DOMAIN store' /\ store'[id].age = heard[id]
  <2>1. id \in DOMAIN store /\ store[id].age = heard[id] /\ heard[id] \in Nat
    BY <1>2, <1>4 DEF StoreSound
  <2>2. ~IsStale(id)
    BY <1>4, <2>1, ConstantsAssumption DEF IsStale
  <2> QED
    BY <1>1, <2>1, <2>2
<1> QED
  BY <1>1, <1>2, <1>3, <1>4 DEF StoreSound, Settled, T

LEMMA NextStore == StoreSound /\ [Next]_vars => StoreSound'
<1> SUFFICES ASSUME StoreSound, [Next]_vars PROVE StoreSound'
  OBVIOUS
<1>1. ASSUME UNCHANGED <<store, heard>> PROVE StoreSound'
  BY <1>1 DEF StoreSound, Settled
<1>2. ASSUME NEW from \in Nodes, HandleMessage(from) PROVE StoreSound'
  <2>1. CASE from \in Peers /\ AnnouncePeer(from)
    BY <2>1, AnnounceStore
  <2>2. CASE ~(from \in Peers /\ AnnouncePeer(from))
    <3>1. UNCHANGED <<store, heard>>
      BY <1>2, <2>2 DEF HandleMessage, Ping, Pong, FindNode, GetPeers, Response
    <3> QED
      BY <1>1, <3>1
  <2> QED
    BY <2>1, <2>2
<1>3. Refresh => UNCHANGED <<store, heard>>
  BY DEF Refresh
<1>4. UNCHANGED vars => UNCHANGED <<store, heard>>
  BY DEF vars
<1> QED
  BY <1>1, <1>2, <1>3, <1>4, TickStore, CleanupStore DEF Next

\* Where the Top peers leave room, each of them that was heard of lately is in every
\* answer: whoever is chosen instead of one would be another Top peer.
THEOREM AliveIsFoundCorrect == Spec => []AliveIsFound
<1>1. ASSUME StoreSound PROVE AliveIsFound
  <2> SUFFICES ASSUME Settled, NEW id \in Top, heard[id] <= Stale, NEW peers \in BestPeers, id \notin peers
               PROVE  FALSE
    BY DEF AliveIsFound, Settled
  <2> DEFINE active == {x \in DOMAIN store : ~IsStale(x)}
  <2>1. /\ peers \in SUBSET active
        /\ Cardinality(peers) = Smaller(Cardinality(active), ReturnLimit)
        /\ \A x \in peers, other \in active \ peers : Rank(x) >= Rank(other)
    BY DEF BestPeers
  <2>2. id \in DOMAIN store /\ store[id].age = heard[id] /\ heard[id] \in Nat
    BY <1>1 DEF StoreSound
  <2>3. id \in active
    BY <2>2, ConstantsAssumption DEF IsStale
  <2>4. active \in SUBSET (DOMAIN store) /\ active \in SUBSET Ids
    BY <1>1 DEF StoreSound
  <2> HIDE DEF active
  <2>5. IsFiniteSet(active) /\ Cardinality(active) \in Nat
    BY <2>4, IdsFinite, FS_Subset, FS_CardinalityType
  <2>6. IsFiniteSet(peers) /\ Cardinality(peers) \in Nat /\ Cardinality(peers) < Cardinality(active)
    <3>1. IsFiniteSet(peers) /\ Cardinality(peers) <= Cardinality(active) /\ Cardinality(peers) # Cardinality(active)
      BY <2>1, <2>3, <2>5, FS_Subset
    <3>2. Cardinality(peers) \in Nat
      BY <3>1, FS_CardinalityType
    <3> QED
      BY <2>5, <3>1, <3>2
  <2>7. Cardinality(peers) = ReturnLimit
    BY <2>1, <2>5, <2>6, ConstantsAssumption DEF Smaller
  <2>8. ASSUME NEW x \in peers PROVE x \in Top
    <3> SUFFICES ASSUME x \notin Top PROVE FALSE
      OBVIOUS
    <3>1. x \in DOMAIN store /\ x \in Others
      BY <2>1, <2>4, IdsFinite
    <3>2. Score[x] <= 3 /\ Score[id] = 10
      BY <3>1 DEF Settled, Top
    <3>3. Rank(x) >= Rank(id)
      BY <2>1, <2>3
    <3>4. Rank(x) \in Nat /\ Rank(x) <= 348 * Stale
      BY <1>1, <3>1, <3>2, RankBounds
    <3>5. Rank(id) \in Nat /\ Rank(id) >= 360 * Stale
      BY <1>1, <2>2, <3>2, RankBounds
    <3> QED
      BY <3>3, <3>4, <3>5, ConstantsAssumption
  <2>9. peers \in SUBSET Top /\ peers # Top
    BY <2>8
  <2>10. Cardinality(peers) <= Cardinality(Top) /\ Cardinality(peers) # Cardinality(Top)
    BY <2>9, IdsFinite, FS_Subset
  <2>11. Cardinality(Top) \in Nat /\ ReturnLimit \in Nat
    BY IdsFinite, FS_CardinalityType, ConstantsAssumption
  <2> QED
    BY <2>7, <2>10, <2>11 DEF Settled
<1>2. StoreSound => AliveIsFound
  BY <1>1
<1> QED
  BY <1>2, InitStore, NextStore, PTL DEF Spec

=============================================================================
