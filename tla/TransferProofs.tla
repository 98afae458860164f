--------------------------- MODULE TransferProofs ---------------------------
(* Proofs, for every file and every number of pieces, of what MCTransfer       *)
(* checks on two files of five pieces.                                         *)
EXTENDS Transfer, FiniteSetTheorems, SequenceTheorems, WellFoundedInduction, TLAPS

----------------------------------------------------------------------------
(* Induction *)

\* A set of numbers has a least one.
LEMMA LeastOf ==
    ASSUME NEW S, S \subseteq Nat, S # {}
    PROVE  \E x \in S : \A y \in S : x <= y
<1>1. PICK x \in S : \A y \in S : ~(<<y, x>> \in OpToRel(<, Nat))
  BY NatLessThanWellFounded, WFMin
<1>2. \A y \in S : ~(y < x)
  BY <1>1 DEF OpToRel
<1> QED
  BY <1>2

\* Induction, over a set.
LEMMA UpFromZero ==
    ASSUME NEW S, 0 \in S, \A k \in Nat : k \in S => k + 1 \in S
    PROVE  Nat \subseteq S
<1> SUFFICES ASSUME Nat \ S # {} PROVE FALSE
  OBVIOUS
<1>1. PICK x \in Nat \ S : \A y \in Nat \ S : x <= y
  BY LeastOf
<1>2. x # 0 /\ x - 1 \in Nat /\ x - 1 \in S /\ (x - 1) + 1 = x
  BY <1>1
<1> QED
  BY <1>1, <1>2

----------------------------------------------------------------------------
(* The tree *)

LEMMA PowersStep ==
    ASSUME NEW n \in Nat
    PROVE  Powers(n) = [k \in 0 .. n |-> IF k = 0 THEN 1 ELSE 2 * Powers(n)[k - 1]]
<1> DEFINE Is(g, m) == g = [k \in 0 .. m |-> IF k = 0 THEN 1 ELSE 2 * g[k - 1]]
           S == {m \in Nat : \E g : Is(g, m)}
<1>1. 0 \in S
  <2> DEFINE g == [k \in 0 .. 0 |-> 1]
  <2>1. Is(g, 0)
    OBVIOUS
  <2> QED
    BY <2>1
<1>2. ASSUME NEW m \in Nat, m \in S PROVE m + 1 \in S
  <2>1. PICK g : Is(g, m)
    BY <1>2
  <2> DEFINE h == [k \in 0 .. m + 1 |-> IF k <= m THEN g[k] ELSE 2 * g[m]]
  <2>2. ASSUME NEW k \in 0 .. m + 1
        PROVE  h[k] = IF k = 0 THEN 1 ELSE 2 * h[k - 1]
    <3>1. CASE k = 0
      BY <2>1, <3>1
    <3>2. CASE k \in 1 .. m
      <4>1. h[k] = g[k] /\ h[k - 1] = g[k - 1] /\ k \in 0 .. m /\ k # 0
        BY <3>2
      <4>2. g[k] = 2 * g[k - 1]
        BY <2>1, <4>1
      <4> QED
        BY <4>1, <4>2
    <3>3. CASE k = m + 1
      BY <3>3
    <3> QED
      BY <3>1, <3>2, <3>3
  <2>3. Is(h, m + 1)
    <3>1. h = [k \in 0 .. m + 1 |-> h[k]]
      OBVIOUS
    <3> HIDE DEF h
    <3> QED
      BY <2>2, <3>1
  <2> HIDE DEF Is
  <2> QED
    BY <2>3
<1> HIDE DEF Is
<1>3. n \in S
  <2> HIDE DEF S
  <2> QED
    BY <1>1, <1>2, UpFromZero
<1>4. \E g : Is(g, n)
  BY <1>3
<1>5. Is(CHOOSE g : Is(g, n), n)
  BY <1>4
<1>6. Powers(n) = CHOOSE g : Is(g, n)
  BY DEF Powers, Is
<1>7. Is(Powers(n), n)
  BY <1>5, <1>6
<1> QED
  BY <1>7 DEF Is

LEMMA PowersGrow ==
    ASSUME NEW n \in Nat
    PROVE  /\ \A k \in 0 .. n : Powers(n)[k] \in Nat /\ Powers(n)[k] >= k + 1
           /\ Powers(n)[0] = 1
           /\ \A k \in 0 .. n - 1 : Powers(n)[k + 1] = 2 * Powers(n)[k]
<1> DEFINE g == Powers(n)
           S == {k \in Nat : k <= n => g[k] \in Nat /\ g[k] >= k + 1}
<1>0. g[0] = 1 /\ \A k \in 0 .. n - 1 : g[k + 1] = 2 * g[k]
  <2>1. g = [k \in 0 .. n |-> IF k = 0 THEN 1 ELSE 2 * g[k - 1]]
    BY PowersStep
  <2> HIDE DEF g
  <2>2. g[0] = 1
    BY <2>1
  <2>3. ASSUME NEW k \in 0 .. n - 1 PROVE g[k + 1] = 2 * g[k]
    <3>1. k + 1 \in 0 .. n /\ k + 1 # 0 /\ (k + 1) - 1 = k
      OBVIOUS
    <3>2. g[k + 1] = 2 * g[(k + 1) - 1]
      BY <2>1, <3>1
    <3> QED
      BY <3>1, <3>2
  <2> QED
    BY <2>2, <2>3
<1> HIDE DEF g
<1>1. 0 \in S
  BY <1>0
<1>2. ASSUME NEW k \in Nat, k \in S PROVE k + 1 \in S
  <2>1. CASE k + 1 <= n
    <3>1. g[k + 1] = 2 * g[k] /\ g[k] \in Nat /\ g[k] >= k + 1
      BY <1>0, <1>2, <2>1
    <3> QED
      BY <3>1
  <2> QED
    BY <2>1
<1>3. Nat \subseteq S
  <2> HIDE DEF S
  <2> QED
    BY <1>1, <1>2, UpFromZero
<1> QED
  BY <1>0, <1>3 DEF g

LEMMA DepthOf ==
    ASSUME NEW c \in Nat \ {0}
    PROVE  /\ Depth(c) \in 0 .. c
           /\ LeafCount(c) \in Nat \ {0} /\ LeafCount(c) >= c
<1> DEFINE D == {d \in 0 .. c : Powers(c)[d] >= c}
           Is(d) == Powers(c)[d] >= c /\ \A e \in 0 .. d - 1 : Powers(c)[e] < c
<1>0. \A k \in 0 .. c : Powers(c)[k] \in Nat /\ Powers(c)[k] >= k + 1
  BY PowersGrow
<1>1. c \in D /\ D \subseteq Nat
  BY <1>0
<1>2. PICK d \in D : \A e \in D : d <= e
  BY <1>1, LeastOf
<1>3. d \in 0 .. c /\ Is(d)
  <2>1. ASSUME NEW e \in 0 .. d - 1 PROVE Powers(c)[e] < c
    <3>1. e \in 0 .. c /\ ~(d <= e)
      OBVIOUS
    <3>2. e \notin D
      BY <1>2, <3>1
    <3> QED
      BY <1>0, <3>1, <3>2
  <2> QED
    BY <2>1
<1>4. Depth(c) \in 0 .. c /\ Is(Depth(c))
  <2>1. Depth(c) = CHOOSE x \in 0 .. c : Is(x)
    BY DEF Depth
  <2> HIDE DEF Is
  <2> QED
    BY <1>3, <2>1
<1> QED
  BY <1>0, <1>4 DEF LeafCount

\* What the node i is of the nodes t.
NodeOf(t, leaves, i) ==
    LET width == LeafCount(Len(leaves)) IN
    IF i < width THEN HashPair(t[2 * i], t[2 * i + 1])
    ELSE IF i - width < Len(leaves) THEN leaves[i - width + 1]
    ELSE leaves[Len(leaves)]

LEMMA TreeStep ==
    ASSUME NEW leaves, Len(leaves) \in Nat \ {0}
    PROVE  Tree(leaves) = [i \in 1 .. 2 * LeafCount(Len(leaves)) - 1 |-> NodeOf(Tree(leaves), leaves, i)]
<1> DEFINE w == LeafCount(Len(leaves))
           last == 2 * w - 1
           Is(g, m) == g = [i \in last + 1 - m .. last |-> NodeOf(g, leaves, i)]
           S == {m \in Nat : m <= last => \E g : Is(g, m)}
<1>0. w \in Nat \ {0}
  BY DepthOf
<1>1. 0 \in S
  <2> DEFINE g == [i \in last + 1 .. last |-> 0]
  <2>1. Is(g, 0)
    BY <1>0
  <2> QED
    BY <2>1
<1>2. ASSUME NEW m \in Nat, m \in S, m + 1 <= last PROVE \E h : Is(h, m + 1)
  <2>1. PICK g : Is(g, m)
    BY <1>0, <1>2
  <2> DEFINE j == last - m
             h == [i \in j .. last |-> IF i = j THEN NodeOf(g, leaves, j) ELSE g[i]]
  <2>2. j \in Nat /\ j >= 1 /\ j = last + 1 - (m + 1) /\ last \in Nat
    BY <1>0, <1>2
  <2>3. ASSUME NEW i \in j .. last PROVE h[i] = NodeOf(h, leaves, i)
    <3>1. h[i] = NodeOf(g, leaves, i)
      <4>1. CASE i = j
        BY <4>1
      <4>2. CASE i # j
        <5>1. i \in last + 1 - m .. last /\ h[i] = g[i]
          BY <2>2, <4>2
        <5> QED
          BY <2>1, <5>1
      <4> QED
        BY <4>1, <4>2
    <3>2. CASE i < w
      <4>1. /\ 2 * i \in j .. last /\ 2 * i # j
            /\ 2 * i + 1 \in j .. last /\ 2 * i + 1 # j
        BY <1>0, <2>2, <3>2
      <4>2. h[2 * i] = g[2 * i] /\ h[2 * i + 1] = g[2 * i + 1]
        BY <4>1
      <4> HIDE DEF h
      <4> QED
        BY <3>1, <3>2, <4>2 DEF NodeOf
    <3>3. CASE ~(i < w)
      <4> HIDE DEF h
      <4> QED
        BY <3>1, <3>3 DEF NodeOf
    <3> QED
      BY <3>2, <3>3
  <2>4. h = [i \in j .. last |-> NodeOf(h, leaves, i)]
    <3>1. h = [i \in j .. last |-> h[i]]
      OBVIOUS
    <3> HIDE DEF h
    <3> QED
      BY <2>3, <3>1
  <2>5. Is(h, m + 1)
    <3> HIDE DEF h, j
    <3> QED
      BY <2>2, <2>4
  <2> HIDE DEF Is, h
  <2> QED
    BY <2>5
<1> HIDE DEF Is
<1>3. \A m \in Nat : m \in S => m + 1 \in S
  BY <1>2
<1>4. Nat \subseteq S
  <2> HIDE DEF S
  <2> QED
    BY <1>1, <1>3, UpFromZero
<1>5. \E g : Is(g, last)
  <2>1. last \in Nat /\ last <= last
    BY <1>0
  <2> QED
    BY <1>4, <2>1
<1>6. Is(CHOOSE g : Is(g, last), last)
  BY <1>5
<1>7. Tree(leaves) = CHOOSE g : Is(g, last)
  <2>1. last + 1 - last = 1
    BY <1>0
  <2>2. \A g : Is(g, last) <=> g = [i \in 1 .. last |-> NodeOf(g, leaves, i)]
    BY <2>1 DEF Is
  <2>3. Tree(leaves) = CHOOSE g : g = [i \in 1 .. last |-> NodeOf(g, leaves, i)]
    BY DEF Tree, NodeOf
  <2> QED
    BY <2>2, <2>3
<1>8. Is(Tree(leaves), last)
  BY <1>6, <1>7
<1>9. last + 1 - last = 1
  BY <1>0
<1> QED
  BY <1>8, <1>9 DEF Is

\* The way of a proof: node after node from a leaf to the root.
LEMMA PathStep ==
    ASSUME NEW leaves, Len(leaves) \in Nat \ {0}, NEW index
    PROVE  LET p == Path(leaves, index) IN
           /\ p[0] = LeafCount(Len(leaves)) + index
           /\ \A k \in 1 .. Depth(Len(leaves)) : p[k] = p[k - 1] \div 2
<1> DEFINE a == LeafCount(Len(leaves)) + index
           n == Depth(Len(leaves))
           Is(g, m) == g = [k \in 0 .. m |-> IF k = 0 THEN a ELSE g[k - 1] \div 2]
           S == {m \in Nat : \E g : Is(g, m)}
<1>0. n \in Nat
  BY DepthOf
<1>8. Path(leaves, index) = CHOOSE g : Is(g, n)
  BY DEF Path, Is
<1> HIDE DEF a, n
<1>1. 0 \in S
  <2> DEFINE g == [k \in 0 .. 0 |-> a]
  <2>1. Is(g, 0)
    OBVIOUS
  <2> QED
    BY <2>1
<1>2. ASSUME NEW m \in Nat, m \in S PROVE m + 1 \in S
  <2>1. PICK g : Is(g, m)
    BY <1>2
  <2> DEFINE h == [k \in 0 .. m + 1 |-> IF k <= m THEN g[k] ELSE g[m] \div 2]
  <2>2. ASSUME NEW k \in 0 .. m + 1
        PROVE  h[k] = IF k = 0 THEN a ELSE h[k - 1] \div 2
    <3>1. CASE k = 0
      BY <2>1, <3>1
    <3>2. CASE k \in 1 .. m
      <4>1. h[k] = g[k] /\ h[k - 1] = g[k - 1] /\ k \in 0 .. m /\ k # 0
        BY <3>2
      <4>2. g[k] = g[k - 1] \div 2
        BY <2>1, <4>1
      <4> QED
        BY <4>1, <4>2
    <3>3. CASE k = m + 1
      BY <3>3
    <3> QED
      BY <3>1, <3>2, <3>3
  <2>3. Is(h, m + 1)
    <3>1. h = [k \in 0 .. m + 1 |-> h[k]]
      OBVIOUS
    <3> HIDE DEF h
    <3> QED
      BY <2>2, <3>1
  <2> HIDE DEF Is
  <2> QED
    BY <2>3
<1> HIDE DEF Is
<1>3. n \in S
  <2> HIDE DEF S
  <2> QED
    BY <1>0, <1>1, <1>2, UpFromZero
<1>4. Is(CHOOSE g : Is(g, n), n)
  BY <1>3
<1> DEFINE p == Path(leaves, index)
<1>5. p = [k \in 0 .. n |-> IF k = 0 THEN a ELSE p[k - 1] \div 2]
  BY <1>4, <1>8 DEF Is
<1> HIDE DEF p
<1>6. p[0] = a
  BY <1>0, <1>5
<1>7. ASSUME NEW k \in 1 .. n PROVE p[k] = p[k - 1] \div 2
  <2>1. k \in 0 .. n /\ k # 0
    BY <1>0
  <2> QED
    BY <1>5, <2>1
<1> QED
  BY <1>6, <1>7 DEF p, a, n

\* Every node of it but the first has children, and the last is the root.
LEMMA PathOf ==
    ASSUME NEW leaves, Len(leaves) \in Nat \ {0}, NEW index \in 0 .. Len(leaves) - 1
    PROVE  LET p == Path(leaves, index)
               w == LeafCount(Len(leaves))
               D == Depth(Len(leaves))
           IN  /\ p[0] \in Nat /\ p[0] = w + index /\ p[0] < 2 * w /\ p[D] = 1 /\ D \in Nat
               /\ \A k \in 0 .. D : p[k] \in Nat /\ 1 <= p[k] /\ p[k] < 2 * w
               /\ \A k \in 0 .. D - 1 : p[k] >= 2
               /\ \A k \in 1 .. D : p[k] = p[k - 1] \div 2 /\ p[k] < w
<1> DEFINE c == Len(leaves)
           p == Path(leaves, index)
           w == LeafCount(c)
           D == Depth(c)
           P == Powers(c)
<1>0. /\ D \in 0 .. c /\ w \in Nat \ {0} /\ w >= c /\ w = P[D] /\ c \in Nat /\ index \in 0 .. c - 1
  BY DepthOf DEF LeafCount
<1>1. /\ \A k \in 0 .. c : P[k] \in Nat /\ P[k] >= k + 1
      /\ P[0] = 1
      /\ \A k \in 0 .. c - 1 : P[k + 1] = 2 * P[k]
  BY PowersGrow
<1>2. p[0] = w + index /\ \A k \in 1 .. D : p[k] = p[k - 1] \div 2
  BY PathStep
<1> HIDE DEF c, p, w, D, P
<1> DEFINE S == {k \in Nat : k <= D => /\ p[k] \in Nat /\ P[D - k] <= p[k] /\ p[k] < 2 * P[D - k]
                                       /\ p[k] < 2 * w}
<1>3. 0 \in S
  <2>1. D - 0 = D
    BY <1>0
  <2>2. p[0] \in Nat /\ w <= p[0] /\ p[0] < 2 * w
    BY <1>0, <1>2
  <2> QED
    BY <1>0, <2>1, <2>2
<1>4. ASSUME NEW k \in Nat, k \in S, k + 1 <= D
      PROVE  /\ p[k + 1] \in Nat /\ P[D - (k + 1)] <= p[k + 1] /\ p[k + 1] < 2 * P[D - (k + 1)]
             /\ p[k + 1] < 2 * w
  <2>1. /\ p[k] \in Nat /\ P[D - k] <= p[k] /\ p[k] < 2 * P[D - k] /\ p[k] < 2 * w
    BY <1>0, <1>4
  <2> DEFINE e == D - (k + 1)
  <2>2. e \in 0 .. c - 1 /\ e + 1 = D - k /\ e \in 0 .. c
    BY <1>0, <1>4
  <2>3. P[D - k] = 2 * P[e] /\ P[e] \in Nat
    BY <1>1, <2>2
  <2>4. p[k + 1] = p[k] \div 2
    <3>1. k + 1 \in 1 .. D /\ (k + 1) - 1 = k
      BY <1>0, <1>4
    <3> QED
      BY <1>2, <3>1
  <2> DEFINE x == p[k]
             y == P[e]
             z == p[k + 1]
  <2>5. x \in Nat /\ 2 * y <= x /\ x < 4 * y /\ y \in Nat /\ z = x \div 2 /\ x < 2 * w
    BY <2>1, <2>3, <2>4
  <2> HIDE DEF x, y, z, e
  <2>6. z \in Nat /\ y <= z /\ z < 2 * y /\ z < 2 * w
    BY <1>0, <2>5
  <2> QED
    BY <2>6 DEF x, y, z, e
<1>5. \A k \in Nat : k \in S => k + 1 \in S
  BY <1>4
<1>6. Nat \subseteq S
  <2> HIDE DEF S
  <2> QED
    BY <1>3, <1>5, UpFromZero
<1>7. ASSUME NEW k \in 0 .. D
      PROVE  /\ p[k] \in Nat /\ 1 <= p[k] /\ p[k] < 2 * w /\ P[D - k] <= p[k] /\ p[k] < 2 * P[D - k]
             /\ D - k \in 0 .. c /\ P[D - k] \in Nat /\ P[D - k] >= D - k + 1
  <2>1. k \in Nat /\ k <= D /\ D - k \in 0 .. c
    BY <1>0
  <2>2. p[k] \in Nat /\ P[D - k] <= p[k] /\ p[k] < 2 * P[D - k] /\ p[k] < 2 * w
    BY <1>6, <2>1
  <2>3. P[D - k] \in Nat /\ P[D - k] >= D - k + 1 /\ D - k + 1 >= 1
    BY <1>0, <1>1, <2>1
  <2> HIDE DEF S
  <2> QED
    BY <2>1, <2>2, <2>3
<1>8. p[D] = 1
  <2>1. D \in 0 .. D /\ D - D = 0
    BY <1>0
  <2> QED
    BY <1>1, <1>7, <2>1
<1>9. ASSUME NEW k \in 0 .. D - 1 PROVE p[k] >= 2
  <2>1. k \in 0 .. D /\ D - k + 1 >= 2 /\ D - k \in Nat
    BY <1>0
  <2> QED
    BY <1>7, <2>1
<1>10. ASSUME NEW k \in 1 .. D PROVE p[k] = p[k - 1] \div 2 /\ p[k] < w
  <2>1. k - 1 \in 0 .. D
    BY <1>0
  <2>2. p[k - 1] \in Nat /\ p[k - 1] < 2 * w /\ p[k] = p[k - 1] \div 2
    BY <1>2, <1>7, <2>1
  <2> QED
    BY <1>0, <2>2
<1>11. p[0] < 2 * w /\ p[0] \in Nat
  BY <1>0, <1>2
<1> QED
  BY <1>0, <1>2, <1>7, <1>8, <1>9, <1>10, <1>11 DEF c, p, w, D

\* One step of verify.
Above(hash, s) == IF s.left THEN HashPair(s.hash, hash) ELSE HashPair(hash, s.hash)

LEMMA ClimbStep ==
    ASSUME NEW leaf, NEW siblings, Len(siblings) \in Nat
    PROVE  \E g : /\ g[0] = leaf /\ Climb(leaf, siblings) = g[Len(siblings)]
                  /\ \A k \in 1 .. Len(siblings) : g[k] = Above(g[k - 1], siblings[k])
<1> DEFINE n == Len(siblings)
           Is(g, m) == g = [k \in 0 .. m |-> IF k = 0 THEN leaf ELSE Above(g[k - 1], siblings[k])]
           S == {m \in Nat : \E g : Is(g, m)}
<1>0. n \in Nat
  OBVIOUS
<1>8. Climb(leaf, siblings) = (CHOOSE g : Is(g, n))[n]
  BY DEF Climb, Is, Above
<1> HIDE DEF n
<1>1. 0 \in S
  <2> DEFINE g == [k \in 0 .. 0 |-> leaf]
  <2>1. Is(g, 0)
    OBVIOUS
  <2> QED
    BY <2>1
<1>2. ASSUME NEW m \in Nat, m \in S PROVE m + 1 \in S
  <2>1. PICK g : Is(g, m)
    BY <1>2
  <2> DEFINE h == [k \in 0 .. m + 1 |-> IF k <= m THEN g[k] ELSE Above(g[m], siblings[m + 1])]
  <2>2. ASSUME NEW k \in 0 .. m + 1
        PROVE  h[k] = IF k = 0 THEN leaf ELSE Above(h[k - 1], siblings[k])
    <3>1. CASE k = 0
      BY <2>1, <3>1
    <3>2. CASE k \in 1 .. m
      <4>1. h[k] = g[k] /\ h[k - 1] = g[k - 1] /\ k \in 0 .. m /\ k # 0
        BY <3>2
      <4>2. g[k] = Above(g[k - 1], siblings[k])
        BY <2>1, <4>1
      <4> QED
        BY <4>1, <4>2
    <3>3. CASE k = m + 1
      BY <3>3
    <3> QED
      BY <3>1, <3>2, <3>3
  <2>3. Is(h, m + 1)
    <3>1. h = [k \in 0 .. m + 1 |-> h[k]]
      OBVIOUS
    <3> HIDE DEF h
    <3> QED
      BY <2>2, <3>1
  <2> HIDE DEF Is
  <2> QED
    BY <2>3
<1> HIDE DEF Is
<1>3. n \in S
  <2> HIDE DEF S
  <2> QED
    BY <1>0, <1>1, <1>2, UpFromZero
<1>4. PICK g : g = (CHOOSE f : Is(f, n)) /\ Is(g, n)
  BY <1>3
<1>5. g = [k \in 0 .. n |-> IF k = 0 THEN leaf ELSE Above(g[k - 1], siblings[k])]
  BY <1>4 DEF Is
<1>6. g[0] = leaf
  BY <1>0, <1>5
<1>7. ASSUME NEW k \in 1 .. n PROVE g[k] = Above(g[k - 1], siblings[k])
  <2>1. k \in 0 .. n /\ k # 0
    BY <1>0
  <2> QED
    BY <1>5, <2>1
<1>9. Climb(leaf, siblings) = g[n]
  BY <1>4, <1>8
<1> QED
  BY <1>6, <1>7, <1>9 DEF n

\* Of two leaves that give the same root by the same siblings, there is only one.
LEMMA Binding ==
    ASSUME NEW a, NEW b, NEW siblings, Len(siblings) \in Nat, Climb(a, siblings) = Climb(b, siblings)
    PROVE  a = b
<1> DEFINE n == Len(siblings)
<1>1. PICK f : /\ f[0] = a /\ Climb(a, siblings) = f[n]
               /\ \A k \in 1 .. n : f[k] = Above(f[k - 1], siblings[k])
  BY ClimbStep
<1>2. PICK g : /\ g[0] = b /\ Climb(b, siblings) = g[n]
               /\ \A k \in 1 .. n : g[k] = Above(g[k - 1], siblings[k])
  BY ClimbStep
<1> DEFINE S == {m \in Nat : m <= n => f[n - m] = g[n - m]}
<1>0. n \in Nat
  OBVIOUS
<1> HIDE DEF n
<1>3. 0 \in S
  <2>1. n - 0 = n
    BY <1>0
  <2>2. f[n] = g[n]
    BY <1>1, <1>2
  <2> QED
    BY <2>1, <2>2
<1>4. ASSUME NEW m \in Nat, m \in S, m + 1 <= n PROVE f[n - (m + 1)] = g[n - (m + 1)]
  <2>1. n - m \in 1 .. n /\ (n - m) - 1 = n - (m + 1) /\ f[n - m] = g[n - m]
    BY <1>0, <1>4
  <2>2. Above(f[n - (m + 1)], siblings[n - m]) = Above(g[n - (m + 1)], siblings[n - m])
    BY <1>1, <1>2, <2>1
  <2> DEFINE x == f[n - (m + 1)]
             y == g[n - (m + 1)]
             s == siblings[n - m]
  <2>3. Above(x, s) = Above(y, s)
    BY <2>2
  <2> HIDE DEF x, y, s
  <2>4. x = y
    <3>1. \A l, r : HashPair(l, r).left = l /\ HashPair(l, r).right = r
      BY DEF HashPair
    <3>2. CASE s.left
      BY <2>3, <3>1, <3>2 DEF Above
    <3>3. CASE ~s.left
      BY <2>3, <3>1, <3>3 DEF Above
    <3> QED
      BY <3>2, <3>3
  <2> QED
    BY <2>4 DEF x, y
<1>5. \A m \in Nat : m \in S => m + 1 \in S
  BY <1>4
<1>6. n \in S
  <2> HIDE DEF S
  <2> QED
    BY <1>0, <1>3, <1>5, UpFromZero
<1>7. f[0] = g[0]
  BY <1>0, <1>6
<1> QED
  BY <1>1, <1>2, <1>7

\* The proof of a leaf leads from the leaf to the root.
LEMMA Complete ==
    ASSUME NEW leaves, Len(leaves) \in Nat \ {0}, NEW index \in 0 .. Len(leaves) - 1
    PROVE  /\ Len(Proof(leaves, index)) \in Nat
           /\ Climb(leaves[index + 1], Proof(leaves, index)) = Root(leaves)
<1> DEFINE c == Len(leaves)
           w == LeafCount(c)
           D == Depth(c)
           p == Path(leaves, index)
           t == Tree(leaves)
           s == Proof(leaves, index)
<1>0. /\ p[0] \in Nat /\ p[0] = w + index /\ p[0] < 2 * w /\ p[D] = 1 /\ D \in Nat
      /\ \A k \in 0 .. D : p[k] \in Nat /\ 1 <= p[k] /\ p[k] < 2 * w
      /\ \A k \in 0 .. D - 1 : p[k] >= 2
      /\ \A k \in 1 .. D : p[k] = p[k - 1] \div 2 /\ p[k] < w
  BY PathOf
<1>1. w \in Nat \ {0} /\ w >= c /\ c \in Nat
  BY DepthOf
<1>2. \A i \in 1 .. 2 * w - 1 : t[i] = NodeOf(t, leaves, i)
  <2>1. t = [i \in 1 .. 2 * w - 1 |-> NodeOf(t, leaves, i)]
    BY TreeStep
  <2> HIDE DEF t
  <2> QED
    BY <2>1
<1>3. s = [level \in 1 .. D |->
            [left |-> p[level - 1] % 2 # 0,
             hash |-> t[IF p[level - 1] % 2 = 0 THEN p[level - 1] + 1 ELSE p[level - 1] - 1]]]
  BY DEF Proof
<1> HIDE DEF p, t, s, D
<1>4. Len(s) = D
  BY <1>0, <1>3
<1>5. PICK g : /\ g[0] = leaves[index + 1] /\ Climb(leaves[index + 1], s) = g[D]
               /\ \A k \in 1 .. D : g[k] = Above(g[k - 1], s[k])
  <2>1. Len(s) \in Nat
    BY <1>0, <1>4
  <2> QED
    BY <1>4, <2>1, ClimbStep
<1> DEFINE S == {k \in Nat : k <= D => g[k] = t[p[k]]}
<1>6. 0 \in S
  <2>1. p[0] \in 1 .. 2 * w - 1 /\ ~(p[0] < w) /\ p[0] - w = index
    BY <1>0, <1>1
  <2>2. t[p[0]] = leaves[index + 1]
    BY <1>2, <2>1 DEF NodeOf, w, c
  <2> QED
    BY <1>5, <2>2
<1>7. ASSUME NEW k \in Nat, k \in S, k + 1 <= D PROVE g[k + 1] = t[p[k + 1]]
  <2> DEFINE i == p[k]
             j == p[k + 1]
             sib == s[k + 1]
  <2>1. k \in 0 .. D /\ k + 1 \in 0 .. D /\ k + 1 \in 1 .. D /\ (k + 1) - 1 = k /\ k \in 0 .. D - 1
    BY <1>0, <1>7
  <2>2. i \in Nat /\ i >= 2 /\ j \in Nat /\ 1 <= j /\ j = i \div 2 /\ j < w
    BY <1>0, <2>1
  <2>3. g[k] = t[i] /\ g[k + 1] = Above(t[i], sib)
    BY <1>0, <1>5, <1>7, <2>1
  <2>4. sib = [left |-> i % 2 # 0, hash |-> t[IF i % 2 = 0 THEN i + 1 ELSE i - 1]]
    BY <1>3, <2>1
  <2> HIDE DEF i, j, sib
  <2>5. t[j] = HashPair(t[2 * j], t[2 * j + 1])
    <3>1. j \in 1 .. 2 * w - 1
      BY <1>1, <2>2
    <3> QED
      BY <1>2, <2>2, <3>1 DEF NodeOf, w, c
  <2>6. CASE i % 2 = 0
    <3>1. i = 2 * j /\ i + 1 = 2 * j + 1
      BY <2>2, <2>6
    <3>2. sib.left = FALSE /\ sib.hash = t[i + 1]
      BY <2>4, <2>6
    <3> QED
      BY <2>3, <2>5, <3>1, <3>2 DEF Above, j
  <2>7. CASE i % 2 # 0
    <3>1. i = 2 * j + 1 /\ i - 1 = 2 * j
      BY <2>2, <2>7
    <3>2. sib.left = TRUE /\ sib.hash = t[i - 1]
      BY <2>4, <2>7
    <3> QED
      BY <2>3, <2>5, <3>1, <3>2 DEF Above, j
  <2> QED
    BY <2>6, <2>7
<1>8. \A k \in Nat : k \in S => k + 1 \in S
  BY <1>7
<1>9. D \in S
  <2> HIDE DEF S
  <2> QED
    BY <1>0, <1>6, <1>8, UpFromZero
<1>10. g[D] = t[1]
  BY <1>0, <1>9
<1> QED
  BY <1>0, <1>4, <1>5, <1>10 DEF Root, s, t

----------------------------------------------------------------------------
(* The pieces of a file *)

\* The pieces of a file: how many, and where they are cut.
LEMMA CutsOf ==
    ASSUME NEW n \in Nat, NEW d \in Nat \ {0}
    PROVE  /\ DivCeil(n, d) \in Nat /\ DivCeil(n, d) * d >= n /\ (n = 0 => DivCeil(n, d) = 0)
           /\ \A i \in Nat : (i < DivCeil(n, d) => i * d < n) /\ (i * d >= n => i >= DivCeil(n, d))
<1> DEFINE q == DivCeil(n, d)
<1>1. q = (n + d - 1) \div d
  BY DEF DivCeil
<1> HIDE DEF q
<1>2. q \in Int /\ d * q <= n + d - 1 /\ n + d - 1 < d * q + d
  BY <1>1
<1>3. q \in Nat
  <2>1. CASE q < 0
    <3>1. q + 1 <= 0
      BY <1>2, <2>1
    <3>2. d * (q + 1) <= 0
      BY <1>2, <3>1
    <3>3. d * (q + 1) = d * q + d
      BY <1>2
    <3> QED
      BY <1>2, <3>2, <3>3
  <2> QED
    BY <1>2, <2>1
<1>4. q * d >= n
  BY <1>2
<1>5. n = 0 => q = 0
  <2>1. CASE n = 0 /\ q >= 1
    <3>1. d * q >= d
      BY <1>3, <2>1
    <3> QED
      BY <1>2, <2>1, <3>1
  <2> QED
    BY <1>3, <2>1
<1>6. ASSUME NEW i \in Nat, i < q PROVE i * d < n
  <2>1. i + 1 <= q /\ d * (i + 1) = d * i + d
    BY <1>2, <1>6
  <2>2. d * (i + 1) <= d * q
    BY <1>2, <2>1
  <2>3. d * i < n /\ d * i = i * d
    BY <1>2, <2>1, <2>2
  <2> QED
    BY <2>3
<1> QED
  BY <1>3, <1>4, <1>5, <1>6 DEF q

LEMMA PiecesOf ==
    ASSUME NEW f \in Seq(Nat), PieceSize \in Nat \ {0}
    PROVE  LET c == PieceCount(f) IN
           /\ c \in Nat /\ c * PieceSize >= Len(f) /\ (Len(f) = 0 => c = 0)
           /\ \A i \in Nat : i < c => i * PieceSize < Len(f)
           /\ Len(Leaves(f)) = c
           /\ \A i \in 0 .. c - 1 : Leaves(f)[i + 1] = LeafHash(ReadPiece(f, i))
<1> DEFINE c == DivCeil(Len(f), PieceSize)
           n == Len(f)
<1>1. n \in Nat
  OBVIOUS
<1>2. /\ c \in Nat /\ c * PieceSize >= n /\ (n = 0 => c = 0)
      /\ \A i \in Nat : i < c => i * PieceSize < n
  BY <1>1, CutsOf
<1> DEFINE Cut(k) == SubSeq(f, (k - 1) * PieceSize + 1, Smaller(k * PieceSize, Len(f)))
<1>3. Chunks(f) = [k \in 1 .. c |-> Cut(k)]
  BY DEF Chunks
<1> HIDE DEF c, n, Cut
<1>4. Len(Chunks(f)) = c /\ DOMAIN Chunks(f) = 1 .. c
  BY <1>2, <1>3
<1>5. Len(Leaves(f)) = c /\ \A k \in 1 .. c : Leaves(f)[k] = LeafHash(Cut(k))
  BY <1>2, <1>3, <1>4 DEF Leaves
<1>6. ASSUME NEW i \in 0 .. c - 1 PROVE Leaves(f)[i + 1] = LeafHash(ReadPiece(f, i))
  <2>1. i \in Nat /\ i + 1 \in 1 .. c /\ (i + 1) - 1 = i /\ i < c
    BY <1>2
  <2>2. i * PieceSize < n /\ i * PieceSize \in Int
    BY <1>2, <2>1
  <2>3. ~(i * PieceSize >= n)
    BY <1>1, <2>2
  <2>4. ReadPiece(f, i) = SubSeq(f, i * PieceSize + 1, Smaller((i + 1) * PieceSize, Len(f)))
    BY <2>3 DEF ReadPiece, n
  <2>5. Cut(i + 1) = SubSeq(f, i * PieceSize + 1, Smaller((i + 1) * PieceSize, Len(f)))
    BY <2>1 DEF Cut
  <2> QED
    BY <1>5, <2>1, <2>4, <2>5
<1>7. PieceCount(f) = c
  BY <1>4 DEF PieceCount
<1> QED
  BY <1>2, <1>4, <1>5, <1>6, <1>7 DEF n

\* MerkleTree::verify lets every piece of f pass that comes with the proof made for it,
\* whatever the number of pieces, a power of two or not.
THEOREM OwnProofVerifies ==
    ASSUME NEW f \in Seq(Nat), PieceSize \in Nat \ {0}, NEW i \in 0 .. PieceCount(f) - 1
    PROVE  Verify(InfoHash(f), LeafHash(ReadPiece(f, i)), Proof(Leaves(f), i))
<1> DEFINE c == PieceCount(f)
           leaves == Leaves(f)
<1>1. c \in Nat \ {0} /\ Len(leaves) = c /\ leaves[i + 1] = LeafHash(ReadPiece(f, i))
  BY PiecesOf
<1>2. Climb(leaves[i + 1], Proof(leaves, i)) = Root(leaves)
  <2> HIDE DEF leaves
  <2> QED
    BY <1>1, Complete
<1> QED
  BY <1>1, <1>2 DEF Verify, InfoHash

\* What MerkleTree::verify lets pass against the torrent of f, with the proof the seeder
\* makes for piece i, is piece i of f: no other bytes have that proof.
THEOREM VerifiedIs ==
    ASSUME NEW f \in Seq(Nat), PieceSize \in Nat \ {0}, NEW i \in 0 .. PieceCount(f) - 1, NEW data,
           Verify(InfoHash(f), LeafHash(data), Proof(Leaves(f), i))
    PROVE  data = ReadPiece(f, i)
<1> DEFINE c == PieceCount(f)
           leaves == Leaves(f)
           proof == Proof(leaves, i)
<1>1. c \in Nat \ {0} /\ Len(leaves) = c /\ leaves[i + 1] = LeafHash(ReadPiece(f, i))
  BY PiecesOf
<1>2. Len(proof) \in Nat /\ Climb(leaves[i + 1], proof) = Root(leaves)
  <2> HIDE DEF leaves
  <2> QED
    BY <1>1, Complete
<1>3. Climb(LeafHash(data), proof) = Root(leaves)
  BY DEF Verify, InfoHash
<1>4. LeafHash(data) = LeafHash(ReadPiece(f, i))
  <2> HIDE DEF leaves, proof
  <2> QED
    BY <1>1, <1>2, <1>3, Binding
<1> QED
  BY <1>4 DEF LeafHash

\* The bits of the bitfield that are set are as many as the pieces.
LEMMA BitsOf ==
    ASSUME NEW f \in Seq(Nat), PieceSize \in Nat \ {0}
    PROVE  CountOnes(Bitfield(f)) = PieceCount(f)
<1> DEFINE c == PieceCount(f)
           last == 8 * DivCeil(c, 8)
<1>1. c \in Nat
  BY PiecesOf
<1>2. DivCeil(c, 8) \in Nat /\ DivCeil(c, 8) * 8 >= c
  BY <1>1, CutsOf
<1>3. Bitfield(f) = [k \in 1 .. last |-> k <= c]
  BY DEF Bitfield
<1>4. last \in Nat /\ last >= c
  BY <1>1, <1>2
<1> HIDE DEF c, last
<1>5. {k \in DOMAIN Bitfield(f) : Bitfield(f)[k]} = 1 .. c
  <2>1. \A k \in 1 .. last : Bitfield(f)[k] <=> k <= c
    BY <1>3
  <2>2. DOMAIN Bitfield(f) = 1 .. last
    BY <1>3
  <2>3. {k \in 1 .. last : k <= c} = 1 .. c
    BY <1>1, <1>4
  <2> QED
    BY <2>1, <2>2, <2>3
<1>6. Cardinality(1 .. c) = c
  <2>1. 1 <= c => Cardinality(1 .. c) = c - 1 + 1
    BY <1>1, FS_Interval
  <2>2. 1 > c => Cardinality(1 .. c) = 0
    BY <1>1, FS_Interval
  <2> QED
    BY <1>1, <2>1, <2>2
<1> QED
  BY <1>5, <1>6 DEF CountOnes, c

----------------------------------------------------------------------------
(* Pieces put together *)

\* The bytes that are written, one piece after another.
LEMMA JoinedStep ==
    ASSUME NEW received, Len(received) \in Nat
    PROVE  LET next(k) == received[CHOOSE j \in DOMAIN received : Place(received, j) = k] IN
           \E g : /\ g[0] = <<>> /\ Joined(received) = g[Len(received)]
                  /\ \A k \in 1 .. Len(received) : g[k] = g[k - 1] \o next(k).data
<1> DEFINE n == Len(received)
           next(k) == received[CHOOSE j \in DOMAIN received : Place(received, j) = k]
           Is(g, m) == g = [k \in 0 .. m |-> IF k = 0 THEN <<>> ELSE g[k - 1] \o next(k).data]
           S == {m \in Nat : \E g : Is(g, m)}
<1>0. n \in Nat
  OBVIOUS
<1>8. Joined(received) = (CHOOSE g : Is(g, n))[n]
  BY DEF Joined, Is
<1> HIDE DEF n, next
<1>1. 0 \in S
  <2> DEFINE g == [k \in 0 .. 0 |-> <<>>]
  <2>1. Is(g, 0)
    OBVIOUS
  <2> QED
    BY <2>1
<1>2. ASSUME NEW m \in Nat, m \in S PROVE m + 1 \in S
  <2>1. PICK g : Is(g, m)
    BY <1>2
  <2> DEFINE h == [k \in 0 .. m + 1 |-> IF k <= m THEN g[k] ELSE g[m] \o next(m + 1).data]
  <2>2. ASSUME NEW k \in 0 .. m + 1
        PROVE  h[k] = IF k = 0 THEN <<>> ELSE h[k - 1] \o next(k).data
    <3>1. CASE k = 0
      BY <2>1, <3>1
    <3>2. CASE k \in 1 .. m
      <4>1. h[k] = g[k] /\ h[k - 1] = g[k - 1] /\ k \in 0 .. m /\ k # 0
        BY <3>2
      <4>2. g[k] = g[k - 1] \o next(k).data
        BY <2>1, <4>1
      <4> QED
        BY <4>1, <4>2
    <3>3. CASE k = m + 1
      BY <3>3
    <3> QED
      BY <3>1, <3>2, <3>3
  <2>3. Is(h, m + 1)
    <3>1. h = [k \in 0 .. m + 1 |-> h[k]]
      OBVIOUS
    <3> HIDE DEF h
    <3> QED
      BY <2>2, <3>1
  <2> HIDE DEF Is
  <2> QED
    BY <2>3
<1> HIDE DEF Is
<1>3. n \in S
  <2> HIDE DEF S
  <2> QED
    BY <1>0, <1>1, <1>2, UpFromZero
<1>4. PICK g : g = (CHOOSE f : Is(f, n)) /\ Is(g, n)
  BY <1>3
<1>5. g = [k \in 0 .. n |-> IF k = 0 THEN <<>> ELSE g[k - 1] \o next(k).data]
  BY <1>4 DEF Is
<1>6. g[0] = <<>>
  BY <1>0, <1>5
<1>7. ASSUME NEW k \in 1 .. n PROVE g[k] = g[k - 1] \o next(k).data
  <2>1. k \in 0 .. n /\ k # 0
    BY <1>0
  <2> QED
    BY <1>5, <2>1
<1>9. Joined(received) = g[n]
  BY <1>4, <1>8
<1> QED
  BY <1>6, <1>7, <1>9 DEF n, next

\* Pieces received in the order of the file stay there when they are sorted.
LEMMA PlaceOf ==
    ASSUME NEW received, Len(received) \in Nat, DOMAIN received = 1 .. Len(received),
           \A k \in DOMAIN received : received[k].index = k - 1,
           NEW j \in DOMAIN received
    PROVE  Place(received, j) = j
<1>1. {i \in DOMAIN received : \/ received[i].index < received[j].index
                               \/ received[i].index = received[j].index /\ i <= j} = 1 .. j
  <2>1. \A i \in DOMAIN received : received[i].index = i - 1 /\ i \in Nat
    OBVIOUS
  <2>2. received[j].index = j - 1 /\ j \in Nat
    OBVIOUS
  <2>3. \A i \in DOMAIN received :
            (\/ received[i].index < received[j].index
             \/ received[i].index = received[j].index /\ i <= j) <=> i <= j
    BY <2>1, <2>2
  <2> QED
    BY <2>1, <2>2, <2>3
<1>2. Cardinality(1 .. j) = j
  BY FS_Interval
<1> QED
  BY <1>1, <1>2 DEF Place

\* All pieces of a file together are the file.
LEMMA JoinedIs ==
    ASSUME NEW f \in Seq(Nat), PieceSize \in Nat \ {0},
           NEW received, Len(received) = PieceCount(f), DOMAIN received = 1 .. Len(received),
           \A k \in DOMAIN received : received[k].index = k - 1 /\ received[k].data = ReadPiece(f, k - 1)
    PROVE  Joined(received) = f
<1> DEFINE c == PieceCount(f)
           d == PieceSize
           n == Len(f)
           next(k) == received[CHOOSE j \in DOMAIN received : Place(received, j) = k]
<1>1. /\ c \in Nat /\ c * d >= n /\ n \in Nat /\ Len(received) = c
      /\ \A i \in Nat : i < c => i * d < n
  BY PiecesOf
<1>2. PICK g : /\ g[0] = <<>> /\ Joined(received) = g[c]
               /\ \A k \in 1 .. c : g[k] = g[k - 1] \o next(k).data
  <2>1. Len(received) \in Nat
    BY <1>1
  <2>2. PICK g : /\ g[0] = <<>> /\ Joined(received) = g[Len(received)]
                 /\ \A k \in 1 .. Len(received) : g[k] = g[k - 1] \o next(k).data
    BY <2>1, JoinedStep
  <2>3. /\ g[0] = <<>> /\ Joined(received) = g[c]
        /\ \A k \in 1 .. c : g[k] = g[k - 1] \o next(k).data
    <3>1. Len(received) = c
      BY <1>1
    <3> HIDE DEF next, c
    <3> QED
      BY <2>2, <3>1
  <2> HIDE DEF next, c
  <2> QED
    BY <2>3
<1>3. \A k \in 1 .. c : next(k).data = ReadPiece(f, k - 1)
  <2> SUFFICES ASSUME NEW k \in 1 .. c PROVE next(k).data = ReadPiece(f, k - 1)
    OBVIOUS
  <2>1. \A j \in DOMAIN received : Place(received, j) = j
    BY <1>1, PlaceOf
  <2>2. k \in DOMAIN received
    BY <1>1
  <2>3. (CHOOSE j \in DOMAIN received : Place(received, j) = k) = k
    BY <2>1, <2>2
  <2> QED
    BY <2>2, <2>3
<1> HIDE DEF next, c
<1> DEFINE end(k) == Smaller(k * d, n)
           S == {k \in Nat : k <= c => g[k] = SubSeq(f, 1, end(k))}
<1>4. \A k \in Nat : end(k) \in 0 .. n
  BY <1>1 DEF Smaller
<1>5. 0 \in S
  <2>1. end(0) = 0
    BY <1>1 DEF Smaller
  <2>2. SubSeq(f, 1, 0) = <<>>
    BY SubSeqEmpty
  <2> QED
    BY <1>2, <2>1, <2>2
<1>6. ASSUME NEW k \in Nat, k \in S, k + 1 <= c PROVE g[k + 1] = SubSeq(f, 1, end(k + 1))
  <2>1. k + 1 \in 1 .. c /\ (k + 1) - 1 = k /\ k < c /\ k <= c
    BY <1>1, <1>6
  <2>2. g[k] = SubSeq(f, 1, end(k)) /\ g[k + 1] = g[k] \o ReadPiece(f, k)
    BY <1>2, <1>3, <1>6, <2>1
  <2>3. k * d < n /\ k * d \in Nat
    BY <1>1, <2>1
  <2>4. end(k) = k * d /\ ReadPiece(f, k) = SubSeq(f, k * d + 1, end(k + 1))
    <3>1. end(k) = k * d
      BY <2>3 DEF Smaller
    <3>2. ~(k * d >= n)
      BY <1>1, <2>3
    <3>3. ReadPiece(f, k) = SubSeq(f, k * d + 1, end(k + 1))
      BY <3>2 DEF ReadPiece
    <3> QED
      BY <3>1, <3>3
  <2>5. end(k + 1) \in k * d .. n
    <3>1. (k + 1) * d = k * d + d
      OBVIOUS
    <3> QED
      BY <1>1, <2>3, <3>1 DEF Smaller
  <2> DEFINE a == k * d
             b == end(k + 1)
  <2>6. a \in 0 .. n /\ b \in a .. n
    BY <2>3, <2>5
  <2>7. SubSeq(f, 1, a) \o SubSeq(f, a + 1, b) = SubSeq(f, 1, b)
    <3> HIDE DEF a, b
    <3>1. 1 \in 1 .. Len(f) + 1 /\ a \in 1 - 1 .. Len(f) /\ b \in a .. Len(f)
      BY <2>6
    <3> QED
      BY <3>1, ConcatAdjacentSubSeq
  <2> QED
    BY <2>2, <2>4, <2>7
<1>7. \A k \in Nat : k \in S => k + 1 \in S
  BY <1>6
<1>8. c \in S
  <2> HIDE DEF S
  <2> QED
    BY <1>1, <1>5, <1>7, UpFromZero
<1>9. end(c) = n
  BY <1>1 DEF Smaller
<1>10. g[c] = SubSeq(f, 1, n)
  BY <1>1, <1>8, <1>9
<1> QED
  BY <1>2, <1>10, SubSeqFull

----------------------------------------------------------------------------
(* Messages on their way *)

IsSeq(s) == s \in Seq(ToSet(s))

Carries(m) == m.type \in {"Request", "Piece"}

\* No request and no piece is among the messages, or exactly one, of type t for piece i.
Free(s) == \A k \in DOMAIN s : ~Carries(s[k])
Single(s, t, i) ==
    \E k \in DOMAIN s :
        /\ s[k].type = t /\ s[k].index = i
        /\ \A j \in DOMAIN s : j # k => ~Carries(s[j])
Unchokes(s) == \E k \in DOMAIN s : s[k].type = "Unchoke"

\* A piece is a record with these fields, whatever its bytes.
Formed(s) == \A k \in DOMAIN s : s[k].type = "Piece" => {"type", "index", "proof"} \subseteq DOMAIN s[k]

LEMMA AnySeq ==
    ASSUME NEW S, NEW s \in Seq(S)
    PROVE  IsSeq(s)
BY DEF IsSeq, ToSet

LEMMA RestOf ==
    ASSUME NEW s, IsSeq(s), s # <<>>
    PROVE  /\ IsSeq(Tail(s)) /\ 1 \in DOMAIN s /\ Head(s) = s[1]
           /\ \A k \in DOMAIN Tail(s) : k \in Nat /\ k + 1 \in DOMAIN s /\ k + 1 # 1 /\ Tail(s)[k] = s[k + 1]
           /\ \A k \in DOMAIN s : k \in Nat /\ (k # 1 => k - 1 \in DOMAIN Tail(s) /\ Tail(s)[k - 1] = s[k])
<1>1. PICK S : s \in Seq(S)
  BY DEF IsSeq
<1>2. Tail(s) \in Seq(S)
  BY <1>1
<1>3. IsSeq(Tail(s))
  BY <1>2, AnySeq
<1> QED
  BY <1>1, <1>3

LEMMA MoreOf ==
    ASSUME NEW s, NEW u, IsSeq(s), IsSeq(u)
    PROVE  /\ IsSeq(s \o u)
           /\ \A k \in DOMAIN (s \o u) : \/ k \in DOMAIN s /\ (s \o u)[k] = s[k]
                                         \/ k - Len(s) \in DOMAIN u /\ (s \o u)[k] = u[k - Len(s)]
           /\ \A k \in DOMAIN u : Len(s) + k \in DOMAIN (s \o u) /\ (s \o u)[Len(s) + k] = u[k]
           /\ \A k \in DOMAIN (s \o u) : k = Len(s) + (k - Len(s))
<1> DEFINE S == ToSet(s) \cup ToSet(u)
<1>1. s \in Seq(S) /\ u \in Seq(S)
  BY DEF IsSeq
<1> HIDE DEF S
<1>2. IsSeq(s \o u)
  <2>1. s \o u \in Seq(S)
    BY <1>1
  <2> QED
    BY <2>1, AnySeq
<1> QED
  BY <1>1, <1>2

LEMMA AppendOf ==
    ASSUME NEW s, IsSeq(s), NEW x
    PROVE  /\ Len(s) \in Nat /\ DOMAIN s = 1 .. Len(s)
           /\ Len(Append(s, x)) = Len(s) + 1 /\ DOMAIN Append(s, x) = 1 .. Len(s) + 1
           /\ Append(s, x)[Len(s) + 1] = x /\ \A k \in 1 .. Len(s) : Append(s, x)[k] = s[k]
<1> DEFINE S == ToSet(s) \cup {x}
<1>1. s \in Seq(S) /\ x \in S
  BY DEF IsSeq
<1> HIDE DEF S
<1> QED
  BY <1>1

\* What a broken connection leaves of a sequence.
LEMMA PrefixOf ==
    ASSUME NEW s, IsSeq(s), NEW p \in Prefixes(s)
    PROVE  /\ IsSeq(p)
           /\ \A k \in DOMAIN p : k \in DOMAIN s /\ p[k] = s[k]
<1> DEFINE S == ToSet(s)
<1>1. s \in Seq(S)
  BY DEF IsSeq
<1> HIDE DEF S
<1>2. PICK l \in 0 .. Len(s) : p = SubSeq(s, 1, l)
  BY DEF Prefixes
<1>3. p \in Seq(S) /\ \A k \in DOMAIN p : k \in DOMAIN s /\ p[k] = s[k]
  BY <1>1, <1>2
<1> QED
  BY <1>3, AnySeq

LEMMA FreeRest ==
    ASSUME NEW s, IsSeq(s), s # <<>>, Free(s)
    PROVE  Free(Tail(s)) /\ ~Carries(Head(s))
BY RestOf DEF Free

LEMMA FreeMore ==
    ASSUME NEW s, NEW u, IsSeq(s), IsSeq(u), Free(s), Free(u)
    PROVE  Free(s \o u)
<1> SUFFICES ASSUME NEW k \in DOMAIN (s \o u) PROVE ~Carries((s \o u)[k])
  BY DEF Free
<1>1. \/ k \in DOMAIN s /\ (s \o u)[k] = s[k]
      \/ k - Len(s) \in DOMAIN u /\ (s \o u)[k] = u[k - Len(s)]
  BY MoreOf
<1> QED
  BY <1>1 DEF Free

LEMMA SingleRest ==
    ASSUME NEW s, IsSeq(s), s # <<>>, NEW t, NEW i, Single(s, t, i)
    PROVE  \/ Head(s).type = t /\ Head(s).index = i /\ Free(Tail(s))
           \/ ~Carries(Head(s)) /\ Single(Tail(s), t, i)
<1>1. PICK k \in DOMAIN s : /\ s[k].type = t /\ s[k].index = i
                           /\ \A j \in DOMAIN s : j # k => ~Carries(s[j])
  BY DEF Single
<1>2. /\ 1 \in DOMAIN s /\ Head(s) = s[1] /\ k \in Nat
      /\ \A j \in DOMAIN Tail(s) : j \in Nat /\ j + 1 \in DOMAIN s /\ j + 1 # 1 /\ Tail(s)[j] = s[j + 1]
      /\ k # 1 => k - 1 \in DOMAIN Tail(s) /\ Tail(s)[k - 1] = s[k]
  BY RestOf
<1>3. CASE k = 1
  <2>1. Free(Tail(s))
    BY <1>1, <1>2, <1>3 DEF Free
  <2> QED
    BY <1>1, <1>2, <1>3, <2>1
<1>4. CASE k # 1
  <2>1. \A j \in DOMAIN Tail(s) : j # k - 1 => j + 1 # k
    BY <1>2
  <2>2. \A j \in DOMAIN Tail(s) : j # k - 1 => ~Carries(Tail(s)[j])
    BY <1>1, <1>2, <2>1
  <2>3. Single(Tail(s), t, i)
    BY <1>1, <1>2, <1>4, <2>2 DEF Single
  <2> QED
    BY <1>1, <1>2, <1>4, <2>3
<1> QED
  BY <1>3, <1>4

LEMMA SingleMore ==
    ASSUME NEW s, NEW u, IsSeq(s), IsSeq(u), NEW t, NEW i, Free(s), Single(u, t, i)
    PROVE  Single(s \o u, t, i)
<1>1. PICK k \in DOMAIN u : /\ u[k].type = t /\ u[k].index = i
                           /\ \A j \in DOMAIN u : j # k => ~Carries(u[j])
  BY DEF Single
<1>2. Len(s) + k \in DOMAIN (s \o u) /\ (s \o u)[Len(s) + k] = u[k]
  BY MoreOf
<1>3. ASSUME NEW j \in DOMAIN (s \o u), j # Len(s) + k PROVE ~Carries((s \o u)[j])
  <2>1. \/ j \in DOMAIN s /\ (s \o u)[j] = s[j]
        \/ j - Len(s) \in DOMAIN u /\ j - Len(s) # k /\ (s \o u)[j] = u[j - Len(s)]
    BY <1>3, MoreOf
  <2> QED
    BY <1>1, <2>1 DEF Free
<1> QED
  BY <1>1, <1>2, <1>3 DEF Single

LEMMA SingleKept ==
    ASSUME NEW s, NEW p, NEW t, NEW i, Single(s, t, i),
           \A k \in DOMAIN p : k \in DOMAIN s /\ p[k] = s[k]
    PROVE  Free(p) \/ Single(p, t, i)
<1>1. PICK k \in DOMAIN s : /\ s[k].type = t /\ s[k].index = i
                           /\ \A j \in DOMAIN s : j # k => ~Carries(s[j])
  BY DEF Single
<1>2. CASE k \in DOMAIN p
  BY <1>1, <1>2 DEF Single
<1>3. CASE k \notin DOMAIN p
  BY <1>1, <1>3 DEF Free
<1> QED
  BY <1>2, <1>3

----------------------------------------------------------------------------
(* The protocol *)

Places == [leecher |-> {"connect", "handshake", "bitfield", "unchoke", "piece", "write", "return", "over"},
           seeder |-> {"handshake", "bitfield", "interested", "serve", "over"}]

Wired ==
    /\ at = [e \in Ends |-> at[e]] /\ \A e \in Ends : at[e] \in Places[e]
    /\ inbox = [e \in Ends |-> inbox[e]] /\ \A e \in Ends : IsSeq(inbox[e])
    /\ Formed(inbox["leecher"]) /\ IsSeq(pieces)

\* The pieces are received in order.
InOrder == \A k \in DOMAIN pieces : pieces[k].index = k - 1

\* What is under way while the leecher waits for piece n.
Underway(l, s, n) ==
    \/ Free(l) /\ Free(s)
    \/ Single(l, "Piece", n) /\ Free(s)
    \/ Single(s, "Request", n) /\ Free(l)

\* Pieces are asked for only of a seeder that serves, one after another.
Lockstep ==
    /\ at["leecher"] \in {"connect", "handshake", "bitfield", "unchoke"} =>
            Free(inbox["leecher"]) /\ Free(inbox["seeder"]) /\ pieces = <<>>
    /\ at["leecher"] = "piece" =>
            /\ Underway(inbox["leecher"], inbox["seeder"], Len(pieces))
            /\ Intact("leecher") => ~(Free(inbox["leecher"]) /\ Free(inbox["seeder"]))
    /\ at["leecher"] \in {"write", "return"} => Free(inbox["leecher"]) /\ Free(inbox["seeder"])
    /\ at["leecher"] \in {"piece", "write", "return"} \/ Unchokes(inbox["leecher"]) =>
            at["seeder"] \in {"serve", "over"}

TransferSound == Wired /\ InOrder /\ Lockstep

LEMMA InitSound == Init => TransferSound
<1> SUFFICES ASSUME Init PROVE TransferSound
  OBVIOUS
<1>1. /\ at = [leecher |-> "connect", seeder |-> "handshake"] /\ inbox = [e \in Ends |-> <<>>]
      /\ pieces = <<>>
  BY DEF Init
<1>2. IsSeq(<<>>)
  <2>1. <<>> \in Seq({})
    OBVIOUS
  <2> QED
    BY <2>1, AnySeq
<1>3. Wired
  <2>1. at = [e \in Ends |-> at[e]] /\ \A e \in Ends : at[e] \in Places[e]
    BY <1>1 DEF Ends, Places
  <2> QED
    BY <1>1, <1>2, <2>1 DEF Wired, Ends, Formed
<1>4. InOrder /\ Lockstep
  BY <1>1 DEF InOrder, Lockstep, Ends, Free, Unchokes
<1> QED
  BY <1>3, <1>4 DEF TransferSound

\* What one end takes out of its inbox and sends.
LEMMA ExchangesOf ==
    ASSUME Wired, NEW e \in Ends, NEW m, NEW messages, IsSeq(messages), Exchanges(e, m, messages)
    PROVE  /\ inbox[e] # <<>> /\ m = Head(inbox[e]) /\ inbox'[e] = Tail(inbox[e])
           /\ inbox'[Other(e)] = IF Intact(e) THEN inbox[Other(e)] \o messages ELSE inbox[Other(e)]
           /\ inbox' = [x \in Ends |-> inbox'[x]] /\ \A x \in Ends : IsSeq(inbox'[x])
<1>1. Other(e) \in Ends /\ Other(e) # e /\ \A x \in Ends : x = e \/ x = Other(e)
  BY DEF Other, Ends
<1>2. inbox = [x \in Ends |-> inbox[x]] /\ \A x \in Ends : IsSeq(inbox[x])
  BY DEF Wired
<1>3. inbox[e] # <<>> /\ m = Head(inbox[e])
  BY DEF Exchanges
<1> DEFINE more == IF Intact(e) THEN inbox[Other(e)] \o messages ELSE inbox[Other(e)]
<1>4. inbox' = [x \in Ends |-> IF x = e THEN Tail(inbox[e]) ELSE more]
  BY <1>1, <1>2 DEF Exchanges
<1>5. IsSeq(Tail(inbox[e])) /\ IsSeq(more)
  BY <1>1, <1>2, <1>3, RestOf, MoreOf
<1> HIDE DEF more
<1>6. inbox'[e] = Tail(inbox[e]) /\ inbox'[Other(e)] = more
  BY <1>1, <1>4
<1>7. inbox' = [x \in Ends |-> inbox'[x]] /\ \A x \in Ends : IsSeq(inbox'[x])
  BY <1>4, <1>5
<1> QED
  BY <1>3, <1>6, <1>7 DEF more

LEMMA MovesOf ==
    ASSUME Wired, NEW e \in Ends, NEW there \in Places[e], Moves(e, there)
    PROVE  /\ at'[e] = there /\ at'[Other(e)] = at[Other(e)]
           /\ at' = [x \in Ends |-> at'[x]] /\ \A x \in Ends : at'[x] \in Places[x]
<1>1. Other(e) \in Ends /\ Other(e) # e /\ \A x \in Ends : x = e \/ x = Other(e)
  BY DEF Other, Ends
<1>2. at = [x \in Ends |-> at[x]] /\ \A x \in Ends : at[x] \in Places[x]
  BY DEF Wired
<1>3. at' = [x \in Ends |-> IF x = e THEN there ELSE at[x]]
  BY <1>2 DEF Moves
<1> HIDE DEF Moves
<1> QED
  BY <1>1, <1>2, <1>3

LEMMA FormedRest ==
    ASSUME NEW s, IsSeq(s), s # <<>>, Formed(s)
    PROVE  Formed(Tail(s))
BY RestOf DEF Formed

LEMMA FormedMore ==
    ASSUME NEW s, NEW u, IsSeq(s), IsSeq(u), Formed(s), Formed(u)
    PROVE  Formed(s \o u)
<1> SUFFICES ASSUME NEW k \in DOMAIN (s \o u), (s \o u)[k].type = "Piece"
             PROVE  {"type", "index", "proof"} \subseteq DOMAIN (s \o u)[k]
  BY DEF Formed
<1>1. \/ k \in DOMAIN s /\ (s \o u)[k] = s[k]
      \/ k - Len(s) \in DOMAIN u /\ (s \o u)[k] = u[k - Len(s)]
  BY MoreOf
<1> QED
  BY <1>1 DEF Formed

LEMMA UnchokesRest ==
    ASSUME NEW s, IsSeq(s), s # <<>>, Unchokes(Tail(s))
    PROVE  Unchokes(s)
BY RestOf DEF Unchokes

LEMMA UnchokesMore ==
    ASSUME NEW s, NEW u, IsSeq(s), IsSeq(u), Unchokes(s \o u), ~Unchokes(u)
    PROVE  Unchokes(s)
<1>1. PICK k \in DOMAIN (s \o u) : (s \o u)[k].type = "Unchoke"
  BY DEF Unchokes
<1>2. \/ k \in DOMAIN s /\ (s \o u)[k] = s[k]
      \/ k - Len(s) \in DOMAIN u /\ (s \o u)[k] = u[k - Len(s)]
  BY MoreOf
<1> QED
  BY <1>1, <1>2 DEF Unchokes

LEMMA LeecherTakes ==
    ASSUME Wired, NEW m, NEW messages, IsSeq(messages), Exchanges("leecher", m, messages)
    PROVE  /\ inbox["leecher"] # <<>> /\ m = Head(inbox["leecher"])
           /\ inbox'["leecher"] = Tail(inbox["leecher"])
           /\ inbox'["seeder"] = IF Intact("leecher") THEN inbox["seeder"] \o messages ELSE inbox["seeder"]
           /\ inbox' = [e \in Ends |-> inbox'[e]] /\ \A e \in Ends : IsSeq(inbox[e]) /\ IsSeq(inbox'[e])
           /\ Formed(inbox'["leecher"]) /\ (Unchokes(inbox'["leecher"]) => Unchokes(inbox["leecher"]))
<1>1. "leecher" \in Ends /\ Other("leecher") = "seeder"
  BY DEF Ends, Other
<1>2. IsSeq(inbox["leecher"]) /\ Formed(inbox["leecher"])
  BY <1>1 DEF Wired
<1>3. /\ inbox["leecher"] # <<>> /\ m = Head(inbox["leecher"])
      /\ inbox'["leecher"] = Tail(inbox["leecher"])
      /\ inbox'["seeder"] = IF Intact("leecher") THEN inbox["seeder"] \o messages ELSE inbox["seeder"]
      /\ inbox' = [e \in Ends |-> inbox'[e]] /\ \A e \in Ends : IsSeq(inbox'[e])
  BY <1>1, ExchangesOf
<1>4. Formed(inbox'["leecher"]) /\ (Unchokes(inbox'["leecher"]) => Unchokes(inbox["leecher"]))
  BY <1>2, <1>3, FormedRest, UnchokesRest
<1> QED
  BY <1>3, <1>4 DEF Wired

LEMMA SeederTakes ==
    ASSUME Wired, NEW m, NEW messages, IsSeq(messages), Formed(messages), Exchanges("seeder", m, messages)
    PROVE  /\ inbox["seeder"] # <<>> /\ m = Head(inbox["seeder"])
           /\ inbox'["seeder"] = Tail(inbox["seeder"])
           /\ inbox'["leecher"] = IF Intact("seeder") THEN inbox["leecher"] \o messages ELSE inbox["leecher"]
           /\ inbox' = [e \in Ends |-> inbox'[e]] /\ \A e \in Ends : IsSeq(inbox[e]) /\ IsSeq(inbox'[e])
           /\ Formed(inbox'["leecher"])
           /\ Unchokes(inbox'["leecher"]) => Unchokes(inbox["leecher"]) \/ Unchokes(messages)
<1>1. "seeder" \in Ends /\ "leecher" \in Ends /\ Other("seeder") = "leecher"
  BY DEF Ends, Other
<1>2. IsSeq(inbox["leecher"]) /\ Formed(inbox["leecher"])
  BY <1>1 DEF Wired
<1>3. /\ inbox["seeder"] # <<>> /\ m = Head(inbox["seeder"])
      /\ inbox'["seeder"] = Tail(inbox["seeder"])
      /\ inbox'["leecher"] = IF Intact("seeder") THEN inbox["leecher"] \o messages ELSE inbox["leecher"]
      /\ inbox' = [e \in Ends |-> inbox'[e]] /\ \A e \in Ends : IsSeq(inbox'[e])
  BY <1>1, ExchangesOf
<1>4. Formed(inbox'["leecher"])
  BY <1>2, <1>3, FormedMore
<1>5. Unchokes(inbox'["leecher"]) => Unchokes(inbox["leecher"]) \/ Unchokes(messages)
  BY <1>2, <1>3, UnchokesMore
<1> QED
  BY <1>3, <1>4, <1>5 DEF Wired

----------------------------------------------------------------------------
(* The steps of the leecher *)

LEMMA BeforePieces ==
    ASSUME TransferSound,
           \/ Connect
           \/ \E m : OnHandshake(m) \/ OnBitfield(m)
    PROVE  TransferSound'
<1>0. Wired /\ Lockstep /\ pieces' = pieces /\ InOrder /\ "leecher" \in Ends /\ Other("leecher") = "seeder"
  BY DEF TransferSound, Connect, OnHandshake, OnBitfield, Ends, Other
<1>1. /\ at["leecher"] \in {"connect", "handshake", "bitfield"}
      /\ Free(inbox["leecher"]) /\ Free(inbox["seeder"]) /\ pieces = <<>>
  BY <1>0 DEF Connect, OnHandshake, OnBitfield, Lockstep
<1>2. \E there \in {"handshake", "bitfield", "unchoke"} : Moves("leecher", there)
  BY DEF Connect, OnHandshake, OnBitfield
<1>3. /\ at'["leecher"] \in {"handshake", "bitfield", "unchoke"} /\ at'["seeder"] = at["seeder"]
      /\ at' = [x \in Ends |-> at'[x]] /\ \A x \in Ends : at'[x] \in Places[x]
  <2>1. \A there \in {"handshake", "bitfield", "unchoke"} : there \in Places["leecher"]
    BY DEF Places
  <2> QED
    BY <1>0, <1>2, <2>1, MovesOf
<1>4. /\ inbox' = [e \in Ends |-> inbox'[e]] /\ \A e \in Ends : IsSeq(inbox'[e])
      /\ Free(inbox'["leecher"]) /\ Free(inbox'["seeder"])
      /\ Formed(inbox'["leecher"]) /\ (Unchokes(inbox'["leecher"]) => Unchokes(inbox["leecher"]))
  <2>0. IsSeq(inbox["leecher"]) /\ IsSeq(inbox["seeder"])
    BY <1>0 DEF Wired, Ends
  <2>1. CASE Connect
    <3>1. IsSeq(<<Handshake(want)>>) /\ Free(<<Handshake(want)>>)
      <4>1. <<Handshake(want)>> \in Seq({Handshake(want)})
        OBVIOUS
      <4>2. Free(<<Handshake(want)>>)
        BY DEF Free, Carries, Handshake
      <4> QED
        BY <4>1, <4>2, AnySeq
    <3>2. inbox' = [inbox EXCEPT !["seeder"] = IF Intact("leecher") THEN @ \o <<Handshake(want)>> ELSE @]
      BY <1>0, <2>1 DEF Connect, Sends
    <3>3. inbox'["seeder"] = inbox["seeder"] \/ inbox'["seeder"] = inbox["seeder"] \o <<Handshake(want)>>
      BY <1>0, <3>2 DEF Wired, Ends
    <3>4. Free(inbox'["seeder"]) /\ IsSeq(inbox'["seeder"])
      <4>1. CASE inbox'["seeder"] = inbox["seeder"]
        BY <1>1, <2>0, <4>1
      <4>2. CASE inbox'["seeder"] = inbox["seeder"] \o <<Handshake(want)>>
        BY <1>1, <2>0, <3>1, <4>2, FreeMore, MoreOf
      <4> QED
        BY <3>3, <4>1, <4>2
    <3>5. inbox'["leecher"] = inbox["leecher"] /\ inbox' = [e \in Ends |-> inbox'[e]]
      BY <1>0, <3>2 DEF Wired, Ends
    <3> QED
      BY <1>0, <1>1, <2>0, <3>4, <3>5 DEF Wired, Ends
  <2>2. CASE ~Connect
    <3>1. PICK m, messages : /\ Exchanges("leecher", m, messages)
                             /\ \/ messages = <<>>
                                \/ messages = <<Cleared(m), Plain("Interested")>>
      BY <2>2 DEF OnHandshake, OnBitfield
    <3>2. IsSeq(messages) /\ Free(messages)
      <4>1. messages \in Seq({Cleared(m), Plain("Interested")})
        <5>1. <<>> \in Seq({Cleared(m), Plain("Interested")})
          OBVIOUS
        <5>2. <<Cleared(m), Plain("Interested")>> \in Seq({Cleared(m), Plain("Interested")})
          OBVIOUS
        <5> QED
          BY <3>1, <5>1, <5>2
      <4>2. Free(messages)
        BY <3>1 DEF Free, Carries, Cleared, BitfieldOf, Plain
      <4> QED
        BY <4>1, <4>2, AnySeq
    <3>3. /\ inbox["leecher"] # <<>>
          /\ inbox'["leecher"] = Tail(inbox["leecher"])
          /\ inbox'["seeder"] = IF Intact("leecher") THEN inbox["seeder"] \o messages ELSE inbox["seeder"]
          /\ inbox' = [e \in Ends |-> inbox'[e]] /\ \A e \in Ends : IsSeq(inbox'[e])
          /\ Formed(inbox'["leecher"]) /\ (Unchokes(inbox'["leecher"]) => Unchokes(inbox["leecher"]))
      BY <1>0, <3>1, <3>2, LeecherTakes
    <3>4. Free(inbox'["leecher"]) /\ Free(inbox'["seeder"])
      BY <1>1, <2>0, <3>2, <3>3, FreeRest, FreeMore
    <3> QED
      BY <3>3, <3>4
  <2> QED
    BY <2>1, <2>2
<1>5. Wired'
  BY <1>0, <1>3, <1>4 DEF Wired
<1>6. Lockstep'
  BY <1>0, <1>1, <1>3, <1>4 DEF Lockstep
<1> QED
  BY <1>0, <1>5, <1>6 DEF TransferSound, InOrder

LEMMA UnchokeSound ==
    ASSUME TransferSound, NEW m, OnUnchoke(m)
    PROVE  TransferSound'
<1>0. Wired /\ Lockstep /\ pieces' = pieces /\ up' = up /\ InOrder /\ "leecher" \in Ends /\ Other("leecher") = "seeder"
  BY DEF TransferSound, OnUnchoke, Ends, Other
<1>1. Free(inbox["leecher"]) /\ Free(inbox["seeder"]) /\ pieces = <<>>
  BY <1>0 DEF OnUnchoke, Lockstep
<1>2. /\ at'["leecher"] = "piece" /\ at'["seeder"] = at["seeder"]
      /\ at' = [x \in Ends |-> at'[x]] /\ \A x \in Ends : at'[x] \in Places[x]
  <2>1. "piece" \in Places["leecher"] /\ Moves("leecher", "piece")
    BY DEF Places, OnUnchoke
  <2> QED
    BY <1>0, <2>1, MovesOf
<1> DEFINE u == <<Request(0)>>
<1>3. IsSeq(u) /\ Single(u, "Request", 0)
  <2>1. u \in Seq({Request(0)}) /\ DOMAIN u = {1} /\ u[1] = Request(0)
    OBVIOUS
  <2>2. Single(u, "Request", 0)
    BY <2>1 DEF Single, Request
  <2> QED
    BY <2>1, <2>2, AnySeq
<1>4. Exchanges("leecher", m, u) /\ m.type = "Unchoke"
  BY DEF OnUnchoke, Acceptable
<1> HIDE DEF u
<1>5. /\ inbox["leecher"] # <<>> /\ m = Head(inbox["leecher"])
      /\ inbox'["leecher"] = Tail(inbox["leecher"])
      /\ inbox'["seeder"] = IF Intact("leecher") THEN inbox["seeder"] \o u ELSE inbox["seeder"]
      /\ inbox' = [e \in Ends |-> inbox'[e]] /\ \A e \in Ends : IsSeq(inbox[e]) /\ IsSeq(inbox'[e])
      /\ Formed(inbox'["leecher"])
  BY <1>0, <1>3, <1>4, LeecherTakes
<1>6. at["seeder"] \in {"serve", "over"}
  <2>1. Unchokes(inbox["leecher"])
    BY <1>0, <1>4, <1>5, RestOf DEF Unchokes
  <2> QED
    BY <1>0, <2>1 DEF Lockstep
<1>7. IsSeq(inbox["leecher"]) /\ IsSeq(inbox["seeder"]) /\ Free(inbox'["leecher"])
  BY <1>0, <1>1, <1>5, FreeRest DEF Ends
<1>8. IF Intact("leecher") THEN Single(inbox'["seeder"], "Request", 0) ELSE Free(inbox'["seeder"])
  BY <1>1, <1>3, <1>5, <1>7, SingleMore
<1>9. Intact("leecher")' = Intact("leecher") /\ Len(pieces') = 0
  BY <1>0, <1>1, <1>2 DEF Intact
<1>10. Intact("leecher") => ~Free(inbox'["seeder"])
  BY <1>8 DEF Single, Free, Carries
<1>11. Wired'
  BY <1>0, <1>2, <1>5 DEF Wired
<1>12. Lockstep'
  BY <1>2, <1>6, <1>7, <1>8, <1>9, <1>10 DEF Lockstep, Underway
<1> QED
  BY <1>0, <1>11, <1>12 DEF TransferSound, InOrder

LEMMA PieceSound ==
    ASSUME TransferSound, NEW m, OnPiece(m)
    PROVE  TransferSound'
<1> DEFINE n == Len(pieces)
           new == [index |-> m.index, data |-> m.data]
           last == <<Have(m.index)>>
           more == <<Have(m.index), Request(n + 1)>>
<1>0. /\ Wired /\ Lockstep /\ InOrder /\ up' = up /\ "leecher" \in Ends /\ Other("leecher") = "seeder"
      /\ IsSeq(pieces) /\ n \in Nat /\ DOMAIN pieces = 1 .. n
  BY DEF TransferSound, OnPiece, Ends, Other, Wired, IsSeq
<1>1. /\ at["leecher"] = "piece" /\ m.type = "Piece"
      /\ Underway(inbox["leecher"], inbox["seeder"], n) /\ at["seeder"] \in {"serve", "over"}
  BY <1>0 DEF OnPiece, Acceptable, Lockstep
<1>2. pieces' = Append(pieces, new)
  BY DEF OnPiece
<1> HIDE DEF new
<1>3. IsSeq(pieces') /\ Len(pieces') = n + 1 /\ DOMAIN pieces' = 1 .. n + 1
      /\ pieces'[n + 1] = new /\ \A k \in 1 .. n : pieces'[k] = pieces[k]
  <2> DEFINE S == ToSet(pieces) \cup {new}
  <2>1. pieces \in Seq(S) /\ new \in S
    BY <1>0 DEF IsSeq
  <2> HIDE DEF S
  <2>2. /\ pieces' \in Seq(S) /\ Len(pieces') = n + 1 /\ DOMAIN pieces' = 1 .. n + 1
        /\ pieces'[n + 1] = new /\ \A k \in 1 .. n : pieces'[k] = pieces[k]
    BY <1>2, <2>1
  <2>3. IsSeq(pieces')
    BY <2>2, AnySeq
  <2> QED
    BY <2>2, <2>3
<1>4. \/ LastPiece(pieces') /\ Exchanges("leecher", m, last) /\ Moves("leecher", "write")
      \/ Exchanges("leecher", m, more) /\ at' = at
  BY <1>3 DEF OnPiece
<1>5. IsSeq(last) /\ Free(last) /\ IsSeq(more) /\ Single(more, "Request", n + 1)
  <2>1. last \in Seq({Have(m.index)}) /\ more \in Seq({Have(m.index), Request(n + 1)})
    OBVIOUS
  <2>2. Free(last)
    BY DEF Free, Carries, Have
  <2>3. DOMAIN more = {1, 2} /\ more[1] = Have(m.index) /\ more[2] = Request(n + 1)
    OBVIOUS
  <2>4. Single(more, "Request", n + 1)
    BY <2>3 DEF Single, Carries, Have, Request
  <2> QED
    BY <2>1, <2>2, <2>4, AnySeq
<1> HIDE DEF last, more
<1>6. PICK messages \in {last, more} :
        /\ Exchanges("leecher", m, messages)
        /\ \/ messages = last /\ Moves("leecher", "write")
           \/ messages = more /\ at' = at
  BY <1>4
<1>7. /\ inbox["leecher"] # <<>> /\ m = Head(inbox["leecher"])
      /\ inbox'["leecher"] = Tail(inbox["leecher"])
      /\ inbox'["seeder"] = IF Intact("leecher") THEN inbox["seeder"] \o messages ELSE inbox["seeder"]
      /\ inbox' = [e \in Ends |-> inbox'[e]] /\ \A e \in Ends : IsSeq(inbox[e]) /\ IsSeq(inbox'[e])
      /\ Formed(inbox'["leecher"])
  BY <1>0, <1>5, <1>6, LeecherTakes
<1>8. IsSeq(inbox["leecher"]) /\ IsSeq(inbox["seeder"])
  BY <1>7 DEF Ends
<1>9. m.index = n /\ Free(inbox'["leecher"]) /\ Free(inbox["seeder"])
  <2>1. ~Free(inbox["leecher"])
    BY <1>1, <1>7, <1>8, FreeRest DEF Carries
  <2>2. Single(inbox["leecher"], "Piece", n) /\ Free(inbox["seeder"])
    BY <1>1, <2>1 DEF Underway
  <2> QED
    BY <1>1, <1>7, <1>8, <2>2, SingleRest DEF Carries
<1>10. InOrder'
  <2>1. new.index = n
    BY <1>9 DEF new
  <2>2. ASSUME NEW k \in DOMAIN pieces' PROVE pieces'[k].index = k - 1
    BY <1>0, <1>3, <2>1, <2>2 DEF InOrder
  <2> QED
    BY <2>2 DEF InOrder
<1>11. CASE messages = last /\ Moves("leecher", "write")
  <2>1. /\ at'["leecher"] = "write" /\ at'["seeder"] = at["seeder"]
        /\ at' = [x \in Ends |-> at'[x]] /\ \A x \in Ends : at'[x] \in Places[x]
    <3>1. "write" \in Places["leecher"]
      BY DEF Places
    <3> QED
      BY <1>0, <1>11, <3>1, MovesOf
  <2>2. Free(inbox'["seeder"])
    BY <1>5, <1>7, <1>8, <1>9, <1>11, FreeMore
  <2>3. Wired'
    BY <1>3, <1>7, <2>1 DEF Wired
  <2>4. Lockstep'
    BY <1>1, <1>9, <2>1, <2>2 DEF Lockstep
  <2> QED
    BY <1>10, <2>3, <2>4 DEF TransferSound
<1>12. CASE messages = more /\ at' = at
  <2>1. IF Intact("leecher") THEN Single(inbox'["seeder"], "Request", n + 1) ELSE Free(inbox'["seeder"])
    BY <1>5, <1>7, <1>8, <1>9, <1>12, SingleMore
  <2>2. Intact("leecher") => ~Free(inbox'["seeder"])
    BY <2>1 DEF Single, Free, Carries
  <2>3. Intact("leecher")' = Intact("leecher")
    BY <1>0, <1>12 DEF Intact
  <2>4. Wired'
    BY <1>0, <1>3, <1>7, <1>12 DEF Wired
  <2>5. Lockstep'
    BY <1>1, <1>3, <1>9, <1>12, <2>1, <2>2, <2>3 DEF Lockstep, Underway
  <2> QED
    BY <1>10, <2>4, <2>5 DEF TransferSound
<1> QED
  BY <1>6, <1>11, <1>12

\* An end gives up and forgets what it had not read.
LEMMA DropSound ==
    ASSUME TransferSound, NEW e \in Ends, Drops(e)
    PROVE  TransferSound'
<1>0. /\ Wired /\ Lockstep /\ InOrder /\ pieces' = pieces /\ up' = up
      /\ Moves(e, "over") /\ inbox' = [inbox EXCEPT ![e] = <<>>]
  BY DEF TransferSound, Drops
<1>1. /\ at'[e] = "over" /\ at'[Other(e)] = at[Other(e)]
      /\ at' = [x \in Ends |-> at'[x]] /\ \A x \in Ends : at'[x] \in Places[x]
  <2>1. "over" \in Places[e]
    BY DEF Places, Ends
  <2> QED
    BY <1>0, <2>1, MovesOf
<1>2. IsSeq(<<>>) /\ Free(<<>>) /\ Formed(<<>>) /\ ~Unchokes(<<>>)
  <2>1. <<>> \in Seq({})
    OBVIOUS
  <2>2. IsSeq(<<>>)
    BY <2>1, AnySeq
  <2>3. DOMAIN <<>> = {}
    OBVIOUS
  <2> QED
    BY <2>2, <2>3 DEF Free, Formed, Unchokes
<1>3. Other(e) \in Ends /\ Other(e) # e /\ \A x \in Ends : x = e \/ x = Other(e)
  BY DEF Ends, Other
<1>4. inbox' = [x \in Ends |-> inbox'[x]] /\ inbox'[e] = <<>> /\ inbox'[Other(e)] = inbox[Other(e)]
  BY <1>0, <1>3 DEF Wired
<1>5. Wired'
  <2>1. \A x \in Ends : IsSeq(inbox'[x])
    BY <1>0, <1>2, <1>3, <1>4 DEF Wired
  <2>2. Formed(inbox'["leecher"])
    BY <1>0, <1>2, <1>3, <1>4 DEF Wired, Ends
  <2> QED
    BY <1>0, <1>1, <1>4, <2>1, <2>2 DEF Wired
<1>6. Lockstep'
  <2>1. CASE e = "leecher"
    BY <1>1, <1>2, <1>4, <2>1 DEF Lockstep
  <2>2. CASE e = "seeder"
    <3>1. /\ at'["seeder"] = "over" /\ at'["leecher"] = at["leecher"]
          /\ inbox'["seeder"] = <<>> /\ inbox'["leecher"] = inbox["leecher"]
      BY <1>1, <1>4, <2>2 DEF Other
    <3>2. ~Intact("leecher")'
      BY <3>1 DEF Intact, Other
    <3>3. at["leecher"] = "piece" => Underway(inbox["leecher"], <<>>, Len(pieces))
      BY <1>0, <1>2 DEF Lockstep, Underway
    <3> QED
      BY <1>0, <1>2, <3>1, <3>2, <3>3 DEF Lockstep
  <2> QED
    BY <2>1, <2>2 DEF Ends
<1> QED
  BY <1>0, <1>5, <1>6 DEF TransferSound, InOrder

LEMMA WriteSound ==
    ASSUME TransferSound, WriteFile
    PROVE  TransferSound'
<1>0. /\ Wired /\ Lockstep /\ InOrder /\ pieces' = pieces /\ up' = up /\ inbox' = inbox
      /\ Moves("leecher", "return") /\ at["leecher"] = "write"
  BY DEF TransferSound, WriteFile, wire
<1>1. /\ at'["leecher"] = "return" /\ at'["seeder"] = at["seeder"]
      /\ at' = [x \in Ends |-> at'[x]] /\ \A x \in Ends : at'[x] \in Places[x]
  <2>1. "return" \in Places["leecher"] /\ "leecher" \in Ends /\ Other("leecher") = "seeder"
    BY DEF Places, Ends, Other
  <2> QED
    BY <1>0, <2>1, MovesOf
<1>2. Wired'
  BY <1>0, <1>1 DEF Wired
<1>3. Lockstep'
  BY <1>0, <1>1 DEF Lockstep
<1> QED
  BY <1>0, <1>2, <1>3 DEF TransferSound, InOrder

----------------------------------------------------------------------------
(* The steps of the seeder *)

\* Before it serves nobody has asked it for a piece.
LEMMA NotAskedYet ==
    ASSUME TransferSound, at["seeder"] \notin {"serve", "over"}
    PROVE  /\ at["leecher"] \in {"connect", "handshake", "bitfield", "unchoke", "over"}
           /\ ~Unchokes(inbox["leecher"])
           /\ at["leecher"] # "over" => Free(inbox["leecher"]) /\ Free(inbox["seeder"]) /\ pieces = <<>>
<1>1. at["leecher"] \in Places["leecher"]
  BY DEF TransferSound, Wired, Ends
<1> QED
  BY <1>1 DEF TransferSound, Lockstep, Places

LEMMA PreparesSound ==
    ASSUME TransferSound, NEW m, OnHello(m) \/ OnTheirBitfield(m) \/ OnInterested(m)
    PROVE  TransferSound'
<1>0. Wired /\ Lockstep /\ InOrder /\ pieces' = pieces /\ up' = up /\ "seeder" \in Ends /\ Other("seeder") = "leecher"
  BY DEF TransferSound, OnHello, OnTheirBitfield, OnInterested, Ends, Other
<1>1. at["seeder"] \notin {"serve", "over"}
  BY DEF OnHello, OnTheirBitfield, OnInterested
<1>2. /\ at["leecher"] \in {"connect", "handshake", "bitfield", "unchoke", "over"}
      /\ ~Unchokes(inbox["leecher"])
      /\ at["leecher"] # "over" => Free(inbox["leecher"]) /\ Free(inbox["seeder"]) /\ pieces = <<>>
  BY <1>1, NotAskedYet
<1> DEFINE hello == <<Handshake(InfoHash(have)), BitfieldOf(Bitfield(have))>>
           unchoke == <<Plain("Unchoke")>>
<1>3. \E messages, there :
         /\ Exchanges("seeder", m, messages) /\ Moves("seeder", there)
         /\ \/ messages \in {hello, <<>>} /\ there \in {"bitfield", "interested"}
            \/ messages = unchoke /\ there = "serve"
  BY DEF OnHello, OnTheirBitfield, OnInterested
<1>4. PICK messages, there :
         /\ Exchanges("seeder", m, messages) /\ Moves("seeder", there)
         /\ \/ messages \in {hello, <<>>} /\ there \in {"bitfield", "interested"}
            \/ messages = unchoke /\ there = "serve"
  BY <1>3
<1>5. /\ \A u \in {hello, <<>>, unchoke} : IsSeq(u) /\ Free(u) /\ Formed(u)
      /\ \A u \in {hello, <<>>} : ~Unchokes(u)
  <2>1. <<>> \in Seq({}) /\ DOMAIN <<>> = {}
    OBVIOUS
  <2>2. hello \in Seq({Handshake(InfoHash(have)), BitfieldOf(Bitfield(have))}) /\ DOMAIN hello = {1, 2}
    OBVIOUS
  <2>3. unchoke \in Seq({Plain("Unchoke")}) /\ DOMAIN unchoke = {1} /\ unchoke[1] = Plain("Unchoke")
    OBVIOUS
  <2>4. hello[1].type = "Handshake" /\ hello[2].type = "Bitfield" /\ unchoke[1].type = "Unchoke"
    BY <2>3 DEF Handshake, BitfieldOf, Plain
  <2> HIDE DEF hello, unchoke
  <2>5. IsSeq(<<>>) /\ IsSeq(hello) /\ IsSeq(unchoke)
    BY <2>1, <2>2, <2>3, AnySeq
  <2>6. Free(<<>>) /\ Formed(<<>>) /\ ~Unchokes(<<>>)
    BY <2>1 DEF Free, Formed, Unchokes
  <2>7. Free(hello) /\ Formed(hello) /\ ~Unchokes(hello)
    BY <2>2, <2>4 DEF Free, Formed, Unchokes, Carries
  <2>8. Free(unchoke) /\ Formed(unchoke)
    BY <2>3, <2>4 DEF Free, Formed, Carries
  <2> QED
    BY <2>5, <2>6, <2>7, <2>8
<1> HIDE DEF hello, unchoke
<1>6. IsSeq(messages) /\ Free(messages) /\ Formed(messages) /\ (there # "serve" => ~Unchokes(messages))
  BY <1>4, <1>5
<1>7. /\ inbox["seeder"] # <<>>
      /\ inbox'["seeder"] = Tail(inbox["seeder"])
      /\ inbox'["leecher"] = IF Intact("seeder") THEN inbox["leecher"] \o messages ELSE inbox["leecher"]
      /\ inbox' = [e \in Ends |-> inbox'[e]] /\ \A e \in Ends : IsSeq(inbox[e]) /\ IsSeq(inbox'[e])
      /\ Formed(inbox'["leecher"])
      /\ Unchokes(inbox'["leecher"]) => Unchokes(inbox["leecher"]) \/ Unchokes(messages)
  BY <1>0, <1>4, <1>6, SeederTakes
<1>8. /\ at'["seeder"] = there /\ at'["leecher"] = at["leecher"]
      /\ at' = [x \in Ends |-> at'[x]] /\ \A x \in Ends : at'[x] \in Places[x]
  <2>1. there \in Places["seeder"]
    BY <1>4 DEF Places
  <2> QED
    BY <1>0, <1>4, <2>1, MovesOf
<1>9. IsSeq(inbox["leecher"]) /\ IsSeq(inbox["seeder"])
  BY <1>7 DEF Ends
<1>10. at["leecher"] # "over" => Free(inbox'["leecher"]) /\ Free(inbox'["seeder"])
  BY <1>2, <1>6, <1>7, <1>9, FreeRest, FreeMore
<1>11. Wired'
  BY <1>0, <1>7, <1>8 DEF Wired
<1>12. Unchokes(inbox'["leecher"]) => there = "serve"
  BY <1>2, <1>6, <1>7
<1>13. Lockstep'
  BY <1>0, <1>2, <1>8, <1>10, <1>12 DEF Lockstep
<1> QED
  BY <1>0, <1>11, <1>13 DEF TransferSound, InOrder

LEMMA RequestSound ==
    ASSUME TransferSound, NEW m, OnRequest(m)
    PROVE  TransferSound'
<1> DEFINE u == Answers(m)
<1>0. /\ Wired /\ Lockstep /\ InOrder /\ pieces' = pieces /\ up' = up /\ at' = at
      /\ at["seeder"] = "serve" /\ m.type = "Request" /\ Exchanges("seeder", m, u)
  BY DEF TransferSound, OnRequest
<1>1. IsSeq(u) /\ Formed(u) /\ ~Unchokes(u) /\ Single(u, "Piece", m.index)
  <2>1. u \in Seq({Served(m.index)}) /\ DOMAIN u = {1} /\ u[1] = Served(m.index)
    BY DEF Answers
  <2>2. Served(m.index).type = "Piece" /\ Served(m.index).index = m.index
        /\ {"type", "index", "proof"} \subseteq DOMAIN Served(m.index)
    BY DEF Served, Piece
  <2> HIDE DEF u
  <2>3. Formed(u) /\ ~Unchokes(u) /\ Single(u, "Piece", m.index)
    BY <2>1, <2>2 DEF Formed, Unchokes, Single
  <2> QED
    BY <2>1, <2>3, AnySeq
<1> HIDE DEF u
<1>2. /\ inbox["seeder"] # <<>> /\ m = Head(inbox["seeder"])
      /\ inbox'["seeder"] = Tail(inbox["seeder"])
      /\ inbox'["leecher"] = IF Intact("seeder") THEN inbox["leecher"] \o u ELSE inbox["leecher"]
      /\ inbox' = [e \in Ends |-> inbox'[e]] /\ \A e \in Ends : IsSeq(inbox[e]) /\ IsSeq(inbox'[e])
      /\ Formed(inbox'["leecher"])
      /\ Unchokes(inbox'["leecher"]) => Unchokes(inbox["leecher"]) \/ Unchokes(u)
  BY <1>0, <1>1, SeederTakes
<1>3. IsSeq(inbox["leecher"]) /\ IsSeq(inbox["seeder"])
  BY <1>2 DEF Ends
<1>4. ~Free(inbox["seeder"])
  BY <1>0, <1>2, <1>3, FreeRest DEF Carries
<1>5. at["leecher"] \in {"piece", "over"}
  <2>1. at["leecher"] \in Places["leecher"]
    BY <1>0 DEF Wired, Ends
  <2> QED
    BY <1>0, <1>4, <2>1 DEF Lockstep, Places
<1>6. Wired'
  BY <1>0, <1>2 DEF Wired
<1>7. CASE at["leecher"] = "over"
  BY <1>0, <1>6, <1>7 DEF Lockstep, TransferSound, InOrder
<1>8. CASE at["leecher"] = "piece"
  <2>1. Single(inbox["seeder"], "Request", Len(pieces)) /\ Free(inbox["leecher"])
    BY <1>0, <1>4, <1>8 DEF Lockstep, Underway
  <2>2. m.index = Len(pieces) /\ Free(inbox'["seeder"])
    BY <1>0, <1>2, <1>3, <2>1, SingleRest DEF Carries
  <2>3. IF Intact("seeder") THEN Single(inbox'["leecher"], "Piece", Len(pieces)) ELSE Free(inbox'["leecher"])
    BY <1>1, <1>2, <1>3, <2>1, <2>2, SingleMore
  <2>4. Intact("seeder") => ~Free(inbox'["leecher"])
    BY <2>3 DEF Single, Free, Carries
  <2>5. Intact("leecher")' => Intact("seeder")
    BY <1>0, <1>8 DEF Intact, Other
  <2>6. Lockstep'
    BY <1>0, <1>8, <2>2, <2>3, <2>4, <2>5 DEF Lockstep, Underway
  <2> QED
    BY <1>0, <1>6, <2>6 DEF TransferSound, InOrder
<1> QED
  BY <1>5, <1>7, <1>8

LEMMA IgnoreSound ==
    ASSUME TransferSound, NEW m, Ignore(m)
    PROVE  TransferSound'
<1>0. /\ Wired /\ Lockstep /\ InOrder /\ pieces' = pieces /\ up' = up /\ at' = at
      /\ at["seeder"] \in {"interested", "serve"} /\ Exchanges("seeder", m, <<>>)
      /\ at["seeder"] = "serve" => m.type # "Request"
  BY DEF TransferSound, Ignore
<1>1. IsSeq(<<>>) /\ Formed(<<>>) /\ ~Unchokes(<<>>) /\ Free(<<>>)
  <2>1. <<>> \in Seq({}) /\ DOMAIN <<>> = {}
    OBVIOUS
  <2>2. IsSeq(<<>>)
    BY <2>1, AnySeq
  <2> QED
    BY <2>1, <2>2 DEF Free, Formed, Unchokes
<1>2. /\ inbox["seeder"] # <<>> /\ m = Head(inbox["seeder"])
      /\ inbox'["seeder"] = Tail(inbox["seeder"])
      /\ inbox'["leecher"] = IF Intact("seeder") THEN inbox["leecher"] \o <<>> ELSE inbox["leecher"]
      /\ inbox' = [e \in Ends |-> inbox'[e]] /\ \A e \in Ends : IsSeq(inbox[e]) /\ IsSeq(inbox'[e])
      /\ Formed(inbox'["leecher"])
      /\ Unchokes(inbox'["leecher"]) => Unchokes(inbox["leecher"]) \/ Unchokes(<<>>)
  BY <1>0, <1>1, SeederTakes
<1>3. IsSeq(inbox["leecher"]) /\ IsSeq(inbox["seeder"])
  BY <1>2 DEF Ends
<1>4. inbox'["leecher"] = inbox["leecher"]
  BY <1>2, <1>3 DEF IsSeq
<1>5. Wired'
  BY <1>0, <1>2 DEF Wired
<1>6. CASE at["seeder"] = "interested"
  <2>1. /\ at["leecher"] \in {"connect", "handshake", "bitfield", "unchoke", "over"}
        /\ ~Unchokes(inbox["leecher"])
        /\ at["leecher"] # "over" => Free(inbox["leecher"]) /\ Free(inbox["seeder"]) /\ pieces = <<>>
    BY <1>6, NotAskedYet
  <2>2. at["leecher"] # "over" => Free(inbox'["seeder"])
    BY <1>2, <1>3, <2>1, FreeRest
  <2>3. Lockstep'
    BY <1>0, <1>4, <2>1, <2>2 DEF Lockstep
  <2> QED
    BY <1>0, <1>5, <2>3 DEF TransferSound, InOrder
<1>7. CASE at["seeder"] = "serve"
  <2>1. Free(inbox["seeder"]) => Free(inbox'["seeder"])
    BY <1>2, <1>3, FreeRest
  <2>2. \A i : Single(inbox["seeder"], "Request", i) => Single(inbox'["seeder"], "Request", i)
    BY <1>0, <1>2, <1>3, <1>7, SingleRest
  <2>3. \A i : Single(inbox'["seeder"], "Request", i) => ~Free(inbox'["seeder"])
    BY DEF Single, Free, Carries
  <2>4. Intact("leecher")' = Intact("leecher")
    BY <1>0 DEF Intact
  <2>5. Lockstep'
    BY <1>0, <1>4, <1>7, <2>1, <2>2, <2>3, <2>4 DEF Lockstep, Underway
  <2> QED
    BY <1>0, <1>5, <2>5 DEF TransferSound, InOrder
<1> QED
  BY <1>0, <1>6, <1>7

----------------------------------------------------------------------------
(* The steps of the network *)

LEMMA BreakSound ==
    ASSUME TransferSound, Break
    PROVE  TransferSound'
<1>0. /\ Wired /\ Lockstep /\ InOrder /\ pieces' = pieces /\ up' = FALSE /\ at' = at
  BY DEF TransferSound, Break
<1>1. PICK l \in Prefixes(inbox["leecher"]), s \in Prefixes(inbox["seeder"]) :
          inbox' = [leecher |-> l, seeder |-> s]
  BY DEF Break
<1>2. inbox'["leecher"] = l /\ inbox'["seeder"] = s /\ inbox' = [e \in Ends |-> inbox'[e]]
  BY <1>1 DEF Ends
<1>3. IsSeq(inbox["leecher"]) /\ IsSeq(inbox["seeder"])
  BY <1>0 DEF Wired, Ends
<1>4. IsSeq(l) /\ \A k \in DOMAIN l : k \in DOMAIN inbox["leecher"] /\ l[k] = inbox["leecher"][k]
  BY <1>3, PrefixOf
<1>5. IsSeq(s) /\ \A k \in DOMAIN s : k \in DOMAIN inbox["seeder"] /\ s[k] = inbox["seeder"][k]
  BY <1>3, PrefixOf
<1>6. Wired'
  <2>1. Formed(l)
    BY <1>0, <1>4 DEF Wired, Formed
  <2>2. \A e \in Ends : IsSeq(inbox'[e])
    BY <1>2, <1>4, <1>5 DEF Ends
  <2> QED
    BY <1>0, <1>2, <2>1, <2>2 DEF Wired
<1>7. /\ Free(inbox["leecher"]) => Free(l)
      /\ Free(inbox["seeder"]) => Free(s)
      /\ Unchokes(l) => Unchokes(inbox["leecher"])
  BY <1>4, <1>5 DEF Free, Unchokes
<1>8. /\ Single(inbox["leecher"], "Piece", Len(pieces)) => Free(l) \/ Single(l, "Piece", Len(pieces))
      /\ Single(inbox["seeder"], "Request", Len(pieces)) => Free(s) \/ Single(s, "Request", Len(pieces))
  BY <1>4, <1>5, SingleKept
<1>9. ~Intact("leecher")'
  BY <1>0 DEF Intact
<1>10. at["leecher"] = "piece" => Underway(l, s, Len(pieces))
  <2> SUFFICES ASSUME at["leecher"] = "piece" PROVE Underway(l, s, Len(pieces))
    OBVIOUS
  <2>1. Underway(inbox["leecher"], inbox["seeder"], Len(pieces))
    BY <1>0 DEF Lockstep
  <2> QED
    BY <1>7, <1>8, <2>1 DEF Underway
<1>11. Lockstep'
  BY <1>0, <1>2, <1>7, <1>9, <1>10 DEF Lockstep
<1> QED
  BY <1>0, <1>6, <1>11 DEF TransferSound, InOrder

LEMMA DamageSound ==
    ASSUME TransferSound, Damage
    PROVE  TransferSound'
<1> DEFINE l == inbox["leecher"]
<1>0. /\ Wired /\ Lockstep /\ InOrder /\ pieces' = pieces /\ up' = up /\ at' = at
  BY DEF TransferSound, Damage
<1>1. PICK k \in DOMAIN l : l[k].type = "Piece" /\ inbox' = [inbox EXCEPT !["leecher"][k].data[1] = 0]
  BY DEF Damage
<1> DEFINE bad == [l[k] EXCEPT !.data[1] = 0]
           d == [l EXCEPT ![k] = bad]
<1>2. inbox'["leecher"] = d /\ inbox'["seeder"] = inbox["seeder"] /\ inbox' = [e \in Ends |-> inbox'[e]]
  BY <1>0, <1>1 DEF Wired, Ends
<1>3. IsSeq(l) /\ Formed(l)
  BY <1>0 DEF Wired, Ends
<1> HIDE DEF l
<1>4. bad.type = l[k].type /\ bad.index = l[k].index /\ DOMAIN bad = DOMAIN l[k]
  <2>1. "type" \in DOMAIN l[k] /\ "index" \in DOMAIN l[k]
    BY <1>1, <1>3 DEF Formed
  <2> QED
    BY <2>1
<1> HIDE DEF bad
<1>5. IsSeq(d) /\ DOMAIN d = DOMAIN l /\ \A j \in DOMAIN l : d[j] = IF j = k THEN bad ELSE l[j]
  <2> DEFINE S == ToSet(l) \cup {bad}
  <2>1. l \in Seq(S) /\ bad \in S
    BY <1>3 DEF IsSeq
  <2> HIDE DEF S
  <2>2. d \in Seq(S) /\ DOMAIN d = DOMAIN l /\ \A j \in DOMAIN l : d[j] = IF j = k THEN bad ELSE l[j]
    BY <2>1
  <2> HIDE DEF d
  <2> QED
    BY <2>2, AnySeq
<1> HIDE DEF d
<1>6. \A j \in DOMAIN l : d[j].type = l[j].type /\ d[j].index = l[j].index /\ DOMAIN d[j] = DOMAIN l[j]
  BY <1>4, <1>5
<1>7. Formed(d)
  BY <1>3, <1>5, <1>6 DEF Formed
<1>8. (Free(d) <=> Free(l)) /\ (Unchokes(d) => Unchokes(l)) /\ \A i : Single(l, "Piece", i) => Single(d, "Piece", i)
  BY <1>5, <1>6 DEF Free, Unchokes, Single, Carries
<1>9. Wired'
  <2>1. \A e \in Ends : IsSeq(inbox'[e])
    BY <1>0, <1>2, <1>5 DEF Wired, Ends
  <2> QED
    BY <1>0, <1>2, <1>7, <2>1 DEF Wired
<1>10. Lockstep'
  <2>1. Intact("leecher")' = Intact("leecher")
    BY <1>0 DEF Intact
  <2> QED
    BY <1>0, <1>2, <1>8, <2>1 DEF Lockstep, Underway, l
<1> QED
  BY <1>0, <1>9, <1>10 DEF TransferSound, InOrder

----------------------------------------------------------------------------
(* The specification *)

LEMMA NextSound == TransferSound /\ [Next]_vars => TransferSound'
<1> SUFFICES ASSUME TransferSound, [Next]_vars PROVE TransferSound'
  OBVIOUS
<1>0. "leecher" \in Ends /\ "seeder" \in Ends
  BY DEF Ends
<1>1. CASE LeecherStep
  <2>1. CASE Connect \/ \E m : OnHandshake(m) \/ OnBitfield(m)
    BY <2>1, BeforePieces
  <2>2. CASE Refuse \/ LoseSeeder \/ WriteFails \/ Return
    <3>1. Drops("leecher")
      BY <2>2 DEF Refuse, LoseSeeder, WriteFails, Return
    <3> QED
      BY <1>0, <3>1, DropSound
  <2> QED
    BY <1>1, <2>1, <2>2, UnchokeSound, PieceSound, WriteSound DEF LeecherStep
<1>2. CASE SeederStep
  <2>1. CASE LoseLeecher \/ \E m : TurnAway(m)
    <3>1. Drops("seeder")
      BY <2>1 DEF LoseLeecher, TurnAway
    <3> QED
      BY <1>0, <3>1, DropSound
  <2> QED
    BY <1>2, <2>1, PreparesSound, RequestSound, IgnoreSound DEF SeederStep
<1>3. CASE UNCHANGED vars
  BY <1>3 DEF vars, torrent, wire, disk, TransferSound, Wired, InOrder, Lockstep, Intact
<1> QED
  BY <1>1, <1>2, <1>3, BreakSound, DamageSound DEF Next

\* One piece at a time: what is under way is the request the leecher waits on or its
\* answer, and as long as the connection lives it is not lost.
THEOREM InStepCorrect == Spec => []InStep
<1>1. ASSUME TransferSound PROVE InStep
  <2> DEFINE l == inbox["leecher"]
             s == inbox["seeder"]
             n == Len(pieces)
  <2>1. Lockstep /\ InTransit = {m \in ToSet(l) \cup ToSet(s) : Carries(m)}
    BY <1>1 DEF TransferSound, InTransit, Carries
  <2> HIDE DEF l, s
  <2>2. ASSUME Free(l), Free(s) PROVE InTransit = {}
    BY <2>1, <2>2 DEF Free, ToSet
  <2>3. ASSUME NEW t \in {"Piece", "Request"}, NEW x, NEW y, Single(x, t, n), Free(y), {x, y} = {l, s}
        PROVE  InTransit # {} /\ \A m \in InTransit : m.index = n
    <3>1. PICK k \in DOMAIN x : /\ x[k].type = t /\ x[k].index = n
                               /\ \A j \in DOMAIN x : j # k => ~Carries(x[j])
      BY <2>3 DEF Single
    <3>2. InTransit = {m \in ToSet(x) \cup ToSet(y) : Carries(m)}
      <4>1. (x = l /\ y = s) \/ (x = s /\ y = l)
        BY <2>3
      <4>2. ToSet(x) \cup ToSet(y) = ToSet(l) \cup ToSet(s)
        BY <4>1
      <4> QED
        BY <2>1, <4>2
    <3>3. x[k] \in InTransit
      BY <3>1, <3>2 DEF Carries, ToSet
    <3>4. \A m \in InTransit : m = x[k]
      BY <2>3, <3>1, <3>2 DEF Free, ToSet
    <3> QED
      BY <3>1, <3>3, <3>4
  <2>4. at["leecher"] = "piece" => Underway(l, s, n) /\ (Intact("leecher") => ~(Free(l) /\ Free(s)))
    BY <2>1 DEF Lockstep, l, s
  <2>5. at["leecher"] = "piece" =>
            /\ \A m \in InTransit : m.index = n
            /\ Intact("leecher") => InTransit # {}
    <3> SUFFICES ASSUME at["leecher"] = "piece" 
                 PROVE  /\ \A m \in InTransit : m.index = n
                        /\ Intact("leecher") => InTransit # {}
      OBVIOUS
    <3>1. CASE Free(l) /\ Free(s)
      BY <2>2, <2>4, <3>1
    <3>2. CASE Single(l, "Piece", n) /\ Free(s)
      BY <2>3, <3>2
    <3>3. CASE Single(s, "Request", n) /\ Free(l)
      BY <2>3, <3>3
    <3> QED
      BY <2>4, <3>1, <3>2, <3>3 DEF Underway
  <2>6. at["leecher"] \in {"write", "return"} => InTransit = {}
    BY <2>1, <2>2 DEF Lockstep, l, s
  <2> QED
    BY <2>5, <2>6 DEF InStep
<1>2. TransferSound => InStep
  BY <1>1
<1> QED
  BY <1>2, InitSound, NextSound, PTL DEF Spec

\* The leecher accepts every piece once and in the order of the file.
THEOREM InOrderCorrect == Spec => []InOrder
<1>1. TransferSound => InOrder
  BY DEF TransferSound
<1> QED
  BY <1>1, InitSound, NextSound, PTL DEF Spec

\* Two that meet with different torrents never come past the handshake.
Strangers ==
    want # InfoHash(have) =>
        /\ at["leecher"] \in {"connect", "handshake", "over"} /\ at["seeder"] \in {"handshake", "over"}
        /\ \A e \in Ends : state[e] = "Handshaking"
        /\ inbox["leecher"] = <<>> /\ \A k \in DOMAIN inbox["seeder"] : inbox["seeder"][k] = Handshake(want)
        /\ pieces = <<>> /\ outcome # "ok"

LEMMA InitStrangers == Init => Strangers
BY DEF Init, Strangers, Ends

LEMMA NextStrangers == TransferSound /\ Strangers /\ [Next]_vars => Strangers'
<1> SUFFICES ASSUME TransferSound, Strangers, [Next]_vars, (want # InfoHash(have))' PROVE Strangers'
  BY DEF Strangers
<1>0. /\ Wired /\ "leecher" \in Ends /\ "seeder" \in Ends /\ "leecher" # "seeder"
      /\ IsSeq(inbox["leecher"]) /\ IsSeq(inbox["seeder"])
  BY DEF TransferSound, Wired, Ends
<1>1. UNCHANGED <<want, have>>
  BY DEF Next, vars, torrent, LeecherStep, SeederStep, Connect, OnHandshake, OnBitfield, OnUnchoke, OnPiece,
         Refuse, LoseSeeder, WriteFile, WriteFails, Return, Drops, OnHello, TurnAway, OnTheirBitfield,
         OnInterested, OnRequest, Ignore, LoseLeecher, Break, Damage
<1>2. /\ at["leecher"] \in {"connect", "handshake", "over"} /\ at["seeder"] \in {"handshake", "over"}
      /\ \A e \in Ends : state[e] = "Handshaking"
      /\ inbox["leecher"] = <<>> /\ \A k \in DOMAIN inbox["seeder"] : inbox["seeder"][k] = Handshake(want)
      /\ pieces = <<>> /\ outcome # "ok" /\ want # InfoHash(have)
  BY <1>1 DEF Strangers
<1> DEFINE Kept == /\ at'["leecher"] \in {"connect", "handshake", "over"} /\ at'["seeder"] \in {"handshake", "over"}
                   /\ inbox'["leecher"] = <<>>
                   /\ \A k \in DOMAIN inbox'["seeder"] : inbox'["seeder"][k] = Handshake(want)
                   /\ state' = state /\ pieces' = pieces /\ outcome' # "ok"
<1>3. Kept => Strangers'
  BY <1>1, <1>2 DEF Strangers, Ends
<1>4. CASE Connect
  <2> DEFINE hello == <<Handshake(want)>>
  <2>1. Moves("leecher", "handshake") /\ state' = state /\ pieces' = pieces /\ outcome' = outcome
    BY <1>4 DEF Connect, disk
  <2>2. at'["leecher"] = "handshake" /\ at'["seeder"] = at["seeder"]
    BY <1>0, <2>1 DEF Moves, Wired
  <2>3. /\ inbox'["leecher"] = inbox["leecher"]
        /\ inbox'["seeder"] = inbox["seeder"] \/ inbox'["seeder"] = inbox["seeder"] \o hello
    BY <1>0, <1>4 DEF Connect, Sends, Other, Wired
  <2>4. hello \in Seq({Handshake(want)}) /\ \A k \in DOMAIN hello : hello[k] = Handshake(want)
    OBVIOUS
  <2> HIDE DEF hello
  <2>5. \A k \in DOMAIN inbox'["seeder"] : inbox'["seeder"][k] = Handshake(want)
    <3>1. IsSeq(hello)
      BY <2>4, AnySeq
    <3>2. CASE inbox'["seeder"] = inbox["seeder"] \o hello
      <4> SUFFICES ASSUME NEW k \in DOMAIN (inbox["seeder"] \o hello)
                   PROVE  (inbox["seeder"] \o hello)[k] = Handshake(want)
        BY <3>2
      <4>1. \/ k \in DOMAIN inbox["seeder"] /\ (inbox["seeder"] \o hello)[k] = inbox["seeder"][k]
            \/ k - Len(inbox["seeder"]) \in DOMAIN hello
               /\ (inbox["seeder"] \o hello)[k] = hello[k - Len(inbox["seeder"])]
        BY <1>0, <3>1, MoreOf
      <4> QED
        BY <1>2, <2>4, <4>1
    <3> QED
      BY <1>2, <2>3, <3>2
  <2> QED
    BY <1>2, <1>3, <2>1, <2>2, <2>3, <2>5
<1>5. ASSUME NEW e \in Ends, Drops(e), outcome' # "ok" PROVE Strangers'
  <2>1. /\ at' = [at EXCEPT ![e] = "over"] /\ inbox' = [inbox EXCEPT ![e] = <<>>]
        /\ state' = state /\ pieces' = pieces
    BY <1>5 DEF Drops, Moves
  <2>2. at'["leecher"] \in {at["leecher"], "over"} /\ at'["seeder"] \in {at["seeder"], "over"}
    BY <1>0, <2>1 DEF Wired
  <2>3. inbox'["leecher"] \in {inbox["leecher"], <<>>} /\ inbox'["seeder"] \in {inbox["seeder"], <<>>}
    BY <1>0, <2>1 DEF Wired
  <2> QED
    BY <1>2, <1>3, <1>5, <2>1, <2>2, <2>3
<1>6. CASE LeecherStep
  <2>1. CASE Refuse \/ LoseSeeder
    <3>1. Drops("leecher") /\ outcome' # "ok"
      BY <2>1 DEF Refuse, LoseSeeder
    <3> QED
      BY <1>0, <1>5, <3>1
  <2>2. ~(WriteFile \/ WriteFails \/ Return)
    BY <1>2 DEF WriteFile, WriteFails, Return
  <2> QED
    BY <1>2, <1>4, <1>6, <2>1, <2>2 DEF LeecherStep
<1>7. CASE SeederStep
  <2>1. CASE LoseLeecher \/ \E m : TurnAway(m)
    <3>1. Drops("seeder") /\ outcome' # "ok"
      BY <1>2, <2>1 DEF LoseLeecher, TurnAway
    <3> QED
      BY <1>0, <1>5, <3>1
  <2>2. ASSUME NEW m, OnHello(m) PROVE FALSE
    <3>1. inbox["seeder"] # <<>> /\ m = Head(inbox["seeder"]) /\ m.hash = InfoHash(have)
      BY <2>2 DEF OnHello, Exchanges, Welcome
    <3>2. m = Handshake(want)
      BY <1>0, <1>2, <3>1, RestOf
    <3> QED
      BY <1>2, <3>1, <3>2 DEF Handshake
  <2>3. \A m : ~(OnTheirBitfield(m) \/ OnInterested(m) \/ OnRequest(m) \/ Ignore(m))
    BY <1>2 DEF OnTheirBitfield, OnInterested, OnRequest, Ignore
  <2> QED
    BY <1>7, <2>1, <2>2, <2>3 DEF SeederStep
<1>8. CASE Break
  <2>1. PICK l \in Prefixes(inbox["leecher"]), s \in Prefixes(inbox["seeder"]) :
            inbox' = [leecher |-> l, seeder |-> s]
    BY <1>8 DEF Break
  <2>2. at' = at /\ state' = state /\ pieces' = pieces /\ outcome' = outcome
    BY <1>8 DEF Break, disk
  <2>3. /\ IsSeq(l) /\ \A k \in DOMAIN l : k \in DOMAIN inbox["leecher"]
        /\ \A k \in DOMAIN s : k \in DOMAIN inbox["seeder"] /\ s[k] = inbox["seeder"][k]
    BY <1>0, PrefixOf
  <2>4. l = <<>>
    <3>1. DOMAIN l = {}
      BY <1>2, <2>3
    <3> QED
      BY <2>3, <3>1 DEF IsSeq
  <2> QED
    BY <1>2, <1>3, <2>1, <2>2, <2>3, <2>4
<1>9. CASE Damage
  BY <1>2, <1>9 DEF Damage
<1>10. CASE UNCHANGED vars
  BY <1>2, <1>3, <1>10 DEF vars, torrent, wire, disk
<1> QED
  BY <1>6, <1>7, <1>8, <1>9, <1>10 DEF Next

\* An end that completed its handshake talks to a peer with the same torrent, and nothing
\* but a handshake is ever sent to another one.
THEOREM SameTorrentCorrect == Spec => []SameTorrent
<1>1. ASSUME Strangers PROVE SameTorrent
  <2> SUFFICES ASSUME want # InfoHash(have)
               PROVE  /\ \A e \in Ends : state[e] = "Handshaking"
                      /\ \A e \in Ends : \A m \in ToSet(inbox[e]) : m.type = "Handshake"
                      /\ pieces = <<>> /\ outcome # "ok"
    BY DEF SameTorrent
  <2>1. /\ \A e \in Ends : state[e] = "Handshaking"
        /\ inbox["leecher"] = <<>> /\ \A k \in DOMAIN inbox["seeder"] : inbox["seeder"][k] = Handshake(want)
        /\ pieces = <<>> /\ outcome # "ok"
    BY <1>1 DEF Strangers
  <2>2. \A m \in ToSet(inbox["seeder"]) : m.type = "Handshake"
    BY <2>1 DEF ToSet, Handshake
  <2>3. \A m \in ToSet(inbox["leecher"]) : m.type = "Handshake"
    BY <2>1 DEF ToSet
  <2> QED
    BY <2>1, <2>2, <2>3 DEF Ends
<1>2. Strangers => SameTorrent
  BY <1>1
<1> QED
  BY <1>2, InitSound, NextSound, InitStrangers, NextStrangers, PTL DEF Spec

----------------------------------------------------------------------------
(* What is said is true *)

\* A message under way to end e: requests are for pieces there are, the bitfield is
\* that of the seeder's file, and a piece comes with the proof for its index.
True(e, m) ==
    /\ e = "seeder" /\ m.type = "Request" => m.index \in 0 .. Count - 1
    /\ e = "leecher" /\ m.type = "Bitfield" => m.bits = Bitfield(have)
    /\ e = "leecher" /\ m.type = "Piece" => m.index \in 0 .. Count - 1 /\ m.proof = Proof(Leaves(have), m.index)

Truthful == \A e \in Ends : \A k \in DOMAIN inbox[e] : True(e, inbox[e][k])

\* The leecher expects the pieces the seeder has, holds those it counted up to, each
\* the one of the file, and the file it writes is theirs.
Faithful ==
    /\ have \in Files
    /\ at["leecher"] \in {"unchoke", "piece", "write", "return"} => count = Count
    /\ at["leecher"] = "piece" => Len(pieces) < Count
    /\ at["leecher"] \in {"write", "return"} => Len(pieces) = Count
    /\ \A k \in DOMAIN pieces : pieces[k].data = ReadPiece(have, k - 1)
    /\ at["leecher"] \notin {"return", "over"} => file = <<>>
    /\ at["leecher"] = "return" => file = have
    /\ at["leecher"] # "over" => outcome = "pending"
    /\ outcome = "ok" => file = have

LEMMA FilesAre ==
    ASSUME NEW f \in Files
    PROVE  f \in Seq(Nat) /\ PieceCount(f) = Count /\ PieceSize \in Nat \ {0} /\ Count \in Nat \ {0}
BY ConstantsAssumption

LEMMA InitTruth == Init => Truthful /\ Faithful
<1> SUFFICES ASSUME Init PROVE Truthful /\ Faithful
  OBVIOUS
<1>1. /\ at["leecher"] = "connect" /\ \A e \in Ends : inbox[e] = <<>>
      /\ pieces = <<>> /\ file = <<>> /\ outcome = "pending" /\ have \in Files
  BY DEF Init
<1>2. Truthful
  BY <1>1 DEF Truthful
<1>3. Faithful
  BY <1>1 DEF Faithful
<1> QED
  BY <1>2, <1>3

\* The torrents do not change.
LEMMA TorrentKept ==
    ASSUME [Next]_vars
    PROVE  want' = want /\ have' = have
BY DEF Next, vars, torrent, LeecherStep, SeederStep, Connect, OnHandshake, OnBitfield, OnUnchoke, OnPiece,
       Refuse, LoseSeeder, WriteFile, WriteFails, Return, Drops, OnHello, TurnAway, OnTheirBitfield,
       OnInterested, OnRequest, Ignore, LoseLeecher, Break, Damage

LEMMA TrueTaken ==
    ASSUME Wired, Truthful, have' = have, NEW e \in Ends, NEW m, NEW messages, IsSeq(messages),
           Exchanges(e, m, messages), \A k \in DOMAIN messages : True(Other(e), messages[k])
    PROVE  True(e, m) /\ Truthful'
<1>1. /\ inbox[e] # <<>> /\ m = Head(inbox[e]) /\ inbox'[e] = Tail(inbox[e])
      /\ inbox'[Other(e)] = IF Intact(e) THEN inbox[Other(e)] \o messages ELSE inbox[Other(e)]
  BY ExchangesOf
<1>2. Other(e) \in Ends /\ \A x \in Ends : (x = e \/ x = Other(e)) /\ IsSeq(inbox[x])
  BY DEF Other, Ends, Wired
<1>3. \A x, y : True(x, y)' <=> True(x, y)
  BY DEF True
<1>4. True(e, m) /\ \A k \in DOMAIN inbox'[e] : True(e, inbox'[e][k])
  <2>1. IsSeq(inbox[e])
    BY <1>2
  <2>2. 1 \in DOMAIN inbox[e] /\ m = inbox[e][1]
    BY <1>1, <2>1, RestOf
  <2>3. ASSUME NEW k \in DOMAIN inbox'[e] PROVE True(e, inbox'[e][k])
    <3>1. k + 1 \in DOMAIN inbox[e] /\ inbox'[e][k] = inbox[e][k + 1]
      BY <1>1, <2>1, RestOf
    <3> QED
      BY <3>1 DEF Truthful
  <2> QED
    BY <2>2, <2>3 DEF Truthful
<1>5. ASSUME NEW k \in DOMAIN inbox'[Other(e)] PROVE True(Other(e), inbox'[Other(e)][k])
  <2> DEFINE s == inbox[Other(e)]
  <2>1. IsSeq(s) /\ \A j \in DOMAIN s : True(Other(e), s[j])
    BY <1>2 DEF Truthful
  <2> HIDE DEF s
  <2>2. CASE inbox'[Other(e)] = s
    BY <1>5, <2>1, <2>2
  <2>3. CASE inbox'[Other(e)] = s \o messages
    <3>1. \/ k \in DOMAIN s /\ (s \o messages)[k] = s[k]
          \/ k - Len(s) \in DOMAIN messages /\ (s \o messages)[k] = messages[k - Len(s)]
      BY <1>5, <2>1, <2>3, MoreOf
    <3> QED
      BY <2>1, <2>3, <3>1
  <2> QED
    BY <1>1, <2>2, <2>3 DEF s
<1>6. \A x \in Ends : \A k \in DOMAIN inbox'[x] : True(x, inbox'[x][k])
  BY <1>2, <1>4, <1>5
<1>7. Truthful'
  BY <1>3, <1>6 DEF Truthful
<1> QED
  BY <1>4, <1>7

\* A bitfield of the seeder tells the number of pieces.
LEMMA BitsTell ==
    ASSUME have \in Files, NEW m, m.type = "Bitfield", True("leecher", m)
    PROVE  CountOnes(m.bits) = Count
BY FilesAre, BitsOf DEF True

\* A piece the leecher accepts is the next one of the seeder's file.
LEMMA PieceTells ==
    ASSUME TransferSound, Strangers, Truthful, Faithful, NEW m, OnPiece(m)
    PROVE  /\ m.index = Len(pieces) /\ m.index \in 0 .. Count - 1 /\ m.data = ReadPiece(have, m.index)
           /\ want = InfoHash(have)
<1>0. /\ Wired /\ Lockstep /\ IsSeq(inbox["leecher"]) /\ IsSeq(inbox["seeder"]) /\ have \in Files /\ "leecher" \in Ends
  BY DEF TransferSound, Wired, Ends, Faithful
<1>1. /\ at["leecher"] = "piece" /\ m.type = "Piece" /\ Verify(want, LeafHash(m.data), m.proof)
      /\ inbox["leecher"] # <<>> /\ m = Head(inbox["leecher"])
  BY DEF OnPiece, Acceptable, Exchanges
<1>2. m.index = Len(pieces)
  <2>1. ~Free(inbox["leecher"])
    BY <1>0, <1>1, FreeRest DEF Carries
  <2>2. Single(inbox["leecher"], "Piece", Len(pieces))
    BY <1>0, <1>1, <2>1 DEF Lockstep, Underway
  <2> QED
    BY <1>0, <1>1, <2>2, SingleRest DEF Carries
<1>3. True("leecher", m)
  BY <1>0, <1>1, RestOf DEF Truthful
<1>4. m.index \in 0 .. Count - 1 /\ m.proof = Proof(Leaves(have), m.index)
  BY <1>1, <1>3 DEF True
<1>5. want = InfoHash(have)
  BY <1>1 DEF Strangers
<1>6. have \in Seq(Nat) /\ PieceCount(have) = Count /\ PieceSize \in Nat \ {0}
  BY <1>0, FilesAre
<1>7. m.data = ReadPiece(have, m.index)
  BY <1>1, <1>4, <1>5, <1>6, VerifiedIs
<1> QED
  BY <1>2, <1>4, <1>5, <1>7

LEMMA NextTruth ==
    TransferSound /\ Strangers /\ Truthful /\ Faithful /\ [Next]_vars => Truthful'
<1> SUFFICES ASSUME TransferSound, Strangers, Truthful, Faithful, [Next]_vars PROVE Truthful'
  OBVIOUS
<1>0. /\ Wired /\ have' = have /\ "leecher" \in Ends /\ "seeder" \in Ends
      /\ Other("leecher") = "seeder" /\ Other("seeder") = "leecher"
  BY TorrentKept DEF TransferSound, Ends, Other
<1>1. \A x, y : True(x, y)' <=> True(x, y)
  BY <1>0 DEF True
<1>2. IsSeq(<<>>) /\ DOMAIN <<>> = {}
  <2>1. <<>> \in Seq({}) /\ DOMAIN <<>> = {}
    OBVIOUS
  <2>2. IsSeq(<<>>)
    BY <2>1, AnySeq
  <2> QED
    BY <2>1, <2>2
<1>3. \A e \in Ends : \A m : Exchanges(e, m, <<>>) => Truthful'
  BY <1>0, <1>2, TrueTaken
<1>4. ASSUME NEW e \in Ends, NEW m, NEW a, True(Other(e), a), Exchanges(e, m, <<a>>) PROVE Truthful'
  <2> DEFINE u == <<a>>
  <2>1. u \in Seq({a}) /\ \A k \in DOMAIN u : u[k] = a
    OBVIOUS
  <2>2. Exchanges(e, m, u)
    BY <1>4
  <2> HIDE DEF u
  <2>3. IsSeq(u) /\ \A k \in DOMAIN u : True(Other(e), u[k])
    BY <1>4, <2>1, AnySeq
  <2> QED
    BY <1>0, <2>2, <2>3, TrueTaken
<1>5. ASSUME NEW e \in Ends, NEW m, NEW a, NEW b, True(Other(e), a), True(Other(e), b), Exchanges(e, m, <<a, b>>)
      PROVE  Truthful'
  <2> DEFINE u == <<a, b>>
  <2>1. u \in Seq({a, b}) /\ \A k \in DOMAIN u : u[k] = a \/ u[k] = b
    OBVIOUS
  <2>2. Exchanges(e, m, u)
    BY <1>5
  <2> HIDE DEF u
  <2>3. IsSeq(u)
    BY <2>1, AnySeq
  <2>4. \A k \in DOMAIN u : True(Other(e), u[k])
    BY <1>5, <2>1
  <2> QED
    BY <1>0, <2>2, <2>3, <2>4, TrueTaken
<1>6. ASSUME NEW e \in Ends, Drops(e) PROVE Truthful'
  <2>1. \A x \in Ends : inbox'[x] = inbox[x] \/ inbox'[x] = <<>>
    BY <1>0, <1>6 DEF Drops, Wired
  <2> QED
    BY <1>1, <1>2, <2>1 DEF Truthful
<1>7. CASE inbox' = inbox
  BY <1>1, <1>7 DEF Truthful
<1>8. CASE Connect
  <2> DEFINE u == <<Handshake(want)>>
  <2>1. /\ inbox'["leecher"] = inbox["leecher"]
        /\ inbox'["seeder"] = inbox["seeder"] \/ inbox'["seeder"] = inbox["seeder"] \o u
    BY <1>0, <1>8 DEF Connect, Sends, Wired
  <2>2. u \in Seq({Handshake(want)}) /\ \A k \in DOMAIN u : u[k] = Handshake(want)
    OBVIOUS
  <2>3. True("seeder", Handshake(want))
    BY DEF True, Handshake
  <2> HIDE DEF u
  <2>4. IsSeq(u) /\ IsSeq(inbox["seeder"])
    BY <1>0, <2>2, AnySeq DEF Wired
  <2>5. ASSUME NEW k \in DOMAIN inbox'["seeder"] PROVE True("seeder", inbox'["seeder"][k])
    <3>1. CASE inbox'["seeder"] = inbox["seeder"]
      BY <1>0, <2>5, <3>1 DEF Truthful
    <3>2. CASE inbox'["seeder"] = inbox["seeder"] \o u
      <4> DEFINE s == inbox["seeder"]
      <4>1. \/ k \in DOMAIN s /\ (s \o u)[k] = s[k]
            \/ k - Len(s) \in DOMAIN u /\ (s \o u)[k] = u[k - Len(s)]
        BY <2>4, <2>5, <3>2, MoreOf
      <4> QED
        BY <1>0, <2>2, <2>3, <3>2, <4>1 DEF Truthful
    <3> QED
      BY <2>1, <3>1, <3>2
  <2>6. \A e \in Ends : \A k \in DOMAIN inbox'[e] : True(e, inbox'[e][k])
    BY <2>1, <2>5 DEF Truthful, Ends
  <2> QED
    BY <1>1, <2>6 DEF Truthful
<1>9. ASSUME NEW m, OnBitfield(m) PROVE Truthful'
  <2>1. True("seeder", Cleared(m)) /\ True("seeder", Plain("Interested"))
    BY DEF True, Cleared, BitfieldOf, Plain
  <2>2. Exchanges("leecher", m, <<Cleared(m), Plain("Interested")>>)
    BY <1>9 DEF OnBitfield
  <2> QED
    BY <1>0, <1>5, <2>1, <2>2
<1>10. ASSUME NEW m, OnUnchoke(m) PROVE Truthful'
  <2>1. 0 \in 0 .. Count - 1
    BY ConstantsAssumption
  <2>2. True("seeder", Request(0))
    BY <2>1 DEF True, Request
  <2>3. Exchanges("leecher", m, <<Request(0)>>)
    BY <1>10 DEF OnUnchoke
  <2> QED
    BY <1>0, <1>4, <2>2, <2>3
<1>11. ASSUME NEW m, OnPiece(m) PROVE Truthful'
  <2>1. True("seeder", Have(m.index))
    BY DEF True, Have
  <2>2. CASE Exchanges("leecher", m, <<Have(m.index)>>)
    BY <1>0, <1>4, <2>1, <2>2
  <2>3. CASE ~LastPiece(pieces') /\ Exchanges("leecher", m, <<Have(m.index), Request(Len(pieces'))>>)
    <3>1. Len(pieces) \in Nat /\ Len(pieces') = Len(pieces) + 1
      BY <1>0, <1>11, AppendOf DEF OnPiece, Wired
    <3>2. Len(pieces) < Count /\ count = Count /\ Count \in Nat
      BY <1>11, ConstantsAssumption DEF OnPiece, Faithful
    <3>3. Len(pieces') # count
      <4>1. UNCHANGED count
        BY <1>11 DEF OnPiece, torrent
      <4> QED
        BY <2>3, <4>1 DEF LastPiece
    <3>4. Len(pieces') \in 0 .. Count - 1
      BY <3>1, <3>2, <3>3
    <3>5. True("seeder", Request(Len(pieces')))
      BY <3>4 DEF True, Request
    <3> QED
      BY <1>0, <1>5, <2>1, <2>3, <3>5
  <2> QED
    BY <1>11, <2>2, <2>3 DEF OnPiece
<1>12. ASSUME NEW m, OnHello(m) PROVE Truthful'
  <2>1. True("leecher", Handshake(InfoHash(have))) /\ True("leecher", BitfieldOf(Bitfield(have)))
    BY DEF True, Handshake, BitfieldOf
  <2>2. Exchanges("seeder", m, <<Handshake(InfoHash(have)), BitfieldOf(Bitfield(have))>>)
    BY <1>12 DEF OnHello
  <2> QED
    BY <1>0, <1>5, <2>1, <2>2
<1>13. ASSUME NEW m, OnInterested(m) PROVE Truthful'
  <2>1. True("leecher", Plain("Unchoke"))
    BY DEF True, Plain
  <2> QED
    BY <1>0, <1>4, <1>13, <2>1 DEF OnInterested
<1>14. ASSUME NEW m, OnRequest(m) PROVE Truthful'
  <2>1. m.type = "Request" /\ Exchanges("seeder", m, <<Served(m.index)>>)
    BY <1>14 DEF OnRequest, Answers
  <2>2. True("seeder", m)
    <3>1. inbox["seeder"] # <<>> /\ m = Head(inbox["seeder"]) /\ IsSeq(inbox["seeder"])
      BY <1>0, <2>1 DEF Exchanges, Wired
    <3> QED
      BY <1>0, <3>1, RestOf DEF Truthful
  <2>3. True("leecher", Served(m.index))
    BY <2>1, <2>2 DEF True, Served, Piece
  <2> QED
    BY <1>0, <1>4, <2>1, <2>3
<1>15. CASE Break
  <2>1. PICK l \in Prefixes(inbox["leecher"]), s \in Prefixes(inbox["seeder"]) :
            inbox' = [leecher |-> l, seeder |-> s]
    BY <1>15 DEF Break
  <2>2. IsSeq(inbox["leecher"]) /\ IsSeq(inbox["seeder"])
    BY <1>0 DEF Wired
  <2>3. /\ \A k \in DOMAIN l : k \in DOMAIN inbox["leecher"] /\ l[k] = inbox["leecher"][k]
        /\ \A k \in DOMAIN s : k \in DOMAIN inbox["seeder"] /\ s[k] = inbox["seeder"][k]
    BY <2>2, PrefixOf
  <2>4. \A k \in DOMAIN l : True("leecher", l[k])
    BY <1>0, <2>3 DEF Truthful
  <2>5. \A k \in DOMAIN s : True("seeder", s[k])
    BY <1>0, <2>3 DEF Truthful
  <2> QED
    BY <1>1, <2>1, <2>4, <2>5 DEF Truthful, Ends
<1>16. CASE Damage
  <2> DEFINE l == inbox["leecher"]
  <2>1. PICK k \in DOMAIN l : l[k].type = "Piece" /\ inbox' = [inbox EXCEPT !["leecher"][k].data[1] = 0]
    BY <1>16 DEF Damage
  <2> DEFINE bad == [l[k] EXCEPT !.data[1] = 0]
             d == [l EXCEPT ![k] = bad]
  <2>2. inbox'["leecher"] = d /\ inbox'["seeder"] = inbox["seeder"]
    BY <1>0, <2>1 DEF Wired
  <2>3. Formed(l) /\ \A j \in DOMAIN l : True("leecher", l[j])
    BY <1>0 DEF Wired, Truthful
  <2> HIDE DEF l
  <2>4. bad.type = l[k].type /\ bad.index = l[k].index /\ bad.proof = l[k].proof
    <3>1. "type" \in DOMAIN l[k] /\ "index" \in DOMAIN l[k] /\ "proof" \in DOMAIN l[k]
      BY <2>1, <2>3 DEF Formed
    <3> QED
      BY <3>1
  <2>5. DOMAIN d = DOMAIN l /\ \A j \in DOMAIN l : d[j] = IF j = k THEN bad ELSE l[j]
    OBVIOUS
  <2> HIDE DEF bad, d
  <2>6. True("leecher", bad)
    BY <2>1, <2>3, <2>4 DEF True
  <2>7. \A j \in DOMAIN d : True("leecher", d[j])
    BY <2>3, <2>5, <2>6
  <2>8. \A j \in DOMAIN inbox["seeder"] : True("seeder", inbox["seeder"][j])
    BY <1>0 DEF Truthful
  <2> QED
    BY <1>1, <2>2, <2>7, <2>8 DEF Truthful, Ends
<1>17. CASE LeecherStep
  <2>1. CASE Refuse \/ LoseSeeder \/ WriteFails \/ Return
    <3>1. Drops("leecher")
      BY <2>1 DEF Refuse, LoseSeeder, WriteFails, Return
    <3> QED
      BY <1>0, <1>6, <3>1
  <2>2. CASE WriteFile
    BY <1>7, <2>2 DEF WriteFile, wire
  <2>3. ASSUME NEW m, OnHandshake(m) PROVE Truthful'
    BY <1>0, <1>3, <2>3 DEF OnHandshake
  <2> QED
    BY <1>8, <1>9, <1>10, <1>11, <1>17, <2>1, <2>2, <2>3 DEF LeecherStep
<1>18. CASE SeederStep
  <2>1. CASE LoseLeecher \/ \E m : TurnAway(m)
    <3>1. Drops("seeder")
      BY <2>1 DEF LoseLeecher, TurnAway
    <3> QED
      BY <1>0, <1>6, <3>1
  <2>2. ASSUME NEW m, OnTheirBitfield(m) \/ Ignore(m) PROVE Truthful'
    BY <1>0, <1>3, <2>2 DEF OnTheirBitfield, Ignore
  <2> QED
    BY <1>12, <1>13, <1>14, <1>18, <2>1, <2>2 DEF SeederStep
<1>19. CASE UNCHANGED vars
  BY <1>7, <1>19 DEF vars, wire
<1> QED
  BY <1>15, <1>16, <1>17, <1>18, <1>19 DEF Next

LEMMA LeecherMoves ==
    ASSUME Wired, NEW there \in Places["leecher"], Moves("leecher", there)
    PROVE  at'["leecher"] = there
BY MovesOf DEF Ends

\* What neither the seeder nor the network can change.
LEMMA OthersLeave ==
    ASSUME Wired, SeederStep \/ Break \/ Damage \/ UNCHANGED vars
    PROVE  /\ at'["leecher"] = at["leecher"]
           /\ count' = count /\ pieces' = pieces /\ file' = file /\ outcome' = outcome
<1>0. "leecher" \in Ends /\ "seeder" \in Ends /\ at = [e \in Ends |-> at[e]]
  BY DEF Wired, Ends
<1>1. ASSUME NEW there, Moves("seeder", there) PROVE at'["leecher"] = at["leecher"]
  BY <1>0, <1>1 DEF Moves
<1>2. CASE SeederStep
  <2>1. count' = count /\ pieces' = pieces /\ file' = file /\ outcome' = outcome
    BY <1>2 DEF SeederStep, OnHello, TurnAway, OnTheirBitfield, OnInterested, OnRequest, Ignore, LoseLeecher,
                Drops, torrent, disk
  <2>2. at' = at \/ \E there : Moves("seeder", there)
    BY <1>2 DEF SeederStep, OnHello, TurnAway, OnTheirBitfield, OnInterested, OnRequest, Ignore, LoseLeecher, Drops
  <2> QED
    BY <1>1, <2>1, <2>2
<1>3. CASE Break \/ Damage \/ UNCHANGED vars
  BY <1>3 DEF Break, Damage, vars, torrent, disk
<1> QED
  BY <1>2, <1>3

LEMMA NextFaithful ==
    TransferSound /\ Strangers /\ Truthful /\ Faithful /\ [Next]_vars => Faithful'
<1> SUFFICES ASSUME TransferSound, Strangers, Truthful, Faithful, [Next]_vars PROVE Faithful'
  OBVIOUS
<1>0. /\ Wired /\ Lockstep /\ have' = have /\ "leecher" \in Ends /\ IsSeq(inbox["leecher"]) /\ IsSeq(pieces)
  BY TorrentKept DEF TransferSound, Ends, Wired
<1>1. have \in Files /\ have \in Seq(Nat) /\ PieceCount(have) = Count /\ PieceSize \in Nat \ {0} /\ Count \in Nat \ {0}
  BY FilesAre DEF Faithful
<1>2. CASE SeederStep \/ Break \/ Damage \/ UNCHANGED vars
  <2>1. /\ at'["leecher"] = at["leecher"]
        /\ count' = count /\ pieces' = pieces /\ file' = file /\ outcome' = outcome
    BY <1>0, <1>2, OthersLeave
  <2> QED
    BY <1>0, <2>1 DEF Faithful
<1>3. CASE Connect \/ \E m : OnHandshake(m)
  <2>1. at'["leecher"] \in {"handshake", "bitfield"}
    <3>1. \E there \in {"handshake", "bitfield"} : Moves("leecher", there)
      BY <1>3 DEF Connect, OnHandshake
    <3> QED
      BY <1>0, <3>1, LeecherMoves DEF Places
  <2>2. /\ at["leecher"] \in {"connect", "handshake"}
        /\ pieces' = pieces /\ file' = file /\ outcome' = outcome
    BY <1>3 DEF Connect, OnHandshake, disk
  <2> QED
    BY <1>0, <2>1, <2>2 DEF Faithful
<1>4. ASSUME NEW m, OnBitfield(m) PROVE Faithful'
  <2>1. at'["leecher"] = "unchoke"
    BY <1>0, <1>4, LeecherMoves DEF OnBitfield, Places
  <2>2. /\ at["leecher"] = "bitfield" /\ m.type = "Bitfield"
        /\ inbox["leecher"] # <<>> /\ m = Head(inbox["leecher"])
        /\ pieces' = pieces /\ file' = file /\ outcome' = outcome /\ count' = CountOnes(m.bits)
    BY <1>4 DEF OnBitfield, Acceptable, Exchanges, disk
  <2>3. True("leecher", m)
    BY <1>0, <2>2, RestOf DEF Truthful
  <2>4. count' = Count
    BY <1>1, <2>2, <2>3, BitsTell
  <2> QED
    BY <1>0, <2>1, <2>2, <2>4 DEF Faithful
<1>5. ASSUME NEW m, OnUnchoke(m) PROVE Faithful'
  <2>1. at'["leecher"] = "piece"
    BY <1>0, <1>5, LeecherMoves DEF OnUnchoke, Places
  <2>2. /\ at["leecher"] = "unchoke"
        /\ pieces' = pieces /\ file' = file /\ outcome' = outcome /\ count' = count
    BY <1>5 DEF OnUnchoke, torrent, disk
  <2>3. pieces = <<>>
    BY <1>0, <2>2 DEF Lockstep
  <2>4. Len(pieces) < Count
    BY <1>1, <2>3
  <2> QED
    BY <1>0, <2>1, <2>2, <2>4 DEF Faithful
<1>6. ASSUME NEW m, OnPiece(m) PROVE Faithful'
  <2> DEFINE new == [index |-> m.index, data |-> m.data]
             n == Len(pieces)
  <2>1. m.index = n /\ m.data = ReadPiece(have, m.index)
    BY <1>6, PieceTells
  <2>2. /\ at["leecher"] = "piece" /\ pieces' = Append(pieces, new)
        /\ file' = file /\ outcome' = outcome /\ count' = count
    BY <1>6 DEF OnPiece, torrent, disk
  <2>3. new.data = ReadPiece(have, n)
    BY <2>1
  <2> HIDE DEF new
  <2>4. /\ n \in Nat /\ DOMAIN pieces = 1 .. n /\ Len(pieces') = n + 1 /\ DOMAIN pieces' = 1 .. n + 1
        /\ pieces'[n + 1] = new /\ \A k \in 1 .. n : pieces'[k] = pieces[k]
    BY <1>0, <2>2, AppendOf
  <2> HIDE DEF n
  <2>5. \A k \in DOMAIN pieces' : pieces'[k].data = ReadPiece(have, k - 1)
    <3> SUFFICES ASSUME NEW k \in 1 .. n + 1 PROVE pieces'[k].data = ReadPiece(have, k - 1)
      BY <2>4
    <3>1. CASE k = n + 1
      <4>1. k - 1 = n
        BY <2>4, <3>1
      <4> QED
        BY <2>3, <2>4, <3>1, <4>1
    <3>2. CASE k \in 1 .. n
      BY <2>4, <3>2 DEF Faithful
    <3> QED
      BY <2>4, <3>1, <3>2
  <2>6. n < Count /\ count = Count
    BY <2>2 DEF Faithful, n
  <2>7. \/ n + 1 = Count /\ at'["leecher"] = "write"
        \/ n + 1 < Count /\ at'["leecher"] = "piece"
    <3>1. CASE LastPiece(pieces')
      <4>1. Moves("leecher", "write")
        BY <1>6, <3>1 DEF OnPiece
      <4>2. at'["leecher"] = "write"
        BY <1>0, <4>1, LeecherMoves DEF Places
      <4> QED
        BY <2>2, <2>4, <2>6, <3>1, <4>2 DEF LastPiece
    <3>2. CASE ~LastPiece(pieces')
      <4>1. at' = at
        BY <1>6, <3>2 DEF OnPiece
      <4>2. n + 1 # Count
        BY <2>2, <2>4, <2>6, <3>2 DEF LastPiece
      <4> QED
        BY <1>1, <2>2, <2>4, <2>6, <4>1, <4>2
    <3> QED
      BY <3>1, <3>2
  <2>8. file = <<>> /\ outcome = "pending" /\ have \in Files
    BY <2>2 DEF Faithful
  <2> QED
    BY <1>0, <2>2, <2>4, <2>5, <2>6, <2>7, <2>8 DEF Faithful
<1>7. CASE WriteFile
  <2>1. at'["leecher"] = "return"
    BY <1>0, <1>7, LeecherMoves DEF WriteFile, Places
  <2>2. /\ at["leecher"] = "write" /\ file' = Joined(pieces)
        /\ pieces' = pieces /\ outcome' = outcome /\ count' = count
    BY <1>7 DEF WriteFile, torrent
  <2>3. /\ Len(pieces) = Count /\ DOMAIN pieces = 1 .. Len(pieces)
        /\ \A k \in DOMAIN pieces : pieces[k].index = k - 1 /\ pieces[k].data = ReadPiece(have, k - 1)
    BY <1>0, <2>2, AppendOf DEF Faithful, TransferSound, InOrder
  <2>4. file' = have
    BY <1>1, <2>2, <2>3, JoinedIs
  <2> QED
    BY <1>0, <2>1, <2>2, <2>4 DEF Faithful
<1>8. CASE Refuse \/ LoseSeeder \/ WriteFails \/ Return
  <2>1. Drops("leecher")
    BY <1>8 DEF Refuse, LoseSeeder, WriteFails, Return
  <2>2. at'["leecher"] = "over" /\ pieces' = pieces /\ file' = file
    BY <1>0, <2>1, LeecherMoves DEF Drops, Places
  <2>3. outcome' = "failed" \/ at["leecher"] = "return"
    BY <1>8 DEF Refuse, LoseSeeder, WriteFails, Return
  <2> QED
    BY <1>0, <2>2, <2>3 DEF Faithful
<1> QED
  BY <1>2, <1>3, <1>4, <1>5, <1>6, <1>7, <1>8 DEF Next, LeecherStep

----------------------------------------------------------------------------
(* The promise of a download *)

\* The pieces accepted and those in the file, as the promise has them.
Accepted == {m.index : m \in ToSet(pieces)}
Stored == {i \in 0 .. Count - 1 : file # <<>> /\ ReadPiece(file, i) = ReadPiece(have, i)}

LEMMA AcceptedAre ==
    ASSUME IsSeq(pieces), InOrder
    PROVE  Accepted = 0 .. Len(pieces) - 1
<1>1. Len(pieces) \in Nat /\ DOMAIN pieces = 1 .. Len(pieces)
  BY AppendOf
<1>2. Accepted = {pieces[k].index : k \in DOMAIN pieces}
  BY DEF Accepted, ToSet
<1>3. ASSUME NEW i \in 0 .. Len(pieces) - 1 PROVE i \in Accepted
  <2>1. i + 1 \in DOMAIN pieces /\ pieces[i + 1].index = (i + 1) - 1 /\ (i + 1) - 1 = i
    BY <1>1 DEF InOrder
  <2> QED
    BY <1>2, <2>1
<1>4. ASSUME NEW k \in DOMAIN pieces PROVE pieces[k].index \in 0 .. Len(pieces) - 1
  BY <1>1 DEF InOrder
<1> QED
  BY <1>2, <1>3, <1>4

LEMMA AllStored ==
    ASSUME have \in Files, file = have
    PROVE  Stored = 0 .. Count - 1
<1>1. have \in Seq(Nat) /\ PieceCount(have) = Count /\ PieceSize \in Nat \ {0} /\ Count \in Nat \ {0}
  BY FilesAre
<1>2. Len(have) # 0
  BY <1>1, PiecesOf
<1>3. file # <<>>
  BY <1>1, <1>2
<1> QED
  BY <1>3 DEF Stored

LEMMA InitDelivers == Init => Promise!Init
<1> SUFFICES ASSUME Init PROVE Promise!Init
  OBVIOUS
<1>1. pieces = <<>> /\ file = <<>> /\ outcome = "pending"
  BY DEF Init
<1>2. {m.index : m \in ToSet(pieces)} = {}
  BY <1>1 DEF ToSet
<1>3. {i \in 0 .. Count - 1 : file # <<>> /\ ReadPiece(file, i) = ReadPiece(have, i)} = {}
  BY <1>1
<1> QED
  BY <1>1, <1>2, <1>3 DEF Promise!Init

LEMMA NextDelivers ==
    /\ TransferSound /\ Strangers /\ Truthful /\ Faithful /\ Faithful' /\ TransferSound'
    /\ [Next]_vars
    => [Promise!Next]_(Promise!vars)
<1> SUFFICES ASSUME TransferSound, Strangers, Truthful, Faithful, Faithful', TransferSound', [Next]_vars
             PROVE  [Promise!Next]_(Promise!vars)
  OBVIOUS
<1>0. /\ Wired /\ have' = have /\ "leecher" \in Ends /\ IsSeq(pieces) /\ InOrder /\ IsSeq(pieces') /\ InOrder'
  BY TorrentKept DEF TransferSound, Ends, Wired
<1>a. /\ Promise!vars = <<Accepted, Stored, outcome>>
      /\ (Promise!vars)' = <<Accepted', Stored', outcome'>>
  BY DEF Promise!vars, Accepted, Stored
<1>b. /\ \A i : Promise!Accept(i) <=> /\ outcome = "pending"
                                      /\ i \in 0 .. Count - 1 /\ i \notin Accepted
                                      /\ Accepted' = Accepted \cup {i}
                                      /\ Stored' = Stored /\ outcome' = outcome
      /\ \A S : Promise!Store(S) <=> /\ outcome = "pending"
                                     /\ Stored' = Stored \cup S
                                     /\ Accepted' = Accepted /\ outcome' = outcome
      /\ Promise!Succeed <=> /\ outcome = "pending" /\ Stored = 0 .. Count - 1
                             /\ outcome' = "ok" /\ Accepted' = Accepted /\ Stored' = Stored
      /\ Promise!Fail <=> /\ outcome = "pending" /\ outcome' = "failed"
                          /\ Accepted' = Accepted /\ Stored' = Stored
  BY DEF Promise!Accept, Promise!Store, Promise!Succeed, Promise!Fail, Accepted, Stored
<1>c. Promise!Next <=> \/ \E i \in 0 .. Count - 1 : Promise!Accept(i)
                       \/ \E S \in SUBSET Accepted : Promise!Store(S)
                       \/ Promise!Succeed \/ Promise!Fail
  BY DEF Promise!Next, Accepted
<1>1. pieces' = pieces => Accepted' = Accepted
  BY DEF Accepted
<1>2. file' = file => Stored' = Stored
  BY <1>0 DEF Stored
<1>3. CASE pieces' = pieces /\ file' = file /\ outcome' = outcome
  BY <1>1, <1>2, <1>3, <1>a
<1>4. CASE Refuse \/ LoseSeeder \/ WriteFails
  <2>1. /\ at["leecher"] # "over" /\ outcome' = "failed" /\ pieces' = pieces /\ file' = file
    BY <1>4 DEF Refuse, LoseSeeder, WriteFails, Waits, Drops
  <2>2. outcome = "pending"
    BY <2>1 DEF Faithful
  <2> QED
    BY <1>1, <1>2, <1>b, <1>c, <2>1, <2>2
<1>5. CASE Return
  <2>1. at["leecher"] = "return" /\ outcome' = "ok" /\ pieces' = pieces /\ file' = file
    BY <1>5 DEF Return, Drops
  <2>2. outcome = "pending" /\ Stored = 0 .. Count - 1
    BY <2>1, AllStored DEF Faithful
  <2> QED
    BY <1>1, <1>2, <1>b, <1>c, <2>1, <2>2
<1>6. ASSUME NEW m, OnPiece(m) PROVE Promise!Next
  <2> DEFINE n == Len(pieces)
  <2>1. m.index = n /\ n \in 0 .. Count - 1
    BY <1>6, PieceTells
  <2>2. /\ at["leecher"] = "piece" /\ file' = file /\ outcome' = outcome
        /\ pieces' = Append(pieces, [index |-> m.index, data |-> m.data])
    BY <1>6 DEF OnPiece, disk
  <2>3. outcome = "pending"
    BY <2>2 DEF Faithful
  <2>4. n \in Nat /\ Len(pieces') = n + 1
    BY <1>0, <2>2, AppendOf
  <2>5. Accepted = 0 .. n - 1
    BY <1>0, AcceptedAre
  <2>6. Accepted' = 0 .. n
    <3>1. Accepted' = 0 .. Len(pieces') - 1
      <4>1. \A k \in DOMAIN pieces' : pieces'[k].index = k - 1
        BY <1>0 DEF InOrder
      <4>2. Len(pieces') \in Nat /\ DOMAIN pieces' = 1 .. Len(pieces')
        BY <1>0, AppendOf
      <4>3. Accepted' = {pieces'[k].index : k \in DOMAIN pieces'}
        BY DEF Accepted, ToSet
      <4>4. ASSUME NEW i \in 0 .. Len(pieces') - 1 PROVE i \in Accepted'
        <5>1. i + 1 \in DOMAIN pieces' /\ pieces'[i + 1].index = (i + 1) - 1 /\ (i + 1) - 1 = i
          BY <4>1, <4>2
        <5> QED
          BY <4>3, <5>1
      <4>5. ASSUME NEW k \in DOMAIN pieces' PROVE pieces'[k].index \in 0 .. Len(pieces') - 1
        BY <4>1, <4>2
      <4> QED
        BY <4>3, <4>4, <4>5
    <3> QED
      BY <2>4, <3>1
  <2>7. Accepted' = Accepted \cup {n} /\ n \notin Accepted
    BY <2>4, <2>5, <2>6
  <2>8. PICK i \in 0 .. Count - 1 : i = n
    BY <2>1
  <2>9. Promise!Accept(i)
    <3>1. Stored' = Stored /\ outcome' = outcome
      BY <1>2, <2>2
    <3>2. Accepted' = Accepted \cup {i} /\ i \notin Accepted
      BY <2>7, <2>8
    <3> QED
      BY <1>b, <2>3, <3>1, <3>2
  <2> QED
    BY <1>c, <2>9
<1>7. CASE WriteFile
  <2>1. at["leecher"] = "write" /\ pieces' = pieces /\ outcome' = outcome
    BY <1>7 DEF WriteFile
  <2>2. outcome = "pending" /\ Len(pieces) = Count /\ file = <<>> /\ have \in Files
    BY <2>1 DEF Faithful
  <2>3. Accepted = 0 .. Count - 1
    BY <1>0, <2>2, AcceptedAre
  <2>4. file' = have'
    <3>1. at'["leecher"] = "return"
      BY <1>0, <1>7, LeecherMoves DEF WriteFile, Places
    <3> QED
      BY <3>1 DEF Faithful
  <2>5. Stored' = 0 .. Count - 1
    <3>1. Len(have) # 0
      BY <2>2, FilesAre, PiecesOf
    <3>2. file' # <<>>
      BY <1>0, <2>4, <3>1
    <3> QED
      BY <2>4, <3>2 DEF Stored
  <2>6. Stored = {}
    BY <2>2 DEF Stored
  <2>7. Promise!Store(Accepted)
    BY <1>1, <1>b, <2>1, <2>2, <2>3, <2>5, <2>6
  <2> QED
    BY <1>c, <2>7
<1>8. CASE SeederStep \/ Break \/ Damage \/ UNCHANGED vars
  BY <1>0, <1>3, <1>8, OthersLeave
<1>9. CASE Connect \/ \E m : OnHandshake(m) \/ OnBitfield(m) \/ OnUnchoke(m)
  BY <1>3, <1>9 DEF Connect, OnHandshake, OnBitfield, OnUnchoke, disk
<1> QED
  BY <1>4, <1>5, <1>6, <1>7, <1>8, <1>9 DEF Next, LeecherStep

\* Together they are inductive.
DownloadSound == TransferSound /\ Strangers /\ Truthful /\ Faithful

LEMMA SoundAlways == Spec => []DownloadSound
<1>1. Init => DownloadSound
  BY InitSound, InitStrangers, InitTruth DEF DownloadSound
<1>2. DownloadSound /\ [Next]_vars => DownloadSound'
  BY NextSound, NextStrangers, NextTruth, NextFaithful DEF DownloadSound
<1> QED
  BY <1>1, <1>2, PTL DEF Spec

\* download() keeps the promise of every download: pieces are accepted one at a time, the
\* file receives accepted pieces only, and Ok is returned only with every byte of the
\* seeder's file at its place, although no piece is checked against the index asked for.
THEOREM DeliveryCorrect == Spec => DeliverySpec
<1>1. DownloadSound /\ DownloadSound' /\ [Next]_vars => [Promise!Next]_(Promise!vars)
  BY NextDelivers DEF DownloadSound
<1> QED
  BY <1>1, SoundAlways, InitDelivers, PTL DEF Spec, DeliverySpec, Promise!Spec

\* A download that returned Ok left the seeder's file, byte for byte.
THEOREM OkIsTheFile == Spec => [](outcome = "ok" => file = have)
<1>1. DownloadSound => (outcome = "ok" => file = have)
  BY DEF DownloadSound, Faithful
<1> QED
  BY <1>1, SoundAlways, PTL
=============================================================================
