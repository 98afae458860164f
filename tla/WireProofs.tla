----------------------------- MODULE WireProofs -----------------------------
(* Proofs, for every message, every way of cutting the stream into pieces    *)
(* and every base and width of the octets, of what MCWire checks on a few    *)
(* messages: what was encoded is decoded, the stream keeps its frames, and   *)
(* the two ends of a connection have a channel between them.                 *)
EXTENDS Wire, FiniteSetTheorems, SequenceTheorems, WellFoundedInduction, TLAPS

----------------------------------------------------------------------------
(* Numbers in octets *)

\* A set of numbers has a least one.
LEMMA LeastOf ==
    ASSUME NEW S, S \subseteq Nat, S # {}
    PROVE  \E x \in S : \A y \in S : x <= y
<1>1. PICK x \in S : \A y \in S : ~(<<y, x>> \in OpToRel(<, Nat))
  BY NatLessThanWellFounded, WFMin
<1>2. \A y \in S : ~(y < x)
  BY <1>1 DEF OpToRel
<1> QED
  BY <1>2

\* Induction, over a set.
LEMMA UpFromZero ==
    ASSUME NEW S, 0 \in S, \A k \in Nat : k \in S => k + 1 \in S
    PROVE  Nat \subseteq S
<1> SUFFICES ASSUME Nat \ S # {} PROVE FALSE
  OBVIOUS
<1>1. PICK x \in Nat \ S : \A y \in Nat \ S : x <= y
  BY LeastOf
<1>2. x # 0 /\ x - 1 \in Nat /\ x - 1 \in S /\ (x - 1) + 1 = x
  BY <1>1
<1> QED
  BY <1>1, <1>2

Course(f, S, first, n, next) ==
    /\ f \in [0 .. n -> S] /\ f[0] = first
    /\ \A k \in 1 .. n : f[k] = next[k][f[k - 1]]

LEMMA Recursion ==
    ASSUME NEW S, NEW first \in S, NEW n \in Nat,
           NEW next \in [1 .. n -> [S -> S]]
    PROVE  \E f : Course(f, S, first, n, next)
<1> DEFINE Is(f, m) == Course(f, S, first, m, next)
           N == {m \in Nat : m <= n => \E f : Is(f, m)}
<1>1. 0 \in N
  <2>1. Is([k \in 0 .. 0 |-> first], 0)
    BY DEF Course
  <2> QED
    BY <2>1
<1>2. ASSUME NEW m \in Nat, m \in N PROVE m + 1 \in N
  <2> SUFFICES ASSUME m + 1 <= n PROVE \E f : Is(f, m + 1)
    OBVIOUS
  <2>1. PICK f : Is(f, m)
    BY <1>2
  <2> DEFINE g == [k \in 0 .. m + 1 |-> IF k <= m THEN f[k] ELSE next[m + 1][f[m]]]
  <2>2. next[m + 1][f[m]] \in S
    BY <2>1 DEF Course
  <2>3. g \in [0 .. m + 1 -> S] /\ g[0] = first
    BY <2>1, <2>2 DEF Course
  <2>4. ASSUME NEW k \in 1 .. m + 1 PROVE g[k] = next[k][g[k - 1]]
    BY <2>1 DEF Course
  <2>5. Is(g, m + 1)
    BY <2>3, <2>4 DEF Course
  <2> QED
    BY <2>5
<1>3. n \in N
  <2> HIDE DEF N
  <2> QED
    BY <1>1, <1>2, UpFromZero
<1> QED
  BY <1>3

----------------------------------------------------------------------------
(* Numbers in octets *)

LEMMA Division ==
    ASSUME NEW n \in Nat, NEW b \in Nat \ {0}
    PROVE  /\ n \div b \in Nat /\ n % b \in 0 .. b - 1 /\ n = (n \div b) * b + (n % b)
           /\ \A y \in Nat : n < b * y => n \div b < y
<1>1. n \div b \in Nat /\ n % b \in 0 .. b - 1 /\ n = (n \div b) * b + (n % b)
  OBVIOUS
<1>2. ASSUME NEW y \in Nat, n < b * y, NEW q \in Nat, q * b <= n PROVE q < y
  <2> SUFFICES ASSUME y <= q PROVE FALSE
    BY <1>2
  <2>1. b * y <= b * q
    BY <1>2
  <2> QED
    BY <1>2, <2>1
<1>3. (n \div b) * b <= n
  BY <1>1
<1> QED
  BY <1>1, <1>2, <1>3

LEMMA UnsignedSteps ==
    ASSUME NEW w \in Nat
    PROVE  \E v \in [0 .. w -> Nat] :
              /\ v[0] = 1 /\ \A k \in 1 .. w : v[k] = Base * v[k - 1]
              /\ Unsigned(w) = 0 .. v[w] - 1
<1> DEFINE next == [k \in 1 .. w |-> [x \in Nat |-> Base * x]]
           Is(g) == g = [k \in 0 .. w |-> IF k = 0 THEN 1 ELSE Base * g[k - 1]]
           v == CHOOSE g : Is(g)
<1>1. PICK f : Course(f, Nat, 1, w, next)
  <2>1. next \in [1 .. w -> [Nat -> Nat]]
    BY WidthsAssumption
  <2>2. 1 \in Nat
    OBVIOUS
  <2> HIDE DEF next
  <2> QED
    BY <2>1, <2>2, Recursion
<1>2. Is(f)
  <2>1. ASSUME NEW k \in 1 .. w PROVE f[k] = Base * f[k - 1]
    <3>1. f[k - 1] \in Nat /\ f[k] = next[k][f[k - 1]]
      BY <1>1 DEF Course
    <3> QED
      BY <3>1
  <2>2. f = [k \in 0 .. w |-> f[k]] /\ f[0] = 1
    BY <1>1 DEF Course
  <2> HIDE DEF next
  <2>3. \A k \in 0 .. w : f[k] = IF k = 0 THEN 1 ELSE Base * f[k - 1]
    BY <2>1, <2>2
  <2> QED
    BY <2>2, <2>3
<1>3. Is(v)
  BY <1>2
<1>4. Unsigned(w) = 0 .. v[w] - 1
  BY DEF Unsigned
<1> HIDE DEF v
<1>5. v \in [0 .. w -> Nat]
  <2> HIDE DEF next
  <2> DEFINE S == {k \in Nat : k <= w => v[k] \in Nat}
  <2>1. 0 \in S
    BY <1>3
  <2>2. ASSUME NEW k \in Nat, k \in S PROVE k + 1 \in S
    BY <1>3, <2>2, WidthsAssumption
  <2>3. Nat \subseteq S
    <3> HIDE DEF S
    <3> QED
      BY <2>1, <2>2, UpFromZero
  <2>4. \A k \in 0 .. w : v[k] \in Nat
    BY <2>3
  <2>5. v = [k \in 0 .. w |-> v[k]]
    BY <1>3
  <2> QED
    BY <2>4, <2>5
<1>6. v[0] = 1 /\ \A k \in 1 .. w : v[k] = Base * v[k - 1]
  BY <1>3
<1> HIDE DEF Is, next
<1> QED
  BY <1>4, <1>5, <1>6

LEMMA PutSteps ==
    ASSUME NEW n \in Nat, NEW w \in Nat
    PROVE  \E left \in [0 .. w -> Nat] :
              /\ left[0] = n /\ \A k \in 1 .. w : left[k] = left[k - 1] \div Base
              /\ Put(n, w) = [k \in 1 .. w |-> left[w - k] % Base]
<1> DEFINE next == [k \in 1 .. w |-> [x \in Nat |-> x \div Base]]
           Is(g) == g = [k \in 0 .. w |-> IF k = 0 THEN n ELSE g[k - 1] \div Base]
           v == CHOOSE g : Is(g)
<1>1. PICK f : Course(f, Nat, n, w, next)
  <2>1. next \in [1 .. w -> [Nat -> Nat]]
    BY WidthsAssumption, Division
  <2> HIDE DEF next
  <2> QED
    BY <2>1, Recursion
<1>2. Is(f)
  <2>1. ASSUME NEW k \in 1 .. w PROVE f[k] = f[k - 1] \div Base
    <3>1. f[k - 1] \in Nat /\ f[k] = next[k][f[k - 1]]
      BY <1>1 DEF Course
    <3> QED
      BY <3>1
  <2>2. f = [k \in 0 .. w |-> f[k]] /\ f[0] = n
    BY <1>1 DEF Course
  <2> HIDE DEF next
  <2>3. ASSUME NEW k \in 0 .. w PROVE f[k] = IF k = 0 THEN n ELSE f[k - 1] \div Base
    <3>1. CASE k = 0
      BY <2>2, <3>1
    <3>2. CASE k # 0
      <4>1. k \in 1 .. w
        BY <3>2
      <4> QED
        BY <2>1, <3>2, <4>1
    <3> QED
      BY <3>1, <3>2
  <2> QED
    BY <2>2, <2>3
<1>3. Is(v)
  BY <1>2
<1>4. Put(n, w) = [k \in 1 .. w |-> v[w - k] % Base]
  BY DEF Put
<1> HIDE DEF v
<1>5. v \in [0 .. w -> Nat]
  <2> HIDE DEF next
  <2> DEFINE S == {k \in Nat : k <= w => v[k] \in Nat}
  <2>1. 0 \in S
    BY <1>3
  <2>2. ASSUME NEW k \in Nat, k \in S PROVE k + 1 \in S
    <3> SUFFICES ASSUME k + 1 <= w PROVE v[k + 1] \in Nat
      OBVIOUS
    <3>1. v[k] \in Nat /\ v[k + 1] = v[k] \div Base
      BY <1>3, <2>2
    <3>2. Base \in Nat \ {0}
      BY WidthsAssumption
    <3>3. \A x \in Nat : x \div Base \in Nat
      BY <3>2, Division
    <3> QED
      BY <3>1, <3>3
  <2>3. Nat \subseteq S
    <3> HIDE DEF S
    <3> QED
      BY <2>1, <2>2, UpFromZero
  <2>4. \A k \in 0 .. w : v[k] \in Nat
    BY <2>3
  <2>5. v = [k \in 0 .. w |-> v[k]]
    BY <1>3
  <2> QED
    BY <2>4, <2>5
<1>6. v[0] = n /\ \A k \in 1 .. w : v[k] = v[k - 1] \div Base
  BY <1>3
<1> HIDE DEF Is, next
<1> QED
  BY <1>4, <1>5, <1>6

LEMMA ValueSteps ==
    ASSUME NEW octets \in Bytes
    PROVE  \E v \in [0 .. Len(octets) -> Nat] :
              /\ v[0] = 0 /\ \A k \in 1 .. Len(octets) : v[k] = v[k - 1] * Base + octets[k]
              /\ Value(octets) = v[Len(octets)]
<1> DEFINE w == Len(octets)
           next == [k \in 1 .. w |-> [x \in Nat |-> x * Base + octets[k]]]
           Is(g) == g = [k \in 0 .. w |-> IF k = 0 THEN 0 ELSE g[k - 1] * Base + octets[k]]
           v == CHOOSE g : Is(g)
<1>0. w \in Nat /\ Base \in Nat /\ \A k \in 1 .. w : octets[k] \in Nat
  BY WidthsAssumption DEF Bytes, Octet
<1>4. Value(octets) = v[w]
  BY DEF Value
<1> HIDE DEF w
<1>1. PICK f : Course(f, Nat, 0, w, next)
  <2>1. next \in [1 .. w -> [Nat -> Nat]]
    BY <1>0
  <2>2. 0 \in Nat
    OBVIOUS
  <2> HIDE DEF next
  <2> QED
    BY <1>0, <2>1, <2>2, Recursion
<1>2. Is(f)
  <2>1. ASSUME NEW k \in 1 .. w PROVE f[k] = f[k - 1] * Base + octets[k]
    <3>0. k - 1 \in 0 .. w
      BY <1>0
    <3>1. f[k - 1] \in Nat /\ f[k] = next[k][f[k - 1]]
      BY <1>1, <3>0 DEF Course
    <3> QED
      BY <3>1
  <2>2. f = [k \in 0 .. w |-> f[k]] /\ f[0] = 0
    BY <1>1 DEF Course
  <2> HIDE DEF next
  <2>3. ASSUME NEW k \in 0 .. w PROVE f[k] = IF k = 0 THEN 0 ELSE f[k - 1] * Base + octets[k]
    <3>1. CASE k = 0
      BY <2>2, <3>1
    <3>2. CASE k # 0
      <4>1. k \in 1 .. w
        BY <1>0, <3>2
      <4> QED
        BY <2>1, <3>2, <4>1
    <3> QED
      BY <3>1, <3>2
  <2> QED
    BY <2>2, <2>3
<1>3. Is(v)
  BY <1>2
<1> HIDE DEF v
<1>5. v \in [0 .. w -> Nat]
  <2> HIDE DEF next
  <2> DEFINE S == {k \in Nat : k <= w => v[k] \in Nat}
  <2>1. 0 \in S
    BY <1>3
  <2>2. ASSUME NEW k \in Nat, k \in S PROVE k + 1 \in S
    BY <1>0, <1>3, <2>2
  <2>3. Nat \subseteq S
    <3> HIDE DEF S
    <3> QED
      BY <2>1, <2>2, UpFromZero
  <2> QED
    BY <1>3, <2>3
<1>6. v \in [0 .. w -> Nat] /\ v[0] = 0 /\ \A k \in 1 .. w : v[k] = v[k - 1] * Base + octets[k]
  BY <1>0, <1>3, <1>5
<1> QED
  BY <1>4, <1>6 DEF w

LEMMA PutOf ==
    ASSUME NEW n \in Nat, NEW w \in Nat
    PROVE  Put(n, w) \in Bytes /\ Len(Put(n, w)) = w
<1>1. PICK left \in [0 .. w -> Nat] : Put(n, w) = [k \in 1 .. w |-> left[w - k] % Base]
  BY PutSteps
<1>2. ASSUME NEW k \in 1 .. w PROVE left[w - k] % Base \in Octet
  <2>1. left[w - k] \in Nat /\ Base \in Nat \ {0}
    BY WidthsAssumption
  <2> QED
    BY <2>1, Division DEF Octet
<1> QED
  BY <1>1, <1>2 DEF Bytes

\* A number that fits is read as it was written.
LEMMA ValueOfPut ==
    ASSUME NEW w \in Nat, NEW n \in Unsigned(w)
    PROVE  n \in Nat /\ Value(Put(n, w)) = n
<1>1. PICK most \in [0 .. w -> Nat] :
          /\ most[0] = 1 /\ \A k \in 1 .. w : most[k] = Base * most[k - 1]
          /\ Unsigned(w) = 0 .. most[w] - 1
  BY UnsignedSteps
<1>2. n \in Nat /\ n < most[w]
  BY <1>1
<1>3. PICK left \in [0 .. w -> Nat] :
          /\ left[0] = n /\ \A k \in 1 .. w : left[k] = left[k - 1] \div Base
          /\ Put(n, w) = [k \in 1 .. w |-> left[w - k] % Base]
  BY <1>2, PutSteps
<1>4. Put(n, w) \in Bytes /\ Len(Put(n, w)) = w
  BY <1>2, PutOf
<1>5. PICK v \in [0 .. w -> Nat] :
          /\ v[0] = 0 /\ \A k \in 1 .. w : v[k] = v[k - 1] * Base + Put(n, w)[k]
          /\ Value(Put(n, w)) = v[w]
  BY <1>4, ValueSteps
<1>6. left[w] = 0
  <2> DEFINE S == {k \in Nat : k <= w => left[k] < most[w - k]}
  <2>1. 0 \in S
    BY <1>2, <1>3
  <2>2. ASSUME NEW k \in Nat, k \in S PROVE k + 1 \in S
    <3> SUFFICES ASSUME k + 1 <= w PROVE left[k + 1] < most[w - (k + 1)]
      OBVIOUS
    <3>1. left[k] < most[w - k] /\ left[k + 1] = left[k] \div Base
      BY <1>3, <2>2
    <3>2. most[w - k] = Base * most[w - (k + 1)] /\ most[w - (k + 1)] \in Nat /\ left[k] \in Nat
      <4>1. w - k \in 1 .. w /\ (w - k) - 1 = w - (k + 1) /\ w - (k + 1) \in 0 .. w /\ k \in 0 .. w
        OBVIOUS
      <4>2. most[w - k] = Base * most[(w - k) - 1]
        BY <1>1, <4>1
      <4> QED
        BY <4>1, <4>2
    <3>3. Base \in Nat \ {0}
      BY WidthsAssumption
    <3>4. \A x, y \in Nat : x < Base * y => x \div Base < y
      BY <3>3, Division
    <3> QED
      BY <3>1, <3>2, <3>4
  <2>3. w \in S
    <3> HIDE DEF S
    <3> QED
      BY <2>1, <2>2, UpFromZero
  <2> QED
    BY <1>1, <2>3
<1> DEFINE S == {k \in Nat : k <= w => v[k] = left[w - k]}
<1>7. 0 \in S
  BY <1>5, <1>6
<1>8. ASSUME NEW k \in Nat, k \in S PROVE k + 1 \in S
  <2> SUFFICES ASSUME k + 1 <= w PROVE v[k + 1] = left[w - (k + 1)]
    OBVIOUS
  <2> DEFINE x == left[w - (k + 1)]
  <2>1. v[k] = left[w - k] /\ left[w - k] = x \div Base /\ x \in Nat
    BY <1>3, <1>8
  <2>2. v[k + 1] = v[k] * Base + (x % Base)
    BY <1>3, <1>5
  <2>3. x = (x \div Base) * Base + (x % Base)
    BY <2>1, WidthsAssumption, Division
  <2> QED
    BY <2>1, <2>2, <2>3
<1>9. w \in S
  <2> HIDE DEF S
  <2> QED
    BY <1>7, <1>8, UpFromZero
<1> QED
  BY <1>2, <1>3, <1>5, <1>9

LEMMA OneOctet ==
    /\ Unsigned(1) = Octet
    /\ \A n \in Octet : Put(n, 1) = <<n>>
<1>1. Unsigned(1) = Octet
  <2>1. PICK v \in [0 .. 1 -> Nat] :
          /\ v[0] = 1 /\ \A k \in 1 .. 1 : v[k] = Base * v[k - 1]
          /\ Unsigned(1) = 0 .. v[1] - 1
    BY UnsignedSteps
  <2>2. v[1] = Base
    BY <2>1, WidthsAssumption
  <2> QED
    BY <2>1, <2>2 DEF Octet
<1>2. ASSUME NEW n \in Octet PROVE Put(n, 1) = <<n>>
  <2>1. n \in Nat /\ n < Base
    BY WidthsAssumption DEF Octet
  <2>5. 1 \in Nat
    OBVIOUS
  <2>2. PICK left \in [0 .. 1 -> Nat] : left[0] = n /\ Put(n, 1) = [k \in 1 .. 1 |-> left[1 - k] % Base]
    BY <2>1, <2>5, PutSteps
  <2>3. n % Base = n
    BY <2>1, WidthsAssumption
  <2>4. Put(n, 1)[1] = n
    BY <2>2, <2>3
  <2> QED
    BY <2>2, <2>4
<1> QED
  BY <1>1, <1>2

----------------------------------------------------------------------------
(* Sequences of octets, joined and taken apart *)

LEMMA Joint ==
    ASSUME NEW S, NEW a \in Seq(S), NEW b \in Seq(S)
    PROVE  a \o b \in Seq(S) /\ Len(a \o b) = Len(a) + Len(b)
BY ConcatProperties

\* Three parts may be taken together either way.
Alike(a, b, c) == (a \o b) \o c = a \o (b \o c)

LEMMA AlikeIn ==
    ASSUME NEW S, NEW a \in Seq(S), NEW b \in Seq(S), NEW c \in Seq(S)
    PROVE  Alike(a, b, c)
BY ConcatAssociative DEF Alike

\* The field after a, and what follows it.
LEMMA FieldOf ==
    ASSUME NEW S, NEW a \in Seq(S), NEW b \in Seq(S), NEW c \in Seq(S)
    PROVE  /\ Field(a \o (b \o c), Len(a), Len(b)) = b
           /\ From(a \o b, Len(a)) = b
<1> DEFINE p == a \o (b \o c)
           q == a \o b
<1>0. Len(a) \in Nat /\ Len(b) \in Nat /\ Len(c) \in Nat
  OBVIOUS
<1>1. /\ b \o c \in Seq(S) /\ Len(b \o c) = Len(b) + Len(c)
      /\ \A i \in 1 .. Len(b) : (b \o c)[i] = b[i]
  BY <1>0, ConcatProperties
<1>2. /\ p \in Seq(S) /\ Len(p) = Len(a) + Len(b) + Len(c)
      /\ \A i \in 1 .. Len(b) : p[Len(a) + i] = b[i]
  <2>1. /\ p \in Seq(S) /\ Len(p) = Len(a) + Len(b \o c)
        /\ \A i \in 1 .. Len(b) + Len(c) : p[Len(a) + i] = (b \o c)[i]
    BY <1>0, <1>1, ConcatProperties
  <2> HIDE DEF p
  <2> QED
    BY <1>0, <1>1, <2>1
<1>3. /\ q \in Seq(S) /\ Len(q) = Len(a) + Len(b)
      /\ \A i \in 1 .. Len(b) : q[Len(a) + i] = b[i]
  BY <1>0, ConcatProperties
<1> HIDE DEF p, q
<1>4. Field(p, Len(a), Len(b)) = b
  <2> DEFINE f == SubSeq(p, Len(a) + 1, Len(a) + Len(b))
  <2>1. \A i \in Len(a) + 1 .. Len(a) + Len(b) : p[i] \in S
    BY <1>0, <1>2
  <2>2. /\ f \in Seq(S) /\ Len(f) = Len(b)
        /\ \A i \in 1 .. Len(b) : f[i] = p[Len(a) + i]
    BY <1>0, <2>1, SubSeqProperties
  <2> HIDE DEF f
  <2>3. f = b
    BY <1>0, <1>2, <2>2, SeqEqual
  <2> QED
    BY <2>3 DEF f, Field
<1>5. From(q, Len(a)) = b
  <2> DEFINE f == SubSeq(q, Len(a) + 1, Len(q))
  <2>1. \A i \in Len(a) + 1 .. Len(q) : q[i] \in S
    BY <1>0, <1>3
  <2>2. /\ f \in Seq(S) /\ Len(f) = Len(b)
        /\ \A i \in 1 .. Len(b) : f[i] = q[Len(a) + i]
    BY <1>0, <1>3, <2>1, SubSeqProperties
  <2> HIDE DEF f
  <2>3. f = b
    BY <1>0, <1>3, <2>2, SeqEqual
  <2> QED
    BY <2>3 DEF f, From
<1> QED
  BY <1>4, <1>5 DEF p, q

\* What a sequence begins with, and what is left of it.
LEMMA FromOf ==
    ASSUME NEW S, NEW s \in Seq(S), NEW n \in 0 .. Len(s)
    PROVE  /\ From(s, n) \in Seq(S) /\ Len(From(s, n)) = Len(s) - n
           /\ SubSeq(s, 1, n) \in Seq(S) /\ Len(SubSeq(s, 1, n)) = n
           /\ s = SubSeq(s, 1, n) \o From(s, n)
           /\ \A k \in 1 .. Len(s) - n : From(s, n)[k] = s[n + k]
<1>1. Len(s) \in Nat /\ n \in Nat /\ n <= Len(s)
  OBVIOUS
<1>2. /\ From(s, n) \in Seq(S) /\ Len(From(s, n)) = Len(s) - n
      /\ \A k \in 1 .. Len(s) - n : From(s, n)[k] = s[n + k]
  <2>1. \A i \in n + 1 .. Len(s) : s[i] \in S
    BY <1>1
  <2> QED
    BY <1>1, <2>1, SubSeqProperties DEF From
<1>3. SubSeq(s, 1, n) \in Seq(S) /\ Len(SubSeq(s, 1, n)) = n
  <2>1. \A i \in 1 .. n : s[i] \in S
    BY <1>1
  <2> QED
    BY <1>1, <2>1, SubSeqProperties
<1>4. SubSeq(s, 1, n) \o SubSeq(s, n + 1, Len(s)) = SubSeq(s, 1, Len(s))
  <2>1. 1 \in 1 .. Len(s) + 1 /\ n \in 1 - 1 .. Len(s) /\ Len(s) \in n .. Len(s)
    BY <1>1
  <2> QED
    BY <2>1, ConcatAdjacentSubSeq
<1>5. SubSeq(s, 1, Len(s)) = s
  BY SubSeqFull
<1> QED
  BY <1>2, <1>3, <1>4, <1>5 DEF From

\* Two ways to divide the same sequence.
LEMMA Divided ==
    ASSUME NEW S, NEW a \in Seq(S), NEW b \in Seq(S), NEW c \in Seq(S), NEW d \in Seq(S),
           a \o b = c \o d, Len(c) <= Len(a)
    PROVE  a = c \o From(a, Len(c)) /\ From(a, Len(c)) \o b = d
<1>1. Len(a) \in Nat /\ Len(c) \in Nat /\ Len(c) \in 0 .. Len(a)
  OBVIOUS
<1> DEFINE x == SubSeq(a, 1, Len(c))
           y == From(a, Len(c))
<1>2. x \in Seq(S) /\ y \in Seq(S) /\ a = x \o y /\ Len(x) = Len(c)
  BY <1>1, FromOf
<1> HIDE DEF x, y
<1>3. x \o (y \o b) = c \o d /\ y \o b \in Seq(S)
  <2>1. (x \o y) \o b = x \o (y \o b) /\ y \o b \in Seq(S)
    <3>1. Alike(x, y, b)
      BY <1>2, AlikeIn
    <3> QED
      BY <1>2, <3>1, Joint DEF Alike
  <2> QED
    BY <1>2, <2>1
<1>4. x = c
  <2>1. ASSUME NEW i \in 1 .. Len(c) PROVE x[i] = c[i]
    <3>1. (x \o (y \o b))[i] = x[i]
      BY <1>1, <1>2, <1>3, ConcatProperties
    <3>2. (c \o d)[i] = c[i]
      BY <1>1, ConcatProperties
    <3> QED
      BY <1>3, <3>1, <3>2
  <2> QED
    BY <1>2, <2>1, SeqEqual
<1>5. c \o (y \o b) = c \o d
  BY <1>3, <1>4
<1>6. y \o b = d
  <2>1. From(c \o (y \o b), Len(c)) = y \o b /\ From(c \o d, Len(c)) = d
    BY <1>3, FieldOf
  <2> QED
    BY <1>5, <2>1
<1> QED
  BY <1>2, <1>4, <1>6 DEF y

----------------------------------------------------------------------------
(* Lists *)

LEMMA UpFromOne ==
    ASSUME NEW n \in Nat \ {0}, NEW S, 1 \in S, \A k \in 1 .. n - 1 : k \in S => k + 1 \in S
    PROVE  \A k \in 1 .. n : k \in S
<1> DEFINE N == {k \in Nat : k + 1 <= n => k + 1 \in S}
<1>1. 0 \in N
  OBVIOUS
<1>2. ASSUME NEW k \in Nat, k \in N PROVE k + 1 \in N
  <2> SUFFICES ASSUME k + 2 <= n PROVE k + 2 \in S
    BY Z3
  <2>1. k + 1 \in 1 .. n - 1 /\ k + 1 <= n /\ (k + 1) + 1 = k + 2
    OBVIOUS
  <2> QED
    BY <1>2, <2>1
<1>3. Nat \subseteq N
  <2> HIDE DEF N
  <2> QED
    BY <1>1, <1>2, UpFromZero
<1>4. ASSUME NEW k \in 1 .. n PROVE k \in S
  <2>1. k - 1 \in N /\ (k - 1) + 1 = k /\ k <= n
    BY <1>3
  <2> QED
    BY <2>1
<1> QED
  BY <1>4

Runs(f, S, s) ==
    /\ f \in [1 .. Len(s) -> Seq(S)] /\ f[1] = s[1]
    /\ \A k \in 1 .. Len(s) - 1 : f[k + 1] = f[k] \o s[k + 1]

LEMMA FlattenSteps ==
    ASSUME NEW S, NEW s \in Seq(Seq(S)), Len(s) > 0
    PROVE  \E f : Runs(f, S, s) /\ FlattenSeq(s) = f[Len(s)]
<1> DEFINE n == Len(s)
           next == [k \in 1 .. n - 1 |-> [x \in Seq(S) |-> x \o s[k + 1]]]
           Is(g) == g = [i \in 1 .. n |-> IF i = 1 THEN s[i] ELSE g[i - 1] \o s[i]]
           f == CHOOSE g : Is(g)
<1>0. n \in Nat \ {0} /\ \A k \in 1 .. n : s[k] \in Seq(S)
  OBVIOUS
<1>4. FlattenSeq(s) = f[n]
  BY DEF FlattenSeq
<1> HIDE DEF n
<1>1. PICK r : Course(r, Seq(S), s[1], n - 1, next)
  <2>1. next \in [1 .. n - 1 -> [Seq(S) -> Seq(S)]]
    BY <1>0
  <2>2. s[1] \in Seq(S) /\ n - 1 \in Nat
    BY <1>0
  <2> HIDE DEF next
  <2> QED
    BY <2>1, <2>2, Recursion
<1>2. Is([k \in 1 .. n |-> r[k - 1]])
  <2> DEFINE g == [k \in 1 .. n |-> r[k - 1]]
  <2>1. ASSUME NEW k \in 1 .. n PROVE g[k] = IF k = 1 THEN s[k] ELSE g[k - 1] \o s[k]
    <3>1. CASE k = 1
      BY <1>0, <1>1, <3>1 DEF Course
    <3>2. CASE k # 1
      <4>1. k - 1 \in 1 .. n - 1 /\ k - 2 \in 0 .. n - 1 /\ (k - 1) - 1 = k - 2 /\ (k - 1) + 1 = k
        BY <1>0, <3>2
      <4>2. r[k - 1] = next[k - 1][r[k - 2]] /\ r[k - 2] \in Seq(S)
        BY <1>1, <4>1 DEF Course
      <4>3. g[k] = r[k - 1] /\ g[k - 1] = r[k - 2]
        BY <1>0, <4>1
      <4>4. \A x \in Seq(S) : next[k - 1][x] = x \o s[k]
        BY <4>1
      <4> HIDE DEF g, next
      <4> QED
        BY <3>2, <4>2, <4>3, <4>4
    <3> QED
      BY <3>1, <3>2
  <2>2. g = [k \in 1 .. n |-> g[k]]
    OBVIOUS
  <2> HIDE DEF g
  <2>3. Is(g)
    BY <2>1, <2>2
  <2> QED
    BY <2>3 DEF g
<1>3. Is(f)
  BY <1>2
<1> HIDE DEF f, next
<1>5. f[1] = s[1] /\ \A k \in 1 .. n - 1 : f[k + 1] = f[k] \o s[k + 1]
  <2>1. 1 \in 1 .. n
    BY <1>0
  <2>2. ASSUME NEW k \in 1 .. n - 1 PROVE f[k + 1] = f[k] \o s[k + 1]
    <3>1. k + 1 \in 1 .. n /\ k + 1 # 1 /\ (k + 1) - 1 = k
      BY <1>0
    <3> QED
      BY <1>3, <3>1
  <2> QED
    BY <1>3, <2>1, <2>2
<1>6. \A k \in 1 .. n : f[k] \in Seq(S)
  <2> DEFINE N == {k \in 1 .. n : f[k] \in Seq(S)}
  <2>1. 1 \in N
    BY <1>0, <1>5
  <2>2. ASSUME NEW k \in 1 .. n - 1, k \in N PROVE k + 1 \in N
    <3>1. k + 1 \in 1 .. n
      BY <1>0
    <3>2. s[k + 1] \in Seq(S) /\ f[k] \in Seq(S)
      BY <1>0, <2>2, <3>1
    <3>3. f[k + 1] = f[k] \o s[k + 1]
      BY <1>5
    <3>4. f[k] \o s[k + 1] \in Seq(S)
      BY <3>2, ConcatProperties
    <3> QED
      BY <3>1, <3>3, <3>4
  <2>3. \A k \in 1 .. n : k \in N
    <3> HIDE DEF N
    <3> QED
      BY <1>0, <2>1, <2>2, UpFromOne
  <2> QED
    BY <2>3
<1>7. f \in [1 .. n -> Seq(S)]
  <2>1. f = [k \in 1 .. n |-> f[k]]
    BY <1>3
  <2> QED
    BY <1>6, <2>1
<1> QED
  BY <1>4, <1>5, <1>7 DEF n, Runs

LEMMA FlattenType ==
    ASSUME NEW S, NEW s \in Seq(Seq(S))
    PROVE  FlattenSeq(s) \in Seq(S)
<1>1. CASE Len(s) = 0
  BY <1>1 DEF FlattenSeq
<1>2. CASE Len(s) > 0
  <2>1. PICK f : Runs(f, S, s) /\ FlattenSeq(s) = f[Len(s)]
    BY <1>2, FlattenSteps
  <2>2. Len(s) \in 1 .. Len(s)
    BY <1>2
  <2> QED
    BY <2>1, <2>2 DEF Runs
<1> QED
  BY <1>1, <1>2

LEMMA FlattenEmpty == FlattenSeq(<<>>) = <<>>
BY DEF FlattenSeq

LEMMA FlattenAppend ==
    ASSUME NEW S, NEW s \in Seq(Seq(S)), NEW x \in Seq(S)
    PROVE  FlattenSeq(Append(s, x)) = FlattenSeq(s) \o x
<1> DEFINE t == Append(s, x)
           n == Len(s)
<1>1. /\ n \in Nat /\ t \in Seq(Seq(S)) /\ Len(t) = n + 1 /\ t[n + 1] = x
      /\ \A k \in 1 .. n : t[k] = s[k]
  OBVIOUS
<1> HIDE DEF t, n
<1>2. PICK g : Runs(g, S, t) /\ FlattenSeq(t) = g[n + 1]
  <2>1. Len(t) > 0
    BY <1>1
  <2>2. \E g : Runs(g, S, t) /\ FlattenSeq(t) = g[Len(t)]
    BY <1>1, <2>1, FlattenSteps
  <2> QED
    BY <1>1, <2>2
<1>3. CASE n = 0
  <2>1. s = <<>> /\ <<>> \o x = x
    BY <1>3 DEF n
  <2>2. g[1] = x
    BY <1>1, <1>2, <1>3 DEF Runs
  <2> QED
    BY <1>2, <1>3, <2>1, <2>2, FlattenEmpty DEF t
<1>4. CASE n > 0
  <2>1. PICK f : Runs(f, S, s) /\ FlattenSeq(s) = f[n]
    BY <1>4, FlattenSteps DEF n
  <2> DEFINE N == {k \in 1 .. n : g[k] = f[k]}
  <2>2. 1 \in N
    BY <1>1, <1>2, <1>4, <2>1 DEF Runs
  <2>3. ASSUME NEW k \in 1 .. n - 1, k \in N PROVE k + 1 \in N
    <3>1. k + 1 \in 1 .. n /\ k \in 1 .. (n + 1) - 1
      BY <1>1
    <3>2. g[k + 1] = g[k] \o t[k + 1] /\ f[k + 1] = f[k] \o s[k + 1]
      BY <1>1, <1>2, <2>1, <3>1 DEF Runs, n
    <3> QED
      BY <1>1, <2>3, <3>1, <3>2
  <2>4. n \in N
    <3> HIDE DEF N
    <3>1. n \in Nat \ {0} /\ n \in 1 .. n
      BY <1>1, <1>4
    <3>2. \A k \in 1 .. n : k \in N
      BY <2>2, <2>3, <3>1, UpFromOne
    <3> QED
      BY <3>1, <3>2
  <2>5. g[n] = f[n]
    BY <2>4
  <2>6. n \in 1 .. (n + 1) - 1
    BY <1>1, <1>4
  <2>7. g[n + 1] = g[n] \o x
    BY <1>1, <1>2, <2>6 DEF Runs
  <2> QED
    BY <1>2, <2>1, <2>5, <2>7 DEF t
<1> QED
  BY <1>1, <1>3, <1>4

LEMMA FlattenFirst ==
    ASSUME NEW S, NEW s \in Seq(Seq(S)), Len(s) > 0
    PROVE  FlattenSeq(s) = s[1] \o FlattenSeq(From(s, 1))
<1> DEFINE t == From(s, 1)
           n == Len(t)
<1>1. /\ t \in Seq(Seq(S)) /\ Len(s) = n + 1 /\ n \in Nat
      /\ \A k \in 1 .. n : t[k] = s[k + 1] /\ t[k] \in Seq(S)
      /\ s[1] \in Seq(S)
  <2>1. 1 \in 0 .. Len(s) /\ Len(s) \in Nat
    OBVIOUS
  <2>2. t \in Seq(Seq(S)) /\ Len(t) = Len(s) - 1 /\ \A k \in 1 .. Len(s) - 1 : t[k] = s[1 + k]
    BY <2>1, FromOf
  <2> HIDE DEF t
  <2> QED
    BY <2>1, <2>2
<1> HIDE DEF t, n
<1>2. PICK g : Runs(g, S, s) /\ FlattenSeq(s) = g[n + 1]
  <2>1. \E g : Runs(g, S, s) /\ FlattenSeq(s) = g[Len(s)]
    BY FlattenSteps
  <2> QED
    BY <1>1, <2>1
<1>3. CASE n = 0
  <2>1. t = <<>>
    BY <1>1, <1>3 DEF n
  <2>2. s[1] \o <<>> = s[1]
    BY <1>1
  <2>3. g[1] = s[1]
    BY <1>2 DEF Runs
  <2> QED
    BY <1>2, <1>3, <2>1, <2>2, <2>3, FlattenEmpty DEF t
<1>4. CASE n > 0
  <2>1. PICK f : Runs(f, S, t) /\ FlattenSeq(t) = f[n]
    BY <1>1, <1>4, FlattenSteps DEF n
  <2> DEFINE N == {k \in 1 .. n : g[k + 1] = s[1] \o f[k]}
  <2>2. 1 \in N
    <3>1. 1 \in 1 .. n /\ 1 \in 1 .. (n + 1) - 1 /\ 1 + 1 = 2
      BY <1>1, <1>4
    <3>2. g[1 + 1] = g[1] \o s[1 + 1] /\ g[1] = s[1] /\ f[1] = t[1]
      BY <1>1, <1>2, <2>1, <3>1 DEF Runs
    <3>3. t[1] = s[1 + 1]
      BY <1>1, <3>1
    <3> QED
      BY <3>1, <3>2, <3>3
  <2>3. ASSUME NEW k \in 1 .. n - 1, k \in N PROVE k + 1 \in N
    <3>1. k + 1 \in 1 .. n /\ k + 1 \in 1 .. (n + 1) - 1 /\ k \in 1 .. n
      BY <1>1
    <3>2. /\ g[(k + 1) + 1] = g[k + 1] \o s[(k + 1) + 1]
          /\ f[k + 1] = f[k] \o t[k + 1] /\ t[k + 1] = s[(k + 1) + 1]
      BY <1>1, <1>2, <2>1, <3>1 DEF Runs, n
    <3>3. f[k] \in Seq(S) /\ t[k + 1] \in Seq(S)
      BY <1>1, <2>1, <3>1 DEF Runs, n
    <3>4. Alike(s[1], f[k], t[k + 1])
      BY <1>1, <3>3, AlikeIn
    <3>5. g[k + 1] = s[1] \o f[k]
      BY <2>3
    <3>6. (s[1] \o f[k]) \o t[k + 1] = s[1] \o (f[k] \o t[k + 1])
      BY <3>4 DEF Alike
    <3>7. g[(k + 1) + 1] = s[1] \o f[k + 1]
      BY <3>2, <3>5, <3>6
    <3> QED
      BY <3>1, <3>7
  <2>4. n \in N
    <3> HIDE DEF N
    <3>1. n \in Nat \ {0} /\ n \in 1 .. n
      BY <1>1, <1>4
    <3>2. \A k \in 1 .. n : k \in N
      BY <2>2, <2>3, <3>1, UpFromOne
    <3> QED
      BY <3>1, <3>2
  <2> QED
    BY <1>2, <2>1, <2>4 DEF t
<1> QED
  BY <1>1, <1>3, <1>4

----------------------------------------------------------------------------
(* Lists of items *)

LEMMA TotalSteps ==
    ASSUME NEW lengths \in Seq(Nat)
    PROVE  \E f : /\ f \in [0 .. Len(lengths) -> Nat] /\ f[0] = 0
                  /\ \A k \in 1 .. Len(lengths) : f[k] = f[k - 1] + lengths[k]
                  /\ Total(lengths) = f[Len(lengths)]
<1> DEFINE n == Len(lengths)
           next == [k \in 1 .. n |-> [x \in Nat |-> x + lengths[k]]]
           Is(g) == g = [k \in 0 .. n |-> IF k = 0 THEN 0 ELSE g[k - 1] + lengths[k]]
           v == CHOOSE g : Is(g)
<1>0. n \in Nat /\ \A k \in 1 .. n : lengths[k] \in Nat
  OBVIOUS
<1>4. Total(lengths) = v[n]
  BY DEF Total
<1> HIDE DEF n
<1>1. PICK f : Course(f, Nat, 0, n, next)
  <2>1. next \in [1 .. n -> [Nat -> Nat]]
    BY <1>0
  <2>2. 0 \in Nat
    OBVIOUS
  <2> HIDE DEF next
  <2> QED
    BY <1>0, <2>1, <2>2, Recursion
<1>2. Is(f)
  <2>1. ASSUME NEW k \in 1 .. n PROVE f[k] = f[k - 1] + lengths[k]
    <3>0. k - 1 \in 0 .. n
      BY <1>0
    <3>1. f[k - 1] \in Nat /\ f[k] = next[k][f[k - 1]]
      BY <1>1, <3>0 DEF Course
    <3> QED
      BY <3>1
  <2>2. f = [k \in 0 .. n |-> f[k]] /\ f[0] = 0
    BY <1>1 DEF Course
  <2> HIDE DEF next
  <2>3. ASSUME NEW k \in 0 .. n PROVE f[k] = IF k = 0 THEN 0 ELSE f[k - 1] + lengths[k]
    <3>1. CASE k = 0
      BY <2>2, <3>1
    <3>2. CASE k # 0
      <4>1. k \in 1 .. n
        BY <1>0, <3>2
      <4> QED
        BY <2>1, <3>2, <4>1
    <3> QED
      BY <3>1, <3>2
  <2> QED
    BY <2>2, <2>3
<1>3. Is(v)
  BY <1>2
<1> HIDE DEF v
<1>5. v \in [0 .. n -> Nat]
  <2> HIDE DEF next
  <2> DEFINE S == {k \in Nat : k <= n => v[k] \in Nat}
  <2>1. 0 \in S
    BY <1>0, <1>3
  <2>2. ASSUME NEW k \in Nat, k \in S PROVE k + 1 \in S
    BY <1>0, <1>3, <2>2
  <2>3. Nat \subseteq S
    <3> HIDE DEF S
    <3> QED
      BY <2>1, <2>2, UpFromZero
  <2> QED
    BY <1>3, <2>3
<1>6. v \in [0 .. n -> Nat] /\ v[0] = 0 /\ \A k \in 1 .. n : v[k] = v[k - 1] + lengths[k]
  BY <1>0, <1>3, <1>5
<1> QED
  BY <1>4, <1>6 DEF n

\* A list takes as many octets as its items together.
LEMMA LengthOf ==
    ASSUME NEW S, NEW s \in Seq(Seq(S)), NEW lengths \in Seq(Nat), Len(lengths) = Len(s),
           \A k \in 1 .. Len(s) : Len(s[k]) = lengths[k]
    PROVE  Len(FlattenSeq(s)) = Total(lengths)
<1> DEFINE n == Len(s)
<1>1. n \in Nat /\ \A k \in 1 .. n : s[k] \in Seq(S) /\ Len(s[k]) = lengths[k] /\ lengths[k] \in Nat
  OBVIOUS
<1>2. PICK t : /\ t \in [0 .. n -> Nat] /\ t[0] = 0
               /\ \A k \in 1 .. n : t[k] = t[k - 1] + lengths[k]
               /\ Total(lengths) = t[n]
  BY TotalSteps
<1>3. CASE n = 0
  <2>1. s = <<>>
    BY <1>3
  <2> QED
    BY <1>2, <1>3, <2>1, FlattenEmpty
<1>4. CASE n > 0
  <2>1. PICK f : Runs(f, S, s) /\ FlattenSeq(s) = f[n]
    BY <1>4, FlattenSteps
  <2>2. /\ \A k \in 1 .. n : f[k] \in Seq(S)
        /\ f[1] = s[1] /\ \A k \in 1 .. n - 1 : f[k + 1] = f[k] \o s[k + 1]
    BY <2>1 DEF Runs
  <2> HIDE DEF n
  <2> DEFINE N == {k \in 1 .. n : Len(f[k]) = t[k]}
  <2>3. 1 \in N
    <3>1. 1 \in 1 .. n /\ 1 - 1 = 0
      BY <1>1, <1>4
    <3>2. t[1] = t[0] + lengths[1]
      BY <1>2, <3>1
    <3>3. Len(f[1]) = lengths[1] /\ lengths[1] \in Nat
      BY <1>1, <2>2, <3>1
    <3> QED
      BY <1>2, <3>1, <3>2, <3>3
  <2>4. ASSUME NEW k \in 1 .. n - 1, k \in N PROVE k + 1 \in N
    <3>1. k + 1 \in 1 .. n /\ (k + 1) - 1 = k /\ k \in 1 .. n
      BY <1>1
    <3>2. t[k + 1] = t[k] + lengths[k + 1]
      BY <1>2, <3>1
    <3>3. f[k + 1] = f[k] \o s[k + 1] /\ f[k] \in Seq(S) /\ s[k + 1] \in Seq(S)
      BY <1>1, <2>2, <3>1
    <3>4. Len(f[k + 1]) = Len(f[k]) + Len(s[k + 1])
      BY <3>3, Joint
    <3> QED
      BY <1>1, <2>4, <3>1, <3>2, <3>4
  <2>5. n \in N
    <3> HIDE DEF N
    <3>1. n \in Nat \ {0} /\ n \in 1 .. n
      BY <1>1, <1>4
    <3>2. \A k \in 1 .. n : k \in N
      BY <2>3, <2>4, <3>1, UpFromOne
    <3> QED
      BY <3>1, <3>2
  <2> QED
    BY <1>2, <2>1, <2>5
<1> QED
  BY <1>1, <1>3, <1>4

LEMMA SameLength ==
    ASSUME NEW S, NEW s \in Seq(Seq(S)), NEW c \in Nat, \A k \in 1 .. Len(s) : Len(s[k]) = c
    PROVE  Len(FlattenSeq(s)) = Len(s) * c
<1> DEFINE n == Len(s)
           lengths == [k \in 1 .. n |-> c]
<1>1. n \in Nat
  OBVIOUS
<1>2. lengths \in Seq(Nat) /\ Len(lengths) = n /\ \A k \in 1 .. n : lengths[k] = c
  BY <1>1
<1> HIDE DEF lengths
<1>3. Len(FlattenSeq(s)) = Total(lengths)
  BY <1>2, LengthOf
<1>4. PICK t : /\ t \in [0 .. n -> Nat] /\ t[0] = 0
               /\ \A k \in 1 .. n : t[k] = t[k - 1] + lengths[k]
               /\ Total(lengths) = t[n]
  BY <1>2, TotalSteps
<1> HIDE DEF n
<1> DEFINE N == {k \in Nat : k <= n => t[k] = k * c}
<1>5. 0 \in N
  BY <1>4
<1>6. ASSUME NEW k \in Nat, k \in N PROVE k + 1 \in N
  <2> SUFFICES ASSUME k + 1 <= n PROVE t[k + 1] = (k + 1) * c
    OBVIOUS
  <2>1. k + 1 \in 1 .. n /\ (k + 1) - 1 = k /\ t[k] = k * c
    BY <1>1, <1>6
  <2>2. t[k + 1] = t[k] + c
    BY <1>2, <1>4, <2>1
  <2>3. (k + 1) * c = k * c + c
    OBVIOUS
  <2> QED
    BY <2>1, <2>2, <2>3
<1>7. n \in N
  <2> HIDE DEF N
  <2> QED
    BY <1>1, <1>5, <1>6, UpFromZero
<1>8. t[n] = n * c
  BY <1>1, <1>7
<1> QED
  BY <1>3, <1>4, <1>8 DEF n

\* Where the reading of a list is after k items.
After(items, codes, tail, k) ==
    {[items |-> SubSeq(items, 1, k), rest |-> FlattenSeq(From(codes, k)) \o tail]}

Progress(items, codes, tail) ==
    /\ After(items, codes, tail, 0) = {[items |-> <<>>, rest |-> FlattenSeq(codes) \o tail]}
    /\ After(items, codes, tail, Len(items)) = {[items |-> items, rest |-> tail]}
    /\ \A k \in 1 .. Len(items) : \E x, rest :
         /\ rest \in Bytes
         /\ After(items, codes, tail, k - 1) = {[items |-> x, rest |-> codes[k] \o rest]}
         /\ After(items, codes, tail, k) = {[items |-> Append(x, items[k]), rest |-> rest]}

LEMMA AfterOf ==
    ASSUME NEW T, NEW items \in Seq(T), NEW codes \in Seq(Bytes), Len(codes) = Len(items),
           NEW tail \in Bytes
    PROVE  Progress(items, codes, tail)
<1> DEFINE n == Len(items)
<1>0. n \in Nat /\ codes \in Seq(Seq(Octet)) /\ tail \in Seq(Octet) /\ Len(codes) = n
  BY DEF Bytes
<1>1. SubSeq(items, 1, 0) = <<>> /\ SubSeq(items, 1, n) = items
  BY SubSeqEmpty, SubSeqFull
<1>2. From(codes, 0) = codes
  BY <1>0, SubSeqFull DEF From
<1>3. From(codes, n) = <<>>
  BY <1>0, SubSeqEmpty DEF From
<1>4. <<>> \o tail = tail
  BY <1>0
<1>5. ASSUME NEW k \in 1 .. n
      PROVE  \E x, rest :
                /\ rest \in Bytes
                /\ After(items, codes, tail, k - 1) = {[items |-> x, rest |-> codes[k] \o rest]}
                /\ After(items, codes, tail, k) = {[items |-> Append(x, items[k]), rest |-> rest]}
  <2> DEFINE b == From(codes, k - 1)
             r == FlattenSeq(From(codes, k))
  <2>1. /\ k - 1 \in 0 .. n /\ k \in 0 .. n /\ k \in Nat /\ codes[k] \in Seq(Octet)
        /\ n - (k - 1) > 0 /\ 1 \in 1 .. n - (k - 1) /\ (k - 1) + 1 = k
    BY <1>0
  <2>2. /\ b \in Seq(Seq(Octet)) /\ Len(b) = n - (k - 1)
        /\ \A j \in 1 .. n - (k - 1) : b[j] = codes[(k - 1) + j]
    <3>1. k - 1 \in 0 .. Len(codes)
      BY <1>0, <2>1
    <3>2. /\ b \in Seq(Seq(Octet)) /\ Len(b) = Len(codes) - (k - 1)
          /\ \A j \in 1 .. Len(codes) - (k - 1) : b[j] = codes[(k - 1) + j]
      BY <1>0, <3>1, FromOf
    <3> HIDE DEF b
    <3> QED
      BY <1>0, <3>2
  <2>3. From(b, 1) = From(codes, k)
    <3>1. 1 \in 0 .. Len(b)
      BY <2>1, <2>2
    <3>2. /\ From(b, 1) \in Seq(Seq(Octet)) /\ Len(From(b, 1)) = Len(b) - 1
          /\ \A j \in 1 .. Len(b) - 1 : From(b, 1)[j] = b[1 + j]
      BY <2>2, <3>1, FromOf
    <3>3. /\ From(codes, k) \in Seq(Seq(Octet)) /\ Len(From(codes, k)) = n - k
          /\ \A j \in 1 .. n - k : From(codes, k)[j] = codes[k + j]
      BY <1>0, <2>1, FromOf
    <3>4. Len(b) - 1 = n - k
      BY <1>0, <2>1, <2>2
    <3>5. ASSUME NEW j \in 1 .. n - k PROVE From(b, 1)[j] = From(codes, k)[j]
      <4>1. 1 + j \in 1 .. n - (k - 1) /\ (k - 1) + (1 + j) = k + j
        BY <1>0, <2>1
      <4>2. From(b, 1)[j] = b[1 + j] /\ b[1 + j] = codes[k + j]
        BY <2>2, <3>2, <3>4, <4>1
      <4> QED
        BY <3>3, <4>2
    <3> HIDE DEF b
    <3> DEFINE l == From(b, 1)
               m == From(codes, k)
    <3>6. l \in Seq(Seq(Octet)) /\ m \in Seq(Seq(Octet)) /\ Len(l) = n - k /\ Len(m) = n - k
      BY <3>2, <3>3, <3>4
    <3>7. \A j \in 1 .. n - k : l[j] = m[j]
      BY <3>5
    <3> HIDE DEF l, m, n
    <3>8. Len(l) = Len(m) /\ \A j \in 1 .. Len(l) : l[j] = m[j]
      BY <3>6, <3>7
    <3>9. l = m
      BY <3>6, <3>8, SeqEqual
    <3> QED
      BY <3>9 DEF l, m
  <2>4. b[1] = codes[k]
    BY <2>1, <2>2
  <2>5. FlattenSeq(b) = codes[k] \o r
    <3>1. Len(b) > 0
      BY <2>1, <2>2
    <3>2. FlattenSeq(b) = b[1] \o FlattenSeq(From(b, 1))
      BY <2>2, <3>1, FlattenFirst
    <3> QED
      BY <2>3, <2>4, <3>2
  <2>6. r \in Seq(Octet)
    <3>1. From(codes, k) \in Seq(Seq(Octet))
      BY <1>0, <2>1, FromOf
    <3> QED
      BY <3>1, FlattenType
  <2>7. FlattenSeq(b) \o tail = codes[k] \o (r \o tail) /\ r \o tail \in Seq(Octet)
    <3> HIDE DEF r, b
    <3>1. (codes[k] \o r) \o tail = codes[k] \o (r \o tail)
      <4>1. Alike(codes[k], r, tail)
        BY <1>0, <2>1, <2>6, AlikeIn
      <4> QED
        BY <4>1 DEF Alike
    <3>2. r \o tail \in Seq(Octet)
      BY <1>0, <2>6, Joint
    <3> QED
      BY <2>5, <3>1, <3>2
  <2>8. Append(SubSeq(items, 1, k - 1), items[k]) = SubSeq(items, 1, k)
    <3>1. 1 \in 1 .. n /\ k \in 1 .. n
      BY <1>0
    <3>2. SubSeq(items, 1, k) = SubSeq(items, 1, k - 1) \o <<items[k]>>
      BY <3>1, SubSeqRecursiveSecond
    <3>3. SubSeq(items, 1, k - 1) \in Seq(T) /\ items[k] \in T
      BY <2>1, FromOf
    <3> QED
      BY <3>2, <3>3, AppendIsConcat
  <2> DEFINE x == SubSeq(items, 1, k - 1)
             rest == r \o tail
  <2>9. After(items, codes, tail, k - 1) = {[items |-> x, rest |-> codes[k] \o rest]}
    BY <2>7 DEF After
  <2>10. After(items, codes, tail, k) = {[items |-> Append(x, items[k]), rest |-> rest]}
    BY <2>8 DEF After
  <2>11. rest \in Bytes
    BY <2>7 DEF Bytes
  <2> HIDE DEF x, rest
  <2> QED
    BY <2>9, <2>10, <2>11
<1>6. After(items, codes, tail, 0) = {[items |-> <<>>, rest |-> FlattenSeq(codes) \o tail]}
  BY <1>1, <1>2 DEF After
<1>7. After(items, codes, tail, n) = {[items |-> items, rest |-> tail]}
  BY <1>1, <1>3, <1>4, FlattenEmpty DEF After
<1> QED
  BY <1>5, <1>6, <1>7 DEF Progress

LEMMA SameCourse ==
    ASSUME NEW n \in Nat, NEW f, NEW g, f[0] = g[0],
           \A k \in 1 .. n : f[k - 1] = g[k - 1] => f[k] = g[k]
    PROVE  f[n] = g[n]
<1> DEFINE N == {k \in Nat : k <= n => f[k] = g[k]}
<1>1. 0 \in N
  OBVIOUS
<1>2. ASSUME NEW k \in Nat, k \in N PROVE k + 1 \in N
  <2> SUFFICES ASSUME k + 1 <= n PROVE f[k + 1] = g[k + 1]
    OBVIOUS
  <2>1. k + 1 \in 1 .. n /\ (k + 1) - 1 = k /\ f[k] = g[k]
    BY <1>2
  <2> QED
    BY <2>1
<1>3. n \in N
  <2> HIDE DEF N
  <2> QED
    BY <1>1, <1>2, UpFromZero
<1> QED
  BY <1>3

----------------------------------------------------------------------------
(* The parts of a code *)

LEMMA FirstOf ==
    ASSUME NEW S, NEW a \in Seq(S), NEW b \in Seq(S)
    PROVE  /\ Field(a \o b, 0, Len(a)) = a
           /\ Len(a) > 0 => (a \o b)[1] = a[1]
           /\ Len(b) > 0 => (a \o b)[Len(a) + 1] = b[1]
<1>1. <<>> \in Seq(S) /\ Len(<<>>) = 0 /\ a \o b \in Seq(S) /\ <<>> \o (a \o b) = a \o b
  BY Joint
<1>2. Field(<<>> \o (a \o b), Len(<<>>), Len(a)) = a
  BY <1>1, FieldOf
<1>3. Len(a) \in Nat /\ Len(b) \in Nat
  OBVIOUS
<1>4. /\ Len(a) > 0 => (a \o b)[1] = a[1]
      /\ Len(b) > 0 => (a \o b)[Len(a) + 1] = b[1]
  BY <1>3, ConcatProperties
<1> QED
  BY <1>1, <1>2, <1>4

LEMMA Joints ==
    /\ <<>> \in Bytes /\ Len(<<>>) = 0
    /\ \A a \in Bytes : Len(a) \in Nat /\ <<>> \o a = a /\ a \o <<>> = a
    /\ \A a, b \in Bytes : a \o b \in Bytes /\ Len(a \o b) = Len(a) + Len(b)
<1>1. <<>> \in Bytes /\ Len(<<>>) = 0
  BY DEF Bytes
<1>2. \A a \in Bytes : Len(a) \in Nat /\ <<>> \o a = a /\ a \o <<>> = a
  BY DEF Bytes
<1>3. \A a, b \in Bytes : a \o b \in Bytes /\ Len(a \o b) = Len(a) + Len(b)
  BY Joint DEF Bytes
<1> QED
  BY <1>1, <1>2, <1>3

LEMMA AlikeOf == \A a, b, c \in Bytes : Alike(a, b, c)
BY AlikeIn DEF Bytes

LEMMA Fields ==
    /\ \A a, b \in Bytes : Field(a \o b, 0, Len(a)) = a /\ From(a \o b, Len(a)) = b
    /\ \A a, b, c \in Bytes : Field(a \o (b \o c), Len(a), Len(b)) = b
    /\ \A a, b \in Bytes : /\ Len(a) > 0 => (a \o b)[1] = a[1]
                           /\ Len(b) > 0 => (a \o b)[Len(a) + 1] = b[1]
<1>1. \A a, b \in Bytes : Field(a \o b, 0, Len(a)) = a /\ From(a \o b, Len(a)) = b
  BY FirstOf, FieldOf DEF Bytes
<1>2. \A a, b, c \in Bytes : Field(a \o (b \o c), Len(a), Len(b)) = b
  BY FieldOf DEF Bytes
<1>3. \A a, b \in Bytes : /\ Len(a) > 0 => (a \o b)[1] = a[1]
                          /\ Len(b) > 0 => (a \o b)[Len(a) + 1] = b[1]
  BY FirstOf DEF Bytes
<1> QED
  BY <1>1, <1>2, <1>3

LEMMA ArrayOf ==
    ASSUME NEW n \in Nat, NEW a \in Array(n)
    PROVE  a \in Bytes /\ Len(a) = n
BY DEF Array, Bytes

LEMMA Widths ==
    /\ Base \in Nat /\ Base >= 2
    /\ IdLen \in Nat /\ IdLen > 0 /\ HashLen \in Nat /\ HashLen > 0 /\ ScoreLen \in Nat /\ ScoreLen > 0
BY WidthsAssumption

\* A flag and a hash.
LEMMA SiblingOf ==
    ASSUME NEW s \in Siblings
    PROVE  /\ PutSibling(s) \in Bytes /\ Len(PutSibling(s)) = 1 + HashLen
           /\ \A rest \in Bytes : GetSibling(PutSibling(s) \o rest) = {[item |-> s, rest |-> rest]}
<1> DEFINE flag == IF s.left THEN 1 ELSE 0
<1>1. /\ s.left \in BOOLEAN /\ s.hash \in Bytes /\ Len(s.hash) = HashLen
      /\ s = [left |-> s.left, hash |-> s.hash]
  BY Widths, ArrayOf DEF Siblings
<1>2. flag \in Octet /\ (flag # 0) = s.left
  BY <1>1, Widths DEF Octet
<1>3. PutSibling(s) = <<flag>> \o s.hash
  BY <1>2, OneOctet DEF PutSibling
<1> HIDE DEF flag
<1>4. <<flag>> \in Bytes /\ Len(<<flag>>) = 1
  BY <1>2 DEF Bytes
<1>5. ASSUME NEW rest \in Bytes PROVE GetSibling(PutSibling(s) \o rest) = {[item |-> s, rest |-> rest]}
  <2> DEFINE octets == PutSibling(s) \o rest
  <2>0. Alike(<<flag>>, s.hash, rest)
    BY <1>1, <1>4, AlikeOf
  <2>1. /\ octets = <<flag>> \o (s.hash \o rest) /\ s.hash \o rest \in Bytes
        /\ Len(<<flag>> \o s.hash) = 1 + HashLen /\ <<flag>> \o s.hash \in Bytes
    BY <1>1, <1>3, <1>4, <2>0, Joints DEF Alike
  <2>2. octets[1] = flag
    <3>1. (<<flag>> \o (s.hash \o rest))[1] = <<flag>>[1]
      BY <1>4, <2>1, Fields
    <3> QED
      BY <2>1, <3>1
  <2>3. Field(octets, 1, HashLen) = s.hash
    <3>1. Field(<<flag>> \o (s.hash \o rest), Len(<<flag>>), Len(s.hash)) = s.hash
      BY <1>1, <1>4, Fields
    <3> HIDE DEF octets
    <3> QED
      BY <1>1, <1>4, <2>1, <3>1
  <2>4. From(octets, 1 + HashLen) = rest
    <3>1. From((<<flag>> \o s.hash) \o rest, Len(<<flag>> \o s.hash)) = rest
      BY <2>1, Fields
    <3> QED
      BY <1>3, <2>1, <3>1
  <2> HIDE DEF octets
  <2>5. GetSibling(octets) = {[item |-> [left |-> (flag # 0), hash |-> s.hash], rest |-> rest]}
    BY <2>2, <2>3, <2>4 DEF GetSibling
  <2> QED
    BY <1>1, <1>2, <2>5 DEF octets
<1> QED
  BY <1>1, <1>3, <1>4, <1>5, Joint, Widths DEF Bytes

LEMMA IdOf ==
    ASSUME NEW id \in Array(IdLen)
    PROVE  /\ id \in Bytes /\ Len(id) = IdLen
           /\ \A rest \in Bytes : GetId(id \o rest) = {[item |-> id, rest |-> rest]}
<1>1. id \in Bytes /\ Len(id) = IdLen
  BY ArrayOf, Widths
<1>2. ASSUME NEW rest \in Bytes PROVE GetId(id \o rest) = {[item |-> id, rest |-> rest]}
  <2>1. Len(id \o rest) >= IdLen
    BY <1>1, Joint, Widths DEF Bytes
  <2>2. Field(id \o rest, 0, IdLen) = id /\ From(id \o rest, IdLen) = rest
    BY <1>1, FirstOf, FieldOf DEF Bytes
  <2> QED
    BY <2>1, <2>2, Widths DEF GetId
<1> QED
  BY <1>1, <1>2

\* An id and an address, with something more.
Named(id, addr, more) == ((id \o Put(Len(addr), 1)) \o addr) \o more

Starts(octets, id, addr, more, rest) ==
    LET tail == From(octets, IdLen + 1) IN
    /\ octets \in Bytes /\ Len(octets) >= IdLen + 1
    /\ octets[IdLen + 1] = Len(addr)
    /\ tail \in Bytes /\ Len(tail) >= Len(addr) + Len(more)
    /\ Field(octets, 0, IdLen) = id /\ Field(tail, 0, Len(addr)) = addr
    /\ Field(tail, Len(addr), Len(more)) = more
    /\ From(tail, Len(addr) + Len(more)) = rest

LEMMA NamedOf ==
    ASSUME NEW id \in Array(IdLen), NEW addr \in Lists(Octet, 1), NEW more \in Bytes
    PROVE  /\ addr \in Bytes
           /\ Named(id, addr, more) \in Bytes
           /\ Len(Named(id, addr, more)) = IdLen + 1 + Len(addr) + Len(more)
           /\ \A rest \in Bytes : Starts(Named(id, addr, more) \o rest, id, addr, more, rest)
<1> DEFINE len == Put(Len(addr), 1)
           code == ((id \o len) \o addr) \o more
<1>1. id \in Bytes /\ Len(id) = IdLen /\ addr \in Bytes
  BY ArrayOf, Widths DEF Lists, Bytes
<1>2. Len(addr) \in Octet /\ len = <<Len(addr)>>
  BY OneOctet DEF Lists
<1>3. len \in Bytes /\ Len(len) = 1 /\ len[1] = Len(addr)
  <2>1. \A x : x \in Octet => <<x>> \in Bytes /\ Len(<<x>>) = 1 /\ <<x>>[1] = x
    BY DEF Bytes
  <2> HIDE DEF len
  <2> QED
    BY <1>2, <2>1
<1>4. Len(addr) \in Nat /\ Len(more) \in Nat
  BY <1>1, Joints
<1> HIDE DEF len
<1>5. /\ id \o len \in Bytes /\ Len(id \o len) = IdLen + 1
      /\ (id \o len) \o addr \in Bytes /\ Len((id \o len) \o addr) = IdLen + 1 + Len(addr)
  <2>1. id \o len \in Bytes /\ Len(id \o len) = IdLen + 1
    BY <1>1, <1>3, Joints
  <2> QED
    BY <1>1, <2>1, Joints
<1>6. code \in Bytes /\ Len(code) = IdLen + 1 + Len(addr) + Len(more)
  BY <1>1, <1>5, Joints
<1>7. ASSUME NEW rest \in Bytes PROVE Starts(code \o rest, id, addr, more, rest)
  <2> DEFINE octets == code \o rest
             t == addr \o (more \o rest)
  <2>1. Len(rest) \in Nat /\ octets \in Bytes
    BY <1>6, Joints
  <2>2. /\ more \o rest \in Bytes /\ t \in Bytes /\ Len(t) = Len(addr) + Len(more) + Len(rest)
        /\ len \o t \in Bytes /\ Len(len \o t) = 1 + Len(t)
    <3>1. more \o rest \in Bytes /\ Len(more \o rest) = Len(more) + Len(rest)
      BY Joints
    <3>2. t \in Bytes /\ Len(t) = Len(addr) + Len(more \o rest)
      BY <1>1, <3>1, Joints
    <3>3. Len(t) = Len(addr) + Len(more) + Len(rest)
      BY <1>4, <2>1, <3>1, <3>2
    <3> HIDE DEF t
    <3>4. len \o t \in Bytes /\ Len(len \o t) = Len(len) + Len(t)
      BY <1>3, <3>2, Joints
    <3> QED
      BY <1>3, <3>1, <3>2, <3>3, <3>4
  <2>3. octets = (id \o len) \o t
    <3>1. /\ Alike((id \o len) \o addr, more, rest)
          /\ Alike(id \o len, addr, more \o rest)
      BY <1>1, <1>5, <2>2, AlikeOf
    <3> QED
      BY <3>1 DEF Alike
  <2>4. octets = id \o (len \o t)
    <3> HIDE DEF octets, t
    <3>1. Alike(id, len, t)
      BY <1>1, <1>3, <2>2, AlikeOf
    <3> QED
      BY <2>3, <3>1 DEF Alike
  <2> HIDE DEF octets
  <2>5. From(octets, IdLen + 1) = t
    BY <1>5, <2>2, <2>3, Fields
  <2>6. Len(octets) >= IdLen + 1
    BY <1>4, <1>5, <2>1, <2>2, <2>3, Joints, Widths
  <2>7. octets[IdLen + 1] = Len(addr)
    <3>1. (id \o (len \o t))[Len(id) + 1] = (len \o t)[1]
      BY <1>1, <1>4, <2>1, <2>2, Fields
    <3>2. (len \o t)[1] = len[1]
      BY <1>3, <2>2, Fields
    <3> QED
      BY <1>1, <1>3, <2>4, <3>1, <3>2
  <2>8. Field(octets, 0, IdLen) = id
    BY <1>1, <2>2, <2>4, Fields
  <2>9. Field(t, 0, Len(addr)) = addr /\ Field(t, Len(addr), Len(more)) = more
    BY <1>1, <2>2, Fields
  <2>10. From(t, Len(addr) + Len(more)) = rest
    <3>1. t = (addr \o more) \o rest /\ addr \o more \in Bytes /\ Len(addr \o more) = Len(addr) + Len(more)
      <4>1. Alike(addr, more, rest)
        BY <1>1, AlikeOf
      <4> QED
        BY <1>1, <4>1, Joints DEF Alike
    <3> HIDE DEF t
    <3>2. From((addr \o more) \o rest, Len(addr \o more)) = rest
      BY <3>1, Fields
    <3> QED
      BY <3>1, <3>2
  <2>11. Len(t) >= Len(addr) + Len(more)
    BY <1>4, <2>1, <2>2
  <2> HIDE DEF t
  <2> QED
    BY <2>1, <2>2, <2>5, <2>6, <2>7, <2>8, <2>9, <2>10, <2>11 DEF octets, Starts
<1> QED
  BY <1>1, <1>6, <1>7 DEF len, Named

LEMMA PexPeerOf ==
    ASSUME NEW p \in PexPeers
    PROVE  /\ PutPexPeer(p) \in Bytes /\ Len(PutPexPeer(p)) = IdLen + 1 + Len(p.addr) + ScoreLen
           /\ \A rest \in Bytes : GetPexPeer(PutPexPeer(p) \o rest) = {[item |-> p, rest |-> rest]}
<1>1. /\ p.id \in Array(IdLen) /\ p.addr \in Lists(Octet, 1) /\ p.score \in Array(ScoreLen)
      /\ p = [id |-> p.id, addr |-> p.addr, score |-> p.score]
  BY DEF PexPeers
<1>2. p.score \in Bytes /\ Len(p.score) = ScoreLen
  BY <1>1, ArrayOf, Widths
<1> DEFINE code == Named(p.id, p.addr, p.score)
<1>3. PutPexPeer(p) = code
  BY DEF PutPexPeer, Named
<1>4. /\ p.addr \in Bytes /\ code \in Bytes /\ Len(code) = IdLen + 1 + Len(p.addr) + Len(p.score)
      /\ \A rest \in Bytes : Starts(code \o rest, p.id, p.addr, p.score, rest)
  BY <1>1, <1>2, NamedOf
<1> HIDE DEF code
<1>5. ASSUME NEW rest \in Bytes PROVE GetPexPeer(code \o rest) = {[item |-> p, rest |-> rest]}
  <2> DEFINE octets == code \o rest
             tail == From(octets, IdLen + 1)
  <2>1. Starts(octets, p.id, p.addr, p.score, rest)
    BY <1>4
  <2> HIDE DEF octets
  <2>2. /\ octets[IdLen + 1] = Len(p.addr)
        /\ Field(octets, 0, IdLen) = p.id /\ Field(tail, 0, Len(p.addr)) = p.addr
        /\ Field(tail, Len(p.addr), ScoreLen) = p.score
        /\ From(tail, Len(p.addr) + ScoreLen) = rest
    BY <1>2, <2>1 DEF Starts
  <2>3. ~(Len(octets) < IdLen + 1) /\ ~(Len(tail) < Len(p.addr) + ScoreLen)
    <3>1. Len(octets) >= IdLen + 1 /\ Len(octets) \in Nat /\ Len(tail) >= Len(p.addr) + ScoreLen /\ Len(tail) \in Nat
      BY <1>2, <2>1, Joints DEF Starts
    <3>2. Len(p.addr) \in Nat
      BY <1>4, Joints
    <3> HIDE DEF tail
    <3> QED
      BY <3>1, <3>2, Widths
  <2> QED
    BY <1>1, <2>2, <2>3 DEF GetPexPeer, octets
<1> QED
  BY <1>2, <1>3, <1>4, <1>5

----------------------------------------------------------------------------
(* The lists of the peer messages *)

\* A proof: the hashes and the sides they are on.
LEMMA SiblingsOf ==
    ASSUME NEW items \in Seq(Siblings), NEW tail \in Bytes
    PROVE  /\ PutAll(PutSibling, items) \in Bytes
           /\ Len(PutAll(PutSibling, items)) = Len(items) * (1 + HashLen)
           /\ GetAll(GetSibling, Len(items), PutAll(PutSibling, items) \o tail) = {[items |-> items, rest |-> tail]}
<1> DEFINE n == Len(items)
           codes == [k \in DOMAIN items |-> PutSibling(items[k])]
           octets == FlattenSeq(codes) \o tail
           Is(g) == g = [k \in 0 .. n |->
                            IF k = 0 THEN {[items |-> <<>>, rest |-> octets]}
                            ELSE UNION {{[items |-> Append(list.items, piece.item), rest |-> piece.rest] :
                                            piece \in GetSibling(list.rest)} : list \in g[k - 1]}]
           v == CHOOSE g : Is(g)
           w == [k \in 0 .. n |-> After(items, codes, tail, k)]
<1>0. n \in Nat /\ \A k \in 1 .. n : items[k] \in Siblings
  OBVIOUS
<1>1. /\ codes \in Seq(Bytes) /\ Len(codes) = n
      /\ \A k \in 1 .. n : /\ Len(codes[k]) = 1 + HashLen
                           /\ \A rest \in Bytes : GetSibling(codes[k] \o rest) = {[item |-> items[k], rest |-> rest]}
  BY <1>0, SiblingOf
<1>2. FlattenSeq(codes) \in Bytes
  BY <1>1, FlattenType DEF Bytes
<1>3. Len(FlattenSeq(codes)) = n * (1 + HashLen)
  <2>1. codes \in Seq(Seq(Octet)) /\ (1 + HashLen) \in Nat
    BY <1>1, Widths DEF Bytes
  <2> HIDE DEF codes
  <2> QED
    BY <1>1, <2>1, SameLength
<1>4. GetAll(GetSibling, n, octets) = v[n]
  BY DEF GetAll
<1>5. PutAll(PutSibling, items) = FlattenSeq(codes)
  BY DEF PutAll
<1> HIDE DEF codes, n
<1>6. /\ After(items, codes, tail, 0) = {[items |-> <<>>, rest |-> octets]}
      /\ After(items, codes, tail, n) = {[items |-> items, rest |-> tail]}
      /\ \A k \in 1 .. n : \E x, rest :
            /\ rest \in Bytes
            /\ After(items, codes, tail, k - 1) = {[items |-> x, rest |-> codes[k] \o rest]}
            /\ After(items, codes, tail, k) = {[items |-> Append(x, items[k]), rest |-> rest]}
  <2>1. Progress(items, codes, tail)
    BY <1>1, AfterOf DEF n
  <2> QED
    BY <2>1 DEF Progress, n
<1>7. Is(w)
  <2>1. ASSUME NEW k \in 1 .. n
        PROVE  w[k] = UNION {{[items |-> Append(list.items, piece.item), rest |-> piece.rest] :
                                piece \in GetSibling(list.rest)} : list \in w[k - 1]}
    <3>1. PICK x, rest :
                /\ rest \in Bytes
                /\ After(items, codes, tail, k - 1) = {[items |-> x, rest |-> codes[k] \o rest]}
                /\ After(items, codes, tail, k) = {[items |-> Append(x, items[k]), rest |-> rest]}
      BY <1>6
    <3>2. k - 1 \in 0 .. n /\ k \in 0 .. n
      BY <1>0
    <3>3. /\ w[k - 1] = {[items |-> x, rest |-> codes[k] \o rest]}
          /\ w[k] = {[items |-> Append(x, items[k]), rest |-> rest]}
      BY <3>1, <3>2
    <3>4. GetSibling(codes[k] \o rest) = {[item |-> items[k], rest |-> rest]}
      BY <1>1, <3>1
    <3> HIDE DEF w
    <3> DEFINE Read(list) == {[items |-> Append(list.items, piece.item), rest |-> piece.rest] :
                                 piece \in GetSibling(list.rest)}
               before == [items |-> x, rest |-> codes[k] \o rest]
    <3>5. Read(before) = {[items |-> Append(x, items[k]), rest |-> rest]}
      <4> DEFINE With(piece) == [items |-> Append(x, piece.item), rest |-> piece.rest]
                 found == [item |-> items[k], rest |-> rest]
      <4>1. Read(before) = {With(piece) : piece \in {found}}
        BY <3>4
      <4>2. {With(piece) : piece \in {found}} = {With(found)}
        <5> HIDE DEF With, found
        <5> QED
          OBVIOUS
      <4>3. With(found) = [items |-> Append(x, items[k]), rest |-> rest]
        OBVIOUS
      <4> HIDE DEF With, Read
      <4> QED
        BY <4>1, <4>2, <4>3
    <3>6. UNION {Read(list) : list \in {before}} = Read(before)
      <4> HIDE DEF Read, before
      <4> QED
        OBVIOUS
    <3>7. w[k - 1] = {before}
      BY <3>3
    <3>8. UNION {Read(list) : list \in w[k - 1]} = w[k]
      BY <3>3, <3>5, <3>6, <3>7
    <3> QED
      BY <3>8
  <2>2. ASSUME NEW k \in 0 .. n
        PROVE  w[k] = IF k = 0 THEN {[items |-> <<>>, rest |-> octets]}
                      ELSE UNION {{[items |-> Append(list.items, piece.item), rest |-> piece.rest] :
                                        piece \in GetSibling(list.rest)} : list \in w[k - 1]}
    <3>1. CASE k = 0
      BY <1>6, <3>1
    <3>2. CASE k # 0
      <4>1. k \in 1 .. n
        BY <1>0, <3>2
      <4> HIDE DEF w
      <4> QED
        BY <2>1, <3>2, <4>1
    <3> QED
      BY <3>1, <3>2
  <2>3. w = [k \in 0 .. n |-> w[k]]
    OBVIOUS
  <2> HIDE DEF w, octets
  <2> QED
    BY <2>2, <2>3
<1> HIDE DEF octets
<1>8. Is(v)
  <2> HIDE DEF w
  <2> QED
    BY <1>7
<1>9. v[n] = w[n]
  <2> HIDE DEF v, w
  <2>1. v[0] = w[0]
    BY <1>0, <1>7, <1>8
  <2>2. ASSUME NEW k \in 1 .. n, v[k - 1] = w[k - 1] PROVE v[k] = w[k]
    <3>1. k \in 0 .. n /\ k # 0
      BY <1>0
    <3> QED
      BY <1>7, <1>8, <2>2, <3>1
  <2> HIDE DEF Is
  <2> QED
    BY <1>0, <2>1, <2>2, SameCourse
<1>10. w[n] = {[items |-> items, rest |-> tail]}
  BY <1>0, <1>6
<1> HIDE DEF v, w, Is
<1> QED
  BY <1>2, <1>3, <1>4, <1>5, <1>9, <1>10 DEF n, octets

\* The peers that are gone.
LEMMA IdsOf ==
    ASSUME NEW items \in Seq(Array(IdLen)), NEW tail \in Bytes
    PROVE  /\ FlattenSeq(items) \in Bytes
           /\ Len(FlattenSeq(items)) = Len(items) * IdLen
           /\ GetAll(GetId, Len(items), FlattenSeq(items) \o tail) = {[items |-> items, rest |-> tail]}
<1> DEFINE n == Len(items)
           codes == items
           octets == FlattenSeq(codes) \o tail
           Is(g) == g = [k \in 0 .. n |->
                            IF k = 0 THEN {[items |-> <<>>, rest |-> octets]}
                            ELSE UNION {{[items |-> Append(list.items, piece.item), rest |-> piece.rest] :
                                            piece \in GetId(list.rest)} : list \in g[k - 1]}]
           v == CHOOSE g : Is(g)
           w == [k \in 0 .. n |-> After(items, codes, tail, k)]
<1>0. n \in Nat /\ \A k \in 1 .. n : items[k] \in Array(IdLen)
  OBVIOUS
<1>1. /\ codes \in Seq(Bytes) /\ Len(codes) = n
      /\ \A k \in 1 .. n : /\ Len(codes[k]) = IdLen
                           /\ \A rest \in Bytes : GetId(codes[k] \o rest) = {[item |-> items[k], rest |-> rest]}
  BY <1>0, IdOf
<1>2. FlattenSeq(codes) \in Bytes
  BY <1>1, FlattenType DEF Bytes
<1>3. Len(FlattenSeq(codes)) = n * (IdLen)
  <2>1. codes \in Seq(Seq(Octet)) /\ (IdLen) \in Nat
    BY <1>1, Widths DEF Bytes
  <2> HIDE DEF codes
  <2> QED
    BY <1>1, <2>1, SameLength
<1>4. GetAll(GetId, n, octets) = v[n]
  BY DEF GetAll
<1>5. FlattenSeq(items) = FlattenSeq(codes)
  BY DEF PutAll
<1> HIDE DEF codes, n
<1>6. /\ After(items, codes, tail, 0) = {[items |-> <<>>, rest |-> octets]}
      /\ After(items, codes, tail, n) = {[items |-> items, rest |-> tail]}
      /\ \A k \in 1 .. n : \E x, rest :
            /\ rest \in Bytes
            /\ After(items, codes, tail, k - 1) = {[items |-> x, rest |-> codes[k] \o rest]}
            /\ After(items, codes, tail, k) = {[items |-> Append(x, items[k]), rest |-> rest]}
  <2>1. Progress(items, codes, tail)
    BY <1>1, AfterOf DEF n
  <2> QED
    BY <2>1 DEF Progress, n
<1>7. Is(w)
  <2>1. ASSUME NEW k \in 1 .. n
        PROVE  w[k] = UNION {{[items |-> Append(list.items, piece.item), rest |-> piece.rest] :
                                piece \in GetId(list.rest)} : list \in w[k - 1]}
    <3>1. PICK x, rest :
                /\ rest \in Bytes
                /\ After(items, codes, tail, k - 1) = {[items |-> x, rest |-> codes[k] \o rest]}
                /\ After(items, codes, tail, k) = {[items |-> Append(x, items[k]), rest |-> rest]}
      BY <1>6
    <3>2. k - 1 \in 0 .. n /\ k \in 0 .. n
      BY <1>0
    <3>3. /\ w[k - 1] = {[items |-> x, rest |-> codes[k] \o rest]}
          /\ w[k] = {[items |-> Append(x, items[k]), rest |-> rest]}
      BY <3>1, <3>2
    <3>4. GetId(codes[k] \o rest) = {[item |-> items[k], rest |-> rest]}
      BY <1>1, <3>1
    <3> HIDE DEF w
    <3> DEFINE Read(list) == {[items |-> Append(list.items, piece.item), rest |-> piece.rest] :
                                 piece \in GetId(list.rest)}
               before == [items |-> x, rest |-> codes[k] \o rest]
    <3>5. Read(before) = {[items |-> Append(x, items[k]), rest |-> rest]}
      <4> DEFINE With(piece) == [items |-> Append(x, piece.item), rest |-> piece.rest]
                 found == [item |-> items[k], rest |-> rest]
      <4>1. Read(before) = {With(piece) : piece \in {found}}
        BY <3>4
      <4>2. {With(piece) : piece \in {found}} = {With(found)}
        <5> HIDE DEF With, found
        <5> QED
          OBVIOUS
      <4>3. With(found) = [items |-> Append(x, items[k]), rest |-> rest]
        OBVIOUS
      <4> HIDE DEF With, Read
      <4> QED
        BY <4>1, <4>2, <4>3
    <3>6. UNION {Read(list) : list \in {before}} = Read(before)
      <4> HIDE DEF Read, before
      <4> QED
        OBVIOUS
    <3>7. w[k - 1] = {before}
      BY <3>3
    <3>8. UNION {Read(list) : list \in w[k - 1]} = w[k]
      BY <3>3, <3>5, <3>6, <3>7
    <3> QED
      BY <3>8
  <2>2. ASSUME NEW k \in 0 .. n
        PROVE  w[k] = IF k = 0 THEN {[items |-> <<>>, rest |-> octets]}
                      ELSE UNION {{[items |-> Append(list.items, piece.item), rest |-> piece.rest] :
                                        piece \in GetId(list.rest)} : list \in w[k - 1]}
    <3>1. CASE k = 0
      BY <1>6, <3>1
    <3>2. CASE k # 0
      <4>1. k \in 1 .. n
        BY <1>0, <3>2
      <4> HIDE DEF w
      <4> QED
        BY <2>1, <3>2, <4>1
    <3> QED
      BY <3>1, <3>2
  <2>3. w = [k \in 0 .. n |-> w[k]]
    OBVIOUS
  <2> HIDE DEF w, octets
  <2> QED
    BY <2>2, <2>3
<1> HIDE DEF octets
<1>8. Is(v)
  <2> HIDE DEF w
  <2> QED
    BY <1>7
<1>9. v[n] = w[n]
  <2> HIDE DEF v, w
  <2>1. v[0] = w[0]
    BY <1>0, <1>7, <1>8
  <2>2. ASSUME NEW k \in 1 .. n, v[k - 1] = w[k - 1] PROVE v[k] = w[k]
    <3>1. k \in 0 .. n /\ k # 0
      BY <1>0
    <3> QED
      BY <1>7, <1>8, <2>2, <3>1
  <2> HIDE DEF Is
  <2> QED
    BY <1>0, <2>1, <2>2, SameCourse
<1>10. w[n] = {[items |-> items, rest |-> tail]}
  BY <1>0, <1>6
<1> HIDE DEF v, w, Is
<1> QED
  BY <1>2, <1>3, <1>4, <1>5, <1>9, <1>10 DEF n, octets

\* The peers that are new.
LEMMA PexPeersOf ==
    ASSUME NEW items \in Seq(PexPeers), NEW tail \in Bytes
    PROVE  /\ PutAll(PutPexPeer, items) \in Bytes
           /\ Len(PutAll(PutPexPeer, items))
                = Total([k \in DOMAIN items |-> IdLen + 1 + Len(items[k].addr) + ScoreLen])
           /\ GetAll(GetPexPeer, Len(items), PutAll(PutPexPeer, items) \o tail) = {[items |-> items, rest |-> tail]}
<1> DEFINE n == Len(items)
           codes == [k \in DOMAIN items |-> PutPexPeer(items[k])]
           octets == FlattenSeq(codes) \o tail
           Is(g) == g = [k \in 0 .. n |->
                            IF k = 0 THEN {[items |-> <<>>, rest |-> octets]}
                            ELSE UNION {{[items |-> Append(list.items, piece.item), rest |-> piece.rest] :
                                            piece \in GetPexPeer(list.rest)} : list \in g[k - 1]}]
           v == CHOOSE g : Is(g)
           w == [k \in 0 .. n |-> After(items, codes, tail, k)]
<1>0. n \in Nat /\ \A k \in 1 .. n : items[k] \in PexPeers
  OBVIOUS
<1>1. /\ codes \in Seq(Bytes) /\ Len(codes) = n
      /\ \A k \in 1 .. n : /\ Len(codes[k]) = IdLen + 1 + Len(items[k].addr) + ScoreLen
                           /\ \A rest \in Bytes : GetPexPeer(codes[k] \o rest) = {[item |-> items[k], rest |-> rest]}
  BY <1>0, PexPeerOf
<1>2. FlattenSeq(codes) \in Bytes
  BY <1>1, FlattenType DEF Bytes
<1>3. Len(FlattenSeq(codes)) = Total([k \in DOMAIN items |-> IdLen + 1 + Len(items[k].addr) + ScoreLen])
  <2> DEFINE lengths == [k \in DOMAIN items |-> IdLen + 1 + Len(items[k].addr) + ScoreLen]
  <2>1. \A k \in 1 .. n : Len(items[k].addr) \in Nat
    BY <1>0 DEF PexPeers, Lists
  <2>2. lengths \in Seq(Nat) /\ Len(lengths) = n /\ \A k \in 1 .. n : lengths[k] = IdLen + 1 + Len(items[k].addr) + ScoreLen
    <3>1. /\ \A k \in 1 .. n : IdLen + 1 + Len(items[k].addr) + ScoreLen \in Nat
          /\ DOMAIN items = 1 .. n
      <4>1. \A x \in Nat : IdLen + 1 + x + ScoreLen \in Nat
        BY Widths
      <4> QED
        <5>1. ASSUME NEW k \in 1 .. n PROVE IdLen + 1 + Len(items[k].addr) + ScoreLen \in Nat
          <6>1. Len(items[k].addr) \in Nat
            BY <2>1
          <6> QED
            BY <4>1, <6>1
        <5> QED
          BY <5>1
    <3> QED
      BY <1>0, <3>1
  <2>3. codes \in Seq(Seq(Octet))
    BY <1>1 DEF Bytes
  <2> HIDE DEF codes, lengths
  <2>4. Len(FlattenSeq(codes)) = Total(lengths)
    BY <1>1, <2>2, <2>3, LengthOf
  <2> QED
    BY <2>4 DEF lengths
<1>4. GetAll(GetPexPeer, n, octets) = v[n]
  BY DEF GetAll
<1>5. PutAll(PutPexPeer, items) = FlattenSeq(codes)
  BY DEF PutAll
<1> HIDE DEF codes, n
<1>6. /\ After(items, codes, tail, 0) = {[items |-> <<>>, rest |-> octets]}
      /\ After(items, codes, tail, n) = {[items |-> items, rest |-> tail]}
      /\ \A k \in 1 .. n : \E x, rest :
            /\ rest \in Bytes
            /\ After(items, codes, tail, k - 1) = {[items |-> x, rest |-> codes[k] \o rest]}
            /\ After(items, codes, tail, k) = {[items |-> Append(x, items[k]), rest |-> rest]}
  <2>1. Progress(items, codes, tail)
    BY <1>1, AfterOf DEF n
  <2> QED
    BY <2>1 DEF Progress, n
<1>7. Is(w)
  <2>1. ASSUME NEW k \in 1 .. n
        PROVE  w[k] = UNION {{[items |-> Append(list.items, piece.item), rest |-> piece.rest] :
                                piece \in GetPexPeer(list.rest)} : list \in w[k - 1]}
    <3>1. PICK x, rest :
                /\ rest \in Bytes
                /\ After(items, codes, tail, k - 1) = {[items |-> x, rest |-> codes[k] \o rest]}
                /\ After(items, codes, tail, k) = {[items |-> Append(x, items[k]), rest |-> rest]}
      BY <1>6
    <3>2. k - 1 \in 0 .. n /\ k \in 0 .. n
      BY <1>0
    <3>3. /\ w[k - 1] = {[items |-> x, rest |-> codes[k] \o rest]}
          /\ w[k] = {[items |-> Append(x, items[k]), rest |-> rest]}
      BY <3>1, <3>2
    <3>4. GetPexPeer(codes[k] \o rest) = {[item |-> items[k], rest |-> rest]}
      BY <1>1, <3>1
    <3> HIDE DEF w
    <3> DEFINE Read(list) == {[items |-> Append(list.items, piece.item), rest |-> piece.rest] :
                                 piece \in GetPexPeer(list.rest)}
               before == [items |-> x, rest |-> codes[k] \o rest]
    <3>5. Read(before) = {[items |-> Append(x, items[k]), rest |-> rest]}
      <4> DEFINE With(piece) == [items |-> Append(x, piece.item), rest |-> piece.rest]
                 found == [item |-> items[k], rest |-> rest]
      <4>1. Read(before) = {With(piece) : piece \in {found}}
        BY <3>4
      <4>2. {With(piece) : piece \in {found}} = {With(found)}
        <5> HIDE DEF With, found
        <5> QED
          OBVIOUS
      <4>3. With(found) = [items |-> Append(x, items[k]), rest |-> rest]
        OBVIOUS
      <4> HIDE DEF With, Read
      <4> QED
        BY <4>1, <4>2, <4>3
    <3>6. UNION {Read(list) : list \in {before}} = Read(before)
      <4> HIDE DEF Read, before
      <4> QED
        OBVIOUS
    <3>7. w[k - 1] = {before}
      BY <3>3
    <3>8. UNION {Read(list) : list \in w[k - 1]} = w[k]
      BY <3>3, <3>5, <3>6, <3>7
    <3> QED
      BY <3>8
  <2>2. ASSUME NEW k \in 0 .. n
        PROVE  w[k] = IF k = 0 THEN {[items |-> <<>>, rest |-> octets]}
                      ELSE UNION {{[items |-> Append(list.items, piece.item), rest |-> piece.rest] :
                                        piece \in GetPexPeer(list.rest)} : list \in w[k - 1]}
    <3>1. CASE k = 0
      BY <1>6, <3>1
    <3>2. CASE k # 0
      <4>1. k \in 1 .. n
        BY <1>0, <3>2
      <4> HIDE DEF w
      <4> QED
        BY <2>1, <3>2, <4>1
    <3> QED
      BY <3>1, <3>2
  <2>3. w = [k \in 0 .. n |-> w[k]]
    OBVIOUS
  <2> HIDE DEF w, octets
  <2> QED
    BY <2>2, <2>3
<1> HIDE DEF octets
<1>8. Is(v)
  <2> HIDE DEF w
  <2> QED
    BY <1>7
<1>9. v[n] = w[n]
  <2> HIDE DEF v, w
  <2>1. v[0] = w[0]
    BY <1>0, <1>7, <1>8
  <2>2. ASSUME NEW k \in 1 .. n, v[k - 1] = w[k - 1] PROVE v[k] = w[k]
    <3>1. k \in 0 .. n /\ k # 0
      BY <1>0
    <3> QED
      BY <1>7, <1>8, <2>2, <3>1
  <2> HIDE DEF Is
  <2> QED
    BY <1>0, <2>1, <2>2, SameCourse
<1>10. w[n] = {[items |-> items, rest |-> tail]}
  BY <1>0, <1>6
<1> HIDE DEF v, w, Is
<1> QED
  BY <1>2, <1>3, <1>4, <1>5, <1>9, <1>10 DEF n, octets

----------------------------------------------------------------------------
(* The messages of the peer protocol *)

\* Two and three parts of a code, each found where it was put.
InParts(p, a, b, c) ==
    /\ p \in Bytes /\ Len(p) = Len(a) + Len(b) + Len(c)
    /\ Field(p, 0, Len(a)) = a
    /\ Field(p, Len(a), Len(b)) = b
    /\ Field(p, Len(a) + Len(b), Len(c)) = c
    /\ From(p, Len(a)) = b \o c
    /\ From(p, Len(a) + Len(b)) = c
    /\ Len(a) > 0 => p[1] = a[1]

LEMMA Parts ==
    ASSUME NEW a \in Bytes, NEW b \in Bytes, NEW c \in Bytes
    PROVE  InParts((a \o b) \o c, a, b, c)
<1> DEFINE p == (a \o b) \o c
<1>1. a \o b \in Bytes /\ b \o c \in Bytes /\ Len(a \o b) = Len(a) + Len(b) /\ <<>> \in Bytes
  BY Joints
<1>2. p = a \o (b \o c)
  <2>1. Alike(a, b, c)
    BY AlikeOf
  <2> QED
    BY <2>1 DEF Alike
<1>3. p \in Bytes /\ Len(p) = Len(a \o b) + Len(c)
  BY <1>1, Joints
<1>4. Field(p, Len(a \o b), Len(c)) = c
  <2>1. Field((a \o b) \o (c \o <<>>), Len(a \o b), Len(c)) = c /\ c \o <<>> = c
    BY <1>1, Fields, Joints
  <2> QED
    BY <2>1
<1>5. From(p, Len(a \o b)) = c
  BY <1>1, Fields
<1> HIDE DEF p
<1>6. Field(p, 0, Len(a)) = a /\ From(p, Len(a)) = b \o c
  BY <1>1, <1>2, Fields
<1>7. Field(p, Len(a), Len(b)) = b
  BY <1>2, Fields
<1>8. Len(a) > 0 => p[1] = a[1]
  BY <1>1, <1>2, Fields
<1> QED
  BY <1>1, <1>3, <1>4, <1>5, <1>6, <1>7, <1>8 DEF p, InParts

\* A number that fits its octets.
LEMMA NumberOf ==
    ASSUME NEW w \in Nat, NEW n \in Unsigned(w)
    PROVE  n \in Nat /\ Put(n, w) \in Bytes /\ Len(Put(n, w)) = w /\ Value(Put(n, w)) = n
BY ValueOfPut, PutOf

\* The octet of a type.
LEMMA CodeOf ==
    ASSUME NEW m, NEW t \in {"Handshake", "Bitfield", "Request", "Piece", "Have", "Cancel",
           "Choke", "Unchoke", "Interested", "NotInterested", "Pex"}, m.type = t
    PROVE  /\ Code(m) \in 0 .. 10 /\ Len(Types) = 11
           /\ Types[Code(m) + 1] = t
<1>1. DOMAIN Types = 1 .. 11 /\ Len(Types) = 11
  BY DEF Types
<1>2. \E k \in DOMAIN Types : Types[k] = m.type
  <2>1. /\ Types[1] = "Handshake" /\ Types[2] = "Bitfield" /\ Types[3] = "Request" /\ Types[4] = "Piece"
        /\ Types[5] = "Have" /\ Types[6] = "Cancel" /\ Types[7] = "Choke" /\ Types[8] = "Unchoke"
        /\ Types[9] = "Interested" /\ Types[10] = "NotInterested" /\ Types[11] = "Pex"
    BY DEF Types
  <2>2. {1, 2, 3, 4, 5, 6, 7, 8, 9, 10, 11} \subseteq DOMAIN Types
    BY <1>1
  <2> QED
    BY <2>1, <2>2
<1> DEFINE k == CHOOSE k \in DOMAIN Types : Types[k] = m.type
<1>3. k \in 1 .. 11 /\ Types[k] = t
  BY <1>1, <1>2
<1>4. Code(m) = k - 1
  BY DEF Code
<1> HIDE DEF k
<1>5. Code(m) + 1 = k /\ Code(m) \in 0 .. 10
  BY <1>3, <1>4
<1> QED
  BY <1>1, <1>3, <1>5

\* A payload is as long as its header says and is read as the message it is of.
Restored(m) ==
    /\ Payload(m) \in Bytes /\ Len(Payload(m)) = PayloadLen(m)
    /\ Parse(Code(m), Payload(m)) = {m}

LEMMA HandshakeRead ==
    ASSUME NEW m \in [type : {"Handshake"}, version : Octet, hash : Array(HashLen), id : Array(IdLen)]
    PROVE  Restored(m)
<1> DEFINE v == Put(m.version, 1)
           p == (v \o m.hash) \o m.id
<1>1. /\ m.type = "Handshake" /\ m.version \in Octet
      /\ m.hash \in Bytes /\ Len(m.hash) = HashLen /\ m.id \in Bytes /\ Len(m.id) = IdLen
      /\ m = [type |-> m.type, version |-> m.version, hash |-> m.hash, id |-> m.id]
  BY ArrayOf, Widths
<1>2. v \in Bytes /\ Len(v) = 1 /\ v[1] = m.version
  <2>1. \A x \in Octet : <<x>> \in Bytes /\ Len(<<x>>) = 1 /\ <<x>>[1] = x
    BY DEF Bytes
  <2>2. v = <<m.version>>
    BY <1>1, OneOctet
  <2> QED
    BY <1>1, <2>1, <2>2
<1> HIDE DEF v
<1>3. /\ p \in Bytes /\ Len(p) = 1 + HashLen + IdLen /\ p[1] = m.version
      /\ Field(p, 1, HashLen) = m.hash /\ Field(p, 1 + HashLen, IdLen) = m.id
  <2>1. /\ p \in Bytes /\ Len(p) = Len(v) + Len(m.hash) + Len(m.id)
        /\ Field(p, Len(v), Len(m.hash)) = m.hash
        /\ Field(p, Len(v) + Len(m.hash), Len(m.id)) = m.id
        /\ Len(v) > 0 => p[1] = v[1]
    <3>1. InParts(p, v, m.hash, m.id)
      BY <1>1, <1>2, Parts
    <3> HIDE DEF p
    <3> QED
      BY <3>1 DEF InParts
  <2> HIDE DEF p
  <2> QED
    BY <1>1, <1>2, <2>1
<1>4. Payload(m) = p /\ PayloadLen(m) = 1 + HashLen + IdLen
  BY <1>1 DEF Payload, PayloadLen, Ranges, Signals, v
<1>5. Code(m) \in 0 .. 10 /\ Len(Types) = 11 /\ Types[Code(m) + 1] = "Handshake"
  BY <1>1, CodeOf
<1> HIDE DEF p
<1>6. Parse(Code(m), p) = {[type |-> "Handshake", version |-> p[1], hash |-> Field(p, 1, HashLen),
                            id |-> Field(p, 1 + HashLen, IdLen)]}
  BY <1>3, <1>5, Widths DEF Parse, Ranges, Signals
<1> QED
  BY <1>1, <1>3, <1>4, <1>6 DEF Restored

LEMMA BitfieldRead ==
    ASSUME NEW m \in [type : {"Bitfield"}, bits : Bytes]
    PROVE  Restored(m)
<1>1. m.type = "Bitfield" /\ m.bits \in Bytes /\ m = [type |-> m.type, bits |-> m.bits]
  OBVIOUS
<1>2. Payload(m) = m.bits /\ PayloadLen(m) = Len(m.bits)
  BY <1>1 DEF Payload, PayloadLen, Ranges, Signals
<1>3. Code(m) \in 0 .. 10 /\ Len(Types) = 11 /\ Types[Code(m) + 1] = "Bitfield"
  BY <1>1, CodeOf
<1>4. Parse(Code(m), m.bits) = {[type |-> "Bitfield", bits |-> m.bits]}
  BY <1>3 DEF Parse, Ranges, Signals
<1> QED
  BY <1>1, <1>2, <1>4 DEF Restored

LEMMA RangeRead ==
    ASSUME NEW m \in [type : Ranges, index : Unsigned(4), offset : Unsigned(4), length : Unsigned(4)]
    PROVE  Restored(m)
<1> DEFINE a == Put(m.index, 4)
           b == Put(m.offset, 4)
           c == Put(m.length, 4)
           p == (a \o b) \o c
<1>1. /\ m.type \in Ranges
      /\ m = [type |-> m.type, index |-> m.index, offset |-> m.offset, length |-> m.length]
      /\ m.index \in Unsigned(4) /\ m.offset \in Unsigned(4) /\ m.length \in Unsigned(4)
  OBVIOUS
<1>2. /\ a \in Bytes /\ Len(a) = 4 /\ Value(a) = m.index
      /\ b \in Bytes /\ Len(b) = 4 /\ Value(b) = m.offset
      /\ c \in Bytes /\ Len(c) = 4 /\ Value(c) = m.length
  BY <1>1, NumberOf
<1> HIDE DEF a, b, c
<1>3. /\ p \in Bytes /\ Len(p) = 12
      /\ Field(p, 0, 4) = a /\ Field(p, 4, 4) = b /\ Field(p, 8, 4) = c
  <2>1. /\ p \in Bytes /\ Len(p) = Len(a) + Len(b) + Len(c)
        /\ Field(p, 0, Len(a)) = a
        /\ Field(p, Len(a), Len(b)) = b
        /\ Field(p, Len(a) + Len(b), Len(c)) = c
    <3>1. InParts(p, a, b, c)
      BY <1>2, Parts
    <3> HIDE DEF p
    <3> QED
      BY <3>1 DEF InParts
  <2> HIDE DEF p
  <2> QED
    BY <1>2, <2>1
<1>4. Payload(m) = p /\ PayloadLen(m) = 12
  BY <1>1 DEF Payload, PayloadLen, Ranges, Signals, a, b, c
<1>5. Code(m) \in 0 .. 10 /\ Len(Types) = 11 /\ Types[Code(m) + 1] = m.type
  BY <1>1, CodeOf DEF Ranges
<1> HIDE DEF p
<1>6. Parse(Code(m), p) = {[type |-> m.type, index |-> Number(p, 0, 4), offset |-> Number(p, 4, 4),
                            length |-> Number(p, 8, 4)]}
  BY <1>1, <1>3, <1>5 DEF Parse, Ranges, Signals
<1> QED
  BY <1>1, <1>2, <1>3, <1>4, <1>6 DEF Restored, Number

LEMMA HaveRead ==
    ASSUME NEW m \in [type : {"Have"}, index : Unsigned(4)]
    PROVE  Restored(m)
<1> DEFINE p == Put(m.index, 4)
<1>1. m.type = "Have" /\ m.index \in Unsigned(4) /\ m = [type |-> m.type, index |-> m.index]
  OBVIOUS
<1>2. p \in Bytes /\ Len(p) = 4 /\ Value(p) = m.index
  BY <1>1, NumberOf
<1>3. Payload(m) = p /\ PayloadLen(m) = 4
  BY <1>1 DEF Payload, PayloadLen, Ranges, Signals
<1>4. Code(m) \in 0 .. 10 /\ Len(Types) = 11 /\ Types[Code(m) + 1] = "Have"
  BY <1>1, CodeOf
<1> HIDE DEF p
<1>5. Field(p, 0, 4) = p
  <2>1. p \o <<>> = p /\ <<>> \in Bytes
    BY <1>2, Joints
  <2>2. Field(p \o <<>>, 0, Len(p)) = p
    BY <1>2, <2>1, Fields
  <2> QED
    BY <1>2, <2>1, <2>2
<1>6. Parse(Code(m), p) = {[type |-> "Have", index |-> Number(p, 0, 4)]}
  BY <1>2, <1>4 DEF Parse, Ranges, Signals
<1> QED
  BY <1>1, <1>2, <1>3, <1>5, <1>6 DEF Restored, Number

LEMMA SignalRead ==
    ASSUME NEW m \in [type : Signals]
    PROVE  Restored(m)
<1>1. m.type \in Signals /\ m = [type |-> m.type]
  OBVIOUS
<1>2. Payload(m) = <<>> /\ PayloadLen(m) = 0
  BY <1>1 DEF Payload, PayloadLen, Ranges, Signals
<1>3. Code(m) \in 0 .. 10 /\ Len(Types) = 11 /\ Types[Code(m) + 1] = m.type
  BY <1>1, CodeOf DEF Signals
<1>4. Parse(Code(m), <<>>) = {[type |-> m.type]}
  BY <1>1, <1>3 DEF Parse, Ranges, Signals
<1> QED
  BY <1>1, <1>2, <1>4, Joints DEF Restored

LEMMA PieceRead ==
    ASSUME NEW m \in [type : {"Piece"}, index : Unsigned(4), offset : Unsigned(4),
                      proof : Lists(Siblings, 2), data : Bytes]
    PROVE  Restored(m)
<1> DEFINE a == Put(m.index, 4)
           b == Put(m.offset, 4)
           c == Put(Len(m.proof), 2)
           all == PutAll(PutSibling, m.proof)
           p == (((a \o b) \o c) \o all) \o m.data
           count == Len(m.proof)
<1>1. /\ m.type = "Piece" /\ m.data \in Bytes
      /\ m = [type |-> m.type, index |-> m.index, offset |-> m.offset, proof |-> m.proof, data |-> m.data]
      /\ m.index \in Unsigned(4) /\ m.offset \in Unsigned(4)
      /\ m.proof \in Seq(Siblings) /\ count \in Unsigned(2)
  BY DEF Lists
<1>2. /\ a \in Bytes /\ Len(a) = 4 /\ Value(a) = m.index
      /\ b \in Bytes /\ Len(b) = 4 /\ Value(b) = m.offset
      /\ c \in Bytes /\ Len(c) = 2 /\ Value(c) = count /\ count \in Nat
  BY <1>1, NumberOf
<1>3. /\ all \in Bytes /\ Len(all) = count * (1 + HashLen)
      /\ GetAll(GetSibling, count, all \o m.data) = {[items |-> m.proof, rest |-> m.data]}
  BY <1>1, SiblingsOf
<1>4. Payload(m) = p /\ PayloadLen(m) = PieceLen(m)
  BY <1>1 DEF Payload, PayloadLen, Ranges, Signals
<1>5. PieceLen(m) = 4 + 4 + (2 + count * (1 + HashLen)) + Len(m.data)
  BY DEF PieceLen
<1>6. Code(m) \in 0 .. 10 /\ Len(Types) = 11 /\ Types[Code(m) + 1] = "Piece"
  BY <1>1, CodeOf
<1>7. count * (1 + HashLen) \in Nat /\ Len(m.data) \in Nat
  BY <1>1, <1>2, Widths, Joints
<1> HIDE DEF a, b, c, all, count
<1>8. /\ p \in Bytes /\ Len(p) = 10 + count * (1 + HashLen) + Len(m.data)
      /\ Field(p, 0, 4) = a /\ Field(p, 4, 4) = b /\ Field(p, 8, 2) = c
      /\ From(p, 10) = all \o m.data
  <2> DEFINE ab == a \o b
             abc == ab \o c
             r == all \o m.data
             q == c \o r
  <2>1. ab \in Bytes /\ Len(ab) = 8 /\ abc \in Bytes /\ Len(abc) = 10
    <3>1. ab \in Bytes /\ Len(ab) = Len(a) + Len(b)
      BY <1>2, Joints
    <3> HIDE DEF ab
    <3>2. abc \in Bytes /\ Len(abc) = Len(ab) + Len(c)
      BY <1>2, <3>1, Joints
    <3> HIDE DEF abc
    <3> QED
      BY <1>2, <3>1, <3>2
  <2>2. r \in Bytes /\ q \in Bytes
    <3>1. r \in Bytes
      BY <1>1, <1>3, Joints
    <3> HIDE DEF r
    <3> QED
      BY <1>2, <3>1, Joints
  <2>3. Alike(abc, all, m.data) /\ InParts(p, abc, all, m.data)
    <3> HIDE DEF abc
    <3>1. p = (abc \o all) \o m.data
      BY DEF abc
    <3> HIDE DEF p
    <3> QED
      BY <1>1, <1>3, <2>1, <3>1, AlikeOf, Parts
  <2>4. p = abc \o r
    BY <2>3 DEF Alike
  <2> HIDE DEF p, r
  <2>5. Alike(ab, c, r) /\ InParts(p, ab, c, r)
    <3> HIDE DEF ab
    <3>1. p = (ab \o c) \o r
      BY <2>4
    <3> QED
      BY <1>2, <2>1, <2>2, <3>1, AlikeOf, Parts
  <2>6. p = ab \o q
    BY <2>4, <2>5 DEF Alike
  <2> HIDE DEF q, abc
  <2>7. InParts(p, a, b, q)
    BY <1>2, <2>2, <2>6, Parts
  <2> HIDE DEF ab
  <2>8. p \in Bytes /\ Len(p) = 10 + Len(all) + Len(m.data) /\ From(p, 10) = r
    <3>1. From(p, Len(abc)) = r
      BY <2>3 DEF InParts, r
    <3> QED
      BY <2>1, <2>3, <3>1 DEF InParts
  <2>9. Field(p, 8, 2) = c
    BY <1>2, <2>1, <2>5 DEF InParts
  <2>10. Field(p, 0, 4) = a /\ Field(p, 4, 4) = b
    BY <1>2, <2>7 DEF InParts
  <2> QED
    BY <1>3, <2>8, <2>9, <2>10 DEF r
<1> HIDE DEF p
<1>9. Number(p, 0, 4) = m.index /\ Number(p, 4, 4) = m.offset /\ Number(p, 8, 2) = count
  BY <1>2, <1>8 DEF Number
<1>10. ParsePiece(p) = {m}
  <2>1. ~(Len(p) < 10) /\ ~(Len(p) - 10 < count * (1 + HashLen))
    BY <1>7, <1>8
  <2> DEFINE Of(read) == [type |-> "Piece", index |-> m.index, offset |-> m.offset,
                          proof |-> read.items, data |-> read.rest]
             read0 == [items |-> m.proof, rest |-> m.data]
  <2>2. ParsePiece(p) = {Of(read) : read \in GetAll(GetSibling, count, From(p, 10))}
    BY <1>9, <2>1 DEF ParsePiece
  <2>3. Of(read0) = m
    BY <1>1
  <2>4. GetAll(GetSibling, count, From(p, 10)) = {read0}
    BY <1>3, <1>8
  <2> HIDE DEF Of, read0
  <2>5. {Of(read) : read \in {read0}} = {Of(read0)}
    OBVIOUS
  <2> QED
    BY <2>2, <2>3, <2>4, <2>5
<1>11. Parse(Code(m), p) = ParsePiece(p)
  BY <1>6 DEF Parse, Ranges, Signals
<1>12. Len(p) = PieceLen(m)
  BY <1>5, <1>7, <1>8
<1> QED
  BY <1>4, <1>8, <1>10, <1>11, <1>12 DEF Restored

LEMMA PexRead ==
    ASSUME NEW m \in [type : {"Pex"}, added : Lists(PexPeers, 2), dropped : Lists(Array(IdLen), 2)]
    PROVE  Restored(m)
<1> DEFINE a == Put(Len(m.added), 2)
           d == Put(Len(m.dropped), 2)
           new == PutAll(PutPexPeer, m.added)
           gone == FlattenSeq(m.dropped)
           r == d \o gone
           p == ((a \o new) \o d) \o gone
           lengths == [k \in DOMAIN m.added |-> IdLen + 1 + Len(m.added[k].addr) + ScoreLen]
<1>1. /\ m.type = "Pex" /\ m = [type |-> m.type, added |-> m.added, dropped |-> m.dropped]
      /\ m.added \in Seq(PexPeers) /\ Len(m.added) \in Unsigned(2)
      /\ m.dropped \in Seq(Array(IdLen)) /\ Len(m.dropped) \in Unsigned(2)
  BY DEF Lists
<1>2. /\ a \in Bytes /\ Len(a) = 2 /\ Value(a) = Len(m.added)
      /\ d \in Bytes /\ Len(d) = 2 /\ Value(d) = Len(m.dropped)
  BY <1>1, NumberOf
<1>3. /\ gone \in Bytes /\ Len(gone) = Len(m.dropped) * IdLen
      /\ GetAll(GetId, Len(m.dropped), gone) = {[items |-> m.dropped, rest |-> <<>>]}
  <2>1. /\ gone \in Bytes /\ Len(gone) = Len(m.dropped) * IdLen
        /\ GetAll(GetId, Len(m.dropped), gone \o <<>>) = {[items |-> m.dropped, rest |-> <<>>]}
    BY <1>1, IdsOf, Joints
  <2>2. gone \o <<>> = gone
    BY <2>1, Joints
  <2> QED
    BY <2>1, <2>2
<1>4. r \in Bytes /\ Len(r) = 2 + Len(gone) /\ Field(r, 0, 2) = d /\ From(r, 2) = gone
  <2> HIDE DEF d, gone
  <2>1. Field(d \o gone, 0, Len(d)) = d /\ From(d \o gone, Len(d)) = gone
    BY <1>2, <1>3, Fields
  <2> QED
    BY <1>2, <1>3, <2>1, Joints
<1>5. /\ new \in Bytes /\ Len(new) = Total(lengths)
      /\ GetAll(GetPexPeer, Len(m.added), new \o r) = {[items |-> m.added, rest |-> r]}
  <2> HIDE DEF r
  <2> QED
    BY <1>1, <1>4, PexPeersOf
<1>6. Payload(m) = p /\ PayloadLen(m) = 2 + Total(lengths) + 2 + Len(m.dropped) * IdLen
  BY <1>1 DEF Payload, PayloadLen, Ranges, Signals
<1>7. Code(m) \in 0 .. 10 /\ Len(Types) = 11 /\ Types[Code(m) + 1] = "Pex"
  BY <1>1, CodeOf
<1> HIDE DEF a, d, new, gone, lengths
<1>8. /\ p \in Bytes /\ Len(p) = 2 + Len(new) + 2 + Len(gone)
      /\ Field(p, 0, 2) = a /\ From(p, 2) = new \o r
  <2> DEFINE an == a \o new
  <2>1. an \in Bytes /\ Len(an) = 2 + Len(new)
    BY <1>2, <1>5, Joints
  <2>2. p = an \o r
    <3> HIDE DEF an
    <3>1. p = (an \o d) \o gone
      BY DEF an
    <3>2. Alike(an, d, gone)
      BY <1>2, <1>3, <2>1, AlikeOf
    <3> QED
      BY <3>1, <3>2 DEF Alike
  <2> HIDE DEF p, r
  <2>3. InParts(p, a, new, r)
    BY <1>2, <1>4, <1>5, <2>2, Parts
  <2>4. Len(new) \in Nat /\ Len(gone) \in Nat
    BY <1>3, <1>5, Joints
  <2> QED
    BY <1>2, <1>4, <2>3, <2>4 DEF InParts
<1> HIDE DEF p, r
<1>9. Number(p, 0, 2) = Len(m.added) /\ Number(r, 0, 2) = Len(m.dropped)
  BY <1>2, <1>4, <1>8 DEF Number
<1>10. Len(new) \in Nat /\ Len(gone) \in Nat
  BY <1>3, <1>5, Joints
<1>11. ParsePex(p) = {m}
  <2> DEFINE Of(x, y) == [type |-> "Pex", added |-> x.items, dropped |-> y.items]
             With(x) == IF Len(x.rest) < 2 THEN {}
                        ELSE {Of(x, y) : y \in GetAll(GetId, Number(x.rest, 0, 2), From(x.rest, 2))}
             x0 == [items |-> m.added, rest |-> r]
             y0 == [items |-> m.dropped, rest |-> <<>>]
  <2>1. ~(Len(p) < 2) /\ ~(Len(r) < 2)
    BY <1>4, <1>8, <1>10
  <2>2. ParsePex(p) = UNION {With(x) : x \in GetAll(GetPexPeer, Len(m.added), From(p, 2))}
    BY <1>9, <2>1 DEF ParsePex
  <2>3. GetAll(GetPexPeer, Len(m.added), From(p, 2)) = {x0}
    BY <1>5, <1>8
  <2>4. Of(x0, y0) = m
    BY <1>1
  <2>5. With(x0) = {m}
    <3>1. x0.rest = r
      OBVIOUS
    <3> HIDE DEF Of, x0
    <3>2. With(x0) = {Of(x0, y) : y \in GetAll(GetId, Len(m.dropped), gone)}
      BY <1>4, <1>9, <2>1, <3>1
    <3>3. GetAll(GetId, Len(m.dropped), gone) = {y0}
      BY <1>3
    <3> HIDE DEF y0
    <3>4. {Of(x0, y) : y \in {y0}} = {Of(x0, y0)}
      OBVIOUS
    <3> QED
      BY <2>4, <3>2, <3>3, <3>4
  <2> HIDE DEF With, x0
  <2>6. UNION {With(x) : x \in {x0}} = With(x0)
    OBVIOUS
  <2> QED
    BY <2>2, <2>3, <2>5, <2>6
<1>12. Parse(Code(m), p) = ParsePex(p)
  BY <1>7 DEF Parse, Ranges, Signals
<1>13. Len(p) = PayloadLen(m)
  BY <1>3, <1>5, <1>6, <1>8
<1> QED
  BY <1>6, <1>8, <1>11, <1>12, <1>13 DEF Restored

LEMMA AllRead ==
    ASSUME NEW m \in AllMessages
    PROVE  Restored(m) /\ Code(m) \in 0 .. 10
<1>1. Restored(m)
  BY HandshakeRead, BitfieldRead, RangeRead, PieceRead, HaveRead, PexRead, SignalRead DEF AllMessages
<1>2. m.type \in {"Handshake", "Bitfield", "Request", "Piece", "Have", "Cancel",
                  "Choke", "Unchoke", "Interested", "NotInterested", "Pex"}
  BY DEF AllMessages, Ranges, Signals
<1> QED
  BY <1>1, <1>2, CodeOf

----------------------------------------------------------------------------
(* The lists of the DHT messages *)

LEMMA NodeOf ==
    ASSUME NEW n \in NodeInfos
    PROVE  /\ PutNode(n) \in Bytes /\ Len(PutNode(n)) = IdLen + 1 + Len(n.addr)
           /\ \A rest \in Bytes : GetNode(PutNode(n) \o rest) = {[item |-> n, rest |-> rest]}
<1>1. /\ n.id \in Array(IdLen) /\ n.addr \in Lists(Octet, 1)
      /\ n = [id |-> n.id, addr |-> n.addr]
  BY DEF NodeInfos
<1> DEFINE code == Named(n.id, n.addr, <<>>)
<1>2. PutNode(n) = code
  <2>1. /\ n.id \in Bytes /\ n.addr \in Bytes /\ Put(Len(n.addr), 1) \in Bytes
    <3>1. Put(Len(n.addr), 1) = <<Len(n.addr)>> /\ Len(n.addr) \in Octet
      BY <1>1, OneOctet DEF Lists
    <3>2. \A x \in Octet : <<x>> \in Bytes
      BY DEF Bytes
    <3> QED
      BY <1>1, <3>1, <3>2, ArrayOf, Widths DEF Lists, Bytes
  <2>2. (n.id \o Put(Len(n.addr), 1)) \o n.addr \in Bytes
    BY <2>1, Joints
  <2> QED
    BY <2>2, Joints DEF PutNode, Named
<1>3. /\ n.addr \in Bytes /\ code \in Bytes /\ Len(code) = IdLen + 1 + Len(n.addr) + Len(<<>>)
      /\ \A rest \in Bytes : Starts(code \o rest, n.id, n.addr, <<>>, rest)
  <2>1. <<>> \in Bytes
    BY Joints
  <2> QED
    BY <1>1, <2>1, NamedOf
<1> HIDE DEF code
<1>4. ASSUME NEW rest \in Bytes PROVE GetNode(code \o rest) = {[item |-> n, rest |-> rest]}
  <2> DEFINE octets == code \o rest
             tail == From(octets, IdLen + 1)
  <2>1. Starts(octets, n.id, n.addr, <<>>, rest)
    BY <1>3
  <2> HIDE DEF octets
  <2>2. /\ octets[IdLen + 1] = Len(n.addr)
        /\ Field(octets, 0, IdLen) = n.id /\ Field(tail, 0, Len(n.addr)) = n.addr
        /\ From(tail, Len(n.addr) + 0) = rest
    BY <2>1 DEF Starts
  <2>3. ~(Len(octets) < IdLen + 1) /\ ~(Len(tail) < Len(n.addr) + 0)
    <3>1. Len(octets) >= IdLen + 1 /\ Len(octets) \in Nat /\ Len(tail) >= Len(n.addr) + 0 /\ Len(tail) \in Nat
      BY <2>1, Joints DEF Starts
    <3>2. Len(n.addr) \in Nat
      BY <1>3, Joints
    <3> HIDE DEF tail
    <3> QED
      BY <3>1, <3>2, Widths
  <2>4. GetNamed(octets, 0) = {[id |-> n.id, addr |-> n.addr, more |-> Field(tail, Len(n.addr), 0), rest |-> rest]}
    BY <2>2, <2>3 DEF GetNamed
  <2>5. GetNode(octets) = {[item |-> [id |-> n.id, addr |-> n.addr], rest |-> rest]}
    <3> DEFINE more == Field(tail, Len(n.addr), 0)
    <3>1. GetNamed(octets, 0) = {[id |-> n.id, addr |-> n.addr, more |-> more, rest |-> rest]}
      BY <2>4
    <3> DEFINE Node(piece) == [item |-> [id |-> piece.id, addr |-> piece.addr], rest |-> piece.rest]
               found == [id |-> n.id, addr |-> n.addr, more |-> more, rest |-> rest]
    <3>2. GetNode(octets) = {Node(piece) : piece \in {found}}
      BY <3>1 DEF GetNode
    <3>3. {Node(piece) : piece \in {found}} = {Node(found)}
      <4> HIDE DEF Node, found
      <4> QED
        OBVIOUS
    <3>4. Node(found) = [item |-> [id |-> n.id, addr |-> n.addr], rest |-> rest]
      OBVIOUS
    <3> HIDE DEF Node
    <3> QED
      BY <3>2, <3>3, <3>4
  <2> QED
    BY <1>1, <2>5 DEF octets
<1>5. Len(n.addr) \in Nat /\ Len(<<>>) = 0
  BY <1>3, Joints
<1> QED
  BY <1>2, <1>3, <1>4, <1>5, Widths

LEMMA PeerOf ==
    ASSUME NEW p \in PeerEntries
    PROVE  /\ PutPeer(p) \in Bytes /\ Len(PutPeer(p)) = IdLen + 1 + Len(p.addr) + ScoreLen
           /\ \A rest \in Bytes : GetPeer(PutPeer(p) \o rest) = {[item |-> p, rest |-> rest]}
<1>1. /\ p.id \in Array(IdLen) /\ p.addr \in Lists(Octet, 1) /\ p.score \in Array(ScoreLen)
      /\ p = [id |-> p.id, addr |-> p.addr, score |-> p.score]
  BY DEF PeerEntries
<1>2. p.score \in Bytes /\ Len(p.score) = ScoreLen
  BY <1>1, ArrayOf, Widths
<1> DEFINE code == Named(p.id, p.addr, p.score)
<1>3. PutPeer(p) = code
  BY DEF PutPeer, PutNode, Named
<1>4. /\ p.addr \in Bytes /\ code \in Bytes /\ Len(code) = IdLen + 1 + Len(p.addr) + Len(p.score)
      /\ \A rest \in Bytes : Starts(code \o rest, p.id, p.addr, p.score, rest)
  BY <1>1, <1>2, NamedOf
<1> HIDE DEF code
<1>5. ASSUME NEW rest \in Bytes PROVE GetPeer(code \o rest) = {[item |-> p, rest |-> rest]}
  <2> DEFINE octets == code \o rest
             tail == From(octets, IdLen + 1)
  <2>1. Starts(octets, p.id, p.addr, p.score, rest)
    BY <1>4
  <2> HIDE DEF octets
  <2>2. /\ octets[IdLen + 1] = Len(p.addr)
        /\ Field(octets, 0, IdLen) = p.id /\ Field(tail, 0, Len(p.addr)) = p.addr
        /\ Field(tail, Len(p.addr), ScoreLen) = p.score
        /\ From(tail, Len(p.addr) + ScoreLen) = rest
    BY <1>2, <2>1 DEF Starts
  <2>3. ~(Len(octets) < IdLen + 1) /\ ~(Len(tail) < Len(p.addr) + ScoreLen)
    <3>1. Len(octets) >= IdLen + 1 /\ Len(octets) \in Nat /\ Len(tail) >= Len(p.addr) + ScoreLen /\ Len(tail) \in Nat
      BY <1>2, <2>1, Joints DEF Starts
    <3>2. Len(p.addr) \in Nat
      BY <1>4, Joints
    <3> HIDE DEF tail
    <3> QED
      BY <3>1, <3>2, Widths
  <2>4. GetNamed(octets, ScoreLen) = {[id |-> p.id, addr |-> p.addr, more |-> p.score, rest |-> rest]}
    BY <2>2, <2>3 DEF GetNamed
  <2>5. GetPeer(octets) = {[item |-> [id |-> p.id, addr |-> p.addr, score |-> p.score], rest |-> rest]}
    BY <2>4 DEF GetPeer
  <2> QED
    BY <1>1, <2>5 DEF octets
<1> QED
  BY <1>2, <1>3, <1>4, <1>5

\* The nodes of an answer.
LEMMA NodesOf ==
    ASSUME NEW items \in Seq(NodeInfos), NEW tail \in Bytes
    PROVE  /\ PutAll(PutNode, items) \in Bytes
           /\ GetAll(GetNode, Len(items), PutAll(PutNode, items) \o tail) = {[items |-> items, rest |-> tail]}
<1> DEFINE n == Len(items)
           codes == [k \in DOMAIN items |-> PutNode(items[k])]
           octets == FlattenSeq(codes) \o tail
           Is(g) == g = [k \in 0 .. n |->
                            IF k = 0 THEN {[items |-> <<>>, rest |-> octets]}
                            ELSE UNION {{[items |-> Append(list.items, piece.item), rest |-> piece.rest] :
                                            piece \in GetNode(list.rest)} : list \in g[k - 1]}]
           v == CHOOSE g : Is(g)
           w == [k \in 0 .. n |-> After(items, codes, tail, k)]
<1>0. n \in Nat /\ \A k \in 1 .. n : items[k] \in NodeInfos
  OBVIOUS
<1>1. /\ codes \in Seq(Bytes) /\ Len(codes) = n
      /\ \A k \in 1 .. n : \A rest \in Bytes : GetNode(codes[k] \o rest) = {[item |-> items[k], rest |-> rest]}
  BY <1>0, NodeOf
<1>2. FlattenSeq(codes) \in Bytes
  BY <1>1, FlattenType DEF Bytes
<1>4. GetAll(GetNode, n, octets) = v[n]
  BY DEF GetAll
<1>5. PutAll(PutNode, items) = FlattenSeq(codes)
  BY DEF PutAll
<1> HIDE DEF codes, n
<1>6. /\ After(items, codes, tail, 0) = {[items |-> <<>>, rest |-> octets]}
      /\ After(items, codes, tail, n) = {[items |-> items, rest |-> tail]}
      /\ \A k \in 1 .. n : \E x, rest :
            /\ rest \in Bytes
            /\ After(items, codes, tail, k - 1) = {[items |-> x, rest |-> codes[k] \o rest]}
            /\ After(items, codes, tail, k) = {[items |-> Append(x, items[k]), rest |-> rest]}
  <2>1. Progress(items, codes, tail)
    BY <1>1, AfterOf DEF n
  <2> QED
    BY <2>1 DEF Progress, n
<1>7. Is(w)
  <2>1. ASSUME NEW k \in 1 .. n
        PROVE  w[k] = UNION {{[items |-> Append(list.items, piece.item), rest |-> piece.rest] :
                                piece \in GetNode(list.rest)} : list \in w[k - 1]}
    <3>1. PICK x, rest :
                /\ rest \in Bytes
                /\ After(items, codes, tail, k - 1) = {[items |-> x, rest |-> codes[k] \o rest]}
                /\ After(items, codes, tail, k) = {[items |-> Append(x, items[k]), rest |-> rest]}
      BY <1>6
    <3>2. k - 1 \in 0 .. n /\ k \in 0 .. n
      BY <1>0
    <3>3. /\ w[k - 1] = {[items |-> x, rest |-> codes[k] \o rest]}
          /\ w[k] = {[items |-> Append(x, items[k]), rest |-> rest]}
      BY <3>1, <3>2
    <3>4. GetNode(codes[k] \o rest) = {[item |-> items[k], rest |-> rest]}
      BY <1>1, <3>1
    <3> HIDE DEF w
    <3> DEFINE Read(list) == {[items |-> Append(list.items, piece.item), rest |-> piece.rest] :
                                 piece \in GetNode(list.rest)}
               before == [items |-> x, rest |-> codes[k] \o rest]
    <3>5. Read(before) = {[items |-> Append(x, items[k]), rest |-> rest]}
      <4> DEFINE With(piece) == [items |-> Append(x, piece.item), rest |-> piece.rest]
                 found == [item |-> items[k], rest |-> rest]
      <4>1. Read(before) = {With(piece) : piece \in {found}}
        BY <3>4
      <4>2. {With(piece) : piece \in {found}} = {With(found)}
        <5> HIDE DEF With, found
        <5> QED
          OBVIOUS
      <4>3. With(found) = [items |-> Append(x, items[k]), rest |-> rest]
        OBVIOUS
      <4> HIDE DEF With, Read
      <4> QED
        BY <4>1, <4>2, <4>3
    <3>6. UNION {Read(list) : list \in {before}} = Read(before)
      <4> HIDE DEF Read, before
      <4> QED
        OBVIOUS
    <3>7. w[k - 1] = {before}
      BY <3>3
    <3>8. UNION {Read(list) : list \in w[k - 1]} = w[k]
      BY <3>3, <3>5, <3>6, <3>7
    <3> QED
      BY <3>8
  <2>2. ASSUME NEW k \in 0 .. n
        PROVE  w[k] = IF k = 0 THEN {[items |-> <<>>, rest |-> octets]}
                      ELSE UNION {{[items |-> Append(list.items, piece.item), rest |-> piece.rest] :
                                        piece \in GetNode(list.rest)} : list \in w[k - 1]}
    <3>1. CASE k = 0
      BY <1>6, <3>1
    <3>2. CASE k # 0
      <4>1. k \in 1 .. n
        BY <1>0, <3>2
      <4> HIDE DEF w
      <4> QED
        BY <2>1, <3>2, <4>1
    <3> QED
      BY <3>1, <3>2
  <2>3. w = [k \in 0 .. n |-> w[k]]
    OBVIOUS
  <2> HIDE DEF w, octets
  <2> QED
    BY <2>2, <2>3
<1> HIDE DEF octets
<1>8. Is(v)
  <2> HIDE DEF w
  <2> QED
    BY <1>7
<1>9. v[n] = w[n]
  <2> HIDE DEF v, w
  <2>1. v[0] = w[0]
    BY <1>0, <1>7, <1>8
  <2>2. ASSUME NEW k \in 1 .. n, v[k - 1] = w[k - 1] PROVE v[k] = w[k]
    <3>1. k \in 0 .. n /\ k # 0
      BY <1>0
    <3> QED
      BY <1>7, <1>8, <2>2, <3>1
  <2> HIDE DEF Is
  <2> QED
    BY <1>0, <2>1, <2>2, SameCourse
<1>10. w[n] = {[items |-> items, rest |-> tail]}
  BY <1>0, <1>6
<1> HIDE DEF v, w, Is
<1> QED
  BY <1>2, <1>4, <1>5, <1>9, <1>10 DEF n, octets

\* The peers of an answer.
LEMMA PeersOf ==
    ASSUME NEW items \in Seq(PeerEntries), NEW tail \in Bytes
    PROVE  /\ PutAll(PutPeer, items) \in Bytes
           /\ GetAll(GetPeer, Len(items), PutAll(PutPeer, items) \o tail) = {[items |-> items, rest |-> tail]}
<1> DEFINE n == Len(items)
           codes == [k \in DOMAIN items |-> PutPeer(items[k])]
           octets == FlattenSeq(codes) \o tail
           Is(g) == g = [k \in 0 .. n |->
                            IF k = 0 THEN {[items |-> <<>>, rest |-> octets]}
                            ELSE UNION {{[items |-> Append(list.items, piece.item), rest |-> piece.rest] :
                                            piece \in GetPeer(list.rest)} : list \in g[k - 1]}]
           v == CHOOSE g : Is(g)
           w == [k \in 0 .. n |-> After(items, codes, tail, k)]
<1>0. n \in Nat /\ \A k \in 1 .. n : items[k] \in PeerEntries
  OBVIOUS
<1>1. /\ codes \in Seq(Bytes) /\ Len(codes) = n
      /\ \A k \in 1 .. n : \A rest \in Bytes : GetPeer(codes[k] \o rest) = {[item |-> items[k], rest |-> rest]}
  BY <1>0, PeerOf
<1>2. FlattenSeq(codes) \in Bytes
  BY <1>1, FlattenType DEF Bytes
<1>4. GetAll(GetPeer, n, octets) = v[n]
  BY DEF GetAll
<1>5. PutAll(PutPeer, items) = FlattenSeq(codes)
  BY DEF PutAll
<1> HIDE DEF codes, n
<1>6. /\ After(items, codes, tail, 0) = {[items |-> <<>>, rest |-> octets]}
      /\ After(items, codes, tail, n) = {[items |-> items, rest |-> tail]}
      /\ \A k \in 1 .. n : \E x, rest :
            /\ rest \in Bytes
            /\ After(items, codes, tail, k - 1) = {[items |-> x, rest |-> codes[k] \o rest]}
            /\ After(items, codes, tail, k) = {[items |-> Append(x, items[k]), rest |-> rest]}
  <2>1. Progress(items, codes, tail)
    BY <1>1, AfterOf DEF n
  <2> QED
    BY <2>1 DEF Progress, n
<1>7. Is(w)
  <2>1. ASSUME NEW k \in 1 .. n
        PROVE  w[k] = UNION {{[items |-> Append(list.items, piece.item), rest |-> piece.rest] :
                                piece \in GetPeer(list.rest)} : list \in w[k - 1]}
    <3>1. PICK x, rest :
                /\ rest \in Bytes
                /\ After(items, codes, tail, k - 1) = {[items |-> x, rest |-> codes[k] \o rest]}
                /\ After(items, codes, tail, k) = {[items |-> Append(x, items[k]), rest |-> rest]}
      BY <1>6
    <3>2. k - 1 \in 0 .. n /\ k \in 0 .. n
      BY <1>0
    <3>3. /\ w[k - 1] = {[items |-> x, rest |-> codes[k] \o rest]}
          /\ w[k] = {[items |-> Append(x, items[k]), rest |-> rest]}
      BY <3>1, <3>2
    <3>4. GetPeer(codes[k] \o rest) = {[item |-> items[k], rest |-> rest]}
      BY <1>1, <3>1
    <3> HIDE DEF w
    <3> DEFINE Read(list) == {[items |-> Append(list.items, piece.item), rest |-> piece.rest] :
                                 piece \in GetPeer(list.rest)}
               before == [items |-> x, rest |-> codes[k] \o rest]
    <3>5. Read(before) = {[items |-> Append(x, items[k]), rest |-> rest]}
      <4> DEFINE With(piece) == [items |-> Append(x, piece.item), rest |-> piece.rest]
                 found == [item |-> items[k], rest |-> rest]
      <4>1. Read(before) = {With(piece) : piece \in {found}}
        BY <3>4
      <4>2. {With(piece) : piece \in {found}} = {With(found)}
        <5> HIDE DEF With, found
        <5> QED
          OBVIOUS
      <4>3. With(found) = [items |-> Append(x, items[k]), rest |-> rest]
        OBVIOUS
      <4> HIDE DEF With, Read
      <4> QED
        BY <4>1, <4>2, <4>3
    <3>6. UNION {Read(list) : list \in {before}} = Read(before)
      <4> HIDE DEF Read, before
      <4> QED
        OBVIOUS
    <3>7. w[k - 1] = {before}
      BY <3>3
    <3>8. UNION {Read(list) : list \in w[k - 1]} = w[k]
      BY <3>3, <3>5, <3>6, <3>7
    <3> QED
      BY <3>8
  <2>2. ASSUME NEW k \in 0 .. n
        PROVE  w[k] = IF k = 0 THEN {[items |-> <<>>, rest |-> octets]}
                      ELSE UNION {{[items |-> Append(list.items, piece.item), rest |-> piece.rest] :
                                        piece \in GetPeer(list.rest)} : list \in w[k - 1]}
    <3>1. CASE k = 0
      BY <1>6, <3>1
    <3>2. CASE k # 0
      <4>1. k \in 1 .. n
        BY <1>0, <3>2
      <4> HIDE DEF w
      <4> QED
        BY <2>1, <3>2, <4>1
    <3> QED
      BY <3>1, <3>2
  <2>3. w = [k \in 0 .. n |-> w[k]]
    OBVIOUS
  <2> HIDE DEF w, octets
  <2> QED
    BY <2>2, <2>3
<1> HIDE DEF octets
<1>8. Is(v)
  <2> HIDE DEF w
  <2> QED
    BY <1>7
<1>9. v[n] = w[n]
  <2> HIDE DEF v, w
  <2>1. v[0] = w[0]
    BY <1>0, <1>7, <1>8
  <2>2. ASSUME NEW k \in 1 .. n, v[k - 1] = w[k - 1] PROVE v[k] = w[k]
    <3>1. k \in 0 .. n /\ k # 0
      BY <1>0
    <3> QED
      BY <1>7, <1>8, <2>2, <3>1
  <2> HIDE DEF Is
  <2> QED
    BY <1>0, <2>1, <2>2, SameCourse
<1>10. w[n] = {[items |-> items, rest |-> tail]}
  BY <1>0, <1>6
<1> HIDE DEF v, w, Is
<1> QED
  BY <1>2, <1>4, <1>5, <1>9, <1>10 DEF n, octets

----------------------------------------------------------------------------
(* The messages of the DHT *)

\* A count and nodes.
LEMMA NodeListOf ==
    ASSUME NEW items \in Lists(NodeInfos, 1), NEW tail \in Bytes
    PROVE  /\ PutList(PutNode, items) \in Bytes
           /\ GetList(GetNode, PutList(PutNode, items) \o tail) = {[items |-> items, rest |-> tail]}
<1> DEFINE n == Len(items)
           c == Put(n, 1)
           all == PutAll(PutNode, items)
           octets == (c \o all) \o tail
<1>1. items \in Seq(NodeInfos) /\ n \in Octet
  BY OneOctet DEF Lists
<1>2. /\ all \in Bytes
      /\ GetAll(GetNode, n, all \o tail) = {[items |-> items, rest |-> tail]}
  BY <1>1, NodesOf
<1>3. c \in Bytes /\ Len(c) = 1 /\ c[1] = n
  <2>1. \A x \in Octet : <<x>> \in Bytes /\ Len(<<x>>) = 1 /\ <<x>>[1] = x
    BY DEF Bytes
  <2>2. c = <<n>>
    BY <1>1, OneOctet
  <2> HIDE DEF n, c
  <2> QED
    BY <1>1, <2>1, <2>2
<1>4. PutList(PutNode, items) = c \o all
  BY DEF PutList
<1> HIDE DEF n, c, all
<1>5. c \o all \in Bytes
  BY <1>2, <1>3, Joints
<1>6. InParts(octets, c, all, tail)
  BY <1>2, <1>3, Parts
<1> HIDE DEF octets
<1>7. octets[1] = n /\ From(octets, 1) = all \o tail /\ octets # <<>>
  <2>1. Len(octets) = 1 + Len(all) + Len(tail) /\ Len(all) \in Nat /\ Len(tail) \in Nat
    BY <1>2, <1>3, <1>6, Joints DEF InParts
  <2>2. octets # <<>>
    BY <2>1
  <2> QED
    BY <1>3, <1>6, <2>2 DEF InParts
<1>8. GetList(GetNode, octets) = GetAll(GetNode, n, all \o tail)
  BY <1>7 DEF GetList
<1> QED
  BY <1>2, <1>4, <1>5, <1>8 DEF octets

\* A count and peers.
LEMMA PeerListOf ==
    ASSUME NEW items \in Lists(PeerEntries, 1), NEW tail \in Bytes
    PROVE  /\ PutList(PutPeer, items) \in Bytes
           /\ GetList(GetPeer, PutList(PutPeer, items) \o tail) = {[items |-> items, rest |-> tail]}
<1> DEFINE n == Len(items)
           c == Put(n, 1)
           all == PutAll(PutPeer, items)
           octets == (c \o all) \o tail
<1>1. items \in Seq(PeerEntries) /\ n \in Octet
  BY OneOctet DEF Lists
<1>2. /\ all \in Bytes
      /\ GetAll(GetPeer, n, all \o tail) = {[items |-> items, rest |-> tail]}
  BY <1>1, PeersOf
<1>3. c \in Bytes /\ Len(c) = 1 /\ c[1] = n
  <2>1. \A x \in Octet : <<x>> \in Bytes /\ Len(<<x>>) = 1 /\ <<x>>[1] = x
    BY DEF Bytes
  <2>2. c = <<n>>
    BY <1>1, OneOctet
  <2> HIDE DEF n, c
  <2> QED
    BY <1>1, <2>1, <2>2
<1>4. PutList(PutPeer, items) = c \o all
  BY DEF PutList
<1> HIDE DEF n, c, all
<1>5. c \o all \in Bytes
  BY <1>2, <1>3, Joints
<1>6. InParts(octets, c, all, tail)
  BY <1>2, <1>3, Parts
<1> HIDE DEF octets
<1>7. octets[1] = n /\ From(octets, 1) = all \o tail /\ octets # <<>>
  <2>1. Len(octets) = 1 + Len(all) + Len(tail) /\ Len(all) \in Nat /\ Len(tail) \in Nat
    BY <1>2, <1>3, <1>6, Joints DEF InParts
  <2>2. octets # <<>>
    BY <2>1
  <2> QED
    BY <1>3, <1>6, <2>2 DEF InParts
<1>8. GetList(GetPeer, octets) = GetAll(GetPeer, n, all \o tail)
  BY <1>7 DEF GetList
<1> QED
  BY <1>2, <1>4, <1>5, <1>8 DEF octets

LEMMA KindOf ==
    ASSUME NEW m, NEW t \in {"Ping", "Pong", "FindNode", "FindNodeResponse", "GetPeers",
           "GetPeersResponse", "AnnouncePeer"}, m.type = t
    PROVE  /\ Kind(m) \in 0 .. 6 /\ Len(Kinds) = 7
           /\ Kinds[Kind(m) + 1] = t
<1>1. DOMAIN Kinds = 1 .. 7 /\ Len(Kinds) = 7
  BY DEF Kinds
<1>2. \E k \in DOMAIN Kinds : Kinds[k] = m.type
  <2>1. /\ Kinds[1] = "Ping" /\ Kinds[2] = "Pong" /\ Kinds[3] = "FindNode" /\ Kinds[4] = "FindNodeResponse"
        /\ Kinds[5] = "GetPeers" /\ Kinds[6] = "GetPeersResponse" /\ Kinds[7] = "AnnouncePeer"
    BY DEF Kinds
  <2>2. {1, 2, 3, 4, 5, 6, 7} \subseteq DOMAIN Kinds
    BY <1>1
  <2> QED
    BY <2>1, <2>2
<1> DEFINE k == CHOOSE k \in DOMAIN Kinds : Kinds[k] = m.type
<1>3. k \in 1 .. 7 /\ Kinds[k] = t
  BY <1>1, <1>2
<1>4. Kind(m) = k - 1
  BY DEF Kind
<1> HIDE DEF k
<1>5. Kind(m) + 1 = k /\ Kind(m) \in 0 .. 6
  BY <1>3, <1>4
<1> QED
  BY <1>1, <1>3, <1>5

\* The body of a message is read as what the message says.
Understood(m) ==
    /\ m.sender \in Array(IdLen) /\ Body(m) \in Bytes
    /\ DecodeBody(m.type, m.sender, Body(m)) = {m}

LEMMA PingRead ==
    ASSUME NEW m \in [type : {"Ping", "Pong"}, sender : Array(IdLen)]
    PROVE  Understood(m)
<1>1. m.type \in {"Ping", "Pong"} /\ m.sender \in Array(IdLen) /\ m = [type |-> m.type, sender |-> m.sender]
  OBVIOUS
<1>2. Body(m) = <<>>
  BY <1>1 DEF Body
<1>3. DecodeBody(m.type, m.sender, <<>>) = {[type |-> m.type, sender |-> m.sender]}
  BY <1>1 DEF DecodeBody
<1> QED
  BY <1>1, <1>2, <1>3, Joints DEF Understood

\* All of a field.
LEMMA WholeField ==
    ASSUME NEW p \in Bytes
    PROVE  Field(p, 0, Len(p)) = p
<1>1. Field(p \o <<>>, 0, Len(p)) = p /\ p \o <<>> = p
  BY Fields, Joints
<1> QED
  BY <1>1

LEMMA FindNodeRead ==
    ASSUME NEW m \in [type : {"FindNode"}, sender : Array(IdLen), target : Array(IdLen)]
    PROVE  Understood(m)
<1>1. /\ m.type = "FindNode" /\ m.sender \in Array(IdLen) /\ m.target \in Bytes /\ Len(m.target) = IdLen
      /\ m = [type |-> m.type, sender |-> m.sender, target |-> m.target]
  BY ArrayOf, Widths
<1>2. Body(m) = m.target
  BY <1>1 DEF Body
<1>3. Field(m.target, 0, IdLen) = m.target
  BY <1>1, WholeField
<1>4. DecodeBody("FindNode", m.sender, m.target) =
        {[type |-> "FindNode", sender |-> m.sender, target |-> Field(m.target, 0, IdLen)]}
  BY <1>1, Widths DEF DecodeBody
<1> QED
  BY <1>1, <1>2, <1>3, <1>4 DEF Understood

LEMMA GetPeersRead ==
    ASSUME NEW m \in [type : {"GetPeers"}, sender : Array(IdLen), hash : Array(HashLen)]
    PROVE  Understood(m)
<1>1. /\ m.type = "GetPeers" /\ m.sender \in Array(IdLen) /\ m.hash \in Bytes /\ Len(m.hash) = HashLen
      /\ m = [type |-> m.type, sender |-> m.sender, hash |-> m.hash]
  BY ArrayOf, Widths
<1>2. Body(m) = m.hash
  BY <1>1 DEF Body
<1>3. Field(m.hash, 0, HashLen) = m.hash
  BY <1>1, WholeField
<1>4. DecodeBody("GetPeers", m.sender, m.hash) =
        {[type |-> "GetPeers", sender |-> m.sender, hash |-> Field(m.hash, 0, HashLen)]}
  BY <1>1, Widths DEF DecodeBody
<1> QED
  BY <1>1, <1>2, <1>3, <1>4 DEF Understood

LEMMA FindNodeResponseRead ==
    ASSUME NEW m \in [type : {"FindNodeResponse"}, sender : Array(IdLen), nodes : Lists(NodeInfos, 1)]
    PROVE  Understood(m)
<1> DEFINE p == PutList(PutNode, m.nodes)
           list0 == [items |-> m.nodes, rest |-> <<>>]
           Of(list) == [type |-> "FindNodeResponse", sender |-> m.sender, nodes |-> list.items]
<1>1. /\ m.type = "FindNodeResponse" /\ m.sender \in Array(IdLen) /\ m.nodes \in Lists(NodeInfos, 1)
      /\ m = [type |-> m.type, sender |-> m.sender, nodes |-> m.nodes]
  OBVIOUS
<1>2. p \in Bytes /\ GetList(GetNode, p) = {list0}
  <2>1. p \in Bytes /\ GetList(GetNode, p \o <<>>) = {list0}
    BY <1>1, NodeListOf, Joints
  <2>2. p \o <<>> = p
    BY <2>1, Joints
  <2> QED
    BY <2>1, <2>2
<1>3. Body(m) = p
  BY <1>1 DEF Body
<1>4. DecodeBody("FindNodeResponse", m.sender, p) = {Of(list) : list \in GetList(GetNode, p)}
  BY DEF DecodeBody
<1>5. Of(list0) = m
  BY <1>1
<1> HIDE DEF p, Of, list0
<1>6. {Of(list) : list \in {list0}} = {Of(list0)}
  OBVIOUS
<1>7. DecodeBody("FindNodeResponse", m.sender, p) = {m}
  BY <1>2, <1>4, <1>5, <1>6
<1> QED
  BY <1>1, <1>2, <1>3, <1>7 DEF Understood

LEMMA GetPeersResponseRead ==
    ASSUME NEW m \in [type : {"GetPeersResponse"}, sender : Array(IdLen),
                      peers : Lists(PeerEntries, 1), nodes : Lists(NodeInfos, 1)]
    PROVE  Understood(m)
<1> DEFINE q == PutList(PutPeer, m.peers)
           n == PutList(PutNode, m.nodes)
           p == q \o n
           x0 == [items |-> m.peers, rest |-> n]
           y0 == [items |-> m.nodes, rest |-> <<>>]
           Of(x, y) == [type |-> "GetPeersResponse", sender |-> m.sender, peers |-> x.items, nodes |-> y.items]
           With(x) == {Of(x, y) : y \in GetList(GetNode, x.rest)}
<1>1. /\ m.type = "GetPeersResponse" /\ m.sender \in Array(IdLen)
      /\ m.peers \in Lists(PeerEntries, 1) /\ m.nodes \in Lists(NodeInfos, 1)
      /\ m = [type |-> m.type, sender |-> m.sender, peers |-> m.peers, nodes |-> m.nodes]
  OBVIOUS
<1>2. n \in Bytes /\ GetList(GetNode, n) = {y0}
  <2>1. n \in Bytes /\ GetList(GetNode, n \o <<>>) = {y0}
    BY <1>1, NodeListOf, Joints
  <2>2. n \o <<>> = n
    BY <2>1, Joints
  <2> QED
    BY <2>1, <2>2
<1>3. q \in Bytes /\ p \in Bytes /\ GetList(GetPeer, p) = {x0}
  <2> HIDE DEF n
  <2>1. q \in Bytes /\ GetList(GetPeer, q \o n) = {x0}
    BY <1>1, <1>2, PeerListOf
  <2> HIDE DEF q
  <2> QED
    BY <1>2, <2>1, Joints
<1>4. Body(m) = p
  BY <1>1 DEF Body
<1>5. DecodeBody("GetPeersResponse", m.sender, p) = UNION {With(x) : x \in GetList(GetPeer, p)}
  BY DEF DecodeBody
<1>6. Of(x0, y0) = m
  BY <1>1
<1>7. With(x0) = {m}
  <2>1. x0.rest = n
    OBVIOUS
  <2> HIDE DEF n, x0, y0, Of
  <2>2. With(x0) = {Of(x0, y) : y \in {y0}}
    BY <1>2, <2>1
  <2>3. {Of(x0, y) : y \in {y0}} = {Of(x0, y0)}
    OBVIOUS
  <2> QED
    BY <1>6, <2>2, <2>3
<1> HIDE DEF p, q, With, x0
<1>8. UNION {With(x) : x \in {x0}} = With(x0)
  OBVIOUS
<1>9. DecodeBody("GetPeersResponse", m.sender, p) = {m}
  BY <1>3, <1>5, <1>7, <1>8
<1> QED
  BY <1>1, <1>3, <1>4, <1>9 DEF Understood

LEMMA AnnounceRead ==
    ASSUME NEW m \in [type : {"AnnouncePeer"}, sender : Array(IdLen), hash : Array(HashLen),
                      port : Unsigned(2), score : Array(ScoreLen)]
    PROVE  Understood(m)
<1> DEFINE b == Put(m.port, 2)
           p == (m.hash \o b) \o m.score
<1>1. /\ m.type = "AnnouncePeer" /\ m.sender \in Array(IdLen)
      /\ m.hash \in Bytes /\ Len(m.hash) = HashLen /\ m.port \in Unsigned(2)
      /\ m.score \in Bytes /\ Len(m.score) = ScoreLen
      /\ m = [type |-> m.type, sender |-> m.sender, hash |-> m.hash, port |-> m.port, score |-> m.score]
  BY ArrayOf, Widths
<1>2. b \in Bytes /\ Len(b) = 2 /\ Value(b) = m.port
  BY <1>1, NumberOf
<1>3. Body(m) = p
  BY <1>1 DEF Body
<1> HIDE DEF b
<1>4. InParts(p, m.hash, b, m.score)
  BY <1>1, <1>2, Parts
<1> HIDE DEF p
<1>5. /\ p \in Bytes /\ Len(p) = HashLen + 2 + ScoreLen
      /\ Field(p, 0, HashLen) = m.hash /\ Field(p, HashLen, 2) = b /\ Field(p, HashLen + 2, ScoreLen) = m.score
  BY <1>1, <1>2, <1>4 DEF InParts
<1>6. DecodeBody("AnnouncePeer", m.sender, p) =
        {[type |-> "AnnouncePeer", sender |-> m.sender, hash |-> Field(p, 0, HashLen),
          port |-> Value(Field(p, HashLen, 2)), score |-> Field(p, HashLen + 2, ScoreLen)]}
  BY <1>5, Widths DEF DecodeBody
<1> QED
  BY <1>1, <1>2, <1>3, <1>5, <1>6 DEF Understood

\* DhtMessage's decode undoes its encode, for every message of the type.
THEOREM DecodeUndoesEncodeRpc ==
    ASSUME NEW m \in AllQueries, Len(Kinds) <= Base
    PROVE  DecodeRpc(EncodeRpc(m)) = {m}
<1>1. Understood(m)
  BY PingRead, FindNodeRead, FindNodeResponseRead, GetPeersRead, GetPeersResponseRead, AnnounceRead DEF AllQueries
<1>2. m.type \in {"Ping", "Pong", "FindNode", "FindNodeResponse", "GetPeers", "GetPeersResponse", "AnnouncePeer"}
  BY DEF AllQueries
<1>3. Kind(m) \in 0 .. 6 /\ Len(Kinds) = 7 /\ Kinds[Kind(m) + 1] = m.type
  BY <1>2, KindOf
<1> DEFINE c == Put(Kind(m), 1)
           p == (c \o m.sender) \o Body(m)
<1>4. c \in Bytes /\ Len(c) = 1 /\ c[1] = Kind(m)
  <2>1. Kind(m) \in Octet
    BY <1>3, Widths DEF Octet
  <2>2. \A x \in Octet : <<x>> \in Bytes /\ Len(<<x>>) = 1 /\ <<x>>[1] = x
    BY DEF Bytes
  <2>3. c = <<Kind(m)>>
    BY <2>1, OneOctet
  <2> HIDE DEF c
  <2> QED
    BY <2>1, <2>2, <2>3
<1>5. m.sender \in Bytes /\ Len(m.sender) = IdLen /\ Body(m) \in Bytes
  BY <1>1, ArrayOf, Widths DEF Understood
<1>6. EncodeRpc(m) = p
  BY DEF EncodeRpc
<1> HIDE DEF c
<1>7. InParts(p, c, m.sender, Body(m))
  BY <1>4, <1>5, Parts
<1> HIDE DEF p
<1>8. /\ Len(p) = 1 + IdLen + Len(Body(m)) /\ p[1] = Kind(m)
      /\ Field(p, 1, IdLen) = m.sender /\ From(p, 1 + IdLen) = Body(m)
  BY <1>4, <1>5, <1>7 DEF InParts
<1>9. ~(Len(p) < 1 + IdLen \/ p[1] >= Len(Kinds))
  BY <1>3, <1>5, <1>8, Joints, Widths
<1>10. DecodeRpc(p) = DecodeBody(m.type, m.sender, Body(m))
  BY <1>3, <1>8, <1>9 DEF DecodeRpc
<1> QED
  BY <1>1, <1>6, <1>10 DEF Understood

----------------------------------------------------------------------------
(* Frames *)

\* What lies in the first of two parts is found there without the second.
LEMMA Within ==
    ASSUME NEW x \in Bytes, NEW y \in Bytes, NEW skip \in Nat, NEW len \in Nat, skip + len <= Len(x)
    PROVE  Field(x \o y, skip, len) = Field(x, skip, len)
<1> DEFINE s == x \o y
<1>1. /\ x \in Seq(Octet) /\ s \in Seq(Octet) /\ Len(s) = Len(x) + Len(y)
      /\ Len(x) \in Nat /\ Len(y) \in Nat
      /\ \A i \in 1 .. Len(x) : s[i] = x[i]
  <2>1. x \in Seq(Octet) /\ y \in Seq(Octet)
    BY DEF Bytes
  <2> QED
    BY <2>1, ConcatProperties
<1> HIDE DEF s
<1>2. \A i \in skip + 1 .. skip + len : s[i] = x[i] /\ x[i] \in Octet
  BY <1>1
<1> DEFINE f == SubSeq(s, skip + 1, skip + len)
           g == SubSeq(x, skip + 1, skip + len)
<1>3. f \in Seq(Octet) /\ Len(f) = len /\ \A i \in 1 .. len : f[i] = s[skip + i]
  <2>1. \A i \in skip + 1 .. skip + len : s[i] \in Octet
    BY <1>2
  <2> QED
    BY <1>1, <2>1, SubSeqProperties
<1>4. g \in Seq(Octet) /\ Len(g) = len /\ \A i \in 1 .. len : g[i] = x[skip + i]
  <2>1. \A i \in skip + 1 .. skip + len : x[i] \in Octet
    BY <1>2
  <2> QED
    BY <1>1, <2>1, SubSeqProperties
<1> HIDE DEF f, g
<1>5. ASSUME NEW i \in 1 .. len PROVE f[i] = g[i]
  <2>1. skip + i \in skip + 1 .. skip + len
    OBVIOUS
  <2> QED
    BY <1>2, <1>3, <1>4, <2>1
<1>6. f = g
  BY <1>3, <1>4, <1>5, SeqEqual
<1> QED
  BY <1>6 DEF f, g, s, Field

\* A number of no more than another has room where that one has.
LEMMA Smaller ==
    ASSUME NEW w \in Nat, NEW n \in Unsigned(w), NEW k \in Nat, k <= n
    PROVE  k \in Unsigned(w)
<1>1. PICK v \in [0 .. w -> Nat] :
          /\ v[0] = 1 /\ \A i \in 1 .. w : v[i] = Base * v[i - 1]
          /\ Unsigned(w) = 0 .. v[w] - 1
  BY UnsignedSteps
<1>2. v[w] \in Nat
  BY <1>1
<1> QED
  BY <1>1, <1>2

LEMMA ValueType ==
    ASSUME NEW p \in Bytes
    PROVE  Value(p) \in Nat
<1>1. PICK v \in [0 .. Len(p) -> Nat] : Value(p) = v[Len(p)]
  BY ValueSteps
<1>2. Len(p) \in 0 .. Len(p)
  BY DEF Bytes
<1> QED
  BY <1>1, <1>2

\* The frame of a message: its length, the octet of its type, its payload.
Framed(m, e) ==
    /\ e \in Bytes /\ Len(e) = 5 + PayloadLen(m) /\ PayloadLen(m) \in Nat
    /\ Number(e, 0, 4) = 1 + PayloadLen(m)
    /\ e[5] = Code(m)
    /\ Field(e, 5, PayloadLen(m)) = Payload(m)

LEMMA FrameOf ==
    ASSUME NEW m \in AllMessages, PayloadLen(m) <= MaxPayload
    PROVE  Framed(m, Encode(m))
<1> DEFINE h == Put(1 + PayloadLen(m), 4)
           c == Put(Code(m), 1)
           b == Payload(m)
           e == Encode(m)
<1>1. PayloadLen(m) <= MaxPayload
  OBVIOUS
<1>2. Restored(m) /\ Code(m) \in 0 .. 10
  BY AllRead
<1>3. b \in Bytes /\ Len(b) = PayloadLen(m) /\ PayloadLen(m) \in Nat
  BY <1>2, Joints DEF Restored
<1>4. h \in Bytes /\ Len(h) = 4 /\ Value(h) = 1 + PayloadLen(m)
  <2> DEFINE n == 1 + PayloadLen(m)
  <2>1. n \in Nat /\ n <= MaxPayload + 1 /\ MaxPayload + 1 \in Unsigned(4)
    BY <1>1, <1>3, ConstantsAssumption
  <2> HIDE DEF n
  <2>2. n \in Unsigned(4)
    BY <2>1, Smaller
  <2>3. Put(n, 4) \in Bytes /\ Len(Put(n, 4)) = 4 /\ Value(Put(n, 4)) = n
    BY <2>2, NumberOf
  <2> QED
    BY <2>3 DEF n
<1>5. c \in Bytes /\ Len(c) = 1 /\ c[1] = Code(m)
  <2>1. Code(m) \in Octet
    <3>1. Len(Types) = 11 /\ Len(Types) <= Base
      BY ConstantsAssumption DEF Types
    <3> QED
      BY <1>2, <3>1, Widths DEF Octet
  <2>2. c = <<Code(m)>>
    BY <2>1, OneOctet
  <2>3. \A x \in Octet : <<x>> \in Bytes /\ Len(<<x>>) = 1 /\ <<x>>[1] = x
    BY DEF Bytes
  <2> HIDE DEF c
  <2> QED
    BY <2>1, <2>2, <2>3
<1>6. e = (h \o c) \o b
  BY DEF Encode, HeaderLen
<1> HIDE DEF h, c, b, e
<1>7. InParts(e, h, c, b)
  BY <1>3, <1>4, <1>5, <1>6, Parts
<1>8. h \o c \in Bytes /\ Len(h \o c) = 5 /\ (h \o c)[5] = Code(m)
  <2>1. h \o c \in Bytes /\ Len(h \o c) = Len(h) + Len(c)
    BY <1>4, <1>5, Joints
  <2>2. (h \o c)[Len(h) + 1] = c[1]
    <3>1. \A x, y \in Bytes : Len(y) > 0 => (x \o y)[Len(x) + 1] = y[1]
      BY Fields
    <3>2. Len(c) > 0
      BY <1>5
    <3> QED
      BY <1>4, <1>5, <3>1, <3>2
  <2> QED
    BY <1>4, <1>5, <2>1, <2>2
<1>9. e[5] = Code(m)
  <2>1. (h \o c) \in Seq(Octet) /\ b \in Seq(Octet) /\ 5 \in 1 .. Len(h \o c)
    BY <1>3, <1>8 DEF Bytes
  <2>2. ((h \o c) \o b)[5] = (h \o c)[5]
    BY <2>1, ConcatProperties
  <2> QED
    BY <1>6, <1>8, <2>2
<1>10. Number(e, 0, 4) = 1 + PayloadLen(m)
  BY <1>4, <1>7 DEF InParts, Number
<1>11. Field(e, 5, PayloadLen(m)) = b /\ Len(e) = 5 + PayloadLen(m) /\ e \in Bytes
  BY <1>3, <1>4, <1>5, <1>7 DEF InParts
<1> QED
  BY <1>3, <1>9, <1>10, <1>11 DEF Framed, e, b

\* What the decoder has begins with a frame, or is the beginning of one.
LEMMA SameHeader ==
    ASSUME NEW s \in Bytes, NEW v \in Bytes, NEW e \in Bytes, NEW u \in Bytes,
           s \o v = e \o u, Len(s) >= 4, Len(e) >= 4
    PROVE  Number(s, 0, 4) = Number(e, 0, 4)
<1>1. Field(s \o v, 0, 4) = Field(s, 0, 4) /\ Field(e \o u, 0, 4) = Field(e, 0, 4)
  <2>1. 0 \in Nat /\ 4 \in Nat /\ 0 + 4 <= Len(s) /\ 0 + 4 <= Len(e)
    OBVIOUS
  <2> QED
    BY <2>1, Within
<1> QED
  BY <1>1 DEF Number

Begun(s, e, v, u) ==
    /\ From(s, Len(e)) \in Bytes
    /\ s = e \o From(s, Len(e)) /\ From(s, Len(e)) \o v = u
    /\ s[5] = e[5]
    /\ \A n \in Nat : 5 + n <= Len(e) => Field(s, 5, n) = Field(e, 5, n)

LEMMA SameFrame ==
    ASSUME NEW s \in Bytes, NEW v \in Bytes, NEW e \in Bytes, NEW u \in Bytes,
           s \o v = e \o u, Len(s) >= Len(e), Len(e) >= 5
    PROVE  Begun(s, e, v, u)
<1> DEFINE y == From(s, Len(e))
<1>1. s = e \o y /\ y \o v = u
  BY Divided DEF Bytes
<1>2. y \in Bytes
  <2>1. Len(e) \in 0 .. Len(s)
    BY DEF Bytes
  <2> QED
    BY <2>1, FromOf DEF Bytes
<1> HIDE DEF y
<1>3. s[5] = e[5]
  <2>1. e \in Seq(Octet) /\ y \in Seq(Octet) /\ 5 \in 1 .. Len(e)
    BY <1>2 DEF Bytes
  <2>2. (e \o y)[5] = e[5]
    BY <2>1, ConcatProperties
  <2> QED
    BY <1>1, <2>2
<1>4. ASSUME NEW n \in Nat, 5 + n <= Len(e) PROVE Field(s, 5, n) = Field(e, 5, n)
  <2>1. Field(e \o y, 5, n) = Field(e, 5, n)
    BY <1>2, <1>4, Within
  <2> QED
    BY <1>1, <2>1
<1> QED
  BY <1>1, <1>2, <1>3, <1>4 DEF y, Begun

\* The frame of a message is waited for, and then is the message.
Decoded(s, v, m, u) ==
    \/ Len(s) < Len(Encode(m)) /\ Decode(s) = [kind |-> "none", rest |-> s]
    \/ /\ Decode(s) = [kind |-> "message", message |-> m, rest |-> From(s, Len(Encode(m)))]
       /\ From(s, Len(Encode(m))) \in Bytes
       /\ From(s, Len(Encode(m))) \o v = u

LEMMA DecodeMessage ==
    ASSUME NEW m \in AllMessages, PayloadLen(m) <= MaxPayload,
           NEW s \in Bytes, NEW v \in Bytes, NEW u \in Bytes,
           s \o v = Encode(m) \o u
    PROVE  Decoded(s, v, m, u)
<1> DEFINE e == Encode(m)
           length == Number(s, 0, HeaderLen)
           messages == Parse(s[HeaderLen + 1], Field(s, HeaderLen + 1, length - 1))
<1>1. Framed(m, e) /\ PayloadLen(m) <= MaxPayload
  BY FrameOf, ConstantsAssumption
<1>2. e \in Bytes /\ Len(e) = 5 + PayloadLen(m) /\ PayloadLen(m) \in Nat /\ MaxPayload \in Nat
  BY <1>1, ConstantsAssumption DEF Framed
<1>3. s \o v = e \o u /\ Len(s) \in Nat
  BY Joints
<1>4. Parse(Code(m), Payload(m)) = {m}
  BY AllRead, ConstantsAssumption DEF Restored
<1> HIDE DEF e
<1>5. CASE Len(s) < 4
  <2>1. Len(s) < Len(e)
    BY <1>2, <1>3, <1>5
  <2> QED
    BY <1>5, <2>1 DEF Decode, HeaderLen, Decoded, e
<1>6. CASE Len(s) >= 4
  <2>1. length = 1 + PayloadLen(m)
    <3>1. Number(s, 0, 4) = Number(e, 0, 4)
      <4>1. Len(e) >= 4
        BY <1>2
      <4> QED
        BY <1>2, <1>3, <1>6, <4>1, SameHeader
    <3> QED
      BY <1>1, <3>1 DEF Framed, HeaderLen
  <2> HIDE DEF length
  <2>2. ~(Len(s) < HeaderLen) /\ length # 0 /\ ~(length - 1 > MaxPayload)
    BY <1>1, <1>2, <1>3, <1>6, <2>1 DEF HeaderLen
  <2>3. CASE Len(s) < Len(e)
    <3>1. Incomplete(s, length)
      BY <1>2, <2>1, <2>3 DEF Incomplete, HeaderLen
    <3> QED
      BY <2>2, <2>3, <3>1 DEF Decode, length, Decoded, e
  <2>4. CASE Len(s) >= Len(e)
    <3>1. ~Incomplete(s, length) /\ HeaderLen + length = Len(e)
      BY <1>2, <1>3, <2>1, <2>4 DEF Incomplete, HeaderLen
    <3>2. /\ From(s, Len(e)) \in Bytes /\ From(s, Len(e)) \o v = u
          /\ s[5] = e[5]
          /\ \A n \in Nat : 5 + n <= Len(e) => Field(s, 5, n) = Field(e, 5, n)
      <4>1. Len(e) >= 5
        BY <1>2
      <4>2. Begun(s, e, v, u)
        BY <1>2, <1>3, <2>4, <4>1, SameFrame
      <4> QED
        BY <4>2 DEF Begun
    <3>3. messages = {m}
      <4>1. Field(s, 5, PayloadLen(m)) = Field(e, 5, PayloadLen(m))
        BY <1>2, <3>2
      <4>2. s[5] = Code(m) /\ Field(s, 5, PayloadLen(m)) = Payload(m)
        BY <1>1, <3>2, <4>1 DEF Framed
      <4>3. HeaderLen + 1 = 5 /\ length - 1 = PayloadLen(m)
        BY <1>2, <2>1 DEF HeaderLen
      <4> QED
        BY <1>4, <4>2, <4>3
    <3> HIDE DEF messages
    <3>4. Decode(s) = [kind |-> "message", message |-> CHOOSE x \in messages : TRUE, rest |-> From(s, HeaderLen + length)]
      BY <2>2, <3>1, <3>3 DEF Decode, length, messages
    <3>5. (CHOOSE x \in messages : TRUE) = m
      BY <3>3
    <3> QED
      BY <3>1, <3>2, <3>4, <3>5 DEF Decoded, e
  <2> QED
    BY <1>2, <1>3, <2>3, <2>4
<1> QED
  BY <1>3, <1>5, <1>6

\* LengthPrefixCodec's decode undoes its encode: of every message that fits into
\* a frame and whatever follows it, decode makes that message and what follows.
THEOREM DecodeUndoesEncode ==
    ASSUME NEW m \in AllMessages, PayloadLen(m) <= MaxPayload, NEW u \in Bytes
    PROVE  Decode(Encode(m) \o u) = [kind |-> "message", message |-> m, rest |-> u]
<1> DEFINE e == Encode(m)
           s == e \o u
<1>1. e \in Bytes
  BY FrameOf DEF Framed
<1> HIDE DEF e
<1>2. /\ s \in Bytes /\ <<>> \in Bytes /\ s \o <<>> = s
      /\ Len(s) = Len(e) + Len(u) /\ Len(e) \in Nat /\ Len(u) \in Nat
  <2>1. \A x, y \in Bytes : x \o y \in Bytes /\ Len(x \o y) = Len(x) + Len(y) /\ Len(x) \in Nat
    BY Joints
  <2>2. \A x \in Bytes : x \o <<>> = x
    BY DEF Bytes
  <2>3. <<>> \in Bytes
    BY DEF Bytes
  <2>4. s \in Bytes /\ Len(s) = Len(e) + Len(u) /\ Len(e) \in Nat /\ Len(u) \in Nat
    BY <1>1, <2>1
  <2> HIDE DEF s
  <2> QED
    BY <2>2, <2>3, <2>4
<1>3. Decoded(s, <<>>, m, u)
  BY <1>2, DecodeMessage DEF e
<1> HIDE DEF s
<1>4. Decode(s) = [kind |-> "message", message |-> m, rest |-> From(s, Len(e))]
  BY <1>2, <1>3 DEF Decoded, e
<1>5. From(s, Len(e)) \in Bytes /\ From(s, Len(e)) \o <<>> = u
  BY <1>2, <1>3 DEF Decoded, e
<1>6. From(s, Len(e)) = u
  <2>1. \A x \in Bytes : x \o <<>> = x
    BY DEF Bytes
  <2> QED
    BY <1>5, <2>1
<1>7. Decode(s) = [kind |-> "message", message |-> m, rest |-> u]
  BY <1>4, <1>6
<1> QED
  BY <1>7 DEF s, e

\* A strange frame never is one.
LEMMA DecodeStrange ==
    ASSUME NEW e \in Strange, NEW s \in Bytes, NEW v \in Bytes, NEW u \in Bytes, s \o v = e \o u
    PROVE  Decode(s).kind \in {"none", "error"}
<1> DEFINE length == Number(s, 0, HeaderLen)
           messages == Parse(s[HeaderLen + 1], Field(s, HeaderLen + 1, length - 1))
<1>1. /\ e \in Bytes /\ Len(e) >= 4 /\ Len(e) \in Nat /\ Len(s) \in Nat /\ MaxPayload \in Nat
      /\ Refused(e)
  BY ConstantsAssumption, Joints DEF Refused, HeaderLen
<1>2. CASE Len(s) < 4
  BY <1>2 DEF Decode, HeaderLen
<1>3. CASE Len(s) >= 4
  <2>1. length = Number(e, 0, HeaderLen)
    BY <1>1, <1>3, SameHeader DEF HeaderLen
  <2>2. length \in Nat
    <3>1. 4 \in 0 .. Len(s)
      BY <1>1, <1>3
    <3>2. SubSeq(s, 1, 4) \in Bytes
      BY <3>1, FromOf DEF Bytes
    <3> QED
      BY <3>2, ValueType DEF Number, Field, HeaderLen
  <2>3. \/ length = 0
        \/ length - 1 > MaxPayload
        \/ /\ Len(e) = HeaderLen + length
           /\ Parse(e[HeaderLen + 1], Field(e, HeaderLen + 1, length - 1)) = {}
    <3> HIDE DEF length
    <3> QED
      BY <1>1, <2>1 DEF Refused
  <2> HIDE DEF length
  <2>4. ~(Len(s) < HeaderLen)
    BY <1>1, <1>3 DEF HeaderLen
  <2>5. CASE length = 0 \/ length - 1 > MaxPayload
    BY <2>4, <2>5 DEF Decode, length
  <2>6. CASE /\ length # 0 /\ ~(length - 1 > MaxPayload) /\ Len(e) = HeaderLen + length
             /\ Parse(e[HeaderLen + 1], Field(e, HeaderLen + 1, length - 1)) = {}
    <3>1. CASE Incomplete(s, length)
      BY <2>4, <2>6, <3>1 DEF Decode, length
    <3>2. CASE ~Incomplete(s, length)
      <4>1. Len(s) >= Len(e) /\ Len(e) >= 5 /\ length - 1 \in Nat /\ 5 + (length - 1) <= Len(e)
        BY <1>1, <2>2, <2>6, <3>2 DEF Incomplete, HeaderLen
      <4>2. s[5] = e[5] /\ \A n \in Nat : 5 + n <= Len(e) => Field(s, 5, n) = Field(e, 5, n)
        <5>1. Begun(s, e, v, u)
          BY <1>1, <4>1, SameFrame
        <5> QED
          BY <5>1 DEF Begun
      <4>3. messages = {}
        <5>1. Field(s, 5, length - 1) = Field(e, 5, length - 1) /\ HeaderLen + 1 = 5
          BY <4>1, <4>2 DEF HeaderLen
        <5> QED
          BY <2>6, <4>2, <5>1
      <4> HIDE DEF messages
      <4> QED
        BY <2>4, <2>6, <3>2, <4>3 DEF Decode, length, messages
    <3> QED
      BY <3>1, <3>2
  <2> QED
    BY <2>3, <2>5, <2>6
<1> QED
  BY <1>1, <1>2, <1>3

----------------------------------------------------------------------------
(* What is left to receive *)

Items == Messages \cup {[type |-> "Strange", octets |-> s] : s \in Strange}

\* The frames of what was sent after the first n.
Left(s, n) == [k \in 1 .. Len(s) - n |-> Frame(s[n + k])]

LEMMA ItemOf ==
    ASSUME NEW item \in Items
    PROVE  /\ Frame(item) \in Bytes
           /\ \/ item \in Messages /\ Frame(item) = Encode(item)
              \/ Frame(item) \in Strange
<1>1. CASE item \in Messages
  <2>1. item.type # "Strange"
    BY <1>1, ConstantsAssumption DEF AllMessages, Ranges, Signals
  <2>2. Encode(item) \in Bytes
    BY <1>1, FrameOf, ConstantsAssumption DEF Framed
  <2> QED
    BY <1>1, <2>1, <2>2 DEF Frame
<1>2. CASE item \in {[type |-> "Strange", octets |-> s] : s \in Strange}
  <2>1. item.type = "Strange" /\ item.octets \in Strange
    BY <1>2
  <2>2. item.octets \in Bytes
    BY <2>1, ConstantsAssumption DEF Refused
  <2> QED
    BY <2>1, <2>2 DEF Frame
<1> QED
  BY <1>1, <1>2 DEF Items

LEMMA LeftType ==
    ASSUME NEW s \in Seq(Items), NEW n \in 0 .. Len(s)
    PROVE  /\ Left(s, n) \in Seq(Seq(Octet)) /\ Len(Left(s, n)) = Len(s) - n
           /\ FlattenSeq(Left(s, n)) \in Bytes
<1>1. Len(s) \in Nat /\ n \in Nat /\ n <= Len(s) /\ Len(s) - n \in Nat
  OBVIOUS
<1>2. ASSUME NEW k \in 1 .. Len(s) - n PROVE Frame(s[n + k]) \in Seq(Octet)
  <2>1. n + k \in 1 .. Len(s)
    BY <1>1
  <2>2. s[n + k] \in Items
    BY <2>1
  <2> QED
    BY <2>2, ItemOf DEF Bytes
<1>3. Left(s, n) \in [1 .. Len(s) - n -> Seq(Octet)]
  BY <1>2 DEF Left
<1>4. Left(s, n) \in Seq(Seq(Octet)) /\ Len(Left(s, n)) = Len(s) - n
  BY <1>1, <1>3
<1> QED
  BY <1>4, FlattenType DEF Bytes

\* What is sent comes last.
LEMMA LeftAppend ==
    ASSUME NEW s \in Seq(Items), NEW n \in 0 .. Len(s), NEW x \in Items
    PROVE  FlattenSeq(Left(Append(s, x), n)) = FlattenSeq(Left(s, n)) \o Frame(x)
<1> DEFINE t == Append(s, x)
<1>1. /\ Len(s) \in Nat /\ n \in Nat /\ n <= Len(s) /\ t \in Seq(Items) /\ Len(t) = Len(s) + 1
      /\ t[Len(s) + 1] = x /\ \A k \in 1 .. Len(s) : t[k] = s[k]
  OBVIOUS
<1> HIDE DEF t
<1>2. /\ Left(s, n) \in Seq(Seq(Octet)) /\ Len(Left(s, n)) = Len(s) - n /\ Frame(x) \in Seq(Octet)
  BY LeftType, ItemOf DEF Bytes
<1>3. Left(t, n) \in Seq(Seq(Octet)) /\ Len(Left(t, n)) = Len(s) + 1 - n
  <2>1. n \in 0 .. Len(t)
    BY <1>1
  <2> QED
    BY <1>1, <2>1, LeftType
<1> DEFINE a == Append(Left(s, n), Frame(x))
           len == Len(s) - n
<1>4. /\ a \in Seq(Seq(Octet)) /\ Len(a) = len + 1 /\ a[len + 1] = Frame(x)
      /\ \A k \in 1 .. len : a[k] = Left(s, n)[k]
  BY <1>2
<1> HIDE DEF a
<1>5. ASSUME NEW k \in 1 .. len + 1 PROVE Left(t, n)[k] = a[k]
  <2>1. Left(t, n)[k] = Frame(t[n + k])
    BY <1>1 DEF Left
  <2>2. CASE k = len + 1
    <3>1. n + k = Len(s) + 1
      BY <1>1, <2>2
    <3> QED
      BY <1>1, <1>4, <2>1, <2>2, <3>1
  <2>3. CASE k # len + 1
    <3>1. k \in 1 .. len /\ n + k \in 1 .. Len(s)
      BY <1>1, <2>3
    <3>2. Left(s, n)[k] = Frame(s[n + k])
      BY <3>1 DEF Left
    <3> QED
      BY <1>1, <1>4, <2>1, <3>1, <3>2
  <2> QED
    BY <2>2, <2>3
<1>6. Left(t, n) = a
  <2>1. len + 1 = Len(s) + 1 - n
    BY <1>1
  <2> HIDE DEF len
  <2> QED
    BY <1>3, <1>4, <1>5, <2>1, SeqEqual
<1>7. FlattenSeq(a) = FlattenSeq(Left(s, n)) \o Frame(x)
  BY <1>2, FlattenAppend DEF a
<1> QED
  BY <1>6, <1>7 DEF t

\* What is received came first.
LEMMA LeftFirst ==
    ASSUME NEW s \in Seq(Items), NEW n \in Nat, n < Len(s)
    PROVE  /\ s[n + 1] \in Items
           /\ FlattenSeq(Left(s, n)) = Frame(s[n + 1]) \o FlattenSeq(Left(s, n + 1))
<1>1. Len(s) \in Nat /\ n \in 0 .. Len(s) /\ n + 1 \in 0 .. Len(s) /\ n + 1 \in 1 .. Len(s)
  OBVIOUS
<1>2. s[n + 1] \in Items
  BY <1>1
<1> DEFINE a == Left(s, n)
           b == Left(s, n + 1)
           len == Len(s) - (n + 1)
<1>3. a \in Seq(Seq(Octet)) /\ Len(a) = Len(s) - n /\ b \in Seq(Seq(Octet)) /\ Len(b) = Len(s) - (n + 1)
  BY <1>1, LeftType
<1>4. Len(a) = len + 1 /\ Len(a) > 0 /\ 1 \in 0 .. Len(a) /\ len \in Nat
  BY <1>1, <1>3
<1>5. a[1] = Frame(s[n + 1])
  <2>1. 1 \in 1 .. Len(s) - n
    BY <1>1
  <2> QED
    BY <2>1 DEF Left
<1>6. From(a, 1) = b
  <2>1. /\ From(a, 1) \in Seq(Seq(Octet)) /\ Len(From(a, 1)) = Len(a) - 1
        /\ \A k \in 1 .. Len(a) - 1 : From(a, 1)[k] = a[1 + k]
    <3>1. a \in Seq(Seq(Octet)) /\ 1 \in 0 .. Len(a)
      BY <1>3, <1>4
    <3> HIDE DEF a
    <3> QED
      BY <3>1, FromOf
  <2>2. ASSUME NEW k \in 1 .. len PROVE From(a, 1)[k] = b[k]
    <3>1. k \in 1 .. Len(a) - 1 /\ 1 + k \in 1 .. Len(s) - n /\ n + (1 + k) = (n + 1) + k
      BY <1>1, <1>4
    <3>2. a[1 + k] = Frame(s[n + (1 + k)])
      BY <3>1 DEF Left
    <3>3. b[k] = Frame(s[(n + 1) + k])
      BY DEF Left
    <3> QED
      BY <2>1, <3>1, <3>2, <3>3
  <2>3. Len(a) - 1 = len /\ Len(b) = len
    <3> HIDE DEF a, b
    <3> QED
      BY <1>1, <1>3, <1>4
  <2> HIDE DEF a, b, len
  <2> QED
    BY <1>3, <2>1, <2>2, <2>3, SeqEqual
<1>7. FlattenSeq(a) = a[1] \o FlattenSeq(From(a, 1))
  <2> HIDE DEF a
  <2> QED
    BY <1>3, <1>4, FlattenFirst
<1> QED
  BY <1>2, <1>5, <1>6, <1>7

----------------------------------------------------------------------------
(* The stream *)

\* Where the decoder is: what it holds, what is under way and what a broken
\* connection lost are the frames of what it has not returned yet.
Whole(lost) ==
    /\ src \in Bytes /\ pipe \in Bytes /\ lost \in Bytes
    /\ src \o (pipe \o lost) = FlattenSeq(Left(sent, Len(got)))
    /\ status = "open" => lost = <<>>

InStep ==
    /\ sent \in Seq(Items) /\ got \in Seq(Items) /\ Len(got) <= Len(sent)
    /\ ~Ended => \E lost : Whole(lost)

\* What the decoder returns is the message that comes next.
LEMMA RecvNext ==
    ASSUME sent \in Seq(Items), got \in Seq(Items), Len(got) <= Len(sent), NEW lost, Whole(lost),
           Decode(src).kind = "message"
    PROVE  /\ Len(got) < Len(sent) /\ sent[Len(got) + 1] \in Items
           /\ Decode(src).message = sent[Len(got) + 1]
           /\ Decode(src).rest \in Bytes
           /\ Decode(src).rest \o (pipe \o lost) = FlattenSeq(Left(sent, Len(got) + 1))
<1> DEFINE n == Len(got)
           v == pipe \o lost
<1>1. n \in Nat /\ Len(sent) \in Nat /\ n <= Len(sent) /\ n \in 0 .. Len(sent)
  OBVIOUS
<1>2. src \in Bytes /\ v \in Bytes /\ src \o v = FlattenSeq(Left(sent, n))
  BY Joints DEF Whole
<1> HIDE DEF v, n
<1>3. n < Len(sent)
  <2> SUFFICES ASSUME n = Len(sent) PROVE FALSE
    BY <1>1
  <2>1. Left(sent, n) = <<>>
    <3>1. Left(sent, n) \in Seq(Seq(Octet)) /\ Len(Left(sent, n)) = 0
      BY <1>1, LeftType
    <3> QED
      BY <3>1
  <2>2. Len(src \o v) = 0
    BY <1>2, <2>1, FlattenEmpty
  <2>3. Len(src) < HeaderLen
    <3>1. Len(src \o v) = Len(src) + Len(v) /\ Len(src) \in Nat /\ Len(v) \in Nat
      BY <1>2, Joints
    <3> QED
      BY <2>2, <3>1 DEF HeaderLen
  <2>4. Decode(src).kind = "none"
    BY <2>3 DEF Decode
  <2> QED
    BY <2>4
<1> DEFINE item == sent[n + 1]
           u == FlattenSeq(Left(sent, n + 1))
<1>4. item \in Items /\ u \in Bytes /\ src \o v = Frame(item) \o u
  <2>1. item \in Items /\ FlattenSeq(Left(sent, n)) = Frame(item) \o u
    BY <1>1, <1>3, LeftFirst
  <2>2. n + 1 \in 0 .. Len(sent)
    BY <1>1, <1>3
  <2> QED
    BY <1>2, <2>1, <2>2, LeftType
<1> HIDE DEF item, u
<1>5. CASE Frame(item) \in Strange
  <2>1. Decode(src).kind \in {"none", "error"}
    BY <1>2, <1>4, <1>5, DecodeStrange
  <2> QED
    BY <2>1
<1>6. CASE item \in Messages /\ Frame(item) = Encode(item)
  <2>1. Decoded(src, v, item, u)
    BY <1>2, <1>4, <1>6, DecodeMessage, ConstantsAssumption
  <2>2. /\ Decode(src) = [kind |-> "message", message |-> item, rest |-> From(src, Len(Encode(item)))]
        /\ From(src, Len(Encode(item))) \in Bytes
        /\ From(src, Len(Encode(item))) \o v = u
    BY <2>1 DEF Decoded
  <2> QED
    BY <1>3, <1>4, <2>2 DEF item, u, v, n
<1> QED
  BY <1>4, <1>5, <1>6, ItemOf

LEMMA StepInit == Init => InStep
<1> SUFFICES ASSUME Init PROVE InStep
  OBVIOUS
<1>1. sent \in Seq(Items) /\ got \in Seq(Items) /\ Len(sent) = 0 /\ Len(got) = 0
  BY DEF Init
<1>2. Left(sent, Len(got)) = <<>>
  <2>1. Left(sent, Len(got)) \in Seq(Seq(Octet)) /\ Len(Left(sent, Len(got))) = 0
    <3>1. Len(got) \in 0 .. Len(sent) /\ Len(sent) - Len(got) = 0
      BY <1>1
    <3> QED
      BY <1>1, <3>1, LeftType
  <2> QED
    BY <2>1
<1>3. Whole(<<>>)
  BY <1>2, FlattenEmpty, Joints DEF Init, Whole
<1> QED
  BY <1>1, <1>3 DEF InStep

\* What a step of the decoder does, in terms of the messages.
LEMMA RecvStep ==
    ASSUME InStep, Recv
    PROVE  /\ InStep'
           /\ ~Ended /\ UNCHANGED sent
           /\ \/ /\ Len(got) < Len(sent) /\ got' = Append(got, sent[Len(got) + 1])
                 /\ UNCHANGED status
              \/ UNCHANGED got /\ Ended'
<1> DEFINE d == Decode(src)
<1>1. ~Ended /\ UNCHANGED <<pipe, sent>>
  BY DEF Recv
<1>2. PICK lost : Whole(lost)
  BY <1>1 DEF InStep
<1>3. sent \in Seq(Items) /\ got \in Seq(Items) /\ Len(got) <= Len(sent)
  BY DEF InStep
<1>4. CASE d.kind = "message" /\ got' = Append(got, d.message) /\ src' = d.rest /\ UNCHANGED status
  <2>1. /\ Len(got) < Len(sent) /\ sent[Len(got) + 1] \in Items
        /\ d.message = sent[Len(got) + 1]
        /\ d.rest \in Bytes
        /\ d.rest \o (pipe \o lost) = FlattenSeq(Left(sent, Len(got) + 1))
    BY <1>2, <1>3, <1>4, RecvNext
  <2> HIDE DEF d
  <2>2. got' = Append(got, sent[Len(got) + 1])
    BY <1>4, <2>1
  <2>3. got' \in Seq(Items) /\ Len(got') = Len(got) + 1 /\ Len(got') <= Len(sent)
    BY <1>3, <2>1, <2>2
  <2>4. Whole(lost)'
    BY <1>1, <1>2, <1>4, <2>1, <2>3 DEF Whole, Left, Frame
  <2>5. InStep'
    BY <1>1, <1>3, <2>3, <2>4 DEF InStep
  <2> QED
    BY <1>1, <1>4, <2>1, <2>2, <2>5
<1>5. CASE UNCHANGED got /\ status' \in {"failed", "closed"}
  <2>1. Ended'
    BY <1>5 DEF Ended
  <2>2. InStep'
    BY <1>1, <1>3, <1>5, <2>1 DEF InStep
  <2> QED
    BY <1>1, <1>5, <2>1, <2>2
<1> QED
  BY <1>4, <1>5 DEF Recv

LEMMA SendStep ==
    ASSUME InStep, Send
    PROVE  InStep' /\ UNCHANGED <<got, status>> /\ \E m \in Items : sent' = Append(sent, m)
<1>1. PICK item \in Items : sent' = Append(sent, item) /\ pipe' = pipe \o Frame(item)
  BY DEF Send, Items
<1>2. UNCHANGED <<src, status, got>> /\ status = "open" /\ ~Ended
  BY DEF Send, Ended
<1>3. PICK lost : Whole(lost)
  BY <1>2 DEF InStep
<1>4. sent \in Seq(Items) /\ got \in Seq(Items) /\ Len(got) <= Len(sent) /\ Len(got) \in 0 .. Len(sent)
  BY DEF InStep
<1>5. lost = <<>> /\ src \in Bytes /\ pipe \in Bytes /\ Frame(item) \in Bytes
  BY <1>2, <1>3, ItemOf DEF Whole
<1>6. src \o pipe = FlattenSeq(Left(sent, Len(got)))
  BY <1>3, <1>5, Joints DEF Whole
<1>7. FlattenSeq(Left(sent', Len(got))) = FlattenSeq(Left(sent, Len(got))) \o Frame(item)
  BY <1>1, <1>4, LeftAppend
<1>8. src \o (pipe \o Frame(item)) = FlattenSeq(Left(sent', Len(got)))
  <2>1. Alike(src, pipe, Frame(item))
    BY <1>5, AlikeOf
  <2> QED
    BY <1>6, <1>7, <2>1 DEF Alike
<1>9. Whole(<<>>)'
  <2>1. pipe' \in Bytes /\ pipe' \o <<>> = pipe' /\ <<>> \in Bytes
    BY <1>1, <1>5, Joints
  <2>2. src' \o pipe' = FlattenSeq(Left(sent', Len(got')))
    BY <1>1, <1>2, <1>8
  <2>3. src' \in Bytes
    BY <1>2, <1>5
  <2> QED
    BY <2>1, <2>2, <2>3 DEF Whole, Left, Frame
<1>10. sent' \in Seq(Items) /\ got' \in Seq(Items) /\ Len(got') <= Len(sent')
  BY <1>1, <1>2, <1>4
<1>11. InStep'
  BY <1>9, <1>10 DEF InStep
<1> QED
  BY <1>1, <1>2, <1>11

LEMMA ArriveStep ==
    ASSUME InStep, Arrive
    PROVE  InStep' /\ UNCHANGED <<sent, got, status>>
<1>1. ~Ended /\ UNCHANGED <<status, sent, got>>
  BY DEF Arrive
<1>2. PICK n \in 1 .. Len(pipe) : src' = src \o SubSeq(pipe, 1, n) /\ pipe' = From(pipe, n)
  BY DEF Arrive
<1>3. PICK lost : Whole(lost)
  BY <1>1 DEF InStep
<1> DEFINE x == SubSeq(pipe, 1, n)
           y == From(pipe, n)
<1>4. src \in Bytes /\ pipe \in Bytes /\ lost \in Bytes
  BY <1>3 DEF Whole
<1>5. x \in Bytes /\ y \in Bytes /\ pipe = x \o y
  <2>1. n \in 0 .. Len(pipe)
    BY <1>4 DEF Bytes
  <2> QED
    BY <1>4, <2>1, FromOf DEF Bytes
<1> HIDE DEF x, y
<1>6. src' = src \o x /\ pipe' = y
  BY <1>2 DEF x, y
<1>7. (src \o x) \o (y \o lost) = src \o (pipe \o lost)
  <2>1. y \o lost \in Bytes
    BY <1>4, <1>5, Joints
  <2>2. Alike(src, x, y \o lost) /\ Alike(x, y, lost)
    BY <1>4, <1>5, <2>1, AlikeOf
  <2> QED
    BY <1>5, <2>2 DEF Alike
<1>8. src \o x \in Bytes
  BY <1>4, <1>5, Joints
<1>9. Whole(lost)'
  BY <1>1, <1>3, <1>4, <1>5, <1>6, <1>7, <1>8 DEF Whole, Left, Frame
<1> QED
  BY <1>1, <1>9 DEF InStep, Ended

LEMMA CutStep ==
    ASSUME InStep, Cut
    PROVE  InStep' /\ UNCHANGED <<sent, got>> /\ ~Ended /\ ~Ended'
<1>1. /\ status = "open" /\ status' = "cut" /\ pipe' = <<>> /\ UNCHANGED <<src, sent, got>>
      /\ ~Ended /\ ~Ended'
  BY DEF Cut, Ended
<1>2. PICK lost : Whole(lost)
  BY <1>1 DEF InStep
<1>3. pipe \o lost \in Bytes /\ <<>> \in Bytes /\ <<>> \o (pipe \o lost) = pipe \o lost
  BY <1>2, Joints DEF Whole
<1>4. \E x : Whole(x)'
  <2>1. src \in Bytes /\ src \o (pipe \o lost) = FlattenSeq(Left(sent, Len(got)))
    BY <1>2 DEF Whole
  <2> DEFINE x == pipe \o lost
  <2>2. /\ src' \in Bytes /\ pipe' \in Bytes /\ x \in Bytes
        /\ src' \o (pipe' \o x) = FlattenSeq(Left(sent', Len(got')))
        /\ status' # "open"
    BY <1>1, <1>3, <2>1
  <2> HIDE DEF x
  <2>3. \E z : /\ src' \in Bytes /\ pipe' \in Bytes /\ z \in Bytes
               /\ src' \o (pipe' \o z) = FlattenSeq(Left(sent', Len(got')))
               /\ status' = "open" => z = <<>>
    BY <2>2
  <2> QED
    BY <2>3 DEF Whole, Left, Frame
<1> QED
  BY <1>1, <1>4 DEF InStep

----------------------------------------------------------------------------

\* No step but the decoder's changes what was received, and the decoder's are
\* those of the channel.
LEMMA Steps ==
    ASSUME InStep, [Next]_vars
    PROVE  InStep' /\ [Connection!Next]_Connection!vars
<1>1. CASE Send
  <2>1. InStep' /\ UNCHANGED <<got, status>> /\ \E m \in Items : sent' = Append(sent, m)
    BY <1>1, SendStep
  <2>2. Connection!Send
    BY <2>1 DEF Connection!Send, Items, Ended
  <2> QED
    BY <2>1, <2>2 DEF Connection!Next
<1>2. CASE Cut
  <2>1. InStep' /\ UNCHANGED <<sent, got>> /\ ~Ended /\ ~Ended'
    BY <1>2, CutStep
  <2>2. Ended = Ended'
    BY <2>1 DEF Ended
  <2> QED
    BY <2>1, <2>2 DEF Connection!vars
<1>3. CASE Arrive
  <2>1. InStep' /\ UNCHANGED <<sent, got, status>>
    BY <1>3, ArriveStep
  <2> QED
    BY <2>1 DEF Connection!vars, Ended
<1>4. CASE Recv
  <2>1. /\ InStep' /\ ~Ended /\ UNCHANGED sent
        /\ \/ /\ Len(got) < Len(sent) /\ got' = Append(got, sent[Len(got) + 1])
              /\ UNCHANGED status
           \/ UNCHANGED got /\ Ended'
    BY <1>4, RecvStep
  <2>2. CASE /\ Len(got) < Len(sent) /\ got' = Append(got, sent[Len(got) + 1])
             /\ UNCHANGED status
    <3>1. Ended' = Ended
      BY <2>2 DEF Ended
    <3>2. Connection!Receive
      BY <2>1, <2>2, <3>1 DEF Connection!Receive
    <3> QED
      BY <2>1, <3>2 DEF Connection!Next
  <2>3. CASE UNCHANGED got /\ Ended'
    <3>1. Ended' = TRUE
      BY <2>3 DEF Ended
    <3>2. Connection!End
      BY <2>1, <2>3, <3>1 DEF Connection!End
    <3> QED
      BY <2>1, <3>2 DEF Connection!Next
  <2> QED
    BY <2>1, <2>2, <2>3
<1>5. CASE Ask \/ UNCHANGED vars
  <2>1. UNCHANGED <<pipe, src, status, sent, got>>
    BY <1>5 DEF Ask, stream, vars
  <2> QED
    BY <2>1 DEF InStep, Ended, Whole, Left, Frame, Connection!vars
<1> QED
  BY <1>1, <1>2, <1>3, <1>4, <1>5 DEF Next, Receiving

\* The invariant of a connection: whatever was sent and is not received is
\* held, under way, or lost with a broken connection, in frames.
THEOREM InStepCorrect == Spec => []InStep
<1>1. InStep /\ [Next]_vars => InStep'
  BY Steps
<1> QED
  BY <1>1, StepInit, PTL DEF Spec

LEMMA WholeNothingLost == InStep => NothingLost
<1> SUFFICES ASSUME InStep, status = "open" PROVE src \o pipe = FlattenSeq(Left(sent, Len(got)))
  BY DEF NothingLost, Left
<1>1. PICK lost : Whole(lost)
  BY DEF InStep, Ended
<1> QED
  BY <1>1, Joints DEF Whole

\* As long as the connection is open the decoder and the stream between them
\* have every octet of what is still to be received, and no other.
THEOREM NothingLostCorrect == Spec => []NothingLost
BY InStepCorrect, WholeNothingLost, PTL

\* PeerConnection's recv returns what the other end's send was given, in order,
\* none twice and none altered.
THEOREM ChannelSpecCorrect == Spec => ChannelSpec
<1>1. Init => Connection!Init
  BY DEF Init, Ended, Connection!Init
<1>2. InStep /\ [Next]_vars => [Connection!Next]_Connection!vars
  BY Steps
<1> QED
  BY <1>1, <1>2, InStepCorrect, PTL DEF Spec, ChannelSpec, Connection!Spec

----------------------------------------------------------------------------
(* A datagram *)

\* What a datagram of the DHT says is what its receiver understands.
THEOREM SaidIsHeardCorrect == Spec => []SaidIsHeard
<1>1. Init => SaidIsHeard
  BY DEF Init, SaidIsHeard
<1>2. SaidIsHeard /\ [Next]_vars => SaidIsHeard'
  <2> SUFFICES ASSUME SaidIsHeard, [Next]_vars PROVE SaidIsHeard'
    OBVIOUS
  <2>1. CASE Ask
    <3>1. PICK m \in Queries : asked' = {m} /\ understood' = DecodeRpc(EncodeRpc(m))
      BY <2>1 DEF Ask
    <3>2. m \in AllQueries /\ Len(Kinds) <= Base
      BY ConstantsAssumption
    <3>3. DecodeRpc(EncodeRpc(m)) = {m}
      BY <3>2, DecodeUndoesEncodeRpc
    <3> QED
      BY <3>1, <3>3 DEF SaidIsHeard
  <2>2. CASE UNCHANGED datagrams
    BY <2>2 DEF datagrams, SaidIsHeard
  <2> QED
    BY <2>1, <2>2 DEF Next, Receiving, Send, Cut, Arrive, Recv, datagrams, vars
<1> QED
  BY <1>1, <1>2, PTL DEF Spec
=============================================================================
