---------------------------- MODULE NumberProofs ----------------------------
(*****************************************************************************)
(* Proofs about the modules of numbers and bytes that MCData.tla checks:     *)
(* absolute times, memory buffers and 64-bit integers.                       *)
(*****************************************************************************)
EXTENDS MCData, QueueOpsProofs

-----------------------------------------------------------------------------
(* Powers of two, and functions that are given by their steps. *)

LEMMA PowerIsSubsets ==
    ASSUME NEW i \in Nat
    PROVE  /\ 2 ^ i \in Nat /\ IsFiniteSet(SUBSET (1..i))
           /\ Cardinality(SUBSET (1..i)) = 2 ^ i
<1>1. IsFiniteSet(1..i) /\ Cardinality(1..i) = i
  BY FS_Interval
<1>2. IsFiniteSet(SUBSET (1..i)) /\ Cardinality(SUBSET (1..i)) = 2 ^ Cardinality(1..i)
  BY <1>1, FS_SUBSET
<1> QED BY <1>1, <1>2, FS_CardinalityType

\* The powers of two, which the provers do not know.
LEMMA PowerZero == 2 ^ 0 = 1
<1>1. SUBSET (1..0) = {{}}
  OBVIOUS
<1>2. Cardinality(SUBSET (1..0)) = 1
  BY <1>1, FS_Singleton
<1> QED BY <1>2, PowerIsSubsets

LEMMA PowerNext == ASSUME NEW i \in Nat PROVE 2 ^ (i + 1) = 2 * 2 ^ i
<1> DEFINE A == SUBSET (1..i)
           B == {s \in SUBSET (1..(i + 1)) : i + 1 \in s}
           f == [s \in A |-> s \cup {i + 1}]
<1>1. SUBSET (1..(i + 1)) = A \cup B
  OBVIOUS
<1>2. A \cap B = {}
  OBVIOUS
<1>3. f \in Bijection(A, B)
  <2>1. f \in [A -> B]
    OBVIOUS
  <2>2. \A s, t \in A : f[s] = f[t] => s = t
    OBVIOUS
  <2>3. ASSUME NEW t \in B PROVE \E s \in A : f[s] = t
    <3>1. t \ {i + 1} \in A /\ f[t \ {i + 1}] = t
      OBVIOUS
    <3> QED BY <3>1
  <2> QED BY <2>1, <2>2, <2>3 DEF Bijection, Injection, Surjection, IsInjective
<1> HIDE DEF f
<1>4. IsFiniteSet(A) /\ Cardinality(A) = 2 ^ i
  BY PowerIsSubsets
<1> HIDE DEF A, B
<1>5. IsFiniteSet(B) /\ Cardinality(B) = Cardinality(A)
  BY <1>3, <1>4, FS_Bijection DEF ExistsBijection
<1>6. Cardinality(A \cup B) = Cardinality(A) + Cardinality(B) - Cardinality(A \cap B)
  BY <1>4, <1>5, FS_Union
<1>7. Cardinality(A \cap B) = 0
  BY <1>2, FS_EmptySet
<1>8. Cardinality(A \cup B) = 2 ^ (i + 1)
  BY <1>1, PowerIsSubsets DEF A
<1>9. 2 ^ i \in Nat
  BY PowerIsSubsets
<1> QED BY <1>4, <1>5, <1>6, <1>7, <1>8, <1>9

LEMMA PowerType == ASSUME NEW i \in Nat PROVE 2 ^ i \in Nat \ {0}
<1> DEFINE T == {j \in Nat : 2 ^ j = 0}
<1>1. ASSUME T # {} PROVE FALSE
  <2>1. PICK j \in T : \A k \in T : j <= k
    BY <1>1, LeastNumber
  <2>2. j # 0
    <3>1. j = 0 => 2 ^ j = 1
      BY ONLY PowerZero, Zenon
    <3> QED BY <3>1
  <2>3. j - 1 \in Nat /\ j - 1 \notin T /\ 2 ^ j = 2 * 2 ^ (j - 1)
    <3>1. j - 1 \in Nat /\ j = (j - 1) + 1
      BY <2>2
    <3>2. 2 ^ ((j - 1) + 1) = 2 * 2 ^ (j - 1)
      BY <3>1, PowerNext
    <3> QED BY <2>1, <3>1, <3>2
  <2>4. 2 ^ (j - 1) \in Nat
    BY <2>3, PowerIsSubsets
  <2> QED BY <2>3, <2>4
<1>2. 2 ^ i \in Nat
  BY PowerIsSubsets
<1> QED BY <1>1, <1>2

LEMMA PowerSum == ASSUME NEW i \in Nat, NEW j \in Nat PROVE 2 ^ (i + j) = 2 ^ i * 2 ^ j
<1> DEFINE T == {k \in Nat : 2 ^ (i + k) # 2 ^ i * 2 ^ k}
<1>1. ASSUME T # {} PROVE FALSE
  <2>1. PICK k \in T : \A l \in T : k <= l
    BY <1>1, LeastNumber
  <2>2. k # 0
    <3>1. k = 0 => 2 ^ k = 1 /\ 2 ^ (i + k) = 2 ^ i
      <4>1. k = 0 => 2 ^ k = 1
        BY ONLY PowerZero, Zenon
      <4>2. k = 0 => i + k = i
        OBVIOUS
      <4> QED BY <4>1, <4>2
    <3>2. 2 ^ i \in Int
      BY PowerType
    <3> QED BY <3>1, <3>2
  <2>3. k - 1 \in Nat /\ k - 1 \notin T /\ k = (k - 1) + 1
    BY <2>1, <2>2
  <2> DEFINE m == k - 1
  <2>4. m \in Nat /\ 2 ^ (i + m) = 2 ^ i * 2 ^ m /\ i + m \in Nat
    BY <2>3
  <2>5. 2 ^ (m + 1) = 2 * 2 ^ m /\ 2 ^ ((i + m) + 1) = 2 * 2 ^ (i + m)
    BY <2>4, PowerNext
  <2>6. k = m + 1 /\ i + k = (i + m) + 1
    BY <2>3
  <2>7. 2 ^ k = 2 * 2 ^ m /\ 2 ^ (i + k) = 2 * 2 ^ (i + m)
    BY <2>5, <2>6
  <2> HIDE DEF m
  <2>8. 2 ^ i \in Int /\ 2 ^ m \in Int
    BY <2>4, PowerType
  <2>9. 2 ^ (i + k) = 2 ^ i * 2 ^ k
    <3> DEFINE p == 2 ^ i  q == 2 ^ m  r == 2 ^ (i + m)  s == 2 ^ k  t == 2 ^ (i + k)
    <3>1. p \in Int /\ q \in Int /\ r = p * q /\ s = 2 * q /\ t = 2 * r
      BY <2>4, <2>7, <2>8
    <3> HIDE DEF p, q, r, s, t
    <3>2. t = p * s
      BY <3>1
    <3> QED BY <3>2 DEF p, s, t
  <2> QED BY <2>9
<1> QED BY <1>1

LEMMA PowerMonotone ==
    ASSUME NEW i \in Nat, NEW j \in Nat, i <= j
    PROVE  2 ^ i <= 2 ^ j
<1>1. j - i \in Nat /\ j = i + (j - i)
  OBVIOUS
<1>2. 2 ^ j = 2 ^ i * 2 ^ (j - i)
  BY <1>1, PowerSum
<1> DEFINE p == 2 ^ i  q == 2 ^ (j - i)  r == 2 ^ j
<1>3. p \in Nat \ {0} /\ q \in Nat \ {0} /\ r = p * q
  BY <1>1, <1>2, PowerType
<1> HIDE DEF p, q, r
<1>4. p <= r
  BY <1>3
<1> QED BY <1>4 DEF p, r

\* A function given by its first value and by a step exists: each of the m steps
\* takes the value before it to the one after it.
Iterated(f, S, m, first, next) ==
    f \in [0..m -> S] /\ f[0] = first /\ \A i \in 1..m : f[i] = next[i][f[i - 1]]
Steps(S, m) == [1..m -> [S -> S]]

LEMMA Iterates ==
    ASSUME NEW S, NEW m \in Nat, NEW first \in S, NEW next \in Steps(S, m)
    PROVE  \E f : Iterated(f, S, m, first, next)
<1> USE DEF Iterated, Steps
<1> DEFINE Is(f, b) == Iterated(f, S, b, first, next)
           T == {b \in 0..m : ~ \E f : Is(f, b)}
<1>1. SUFFICES ASSUME T # {} PROVE FALSE
  <2>1. m \in 0..m
    OBVIOUS
  <2> QED BY <2>1
<1>2. T \in SUBSET Nat
  OBVIOUS
<1>3. PICK b \in T : \A k \in T : b <= k
  BY <1>1, <1>2, LeastNumber
<1>4. b \in 0..m /\ ~ \E f : Is(f, b)
  BY <1>3
<1>5. CASE b = 0
  <2> DEFINE f == [i \in 0..0 |-> first]
  <2>1. Is(f, 0)
    OBVIOUS
  <2> QED BY <1>4, <1>5, <2>1
<1>6. CASE b # 0
  <2>1. b - 1 \in 0..m /\ ~ (b <= b - 1) /\ b \in 1..m
    BY <1>4, <1>6
  <2>2. b - 1 \notin T
    BY <1>3, <2>1
  <2>3. PICK f : Is(f, b - 1)
    BY <2>1, <2>2
  <2> DEFINE h == [i \in 0..b |-> IF i = b THEN next[b][f[b - 1]] ELSE f[i]]
  <2>4. f[b - 1] \in S /\ next[b][f[b - 1]] \in S
    BY <2>1, <2>3
  <2>5. h \in [0..b -> S]
    <3>1. ASSUME NEW i \in 0..b, i # b PROVE i \in 0..(b - 1)
      BY <2>1, <3>1
    <3> QED BY <2>3, <2>4, <3>1
  <2>6. h[0] = first
    BY <2>1, <2>3
  <2>7. ASSUME NEW i \in 1..b PROVE h[i] = next[i][h[i - 1]]
    <3>1. i - 1 \in 0..b /\ i - 1 # b /\ i \in 0..b /\ h[i - 1] = f[i - 1]
      BY <2>1
    <3>2. CASE i = b
      BY <3>1, <3>2
    <3>3. CASE i # b
      <4>1. i \in 1..(b - 1) /\ h[i] = f[i]
        BY <2>1, <3>1, <3>3
      <4> QED BY <2>3, <3>1, <4>1
    <3> QED BY <3>2, <3>3
  <2>8. Is(h, b)
    BY <2>5, <2>6, <2>7
  <2> QED BY <1>4, <2>8
<1> QED BY <1>5, <1>6

-----------------------------------------------------------------------------
(* Division, and the bits of a number. *)

\* The quotient of a division by a positive number rounds down.
LEMMA FloorDivision ==
    ASSUME NEW b \in Nat \ {0}, NEW q \in Int, NEW r \in 0..(b - 1), NEW a \in Int,
           a = (b * q) + r
    PROVE  a \div b = q /\ a % b = r
OBVIOUS

LEMMA DivisionIs ==
    ASSUME NEW b \in Nat \ {0}, NEW a \in Int
    PROVE  a \div b \in Int /\ a % b \in 0..(b - 1) /\ a = (b * (a \div b)) + (a % b)
OBVIOUS

\* Adding a multiple of the divisor.
LEMMA DivideSum ==
    ASSUME NEW x \in Int, NEW y \in Int, NEW p \in Nat \ {0}
    PROVE  (x + p * y) \div p = (x \div p) + y /\ (x + p * y) % p = x % p
<1> DEFINE q == x \div p  r == x % p  z == x + p * y  k == q + y
<1>1. q \in Int /\ r \in 0..(p - 1) /\ x = (p * q) + r
  BY DivisionIs
<1> HIDE DEF q, r
<1>2. z \in Int /\ k \in Int /\ z = (p * k) + r
  <2>1. p * (q + y) = (p * q) + (p * y) /\ p * q \in Int /\ p * y \in Int
    BY <1>1
  <2> QED BY <1>1, <2>1
<1> HIDE DEF z, k
<1>3. z \div p = k /\ z % p = r
  BY <1>1, <1>2, FloorDivision
<1> QED BY <1>3 DEF z, k, q, r

\* Dividing twice.
LEMMA DivideTwice ==
    ASSUME NEW x \in Int, NEW p \in Nat \ {0}, NEW w \in Nat \ {0}
    PROVE  p * w \in Nat \ {0} /\ (x \div p) \div w = x \div (p * w)
<1> DEFINE q == x \div p  r == x % p  s == q \div w  t == q % w  pw == p * w
<1>1. q \in Int /\ r \in 0..(p - 1) /\ x = (p * q) + r
  BY DivisionIs
<1> HIDE DEF q, r
<1>2. s \in Int /\ t \in 0..(w - 1) /\ q = (w * s) + t
  BY <1>1, DivisionIs
<1> HIDE DEF s, t
<1> DEFINE l == (p * t) + r
<1>3. pw \in Nat \ {0} /\ pw * s \in Int /\ p * t \in Int
  <2>1. p * w \in Nat \ {0}
    OBVIOUS
  <2>2. p * t \in Int
    BY <1>2
  <2> HIDE DEF pw
  <2>3. pw \in Nat \ {0}
    BY <2>1 DEF pw
  <2>4. pw * s \in Int
    BY <1>2, <2>3
  <2> QED BY <2>2, <2>3, <2>4
<1>4. p * q = (pw * s) + (p * t)
  <2>1. p * ((w * s) + t) = (p * (w * s)) + (p * t)
    BY <1>2
  <2>2. p * (w * s) = (p * w) * s
    BY <1>2
  <2> QED BY <1>2, <2>1, <2>2
<1>5. l \in 0..(pw - 1)
  <2>1. p * t <= p * (w - 1) /\ p * t >= 0
    BY <1>2
  <2>2. p * (w - 1) = pw - p
    OBVIOUS
  <2> HIDE DEF pw
  <2> QED BY <1>1, <1>3, <2>1, <2>2
<1>6. x = (pw * s) + l
  <2> HIDE DEF pw
  <2> QED BY <1>1, <1>3, <1>4
<1> HIDE DEF pw, l
<1>7. x \div pw = s
  BY <1>2, <1>3, <1>5, <1>6, FloorDivision
<1> QED BY <1>3, <1>7 DEF pw, s, q

\* The bits of x from s on, as many as l.
Bits(x, s, l) == (x \div 2 ^ s) % 2 ^ l

LEMMA BitsType ==
    ASSUME NEW x \in Int, NEW s \in Nat, NEW l \in Nat
    PROVE  Bits(x, s, l) \in 0..(2 ^ l - 1) /\ x \div 2 ^ s \in Int
<1> DEFINE p == 2 ^ s  w == 2 ^ l  q == x \div p
<1>1. p \in Nat \ {0} /\ w \in Nat \ {0}
  BY PowerType
<1> HIDE DEF p, w
<1>2. q \in Int
  BY <1>1, DivisionIs
<1> HIDE DEF q
<1>3. q % w \in 0..(w - 1)
  BY <1>1, <1>2, DivisionIs
<1> QED BY <1>2, <1>3 DEF Bits, p, w, q

\* x and z have the same bits below e.  Those above do not matter.
SameBelow(x, z, e) == \E y \in Int : z = x + y * 2 ^ e

LEMMA BitsBelow ==
    ASSUME NEW x \in Int, NEW z, NEW e \in Nat, NEW s \in Nat, NEW l \in Nat, s + l <= e,
           SameBelow(x, z, e)
    PROVE  Bits(z, s, l) = Bits(x, s, l)
<1> PICK y \in Int : z = x + y * 2 ^ e
  BY DEF SameBelow
<1> DEFINE d == e - (s + l)
<1>0. d \in Nat /\ e = (s + l) + d
  OBVIOUS
<1> HIDE DEF d
<1> DEFINE p == 2 ^ s  w == 2 ^ l  m == 2 ^ d  k == m * y  j == w * k
<1>1. 2 ^ e = (p * w) * m
  <2>1. 2 ^ (s + l) = p * w /\ s + l \in Nat
    BY PowerSum
  <2> DEFINE f == s + l
  <2> HIDE DEF f
  <2>2. 2 ^ (f + d) = 2 ^ f * m
    BY <1>0, <2>1, PowerSum DEF f
  <2> QED BY <1>0, <2>1, <2>2 DEF f
<1>2. p \in Nat \ {0} /\ w \in Nat \ {0} /\ m \in Nat \ {0}
  BY <1>0, PowerType
<1> HIDE DEF p, w, m
<1>3. y * 2 ^ e = p * j /\ k \in Int /\ j \in Int
  <2>1. y * ((p * w) * m) = p * (w * (m * y))
    BY <1>2
  <2>2. m * y \in Int
    BY <1>2
  <2>3. w * (m * y) \in Int
    BY <1>2, <2>2
  <2> QED BY <1>1, <2>1, <2>2, <2>3
<1> DEFINE q == x \div p
<1>4. q \in Int
  BY <1>2, DivisionIs
<1> HIDE DEF k
<1>5. (q + w * k) % w = q % w
  <2> HIDE DEF q
  <2> QED BY <1>2, <1>3, <1>4, DivideSum
<1> HIDE DEF j
<1>6. (x + p * j) \div p = q + j
  BY <1>2, <1>3, DivideSum
<1>7. Bits(x + p * j, s, l) = (q + j) % w
  BY <1>6 DEF Bits, p, w
<1>8. Bits(x, s, l) = q % w
  BY DEF Bits, p, w
<1> QED BY <1>3, <1>5, <1>7, <1>8 DEF j

\* Bits of bits.
LEMMA BitsOfBits ==
    ASSUME NEW x \in Int, NEW s \in Nat, NEW m \in Nat, NEW r \in Nat, NEW l \in Nat, r + l <= m
    PROVE  Bits(Bits(x, s, m), r, l) = Bits(x, s + r, l)
<1> DEFINE X == x \div 2 ^ s  M == 2 ^ m  d == m - (r + l)
           z == X % M  a == X \div M
<1>1. M \in Nat \ {0} /\ 2 ^ s \in Nat \ {0} /\ 2 ^ r \in Nat \ {0} /\ d \in Nat
      /\ m = (r + l) + d
  BY PowerType
<1>2. X \in Int
  BY BitsType
<1> HIDE DEF X, d
<1>3. a \in Int /\ z \in 0..(M - 1) /\ X = (M * a) + z
  <2> HIDE DEF M
  <2> QED BY <1>1, <1>2, DivisionIs
<1> HIDE DEF a, z
<1>4. Bits(z + a * M, r, l) = Bits(z, r, l)
  <2>1. z \in Int /\ r + l <= m
    BY <1>1, <1>3
  <2>2. SameBelow(z, z + a * M, m)
    BY <1>3 DEF SameBelow
  <2> DEFINE y == z + a * M
  <2> HIDE DEF y
  <2>3. Bits(y, r, l) = Bits(z, r, l)
    BY <2>1, <2>2, BitsBelow DEF y
  <2> QED BY <2>3 DEF y
<1>5. z + a * M = X
  <2> HIDE DEF M
  <2>1. M * a = a * M /\ M * a \in Int
    BY <1>1, <1>3
  <2> QED BY <1>1, <1>3, <2>1
<1>6. X \div 2 ^ r = x \div 2 ^ (s + r)
  <2>1. 2 ^ (s + r) = 2 ^ s * 2 ^ r
    BY PowerSum
  <2> DEFINE p == 2 ^ s  w == 2 ^ r
  <2>2. p \in Nat \ {0} /\ w \in Nat \ {0}
    BY <1>1
  <2> HIDE DEF p, w
  <2>3. (x \div p) \div w = x \div (p * w)
    BY <2>2, DivideTwice
  <2> QED BY <2>1, <2>3 DEF X, p, w
<1>7. Bits(X, r, l) = Bits(x, s + r, l)
  BY <1>6 DEF Bits
<1>8. Bits(x, s, m) = z
  BY DEF Bits, X, z, M
<1> QED BY <1>4, <1>5, <1>7, <1>8

\* The remainder by a product, from those by its factors.
LEMMA RemainderByProduct ==
    ASSUME NEW x \in Int, NEW b \in Nat \ {0}, NEW p \in Nat \ {0}
    PROVE  x % (b * p) = ((x \div b) % p) * b + (x % b)
<1> DEFINE q == x \div b  r == x % b  s == q \div p  t == q % p
<1>1. q \in Int /\ r \in 0..(b - 1) /\ x = (b * q) + r
  BY DivisionIs
<1> HIDE DEF q, r
<1>2. s \in Int /\ t \in 0..(p - 1) /\ q = (p * s) + t
  BY <1>1, DivisionIs
<1> HIDE DEF s, t
<1> DEFINE c == b * p  u == t * b + r
<1>3. c \in Nat \ {0} /\ u \in Int /\ x = (c * s) + u
  <2>1. x = (b * ((p * s) + t)) + r
    BY <1>1, <1>2
  <2>2. b * ((p * s) + t) = ((b * p) * s) + t * b
    BY <1>2
  <2>3. b * p \in Nat \ {0} /\ t * b \in Int /\ (b * p) * s \in Int
    BY <1>2
  <2> DEFINE y == (b * p) * s  z == t * b
  <2>4. x = (y + z) + r /\ y \in Int /\ z \in Int /\ r \in Int
    <3>1. r \in Int
      BY <1>1
    <3> QED BY <2>1, <2>2, <2>3, <3>1
  <2>5. y = c * s /\ u = z + r
    OBVIOUS
  <2>6. c \in Nat \ {0}
    BY <2>3
  <2> HIDE DEF y, z, c, u
  <2>7. u \in Int /\ x = y + u
    BY <2>4, <2>5
  <2> QED BY <2>5, <2>6, <2>7
<1>4. 0 <= u /\ u < c
  <2>1. t * b >= 0 /\ t * b <= (p - 1) * b
    <3>1. t >= 0 /\ (p - 1) - t >= 0 /\ t \in Int
      BY <1>2
    <3>2. t * b >= 0 /\ ((p - 1) - t) * b >= 0
      BY <3>1
    <3>3. ((p - 1) - t) * b = (p - 1) * b - t * b
      BY <3>1
    <3>4. t * b \in Int /\ (p - 1) * b \in Int
      BY <3>1
    <3> QED BY <3>2, <3>3, <3>4
  <2>2. (p - 1) * b = b * p - b
    OBVIOUS
  <2>3. t * b \in Int /\ b * p \in Int
    BY <1>2
  <2> QED BY <1>1, <2>1, <2>2, <2>3
<1> HIDE DEF c, u
<1>5. x % c = u
  <2>1. c \in Nat \ {0} /\ s \in Int /\ u \in 0..(c - 1) /\ x \in Int /\ x = (c * s) + u
    BY <1>2, <1>3, <1>4
  <2> QED BY ONLY <2>1, FloorDivision
<1> QED BY <1>5 DEF c, u, t, q, r

\* Bits next to each other.
LEMMA BitsJoin ==
    ASSUME NEW x \in Int, NEW s \in Nat, NEW l \in Nat, NEW m \in Nat
    PROVE  Bits(x, s, l) + Bits(x, s + l, m) * 2 ^ l = Bits(x, s, l + m)
<1> DEFINE X == x \div 2 ^ s  b == 2 ^ l  p == 2 ^ m
<1>1. /\ b \in Nat \ {0} /\ p \in Nat \ {0} /\ 2 ^ s \in Nat \ {0}
      /\ 2 ^ (l + m) = b * p /\ 2 ^ (s + l) = 2 ^ s * b
  BY PowerType, PowerSum
<1>2. X \in Int
  BY BitsType
<1>3. x \div (2 ^ s * b) = X \div b
  <2> DEFINE a == 2 ^ s
  <2>1. a \in Nat \ {0} /\ b \in Nat \ {0}
    BY <1>1
  <2> HIDE DEF a, b, p, X
  <2>2. (x \div a) \div b = x \div (a * b)
    BY <2>1, DivideTwice
  <2> QED BY <2>2 DEF a, X
<1> HIDE DEF X, b, p
<1>4. X % (b * p) = ((X \div b) % p) * b + (X % b)
  BY <1>1, <1>2, RemainderByProduct
<1>5. /\ Bits(x, s, l) = X % b /\ Bits(x, s + l, m) = (X \div b) % p
      /\ Bits(x, s, l + m) = X % (b * p)
  BY <1>1, <1>3 DEF Bits, X, b, p
<1> DEFINE u == X % b  t == (X \div b) % p
<1>6. u \in Int /\ t * b \in Int
  <2>1. u \in Int /\ X \div b \in Int
    BY <1>1, <1>2, DivisionIs
  <2> DEFINE y == X \div b
  <2> HIDE DEF y
  <2>2. y % p \in Int
    BY <1>1, <2>1, DivisionIs DEF y
  <2> HIDE DEF u, t
  <2>3. t \in Int
    BY <2>2 DEF t, y
  <2> QED BY <1>1, <2>1, <2>3 DEF u
<1>7. X % (b * p) = t * b + u
  BY <1>4
<1>8. Bits(x, s, l) = u /\ Bits(x, s + l, m) = t
  BY <1>5
<1> HIDE DEF u, t
<1>9. u + t * b = t * b + u
  <2> DEFINE z == t * b
  <2> HIDE DEF z
  <2>1. u \in Int /\ z \in Int
    BY <1>6 DEF z
  <2>2. u + z = z + u
    BY <2>1
  <2> QED BY <2>2 DEF z
<1> QED BY ONLY <1>5, <1>7, <1>8, <1>9 DEF b

\* A multiple of a divisor.
LEMMA DivideMultiple ==
    ASSUME NEW y \in Int, NEW p \in Nat \ {0}
    PROVE  (y * p) \div p = y /\ (y * p) % p = 0
<1>1. y * p = (p * y) + 0 /\ y * p \in Int /\ 0 \in 0..(p - 1)
  OBVIOUS
<1> DEFINE z == y * p
<1> HIDE DEF z
<1>2. z \div p = y /\ z % p = 0
  BY <1>1, FloorDivision DEF z
<1> QED BY <1>2 DEF z

LEMMA DivideSmall ==
    ASSUME NEW p \in Nat \ {0}, NEW x \in 0..(p - 1)
    PROVE  x \div p = 0 /\ x % p = x
<1>1. x = (p * 0) + x /\ x \in Int
  OBVIOUS
<1> QED BY <1>1, FloorDivision

\* No bits are below where a shifted number starts.
LEMMA BitsOfShifted ==
    ASSUME NEW y \in Int, NEW e \in Nat, NEW s \in Nat, NEW l \in Nat, s + l <= e
    PROVE  Bits(y * 2 ^ e, s, l) = 0
<1> DEFINE z == y * 2 ^ e
<1>1. SameBelow(0, z, e)
  <2>1. 2 ^ e \in Nat \ {0}
    BY PowerType
  <2>2. z = 0 + y * 2 ^ e
    BY <2>1
  <2> QED BY <2>2 DEF SameBelow
<1> HIDE DEF z
<1>2. Bits(z, s, l) = Bits(0, s, l)
  BY <1>1, BitsBelow
<1>3. Bits(0, s, l) = 0
  <2>1. 2 ^ s \in Nat \ {0} /\ 2 ^ l \in Nat \ {0}
    BY PowerType
  <2> DEFINE p == 2 ^ s  w == 2 ^ l
  <2> HIDE DEF p, w
  <2>2. p \in Nat \ {0} /\ w \in Nat \ {0} /\ 0 \in 0..(p - 1) /\ 0 \in 0..(w - 1)
    BY <2>1 DEF p, w
  <2>3. 0 \div p = 0 /\ 0 % w = 0
    BY ONLY <2>2, DivideSmall
  <2> QED BY <2>3 DEF Bits, p, w
<1> QED BY <1>2, <1>3 DEF z

\* A shifted number, above a small one.
LEMMA BitsShifted ==
    ASSUME NEW s \in Nat, NEW x \in 0..(2 ^ s - 1), NEW l \in Nat, NEW y \in 0..(2 ^ l - 1)
    PROVE  /\ x + y * 2 ^ s \in 0..(2 ^ (s + l) - 1)
           /\ Bits(x + y * 2 ^ s, s, l) = y
<1> DEFINE p == 2 ^ s  w == 2 ^ l
<1>1. p \in Nat \ {0} /\ w \in Nat \ {0} /\ 2 ^ (s + l) = p * w
  BY PowerType, PowerSum
<1>2. x \in 0..(p - 1) /\ y \in 0..(w - 1)
  OBVIOUS
<1> HIDE DEF p, w
<1>3. x + y * p \in 0..(p * w - 1)
  <2>1. y * p >= 0 /\ ((w - 1) - y) * p >= 0 /\ y * p \in Int /\ (w - 1) * p \in Int
    BY <1>1, <1>2
  <2>2. ((w - 1) - y) * p = (w - 1) * p - y * p
    BY <1>1, <1>2
  <2>3. (w - 1) * p = p * w - p /\ p * w \in Int
    BY <1>1
  <2> QED BY <1>1, <1>2, <2>1, <2>2, <2>3
<1>4. (x + y * p) \div p = y
  <2>1. x \in Int /\ y \in Int /\ x + y * p = (p * y) + x /\ x + y * p \in Int
    BY <1>1, <1>2
  <2> DEFINE z == x + y * p
  <2> HIDE DEF z
  <2>2. z \div p = y
    BY <1>1, <1>2, <2>1, FloorDivision DEF z
  <2> QED BY <2>2 DEF z
<1>5. y % w = y
  BY <1>1, <1>2, DivideSmall
<1> QED BY <1>1, <1>3, <1>4, <1>5 DEF Bits, p, w

\* Bits of two numbers that have none in common.
LEMMA BitsOfSum ==
    ASSUME NEW s \in Nat, NEW x \in 0..(2 ^ s - 1), NEW y \in Nat, NEW t \in Nat, NEW l \in Nat
    PROVE  Bits(x + y * 2 ^ s, t, l) = Bits(x, t, l) + Bits(y * 2 ^ s, t, l)
<1> DEFINE p == 2 ^ s  z == x + y * p  Y == y * p
<1>1. p \in Nat \ {0} /\ x \in 0..(p - 1) /\ x \in Int /\ z \in Int /\ Y \in Int
      /\ z = (p * y) + x /\ Y = (p * y) + 0 /\ 0 \in 0..(p - 1)
  <2>1. p \in Nat \ {0}
    BY PowerType
  <2> HIDE DEF p
  <2>2. y * p \in Int /\ y * p = p * y
    BY <2>1
  <2> QED BY <2>1, <2>2 DEF p
<1> HIDE DEF p
<1>2. z \div p = y /\ z % p = x /\ Y \div p = y /\ Y % p = 0 /\ x \div p = 0 /\ x % p = x
  <2> HIDE DEF z, Y
  <2> QED BY <1>1, FloorDivision, DivideSmall
<1> HIDE DEF z, Y
\* Above s there are only the bits of y.
<1>3. CASE t >= s
  <2> DEFINE u == t - s  d == 2 ^ u
  <2>1. u \in Nat /\ t = s + u
    BY <1>3
  <2> HIDE DEF u
  <2>2. d \in Nat \ {0} /\ 2 ^ t = p * d
    BY <2>1, PowerType, PowerSum DEF p
  <2> HIDE DEF d
  <2>3. ASSUME NEW a \in Int PROVE a \div 2 ^ t = (a \div p) \div d
    <3>1. p \in Nat \ {0} /\ d \in Nat \ {0} /\ a \in Int
      BY <1>1, <2>2
    <3>2. (a \div p) \div d = a \div (p * d)
      BY ONLY <3>1, DivideTwice
    <3> QED BY <2>2, <3>2
  <2>4. z \div 2 ^ t = Y \div 2 ^ t /\ x \div 2 ^ t = 0
    <3>1. 0 \in 0..(d - 1)
      BY <2>2
    <3>2. 0 \div d = 0
      BY <2>2, <3>1, DivideSmall
    <3> QED BY <1>1, <1>2, <2>3, <3>2
  <2>5. Bits(z, t, l) = Bits(Y, t, l)
    BY <2>4 DEF Bits
  <2>6. Bits(x, t, l) = 0
    <3> DEFINE w == 2 ^ l
    <3>1. w \in Nat \ {0} /\ 0 \in 0..(w - 1)
      BY PowerType
    <3> HIDE DEF w
    <3>2. 0 % w = 0
      BY <3>1, DivideSmall
    <3> QED BY <2>4, <3>2 DEF Bits, w
  <2>7. Bits(Y, t, l) \in Int
    BY <1>1, BitsType
  <2> QED BY <2>5, <2>6, <2>7 DEF z, Y, p
\* Below s there are only those of x.
<1>4. CASE t + l <= s
  <2>1. SameBelow(x, z, s)
    BY DEF SameBelow, z, p
  <2>2. Bits(z, t, l) = Bits(x, t, l)
    BY <1>1, <1>4, <2>1, BitsBelow
  <2>3. Bits(Y, t, l) = 0
    BY <1>4, BitsOfShifted DEF Y, p
  <2>4. Bits(x, t, l) \in Int
    BY <1>1, BitsType
  <2> QED BY <2>2, <2>3, <2>4 DEF z, Y, p
<1>5. CASE t < s /\ t + l > s
  <2> DEFINE u == s - t  m == (t + l) - s
  <2>1. u \in Nat /\ m \in Nat /\ t + u = s /\ l = u + m
    BY <1>5
  <2> HIDE DEF u, m
  <2>2. ASSUME NEW a \in Int
        PROVE  Bits(a, t, l) = Bits(a, t, u) + Bits(a, s, m) * 2 ^ u
    <3>1. Bits(a, t, u) + Bits(a, t + u, m) * 2 ^ u = Bits(a, t, u + m)
      BY <2>1, BitsJoin
    <3> QED BY <2>1, <3>1
  <2>3. SameBelow(x, z, s)
    BY DEF SameBelow, z, p
  <2>4. Bits(z, t, u) = Bits(x, t, u)
    BY <1>1, <2>1, <2>3, BitsBelow
  <2>5. Bits(Y, t, u) = 0
    BY <2>1, BitsOfShifted DEF Y, p
  <2>6. Bits(z, s, m) = Bits(Y, s, m) /\ Bits(x, s, m) = 0
    <3> DEFINE w == 2 ^ m
    <3>1. w \in Nat \ {0} /\ 0 \in 0..(w - 1)
      BY <2>1, PowerType
    <3> HIDE DEF w
    <3>2. 0 % w = 0
      BY <3>1, DivideSmall
    <3> QED BY <1>2, <3>2 DEF Bits, w, p
  <2> DEFINE d == 2 ^ u  b == Bits(Y, s, m)  c == Bits(x, t, u)
  <2>7. d \in Nat /\ b \in Int /\ c \in Int
    BY <1>1, <2>1, BitsType, PowerType
  <2>8. Bits(z, t, l) = c + b * d /\ Bits(Y, t, l) = 0 + b * d /\ Bits(x, t, l) = c + 0 * d
    BY <1>1, <2>2, <2>4, <2>5, <2>6
  <2> HIDE DEF d, b, c
  <2>9. b * d \in Int /\ 0 * d = 0
    BY <2>7
  <2>10. Bits(z, t, l) = Bits(x, t, l) + Bits(Y, t, l)
    BY <2>7, <2>8, <2>9
  <2> QED BY <2>10 DEF z, Y, p
<1> QED BY <1>3, <1>4, <1>5

-----------------------------------------------------------------------------
(* TickTimes. *)

LEMMA TickSizes ==
    /\ Half \in Nat \ {0} /\ Ms \in Nat \ {0} /\ MaxNow \in Nat
    /\ Ticks!Ints \in Nat \ {0} /\ Ticks!Ints = 2 * Half
    /\ Ticks!MaxInt = Half - 1 /\ Ticks!MinInt = -Half
    /\ Ticks!MaxTicks \in Int /\ MaxNow + Ticks!Ints <= Ticks!MaxTicks
    /\ Ticks!Times = 2 * (Ticks!MaxTicks + 1)
<1> DEFINE sq == Half * Half
<1>1. sq \in Nat /\ 2 * Half * Half = 2 * sq /\ (2 * Half) * (2 * Half) = 4 * sq
  BY DataAssumption
<1> HIDE DEF sq
<1> QED BY <1>1, DataAssumption
        DEF Ticks!Ints, Ticks!Times, Ticks!MaxInt, Ticks!MinInt, Ticks!MaxTicks

LEMMA OnlyZeroMultiple ==
    ASSUME NEW N \in Nat \ {0}, NEW z \in Int, -N < N * z, N * z < N
    PROVE  z = 0
<1>1. ASSUME z >= 1 PROVE FALSE
  <2>1. N * (z - 1) >= 0 /\ N * z = N * (z - 1) + N
    BY <1>1
  <2> QED BY <2>1
<1>2. ASSUME z <= -1 PROVE FALSE
  <2>1. N * (-z - 1) >= 0 /\ N * z = -(N * (-z - 1)) - N
    BY <1>2
  <2> QED BY <2>1
<1> QED BY <1>1, <1>2

LEMMA Quotient ==
    ASSUME NEW N \in Nat \ {0}, NEW b \in Int
    PROVE  \E j \in Int : b = (N * j) + (b % N) /\ b % N \in 0..(N - 1)
<1> DEFINE j == b \div N
<1>1. j \in Int /\ b = (N * j) + (b % N) /\ b % N \in 0..(N - 1)
  OBVIOUS
<1> QED BY <1>1

LEMMA Remainder ==
    ASSUME NEW N \in Nat \ {0}, NEW j \in Int, NEW x \in 0..(N - 1), NEW b \in Int,
           b = (N * j) + x
    PROVE  b % N = x
OBVIOUS

\* Two numbers that are near and have the same low bits are the same.
LEMMA SameLowBits ==
    ASSUME NEW N \in Nat \ {0}, NEW a \in Int, NEW b \in Int, a % N = b % N,
           -N < a - b, a - b < N
    PROVE  a = b
<1>1. PICK i \in Int : a = (N * i) + (a % N)
  BY Quotient
<1>2. PICK j \in Int : b = (N * j) + (b % N)
  BY Quotient
<1>3. a % N \in Int
  OBVIOUS
<1> DEFINE r == a % N
<1>4. a = (N * i) + r /\ b = (N * j) + r /\ r \in Int
  BY <1>1, <1>2, <1>3
<1> HIDE DEF r
<1> DEFINE z == i - j
<1>5. z \in Int /\ N * z = (N * i) - (N * j)
  OBVIOUS
<1>6. N * z = a - b
  <2> DEFINE x == N * i  y == N * j
  <2>1. x \in Int /\ y \in Int
    OBVIOUS
  <2> HIDE DEF x, y, z
  <2>2. a = x + r /\ b = y + r
    BY <1>4 DEF x, y
  <2>3. N * z = x - y
    BY <1>5 DEF x, y
  <2> QED BY <1>4, <2>1, <2>2, <2>3
<1> HIDE DEF z
<1>7. z = 0
  BY <1>5, <1>6, OnlyZeroMultiple
<1> QED BY <1>6, <1>7

\* What to_ticks64() makes of low bits, before it wraps around.
Near(low, t) ==
    LET res == t - (t % Ticks!Ints) + low
        b == t % Ticks!Ints
    IN CASE b < low /\ low - b > Ticks!MaxInt -> res - Ticks!Ints
         [] low < b /\ b - low > -Ticks!MinInt -> res + Ticks!Ints
         [] OTHER -> res

LEMMA NearTime ==
    ASSUME NEW low \in 0..(Ticks!Ints - 1), NEW t \in Int
    PROVE  /\ Near(low, t) \in (t + Ticks!MinInt)..(t + Ticks!MaxInt)
           /\ Near(low, t) % Ticks!Ints = low
           /\ Ticks!to_ticks64(low, t) = Near(low, t) % Ticks!Times
<1> DEFINE N == Ticks!Ints
           b == t % N
           r == Near(low, t)
<1>1. N \in Nat \ {0} /\ N = 2 * Half /\ Half \in Nat /\ low \in 0..(N - 1)
      /\ Ticks!MaxInt = Half - 1 /\ Ticks!MinInt = -Half
  BY TickSizes
<1>2. PICK k \in Int : t = (N * k) + b /\ b \in 0..(N - 1)
  BY <1>1, Quotient
<1>3. \/ b < low /\ low - b > Half - 1 /\ r = t - b + low - N
      \/ low < b /\ b - low > Half /\ r = t - b + low + N
      \/ ~(b < low /\ low - b > Half - 1) /\ ~(low < b /\ b - low > Half)
         /\ r = t - b + low
  <2> DEFINE res == t - b + low
  <2>1. r = CASE b < low /\ low - b > Ticks!MaxInt -> res - N
              [] low < b /\ b - low > -Ticks!MinInt -> res + N
              [] OTHER -> res
    BY DEF Near
  <2>2. b \in Int /\ -Ticks!MinInt = Half /\ t - b + low - N = res - N
    BY <1>1, <1>2
  <2> HIDE DEF N, b, r, res
  <2>3. CASE b < low /\ low - b > Half - 1
    <3>1. ~(low < b)
      BY <1>1, <2>2, <2>3
    <3>2. low - b > Ticks!MaxInt
      BY <1>1, <2>3
    <3>3. r = res - N
      BY ONLY <2>1, <2>3, <3>1, <3>2
    <3>4. r = t - b + low - N
      BY <2>2, <3>3 DEF res
    <3> QED BY ONLY <2>3, <3>4
  <2>4. CASE low < b /\ b - low > Half
    <3>1. ~(b < low)
      BY <1>1, <2>2, <2>4
    <3>2. b - low > -Ticks!MinInt
      BY <1>1, <2>2, <2>4
    <3>3. r = res + N
      BY ONLY <2>1, <2>4, <3>1, <3>2
    <3> QED BY ONLY <2>4, <3>3 DEF res
  <2>5. CASE ~(b < low /\ low - b > Half - 1) /\ ~(low < b /\ b - low > Half)
    BY <1>1, <2>1, <2>2, <2>5 DEF res
  <2> QED BY <2>3, <2>4, <2>5
<1>4. Ticks!to_ticks64(low, t) = r % Ticks!Times
  BY DEF Near, Ticks!to_ticks64
<1> HIDE DEF N, b, r
<1>5. r \in (t - Half)..(t + Half - 1)
  BY <1>1, <1>2, <1>3
<1>6. \E j \in Int : r = (N * j) + low
  <2> DEFINE p == N * k
  <2>1. p \in Int /\ N * (k - 1) = p - N /\ N * (k + 1) = p + N
    BY <1>1
  <2> HIDE DEF p
  <2>2. t = p + b
    BY <1>2 DEF p
  <2>3. r = p - N + low \/ r = p + N + low \/ r = p + low
    BY <1>1, <1>2, <1>3, <2>1, <2>2
  <2>4. r = (N * (k - 1)) + low \/ r = (N * (k + 1)) + low \/ r = (N * k) + low
    BY <2>1, <2>3 DEF p
  <2> QED BY <2>4
<1>7. r % N = low
  BY <1>1, <1>5, <1>6, Remainder
<1> QED BY <1>1, <1>4, <1>5, <1>7 DEF N, r

\* The low bits of a time that the clock is near to stand for that time.
LEMMA CheckedTime ==
    ASSUME clock \in 0..MaxNow, NEW m \in Nat, clock - m <= Half, m - clock < Half
    PROVE  Ticks!check_time(Ticks!Integer(m)) = m
<1> DEFINE low == m % Ticks!Ints
           r == Near(low, clock)
<1>1. low \in 0..(Ticks!Ints - 1)
  BY TickSizes
<1>2. /\ r \in (clock + Ticks!MinInt)..(clock + Ticks!MaxInt)
      /\ r % Ticks!Ints = low
      /\ Ticks!to_ticks64(low, clock) = r % Ticks!Times
  <2> HIDE DEF low
  <2> QED BY <1>1, NearTime
<1>3. Ticks!check_time(Ticks!Integer(m)) = r % Ticks!Times
  BY <1>2 DEF Ticks!check_time, Ticks!Integer
<1>4. r % Ticks!Ints = m % Ticks!Ints
  BY <1>2
<1> HIDE DEF r, low
<1>5. -Ticks!Ints < r - m /\ r - m < Ticks!Ints /\ r \in Int
  BY <1>2, TickSizes
<1>6. r = m
  <2> DEFINE N == Ticks!Ints
  <2>1. N \in Nat \ {0} /\ -N < r - m /\ r - m < N /\ r \in Int /\ m \in Int
    BY <1>5, TickSizes
  <2>2. r % N = m % N
    BY <1>4
  <2> HIDE DEF N
  <2> QED BY ONLY <2>1, <2>2, SameLowBits
<1>7. m \in 0..(Ticks!Times - 1) /\ Ticks!Times \in Nat \ {0}
  BY TickSizes
<1>8. m % Ticks!Times = m
  <2> DEFINE T == Ticks!Times
  <2>1. T \in Nat \ {0} /\ m \in 0..(T - 1) /\ m = (T * 0) + m
    BY <1>7
  <2> HIDE DEF T
  <2>2. m % T = m
    BY <2>1, Remainder
  <2> QED BY <2>2 DEF T
<1> QED BY <1>3, <1>6, <1>8

\* The times that a program gives, and what is meant by them.
LEMMA GivenTime ==
    ASSUME clock \in 0..MaxNow, NEW x \in Ticks!Given
    PROVE  /\ Ticks!Meant(x) \in Int
           /\ \/ /\ x = Ticks!Int64(Ticks!Meant(x)) /\ Ticks!Meant(x) \in 0..(MaxNow + 2)
                 /\ Ticks!check_time(x) = Ticks!Meant(x)
              \/ /\ x = Ticks!Integer(Ticks!Meant(x))
                 /\ clock - Ticks!Meant(x) <= Half /\ Ticks!Meant(x) - clock < Half
                 /\ Ticks!Meant(x) >= 0 => Ticks!check_time(x) = Ticks!Meant(x)
<1> DEFINE m == Ticks!Meant(x)
<1>1. ASSUME NEW t \in 0..(MaxNow + 2), x = Ticks!Int64(t)
      PROVE  m = t /\ Ticks!check_time(x) = t
  BY <1>1 DEF Ticks!Int64, Ticks!Meant, Ticks!check_time
<1>2. ASSUME NEW t \in 0..(Ticks!Ints - 1), x = Ticks!Integer(t)
      PROVE  x = Ticks!Integer(m) /\ m \in (clock + Ticks!MinInt)..(clock + Ticks!MaxInt)
  <2> DEFINE N == Ticks!Ints  W == (clock + Ticks!MinInt)..(clock + Ticks!MaxInt)
  <2>1. N \in Nat \ {0} /\ t \in 0..(N - 1) /\ t = (N * 0) + t
    BY TickSizes
  <2>2. t % N = t
    <3> HIDE DEF N
    <3> QED BY <2>1, Remainder
  <2>3. x.type = "integer" /\ x.v = t
    BY <1>2, <2>2 DEF Ticks!Integer
  <2>4. m = CHOOSE u \in W : u % N = t
    BY <2>3 DEF Ticks!Meant
  <2>5. Near(t, clock) \in W /\ Near(t, clock) % N = t
    BY <1>2, NearTime
  <2>6. m \in W /\ m % N = t
    <3> HIDE DEF m, N, W
    <3> QED BY <2>4, <2>5
  <2>7. Ticks!Integer(m) = [type |-> "integer", v |-> t]
    BY <2>6 DEF Ticks!Integer
  <2> QED BY <1>2, <2>2, <2>6, <2>7 DEF Ticks!Integer
<1>3. CASE \E t \in 0..(MaxNow + 2) : x = Ticks!Int64(t)
  <2>1. PICK t \in 0..(MaxNow + 2) : x = Ticks!Int64(t)
    BY <1>3
  <2>2. m = t /\ Ticks!check_time(x) = t
    BY <2>1, <1>1
  <2>3. m \in Int
    BY <2>2, TickSizes
  <2> QED BY <2>1, <2>2, <2>3
<1>4. CASE \E t \in 0..(Ticks!Ints - 1) : x = Ticks!Integer(t)
  <2>1. x = Ticks!Integer(m) /\ m \in (clock + Ticks!MinInt)..(clock + Ticks!MaxInt)
    BY <1>2, <1>4
  <2> HIDE DEF m
  <2>2. m \in Int /\ clock - m <= Half /\ m - clock < Half
    BY <2>1, TickSizes
  <2>3. ASSUME m >= 0 PROVE Ticks!check_time(x) = m
    BY <2>1, <2>2, <2>3, CheckedTime
  <2> QED BY <2>1, <2>2, <2>3 DEF m
<1> QED BY <1>3, <1>4 DEF Ticks!Given

\* The time x stands for the time m that was meant, when the clock is t: also
\* one that has been capped at the end of the times, which no clock reaches.
MeansTime(x, m, t) ==
    \/ \E v \in Int : x = Ticks!Int64(v) /\ (v = m \/ (v > MaxNow /\ m > MaxNow))
    \/ x = Ticks!Integer(m) /\ m - t < Half

TickInv ==
    /\ clock \in 0..MaxNow /\ due \in Int
    /\ phase # "idle" /\ ~Ticks!Misread =>
          /\ MeansTime(time, due, clock)
          /\ phase = "callback" /\ time.type = "int64" => time.v <= clock

LEMMA GivenMeans ==
    ASSUME clock \in 0..MaxNow, NEW x \in Ticks!Given
    PROVE  MeansTime(x, Ticks!Meant(x), clock)
BY GivenTime, TickSizes DEF MeansTime

\* A deadline that is counted from now.
LEMMA DeadlineMeans ==
    ASSUME clock \in 0..MaxNow, NEW timeout \in Nat
    PROVE  MeansTime(Ticks!Int64(Ticks!timeout_deadline(clock, timeout)), clock + timeout, clock)
BY TickSizes DEF MeansTime, Ticks!timeout_deadline

LEMMA PushedMeans ==
    ASSUME clock \in 0..MaxNow, NEW timeout \in Nat
    PROVE  MeansTime(Ticks!push_deadline(timeout), clock + timeout, clock)
<1>1. CASE timeout <= Ticks!MaxInt
  BY <1>1, TickSizes DEF MeansTime, Ticks!push_deadline
<1>2. CASE ~(timeout <= Ticks!MaxInt)
  BY <1>2, DeadlineMeans DEF Ticks!push_deadline
<1> QED BY <1>1, <1>2

LEMMA PushedMsMeans ==
    ASSUME clock \in 0..MaxNow, NEW ms \in Nat
    PROVE  ms * Ms \in Nat /\ MeansTime(Ticks!push_deadline_ms(ms), clock + (ms * Ms), clock)
<1> DEFINE q == Ticks!MaxInt \div Ms
           timeout == ms * Ms
<1>1. timeout \in Nat /\ q * Ms <= Ticks!MaxInt /\ q \in Int
  BY TickSizes
<1>2. CASE ms <= q
  <2>1. timeout <= q * Ms
    <3>1. q - ms \in Nat /\ Ms \in Nat
      BY <1>1, <1>2, TickSizes
    <3> DEFINE i == q - ms
    <3>2. i \in Nat /\ Ms \in Nat /\ q = i + ms
      BY <1>1, <3>1
    <3> HIDE DEF i, q
    <3>3. i * Ms \in Nat /\ q * Ms = (i * Ms) + (ms * Ms)
      BY <3>2
    <3> QED BY <1>1, <3>3
  <2>2. Ticks!push_deadline_ms(ms) = Ticks!Integer(clock + timeout)
    BY <1>2 DEF Ticks!push_deadline_ms
  <2>3. q * Ms \in Int
    BY <1>1, TickSizes
  <2> DEFINE p == q * Ms
  <2>4. timeout <= p /\ p <= Ticks!MaxInt /\ p \in Int
    BY <1>1, <2>1, <2>3
  <2> HIDE DEF p, timeout, q
  <2>5. timeout < Half
    BY <1>1, <2>4, TickSizes
  <2>6. MeansTime(Ticks!push_deadline_ms(ms), clock + timeout, clock)
    BY <1>1, <2>2, <2>5, TickSizes DEF MeansTime
  <2> QED BY <1>1, <2>6 DEF timeout
<1>3. CASE ~(ms <= q)
  <2>1. Ticks!push_deadline_ms(ms) = Ticks!Int64(Ticks!timeout_deadline(clock, timeout))
    BY <1>3 DEF Ticks!push_deadline_ms
  <2> HIDE DEF timeout
  <2>2. MeansTime(Ticks!push_deadline_ms(ms), clock + timeout, clock)
    BY <1>1, <2>1, DeadlineMeans
  <2> QED BY <1>1, <2>2 DEF timeout
<1> QED BY <1>2, <1>3

\* A sleeping thread is found to be due by the clock.
LEMMA MeansReached ==
    ASSUME clock \in 0..MaxNow, NEW x, NEW m \in Nat, clock - m < Half,
           MeansTime(x, m, clock)
    PROVE  /\ Ticks!time_reached(x) <=> clock >= m
           /\ Ticks!ticks64_reached(Ticks!check_time(x)) <=> clock >= m
           /\ x.type = "integer" \/ x.v <= clock => Ticks!check_time(x) = m
<1>1. CASE \E v \in Int : x = Ticks!Int64(v) /\ (v = m \/ (v > MaxNow /\ m > MaxNow))
  <2>1. PICK v \in Int : x = Ticks!Int64(v) /\ (v = m \/ (v > MaxNow /\ m > MaxNow))
    BY <1>1
  <2>2. x.type = "int64" /\ x.v = v
    BY <2>1 DEF Ticks!Int64
  <2> QED BY <2>1, <2>2, TickSizes
          DEF Ticks!time_reached, Ticks!ticks64_reached, Ticks!check_time
<1>2. CASE x = Ticks!Integer(m) /\ m - clock < Half
  <2> DEFINE N == Ticks!Ints  low == m % N  d == clock - m
  <2>0. N \in Nat \ {0} /\ N = 2 * Half /\ Half \in Nat \ {0} /\ Ticks!MaxInt = Half - 1
        /\ d \in Int /\ -Half < d /\ d < Half /\ clock \in Int
    BY <1>2, TickSizes
  <2>1. x.type = "integer" /\ x.v = low
    BY <1>2 DEF Ticks!Integer
  <2>2. Ticks!check_time(x) = m
    BY <1>2, <2>0, CheckedTime
  <2>3. Ticks!time_reached(x) <=> (clock - low) % N <= Half - 1
    BY <2>0, <2>1 DEF Ticks!time_reached, Ticks!ticks_reached
  <2> HIDE DEF N
  <2>4. PICK j \in Int : m = (N * j) + low /\ low \in 0..(N - 1)
    <3>1. m \in Int /\ N \in Nat \ {0}
      BY <2>0
    <3> QED BY ONLY <3>1, Quotient DEF low
  <2>5. CASE d >= 0
    <3>1. clock - low = (N * j) + d /\ d \in 0..(N - 1)
      BY <2>0, <2>4, <2>5
    <3>2. (clock - low) % N = d
      <4> HIDE DEF d, low
      <4> QED BY <2>0, <2>4, <3>1, Remainder
    <3> QED BY <2>0, <2>2, <2>3, <2>5, <3>2 DEF Ticks!ticks64_reached
  <2>6. CASE d < 0
    <3>1. clock - low = (N * (j - 1)) + (d + N) /\ d + N \in 0..(N - 1)
      BY <2>0, <2>4, <2>6
    <3>2. (clock - low) % N = d + N
      <4> DEFINE e == d + N  i == j - 1  b == clock - low
      <4>1. b = (N * i) + e /\ e \in 0..(N - 1) /\ i \in Int /\ b \in Int
        BY <2>0, <2>4, <3>1
      <4> HIDE DEF e, i, b
      <4>2. b % N = e
        BY <2>0, <4>1, Remainder
      <4> QED BY <4>2 DEF b, e
    <3> QED BY <2>0, <2>2, <2>3, <2>6, <3>2 DEF Ticks!ticks64_reached
  <2> QED BY <2>0, <2>5, <2>6
<1> QED BY <1>1, <1>2 DEF MeansTime

LEMMA TickInit == Ticks!Init => TickInv
BY TickSizes, DataAssumption DEF Ticks!Init, TickInv, Ticks!Ints

\* A thread goes to sleep.
LEMMA FallsAsleep ==
    ASSUME TickInv, phase' = "asleep", clock' = clock, NEW m \in Int, due' = m,
           m >= 0 /\ clock - m < Half => MeansTime(time', m, clock)
    PROVE  TickInv'
<1>1. ASSUME ~Ticks!Misread' PROVE MeansTime(time', due', clock')
  <2>1. clock \in Int /\ Half \in Nat
    BY TickSizes DEF TickInv
  <2>2. ~(m < 0) /\ ~(clock - m >= Half)
    BY <1>1, <2>1 DEF Ticks!Misread, Ticks!MinInt
  <2>3. m >= 0 /\ clock - m < Half
    BY <2>1, <2>2
  <2> QED BY <2>3
<1>2. phase' # "callback"
  OBVIOUS
<1> QED BY <1>1, <1>2 DEF TickInv

LEMMA TickSleeps ==
    ASSUME TickInv, NEW x \in Ticks!Given,
           \/ Ticks!mod_sleep_until(x) \/ Ticks!pico_sleep_until(x)
           \/ \E past \in BOOLEAN : Ticks!mod_add_alarm_at(x, past)
    PROVE  TickInv'
<1> DEFINE m == Ticks!Meant(x)
           c == Ticks!check_time(x)
<1>1. clock \in 0..MaxNow
  BY DEF TickInv
<1>2. m \in Int /\ MeansTime(x, m, clock) /\ (m >= 0 => c = m)
  <2>1. /\ m \in Int
        /\ \/ m \in 0..(MaxNow + 2) /\ c = m
           \/ m >= 0 => c = m
    BY <1>1, GivenTime
  <2> QED BY <1>1, <2>1, GivenMeans
<1>3. /\ phase' = "asleep" /\ clock' = clock /\ due' = m
      /\ \/ time' = x
         \/ time' = Ticks!Int64(c)
         \/ time' = IF c - clock <= Ticks!MaxInt THEN Ticks!Integer(c) ELSE Ticks!Int64(c)
  BY DEF Ticks!mod_sleep_until, Ticks!pico_sleep_until, Ticks!mod_add_alarm_at, Ticks!Sleep,
         Ticks!alarm_thread
<1> HIDE DEF m, c
<1>4. ASSUME m >= 0 PROVE MeansTime(time', m, clock)
  <2>1. c = m
    BY <1>2, <1>4
  <2>2. CASE time' = x
    BY <1>2, <2>2
  <2>3. CASE time' = Ticks!Int64(c)
    BY <1>2, <2>1, <2>3 DEF MeansTime
  <2>4. CASE time' = Ticks!Integer(c) /\ c - clock <= Ticks!MaxInt
    <3>1. m - clock < Half
      BY <1>1, <1>2, <2>1, <2>4, TickSizes
    <3> QED BY <2>1, <2>4, <3>1 DEF MeansTime
  <2> QED BY <1>3, <2>2, <2>3, <2>4
<1> QED BY <1>2, <1>3, <1>4, FallsAsleep

LEMMA TickDelays ==
    ASSUME TickInv, NEW d \in Nat,
           \/ Ticks!mod_sleep_for(d) \/ Ticks!mod_sleep_us(d) \/ Ticks!mod_sleep_ms(d)
           \/ Ticks!mod_add_alarm_in_us(d) \/ Ticks!mod_add_alarm_in_ms(d)
    PROVE  TickInv'
<1>1. clock \in 0..MaxNow
  BY DEF TickInv
<1>2. /\ phase' = "asleep" /\ clock' = clock
      /\ \/ time' = Ticks!push_deadline(d) /\ due' = clock + d
         \/ time' = Ticks!push_deadline_ms(d) /\ due' = clock + (d * Ms)
  BY DEF Ticks!mod_sleep_for, Ticks!mod_sleep_us, Ticks!mod_sleep_ms, Ticks!Sleep,
         Ticks!mod_add_alarm_in_us, Ticks!mod_add_alarm_in_ms, Ticks!alarm_thread
<1>3. d * Ms \in Nat
  BY TickSizes
<1>4. MeansTime(time', due', clock) /\ due' \in Int
  <2> DEFINE k == d * Ms
  <2>1. k \in Nat /\ MeansTime(Ticks!push_deadline_ms(d), clock + k, clock)
    BY <1>1, <1>3, PushedMsMeans
  <2>2. MeansTime(Ticks!push_deadline(d), clock + d, clock)
    BY <1>1, PushedMeans
  <2> HIDE DEF k
  <2>3. due' = clock + k \/ due' = clock + d
    BY <1>2 DEF k
  <2>4. due' \in Int
    BY <1>1, <2>1, <2>3
  <2>5. \/ time' = Ticks!push_deadline(d) /\ due' = clock + d
        \/ time' = Ticks!push_deadline_ms(d) /\ due' = clock + k
    BY <1>2 DEF k
  <2> QED BY <2>1, <2>2, <2>4, <2>5
<1> QED BY <1>2, <1>4, FallsAsleep

\* What an alarm sleeps until, given that it is not misread, is what is meant.
LEMMA NextTimeMeans ==
    ASSUME clock \in 0..MaxNow, NEW m \in Int
    PROVE  MeansTime(Ticks!NextTime(m), m, clock)
BY TickSizes DEF MeansTime, Ticks!NextTime

LEMMA TickRepeats ==
    ASSUME TickInv, NEW d \in Int,
           Ticks!mod_add_repeating_timer_us(d) \/ Ticks!alarm_thread_2(d)
    PROVE  TickInv'
<1>1. clock \in 0..MaxNow /\ due \in Int
  BY DEF TickInv
<1>2. CASE Ticks!mod_add_repeating_timer_us(d)
  <2> DEFINE delta == IF d < 0 THEN -d ELSE d
  <2>1. delta \in Nat
    OBVIOUS
  <2>2. /\ phase' = "asleep" /\ clock' = clock
        /\ time' = Ticks!push_deadline(delta) /\ due' = clock + delta
    BY <1>2 DEF Ticks!mod_add_repeating_timer_us, Ticks!alarm_thread
  <2> HIDE DEF delta
  <2>3. MeansTime(time', due', clock) /\ due' \in Int
    BY <1>1, <2>1, <2>2, PushedMeans
  <2> QED BY <2>2, <2>3, FallsAsleep
<1>3. CASE Ticks!alarm_thread_2(d)
  <2> DEFINE c == Ticks!check_time(time)
  <2>1. phase = "callback" /\ clock' = clock
    BY <1>3 DEF Ticks!alarm_thread_2
  <2>2. CASE d = 0
    BY <1>1, <1>3, <2>1, <2>2 DEF Ticks!alarm_thread_2, TickInv
  <2>3. CASE d > 0
    <3>1. phase' = "asleep" /\ time' = Ticks!NextTime(clock + d) /\ due' = clock + d
      BY <1>3, <2>3 DEF Ticks!alarm_thread_2
    <3>2. MeansTime(time', due', clock) /\ due' \in Int
      BY <1>1, <3>1, NextTimeMeans
    <3> QED BY <2>1, <3>1, <3>2, FallsAsleep
  <2>4. CASE d < 0 /\ Ticks!Misread
    <3>1. phase' = "asleep" /\ due' = -1
      BY <1>3, <2>4 DEF Ticks!alarm_thread_2
    <3> QED BY <2>1, <3>1, FallsAsleep
  <2>5. CASE d < 0 /\ ~Ticks!Misread
    <3>1. phase' = "asleep" /\ time' = Ticks!NextTime(c - d) /\ due' = due - d
      BY <1>3, <2>5 DEF Ticks!alarm_thread_2
    <3>2. due >= 0 /\ clock - due < Half
      BY <1>1, <2>5, TickSizes DEF Ticks!Misread
    <3>3. MeansTime(time, due, clock) /\ (time.type = "int64" => time.v <= clock)
      BY <2>1, <2>5 DEF TickInv
    <3>4. time.type \in {"integer", "int64"}
      BY <3>3 DEF MeansTime, Ticks!Integer, Ticks!Int64
    <3>5. c = due
      BY <1>1, <3>2, <3>3, <3>4, MeansReached
    <3> HIDE DEF c
    <3>6. MeansTime(time', due', clock) /\ due' \in Int
      <4>1. due - d \in Int /\ time' = Ticks!NextTime(due - d)
        BY <1>1, <3>1, <3>5
      <4> QED BY <1>1, <3>1, <4>1, NextTimeMeans
    <3> QED BY <2>1, <3>1, <3>6, FallsAsleep
  <2> QED BY <2>2, <2>3, <2>4, <2>5
<1> QED BY <1>2, <1>3

LEMMA TickStep == TickInv /\ [Ticks!Next]_Ticks!vars => TickInv'
<1> SUFFICES ASSUME TickInv, [Ticks!Next]_Ticks!vars PROVE TickInv'
  OBVIOUS
<1>1. CASE UNCHANGED Ticks!vars
  BY <1>1 DEF Ticks!vars, TickInv, Ticks!Misread
<1>2. CASE Ticks!Tick
  <2>1. /\ clock < MaxNow /\ clock' = clock + 1
        /\ UNCHANGED <<phase, api, time, delay, due>>
    BY <1>2 DEF Ticks!Tick
  <2>2. clock' \in 0..MaxNow /\ clock' >= clock /\ due \in Int
    BY <2>1, TickSizes DEF TickInv
  <2>3. ~Ticks!Misread' => ~Ticks!Misread
    BY <2>1, <2>2, TickSizes DEF Ticks!Misread, TickInv
  <2>4. MeansTime(time, due, clock) => MeansTime(time, due, clock')
    <3>1. due - clock < Half => due - clock' < Half
      BY <2>1, <2>2, TickSizes DEF TickInv
    <3> QED BY <3>1 DEF MeansTime
  <2>5. ASSUME MeansTime(time, due, clock), time.type = "int64", time.v <= clock
        PROVE  time.v <= clock'
    <3>1. time.v \in Int
      BY <2>5 DEF MeansTime, Ticks!Integer, Ticks!Int64
    <3> QED BY <2>1, <2>5, <3>1, TickSizes DEF TickInv
  <2> QED BY <2>1, <2>2, <2>3, <2>4, <2>5 DEF TickInv
<1>3. CASE Ticks!mod_sleep_until_1
  <2>1. /\ Ticks!Reached /\ UNCHANGED <<clock, api, time, delay, due>>
        /\ phase' = (IF api = "alarm" THEN "callback" ELSE "idle") /\ phase = "asleep"
    BY <1>3 DEF Ticks!mod_sleep_until_1
  <2>2. ASSUME phase' = "callback", time.type = "int64" PROVE time.v <= clock
    <3>1. Ticks!ticks64_reached(Ticks!check_time(time))
      BY <2>1, <2>2 DEF Ticks!Reached
    <3>2. Ticks!check_time(time) = time.v
      BY <2>2 DEF Ticks!check_time
    <3>3. clock >= time.v
      BY <3>1, <3>2 DEF Ticks!ticks64_reached
    <3> QED BY <3>3
  <2> QED BY <2>1, <2>2 DEF TickInv, Ticks!Misread
<1>4. CASE Ticks!mod_cancel_alarm
  BY <1>4 DEF Ticks!mod_cancel_alarm, TickInv
<1>5. Ticks!Delays \subseteq Nat /\ {-Ticks!MaxInt - 2, -1, 0, 1, Ticks!MaxInt + 2} \subseteq Int
  BY TickSizes DEF Ticks!Delays
<1> QED BY <1>1, <1>2, <1>3, <1>4, <1>5, TickSleeps, TickDelays, TickRepeats DEF Ticks!Next

\* Times compare by the numbers that they stand for.
LEMMA TicksCompare ==
    ASSUME clock \in 0..MaxNow, NEW x \in Ticks!Given, NEW y \in Ticks!Given,
           Ticks!Meant(x) >= 0, Ticks!Meant(y) >= 0
    PROVE  /\ Ticks!compare(x, y) = IF Ticks!Meant(x) < Ticks!Meant(y) THEN -1
                                    ELSE IF Ticks!Meant(x) = Ticks!Meant(y) THEN 0 ELSE 1
           /\ Ticks!diff(x, y) = Ticks!Meant(y) - Ticks!Meant(x)
<1> DEFINE a == Ticks!Meant(x)  b == Ticks!Meant(y)
           T == Ticks!Times  M == Ticks!MaxTicks  s == b - a + M + 1
<1>1. /\ Ticks!check_time(x) = a /\ a \in Int /\ 0 <= a /\ a <= M
      /\ Ticks!check_time(y) = b /\ b \in Int /\ 0 <= b /\ b <= M
  <2>1. ASSUME NEW z \in Ticks!Given, Ticks!Meant(z) >= 0
        PROVE  Ticks!check_time(z) = Ticks!Meant(z) /\ Ticks!Meant(z) \in 0..M
    <3> DEFINE m == Ticks!Meant(z)
    <3>1. /\ m \in Int /\ Ticks!check_time(z) = m
          /\ m \in 0..(MaxNow + 2) \/ m - clock < Half
      BY <2>1, GivenTime
    <3> HIDE DEF m
    <3>2. m <= M
      BY <3>1, TickSizes
    <3> QED BY <2>1, <3>1, <3>2, TickSizes DEF m
  <2> QED BY <2>1, TickSizes
<1>2. T \in Nat \ {0} /\ M \in Int /\ T = 2 * (M + 1)
  BY TickSizes
<1>3. Ticks!compare(x, y) = IF a < b THEN -1 ELSE IF a = b THEN 0 ELSE 1
  BY <1>1 DEF Ticks!compare
<1>4. Ticks!diff(x, y) = ((b - a + M + 1) % T) - M - 1
  BY <1>1 DEF Ticks!diff
<1> HIDE DEF a, b, T, M
<1>5. s \in 0..(T - 1) /\ s = (T * 0) + s /\ s - M - 1 = b - a
  BY <1>1, <1>2
<1>6. s % T = s
  <2> HIDE DEF s
  <2> QED BY <1>2, <1>5, Remainder
<1> QED BY <1>3, <1>4, <1>5, <1>6 DEF a, b

LEMMA TimesMeant == TickInv => Ticks!WakesWhenDue /\ Ticks!TimesCompare
<1> SUFFICES ASSUME TickInv PROVE Ticks!WakesWhenDue /\ Ticks!TimesCompare
  OBVIOUS
<1>1. clock \in 0..MaxNow
  BY DEF TickInv
<1>2. Ticks!WakesWhenDue
  <2>1. ASSUME phase = "asleep", ~Ticks!Misread PROVE Ticks!Reached <=> clock >= due
    <3>1. due \in Nat /\ clock - due < Half /\ MeansTime(time, due, clock)
      BY <2>1, TickSizes DEF TickInv, Ticks!Misread
    <3> QED BY <1>1, <3>1, MeansReached DEF Ticks!Reached
  <2> QED BY <2>1 DEF Ticks!WakesWhenDue
<1>3. Ticks!TimesCompare
  BY <1>1, TicksCompare DEF Ticks!TimesCompare
<1> QED BY <1>2, <1>3

-----------------------------------------------------------------------------
(* MemBuffer. *)

MemTyped == bytes \in [0..(MemSize - 1) -> Mem!Byte]

LEMMA MemSizes ==
    /\ MemSize \in Nat /\ MemOffsets \in Nat /\ 2 * MemSize + 3 < MemOffsets
    /\ Mem!dev_size \in 0..MemSize
<1>1. MemSize % EraseSize \in Nat /\ MemSize % EraseSize <= MemSize
  <2> DEFINE q == MemSize \div EraseSize  r == MemSize % EraseSize
  <2>1. q \in Nat /\ r \in Nat /\ MemSize = (EraseSize * q) + r
    BY DataAssumption
  <2>2. EraseSize * q \in Nat
    BY <2>1, DataAssumption
  <2> DEFINE p == EraseSize * q
  <2>3. p \in Nat /\ MemSize = p + r /\ r \in Nat
    BY <2>1, <2>2
  <2> HIDE DEF p, q, r
  <2>4. r \in Nat /\ r <= MemSize
    BY <2>3, DataAssumption
  <2> QED BY <2>4 DEF r
<1> QED BY <1>1, DataAssumption DEF Mem!dev_size

\* Sums and differences of offsets wrap once.
LEMMA OffsetWraps ==
    ASSUME NEW i \in (1 - MemOffsets)..(2 * MemOffsets - 1)
    PROVE  i % MemOffsets = IF i < 0 THEN i + MemOffsets
                            ELSE IF i < MemOffsets THEN i ELSE i - MemOffsets
<1>1. MemOffsets \in Nat \ {0} /\ i \in Int
  BY MemSizes
<1>2. ASSUME NEW k \in {-1, 0, 1}, NEW x \in 0..(MemOffsets - 1), i = (MemOffsets * k) + x
      PROVE  i % MemOffsets = x
  BY <1>1, <1>2, Remainder
<1>3. CASE i < 0
  <2> DEFINE x == i + MemOffsets
  <2>1. x \in 0..(MemOffsets - 1) /\ i = (MemOffsets * (-1)) + x
    BY <1>1, <1>3
  <2> HIDE DEF x
  <2>2. i % MemOffsets = x
    BY <1>2, <2>1
  <2> QED BY <1>3, <2>2 DEF x
<1>4. CASE i >= 0 /\ i < MemOffsets
  <2>1. i \in 0..(MemOffsets - 1) /\ i = (MemOffsets * 0) + i
    BY <1>1, <1>4
  <2>2. i % MemOffsets = i
    BY <1>2, <2>1
  <2> QED BY <1>1, <1>4, <2>2
<1>5. CASE i >= MemOffsets
  <2> DEFINE x == i - MemOffsets
  <2>1. x \in 0..(MemOffsets - 1) /\ i = (MemOffsets * 1) + x
    BY <1>1, <1>5
  <2> HIDE DEF x
  <2>2. i % MemOffsets = x
    BY <1>2, <2>1
  <2>3. ~(i < 0) /\ ~(i < MemOffsets)
    BY <1>1, <1>5
  <2> QED BY <2>2, <2>3 DEF x
<1> QED BY <1>1, <1>3, <1>4, <1>5

\* Both checks accept what is inside, and what slips through.
LEMMA MemBounds ==
    ASSUME NEW off \in Mem!Offsets, NEW size \in Mem!Offsets, NEW op, ~Mem!OfDevice(op)
    PROVE  /\ Mem!Inside(op, off, size) =>
                 /\ Mem!check_bounds(off, size) /\ ~Mem!Wraps(off, size)
                 /\ ~Mem!TooLarge(size) /\ ~Mem!Slips(op, off, size)
           /\ ~Mem!Inside(op, off, size) /\ Mem!check_bounds(off, size) =>
                 /\ Mem!Wraps(off, size) /\ Mem!TooLarge(size)
                 /\ op # "read" => Mem!Slips(op, off, size)
           /\ ~Mem!check_bounds(off, size) => ~Mem!Slips(op, off, size)
           /\ op = "read" => ~Mem!Slips(op, off, size)
<1>1. /\ off \in 0..(MemOffsets - 1) /\ size \in 0..(MemOffsets - 1)
      /\ MemSize \in Nat /\ MemOffsets \in Nat /\ 2 * MemSize + 3 < MemOffsets
  BY MemSizes DEF Mem!Offsets
<1>2. off + size \in (1 - MemOffsets)..(2 * MemOffsets - 1)
  BY <1>1
<1> DEFINE rem == (off + size) % MemOffsets
<1>3. rem = IF off + size < MemOffsets THEN off + size ELSE off + size - MemOffsets
  <2> DEFINE u == off + size
  <2>1. u % MemOffsets = IF u < 0 THEN u + MemOffsets
                         ELSE IF u < MemOffsets THEN u ELSE u - MemOffsets
    <3> HIDE DEF u
    <3> QED BY <1>2, OffsetWraps DEF u
  <2>2. ~(u < 0)
    BY <1>1
  <2> HIDE DEF u
  <2>3. u % MemOffsets = IF u < MemOffsets THEN u ELSE u - MemOffsets
    BY <2>1, <2>2
  <2>4. rem = u % MemOffsets /\ u = off + size
    BY DEF u
  <2> HIDE DEF rem
  <2> QED BY <1>1, <2>3, <2>4
<1>4. Mem!check_bounds(off, size) <=> off <= MemSize /\ rem <= MemSize
  BY DEF Mem!check_bounds
<1>5. Mem!limit(op) = MemSize
  BY DEF Mem!limit
<1>6. /\ Mem!Inside(op, off, size) <=> off + size <= MemSize
      /\ Mem!Wraps(off, size) <=> off + size >= MemOffsets
      /\ Mem!TooLarge(size) <=> 2 * size >= MemOffsets
  BY <1>5 DEF Mem!Inside, Mem!Wraps, Mem!TooLarge
<1>7. Mem!Slips(op, off, size) <=>
        /\ off + size - MemOffsets \in 0..MemSize /\ off <= MemSize
        /\ op = "read" => ~(2 * size >= MemOffsets)
  <2>1. op # "dev_read"
    BY DEF Mem!OfDevice
  <2> QED BY <1>5, <1>6, <2>1 DEF Mem!Slips
<1> HIDE DEF rem
<1> QED BY ONLY <1>1, <1>3, <1>4, <1>6, <1>7

LEMMA MemDevBounds ==
    ASSUME NEW off \in Mem!Offsets, NEW size \in Mem!Offsets, NEW op, Mem!OfDevice(op)
    PROVE  /\ Mem!Inside(op, off, size) =>
                 /\ Mem!dev_bounds(off, size) /\ ~Mem!Wraps(off, size)
                 /\ ~Mem!TooLarge(size) /\ ~Mem!Slips(op, off, size)
           /\ ~Mem!Inside(op, off, size) /\ Mem!dev_bounds(off, size) =>
                 /\ Mem!Wraps(off, size)
                 /\ Mem!Slips(op, off, size) <=> (op = "dev_read" => ~Mem!TooLarge(size))
           /\ ~Mem!dev_bounds(off, size) => ~Mem!Slips(op, off, size)
<1>1. /\ off \in 0..(MemOffsets - 1) /\ size \in 0..(MemOffsets - 1)
      /\ MemSize \in Nat /\ MemOffsets \in Nat /\ 2 * MemSize + 3 < MemOffsets
      /\ Mem!dev_size \in 0..MemSize
  BY MemSizes DEF Mem!Offsets
<1>2. off + size \in (1 - MemOffsets)..(2 * MemOffsets - 1)
  BY <1>1
<1> DEFINE rem == (off + size) % MemOffsets
           D == Mem!dev_size
<1>3. rem = IF off + size < MemOffsets THEN off + size ELSE off + size - MemOffsets
  <2> DEFINE u == off + size
  <2>1. u % MemOffsets = IF u < 0 THEN u + MemOffsets
                         ELSE IF u < MemOffsets THEN u ELSE u - MemOffsets
    <3> HIDE DEF u
    <3> QED BY <1>2, OffsetWraps DEF u
  <2>2. ~(u < 0)
    BY <1>1
  <2> HIDE DEF u
  <2>3. u % MemOffsets = IF u < MemOffsets THEN u ELSE u - MemOffsets
    BY <2>1, <2>2
  <2>4. rem = u % MemOffsets /\ u = off + size
    BY DEF u
  <2> HIDE DEF rem
  <2> QED BY <1>1, <2>3, <2>4
<1>4. Mem!dev_bounds(off, size) <=> rem <= D
  BY DEF Mem!dev_bounds
<1>5. Mem!limit(op) = D
  BY DEF Mem!limit
<1>6. /\ Mem!Inside(op, off, size) <=> off + size <= D
      /\ Mem!Wraps(off, size) <=> off + size >= MemOffsets
      /\ Mem!TooLarge(size) <=> 2 * size >= MemOffsets
  BY <1>5 DEF Mem!Inside, Mem!Wraps, Mem!TooLarge
<1>7. Mem!Slips(op, off, size) <=>
        /\ off + size - MemOffsets \in 0..D
        /\ op = "dev_read" => ~(2 * size >= MemOffsets)
  <2>1. op # "read"
    BY DEF Mem!OfDevice
  <2> QED BY <1>5, <1>6, <2>1 DEF Mem!Slips
<1> HIDE DEF rem, D
<1>8. D \in 0..MemSize
  BY <1>1 DEF D
<1> QED BY ONLY <1>1, <1>3, <1>4, <1>6, <1>7, <1>8

\* What is read is what is asked for, and is not taken for an error.
LEMMA MemRead ==
    ASSUME MemTyped,
           NEW off \in Nat, NEW size \in Nat, off + size <= MemSize
    PROVE  /\ Mem!buffer_read(off, size) = Mem!Asked(off, size)
           /\ Mem!Asked(off, size) \in Seq(Mem!Byte) /\ Len(Mem!Asked(off, size)) = size
           /\ \A i \in 1..size : Mem!Asked(off, size)[i] = bytes[off + i - 1]
           /\ Mem!Asked(off, size) \notin {Mem!Error, Mem!Undefined}
<1> USE DEF MemTyped
<1> DEFINE B == [i \in 1..MemSize |-> bytes[i - 1]]
           A == SubSeq(B, off + 1, off + size)
           R == Mem!buffer_read(off, size)
<1>1. \A i \in (off + 1)..(off + size) : i \in 1..MemSize /\ B[i] = bytes[i - 1]
                                         /\ B[i] \in Mem!Byte
  BY MemSizes
<1>2. /\ A \in Seq(Mem!Byte) /\ Len(A) = size
      /\ \A i \in 1..size : A[i] = B[off + i]
  <2> HIDE DEF B
  <2>1. off + 1 \in Int /\ off + size \in Int
    OBVIOUS
  <2>2. /\ A \in Seq(Mem!Byte)
        /\ Len(A) = IF off + 1 <= off + size THEN (off + size) - (off + 1) + 1 ELSE 0
        /\ \A i \in 1..((off + size) - (off + 1) + 1) : A[i] = B[(off + 1) + i - 1]
    BY <1>1, <2>1, SubSeqProperties
  <2>3. \A i \in 1..size : (off + 1) + i - 1 = off + i
    OBVIOUS
  <2>4. (off + size) - (off + 1) + 1 = size
    OBVIOUS
  <2> HIDE DEF A
  <2> QED BY <2>2, <2>3, <2>4
<1>3. \A i \in 1..size : off + i \in (off + 1)..(off + size) /\ (off + i) - 1 = off + i - 1
  OBVIOUS
<1>4. \A i \in 1..size : A[i] = bytes[off + i - 1]
  <2> HIDE DEF A, B
  <2> QED BY <1>1, <1>2, <1>3
<1>5. R = [i \in 1..size |-> bytes[off + i - 1]]
  BY DEF Mem!buffer_read
<1>6. R = A
  <2> HIDE DEF A, B, R
  <2>1. A = [i \in 1..size |-> A[i]]
    BY <1>2
  <2> QED BY <1>4, <1>5, <2>1
<1>7. A \notin {Mem!Error, Mem!Undefined}
  <2> HIDE DEF A
  <2>1. A[1] \in {-1, -2} /\ Len(A) = 1 => -1 \in Mem!Byte \/ -2 \in Mem!Byte
    BY <1>2
  <2>2. /\ Mem!Error[1] = -1 /\ Len(Mem!Error) = 1 /\ -1 \notin Mem!Byte
        /\ Mem!Undefined[1] = -2 /\ Len(Mem!Undefined) = 1 /\ -2 \notin Mem!Byte
    BY DEF Mem!Error, Mem!Undefined, Mem!Byte, Mem!Erased
  <2> QED BY <2>1, <2>2
<1>8. Mem!Asked(off, size) = A
  BY DEF Mem!Asked
<1> HIDE DEF A, B, R
<1> QED BY <1>2, <1>4, <1>6, <1>7, <1>8 DEF R

MemCall(op, off, size, vals, res) ==
    [op |-> op, off |-> off, len |-> size, data |-> vals, res |-> res]

LEMMA MemRefuses ==
    ASSUME NEW op, NEW off \in Int, NEW size \in Int, NEW vals,
           ~Mem!Inside(op, off, size), bytes' = bytes,
           op = "find" \/ ~Mem!Slips(op, off, size),
           mem_call' = MemCall(op, off, size, vals, Mem!Error)
    PROVE  Mem!ActsInBounds
<1>1. Mem!Error # Mem!Undefined
  BY DEF Mem!Error, Mem!Undefined
<1> QED BY <1>1 DEF Mem!ActsInBounds, MemCall

LEMMA MemSlips ==
    ASSUME NEW op, NEW off \in Int, NEW size \in Int, NEW vals,
           ~Mem!Inside(op, off, size), Mem!Slips(op, off, size),
           mem_call' = MemCall(op, off, size, vals, Mem!Undefined)
    PROVE  Mem!ActsInBounds
BY DEF Mem!ActsInBounds, MemCall

LEMMA MemReads ==
    ASSUME NEW op \in {"read", "get", "dev_read"}, NEW off \in Nat, NEW size \in Nat,
           Mem!Inside(op, off, size), ~Mem!Slips(op, off, size), bytes' = bytes,
           MemTyped,
           mem_call' = MemCall(op, off, size, <<>>, Mem!buffer_read(off, size))
    PROVE  Mem!ActsInBounds
<1>1. off + size <= MemSize
  BY MemSizes DEF Mem!Inside, Mem!limit
<1>2. /\ Mem!buffer_read(off, size) = Mem!Asked(off, size)
      /\ Mem!Asked(off, size) \notin {Mem!Error, Mem!Undefined}
  BY <1>1, MemRead
<1> QED BY <1>2 DEF Mem!ActsInBounds, MemCall

LEMMA MemWrites ==
    ASSUME NEW op \in {"write", "set", "fill", "dev_write", "dev_erase"},
           NEW off \in Nat, NEW vals \in Seq(Mem!Byte),
           Mem!Inside(op, off, Len(vals)), ~Mem!Slips(op, off, Len(vals)),
           Mem!buffer_write(off, vals),
           MemTyped,
           mem_call' = MemCall(op, off, Len(vals), vals, <<>>)
    PROVE  Mem!ActsInBounds
<1> USE DEF MemTyped
<1> DEFINE size == Len(vals)
           place(i) == 1 + ((i - off) % MemOffsets)
<1>1. size \in Nat /\ DOMAIN vals = 1..size /\ off + size <= MemSize
  BY MemSizes DEF Mem!Inside, Mem!limit
<1>2. bytes' = [i \in 0..(MemSize - 1) |-> IF place(i) \in 1..size
                                          THEN vals[place(i)] ELSE bytes[i]]
  BY <1>1 DEF Mem!buffer_write
<1> HIDE DEF size
<1>a. ASSUME NEW i \in 0..(MemSize - 1)
      PROVE  /\ place(i) \in 1..size <=> i \in off..(off + size - 1)
             /\ i \in off..(off + size - 1) => place(i) = i - off + 1
  <2> DEFINE u == i - off
  <2>1. u \in (1 - MemOffsets)..(2 * MemOffsets - 1) /\ u \in Int
        /\ u = i - off
    BY <1>1, MemSizes
  <2> HIDE DEF u
  <2>2. u % MemOffsets = IF u < 0 THEN u + MemOffsets
                         ELSE IF u < MemOffsets THEN u ELSE u - MemOffsets
    BY <2>1, OffsetWraps
  <2>3. place(i) = 1 + (u % MemOffsets)
    BY DEF u
  <2> HIDE DEF place
  <2>4. u < MemOffsets
    BY <1>1, <2>1, MemSizes
  <2>5. place(i) = 1 + (IF u < 0 THEN u + MemOffsets ELSE u)
    BY <2>2, <2>3, <2>4
  <2> QED BY <1>1, <2>1, <2>5, MemSizes
<1> HIDE DEF place
<1>3. ASSUME NEW i \in 0..(MemSize - 1), i \notin off..(off + size - 1)
      PROVE  bytes'[i] = bytes[i]
  BY <1>2, <1>3, <1>a
<1>4. ASSUME NEW i \in 1..size PROVE bytes'[off + i - 1] = vals[i]
  <2> DEFINE k == off + i - 1
  <2>1. k \in 0..(MemSize - 1) /\ k - off + 1 = i /\ k \in off..(off + size - 1)
    BY <1>1, MemSizes
  <2> HIDE DEF k
  <2>2. place(k) = i
    BY <1>a, <2>1
  <2>3. bytes'[k] = vals[i]
    BY <1>2, <2>1, <2>2
  <2> QED BY <2>3 DEF k
<1>5. <<>> \notin {Mem!Error, Mem!Undefined}
  BY DEF Mem!Error, Mem!Undefined
<1>6. /\ mem_call'.op = op /\ mem_call'.off = off /\ mem_call'.len = size
      /\ mem_call'.data = vals /\ mem_call'.res = <<>>
  BY DEF MemCall, size
<1>7. DOMAIN bytes = 0..(MemSize - 1)
  OBVIOUS
<1>8. Mem!Inside(op, off, size) /\ ~Mem!Slips(op, off, size)
  BY DEF size
<1> QED BY <1>1, <1>3, <1>4, <1>5, <1>6, <1>7, <1>8 DEF Mem!ActsInBounds

LEMMA MemWritesOrRefuses ==
    ASSUME NEW op \in {"write", "set", "fill", "dev_write", "dev_erase"},
           NEW off \in Mem!Offsets, NEW vals \in Seq(Mem!Byte), NEW accepted \in BOOLEAN,
           Len(vals) \in Mem!Offsets,
           MemTyped,
           accepted <=> IF Mem!OfDevice(op) THEN Mem!dev_bounds(off, Len(vals))
                        ELSE Mem!check_bounds(off, Len(vals)),
           Mem!WriteIf(accepted, op, off, vals)
    PROVE  Mem!ActsInBounds
<1> DEFINE size == Len(vals)
<1>1. off \in Nat /\ size \in Nat
  BY MemSizes DEF Mem!Offsets
<1>2. mem_call' = MemCall(op, off, size, vals,
          IF ~accepted THEN Mem!Error
          ELSE IF Mem!Wraps(off, size) THEN Mem!Undefined ELSE <<>>)
  BY DEF Mem!WriteIf, Mem!Called, MemCall
<1>3. /\ accepted => Mem!buffer_write(off, vals)
      /\ ~accepted => bytes' = bytes
  BY DEF Mem!WriteIf
<1>4. /\ Mem!Inside(op, off, size) =>
            accepted /\ ~Mem!Wraps(off, size) /\ ~Mem!Slips(op, off, size)
      /\ ~Mem!Inside(op, off, size) /\ accepted =>
            Mem!Wraps(off, size) /\ Mem!Slips(op, off, size)
      /\ ~accepted => ~Mem!Slips(op, off, size)
  <2> HIDE DEF size
  <2>1. op # "dev_read" /\ op # "read" /\ size \in Mem!Offsets
    BY DEF size
  <2>2. accepted <=> IF Mem!OfDevice(op) THEN Mem!dev_bounds(off, size)
                     ELSE Mem!check_bounds(off, size)
    BY DEF size
  <2>3. CASE Mem!OfDevice(op)
    BY <2>1, <2>2, <2>3, MemDevBounds
  <2>4. CASE ~Mem!OfDevice(op)
    BY <2>1, <2>2, <2>4, MemBounds
  <2> QED BY <2>3, <2>4
<1>5. CASE Mem!Inside(op, off, size)
  BY <1>1, <1>2, <1>3, <1>4, <1>5, MemWrites
<1> HIDE DEF size
<1>6. CASE ~Mem!Inside(op, off, size) /\ accepted
  BY <1>1, <1>2, <1>4, <1>6, MemSlips
<1>7. CASE ~Mem!Inside(op, off, size) /\ ~accepted
  BY <1>1, <1>2, <1>3, <1>4, <1>7, MemRefuses
<1> QED BY <1>5, <1>6, <1>7

\* memmem() in a range that is inside.
LEMMA MemFind ==
    ASSUME MemTyped,
           NEW off \in Nat, NEW size \in Nat, off + size <= MemSize,
           NEW needle \in Seq(Mem!Byte)
    PROVE  LET pos == Mem!buffer_find(off, size, needle)
               found == {i \in off..(off + size - Len(needle)) :
                            Mem!buffer_read(i, Len(needle)) = needle}
           IN \/ pos = -1 /\ found = {}
              \/ pos \in found /\ \A i \in found : pos <= i
<1> DEFINE pos == Mem!buffer_find(off, size, needle)
           found == {i \in off..(off + size - Len(needle)) :
                        Mem!buffer_read(i, Len(needle)) = needle}
<1>1. pos = IF found = {} THEN -1 ELSE Mem!Min(found)
  BY DEF Mem!buffer_find
<1>2. found \in SUBSET Nat
  OBVIOUS
<1>3. ASSUME found # {} PROVE Mem!Min(found) \in found /\ \A i \in found : Mem!Min(found) <= i
  <2> HIDE DEF found
  <2>1. \E y \in found : \A z \in found : y <= z
    BY <1>2, <1>3, LeastNumber
  <2>2. Mem!Min(found) = CHOOSE y \in found : \A z \in found : y <= z
    BY DEF Mem!Min
  <2> QED BY <2>1, <2>2
<1> HIDE DEF found, pos
<1>4. \/ pos = -1 /\ found = {}
      \/ pos \in found /\ \A i \in found : pos <= i
  BY <1>1, <1>3
<1> QED BY <1>4 DEF pos, found

LEMMA MemPrefix ==
    ASSUME MemTyped,
           NEW off \in Nat, NEW size \in Nat, off + size <= MemSize,
           NEW needle \in Seq(Mem!Byte), NEW i \in 1..(size + 1)
    PROVE  Mem!IsPrefix(needle, SubSeq(Mem!Asked(off, size), i, size))
             <=> /\ off + i - 1 + Len(needle) <= off + size
                 /\ Mem!buffer_read(off + i - 1, Len(needle)) = needle
<1> DEFINE A == Mem!Asked(off, size)
           T == SubSeq(A, i, size)
           l == Len(needle)
           P == SubSeq(T, 1, l)
           k == off + i - 1
           R == Mem!buffer_read(k, l)
<1>1. A \in Seq(Mem!Byte) /\ Len(A) = size /\ \A j \in 1..size : A[j] = bytes[off + j - 1]
  BY MemRead
<1>2. /\ T \in Seq(Mem!Byte) /\ Len(T) = size - i + 1
      /\ \A j \in 1..(size - i + 1) : T[j] = A[i + j - 1]
  <2> HIDE DEF A
  <2>1. \A j \in i..size : A[j] \in Mem!Byte
    BY <1>1
  <2>2. i \in Int /\ size \in Int
    OBVIOUS
  <2>3. /\ T \in Seq(Mem!Byte)
        /\ Len(T) = IF i <= size THEN size - i + 1 ELSE 0
        /\ \A j \in 1..(size - i + 1) : T[j] = A[i + j - 1]
    BY <2>1, <2>2, SubSeqProperties
  <2> HIDE DEF T
  <2>4. (IF i <= size THEN size - i + 1 ELSE 0) = size - i + 1
    OBVIOUS
  <2> QED BY ONLY <2>3, <2>4
<1>3. l \in Nat /\ SubSeq(needle, 1, l) = needle
  BY SubSeqFull
<1>4. Mem!IsPrefix(needle, T) <=> l <= Len(T) /\ needle = P
  BY <1>3 DEF Mem!IsPrefix
<1>5. ASSUME l <= size - i + 1 PROVE P = R
  <2>1. k \in Nat /\ k + l <= MemSize
    BY <1>3, <1>5, MemSizes
  <2>2. /\ R \in Seq(Mem!Byte) /\ Len(R) = l
        /\ \A j \in 1..l : R[j] = bytes[k + j - 1]
    <3> HIDE DEF k, l
    <3> QED BY <1>3, <2>1, MemRead
  <2> HIDE DEF A, T, l, R
  <2>3. \A j \in 1..l : T[j] \in Mem!Byte /\ j \in 1..(size - i + 1)
    BY <1>2, <1>3, <1>5
  <2>4. /\ P \in Seq(Mem!Byte) /\ Len(P) = IF 1 <= l THEN l - 1 + 1 ELSE 0
        /\ \A j \in 1..(l - 1 + 1) : P[j] = T[1 + j - 1]
    <3>1. 1 \in Int /\ l \in Int
      BY <1>3
    <3> QED BY <2>3, <3>1, SubSeqProperties
  <2> HIDE DEF P
  <2>5. Len(P) = l /\ \A j \in 1..l : P[j] = T[j]
    BY <1>3, <2>4
  <2>6. ASSUME NEW j \in 1..l PROVE P[j] = R[j]
    <3>1. T[j] = A[i + j - 1] /\ i + j - 1 \in 1..size
      <4>1. j \in 1..(size - i + 1)
        BY <2>3
      <4>2. T[j] = A[i + j - 1]
        BY <1>2, <4>1
      <4>3. i + j - 1 \in 1..size
        BY ONLY <4>1, size \in Nat, i \in 1..(size + 1)
      <4> QED BY <4>2, <4>3
    <3>2. A[i + j - 1] = bytes[off + (i + j - 1) - 1]
      BY <1>1, <3>1
    <3>3. off + (i + j - 1) - 1 = k + j - 1
      OBVIOUS
    <3> HIDE DEF k
    <3> QED BY <2>2, <2>5, <3>1, <3>2, <3>3
  <2>7. P = [j \in 1..l |-> P[j]] /\ R = [j \in 1..l |-> R[j]]
    BY <2>2, <2>4, <2>5
  <2> QED BY <2>6, <2>7
<1>6. k + l <= off + size <=> l <= size - i + 1
  BY <1>3
<1> HIDE DEF A, T, l, P, k, R
<1>7. Mem!IsPrefix(needle, T) <=> k + l <= off + size /\ R = needle
  BY <1>2, <1>4, <1>5, <1>6
<1> QED BY <1>7 DEF A, T, l, P, k, R

LEMMA MemReadOne ==
    ASSUME MemTyped, NEW i \in 0..(MemSize - 1)
    PROVE  Mem!buffer_read(i, 1) = <<0>> <=> bytes[i] = 0
<1> USE DEF MemTyped
<1>1. Mem!buffer_read(i, 1) = [j \in 1..1 |-> bytes[i + j - 1]]
  BY DEF Mem!buffer_read
<1>2. [j \in 1..1 |-> bytes[i + j - 1]] = <<bytes[i]>>
  BY MemSizes
<1> QED BY <1>1, <1>2

\* The default lengths are unsigned numbers too.
MemOptional == Mem!Offsets \cup {Default}
LEMMA MemLength ==
    ASSUME NEW off \in Mem!Offsets, NEW optional \in MemOptional,
           NEW def \in {1, Mem!rest(off)}
    PROVE  Mem!optlen(optional, def) \in Mem!Offsets
<1>1. MemSize - off \in Int /\ MemOffsets \in Nat \ {0} /\ 1 \in Mem!Offsets
  BY MemSizes DEF Mem!Offsets
<1>2. Mem!rest(off) \in Mem!Offsets
  BY <1>1, MemSizes DEF Mem!rest, Mem!Offsets
<1> QED BY <1>1, <1>2 DEF Mem!optlen, MemOptional

LEMMA MemReadStep ==
    ASSUME MemTyped, NEW off \in Mem!Offsets,
           NEW optional \in MemOptional, Mem!mod_read(off, optional)
    PROVE  Mem!ActsInBounds
<1> DEFINE size == Mem!optlen(optional, Mem!rest(off))
<1>1. size \in Mem!Offsets
  BY MemLength
<1>2. bytes' = bytes
  BY DEF Mem!mod_read
<1>3. mem_call' = MemCall("read", off, size, <<>>,
          IF ~Mem!check_bounds(off, size) \/ Mem!TooLarge(size) THEN Mem!Error
          ELSE Mem!buffer_read(off, size))
  BY DEF Mem!mod_read, Mem!Called, MemCall
<1> HIDE DEF size
<1>4. off \in Nat /\ size \in Nat /\ ~Mem!OfDevice("read")
  BY <1>1, MemSizes DEF Mem!Offsets, Mem!OfDevice
<1>5. CASE Mem!Inside("read", off, size)
  BY <1>1, <1>2, <1>3, <1>4, <1>5, MemBounds, MemReads
<1>6. CASE ~Mem!Inside("read", off, size)
  BY <1>1, <1>2, <1>3, <1>4, <1>6, MemBounds, MemRefuses
<1> QED BY <1>5, <1>6

LEMMA MemGetStep ==
    ASSUME MemTyped, NEW off \in Mem!Offsets,
           NEW optional \in MemOptional, Mem!mod_get(off, optional)
    PROVE  Mem!ActsInBounds
<1> DEFINE size == Mem!optlen(optional, 1)
<1>1. size \in Mem!Offsets
  BY MemLength
<1>2. bytes' = bytes
  BY DEF Mem!mod_get
<1>3. mem_call' = MemCall("get", off, size, <<>>,
          IF ~Mem!check_bounds(off, size) THEN Mem!Error
          ELSE IF Mem!Wraps(off, size) THEN Mem!Undefined ELSE Mem!buffer_read(off, size))
  BY DEF Mem!mod_get, Mem!Called, MemCall
<1> HIDE DEF size
<1>4. off \in Nat /\ size \in Nat /\ ~Mem!OfDevice("get")
  BY <1>1, MemSizes DEF Mem!Offsets, Mem!OfDevice
<1>5. CASE Mem!Inside("get", off, size)
  BY <1>1, <1>2, <1>3, <1>4, <1>5, MemBounds, MemReads
<1>6. CASE ~Mem!Inside("get", off, size) /\ Mem!check_bounds(off, size)
  BY <1>1, <1>3, <1>4, <1>6, MemBounds, MemSlips
<1>7. CASE ~Mem!Inside("get", off, size) /\ ~Mem!check_bounds(off, size)
  BY <1>1, <1>2, <1>3, <1>4, <1>7, MemBounds, MemRefuses
<1> QED BY <1>5, <1>6, <1>7

LEMMA MemFillStep ==
    ASSUME MemTyped, NEW val \in Mem!Byte, NEW off \in Mem!Offsets,
           NEW optional \in MemOptional, Mem!mod_fill(val, off, optional)
    PROVE  Mem!ActsInBounds
<1> DEFINE size == Mem!optlen(optional, Mem!rest(off))
           vals == [i \in 1..size |-> val]
<1>1. size \in Mem!Offsets
  BY MemLength
<1>2. Mem!mod_write("fill", off, vals)
  BY DEF Mem!mod_fill
<1>3. vals \in Seq(Mem!Byte) /\ Len(vals) = size
  BY <1>1, MemSizes DEF Mem!Offsets
<1> HIDE DEF size, vals
<1> DEFINE accepted == Mem!check_bounds(off, Len(vals))
<1>4. Mem!WriteIf(accepted, "fill", off, vals)
  BY <1>2 DEF Mem!mod_write
<1>5. accepted \in BOOLEAN
  BY DEF Mem!check_bounds
<1>6. accepted <=> IF Mem!OfDevice("fill") THEN Mem!dev_bounds(off, Len(vals))
                   ELSE Mem!check_bounds(off, Len(vals))
  BY DEF Mem!OfDevice
<1> HIDE DEF accepted
<1> QED BY <1>1, <1>3, <1>4, <1>5, <1>6, MemWritesOrRefuses

LEMMA MemData == ASSUME NEW vals \in Mem!Data
                 PROVE  vals \in Seq(Mem!Byte) /\ Len(vals) \in Mem!Offsets
<1>1. 0 \in Mem!Byte /\ 1 \in Mem!Byte /\ 0..2 \subseteq Mem!Offsets
  BY MemSizes DEF Mem!Byte, Mem!Offsets
<1>2. CASE vals = <<>>
  BY <1>1, <1>2
<1>3. CASE vals = <<0>>
  BY <1>1, <1>3
<1>4. CASE vals = <<1, 1>>
  BY <1>1, <1>4
<1> QED BY <1>2, <1>3, <1>4 DEF Mem!Data

LEMMA MemWriteStep ==
    ASSUME MemTyped, NEW vals \in Mem!Data, NEW off \in Mem!Offsets,
           NEW op \in {"write", "set"}, Mem!mod_write(op, off, vals)
    PROVE  Mem!ActsInBounds
<1> DEFINE accepted == Mem!check_bounds(off, Len(vals))
<1>1. vals \in Seq(Mem!Byte) /\ Len(vals) \in Mem!Offsets
  BY MemData
<1>2. Mem!WriteIf(accepted, op, off, vals)
  BY DEF Mem!mod_write
<1>3. accepted \in BOOLEAN
  BY DEF Mem!check_bounds
<1>4. accepted <=> IF Mem!OfDevice(op) THEN Mem!dev_bounds(off, Len(vals))
                   ELSE Mem!check_bounds(off, Len(vals))
  BY DEF Mem!OfDevice
<1> HIDE DEF accepted
<1> QED BY <1>1, <1>2, <1>3, <1>4, MemWritesOrRefuses

LEMMA MemDeviceWriteStep ==
    ASSUME MemTyped, NEW vals \in Seq(Mem!Byte), Len(vals) \in Mem!Offsets,
           NEW off \in Mem!Offsets, NEW op \in {"dev_write", "dev_erase"},
           Mem!mem_dev_write(op, off, vals)
    PROVE  Mem!ActsInBounds
<1> DEFINE accepted == Mem!dev_bounds(off, Len(vals))
<1>1. Mem!WriteIf(accepted, op, off, vals)
  BY DEF Mem!mem_dev_write
<1>2. accepted \in BOOLEAN
  BY DEF Mem!dev_bounds
<1>3. accepted <=> IF Mem!OfDevice(op) THEN Mem!dev_bounds(off, Len(vals))
                   ELSE Mem!check_bounds(off, Len(vals))
  BY DEF Mem!OfDevice
<1> HIDE DEF accepted
<1> QED BY <1>1, <1>2, <1>3, MemWritesOrRefuses

LEMMA MemDeviceReadStep ==
    ASSUME MemTyped, NEW off \in Mem!Offsets, NEW size \in Mem!Offsets,
           Mem!mem_dev_read(off, size)
    PROVE  Mem!ActsInBounds
<1>1. bytes' = bytes
  BY DEF Mem!mem_dev_read
<1>2. mem_call' = MemCall("dev_read", off, size, <<>>,
          IF Mem!TooLarge(size) \/ ~Mem!dev_bounds(off, size) THEN Mem!Error
          ELSE IF Mem!Wraps(off, size) THEN Mem!Undefined ELSE Mem!buffer_read(off, size))
  BY DEF Mem!mem_dev_read, Mem!Called, MemCall
<1>3. off \in Nat /\ size \in Nat /\ Mem!OfDevice("dev_read")
  BY MemSizes DEF Mem!Offsets, Mem!OfDevice
<1>4. CASE Mem!Inside("dev_read", off, size)
  BY <1>1, <1>2, <1>3, <1>4, MemDevBounds, MemReads
<1>5. CASE /\ ~Mem!Inside("dev_read", off, size)
           /\ Mem!dev_bounds(off, size) /\ ~Mem!TooLarge(size)
  BY <1>2, <1>3, <1>5, MemDevBounds, MemSlips
<1>6. CASE /\ ~Mem!Inside("dev_read", off, size)
           /\ ~Mem!dev_bounds(off, size) \/ Mem!TooLarge(size)
  BY <1>1, <1>2, <1>3, <1>6, MemDevBounds, MemRefuses
<1> QED BY <1>4, <1>5, <1>6

LEMMA MemDeviceEraseStep ==
    ASSUME MemTyped, NEW off \in Mem!Offsets, NEW size \in Mem!Offsets,
           Mem!mem_dev_erase(off, size)
    PROVE  Mem!ActsInBounds
<1> DEFINE vals == [i \in 1..size |-> Mem!Erased]
<1>1. vals \in Seq(Mem!Byte) /\ Len(vals) = size
  BY MemSizes DEF Mem!Byte, Mem!Offsets
<1>2. Mem!mem_dev_write("dev_erase", off, vals)
  BY DEF Mem!mem_dev_erase
<1> HIDE DEF vals
<1> QED BY <1>1, <1>2, MemDeviceWriteStep

LEMMA MemFindStep ==
    ASSUME MemTyped, NEW needle \in Mem!Data, NEW off \in Mem!Offsets,
           NEW optional \in MemOptional, Mem!mod_find(needle, off, optional)
    PROVE  Mem!ActsInBounds
<1> DEFINE size == Mem!optlen(optional, Mem!rest(off))
           pos == Mem!buffer_find(off, size, needle)
           res == IF ~Mem!check_bounds(off, size) \/ off + Len(needle) > MemSize THEN Mem!Error
                  ELSE IF Mem!Wraps(off, size) THEN Mem!Undefined
                  ELSE IF pos = -1 THEN <<>> ELSE <<pos>>
           asked == Mem!Asked(off, size)
           fits(i) == /\ off + i - 1 + Len(needle) <= off + size
                      /\ Mem!buffer_read(off + i - 1, Len(needle)) = needle
<1>1. size \in Mem!Offsets /\ ~Mem!OfDevice("find")
  BY MemLength DEF Mem!OfDevice
<1>2. bytes' = bytes /\ mem_call' = MemCall("find", off, size, needle, res)
  BY DEF Mem!mod_find, Mem!Called, MemCall
<1>3. off \in Nat /\ size \in Nat
  BY <1>1, MemSizes DEF Mem!Offsets
<1>4. CASE ~Mem!Inside("find", off, size)
  <2>1. \/ res = Mem!Error
        \/ res = Mem!Undefined /\ Mem!Slips("find", off, size)
    <3> HIDE DEF size, pos
    <3>1. Mem!check_bounds(off, size) => Mem!Wraps(off, size) /\ Mem!Slips("find", off, size)
      BY <1>1, <1>4, MemBounds
    <3> QED BY <3>1
  <2> HIDE DEF size, res
  <2> QED BY <1>2, <1>3, <1>4, <2>1, MemRefuses, MemSlips
<1>5. CASE Mem!Inside("find", off, size)
  <2>1. /\ off \in Nat /\ size \in Nat /\ off + size <= MemSize
        /\ ~Mem!Slips("find", off, size) /\ ~Mem!Wraps(off, size)
    <3>1. Mem!limit("find") = MemSize
      BY <1>1 DEF Mem!limit
    <3> HIDE DEF size
    <3> QED BY <1>1, <1>3, <1>5, <3>1, MemBounds DEF Mem!Inside
  <2>2. needle \in Seq(Mem!Byte) /\ Len(needle) \in Nat
    BY MemData
  <2>3. \A i \in 1..(size + 1) :
           Mem!IsPrefix(needle, SubSeq(asked, i, size)) <=> fits(i)
    <3> HIDE DEF size
    <3> QED BY <2>1, <2>2, MemPrefix
  <2> DEFINE found == {i \in off..(off + size - Len(needle)) :
                          Mem!buffer_read(i, Len(needle)) = needle}
  <2>4. \/ pos = -1 /\ found = {}
        \/ pos \in found /\ \A i \in found : pos <= i
    <3> HIDE DEF size
    <3> QED BY <2>1, <2>2, MemFind
  <2>5. \A i \in 1..(size + 1) : fits(i) => off + i - 1 \in found
    <3> HIDE DEF size
    <3> QED BY <2>1, <2>2
  <2>6. ASSUME pos \in found PROVE pos - off + 1 \in 1..(size + 1) /\ fits(pos - off + 1)
    <3> HIDE DEF size, pos
    <3>1. pos \in off..(off + size - Len(needle)) /\ Mem!buffer_read(pos, Len(needle)) = needle
      BY <2>6
    <3>2. off + (pos - off + 1) - 1 = pos
      BY <2>1, <3>1
    <3> QED BY <2>1, <2>2, <3>1, <3>2
  <2> HIDE DEF fits, found
  <2>7. Len(asked) = size
    <3> HIDE DEF size
    <3> QED BY <2>1, MemRead
  <2>8. ASSUME res = <<>>
        PROVE  \A i \in 1..size : ~Mem!IsPrefix(needle, SubSeq(asked, i, size))
    <3>1. found = {}
      <4>1. pos = -1
        BY <2>1, <2>8 DEF Mem!Error
      <4>2. -1 \notin found
        BY <2>1 DEF found
      <4> HIDE DEF pos
      <4> QED BY <2>4, <4>1, <4>2
    <3>2. \A i \in 1..size : i \in 1..(size + 1)
      BY <2>1
    <3> HIDE DEF size, asked
    <3> QED BY <2>3, <2>5, <3>1, <3>2
  <2>9. ASSUME res \notin {<<>>, Mem!Error}
        PROVE  Mem!IsPrefix(needle, SubSeq(asked, res[1] - off + 1, size))
    <3>1. res = <<pos>> /\ pos # -1
      BY <2>1, <2>9
    <3>2. pos \in found /\ res[1] = pos
      <4> HIDE DEF pos, res
      <4> QED BY <2>4, <3>1
    <3> HIDE DEF pos, res, size, asked
    <3> QED BY <2>3, <2>6, <3>2
  <2>12. res # Mem!Undefined
    <3>1. <<>> # Mem!Undefined /\ Mem!Error # Mem!Undefined
      BY DEF Mem!Undefined, Mem!Error
    <3>2. pos # -2
      <4> HIDE DEF pos, size
      <4> QED BY <2>1, <2>2, <2>4 DEF found
    <3>3. <<pos>> # Mem!Undefined
      <4> HIDE DEF pos
      <4> QED BY <3>2 DEF Mem!Undefined
    <3> HIDE DEF pos
    <3> QED BY <2>1, <3>1, <3>3
  <2> HIDE DEF size, res, asked, pos
  <2>10. /\ mem_call'.op = "find" /\ mem_call'.off = off /\ mem_call'.len = size
         /\ mem_call'.data = needle /\ mem_call'.res = res
    BY <1>2 DEF MemCall
  <2>11. Mem!Asked(mem_call'.off, mem_call'.len) = asked
    BY <2>10 DEF asked
  <2> QED BY <1>2, <1>5, <2>1, <2>7, <2>8, <2>9, <2>10, <2>11, <2>12 DEF Mem!ActsInBounds
<1> QED BY <1>4, <1>5

LEMMA MemStringStep ==
    ASSUME MemTyped, NEW off \in Mem!Offsets, NEW optional \in MemOptional,
           Mem!mod_read_cstr(off, optional)
    PROVE  Mem!ActsInBounds
<1> DEFINE size == Mem!optlen(optional, Mem!rest(off))
           end == Mem!buffer_find(off, size, <<0>>)
           kept == IF end # -1 THEN end - off ELSE size
           res == IF ~Mem!check_bounds(off, size) THEN Mem!Error
                  ELSE IF Mem!Wraps(off, size) THEN Mem!Undefined
                  ELSE Mem!buffer_read(off, kept)
           asked == Mem!Asked(off, size)
<1>1. size \in Mem!Offsets /\ ~Mem!OfDevice("read_cstr")
  BY MemLength DEF Mem!OfDevice
<1>2. bytes' = bytes /\ mem_call' = MemCall("read_cstr", off, size, <<>>, res)
  BY DEF Mem!mod_read_cstr, Mem!Called, MemCall
<1>3. off \in Nat /\ size \in Nat
  BY <1>1, MemSizes DEF Mem!Offsets
<1>4. CASE ~Mem!Inside("read_cstr", off, size)
  <2>1. \/ res = Mem!Error /\ ~Mem!Slips("read_cstr", off, size)
        \/ res = Mem!Undefined /\ Mem!Slips("read_cstr", off, size)
    <3> HIDE DEF size, kept, end
    <3>1. IF Mem!check_bounds(off, size)
          THEN Mem!Wraps(off, size) /\ Mem!Slips("read_cstr", off, size)
          ELSE ~Mem!Slips("read_cstr", off, size)
      BY <1>1, <1>4, MemBounds
    <3> QED BY <3>1
  <2> HIDE DEF size, res
  <2> QED BY <1>2, <1>3, <1>4, <2>1, MemRefuses, MemSlips
<1>5. CASE Mem!Inside("read_cstr", off, size)
  <2>1. /\ off \in Nat /\ size \in Nat /\ off + size <= MemSize
        /\ ~Mem!Slips("read_cstr", off, size) /\ ~Mem!Wraps(off, size)
        /\ Mem!check_bounds(off, size)
    <3>1. Mem!limit("read_cstr") = MemSize
      BY <1>1 DEF Mem!limit
    <3> HIDE DEF size
    <3> QED BY <1>1, <1>3, <1>5, <3>1, MemBounds DEF Mem!Inside
  <2> DEFINE found == {i \in off..(off + size - 1) : bytes[i] = 0}
  <2>2. \/ end = -1 /\ found = {}
        \/ end \in found /\ \A i \in found : end <= i
    <3> HIDE DEF size
    <3> DEFINE zero == <<0>>
               F == {i \in off..(off + size - Len(zero)) :
                        Mem!buffer_read(i, Len(zero)) = zero}
    <3>1. zero \in Seq(Mem!Byte) /\ Len(zero) = 1
      BY DEF Mem!Byte
    <3>2. \/ end = -1 /\ F = {}
          \/ end \in F /\ \A i \in F : end <= i
      <4> HIDE DEF zero
      <4>1. LET pos == Mem!buffer_find(off, size, zero)
            IN \/ pos = -1 /\ F = {}
               \/ pos \in F /\ \A i \in F : pos <= i
        BY <2>1, <3>1, MemFind
      <4> QED BY <4>1 DEF zero
    <3>3. \A i \in off..(off + size - 1) : i \in 0..(MemSize - 1)
      BY <2>1, MemSizes
    <3>4. \A i \in off..(off + size - 1) : Mem!buffer_read(i, 1) = zero <=> bytes[i] = 0
      BY <3>3, MemReadOne
    <3>5. F = found
      <4> HIDE DEF zero
      <4> QED BY <3>1, <3>4
    <3> HIDE DEF F, found, end
    <3> QED BY <3>2, <3>5
  <2>3. kept \in 0..size /\ (\A i \in 1..kept : bytes[off + i - 1] # 0)
        /\ (kept = size \/ bytes[off + kept] = 0)
    <3>1. CASE end = -1 /\ found = {}
      <4>1. kept = size
        BY <3>1
      <4> HIDE DEF kept, size, end
      <4>2. \A i \in 1..size : off + i - 1 \in off..(off + size - 1)
        BY <2>1
      <4> QED BY <2>1, <3>1, <4>1, <4>2
    <3>2. CASE end \in found /\ \A i \in found : end <= i
      <4>1. end \in off..(off + size - 1) /\ bytes[end] = 0
        <5> HIDE DEF end, size
        <5> QED BY <3>2
      <4>2. end # -1
        <5> HIDE DEF end, size
        <5> QED BY <2>1, <4>1
      <4>3. kept = end - off
        BY <4>2
      <4> HIDE DEF kept, size, end
      <4>4. ASSUME NEW i \in 1..kept, bytes[off + i - 1] = 0 PROVE FALSE
        <5>1. off + i - 1 \in off..(off + size - 1) /\ off + i - 1 < end
          BY <2>1, <4>1, <4>3
        <5>2. off + i - 1 \in found
          BY <4>4, <5>1
        <5> QED BY <2>1, <3>2, <4>1, <5>1, <5>2
      <4>5. kept \in 0..size /\ off + kept = end
        BY <2>1, <4>1, <4>3
      <4>6. \A i \in 1..kept : bytes[off + i - 1] # 0
        BY <4>4
      <4> QED BY <4>1, <4>5, <4>6
    <3> HIDE DEF found, kept, size, end
    <3> QED BY <2>2, <3>1, <3>2
  <2>4. res = Mem!buffer_read(off, kept)
    BY <2>1
  <2> HIDE DEF size, kept, end, res, found
  <2>5. /\ res = Mem!Asked(off, kept) /\ res \in Seq(Mem!Byte) /\ Len(res) = kept
        /\ \A i \in 1..kept : res[i] = bytes[off + i - 1]
        /\ res \notin {Mem!Error, Mem!Undefined}
    <3>1. kept \in Nat /\ off + kept <= MemSize
      BY <2>1, <2>3, MemSizes
    <3> DEFINE part == Mem!Asked(off, kept)
    <3>2. /\ Mem!buffer_read(off, kept) = part
          /\ part \in Seq(Mem!Byte) /\ Len(part) = kept
          /\ \A i \in 1..kept : part[i] = bytes[off + i - 1]
          /\ part \notin {Mem!Error, Mem!Undefined}
      BY <2>1, <3>1, MemRead
    <3> HIDE DEF part
    <3>3. res = part
      BY <2>4, <3>2
    <3> QED BY <3>2, <3>3 DEF part
  <2>6. /\ asked \in Seq(Mem!Byte) /\ Len(asked) = size
        /\ \A i \in 1..size : asked[i] = bytes[off + i - 1]
    BY <2>1, MemRead
  <2>7. Mem!IsPrefix(res, asked)
    <3>1. SubSeq(asked, 1, size) = asked
      <4> HIDE DEF asked
      <4> QED BY <2>6, SubSeqFull
    <3>2. /\ off + 1 - 1 + Len(res) <= off + size
          /\ Mem!buffer_read(off + 1 - 1, Len(res)) = res
      <4>1. off + 1 - 1 = off /\ off + kept <= off + size
        BY <2>1, <2>3
      <4>2. Mem!buffer_read(off, Len(res)) = res
        BY <2>4, <2>5
      <4> QED BY <2>5, <4>1, <4>2
    <3>3. 1 \in 1..(size + 1)
      BY <2>1
    <3>4. Mem!IsPrefix(res, SubSeq(Mem!Asked(off, size), 1, size))
      BY <2>1, <2>5, <3>2, <3>3, MemPrefix
    <3> QED BY <3>1, <3>4
  <2> HIDE DEF asked
  <2>8. \A i \in DOMAIN res : res[i] # 0
    BY <2>3, <2>5
  <2>9. Len(res) = Len(asked) \/ asked[Len(res) + 1] = 0
    <3>1. kept # size => kept + 1 \in 1..size /\ off + (kept + 1) - 1 = off + kept
      BY <2>1, <2>3
    <3> QED BY <2>3, <2>5, <2>6, <3>1
  <2>10. /\ mem_call'.op = "read_cstr" /\ mem_call'.off = off /\ mem_call'.len = size
         /\ mem_call'.res = res
    BY <1>2 DEF MemCall
  <2>11. Mem!Asked(mem_call'.off, mem_call'.len) = asked
    BY <2>10 DEF asked
  <2> QED BY <1>2, <1>5, <2>1, <2>5, <2>7, <2>8, <2>9, <2>10, <2>11 DEF Mem!ActsInBounds
<1> QED BY <1>4, <1>5

LEMMA MemActs ==
    ASSUME mem_call.op = "none" => MemTyped, Mem!Next
    PROVE  Mem!ActsInBounds /\ mem_call'.op # "none"
<1>1. MemTyped
  BY DEF Mem!Next
<1>2. MemOptional = Mem!Offsets \cup {Default}
  BY DEF MemOptional
<1>3. Mem!ActsInBounds
  <2>1. CASE \E off \in Mem!Offsets, size \in MemOptional :
             \/ Mem!mod_read(off, size) \/ Mem!mod_get(off, size)
             \/ Mem!mod_read_cstr(off, size)
             \/ \E val \in Mem!Byte : Mem!mod_fill(val, off, size)
             \/ \E needle \in Mem!Data : Mem!mod_find(needle, off, size)
    BY <1>1, <2>1, MemReadStep, MemGetStep, MemStringStep, MemFillStep, MemFindStep
  <2>2. CASE \E off \in Mem!Offsets, vals \in Mem!Data :
             \/ Mem!mod_write("write", off, vals) \/ Mem!mod_write("set", off, vals)
             \/ Mem!mem_dev_write("dev_write", off, vals)
    BY <1>1, <2>2, MemData, MemWriteStep, MemDeviceWriteStep
  <2>3. CASE \E off \in Mem!Offsets, size \in Mem!Offsets :
             Mem!mem_dev_read(off, size) \/ Mem!mem_dev_erase(off, size)
    BY <1>1, <2>3, MemDeviceReadStep, MemDeviceEraseStep
  <2> QED BY <1>2, <2>1, <2>2, <2>3 DEF Mem!Next
<1>4. mem_call'.op # "none"
  <2>1. ASSUME NEW op, NEW off, NEW size, NEW vals, NEW res, op # "none",
               Mem!Called(op, off, size, vals, res)
        PROVE  mem_call'.op # "none"
    BY <2>1 DEF Mem!Called
  <2>2. ASSUME NEW off, NEW size, Mem!mod_read(off, size) \/ Mem!mod_get(off, size)
        PROVE  mem_call'.op # "none"
    BY <2>1, <2>2 DEF Mem!mod_read, Mem!mod_get
  <2>3. ASSUME NEW off, NEW size, Mem!mod_read_cstr(off, size) PROVE mem_call'.op # "none"
    BY <2>1, <2>3 DEF Mem!mod_read_cstr
  <2>4. ASSUME NEW op \in {"write", "set", "fill"}, NEW off, NEW vals,
               Mem!mod_write(op, off, vals)
        PROVE  mem_call'.op # "none"
    BY <2>1, <2>4 DEF Mem!mod_write, Mem!WriteIf
  <2>5. ASSUME NEW val, NEW off, NEW size, Mem!mod_fill(val, off, size)
        PROVE  mem_call'.op # "none"
    BY <2>4, <2>5 DEF Mem!mod_fill
  <2>6. ASSUME NEW needle, NEW off, NEW size, Mem!mod_find(needle, off, size)
        PROVE  mem_call'.op # "none"
    BY <2>1, <2>6 DEF Mem!mod_find
  <2>7. ASSUME NEW off, NEW size, Mem!mem_dev_read(off, size) PROVE mem_call'.op # "none"
    BY <2>1, <2>7 DEF Mem!mem_dev_read
  <2>8. ASSUME NEW op \in {"dev_write", "dev_erase"}, NEW off, NEW vals,
               Mem!mem_dev_write(op, off, vals)
        PROVE  mem_call'.op # "none"
    BY <2>1, <2>8 DEF Mem!mem_dev_write, Mem!WriteIf
  <2>9. ASSUME NEW off, NEW size, Mem!mem_dev_erase(off, size) PROVE mem_call'.op # "none"
    BY <2>8, <2>9 DEF Mem!mem_dev_erase
  <2> QED BY <2>2, <2>3, <2>4, <2>5, <2>6, <2>7, <2>8, <2>9 DEF Mem!Next
<1> QED BY <1>3, <1>4

-----------------------------------------------------------------------------
(* Int64. *)

LEMMA WrapIs ==
    ASSUME NEW b \in Nat \ {0}, NEW v \in Int
    PROVE  /\ I64!Wrap(b, v) \in I64!Ints(b)
           /\ \E q \in Int : v = I64!Wrap(b, v) + (2 ^ b * q)
<1> DEFINE M == 2 ^ b  H == 2 ^ (b - 1)  w == ((v + H) % M) - H
<1>1. M = 2 * H /\ H \in Nat \ {0} /\ M \in Nat \ {0}
  <2>1. b - 1 \in Nat /\ b = (b - 1) + 1
    OBVIOUS
  <2>2. 2 ^ ((b - 1) + 1) = 2 * 2 ^ (b - 1)
    BY <2>1, PowerNext
  <2> QED BY <2>1, <2>2, PowerType
<1>2. I64!Wrap(b, v) = w /\ I64!Ints(b) = -H..(H - 1)
  BY DEF I64!Wrap, I64!Ints
<1> HIDE DEF M, H
<1>3. (v + H) % M \in 0..(M - 1) /\ v + H = (M * ((v + H) \div M)) + ((v + H) % M)
      /\ (v + H) \div M \in Int
  <2> DEFINE u == v + H
  <2>1. u \in Int
    BY <1>1
  <2> HIDE DEF u
  <2>2. u \div M \in Int /\ u % M \in 0..(M - 1) /\ u = (M * (u \div M)) + (u % M)
    BY <1>1, <2>1, DivisionIs
  <2> QED BY <2>2 DEF u
<1>4. w \in -H..(H - 1) /\ v = w + (M * ((v + H) \div M))
  BY <1>1, <1>3
<1> HIDE DEF w
<1>5. \E q \in Int : v = w + (M * q)
  BY <1>3, <1>4
<1> QED BY <1>2, <1>4, <1>5 DEF M

LEMMA WrapOnly ==
    ASSUME NEW b \in Nat \ {0}, NEW v \in Int, NEW w \in I64!Ints(b), NEW q \in Int,
           v = w + (2 ^ b * q)
    PROVE  I64!Wrap(b, v) = w
<1> DEFINE M == 2 ^ b  H == 2 ^ (b - 1)
<1>1. M = 2 * H /\ H \in Nat \ {0} /\ M \in Nat \ {0}
  <2>1. b - 1 \in Nat /\ b = (b - 1) + 1
    OBVIOUS
  <2>2. 2 ^ ((b - 1) + 1) = 2 * 2 ^ (b - 1)
    BY <2>1, PowerNext
  <2> QED BY <2>1, <2>2, PowerType
<1>2. I64!Wrap(b, v) = ((v + H) % M) - H /\ w \in -H..(H - 1) /\ v = w + (M * q)
  BY DEF I64!Wrap, I64!Ints
<1> HIDE DEF M, H
<1>3. v + H = (M * q) + (w + H) /\ w + H \in 0..(M - 1) /\ v + H \in Int
  BY <1>1, <1>2
<1> DEFINE s == v + H  x == w + H
<1>4. s % M = x
  <2>1. s = (M * q) + x /\ x \in 0..(M - 1) /\ s \in Int
    BY <1>3
  <2>2. M \in Nat \ {0} /\ q \in Int
    BY <1>1
  <2> HIDE DEF s, x
  <2> QED BY ONLY <2>1, <2>2, FloorDivision
<1>5. (v + H) % M = w + H
  BY <1>4
<1>6. H \in Int /\ w \in Int
  BY <1>1, <1>2
<1> QED BY <1>2, <1>5, <1>6

\* The same for the width of an Int64, and its sizes.
Modulus == 2 ^ I64!W

LEMMA I64Sizes ==
    /\ IntBits \in Nat /\ IntBits >= 2 /\ I64!W = 2 * IntBits /\ I64!W \in Nat \ {0}
    /\ Modulus \in Nat \ {0} /\ 2 ^ (I64!W - 1) \in Nat \ {0}
    /\ Modulus = 2 * 2 ^ (I64!W - 1)
    /\ I64!MinInt = -2 ^ (I64!W - 1)
    /\ I64!Ints(I64!W) = I64!MinInt..(-I64!MinInt - 1)
<1>1. IntBits \in Nat /\ IntBits >= 2 /\ I64!W = 2 * IntBits
  BY DataAssumption DEF I64!W
<1>2. I64!W \in Nat \ {0} /\ I64!W - 1 \in Nat /\ I64!W = (I64!W - 1) + 1
  BY <1>1
<1>3. 2 ^ ((I64!W - 1) + 1) = 2 * 2 ^ (I64!W - 1)
  BY <1>2, PowerNext
<1>4. Modulus = 2 * 2 ^ (I64!W - 1)
  BY <1>2, <1>3 DEF Modulus
<1>5. Modulus \in Nat \ {0} /\ 2 ^ (I64!W - 1) \in Nat \ {0}
  BY <1>2, PowerType DEF Modulus
<1>6. I64!MinInt = -2 ^ (I64!W - 1)
  BY DEF I64!MinInt
<1> DEFINE H == 2 ^ (I64!W - 1)
<1>7. I64!Ints(I64!W) = I64!MinInt..(-I64!MinInt - 1)
  <2>1. H \in Nat /\ I64!MinInt = -H /\ I64!Ints(I64!W) = (-H)..(H - 1)
    BY <1>5, <1>6 DEF I64!Ints
  <2> HIDE DEF H
  <2> QED BY <2>1
<1> QED BY <1>1, <1>2, <1>4, <1>5, <1>6, <1>7

\* Two numbers that differ by a multiple of the modulus.
Congruent(u, v) == \E q \in Int : u = v + (Modulus * q)

LEMMA WrapWord ==
    ASSUME NEW v \in Int
    PROVE  I64!Wrap(I64!W, v) \in I64!Ints(I64!W) /\ Congruent(v, I64!Wrap(I64!W, v))
BY I64Sizes, WrapIs DEF Congruent, Modulus

LEMMA WordOnly ==
    ASSUME NEW v \in Int, NEW w \in I64!Ints(I64!W), Congruent(v, w)
    PROVE  I64!Wrap(I64!W, v) = w
<1>1. PICK q \in Int : v = w + (2 ^ I64!W * q)
  BY DEF Congruent, Modulus
<1> QED BY <1>1, I64Sizes, WrapOnly

LEMMA WordKept == ASSUME NEW v \in I64!Ints(I64!W) PROVE v \in Int /\ I64!Wrap(I64!W, v) = v
<1>1. v \in Int
  BY I64Sizes
<1>2. v = v + (Modulus * 0)
  BY <1>1, I64Sizes
<1>3. Congruent(v, v)
  BY <1>2 DEF Congruent
<1> QED BY <1>1, <1>3, WordOnly

LEMMA CongruentSum ==
    ASSUME NEW a \in Int, NEW b \in Int, NEW c \in Int, NEW d \in Int,
           Congruent(a, b), Congruent(c, d)
    PROVE  Congruent(a + c, b + d) /\ Congruent(b, a)
<1>1. PICK p \in Int : a = b + (Modulus * p)
  BY DEF Congruent
<1>2. PICK q \in Int : c = d + (Modulus * q)
  BY DEF Congruent
<1>3. Modulus \in Int
  BY I64Sizes
<1>4. a + c = (b + d) + (Modulus * (p + q)) /\ p + q \in Int
  BY <1>1, <1>2, <1>3
<1>5. b = a + (Modulus * (-p)) /\ -p \in Int
  BY <1>1, <1>3
<1> QED BY <1>4, <1>5 DEF Congruent

LEMMA CongruentProduct ==
    ASSUME NEW a \in Int, NEW b \in Int, NEW c \in Int, Congruent(a, b)
    PROVE  Congruent(a * c, b * c)
<1>1. PICK p \in Int : a = b + (Modulus * p)
  BY DEF Congruent
<1>3. Modulus \in Int
  BY I64Sizes
<1>4. a * c = (b * c) + (Modulus * (p * c)) /\ p * c \in Int
  BY <1>1, <1>3
<1> QED BY <1>4 DEF Congruent

LEMMA CongruentRemainder ==
    ASSUME NEW a \in Int, NEW b \in Int, Congruent(a, b)
    PROVE  (a - b) % Modulus = 0
<1>1. PICK p \in Int : a = b + (Modulus * p)
  BY DEF Congruent
<1> DEFINE s == a - b
<1>2. s = (Modulus * p) + 0 /\ s \in Int /\ 0 \in 0..(Modulus - 1) /\ Modulus \in Nat \ {0}
  BY <1>1, I64Sizes
<1> HIDE DEF s
<1>3. s % Modulus = 0
  BY <1>2, FloorDivision
<1> QED BY <1>3 DEF s

\* Division and remainder of C, by their absolute values k and m.
LEMMA CDivIs ==
    ASSUME NEW a \in Int, NEW b \in Int \ {0}
    PROVE  \E k, m \in Nat :
              /\ I64!Abs(a) = (I64!Abs(b) * k) + m /\ m < I64!Abs(b)
              /\ I64!CDiv(a, b) = (IF (a < 0) # (b < 0) THEN -k ELSE k)
              /\ I64!CMod(a, b) = (IF a < 0 THEN -m ELSE m)
<1> DEFINE A == I64!Abs(a)  B == I64!Abs(b)  k == A \div B  m == A % B
<1>1. /\ A \in Nat /\ B \in Nat \ {0}
      /\ a = (IF a < 0 THEN -A ELSE A) /\ b = (IF b < 0 THEN -B ELSE B)
  BY DEF I64!Abs
<1>2. I64!CDiv(a, b) = (IF (a < 0) # (b < 0) THEN -1 ELSE 1) * k
  BY DEF I64!CDiv
<1>3. I64!CMod(a, b) = a - (b * I64!CDiv(a, b))
  BY DEF I64!CMod
<1> HIDE DEF A, B
<1>4. k \in Nat /\ m \in Nat /\ m < B /\ A = (B * k) + m
  BY <1>1
<1> HIDE DEF k, m
<1>5. I64!CDiv(a, b) = IF (a < 0) # (b < 0) THEN -k ELSE k
  BY <1>2, <1>4
<1>6. I64!CMod(a, b) = IF a < 0 THEN -m ELSE m
  <2>1. CASE a < 0 /\ b < 0
    <3>1. I64!CDiv(a, b) = k /\ a = -A /\ b = -B
      BY <1>1, <1>5, <2>1
    <3>2. (-A) - ((-B) * k) = -m
      BY <1>1, <1>4
    <3> QED BY <1>3, <2>1, <3>1, <3>2
  <2>2. CASE a < 0 /\ ~(b < 0)
    <3>1. I64!CDiv(a, b) = -k /\ a = -A /\ b = B
      BY <1>1, <1>5, <2>2
    <3>2. (-A) - (B * (-k)) = -m
      BY <1>1, <1>4
    <3> QED BY <1>3, <2>2, <3>1, <3>2
  <2>3. CASE ~(a < 0) /\ b < 0
    <3>1. I64!CDiv(a, b) = -k /\ a = A /\ b = -B
      BY <1>1, <1>5, <2>3
    <3>2. A - ((-B) * (-k)) = m
      BY <1>1, <1>4
    <3> QED BY <1>3, <2>3, <3>1, <3>2
  <2>4. CASE ~(a < 0) /\ ~(b < 0)
    <3>1. I64!CDiv(a, b) = k /\ a = A /\ b = B
      BY <1>1, <1>5, <2>4
    <3>2. A - (B * k) = m
      BY <1>1, <1>4
    <3> QED BY <1>3, <2>4, <3>1, <3>2
  <2> QED BY <2>1, <2>2, <2>3, <2>4
<1> QED BY <1>4, <1>5, <1>6 DEF A, B

\* What idiv and mod compute where nothing overflows: floor division.
Floors(a, b, q, r) ==
    /\ q \in Int /\ r \in Int /\ a = (b * q) + r
    /\ I64!Abs(r) < I64!Abs(b) /\ (r = 0 \/ ((r < 0) = (b < 0)))

LEMMA QuotientRange ==
    ASSUME NEW A \in Nat, NEW B \in Nat \ {0, 1}, NEW k \in Nat, NEW m \in Nat,
           A = (B * k) + m
    PROVE  2 * k <= A /\ (m # 0 => k + 1 <= A)
<1>1. B * k >= 2 * k
  OBVIOUS
<1> DEFINE p == B * k
<1>2. p \in Nat /\ p >= 2 * k /\ A = p + m
  BY <1>1
<1> HIDE DEF p
<1> QED BY <1>2

LEMMA IdivFloors ==
    ASSUME NEW a \in Int, NEW b \in Int \ {0, -1}
    PROVE  /\ Floors(a, b, I64!int64___idiv(a, b), I64!int64___mod(a, b))
           /\ \/ I64!int64___idiv(a, b) = a
              \/ I64!Abs(a) # 0 /\ -I64!Abs(a) <= I64!int64___idiv(a, b)
                 /\ I64!int64___idiv(a, b) < I64!Abs(a)
<1> DEFINE A == I64!Abs(a)  B == I64!Abs(b)
           Q == I64!int64___idiv(a, b)  R == I64!int64___mod(a, b)
           C == I64!CDiv(a, b)  D == I64!CMod(a, b)
<1>1. /\ A \in Nat /\ B \in Nat \ {0}
      /\ a = (IF a < 0 THEN -A ELSE A) /\ b = (IF b < 0 THEN -B ELSE B)
  BY DEF I64!Abs
<1>2. PICK k, m \in Nat :
              /\ A = (B * k) + m /\ m < B
              /\ C = (IF (a < 0) # (b < 0) THEN -k ELSE k)
              /\ D = (IF a < 0 THEN -m ELSE m)
  BY CDivIs
<1>3. /\ Q = C - (IF (a < 0) # (b < 0) /\ D # 0 THEN 1 ELSE 0)
      /\ R = D + (IF D # 0 /\ (a < 0) # (b < 0) THEN b ELSE 0)
  BY DEF I64!int64___idiv, I64!int64___mod
<1> DEFINE AbsR == I64!Abs(R)
<1>4. AbsR = IF R < 0 THEN -R ELSE R
  BY DEF I64!Abs
<1> HIDE DEF A, B, Q, R, C, D, AbsR
<1>9. m = 0 => D = 0
  <2>1. -m = 0 - m
    BY <1>2
  <2>2. D \in {m, 0 - m} /\ m \in Int
    BY <1>2, <2>1
  <2> QED BY ONLY <2>2
<1>5. /\ Q \in Int /\ R \in Int /\ AbsR < B /\ (R = 0 \/ ((R < 0) = (b < 0)))
  BY <1>1, <1>2, <1>3, <1>4
<1>6. a = (b * Q) + R
  <2>1. CASE ((a < 0) # (b < 0)) /\ m # 0
    <3>1. Q = (-k) - 1
      BY <1>2, <1>3, <2>1
    <3>2. R = IF a < 0 THEN B - m ELSE m - B
      BY <1>1, <1>2, <1>3, <2>1
    <3>3. CASE a < 0
      <4>1. a = -A /\ b = B /\ R = B - m
        BY <1>1, <2>1, <3>2, <3>3
      <4>2. -((B * k) + m) = (B * ((-k) - 1)) + (B - m)
        BY <1>1, <1>2
      <4> QED BY <1>2, <3>1, <4>1, <4>2
    <3>4. CASE ~(a < 0)
      <4>1. a = A /\ b = -B /\ R = m - B
        BY <1>1, <2>1, <3>2, <3>4
      <4>2. (B * k) + m = ((-B) * ((-k) - 1)) + (m - B)
        BY <1>1, <1>2
      <4> QED BY <1>2, <3>1, <4>1, <4>2
    <3> QED BY <3>3, <3>4
  <2>2. CASE ((a < 0) # (b < 0)) /\ m = 0
    <3>1. Q = -k /\ R = 0
      <4>1. D = 0 /\ C = -k
        <5>2. D = 0
          BY <1>9, <2>2
        <5>3. C = -k
          BY <1>2, <2>2
        <5> QED BY <5>2, <5>3
      <4> QED BY <1>2, <1>3, <4>1
    <3>2. CASE a < 0
      <4>1. a = -A /\ b = B
        BY <1>1, <2>2, <3>2
      <4>2. -((B * k) + 0) = (B * (-k)) + 0
        BY <1>1, <1>2
      <4> QED BY <1>2, <2>2, <3>1, <4>1, <4>2
    <3>3. CASE ~(a < 0)
      <4>1. a = A /\ b = -B
        BY <1>1, <2>2, <3>3
      <4>2. (B * k) + 0 = ((-B) * (-k)) + 0
        BY <1>1, <1>2
      <4> QED BY <1>2, <2>2, <3>1, <4>1, <4>2
    <3> QED BY <3>2, <3>3
  <2>3. CASE ~((a < 0) # (b < 0))
    <3>1. Q = k /\ R = IF a < 0 THEN -m ELSE m
      BY <1>2, <1>3, <2>3
    <3>2. CASE a < 0
      <4>1. a = -A /\ b = -B
        BY <1>1, <2>3, <3>2
      <4>2. -((B * k) + m) = ((-B) * k) + (-m)
        BY <1>1, <1>2
      <4> QED BY <1>2, <3>1, <3>2, <4>1, <4>2
    <3>3. CASE ~(a < 0)
      <4>1. a = A /\ b = B
        BY <1>1, <2>3, <3>3
      <4> QED BY <1>2, <3>1, <3>3, <4>1
    <3> QED BY <3>2, <3>3
  <2> QED BY <2>1, <2>2, <2>3
<1>7. Q = a \/ (A # 0 /\ -A <= Q /\ Q < A)
  <2>1. CASE B = 1
    <3>1. b = 1 /\ m = 0 /\ A = k
      BY <1>1, <1>2, <2>1
    <3>2. D = 0 /\ C = IF a < 0 THEN -k ELSE k
      <4>2. D = 0
        BY <1>9, <3>1
      <4>3. (a < 0) # (b < 0) <=> a < 0
        BY <3>1
      <4>4. C = IF a < 0 THEN -k ELSE k
        BY <1>2, <4>3
      <4> QED BY <4>2, <4>4
    <3>3. Q = C
      BY <1>3, <1>2, <3>2
    <3> QED BY <1>1, <3>1, <3>2, <3>3
  <2>2. CASE B # 1
    <3>1. 2 * k <= A /\ (m # 0 => k + 1 <= A)
      BY <1>1, <1>2, <2>2, QuotientRange
    <3>2. A = 0 => k = 0 /\ m = 0 /\ Q = 0 /\ a = 0
      <4>1. A = 0 => k = 0
        BY <1>1, <3>1
      <4>2. A = 0 => m = 0
        BY <1>1, <1>2, <3>1
      <4> QED BY <1>1, <1>2, <1>3, <4>1, <4>2
    <3>3. CASE A # 0
      <4>1. -A <= Q /\ Q < A
        BY <1>1, <1>2, <1>3, <3>1, <3>3
      <4> QED BY <3>3, <4>1
    <3> QED BY <3>2, <3>3
  <2> QED BY <2>1, <2>2
<1>8. Floors(a, b, Q, R)
  BY <1>5, <1>6 DEF Floors, AbsR, B
<1> QED BY <1>7, <1>8 DEF A, Q, R

\* Arithmetic: the calls of two words.
ArithmeticOf(op, a, b, r) ==
    /\ op = "add" => r = I64!Wrap(I64!W, a + b)
    /\ op = "sub" => I64!int64___add(r, b) = a
    /\ op = "mul" => (r - a * b) % 2 ^ I64!W = 0
    /\ op \in {"idiv", "mod"} => (r = Fail <=> b = 0)
    /\ op = "idiv" /\ b # 0 => r = I64!Wrap(I64!W, IF b < 0 THEN (-a) \div (-b) ELSE a \div b)
    /\ op = "mod" /\ b # 0 =>
          /\ (a - r) % I64!Abs(b) = 0 /\ I64!Abs(r) < I64!Abs(b)
          /\ (r = 0 \/ (r < 0) = (b < 0))
          /\ I64!int64___add(I64!int64___mul(I64!int64___idiv(a, b), b), r) = a

LEMMA Add == ASSUME NEW a \in I64!Ints(I64!W), NEW b \in I64!Ints(I64!W)
             PROVE  ArithmeticOf("add", a, b, I64!int64___add(a, b))
BY DEF ArithmeticOf, I64!int64___add

LEMMA Subtract == ASSUME NEW a \in I64!Ints(I64!W), NEW b \in I64!Ints(I64!W)
                  PROVE  ArithmeticOf("sub", a, b, I64!int64___sub(a, b))
<1>1. a \in Int /\ b \in Int /\ a - b \in Int
  BY WordKept
<1> DEFINE r == I64!int64___sub(a, b)
<1>2. r \in Int /\ Congruent(a - b, r)
  BY <1>1, WrapWord, WordKept DEF I64!int64___sub
<1> HIDE DEF r
<1>3. Congruent(b, b)
  <2>1. b = b + (Modulus * 0)
    BY <1>1, I64Sizes
  <2> QED BY <2>1 DEF Congruent
<1>4. Congruent((a - b) + b, r + b)
  BY <1>1, <1>2, <1>3, CongruentSum
<1>5. (a - b) + b = a
  BY <1>1
<1>6. Congruent(a, r + b) /\ r + b \in Int
  BY <1>1, <1>2, <1>4, <1>5
<1>7. Congruent(r + b, a)
  BY <1>1, <1>6, CongruentSum
<1>8. I64!int64___add(r, b) = a
  BY <1>6, <1>7, WordOnly DEF I64!int64___add
<1> QED BY <1>8 DEF ArithmeticOf, r

LEMMA Multiply == ASSUME NEW a \in I64!Ints(I64!W), NEW b \in I64!Ints(I64!W)
                  PROVE  ArithmeticOf("mul", a, b, I64!int64___mul(a, b))
<1>1. a \in Int /\ b \in Int /\ a * b \in Int
  BY WordKept
<1> DEFINE r == I64!int64___mul(a, b)  p == a * b
<1>2. r \in Int /\ Congruent(p, r)
  BY <1>1, WrapWord, WordKept DEF I64!int64___mul
<1>3. p \in Int
  BY <1>1
<1> HIDE DEF r, p
<1>4. Congruent(r, p)
  BY <1>2, <1>3, CongruentSum
<1>5. (r - p) % Modulus = 0
  BY <1>2, <1>3, <1>4, CongruentRemainder
<1> QED BY <1>5 DEF ArithmeticOf, r, p, Modulus

LEMMA Negate == ASSUME NEW a \in I64!Ints(I64!W)
                PROVE  (I64!int64___unm(a) + a) % 2 ^ I64!W = 0
<1>1. a \in Int /\ -a \in Int
  BY WordKept
<1> DEFINE r == I64!int64___unm(a)
<1>2. r \in Int /\ Congruent(-a, r)
  BY <1>1, WrapWord, WordKept DEF I64!int64___unm
<1> HIDE DEF r
<1>3. Congruent(r, -a)
  BY <1>1, <1>2, CongruentSum
<1>4. (r - (-a)) % Modulus = 0
  BY <1>1, <1>2, <1>3, CongruentRemainder
<1>5. r - (-a) = r + a
  BY <1>1, <1>2
<1> QED BY <1>4, <1>5 DEF r, Modulus

LEMMA MultipleOf ==
    ASSUME NEW b \in Nat \ {0}, NEW q \in Int, NEW a \in Int, a = b * q
    PROVE  a % b = 0
<1>1. a = (b * q) + 0 /\ 0 \in 0..(b - 1)
  OBVIOUS
<1> QED BY <1>1, FloorDivision

\* The quotient and the remainder make up the dividend, modulo 2^W.
LEMMA MakesUp ==
    ASSUME NEW a \in I64!Ints(I64!W), NEW b \in Int, NEW q \in Int, NEW r \in Int,
           Congruent(a, (q * b) + r)
    PROVE  I64!int64___add(I64!int64___mul(q, b), r) = a
<1>1. a \in Int
  BY WordKept
<1> DEFINE p == q * b  m == I64!int64___mul(q, b)
<1>2. p \in Int /\ m \in Int /\ Congruent(p, m)
  <2>1. q * b \in Int
    OBVIOUS
  <2> QED BY <2>1, WrapWord, WordKept DEF I64!int64___mul
<1>3. Congruent(a, p + r)
  OBVIOUS
<1> HIDE DEF p, m
<1>4. Congruent(r, r)
  <2>1. r = r + (Modulus * 0)
    BY I64Sizes
  <2> QED BY <2>1 DEF Congruent
<1>5. Congruent(m, p)
  BY <1>2, CongruentSum
<1>6. Congruent(m + r, p + r)
  BY <1>2, <1>4, <1>5, CongruentSum
<1>7. p + r \in Int /\ m + r \in Int
  BY <1>2
<1>8. Congruent(p + r, a)
  BY <1>1, <1>3, <1>7, CongruentSum
<1>9. Congruent(m + r, a)
  <2>1. PICK i \in Int : m + r = (p + r) + (Modulus * i)
    BY <1>6 DEF Congruent
  <2>2. PICK j \in Int : p + r = a + (Modulus * j)
    BY <1>8 DEF Congruent
  <2>3. m + r = a + (Modulus * (i + j)) /\ i + j \in Int
    BY <1>1, <1>7, <2>1, <2>2, I64Sizes
  <2> QED BY <2>3 DEF Congruent
<1> QED BY <1>7, <1>9, WordOnly DEF I64!int64___add, m

LEMMA FloorsDivide ==
    ASSUME NEW a \in Int, NEW b \in Int \ {0}, NEW q, NEW r, Floors(a, b, q, r)
    PROVE  /\ q = IF b < 0 THEN (-a) \div (-b) ELSE a \div b
           /\ (a - r) % I64!Abs(b) = 0
<1>1. q \in Int /\ r \in Int /\ a = (b * q) + r
  BY DEF Floors
<1>2. CASE b < 0
  <2>1. -b \in Nat \ {0} /\ -r \in 0..((-b) - 1) /\ I64!Abs(b) = -b /\ -a \in Int
    BY <1>1, <1>2 DEF Floors, I64!Abs
  <2>2. -a = ((-b) * q) + (-r)
    BY <1>1
  <2> DEFINE B == -b  R == -r  A == -a  c == a - r  d == -q
  <2>3. B \in Nat \ {0} /\ R \in 0..(B - 1) /\ A \in Int /\ A = (B * q) + R
    BY <2>1, <2>2
  <2>4. c \in Int /\ d \in Int /\ c = B * d
    BY <1>1
  <2> HIDE DEF A, B, R, c, d
  <2>5. A \div B = q
    BY <1>1, <2>3, FloorDivision
  <2>6. c % B = 0
    BY <2>3, <2>4, MultipleOf
  <2> QED BY <1>2, <2>1, <2>5, <2>6 DEF A, B, c
<1>3. CASE b > 0
  <2>1. b \in Nat \ {0} /\ r \in 0..(b - 1) /\ I64!Abs(b) = b
    BY <1>1, <1>3 DEF Floors, I64!Abs
  <2>2. a \div b = q
    BY <1>1, <2>1, FloorDivision
  <2> DEFINE c == a - r
  <2>3. c \in Int /\ c = b * q
    BY <1>1, <1>3
  <2> HIDE DEF c
  <2>4. c % b = 0
    BY <1>1, <2>1, <2>3, MultipleOf
  <2> QED BY <1>3, <2>1, <2>2, <2>4 DEF c
<1> QED BY <1>2, <1>3

LEMMA Divide ==
    ASSUME NEW a \in I64!Ints(I64!W), NEW b \in I64!Ints(I64!W)
    PROVE  /\ ArithmeticOf("idiv", a, b, I64!int64___idiv(a, b))
           /\ ArithmeticOf("mod", a, b, I64!int64___mod(a, b))
<1> DEFINE q == I64!int64___idiv(a, b)  r == I64!int64___mod(a, b)
           floor == IF b < 0 THEN (-a) \div (-b) ELSE a \div b
<1>1. a \in Int /\ b \in Int /\ -a \in Int /\ Fail \notin Int
  BY WordKept, DataAssumption
<1>2. CASE b = 0
  BY <1>2 DEF ArithmeticOf, I64!int64___idiv, I64!int64___mod
<1>3. CASE b # 0
  <2>1. /\ q \in Int /\ r \in Int /\ q = I64!Wrap(I64!W, floor)
        /\ (a - r) % I64!Abs(b) = 0 /\ I64!Abs(r) < I64!Abs(b)
        /\ r = 0 \/ ((r < 0) = (b < 0))
        /\ Congruent(a, (q * b) + r)
    <3>1. CASE b = -1
      <4>1. q = I64!Wrap(I64!W, -a) /\ r = 0
        BY <3>1 DEF I64!int64___idiv, I64!int64___mod
      <4>2. q \in Int /\ Congruent(-a, q)
        BY <1>1, <4>1, WrapWord, WordKept
      <4>3. floor = -a /\ I64!Abs(b) = 1 /\ I64!Abs(0) = 0 /\ (a - 0) % 1 = 0
        <5>1. (-a) \div 1 = -a /\ a % 1 = 0
          BY <1>1
        <5>2. b < 0 /\ -b = 1 /\ a - 0 = a
          <6>1. -b = 0 - b
            BY <1>1
          <6> QED BY <1>1, <3>1, <6>1
        <5>3. I64!Abs(b) = 1 /\ I64!Abs(0) = 0
          <6>1. I64!Abs(b) = -b
            BY <5>2 DEF I64!Abs
          <6>2. I64!Abs(0) = 0
            BY DEF I64!Abs
          <6> QED BY <5>2, <6>1, <6>2
        <5> QED BY <5>1, <5>2, <5>3
      <4>4. Congruent(a, (q * b) + r)
        <5>1. PICK i \in Int : -a = q + (Modulus * i)
          BY <4>2 DEF Congruent
        <5>2. a = ((q * (-1)) + 0) + (Modulus * (-i)) /\ -i \in Int
          BY <1>1, <4>2, <5>1, I64Sizes
        <5> QED BY <3>1, <4>1, <5>2 DEF Congruent
      <4> HIDE DEF q, r, floor
      <4> QED BY <4>1, <4>2, <4>3, <4>4
    <3>2. CASE b # -1
      <4>1. /\ Floors(a, b, q, r)
            /\ \/ q = a
               \/ I64!Abs(a) # 0 /\ -I64!Abs(a) <= q /\ q < I64!Abs(a)
        BY <1>1, <1>3, <3>2, IdivFloors
      <4>2. floor = q /\ (a - r) % I64!Abs(b) = 0
        BY <1>1, <1>3, <4>1, FloorsDivide
      <4>3. q \in I64!Ints(I64!W)
        <5> HIDE DEF q
        <5>1. I64!Abs(a) = IF a < 0 THEN -a ELSE a
          BY DEF I64!Abs
        <5>2. q \in Int
          BY <4>1 DEF Floors
        <5> QED BY <1>1, <4>1, <5>1, <5>2, I64Sizes
      <4>4. q = I64!Wrap(I64!W, floor)
        BY <4>2, <4>3, WordKept
      <4>5. Congruent(a, (q * b) + r)
        <5> HIDE DEF q, r
        <5>1. q \in Int /\ r \in Int /\ a = (b * q) + r
          BY <4>1 DEF Floors
        <5>2. a = ((q * b) + r) + (Modulus * 0)
          BY <1>1, <5>1, I64Sizes
        <5> QED BY <5>2 DEF Congruent
      <4> HIDE DEF q, r, floor
      <4> QED BY <4>1, <4>2, <4>4, <4>5 DEF Floors
    <3> QED BY <3>1, <3>2
  <2>2. I64!int64___add(I64!int64___mul(q, b), r) = a
    BY <1>1, <2>1, MakesUp
  <2>3. q # Fail /\ r # Fail
    BY <1>1, <2>1
  <2> HIDE DEF q, r
  <2>4. ArithmeticOf("idiv", a, b, q)
    BY <1>3, <2>1, <2>3 DEF ArithmeticOf
  <2>5. ArithmeticOf("mod", a, b, r)
    BY <1>3, <2>1, <2>2, <2>3 DEF ArithmeticOf, q
  <2> QED BY <2>4, <2>5 DEF q, r
<1> QED BY <1>2, <1>3

LEMMA WrapSame ==
    ASSUME NEW u \in Int, NEW v \in Int, Congruent(u, v)
    PROVE  I64!Wrap(I64!W, u) = I64!Wrap(I64!W, v)
<1> DEFINE w == I64!Wrap(I64!W, v)
<1>1. w \in I64!Ints(I64!W) /\ Congruent(v, w) /\ w \in Int
  BY WrapWord, WordKept
<1> HIDE DEF w
<1>2. PICK i \in Int : u = v + (Modulus * i)
  BY DEF Congruent
<1>3. PICK j \in Int : v = w + (Modulus * j)
  BY <1>1 DEF Congruent
<1>4. u = w + (Modulus * (i + j)) /\ i + j \in Int
  BY <1>1, <1>2, <1>3, I64Sizes
<1>5. Congruent(u, w)
  BY <1>4 DEF Congruent
<1>6. I64!Wrap(I64!W, u) = w
  BY <1>1, <1>5, WordOnly
<1> QED BY <1>6 DEF w

\* The value that is shifted, with its sign or without.
Shifted(a, arith) == IF arith THEN a ELSE I64!Unsigned(a)

LEMMA ShiftedIs ==
    ASSUME NEW a \in I64!Ints(I64!W), NEW arith \in BOOLEAN
    PROVE  /\ Shifted(a, arith) \in Int /\ Congruent(Shifted(a, arith), a)
           /\ -Modulus <= Shifted(a, arith) /\ Shifted(a, arith) < Modulus
           /\ Shifted(a, arith) < 0 <=> arith /\ a < 0
<1>1. a \in Int /\ Modulus \in Nat \ {0} /\ -Modulus <= a /\ a < Modulus
  BY WordKept, I64Sizes
<1>2. CASE arith
  <2>1. a = a + (Modulus * 0)
    BY <1>1
  <2>2. Congruent(a, a)
    BY <2>1 DEF Congruent
  <2> QED BY <1>1, <1>2, <2>2 DEF Shifted
<1>3. CASE ~arith
  <2> DEFINE u == a % Modulus  q == a \div Modulus
  <2>1. q \in Int /\ u \in 0..(Modulus - 1) /\ a = (Modulus * q) + u
    BY <1>1, DivisionIs
  <2>2. Shifted(a, arith) = u
    BY <1>3 DEF Shifted, I64!Unsigned, Modulus
  <2> HIDE DEF u, q
  <2> DEFINE d == -q
  <2>3. u = a + (Modulus * d) /\ d \in Int
    BY <1>1, <2>1
  <2> HIDE DEF d
  <2>4. Congruent(u, a)
    BY <2>3 DEF Congruent
  <2>5. u \in Int /\ -Modulus <= u /\ u < Modulus /\ ~(u < 0)
    BY <1>1, <2>1
  <2> QED BY <1>3, <2>2, <2>4, <2>5
<1> QED BY <1>2, <1>3

Scaled(v, b) ==
    LET Power == 2 ^ I64!Min({I64!Abs(b), I64!W})
    IN IF b < 0 THEN v * Power ELSE v \div Power

LEMMA ShiftScales ==
    ASSUME NEW a \in I64!Ints(I64!W), NEW b \in I64!Ints(I64!W), NEW arith \in BOOLEAN
    PROVE  I64!shift_left(a, -b, arith) = I64!Wrap(I64!W, Scaled(Shifted(a, arith), b))
<1> DEFINE v == Shifted(a, arith)  W == I64!W  by == -b  B == I64!Abs(b)  least == I64!Min({B, W})
<1>1. /\ a \in Int /\ b \in Int /\ Modulus \in Nat \ {0} /\ W \in Nat \ {0}
      /\ B \in Nat /\ B = IF b < 0 THEN -b ELSE b
  BY WordKept, I64Sizes DEF I64!Abs
<1>2. /\ v \in Int /\ Congruent(v, a) /\ -Modulus <= v /\ v < Modulus
      /\ v < 0 <=> arith /\ a < 0
  BY ShiftedIs
<1>3. least = IF B <= W THEN B ELSE W
  <2> HIDE DEF B, W
  <2>1. \E x \in {B, W} : \A y \in {B, W} : x <= y
    BY <1>1
  <2> QED BY <1>1, <2>1 DEF I64!Min
<1>4. Scaled(v, b) = IF b < 0 THEN v * 2 ^ least ELSE v \div 2 ^ least
  BY DEF Scaled
<1>5. by \in Int /\ (by >= 0 <=> b <= 0) /\ -by = b /\ by = 0 - b
  BY <1>1
<1>6. I64!shift_left(a, by, arith) =
        IF by >= W THEN 0
        ELSE IF by >= 0 THEN I64!Wrap(W, a * 2 ^ by)
        ELSE IF -by >= W THEN (IF arith /\ a < 0 THEN -1 ELSE 0)
        ELSE I64!Wrap(W, v \div 2 ^ (-by))
  BY DEF I64!shift_left, Shifted
<1> DEFINE res == I64!shift_left(a, by, arith)
<1> HIDE DEF v, B, least, by, res
<1>7. I64!Wrap(W, 0) = 0 /\ I64!Wrap(W, -1) = -1
  <2>1. 0 \in I64!Ints(W) /\ -1 \in I64!Ints(W)
    BY I64Sizes
  <2> QED BY <2>1, WordKept
<1>8. CASE b < 0 /\ B >= W
  <2>1. res = 0
    BY <1>1, <1>5, <1>6, <1>8 DEF res
  <2>2. least = W /\ Scaled(v, b) = v * Modulus
    BY <1>1, <1>3, <1>4, <1>8 DEF Modulus
  <2>3. v * Modulus \in Int /\ Congruent(v * Modulus, 0)
    <3> DEFINE u == v * Modulus
    <3>1. u = 0 + (Modulus * v) /\ u \in Int /\ v \in Int
      BY <1>1, <1>2
    <3> HIDE DEF u
    <3>2. Congruent(u, 0)
      BY <3>1 DEF Congruent
    <3> QED BY <3>1, <3>2 DEF u
  <2>4. I64!Wrap(W, v * Modulus) = 0
    BY <1>7, <2>3, WrapSame
  <2> QED BY <2>1, <2>2, <2>4 DEF res, v, by
<1>9. CASE b <= 0 /\ B < W
  <2>1. by = B /\ least = B
    BY <1>1, <1>3, <1>5, <1>9
  <2> DEFINE p == 2 ^ B
  <2>2. p \in Nat /\ (b = 0 => p = 1)
    <3>1. 2 ^ B \in Nat
      BY <1>1, PowerType
    <3>2. b = 0 => B = 0
      BY <1>1
    <3>3. B = 0 => 2 ^ B = 1
      BY ONLY PowerZero, Zenon
    <3> QED BY <3>1, <3>2, <3>3
  <2>3. res = I64!Wrap(W, a * p)
    BY <1>1, <1>5, <1>6, <1>9, <2>1 DEF res
  <2>4. Scaled(v, b) = v * p
    <3>1. CASE b < 0
      BY <1>4, <2>1, <3>1
    <3>2. CASE b = 0
      <4>1. Scaled(v, b) = v \div p
        BY <1>4, <2>1, <3>2
      <4>2. v \div 1 = v /\ v * 1 = v
        BY <1>2
      <4> QED BY <2>2, <3>2, <4>1, <4>2
    <3> QED BY <1>1, <1>9, <3>1, <3>2
  <2> HIDE DEF p
  <2>5. Congruent(v * p, a * p)
    <3>1. v \in Int /\ a \in Int /\ p \in Int /\ Congruent(v, a)
      BY <1>1, <1>2, <2>2
    <3> QED BY ONLY <3>1, CongruentProduct
  <2>6. I64!Wrap(W, v * p) = I64!Wrap(W, a * p)
    <3>1. v * p \in Int /\ a * p \in Int
      BY <1>1, <1>2, <2>2
    <3> QED BY <2>5, <3>1, WrapSame
  <2> QED BY <2>3, <2>4, <2>6 DEF res, v, by
<1>10. CASE b > 0 /\ B >= W
  <2>1. res = IF arith /\ a < 0 THEN -1 ELSE 0
    BY <1>1, <1>5, <1>6, <1>10 DEF res
  <2>2. least = W /\ Scaled(v, b) = v \div Modulus
    BY <1>1, <1>3, <1>4, <1>10 DEF Modulus
  <2>3. v \div Modulus = IF v < 0 THEN -1 ELSE 0
    <3>1. CASE v < 0
      <4> DEFINE q == -1  r == v + Modulus
      <4>1. q \in Int /\ r \in 0..(Modulus - 1) /\ v = (Modulus * q) + r
        BY <1>1, <1>2, <3>1
      <4> HIDE DEF q, r
      <4>2. v \div Modulus = q
        BY <1>1, <1>2, <4>1, FloorDivision
      <4> QED BY <3>1, <4>2 DEF q
    <3>2. CASE ~(v < 0)
      <4> DEFINE q == 0
      <4>1. q \in Int /\ v \in 0..(Modulus - 1) /\ v = (Modulus * q) + v
        BY <1>1, <1>2, <3>2
      <4> HIDE DEF q
      <4>2. v \div Modulus = q
        BY <1>1, <1>2, <4>1, FloorDivision
      <4> QED BY <3>2, <4>2 DEF q
    <3> QED BY <3>1, <3>2
  <2> QED BY <1>2, <1>7, <2>1, <2>2, <2>3 DEF res, v, by
<1>11. CASE b > 0 /\ B < W
  <2>1. least = b /\ Scaled(v, b) = v \div 2 ^ b
    BY <1>1, <1>3, <1>4, <1>11
  <2>2. res = I64!Wrap(W, v \div 2 ^ b)
    BY <1>1, <1>5, <1>6, <1>11 DEF res
  <2> QED BY <2>1, <2>2 DEF res, v, by
<1> QED BY <1>1, <1>8, <1>9, <1>10, <1>11

\* The widths that the conversions go between.
LEMMA I64Widths ==
    /\ 2 ^ IntBits \in Nat \ {0} /\ 2 ^ (IntBits - 1) \in Nat \ {0}
    /\ 2 ^ IntBits = 2 * 2 ^ (IntBits - 1)
    /\ 2 ^ (I64!W - 1) = 2 ^ IntBits * 2 ^ (IntBits - 1)
    /\ I64!Ints(IntBits) = (-(2 ^ (IntBits - 1)))..(2 ^ (IntBits - 1) - 1)
    /\ I64!Ints(IntBits) \subseteq Int
<1>1. IntBits \in Nat /\ IntBits - 1 \in Nat /\ IntBits = (IntBits - 1) + 1
      /\ I64!W - 1 = IntBits + (IntBits - 1)
  BY I64Sizes
<1>2. 2 ^ ((IntBits - 1) + 1) = 2 * 2 ^ (IntBits - 1)
  BY <1>1, PowerNext
<1>3. 2 ^ (IntBits + (IntBits - 1)) = 2 ^ IntBits * 2 ^ (IntBits - 1)
  BY <1>1, PowerSum
<1>4. 2 ^ IntBits \in Nat \ {0} /\ 2 ^ (IntBits - 1) \in Nat \ {0}
  BY <1>1, PowerType
<1>5. I64!Ints(IntBits) = (-(2 ^ (IntBits - 1)))..(2 ^ (IntBits - 1) - 1)
  BY DEF I64!Ints
<1>6. I64!Ints(IntBits) \subseteq Int
  <2> DEFINE H == 2 ^ (IntBits - 1)
  <2>1. H \in Nat /\ I64!Ints(IntBits) = (-H)..(H - 1)
    BY <1>4, <1>5
  <2> HIDE DEF H
  <2> QED BY <2>1
<1>7. 2 ^ IntBits = 2 * 2 ^ (IntBits - 1)
  BY <1>1, <1>2
<1>8. 2 ^ (I64!W - 1) = 2 ^ IntBits * 2 ^ (IntBits - 1)
  BY <1>1, <1>3
<1> QED BY <1>4, <1>5, <1>6, <1>7, <1>8

\* An Int64 becomes a lua_Integer if it is one.
LEMMA ToIntegerKeeps ==
    ASSUME NEW a \in I64!Ints(I64!W)
    PROVE  I64!int64_tointeger(a) = IF a \in I64!Ints(IntBits) THEN a ELSE Fail
<1>1. a \in Int /\ IntBits \in Nat \ {0}
  BY WordKept, I64Sizes
<1>2. ASSUME a \in I64!Ints(IntBits) PROVE I64!Wrap(IntBits, a) = a
  <2>1. a = a + (2 ^ IntBits * 0)
    BY <1>1, I64Widths
  <2> QED BY <1>1, <1>2, <2>1, WrapOnly
<1>3. I64!Wrap(IntBits, a) \in I64!Ints(IntBits)
  BY <1>1, WrapIs
<1> QED BY <1>2, <1>3 DEF I64!int64_tointeger

\* The two halves of an Int64 make up one with these halves.
LEMMA HalvesKept ==
    ASSUME NEW a \in I64!Ints(IntBits), NEW b \in I64!Ints(IntBits),
           NEW v, v = I64!int64___new(<<a, b>>).v
    PROVE  v \in I64!Ints(I64!W) /\ v % 2 ^ IntBits = a % 2 ^ IntBits /\ v \div 2 ^ IntBits = b
<1> DEFINE P == 2 ^ IntBits  H == 2 ^ (IntBits - 1)  lo == a % P  u == lo + (b * P)
           Top == 2 ^ (I64!W - 1)
<1>1. /\ P \in Nat \ {0} /\ H \in Nat \ {0} /\ P = 2 * H /\ a \in Int /\ b \in Int
      /\ -H <= b /\ b <= H - 1 /\ Top = P * H
  <2>1. /\ P \in Nat \ {0} /\ H \in Nat \ {0} /\ P = 2 * H /\ Top = P * H
        /\ a \in Int /\ b \in Int /\ b \in (-H)..(H - 1)
    BY I64Widths
  <2> HIDE DEF P, H
  <2> QED BY <2>1
<1>2. v = I64!Wrap(I64!W, u)
  BY DEF I64!int64___new, I64!push_int64, I64!Val
<1>3. I64!Ints(I64!W) = (-Top)..(Top - 1)
  BY DEF I64!Ints
<1> HIDE DEF P, H, Top
<1>4. lo \in 0..(P - 1)
  BY <1>1, DivisionIs
<1> HIDE DEF lo
<1>5. (-H) * P <= b * P /\ b * P <= (H - 1) * P /\ b * P \in Int
  <2>1. b + H \in Nat /\ (H - 1) - b \in Nat
    BY <1>1
  <2> DEFINE i == b + H  j == (H - 1) - b
  <2>2. i * P >= 0 /\ j * P >= 0
    <3>1. i \in Nat /\ j \in Nat /\ P \in Nat
      BY <1>1, <2>1
    <3> HIDE DEF i, j
    <3> QED BY ONLY <3>1
  <2>3. i * P = (b * P) + (H * P) /\ j * P = ((H - 1) * P) - (b * P) /\ (-H) * P = -(H * P)
    BY <1>1
  <2> HIDE DEF i, j
  <2>4. b * P \in Int /\ H * P \in Int /\ (H - 1) * P \in Int /\ i * P \in Int /\ j * P \in Int
    <3>1. i \in Int /\ j \in Int
      BY <2>1 DEF i, j
    <3> QED BY <1>1, <3>1
  <2> QED BY <2>2, <2>3, <2>4
<1>6. (-H) * P = -Top /\ (H - 1) * P = Top - P /\ Top \in Int
  BY <1>1
<1>7. u \in (-Top)..(Top - 1) /\ u \in Int
  BY <1>1, <1>4, <1>5, <1>6
<1>8. v = u
  BY <1>2, <1>3, <1>7, WordKept
<1>9. u = (P * b) + lo
  BY <1>1, <1>4
<1> HIDE DEF u
<1>10. u \div P = b /\ u % P = lo
  <2>1. P \in Nat \ {0} /\ b \in Int /\ lo \in 0..(P - 1) /\ u \in Int /\ u = (P * b) + lo
    BY <1>1, <1>4, <1>7, <1>9
  <2> QED BY ONLY <2>1, FloorDivision
<1> QED BY <1>3, <1>7, <1>8, <1>10 DEF P, lo

\* A number is an integer of halves.
LEMMA FloatIs ==
    ASSUME NEW h \in I64!Floats
    PROVE  /\ h \in Int
           /\ \E m \in 0..(2 ^ Mantissa - 1), i \in 0..(I64!W - 2) :
                 h = m * 2 ^ i \/ h = -(m * 2 ^ i)
<1>1. PICK m \in 0..(2 ^ Mantissa - 1), i \in 0..(I64!W - 2) :
        h = m * 2 ^ i \/ h = -(m * 2 ^ i)
  BY DEF I64!Floats
<1>2. i \in Nat /\ m \in Int
  BY <1>1, I64Sizes
<1> DEFINE p == 2 ^ i
<1>3. p \in Int /\ (h = m * p \/ h = -(m * p))
  BY <1>1, <1>2, PowerType
<1> HIDE DEF p
<1>4. h \in Int
  BY <1>2, <1>3
<1> QED BY <1>1, <1>4

\* A number with a half is in the range where every half is a number.
LEMMA HalfIsSmall ==
    ASSUME NEW h \in I64!Floats, I64!l_floor(h) # h
    PROVE  -(2 ^ Mantissa) < h /\ h < 2 ^ Mantissa
<1>1. PICK m \in 0..(2 ^ Mantissa - 1), i \in 0..(I64!W - 2) :
        h = m * 2 ^ i \/ h = -(m * 2 ^ i)
  BY FloatIs
<1>2. i \in Nat /\ m \in Int /\ h \in Int /\ 0 <= m /\ m <= 2 ^ Mantissa - 1
  BY <1>1, I64Sizes, FloatIs
<1>3. 2 ^ Mantissa \in Nat
  BY DataAssumption, PowerType
<1>4. CASE i = 0
  <2>1. i = 0 => 2 ^ i = 1
    BY ONLY PowerZero, Zenon
  <2>2. h = m \/ h = -m
    BY <1>1, <1>2, <1>4, <2>1
  <2> QED BY <1>2, <1>3, <2>2
<1>5. CASE i # 0
  <2>1. i - 1 \in Nat /\ i = (i - 1) + 1
    BY <1>2, <1>5
  <2>2. 2 ^ ((i - 1) + 1) = 2 * 2 ^ (i - 1)
    BY <2>1, PowerNext
  <2> DEFINE p == 2 ^ (i - 1)  x == m * p
  <2>3. p \in Int /\ 2 ^ i = 2 * p
    BY <2>1, <2>2, PowerType
  <2> HIDE DEF p
  <2>4. x \in Int /\ m * (2 * p) = 2 * x
    BY <1>2, <2>3
  <2> HIDE DEF x
  <2>5. h = 2 * x \/ h = -(2 * x)
    BY <1>1, <2>3, <2>4
  <2>6. 2 * (h \div 2) = h
    BY <2>4, <2>5
  <2> QED BY <2>6 DEF I64!l_floor
<1> QED BY <1>4, <1>5

\* The sizes of the mantissa and of the range of the numbers that have one.
LEMMA MantissaSizes ==
    /\ 2 ^ Mantissa \in Nat \ {0} /\ 2 ^ (Mantissa + 1) = 2 * 2 ^ Mantissa
    /\ 2 * 2 ^ Mantissa <= 2 ^ (I64!W - 1)
    /\ 2 ^ Mantissa = 2 * 2 ^ (Mantissa - 1) /\ 2 ^ (Mantissa - 1) \in Nat \ {0}
<1>1. Mantissa \in Nat \ {0} /\ Mantissa + 1 \in Nat /\ Mantissa + 1 <= I64!W - 1 /\ I64!W - 1 \in Nat
      /\ Mantissa - 1 \in Nat /\ Mantissa = (Mantissa - 1) + 1
  BY DataAssumption, I64Sizes
<1>2. 2 ^ (Mantissa + 1) = 2 * 2 ^ Mantissa
  BY <1>1, PowerNext
<1>3. 2 ^ (Mantissa + 1) <= 2 ^ (I64!W - 1)
  BY <1>1, PowerMonotone
<1>4. 2 ^ Mantissa \in Nat \ {0} /\ 2 ^ (Mantissa - 1) \in Nat \ {0}
  BY <1>1, PowerType
<1>5. 2 ^ ((Mantissa - 1) + 1) = 2 * 2 ^ (Mantissa - 1)
  BY <1>1, PowerNext
<1>6. 2 ^ Mantissa = 2 * 2 ^ (Mantissa - 1)
  BY <1>1, <1>5
<1>7. 2 * 2 ^ Mantissa <= 2 ^ (I64!W - 1)
  BY <1>2, <1>3
<1> QED BY <1>2, <1>4, <1>6, <1>7

\* The integers that a number has room for, as int64_fits_number() finds them.
LEMMA FitsIs ==
    ASSUME NEW a \in I64!Ints(I64!W)
    PROVE  I64!int64_fits_number(a) <=> -(2 ^ Mantissa) <= a /\ a <= 2 ^ Mantissa
<1> DEFINE m == 2 ^ Mantissa  H == 2 ^ (I64!W - 1)  s == m + a  u == s % Modulus
<1>1. /\ m \in Nat \ {0} /\ H \in Nat \ {0} /\ Modulus \in Nat \ {0} /\ Modulus = 2 * H
      /\ 2 * m <= H /\ a \in Int /\ -H <= a /\ a <= H - 1
  <2>1. I64!MinInt = -H
    BY I64Sizes
  <2>2. /\ m \in Nat \ {0} /\ H \in Nat \ {0} /\ Modulus \in Nat \ {0} /\ Modulus = 2 * H
        /\ 2 * m <= H /\ a \in I64!MinInt..(-I64!MinInt - 1)
    BY I64Sizes, MantissaSizes
  <2> HIDE DEF m, H
  <2> QED BY <2>1, <2>2
<1>2. I64!int64_fits_number(a) <=> u <= 2 * m
  BY DEF I64!int64_fits_number, I64!Unsigned, Modulus
<1> HIDE DEF m, H
<1>3. s \in Int /\ s = m + a
  BY <1>1
<1> HIDE DEF s
<1>4. CASE s >= 0
  <2> DEFINE q == 0
  <2>1. Modulus \in Nat \ {0} /\ q \in Int /\ s \in 0..(Modulus - 1) /\ s = (Modulus * q) + s
    BY <1>1, <1>3, <1>4
  <2> HIDE DEF q
  <2>2. s % Modulus = s
    BY ONLY <2>1, FloorDivision
  <2> QED BY <1>1, <1>2, <1>3, <1>4, <2>2 DEF m
<1>5. CASE s < 0
  <2> DEFINE q == -1  r == s + Modulus
  <2>1. Modulus \in Nat \ {0} /\ q \in Int /\ r \in 0..(Modulus - 1) /\ s = (Modulus * q) + r /\ s \in Int
    BY <1>1, <1>3, <1>5
  <2>2. r = s + Modulus
    OBVIOUS
  <2> HIDE DEF q, r
  <2>3. s % Modulus = r
    BY ONLY <2>1, FloorDivision
  <2> QED BY <1>1, <1>2, <1>3, <1>5, <2>2, <2>3 DEF m
<1> QED BY <1>3, <1>4, <1>5

\* Such an integer is a number.
LEMMA FittingIsFloat ==
    ASSUME NEW a \in I64!Ints(I64!W), I64!int64_fits_number(a)
    PROVE  2 * a \in I64!Floats
<1> DEFINE m == 2 ^ Mantissa  Pos == {k * 2 ^ i : k \in 0..(m - 1), i \in 0..(I64!W - 2)}
           x == I64!Abs(a)
<1>1. a \in Int /\ x \in Nat /\ (a = x \/ a = -x) /\ x <= m /\ m \in Nat \ {0}
  <2>1. a \in Int /\ -m <= a /\ a <= m /\ m \in Nat \ {0}
    BY WordKept, FitsIs, MantissaSizes
  <2> HIDE DEF m
  <2> QED BY <2>1 DEF I64!Abs
<1>2. I64!Floats = Pos \cup {-h : h \in Pos}
  BY DEF I64!Floats
<1>3. 1 \in 0..(I64!W - 2) /\ 2 \in 0..(I64!W - 2) /\ 2 ^ 1 = 2 /\ 2 ^ 2 = 4
  <2>1. I64!W >= 4 /\ I64!W \in Nat
    BY I64Sizes
  <2>2. 2 ^ (0 + 1) = 2 * 2 ^ 0 /\ 2 ^ (1 + 1) = 2 * 2 ^ 1
    BY PowerNext
  <2>3. 2 ^ 1 = 2
    BY <2>2, PowerZero
  <2>4. 2 ^ 2 = 4
    BY <2>2, <2>3
  <2> QED BY <2>1, <2>3, <2>4
<1>4. \A k \in 0..(m - 1) : \A i \in 0..(I64!W - 2) : k * 2 ^ i \in Pos
  OBVIOUS
<1> HIDE DEF m, Pos, x
<1>5. 2 * x \in Pos
  <2>1. CASE x < m
    <3>1. x \in 0..(m - 1)
      BY <1>1, <2>1
    <3>2. x * 2 ^ 1 \in Pos
      BY <1>3, <1>4, <3>1
    <3>3. x * 2 ^ 1 = 2 * x
      BY <1>1, <1>3
    <3> QED BY <3>2, <3>3
  <2>2. CASE x = m
    <3> DEFINE k == 2 ^ (Mantissa - 1)
    <3>1. k \in Nat \ {0} /\ m = 2 * k
      BY MantissaSizes DEF m
    <3> HIDE DEF k
    <3>2. k \in 0..(m - 1)
      BY <1>1, <3>1
    <3>3. k * 2 ^ 2 \in Pos
      BY <1>3, <1>4, <3>2
    <3>4. k * 2 ^ 2 = 2 * x
      BY <1>1, <1>3, <2>2, <3>1
    <3> QED BY <3>3, <3>4
  <2> QED BY <1>1, <2>1, <2>2
<1>6. 2 * a = 2 * x \/ 2 * a = -(2 * x)
  BY <1>1
<1> QED BY <1>2, <1>5, <1>6

LEMMA ToNumberKeeps ==
    ASSUME NEW a \in I64!Ints(I64!W), I64!int64_fits_number(a)
    PROVE  I64!int64_tonumber(a) = 2 * a
<1> DEFINE d == 2 * a
           h == {f \in I64!Floats : \A e \in I64!Floats : I64!Abs(d - f) <= I64!Abs(d - e)}
<1>1. d \in I64!Floats /\ d \in Int
  BY FittingIsFloat, FloatIs
<1>2. I64!int64_tonumber(a) = I64!Max(h)
  BY DEF I64!int64_tonumber
<1> HIDE DEF d
<1>3. I64!Abs(d - d) = 0 /\ \A f \in I64!Floats : I64!Abs(d - f) \in Nat /\ (I64!Abs(d - f) = 0 => f = d)
  <2>1. \A f \in I64!Floats : f \in Int
    BY FloatIs
  <2> QED BY <1>1, <2>1 DEF I64!Abs
<1>4. h = {d}
  <2>1. d \in h
    BY <1>1, <1>3
  <2>2. ASSUME NEW f \in h PROVE f = d
    BY <1>1, <1>3, <2>2
  <2> QED BY <2>1, <2>2
<1> HIDE DEF h
<1>5. I64!Max(h) = d
  BY <1>1, <1>4 DEF I64!Max
<1> QED BY <1>2, <1>5 DEF d

\* A value becomes a number that none is nearer to.
Nearest(a, f) ==
    f \in I64!Floats /\ \A e \in I64!Floats : I64!Abs(2 * a - f) <= I64!Abs(2 * a - e)

LEMMA ToNumberNearest ==
    ASSUME NEW a \in I64!Ints(I64!W)
    PROVE  Nearest(a, I64!int64_tonumber(a))
<1> DEFINE d == 2 * a
           F == I64!Floats
           h == {f \in F : \A e \in F : I64!Abs(d - f) <= I64!Abs(d - e)}
           Dist == {I64!Abs(d - f) : f \in F}
<1>1. I64!int64_tonumber(a) = I64!Max(h)
  BY DEF I64!int64_tonumber
<1>2. d \in Int /\ \A f \in F : f \in Int
  BY FloatIs, WordKept
<1>3. F # {}
  <2>1. 0 \in 0..(2 ^ Mantissa - 1) /\ 0 \in 0..(I64!W - 2)
    BY MantissaSizes, I64Sizes
  <2>2. 0 * 2 ^ 0 \in F
    BY <2>1 DEF I64!Floats
  <2> QED BY <2>2
<1> HIDE DEF d, F
<1>4. \A f \in F : I64!Abs(d - f) \in Nat
  BY <1>2 DEF I64!Abs
<1>5. PICK k \in Dist : \A z \in Dist : k <= z
  <2>1. Dist \in SUBSET Nat /\ Dist # {}
    BY <1>3, <1>4
  <2> HIDE DEF Dist
  <2> QED BY <2>1, LeastNumber
<1>6. PICK near \in F : k = I64!Abs(d - near)
  BY <1>5
<1>7. near \in h
  BY <1>5, <1>6
<1>8. \A f \in h : f \in Int /\ I64!Abs(d - f) = k
  <2>1. ASSUME NEW f \in h PROVE I64!Abs(d - f) = k
    <3>1. f \in F /\ I64!Abs(d - f) <= k
      BY <1>6
    <3>2. k <= I64!Abs(d - f) /\ I64!Abs(d - f) \in Nat /\ k \in Nat
      BY <1>4, <1>5, <1>6, <3>1
    <3> QED BY <3>1, <3>2
  <2> QED BY <1>2, <2>1
<1> HIDE DEF Dist
<1>9. I64!Max(h) \in h
  <2> HIDE DEF h
  <2>1. \A f \in h : f = d + k \/ f = d - k
    BY <1>2, <1>8 DEF I64!Abs
  <2>2. k \in Nat
    BY <1>4, <1>6
  <2>3. \E y \in h : \A z \in h : y >= z
    <3>1. CASE d + k \in h
      BY <1>2, <2>1, <2>2, <3>1
    <3>2. CASE d + k \notin h
      <4>1. \A f \in h : f = d - k
        BY <2>1, <3>2
      <4> QED BY <1>2, <1>7, <2>2, <4>1
    <3> QED BY <3>1, <3>2
  <2>4. I64!Max(h) = CHOOSE y \in h : \A z \in h : y >= z
    BY DEF I64!Max
  <2> QED BY <2>3, <2>4
<1> DEFINE r == I64!Max(h)
<1>10. r \in h
  BY <1>9
<1>11. r \in F /\ \A e \in F : I64!Abs(d - r) <= I64!Abs(d - e)
  <2> HIDE DEF r
  <2> QED BY <1>10
<1> HIDE DEF r, h
<1>12. I64!int64_tonumber(a) = r
  BY <1>1 DEF r
<1> QED BY <1>11, <1>12 DEF Nearest, d, F

\* A number becomes the Int64 that it equals, or none does.
LEMMA NumberKeeps ==
    ASSUME NEW h \in I64!Floats, NEW r, r = I64!number_to_int64_eq(h)
    PROVE  IF r = Fail THEN \A v \in I64!Ints(I64!W) : 2 * v # h ELSE 2 * r = h
<1>1. h \in Int /\ Fail \notin Int /\ \A v \in I64!Ints(I64!W) : v \in Int /\ I64!MinInt <= v /\ v < -I64!MinInt
      /\ I64!MinInt \in Int
  BY FloatIs, I64Sizes, DataAssumption
<1>2. I64!l_floor(h) = 2 * (h \div 2) /\ h \div 2 \in Int
  BY <1>1 DEF I64!l_floor
<1>3. I64!MinInt \in Int
  BY I64Sizes
<1>4. r = IF 2 * (h \div 2) # h THEN Fail
          ELSE IF 2 * I64!MinInt <= h /\ h < -2 * I64!MinInt THEN h \div 2 ELSE Fail
  BY <1>2 DEF I64!number_to_int64_eq, I64!number_to_int64, I64!number_fits_int64
<1> DEFINE k == h \div 2
<1>5. \A v \in Int : 2 * v = h => k = v
  BY <1>1
<1> HIDE DEF k
<1>6. CASE r = Fail
  <2>1. 2 * k # h \/ ~(2 * I64!MinInt <= h /\ h < -2 * I64!MinInt)
    BY <1>1, <1>2, <1>4, <1>6 DEF k
  <2>2. ASSUME NEW v \in I64!Ints(I64!W), 2 * v = h PROVE FALSE
    <3>1. v \in Int /\ I64!MinInt <= v /\ v < -I64!MinInt
      BY <1>1
    <3>2. k = v
      BY <1>5, <2>2, <3>1
    <3> QED BY <1>3, <2>1, <2>2, <3>1, <3>2
  <2> QED BY <1>6, <2>2
<1>7. CASE r # Fail
  BY <1>4, <1>7
<1> QED BY <1>6, <1>7

Comparisons == {"eq", "lt", "le"}

LEMMA CmpIs ==
    ASSUME NEW a, NEW b
    PROVE  /\ I64!Cmp("eq", a, b) = (a = b)
           /\ I64!Cmp("lt", a, b) = (a < b)
           /\ I64!Cmp("le", a, b) = (a <= b)
BY DEF I64!Cmp

\* The halves of a number in the range of an Int64, and the integers around it.
LEMMA NumberInRange ==
    ASSUME NEW h \in I64!Floats, I64!number_fits_int64(h)
    PROVE  \E d \in Int :
             \/ /\ h = 2 * d
                /\ \A op \in Comparisons : I64!Rmod(op, h) = d /\ I64!Lmod(op, h) = d
             \/ /\ h = (2 * d) + 1 /\ -(2 ^ Mantissa) < h /\ h < 2 ^ Mantissa
                /\ I64!Rmod("eq", h) = Fail /\ I64!Lmod("eq", h) = Fail
                /\ \A op \in {"lt", "le"} : I64!Rmod(op, h) = d + 1 /\ I64!Lmod(op, h) = d
<1> DEFINE d == h \div 2  m == 2 ^ Mantissa  T == I64!MinInt
<1>1. h \in Int /\ d \in Int /\ (h = 2 * d \/ h = (2 * d) + 1)
  <2>1. h \in Int
    BY FloatIs
  <2> QED BY <2>1
<1>2. m \in Nat \ {0} /\ T \in Int /\ T < -m
  <2> DEFINE H == 2 ^ (I64!W - 1)
  <2>1. m \in Nat \ {0} /\ 2 * m <= H /\ T = -H /\ H \in Nat \ {0}
    BY MantissaSizes, I64Sizes
  <2> HIDE DEF m, T, H
  <2> QED BY <2>1
<1>3. 2 * T <= h /\ h < -2 * T
  BY DEF I64!number_fits_int64
<1>4. I64!l_floor(h) = 2 * d
  BY DEF I64!l_floor
<1>5. ASSUME NEW k \in Int, 2 * T <= k, k < -2 * T
      PROVE  I64!number_to_int64(k) = k \div 2
  BY <1>5 DEF I64!number_to_int64, I64!number_fits_int64
<1> HIDE DEF d, T
<1>6. CASE h = 2 * d
  <2>1. I64!l_floor(h) = h /\ I64!number_to_int64(h) = d
    BY <1>1, <1>3, <1>4, <1>5, <1>6
  <2>2. \A op \in Comparisons : I64!Rmod(op, h) = d /\ I64!Lmod(op, h) = d
    BY <2>1 DEF I64!Rmod, I64!Lmod, I64!number_to_int64_eq, I64!number_to_int64_ceil,
                I64!number_to_int64_floor
  <2> QED BY <1>1, <1>6, <2>2
<1>7. CASE h = (2 * d) + 1
  <2>1. I64!l_floor(h) # h
    BY <1>1, <1>4, <1>7
  <2>2. -m < h /\ h < m
    BY <2>1, HalfIsSmall
  <2> HIDE DEF m
  <2>3. I64!number_to_int64(2 * d) = d
    <3>1. 2 * d \in Int /\ 2 * T <= 2 * d /\ 2 * d < -2 * T
      BY <1>1, <1>2, <1>3, <1>7
    <3>2. (2 * d) \div 2 = d
      BY <1>1
    <3> DEFINE k == 2 * d
    <3> HIDE DEF k
    <3>3. k \in Int /\ 2 * T <= k /\ k < -2 * T /\ k \div 2 = d
      BY <3>1, <3>2 DEF k
    <3>4. I64!number_to_int64(k) = d
      BY <1>5, <3>3
    <3> QED BY <3>4 DEF k
  <2>4. I64!number_to_int64(2 * d + 2) = d + 1
    <3>1. 2 * d + 2 \in Int /\ 2 * T <= 2 * d + 2 /\ 2 * d + 2 < -2 * T
      BY <1>1, <1>2, <1>3, <1>7, <2>2
    <3>2. (2 * d + 2) \div 2 = d + 1
      BY <1>1
    <3> DEFINE k == 2 * d + 2
    <3> HIDE DEF k
    <3>3. k \in Int /\ 2 * T <= k /\ k < -2 * T /\ k \div 2 = d + 1
      BY <3>1, <3>2 DEF k
    <3>4. I64!number_to_int64(k) = d + 1
      BY <1>5, <3>3
    <3> QED BY <3>4 DEF k
  <2>5. \A op \in {"lt", "le"} : I64!Rmod(op, h) = d + 1 /\ I64!Lmod(op, h) = d
    <3>1. I64!number_to_int64_ceil(h) = d + 1 /\ I64!number_to_int64_floor(h) = d
      BY <1>4, <2>1, <2>3, <2>4 DEF I64!number_to_int64_ceil, I64!number_to_int64_floor
    <3> QED BY <3>1 DEF I64!Rmod, I64!Lmod
  <2>6. I64!Rmod("eq", h) = Fail /\ I64!Lmod("eq", h) = Fail
    BY <2>1 DEF I64!Rmod, I64!Lmod, I64!number_to_int64_eq
  <2> QED BY <1>1, <1>7, <2>2, <2>5, <2>6 DEF m
<1> QED BY <1>1, <1>6, <1>7

\* The comparison of an integer with a number on its right, and on its left.
ToRight(op, a, h) ==
    IF I64!int64_fits_number(a) THEN I64!Cmp(op, 2 * a, h)
    ELSE IF I64!Rmod(op, h) # Fail THEN I64!Cmp(op, a, I64!Rmod(op, h))
    ELSE op # "eq" /\ I64!Cmp(op, 0, 0)
ToLeft(op, h, a) ==
    IF I64!int64_fits_number(a) THEN I64!Cmp(op, h, 2 * a)
    ELSE IF I64!Lmod(op, h) # Fail THEN I64!Cmp(op, I64!Lmod(op, h), a)
    ELSE op # "eq" /\ I64!Cmp(op, 0, 0)

LEMMA SidesCompare ==
    ASSUME NEW a \in I64!Ints(I64!W), NEW h \in I64!Floats, I64!number_fits_int64(h),
           NEW op \in Comparisons
    PROVE  /\ ToRight(op, a, h) = I64!Cmp(op, 2 * a, h)
           /\ ToLeft(op, h, a) = I64!Cmp(op, h, 2 * a)
<1>1. CASE I64!int64_fits_number(a)
  BY <1>1 DEF ToRight, ToLeft
<1>2. CASE ~I64!int64_fits_number(a)
  <2> DEFINE m == 2 ^ Mantissa
  <2>1. a \in Int /\ m \in Nat \ {0} /\ (a < -m \/ m < a) /\ Fail \notin Int
    <3>1. a \in Int /\ m \in Nat \ {0} /\ ~(-m <= a /\ a <= m) /\ Fail \notin Int
      BY <1>2, WordKept, FitsIs, MantissaSizes, DataAssumption
    <3> HIDE DEF m
    <3> QED BY <3>1
  <2>2. PICK d \in Int :
             \/ /\ h = 2 * d
                /\ \A o \in Comparisons : I64!Rmod(o, h) = d /\ I64!Lmod(o, h) = d
             \/ /\ h = (2 * d) + 1 /\ -m < h /\ h < m
                /\ I64!Rmod("eq", h) = Fail /\ I64!Lmod("eq", h) = Fail
                /\ \A o \in {"lt", "le"} : I64!Rmod(o, h) = d + 1 /\ I64!Lmod(o, h) = d
    BY NumberInRange
  <2> HIDE DEF m
  <2>3. CASE h = 2 * d /\ \A o \in Comparisons : I64!Rmod(o, h) = d /\ I64!Lmod(o, h) = d
    <3>1. ToRight(op, a, h) = I64!Cmp(op, a, d) /\ ToLeft(op, h, a) = I64!Cmp(op, d, a)
      BY <1>2, <2>1, <2>2, <2>3 DEF ToRight, ToLeft
    <3>2. /\ (a = d) = (2 * a = h) /\ (d = a) = (h = 2 * a)
          /\ (a < d) = (2 * a < h) /\ (d < a) = (h < 2 * a)
          /\ (a <= d) = (2 * a <= h) /\ (d <= a) = (h <= 2 * a)
      BY <2>1, <2>2, <2>3
    <3>3. CASE op = "eq"
      BY <3>1, <3>2, <3>3, CmpIs
    <3>4. CASE op = "lt"
      BY <3>1, <3>2, <3>4, CmpIs
    <3>5. CASE op = "le"
      BY <3>1, <3>2, <3>5, CmpIs
    <3> QED BY <3>3, <3>4, <3>5 DEF Comparisons
  <2>4. CASE /\ h = (2 * d) + 1 /\ -m < h /\ h < m
             /\ I64!Rmod("eq", h) = Fail /\ I64!Lmod("eq", h) = Fail
             /\ \A o \in {"lt", "le"} : I64!Rmod(o, h) = d + 1 /\ I64!Lmod(o, h) = d
    <3>1. /\ (2 * a = h) = FALSE /\ (h = 2 * a) = FALSE
          /\ (a < d + 1) = (2 * a < h) /\ (d < a) = (h < 2 * a)
          /\ (a <= d + 1) = (2 * a <= h) /\ (d <= a) = (h <= 2 * a)
      BY <2>1, <2>2, <2>4
    <3>2. CASE op = "eq"
      <4>1. ToRight(op, a, h) = FALSE /\ ToLeft(op, h, a) = FALSE
        BY <1>2, <2>4, <3>2 DEF ToRight, ToLeft
      <4>2. I64!Cmp(op, 2 * a, h) = (2 * a = h) /\ I64!Cmp(op, h, 2 * a) = (h = 2 * a)
        BY ONLY <3>2, Zenon DEF I64!Cmp
      <4>3. (2 * a = h) = FALSE /\ (h = 2 * a) = FALSE
        BY ONLY <3>1, Zenon
      <4> QED BY ONLY <4>1, <4>2, <4>3, Zenon
    <3>3. CASE op # "eq"
      <4>1. op \in {"lt", "le"}
        BY <3>3 DEF Comparisons
      <4>2. ToRight(op, a, h) = I64!Cmp(op, a, d + 1) /\ ToLeft(op, h, a) = I64!Cmp(op, d, a)
        BY <1>2, <2>1, <2>2, <2>4, <4>1 DEF ToRight, ToLeft
      <4>3. CASE op = "lt"
        BY <3>1, <4>2, <4>3, CmpIs
      <4>4. CASE op = "le"
        BY <3>1, <4>2, <4>4, CmpIs
      <4> QED BY <4>1, <4>3, <4>4
    <3> QED BY <3>2, <3>3
  <2> QED BY <2>2, <2>3, <2>4
<1> QED BY <1>1, <1>2

\* A number beyond the range is none of the Int64s, nor is what it is rounded to.
LEMMA NumberBeyond ==
    ASSUME NEW h \in I64!Floats, ~I64!number_fits_int64(h)
    PROVE  /\ \A op \in Comparisons : I64!Rmod(op, h) = Fail /\ I64!Lmod(op, h) = Fail
           /\ \A a \in I64!Ints(I64!W) : 2 * a # h
<1> DEFINE m == 2 ^ Mantissa  T == I64!MinInt
<1>1. m \in Nat \ {0} /\ T \in Int /\ T < -m
  <2> DEFINE H == 2 ^ (I64!W - 1)
  <2>1. m \in Nat \ {0} /\ 2 * m <= H /\ T = -H /\ H \in Nat \ {0}
    BY MantissaSizes, I64Sizes
  <2> HIDE DEF m, T, H
  <2> QED BY <2>1
<1>2. h \in Int /\ ~(2 * T <= h /\ h < -2 * T)
  BY FloatIs DEF I64!number_fits_int64
<1>3. I64!l_floor(h) = h
  <2>1. I64!l_floor(h) # h => -m < h /\ h < m
    BY HalfIsSmall
  <2> HIDE DEF m, T
  <2> QED BY <1>1, <1>2, <2>1
<1>4. I64!number_to_int64(h) = Fail
  BY DEF I64!number_to_int64
<1>5. \A op \in Comparisons : I64!Rmod(op, h) = Fail /\ I64!Lmod(op, h) = Fail
  BY <1>3, <1>4 DEF I64!Rmod, I64!Lmod, I64!number_to_int64_eq, I64!number_to_int64_ceil,
                    I64!number_to_int64_floor
<1>6. ASSUME NEW a \in I64!Ints(I64!W) PROVE 2 * a # h
  <2>1. a \in Int /\ T <= a /\ a < -T
    BY I64Sizes
  <2> HIDE DEF T
  <2> QED BY <1>1, <1>2, <2>1
<1> QED BY <1>5, <1>6

\* The one answer of a comparison with such a number.
LEMMA BeyondCompares ==
    ASSUME NEW a \in I64!Ints(I64!W), NEW h \in I64!Floats, ~I64!number_fits_int64(h),
           NEW op \in Comparisons
    PROVE  /\ \/ ToRight(op, a, h) = I64!Cmp(op, 2 * a, h)
              \/ /\ ~I64!int64_fits_number(a) /\ op # "eq"
                 /\ ToRight(op, a, h) = (op = "le")
           /\ \/ ToLeft(op, h, a) = I64!Cmp(op, h, 2 * a)
              \/ /\ ~I64!int64_fits_number(a) /\ op # "eq"
                 /\ ToLeft(op, h, a) = (op = "le")
<1>1. CASE I64!int64_fits_number(a)
  BY <1>1 DEF ToRight, ToLeft
<1>2. CASE ~I64!int64_fits_number(a)
  <2>1. /\ ToRight(op, a, h) = (op # "eq" /\ I64!Cmp(op, 0, 0))
        /\ ToLeft(op, h, a) = (op # "eq" /\ I64!Cmp(op, 0, 0))
    BY <1>2, NumberBeyond DEF ToRight, ToLeft
  <2>2. CASE op = "eq"
    <3>1. 2 * a # h
      BY NumberBeyond
    <3>2. (2 * a = h) = FALSE /\ (h = 2 * a) = FALSE
      BY <3>1
    <3>3. I64!Cmp(op, 2 * a, h) = (2 * a = h) /\ I64!Cmp(op, h, 2 * a) = (h = 2 * a)
      BY ONLY <2>2, Zenon DEF I64!Cmp
    <3>4. ToRight(op, a, h) = FALSE /\ ToLeft(op, h, a) = FALSE
      BY <2>1, <2>2
    <3> QED BY ONLY <3>2, <3>3, <3>4, Zenon
  <2>3. CASE op = "lt"
    <3>1. I64!Cmp(op, 0, 0) = (0 < 0)
      BY <2>3, CmpIs
    <3>2. (0 < 0) = FALSE /\ (op = "le") = FALSE /\ op # "eq"
      BY <2>3
    <3>3. ToRight(op, a, h) = FALSE /\ ToLeft(op, h, a) = FALSE
      BY <2>1, <3>1, <3>2
    <3> QED BY <1>2, <3>2, <3>3
  <2>4. CASE op = "le"
    <3>1. I64!Cmp(op, 0, 0) = (0 <= 0)
      BY <2>4, CmpIs
    <3>2. (0 <= 0) = TRUE /\ (op = "le") = TRUE /\ op # "eq"
      BY <2>4
    <3>3. ToRight(op, a, h) = TRUE /\ ToLeft(op, h, a) = TRUE
      BY <2>1, <3>1, <3>2
    <3> QED BY <1>2, <3>2, <3>3
  <2> QED BY <2>2, <2>3, <2>4 DEF Comparisons
<1> QED BY <1>1, <1>2

\* A value that to_int64x() takes for an integer is that integer.
LEMMA ValueIs ==
    ASSUME NEW x \in I64!Operands \cup I64!Numbers
    PROVE  /\ x.type = "number" => x.v \in I64!Floats
           /\ x.type # "number" => x.v \in Int
           /\ x.type = "int64" => x.v \in I64!Ints(I64!W)
           /\ I64!IsInt(x) => I64!ToInt(x) \in Int /\ I64!Halves(x) = 2 * I64!ToInt(x)
           /\ ~I64!IsInt(x) => x.type = "number" /\ I64!ToInt(x) = 0 /\ I64!Halves(x) = x.v
           /\ x.type = "int64" => I64!IsInt(x) /\ I64!ToInt(x) = x.v
<1>1. /\ x.type = "number" => x.v \in I64!Floats
      /\ x.type # "number" => x.v \in Int
      /\ x.type = "int64" => x.v \in I64!Ints(I64!W)
  <2>1. CASE x \in I64!Numbers
    BY <2>1 DEF I64!Numbers, I64!Val
  <2>2. CASE \E k \in I64!Ints(IntBits) : x = I64!Val("integer", k)
    BY <2>2, I64Widths DEF I64!Val
  <2>3. CASE \E k \in I64!Ints(I64!W) : x = I64!Val("int64", k)
    BY <2>3, WordKept DEF I64!Val
  <2> QED BY <2>1, <2>2, <2>3 DEF I64!Operands
<1>2. CASE x.type = "number"
  <2>1. x.v \in Int /\ x.v \div 2 \in Int
    <3>1. x.v \in Int
      BY <1>1, <1>2, FloatIs
    <3> QED BY <3>1
  <2>2. ~I64!IsInt(x) => I64!ToInt(x) = 0 /\ I64!Halves(x) = x.v
    BY <1>2 DEF I64!ToInt, I64!Halves
  <2>3. I64!IsInt(x) => I64!ToInt(x) = x.v \div 2 /\ I64!l_floor(x.v) = x.v /\ I64!Halves(x) = x.v
    BY <1>2 DEF I64!ToInt, I64!Halves, I64!IsInt
  <2>4. I64!l_floor(x.v) = 2 * (x.v \div 2)
    BY DEF I64!l_floor
  <2> QED BY <1>1, <1>2, <2>1, <2>2, <2>3, <2>4
<1>3. CASE x.type # "number"
  <2>1. I64!IsInt(x) /\ I64!ToInt(x) = x.v /\ I64!Halves(x) = 2 * x.v
    BY <1>3 DEF I64!ToInt, I64!Halves, I64!IsInt
  <2> QED BY <1>1, <1>3, <2>1
<1> QED BY <1>2, <1>3

LEMMA CmpCompares ==
    ASSUME NEW x \in I64!Operands \cup I64!Numbers, NEW y \in I64!Operands \cup I64!Numbers,
           x.type = "int64" \/ y.type = "int64", NEW op \in Comparisons
    PROVE  \/ I64!cmp(op, x, y) = I64!Cmp(op, I64!Halves(x), I64!Halves(y))
           \/ /\ I64!Beyond(x, y) \/ I64!Beyond(y, x)
              /\ op # "eq" /\ I64!cmp(op, x, y) = (op = "le")
<1> DEFINE a == I64!ToInt(x)  b == I64!ToInt(y)
<1>1. CASE I64!IsInt(x) /\ I64!IsInt(y)
  <2>1. I64!cmp(op, x, y) = I64!Cmp(op, a, b)
    BY <1>1 DEF I64!cmp
  <2>2. a \in Int /\ b \in Int /\ I64!Halves(x) = 2 * a /\ I64!Halves(y) = 2 * b
    BY <1>1, ValueIs
  <2> HIDE DEF a, b
  <2>3. (a = b) = (2 * a = 2 * b) /\ (a < b) = (2 * a < 2 * b) /\ (a <= b) = (2 * a <= 2 * b)
    BY <2>2
  <2>4. CASE op = "eq"
    BY <2>1, <2>2, <2>3, <2>4, CmpIs
  <2>5. CASE op = "lt"
    BY <2>1, <2>2, <2>3, <2>5, CmpIs
  <2>6. CASE op = "le"
    BY <2>1, <2>2, <2>3, <2>6, CmpIs
  <2> QED BY <2>4, <2>5, <2>6 DEF Comparisons
<1>2. CASE I64!IsInt(x) /\ ~I64!IsInt(y)
  <2>1. y.type = "number" /\ b = 0 /\ I64!Halves(y) = y.v /\ y.v \in I64!Floats
    BY <1>2, ValueIs
  <2>2. a \in I64!Ints(I64!W) /\ I64!Halves(x) = 2 * a
    BY <1>2, <2>1, ValueIs
  <2>3. I64!cmp(op, x, y) = ToRight(op, a, y.v)
    BY <1>2, <2>1 DEF I64!cmp, ToRight
  <2>4. x.type = "int64" /\ x.v = a
    BY <2>1, ValueIs
  <2> HIDE DEF a, b
  <2>5. CASE I64!number_fits_int64(y.v)
    BY <2>1, <2>2, <2>3, <2>5, SidesCompare
  <2>6. CASE ~I64!number_fits_int64(y.v)
    <3>1. ~I64!int64_fits_number(a) => I64!Beyond(y, x)
      BY <2>1, <2>4, <2>6 DEF I64!Beyond
    <3> QED BY <2>1, <2>2, <2>3, <2>6, <3>1, BeyondCompares
  <2> QED BY <2>5, <2>6
<1>3. CASE ~I64!IsInt(x)
  <2>1. x.type = "number" /\ a = 0 /\ I64!Halves(x) = x.v /\ x.v \in I64!Floats
    BY <1>3, ValueIs
  <2>2. b \in I64!Ints(I64!W) /\ I64!Halves(y) = 2 * b
    BY <1>3, <2>1, ValueIs
  <2>3. I64!cmp(op, x, y) = ToLeft(op, x.v, b)
    BY <1>3, <2>1 DEF I64!cmp, ToLeft
  <2>4. y.type = "int64" /\ y.v = b
    BY <2>1, ValueIs
  <2> HIDE DEF a, b
  <2>5. CASE I64!number_fits_int64(x.v)
    BY <2>1, <2>2, <2>3, <2>5, SidesCompare
  <2>6. CASE ~I64!number_fits_int64(x.v)
    <3>1. ~I64!int64_fits_number(b) => I64!Beyond(x, y)
      BY <2>1, <2>4, <2>6 DEF I64!Beyond
    <3> QED BY <2>1, <2>2, <2>3, <2>6, <3>1, BeyondCompares
  <2> QED BY <2>5, <2>6
<1> QED BY <1>1, <1>2, <1>3

LEMMA QuotientShrinks ==
    ASSUME NEW x \in Nat, NEW base \in Nat \ {0, 1}
    PROVE  x \div base \in Nat /\ x % base \in 0..(base - 1)
           /\ x = (x \div base) * base + (x % base)
           /\ 2 * (x \div base) <= x /\ x \div base <= x
<1> DEFINE q == x \div base  r == x % base
<1>1. q \in Int /\ r \in 0..(base - 1) /\ x = (base * q) + r
  BY DivisionIs
<1> HIDE DEF q, r
<1>2. q \in Nat
  <2>1. ASSUME q < 0 PROVE FALSE
    <3>1. q + 1 <= 0 /\ base * (q + 1) <= 0
      BY <1>1, <2>1
    <3>2. base * (q + 1) = (base * q) + base
      BY <1>1
    <3> QED BY <1>1, <3>1, <3>2
  <2> QED BY <1>1, <2>1
<1>3. 2 * q <= base * q
  <2>1. (base - 2) * q >= 0
    <3>1. base - 2 \in Nat
      OBVIOUS
    <3> QED BY <1>2, <3>1
  <2>2. (base - 2) * q = (base * q) - (2 * q)
    BY <1>2
  <2>3. base * q \in Int
    BY <1>2
  <2> QED BY <1>2, <2>1, <2>2, <2>3
<1>4. x = q * base + r
  BY <1>1, <1>2
<1> QED BY <1>1, <1>2, <1>3, <1>4 DEF q, r

\* What is left of a value after each division: nothing after all of them.
Leaves(f, v, base) ==
    /\ f \in [0..I64!W -> Nat] /\ f[0] = v
    /\ \A i \in 1..I64!W : f[i] = f[i - 1] \div base

LEMMA LeavesNothing ==
    ASSUME NEW v \in Nat, NEW base \in Nat \ {0, 1}, v < Modulus, NEW f, Leaves(f, v, base)
    PROVE  f[I64!W] = 0 /\ \A i \in 0..I64!W : f[i] <= v
<1> DEFINE W == I64!W  Small(i) == f[i] < 2 ^ (W - i) /\ f[i] <= v
           T == {i \in 0..W : ~Small(i)}
<1>1. W \in Nat \ {0}
  BY I64Sizes
<1>2. Small(0)
  <2>1. W - 0 = W
    BY <1>1
  <2> QED BY <2>1 DEF Leaves, Modulus
<1>3. ASSUME T # {} PROVE FALSE
  <2>1. T \in SUBSET Nat
    BY <1>1
  <2>2. PICK i \in T : \A k \in T : i <= k
    BY <1>3, <2>1, LeastNumber
  <2>3. i # 0
    BY <1>2, <2>2
  <2>4. i \in 1..W /\ i - 1 \in 0..W /\ ~(i <= i - 1) /\ i \in 0..W
    BY <1>1, <2>2, <2>3
  <2>5. Small(i - 1)
    BY <2>2, <2>4
  <2> DEFINE x == f[i - 1]  y == f[i]  p == 2 ^ (W - i)
  <2>6. x \in Nat /\ y = x \div base
    BY <2>4 DEF Leaves
  <2>7. y \in Nat /\ 2 * y <= x /\ y <= x
    <3> HIDE DEF x, y
    <3> QED BY <2>6, QuotientShrinks
  <2>8. p \in Nat /\ 2 ^ (W - (i - 1)) = 2 * p
    <3>1. W - i \in Nat /\ (W - i) + 1 = W - (i - 1)
      BY <1>1, <2>4
    <3> QED BY <3>1, PowerNext, PowerType
  <2>9. x < 2 * p /\ x <= v
    BY <2>5, <2>8
  <2> HIDE DEF x, p
  <2>10. y < p /\ y <= v
    <3> HIDE DEF y
    <3> QED BY <2>6, <2>7, <2>8, <2>9
  <2>11. Small(i)
    BY <2>10 DEF p
  <2> QED BY <2>2, <2>11
<1>4. \A i \in 0..W : Small(i)
  BY <1>3
<1>5. f[W] = 0
  <2>1. W \in 0..W /\ W - W = 0
    BY <1>1
  <2>2. f[W] < 2 ^ 0
    BY <1>4, <2>1
  <2>3. f[W] < 1
    BY <2>2, PowerZero
  <2>4. f[W] \in Nat
    BY <2>1 DEF Leaves
  <2> QED BY <2>3, <2>4
<1> QED BY <1>4, <1>5

LEMMA DigitsAre ==
    ASSUME NEW v \in Nat, NEW base \in Nat \ {0, 1}
    PROVE  \E f : Leaves(f, v, base)
                  /\ I64!Digits(v, base) = [i \in 1..I64!W |-> f[I64!W - i] % base]
<1> DEFINE W == I64!W
           Body(f) == [i \in 0..W |-> IF i = 0 THEN v ELSE f[i - 1] \div base]
           left == CHOOSE f : f = Body(f)
           next == [i \in 1..W |-> [x \in Nat |-> x \div base]]
<1>1. W \in Nat
  BY I64Sizes
<1>2. next \in [1..W -> [Nat -> Nat]]
  <2>1. \A x \in Nat : x \div base \in Nat
    BY QuotientShrinks
  <2> QED BY <2>1
<1>3. PICK f \in [0..W -> Nat] : f[0] = v /\ \A i \in 1..W : f[i] = next[i][f[i - 1]]
  <2>1. v \in Nat /\ next \in Steps(Nat, W)
    BY <1>2 DEF Steps
  <2> HIDE DEF next, W
  <2>2. \E f : Iterated(f, Nat, W, v, next)
    BY ONLY <1>1, <2>1, Iterates
  <2> QED BY <2>2 DEF Iterated
<1>4. ASSUME NEW i \in 0..W PROVE f[i] = Body(f)[i]
  <2>1. CASE i = 0
    BY <1>3, <2>1
  <2>2. CASE i # 0
    <3>1. i \in 1..W /\ i - 1 \in 0..W
      BY <1>1, <2>2
    <3> QED BY <1>3, <2>2, <3>1
  <2> QED BY <2>1, <2>2
<1>5. f = Body(f)
  BY <1>3, <1>4
<1>6. left = Body(left)
  BY <1>5
<1>7. I64!Digits(v, base) = [i \in 1..W |-> left[W - i] % base]
  BY DEF I64!Digits
<1> HIDE DEF left
<1>8. left[0] = v /\ \A i \in 1..W : left[i] = left[i - 1] \div base
  <2>1. left[0] = v
    BY <1>1, <1>6
  <2>2. ASSUME NEW i \in 1..W PROVE left[i] = left[i - 1] \div base
    <3>1. i \in 0..W /\ i # 0
      BY <1>1
    <3> QED BY <1>6, <3>1
  <2> QED BY <2>1, <2>2
<1>9. left \in [0..W -> Nat]
  <2> DEFINE T == {i \in 0..W : left[i] \notin Nat}
  <2>1. ASSUME T # {} PROVE FALSE
    <3>1. T \in SUBSET Nat
      BY <1>1
    <3>2. PICK i \in T : \A k \in T : i <= k
      BY <2>1, <3>1, LeastNumber
    <3>3. i \in 1..W /\ i - 1 \in 0..W /\ ~(i <= i - 1)
      BY <1>1, <1>8, <3>2
    <3>4. left[i - 1] \in Nat
      BY <3>2, <3>3
    <3>5. left[i] \in Nat
      BY <1>8, <3>3, <3>4, QuotientShrinks
    <3> QED BY <3>2, <3>5
  <2>2. \A i \in 0..W : left[i] \in Nat
    BY <2>1
  <2>3. DOMAIN left = 0..W /\ left = [i \in 0..W |-> left[i]]
    BY <1>6
  <2> QED BY <2>2, <2>3
<1> QED BY <1>7, <1>8, <1>9 DEF Leaves

\* A value is parsed from its digits.
LEMMA DigitsMakeUp ==
    ASSUME NEW v \in Nat, NEW base \in Nat \ {0, 1}, v < Modulus, NEW neg \in BOOLEAN
    PROVE  I64!string_to_int64(neg, base, I64!Digits(v, base))
              = I64!Wrap(I64!W, IF neg THEN -v ELSE v)
<1> DEFINE W == I64!W  digits == I64!Digits(v, base)
<1>1. W \in Nat \ {0} /\ Modulus \in Nat \ {0}
  BY I64Sizes
<1>2. PICK f : Leaves(f, v, base) /\ digits = [i \in 1..W |-> f[W - i] % base]
  BY DigitsAre
<1>3. f[W] = 0 /\ \A i \in 0..W : f[i] <= v
  BY <1>2, LeavesNothing
<1>4. \A i \in 0..W : f[i] \in Nat
  BY <1>2 DEF Leaves
<1> HIDE DEF digits
<1>5. /\ Len(digits) = W /\ DOMAIN digits = 1..W
      /\ \A i \in 1..W : digits[i] = f[W - i] % base /\ digits[i] \in 0..(base - 1)
  <2>1. DOMAIN digits = 1..W /\ \A i \in 1..W : digits[i] = f[W - i] % base
    BY <1>2
  <2>2. ASSUME NEW i \in 1..W PROVE digits[i] \in 0..(base - 1)
    <3>1. W - i \in 0..W
      BY <1>1
    <3>2. f[W - i] \in Nat
      BY <1>4, <3>1
    <3>3. f[W - i] % base \in 0..(base - 1)
      BY <3>2, QuotientShrinks
    <3> QED BY <2>1, <3>3
  <2>3. digits \in [1..W -> 0..(base - 1)]
    BY <1>2, <2>1, <2>2
  <2>4. Len(digits) = W
    BY <1>1, <2>3
  <2> QED BY <2>1, <2>2, <2>4
<1> DEFINE Body(h) == [i \in 0..Len(digits) |->
                          IF i = 0 THEN 0 ELSE (h[i - 1] * base + digits[i]) % 2 ^ W]
           value == CHOOSE h : h = Body(h)
           total == value[Len(digits)]
<1>6. I64!string_to_int64(neg, base, digits) =
         IF \E i \in DOMAIN digits : digits[i] >= base THEN Fail
         ELSE I64!Wrap(W, IF neg THEN -total ELSE total)
  BY DEF I64!string_to_int64
<1>7. ASSUME NEW i \in 1..W PROVE f[W - i] = (f[W - (i - 1)] * base + digits[i]) % 2 ^ W
  <2>1. W - i \in 0..W /\ W - (i - 1) \in 1..W /\ (W - (i - 1)) - 1 = W - i
    BY <1>1
  <2> DEFINE x == f[W - i]
  <2>2. x \in Nat /\ x <= v
    BY <1>3, <1>4, <2>1
  <2>3. f[W - (i - 1)] = x \div base
    BY <1>2, <2>1 DEF Leaves
  <2>4. digits[i] = x % base
    BY <1>5
  <2> HIDE DEF x
  <2>5. x = (x \div base) * base + (x % base)
    BY <2>2, QuotientShrinks
  <2>6. x % Modulus = x
    <3> DEFINE q == 0
    <3>1. Modulus \in Nat \ {0} /\ q \in Int /\ x \in 0..(Modulus - 1) /\ x \in Int
          /\ x = (Modulus * q) + x
      BY <1>1, <2>2
    <3> HIDE DEF q
    <3> QED BY ONLY <3>1, FloorDivision
  <2>7. (f[W - (i - 1)] * base + digits[i]) % 2 ^ W = x
    BY <2>3, <2>4, <2>5, <2>6 DEF Modulus
  <2> QED BY <2>7 DEF x
<1> DEFINE back == [i \in 0..W |-> f[W - i]]
<1>8. back = Body(back)
  <2>1. ASSUME NEW i \in 0..W PROVE back[i] = Body(back)[i]
    <3>1. CASE i = 0
      <4>1. W - 0 = W
        BY <1>1
      <4> QED BY <1>3, <1>5, <3>1, <4>1
    <3>2. CASE i # 0
      <4>1. i \in 1..W /\ i - 1 \in 0..W
        BY <1>1, <3>2
      <4>2. back[i] = f[W - i] /\ back[i - 1] = f[W - (i - 1)]
        BY <4>1
      <4>3. Body(back)[i] = (back[i - 1] * base + digits[i]) % 2 ^ W
        BY <1>5, <3>2, <4>1
      <4> QED BY <1>7, <4>1, <4>2, <4>3
    <3> QED BY <3>1, <3>2
  <2>2. Body(back) = [i \in 0..W |-> Body(back)[i]]
    BY <1>5
  <2> QED BY <2>1, <2>2
<1>9. value = Body(value)
  BY <1>8
<1> HIDE DEF value, back
<1>10. /\ value[0] = 0
       /\ \A i \in 1..W : value[i] = (value[i - 1] * base + digits[i]) % 2 ^ W
  <2>1. value[0] = 0
    BY <1>1, <1>5, <1>9
  <2>2. ASSUME NEW i \in 1..W
        PROVE  value[i] = (value[i - 1] * base + digits[i]) % 2 ^ W
    <3>1. i \in 0..Len(digits) /\ i # 0
      BY <1>1, <1>5
    <3> QED BY <1>9, <3>1
  <2> QED BY <2>1, <2>2
<1> DEFINE T == {i \in 0..W : value[i] # f[W - i]}
<1>11. ASSUME T # {} PROVE FALSE
  <2>1. T \in SUBSET Nat
    BY <1>1
  <2>2. PICK i \in T : \A k \in T : i <= k
    BY <1>11, <2>1, LeastNumber
  <2>3. i # 0
    <3>1. W - 0 = W
      BY <1>1
    <3> QED BY <1>3, <1>10, <2>2, <3>1
  <2>4. i \in 1..W /\ i - 1 \in 0..W /\ ~(i <= i - 1)
    BY <1>1, <2>2, <2>3
  <2>5. value[i - 1] = f[W - (i - 1)]
    BY <2>2, <2>4
  <2>6. value[i] = f[W - i]
    BY <1>7, <1>10, <2>4, <2>5
  <2> QED BY <2>2, <2>6
<1>12. total = v
  <2>1. W \in 0..W /\ W - W = 0
    BY <1>1
  <2>2. value[W] = f[0]
    BY <1>11, <2>1
  <2> QED BY <1>2, <1>5, <2>2 DEF Leaves
<1>13. ~ \E i \in DOMAIN digits : digits[i] >= base
  BY <1>5
<1> QED BY <1>6, <1>12, <1>13 DEF digits

\* So an Int64 is parsed from the digits that it is written with, with a sign or
\* as all the bits.
LEMMA ParseKeeps ==
    ASSUME NEW a \in I64!Ints(I64!W), NEW base \in Nat \ {0, 1}
    PROVE  /\ I64!string_to_int64(a < 0, base, I64!Digits(I64!Abs(a), base)) = a
           /\ I64!string_to_int64(FALSE, base, I64!Digits(I64!Unsigned(a), base)) = a
<1>1. a \in Int /\ Modulus \in Nat \ {0} /\ -Modulus < a /\ a < Modulus
  <2> DEFINE H == 2 ^ (I64!W - 1)
  <2>1. a \in Int /\ H \in Nat \ {0} /\ Modulus = 2 * H /\ I64!MinInt = -H
        /\ a \in I64!MinInt..(-I64!MinInt - 1) /\ Modulus \in Nat \ {0}
    BY WordKept, I64Sizes
  <2> HIDE DEF H
  <2> QED BY <2>1
<1>2. I64!string_to_int64(a < 0, base, I64!Digits(I64!Abs(a), base)) = a
  <2> DEFINE v == I64!Abs(a)  neg == a < 0
  <2>1. v \in Nat /\ v < Modulus /\ neg \in BOOLEAN /\ (IF neg THEN -v ELSE v) = a
    BY <1>1 DEF I64!Abs
  <2>2. I64!string_to_int64(neg, base, I64!Digits(v, base)) = I64!Wrap(I64!W, IF neg THEN -v ELSE v)
    <3> HIDE DEF v, neg
    <3> QED BY <2>1, DigitsMakeUp
  <2>3. I64!Wrap(I64!W, a) = a
    BY WordKept
  <2> QED BY <2>1, <2>2, <2>3
<1>3. I64!string_to_int64(FALSE, base, I64!Digits(I64!Unsigned(a), base)) = a
  <2> DEFINE v == I64!Unsigned(a)
  <2>1. v \in Int /\ Congruent(v, a) /\ v < Modulus /\ ~(v < 0)
    <3>1. Shifted(a, FALSE) = v
      BY DEF Shifted
    <3> QED BY <3>1, ShiftedIs
  <2> HIDE DEF v
  <2>2. I64!string_to_int64(FALSE, base, I64!Digits(v, base)) = I64!Wrap(I64!W, v)
    <3>1. v \in Nat
      BY <2>1
    <3> QED BY <2>1, <3>1, DigitsMakeUp
  <2>3. I64!Wrap(I64!W, v) = a
    BY <2>1, WordOnly
  <2> QED BY <2>2, <2>3 DEF v
<1> QED BY <1>2, <1>3

\* A property says nothing of the calls of the others.
Shifts == {"ashr", "shr"}
Conversions == {"parse", "new", "extend", "tointeger", "tonumber", "minint", "int64"}

LEMMA OtherCalls ==
    /\ int64.op \notin I64!Arith \cup {"unm"} => I64!ArithmeticIsModular
    /\ int64.op \notin Shifts => I64!ShiftsScale
    /\ int64.op \notin Conversions => I64!ConversionsKeepValue
    /\ int64.op \notin Comparisons => I64!ComparesByValue
<1>1. int64.op \notin I64!Arith \cup {"unm"} => I64!ArithmeticIsModular
  BY DEF I64!Arith, I64!ArithmeticIsModular
<1>2. int64.op \notin Shifts => I64!ShiftsScale
  BY DEF Shifts, I64!ShiftsScale
<1>3. int64.op \notin Conversions => I64!ConversionsKeepValue
  BY DEF Conversions, I64!ConversionsKeepValue
<1>4. int64.op \notin Comparisons => I64!ComparesByValue
  BY DEF Comparisons, I64!ComparesByValue
<1> QED BY <1>1, <1>2, <1>3, <1>4

Called(op, x, y, r) == int64.op = op /\ int64.x = x /\ int64.y = y /\ int64.res = r

Int64Correctly ==
    /\ I64!ArithmeticIsModular /\ I64!ShiftsScale
    /\ I64!ConversionsKeepValue /\ I64!ComparesByValue

LEMMA ArithmeticCalls ==
    ASSUME NEW op \in I64!Arith, NEW a \in I64!Ints(I64!W), NEW b \in I64!Ints(I64!W),
           Called(op, a, b, I64!Apply(op, a, b))
    PROVE  Int64Correctly
<1> DEFINE r == I64!Apply(op, a, b)
<1>1. ArithmeticOf(op, a, b, r)
  <2>1. CASE op = "add"
    BY <2>1, Add DEF I64!Apply
  <2>2. CASE op = "sub"
    BY <2>2, Subtract DEF I64!Apply
  <2>3. CASE op = "mul"
    BY <2>3, Multiply DEF I64!Apply
  <2>4. CASE op = "idiv"
    BY <2>4, Divide DEF I64!Apply
  <2>5. CASE op = "mod"
    BY <2>5, Divide DEF I64!Apply
  <2>6. CASE op = "ult"
    BY <2>6 DEF ArithmeticOf
  <2> QED BY <2>1, <2>2, <2>3, <2>4, <2>5, <2>6 DEF I64!Arith
<1> HIDE DEF r
<1>2. int64.op = op /\ int64.x = a /\ int64.y = b /\ int64.res = r
  BY DEF Called, r
<1>3. op # "unm"
  BY DEF I64!Arith
<1>4. I64!ArithmeticIsModular
  BY ONLY <1>1, <1>2, <1>3 DEF ArithmeticOf, I64!ArithmeticIsModular
<1>5. op \notin Shifts \cup Conversions \cup Comparisons
  BY DEF I64!Arith, Shifts, Conversions, Comparisons
<1> QED BY <1>2, <1>4, <1>5, OtherCalls DEF Int64Correctly

LEMMA NegateCalls ==
    ASSUME NEW a \in I64!Ints(I64!W), Called("unm", a, 0, I64!int64___unm(a))
    PROVE  Int64Correctly
<1>1. int64.op = "unm" /\ int64.x = a /\ int64.res = I64!int64___unm(a)
  BY DEF Called
<1>2. I64!ArithmeticIsModular
  BY <1>1, Negate DEF I64!ArithmeticIsModular
<1>3. "unm" \notin Shifts \cup Conversions \cup Comparisons
  BY DEF Shifts, Conversions, Comparisons
<1> QED BY <1>1, <1>2, <1>3, OtherCalls DEF Int64Correctly

LEMMA ShiftCalls ==
    ASSUME NEW a \in I64!Ints(I64!W), NEW b \in I64!Ints(I64!W), NEW arith \in BOOLEAN,
           Called(IF arith THEN "ashr" ELSE "shr", a, b, I64!shift_left(a, -b, arith))
    PROVE  Int64Correctly
<1> DEFINE r == I64!shift_left(a, -b, arith)
<1>1. int64.op = (IF arith THEN "ashr" ELSE "shr") /\ int64.x = a /\ int64.y = b /\ int64.res = r
  BY DEF Called
<1>2. r = I64!Wrap(I64!W, Scaled(Shifted(a, arith), b))
  BY ShiftScales
<1> HIDE DEF r
<1>3. I64!ShiftsScale
  <2>1. CASE arith
    BY <1>1, <1>2, <2>1 DEF I64!ShiftsScale, Scaled, Shifted
  <2>2. CASE ~arith
    BY <1>1, <1>2, <2>2 DEF I64!ShiftsScale, Scaled, Shifted
  <2> QED BY <2>1, <2>2
<1>4. int64.op \notin I64!Arith \cup {"unm"} \cup Conversions \cup Comparisons
  BY <1>1 DEF I64!Arith, Conversions, Comparisons
<1> QED BY <1>3, <1>4, OtherCalls DEF Int64Correctly

\* What each conversion keeps.
ConversionOf(op, a, b, r) ==
    /\ op = "parse" => r = a
    /\ op = "new" => /\ r.v \in I64!Ints(I64!W) /\ r.v % 2 ^ IntBits = a % 2 ^ IntBits
                     /\ r.v \div 2 ^ IntBits = b
    /\ op = "extend" => r.v = a
    /\ op = "tointeger" => r = IF a \in I64!Ints(IntBits) THEN a ELSE Fail
    /\ op = "tonumber" => (I64!int64_fits_number(a) => r = 2 * a) /\ Nearest(a, r)
    /\ op = "minint" => r.v = a
    /\ op = "int64" => IF r = Fail THEN \A v \in I64!Ints(I64!W) : 2 * v # a ELSE 2 * r = a

LEMMA ConversionCalls ==
    ASSUME NEW op \in Conversions, NEW a, NEW b, NEW r, Called(op, a, b, r),
           ConversionOf(op, a, b, r)
    PROVE  Int64Correctly
<1>1. int64.op = op /\ int64.x = a /\ int64.y = b /\ int64.res = r
  BY DEF Called
<1>2. I64!ConversionsKeepValue
  BY <1>1 DEF ConversionOf, Nearest, I64!ConversionsKeepValue
<1>3. op \notin I64!Arith \cup {"unm"} \cup Shifts \cup Comparisons
  BY DEF I64!Arith, Conversions, Shifts, Comparisons
<1> QED BY <1>1, <1>2, <1>3, OtherCalls DEF Int64Correctly

LEMMA ComparisonCalls ==
    ASSUME NEW x \in I64!Operands \cup I64!Numbers, NEW y \in I64!Operands \cup I64!Numbers,
           x.type = "int64" \/ y.type = "int64", NEW op \in Comparisons,
           Called(op, x, y, I64!cmp(op, x, y))
    PROVE  Int64Correctly
<1>1. int64.op = op /\ int64.x = x /\ int64.y = y /\ int64.res = I64!cmp(op, x, y)
  BY DEF Called
<1>2. I64!ComparesByValue
  BY <1>1, CmpCompares DEF I64!ComparesByValue
<1>3. op \notin I64!Arith \cup {"unm"} \cup Shifts \cup Conversions
  BY DEF I64!Arith, Conversions, Shifts, Comparisons
<1> QED BY <1>1, <1>2, <1>3, OtherCalls DEF Int64Correctly

LEMMA Int64Init == ASSUME I64!Init PROVE Int64Correctly
<1>0. ASSUME NEW op, NEW x, NEW y, NEW r, I64!Call(op, x, y, r) PROVE Called(op, x, y, r)
  BY <1>0 DEF I64!Call, Called
<1>1. CASE \E op \in I64!Arith, a, b \in I64!Ints(I64!W) : I64!Call(op, a, b, I64!Apply(op, a, b))
  BY <1>0, <1>1, ArithmeticCalls
<1>2. CASE \E a \in I64!Ints(I64!W) : I64!Call("unm", a, 0, I64!int64___unm(a))
  BY <1>0, <1>2, NegateCalls
<1>3. CASE \E a \in I64!Ints(I64!W), b \in I64!Ints(I64!W) \ {I64!MinInt}, arith \in BOOLEAN :
              I64!Call(IF arith THEN "ashr" ELSE "shr", a, b, I64!shift_left(a, -b, arith))
  <2>1. PICK a \in I64!Ints(I64!W), b \in I64!Ints(I64!W), arith \in BOOLEAN :
              I64!Call(IF arith THEN "ashr" ELSE "shr", a, b, I64!shift_left(a, -b, arith))
    BY <1>3
  <2> DEFINE o == IF arith THEN "ashr" ELSE "shr"  r == I64!shift_left(a, -b, arith)
  <2>2. Called(o, a, b, r)
    <3>1. I64!Call(o, a, b, r)
      BY <2>1
    <3> HIDE DEF o, r
    <3> QED BY <1>0, <3>1
  <2> QED BY <2>1, <2>2, ShiftCalls
<1>4. CASE \E a \in I64!Ints(I64!W) : I64!Call("tointeger", a, 0, I64!int64_tointeger(a))
  <2>1. PICK a \in I64!Ints(I64!W) : I64!Call("tointeger", a, 0, I64!int64_tointeger(a))
    BY <1>4
  <2> DEFINE r == I64!int64_tointeger(a)
  <2>2. ConversionOf("tointeger", a, 0, r)
    BY ToIntegerKeeps DEF ConversionOf
  <2> HIDE DEF r
  <2> QED BY <1>0, <2>1, <2>2, ConversionCalls DEF r, Conversions
<1>5. CASE \E a \in I64!Ints(I64!W) : I64!Call("tonumber", a, 0, I64!int64_tonumber(a))
  <2>1. PICK a \in I64!Ints(I64!W) : I64!Call("tonumber", a, 0, I64!int64_tonumber(a))
    BY <1>5
  <2> DEFINE r == I64!int64_tonumber(a)
  <2>2. ConversionOf("tonumber", a, 0, r)
    BY ToNumberKeeps, ToNumberNearest DEF ConversionOf
  <2> HIDE DEF r
  <2> QED BY <1>0, <2>1, <2>2, ConversionCalls DEF r, Conversions
<1>6. CASE \E a \in I64!Ints(I64!W) : I64!Call("minint", a, 0, I64!push_minint(a))
  <2>1. PICK a \in I64!Ints(I64!W) : I64!Call("minint", a, 0, I64!push_minint(a))
    BY <1>6
  <2> DEFINE r == I64!push_minint(a)
  <2>2. ConversionOf("minint", a, 0, r)
    <3>1. r.v = a
      BY DEF I64!push_minint, I64!push_int64, I64!Val
    <3> QED BY <3>1 DEF ConversionOf
  <2> HIDE DEF r
  <2> QED BY <1>0, <2>1, <2>2, ConversionCalls DEF r, Conversions
<1>7. CASE \E a, b \in I64!Ints(IntBits) : I64!Call("new", a, b, I64!int64___new(<<a, b>>))
  <2>1. PICK a, b \in I64!Ints(IntBits) : I64!Call("new", a, b, I64!int64___new(<<a, b>>))
    BY <1>7
  <2> DEFINE r == I64!int64___new(<<a, b>>)
  <2>2. ConversionOf("new", a, b, r)
    BY HalvesKept DEF ConversionOf
  <2> HIDE DEF r
  <2> QED BY <1>0, <2>1, <2>2, ConversionCalls DEF r, Conversions
<1>8. CASE \E a \in I64!Ints(IntBits) : I64!Call("extend", a, 0, I64!int64___new(<<a>>))
  <2>1. PICK a \in I64!Ints(IntBits) : I64!Call("extend", a, 0, I64!int64___new(<<a>>))
    BY <1>8
  <2> DEFINE r == I64!int64___new(<<a>>)
  <2>2. ConversionOf("extend", a, 0, r)
    <3>1. r.v = a
      BY DEF I64!int64___new, I64!push_int64, I64!Val
    <3> QED BY <3>1 DEF ConversionOf
  <2> HIDE DEF r
  <2> QED BY <1>0, <2>1, <2>2, ConversionCalls DEF r, Conversions
<1>9. CASE \E h \in I64!Floats : I64!Call("int64", h, 0, I64!number_to_int64_eq(h))
  <2>1. PICK h \in I64!Floats : I64!Call("int64", h, 0, I64!number_to_int64_eq(h))
    BY <1>9
  <2> DEFINE r == I64!number_to_int64_eq(h)
  <2>2. ConversionOf("int64", h, 0, r)
    BY NumberKeeps DEF ConversionOf
  <2> HIDE DEF r
  <2> QED BY <1>0, <2>1, <2>2, ConversionCalls DEF r, Conversions
<1>10. CASE \E a \in I64!Ints(I64!W), base \in Bases :
              I64!Call("parse", a, base, I64!string_to_int64(a < 0, base, I64!Digits(I64!Abs(a), base)))
  <2>1. PICK a \in I64!Ints(I64!W), base \in Bases :
              I64!Call("parse", a, base, I64!string_to_int64(a < 0, base, I64!Digits(I64!Abs(a), base)))
    BY <1>10
  <2> DEFINE r == I64!string_to_int64(a < 0, base, I64!Digits(I64!Abs(a), base))
  <2>2. r = a
    BY DataAssumption, ParseKeeps
  <2> HIDE DEF r
  <2>3. ConversionOf("parse", a, base, r)
    BY <2>2 DEF ConversionOf
  <2>4. Called("parse", a, base, r)
    BY <1>0, <2>1 DEF r
  <2> QED BY <2>3, <2>4, ConversionCalls DEF Conversions
<1>11. CASE \E a \in I64!Ints(I64!W) :
              I64!Call("parse", a, 2, I64!string_to_int64(FALSE, 2, I64!Digits(I64!Unsigned(a), 2)))
  <2>1. PICK a \in I64!Ints(I64!W) :
              I64!Call("parse", a, 2, I64!string_to_int64(FALSE, 2, I64!Digits(I64!Unsigned(a), 2)))
    BY <1>11
  <2> DEFINE r == I64!string_to_int64(FALSE, 2, I64!Digits(I64!Unsigned(a), 2))
  <2>2. r = a
    <3> DEFINE two == 2
    <3>1. two \in Nat \ {0, 1}
      OBVIOUS
    <3> HIDE DEF two
    <3>2. I64!string_to_int64(FALSE, two, I64!Digits(I64!Unsigned(a), two)) = a
      BY <3>1, ParseKeeps
    <3> QED BY <3>2 DEF two
  <2> HIDE DEF r
  <2>3. ConversionOf("parse", a, 2, r)
    BY <2>2 DEF ConversionOf
  <2>4. Called("parse", a, 2, r)
    BY <1>0, <2>1 DEF r
  <2> QED BY <2>3, <2>4, ConversionCalls DEF Conversions
<1>12. CASE \E op \in {"eq", "lt", "le"}, x \in I64!Operands \cup I64!Numbers,
               y \in I64!Operands \cup I64!Numbers :
              /\ x.type = "int64" \/ y.type = "int64"
              /\ I64!Call(op, x, y, I64!cmp(op, x, y))
  BY <1>0, <1>12, ComparisonCalls DEF Comparisons
<1> QED BY <1>1, <1>2, <1>3, <1>4, <1>5, <1>6, <1>7, <1>8, <1>9, <1>10, <1>11, <1>12
        DEF I64!Init

-----------------------------------------------------------------------------
(* The models side by side. *)

LEMMA ModelMoves ==
    ASSUME [NextAll]_all
    PROVE  /\ which' = which
           /\ which = "lfs" => [Lfs!Next]_Lfs!vars
           /\ which = "loader" => [Loader!Next]_Loader!vars
           /\ which = "hash" => [Hash!Next]_Hash!vars
           /\ which = "ticks" => [Ticks!Next]_Ticks!vars
           /\ which = "mem" => [Mem!Next]_mem
           /\ which = "list" => [List!Next]_list
           /\ which = "int64" => UNCHANGED int64
           /\ which = "array" => [Array!Next]_array
BY DEF NextAll, all, data_parts, lfs, loader, hash, ticks, mem, list, array, Lfs!vars,
       Loader!vars, Hash!vars, Ticks!vars, I64!Next

\* A thread sleeps, and an alarm rings, neither before nor after the time that
\* was meant, and times compare and differ like what they stand for, for any
\* width of an integer and any clock that is far from the end of the times:
\* also where the low bits wrap around, where a deadline is capped, and where
\* an alarm is repeated (platform_common.h, mlua.time.c and pico.time.c).
THEOREM TimesCorrect == SpecAll => []TimesAreKept
<1> DEFINE Inv == which = "ticks" => TickInv
<1>1. InitAll => Inv
  BY TickInit DEF InitAll
<1>2. Inv /\ [NextAll]_all => Inv'
  BY TickStep, ModelMoves
<1>3. Inv => TimesAreKept
  BY TimesMeant DEF TimesAreKept
<1> QED BY <1>1, <1>2, <1>3, PTL DEF SpecAll

\* A call on a buffer, or on the block device that is made of it, with any
\* offset and length, acts on just the bytes that it asks for if they are
\* inside, and is refused otherwise, except where the end of its range wraps
\* around to one inside: it then goes beyond the buffer, and only then.  The
\* offsets and lengths are unsigned numbers of any width, and the buffer has any
\* size below half of their range (mlua.mem.c, mlua.block.c, mlua.block.mem.c).
THEOREM MemCorrect == SpecAll => MemActsInBounds
<1> DEFINE Inv == which = "mem" => (mem_call.op = "none" => MemTyped)
           Acts == which = "mem" => Mem!ActsInBounds
<1>1. InitAll => Inv
  BY DEF InitAll, Mem!Init, MemTyped, Mem!Byte
<1>2. Inv /\ [NextAll]_all => Inv' /\ [Acts]_mem
  <2> SUFFICES ASSUME Inv, [NextAll]_all PROVE Inv' /\ [Acts]_mem
    OBVIOUS
  <2>1. CASE which # "mem"
    BY <2>1, ModelMoves
  <2>2. CASE which = "mem" /\ UNCHANGED mem
    BY <2>2, ModelMoves DEF mem, MemTyped
  <2>3. CASE which = "mem" /\ Mem!Next
    BY <2>3, MemActs
  <2> QED BY <2>1, <2>2, <2>3, ModelMoves
<1>3. SpecAll => [][Acts]_mem
  BY <1>1, <1>2, PTL DEF SpecAll
<1> QED BY <1>3 DEF MemActsInBounds

\* The arithmetic of an Int64 is that of the integers modulo 2^W, with floor
\* division; a shift is a multiple or a quotient; a conversion keeps the value or
\* fails, but for tonumber(), which returns the nearest number; and a comparison
\* is one of values, but for the numbers beyond the range, whose answers are
\* those of Beyond.  The width of a lua_Integer is any, and so are the mantissa,
\* which an Int64 is wider than, and the bases: the smallest integer divided by
\* -1, shifts of more than the width, all the digits of the unsigned value and
\* numbers with a fraction are included (mlua.int64.c).
THEOREM Int64Correct == SpecAll => []Int64Computes
<1> DEFINE Inv == which = "int64" => Int64Correctly
<1>1. InitAll => Inv
  BY Int64Init DEF InitAll
<1>2. Inv /\ [NextAll]_all => Inv'
  <2> SUFFICES ASSUME Inv, [NextAll]_all PROVE Inv'
    OBVIOUS
  <2>1. which' = which /\ (which = "int64" => int64' = int64)
    BY ModelMoves
  <2> QED BY <2>1 DEF Int64Correctly, I64!ArithmeticIsModular, I64!ShiftsScale,
             I64!ConversionsKeepValue, I64!ComparesByValue
<1>3. Inv => Int64Computes
  BY DEF Int64Correctly, Int64Computes
<1> QED BY <1>1, <1>2, <1>3, PTL DEF SpecAll
=============================================================================
