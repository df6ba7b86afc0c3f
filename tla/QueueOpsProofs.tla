--------------------------- MODULE QueueOpsProofs ---------------------------
(* What the operators of QueueOps return, for queues without repetition.   *)
EXTENDS QueueOps, Functions, SequenceTheorems, FiniteSetTheorems,
        WellFoundedInduction, TLAPS

\* The empty queue.
LEMMA EmptyQueue == Distinct(<<>>) /\ Elements(<<>>) = {}
  BY DEF Distinct, Elements

\* Appending a new element.
LEMMA AppendNew ==
  ASSUME NEW S, NEW s \in Seq(S), NEW e \in S, Distinct(s), e \notin Elements(s)
  PROVE  /\ Append(s, e) \in Seq(S)
         /\ Distinct(Append(s, e))
         /\ Elements(Append(s, e)) = Elements(s) \cup {e}
  BY DEF Distinct, Elements

\* Concatenating two queues that have nothing in common.
LEMMA ConcatDisjoint ==
  ASSUME NEW S, NEW s \in Seq(S), NEW t \in Seq(S), Distinct(s), Distinct(t),
         Elements(s) \cap Elements(t) = {}
  PROVE  /\ s \o t \in Seq(S)
         /\ Distinct(s \o t)
         /\ Elements(s \o t) = Elements(s) \cup Elements(t)
<1> DEFINE u == s \o t
<1>1. /\ u \in Seq(S)
      /\ Len(u) = Len(s) + Len(t)
      /\ \A i \in 1..(Len(s) + Len(t)) :
            u[i] = IF i <= Len(s) THEN s[i] ELSE t[i - Len(s)]
  BY ConcatProperties
<1>2. /\ DOMAIN s = 1..Len(s) /\ DOMAIN t = 1..Len(t) /\ DOMAIN u = 1..Len(u)
      /\ Len(s) \in Nat /\ Len(t) \in Nat /\ Len(u) \in Nat
  BY <1>1
<1> HIDE DEF u
<1>3. Distinct(u)
  <2> SUFFICES ASSUME NEW i \in DOMAIN u, NEW j \in DOMAIN u, u[i] = u[j]
               PROVE  i = j
    BY DEF Distinct
  <2>1. i \in Nat /\ j \in Nat BY <1>2
  <2>2. CASE i <= Len(s) /\ j <= Len(s)
    BY <1>1, <1>2, <2>1, <2>2 DEF Distinct
  <2>3. CASE i > Len(s) /\ j > Len(s)
    <3>1. i - Len(s) \in DOMAIN t /\ j - Len(s) \in DOMAIN t
      BY <1>1, <1>2, <2>1, <2>3
    <3>2. t[i - Len(s)] = t[j - Len(s)] BY <1>1, <1>2, <2>1, <2>3
    <3>3. i - Len(s) = j - Len(s) BY <3>1, <3>2 DEF Distinct
    <3> QED BY <3>3, <2>1, <1>2
  <2>4. CASE i <= Len(s) /\ j > Len(s)
    <3>1. s[i] = t[j - Len(s)] /\ i \in DOMAIN s /\ j - Len(s) \in DOMAIN t
      BY <1>1, <1>2, <2>1, <2>4
    <3> QED BY <3>1 DEF Elements
  <2>5. CASE i > Len(s) /\ j <= Len(s)
    <3>1. s[j] = t[i - Len(s)] /\ j \in DOMAIN s /\ i - Len(s) \in DOMAIN t
      BY <1>1, <1>2, <2>1, <2>5
    <3> QED BY <3>1 DEF Elements
  <2> QED BY <2>1, <2>2, <2>3, <2>4, <2>5, <1>2
<1>4. Elements(u) = Elements(s) \cup Elements(t)
  <2>1. ASSUME NEW i \in DOMAIN u PROVE u[i] \in Elements(s) \cup Elements(t)
    <3>1. CASE i <= Len(s)
      BY <1>1, <1>2, <3>1 DEF Elements
    <3>2. CASE i > Len(s)
      <4>1. i - Len(s) \in DOMAIN t /\ u[i] = t[i - Len(s)]
        BY <1>1, <1>2, <3>2
      <4> QED BY <4>1 DEF Elements
    <3> QED BY <3>1, <3>2, <1>2
  <2>2. ASSUME NEW i \in DOMAIN s PROVE s[i] \in Elements(u)
    BY <1>1, <1>2 DEF Elements
  <2>3. ASSUME NEW i \in DOMAIN t PROVE t[i] \in Elements(u)
    <3>1. i + Len(s) \in DOMAIN u /\ u[i + Len(s)] = t[i]
      BY <1>1, <1>2
    <3> QED BY <3>1 DEF Elements
  <2> QED BY <2>1, <2>2, <2>3 DEF Elements
<1> QED BY <1>1, <1>3, <1>4 DEF u

\* A queue without repetition, cut in two.
LEMMA ConcatParts ==
  ASSUME NEW S, NEW s \in Seq(S), NEW t \in Seq(S), Distinct(s \o t)
  PROVE  /\ Distinct(s) /\ Distinct(t)
         /\ Elements(s) \cap Elements(t) = {}
         /\ Elements(s \o t) = Elements(s) \cup Elements(t)
<1> DEFINE u == s \o t
<1>1. /\ Len(u) = Len(s) + Len(t) /\ u \in Seq(S)
      /\ \A i \in 1..Len(s) : i \in 1..Len(u) /\ u[i] = s[i]
      /\ \A i \in 1..Len(t) : Len(s) + i \in 1..Len(u) /\ u[Len(s) + i] = t[i]
  OBVIOUS
<1>2. \A i \in 1..Len(u) : i \in 1..Len(s) \/ \E j \in 1..Len(t) : i = Len(s) + j
  <2>1. TAKE i \in 1..Len(u)
  <2>2. i \in 1..Len(s) \/ (i - Len(s) \in 1..Len(t) /\ i = Len(s) + (i - Len(s)))
    BY <1>1
  <2> QED BY <2>2
<1>3. DOMAIN s = 1..Len(s) /\ DOMAIN t = 1..Len(t) /\ DOMAIN u = 1..Len(u)
  BY <1>1
<1>4. \A i, j \in 1..Len(u) : u[i] = u[j] => i = j
  BY <1>3 DEF Distinct
<1> HIDE DEF u
<1>5. Distinct(s) /\ Distinct(t)
  <2>1. \A i, j \in 1..Len(s) : s[i] = s[j] => i = j
    BY <1>1, <1>4
  <2>2. \A i, j \in 1..Len(t) : t[i] = t[j] => i = j
    <3>1. TAKE i, j \in 1..Len(t)
    <3>2. HAVE t[i] = t[j]
    <3>3. Len(s) + i = Len(s) + j
      BY <1>1, <1>4, <3>2
    <3> QED BY <3>3
  <2> QED BY <1>3, <2>1, <2>2 DEF Distinct
<1>6. Elements(s) \cap Elements(t) = {}
  <2>1. \A i \in 1..Len(s), j \in 1..Len(t) : s[i] # t[j]
    BY <1>1, <1>4
  <2> QED BY <1>3, <2>1 DEF Elements
<1>7. Elements(u) = Elements(s) \cup Elements(t)
  <2>1. \A i \in 1..Len(u) : u[i] \in {s[j] : j \in 1..Len(s)} \cup {t[j] : j \in 1..Len(t)}
    BY <1>1, <1>2
  <2>2. /\ \A i \in 1..Len(s) : s[i] \in {u[j] : j \in 1..Len(u)}
        /\ \A i \in 1..Len(t) : t[i] \in {u[j] : j \in 1..Len(u)}
    BY <1>1
  <2> QED BY <1>3, <2>1, <2>2 DEF Elements
<1> QED BY <1>5, <1>6, <1>7 DEF u

\* Taking one element out.
LEMMA WithoutElement ==
  ASSUME NEW S, NEW s \in Seq(S), NEW e, Distinct(s)
  PROVE  /\ Without(s, e) \in Seq(S)
         /\ Distinct(Without(s, e))
         /\ Elements(Without(s, e)) = Elements(s) \ {e}
<1>1. CASE e \notin Elements(s)
  BY <1>1 DEF Without, Elements
<1>2. CASE e \in Elements(s)
  <2> DEFINE k == CHOOSE i \in DOMAIN s : s[i] = e
             a == SubSeq(s, 1, k - 1)
             b == SubSeq(s, k + 1, Len(s))
  <2>1. k \in 1..Len(s) /\ s[k] = e
    BY <1>2 DEF Elements
  <2>2. Without(s, e) = a \o b
    BY <1>2 DEF Without
  <2> HIDE DEF k
  <2>3. /\ a \in Seq(S) /\ b \in Seq(S)
        /\ Len(a) = k - 1 /\ Len(b) = Len(s) - k
        /\ \A i \in 1..(k - 1) : a[i] = s[i]
        /\ \A i \in 1..(Len(s) - k) : b[i] = s[k + i]
    <3>1. k \in Nat /\ Len(s) \in Nat /\ k \in 1..Len(s)
      BY <2>1
    <3>2. a \in Seq(S) /\ Len(a) = k - 1 /\ \A i \in 1..(k - 1) : a[i] = s[i]
      BY <3>1, SubSeqProperties
    <3>3. b \in Seq(S) /\ Len(b) = Len(s) - k /\ \A i \in 1..(Len(s) - k) : b[i] = s[k + i]
      BY <3>1, SubSeqProperties
    <3> QED BY <3>2, <3>3
  <2> HIDE DEF a, b
  <2>0. /\ DOMAIN a = 1..(k - 1) /\ DOMAIN b = 1..(Len(s) - k)
        /\ DOMAIN s = 1..Len(s) /\ Len(s) \in Nat
    BY <2>3
  <2>4. Distinct(a) /\ Distinct(b)
    <3>1. Distinct(a)
      BY <2>0, <2>1, <2>3 DEF Distinct
    <3>2. ASSUME NEW i \in DOMAIN b, NEW j \in DOMAIN b, b[i] = b[j]
          PROVE  i = j
      <4>1. k + i \in DOMAIN s /\ k + j \in DOMAIN s /\ s[k + i] = s[k + j]
        BY <2>0, <2>1, <2>3, <3>2
      <4>2. k + i = k + j BY <4>1 DEF Distinct
      <4> QED BY <4>2, <2>0, <2>1
    <3> QED BY <3>1, <3>2 DEF Distinct
  <2>5. Elements(a) = {s[i] : i \in 1..(k - 1)}
    BY <2>0, <2>1, <2>3 DEF Elements
  <2>6. Elements(b) = {s[i] : i \in (k + 1)..Len(s)}
    <3>1. ASSUME NEW i \in (k + 1)..Len(s) PROVE s[i] \in Elements(b)
      <4>1. i - k \in DOMAIN b /\ b[i - k] = s[i]
        BY <2>0, <2>1, <2>3
      <4> QED BY <4>1 DEF Elements
    <3>2. ASSUME NEW i \in DOMAIN b
          PROVE  b[i] \in {s[j] : j \in (k + 1)..Len(s)}
      <4>1. k + i \in (k + 1)..Len(s) /\ b[i] = s[k + i]
        BY <2>0, <2>1, <2>3
      <4> QED BY <4>1
    <3> QED BY <3>1, <3>2 DEF Elements
  <2>7. Elements(a) \cap Elements(b) = {}
    BY <2>0, <2>1, <2>5, <2>6 DEF Distinct
  <2>8. Elements(a) \cup Elements(b) = Elements(s) \ {e}
    <3>1. \A i \in DOMAIN s : i # k => s[i] # e
      BY <2>0, <2>1 DEF Distinct
    <3>2. DOMAIN s = 1..(k - 1) \cup {k} \cup (k + 1)..Len(s)
      BY <2>0, <2>1
    <3>3. \A i \in 1..(k - 1) \cup (k + 1)..Len(s) : i \in DOMAIN s /\ i # k
      BY <2>0, <2>1
    <3> QED BY <2>1, <2>5, <2>6, <3>1, <3>2, <3>3 DEF Elements
  <2> QED BY <2>2, <2>3, <2>4, <2>7, <2>8, ConcatDisjoint
<1> QED BY <1>1, <1>2

\* What is behind the element taken out moves up.
LEMMA WithoutIs ==
  ASSUME NEW S, NEW s \in Seq(S), Distinct(s), NEW k \in DOMAIN s
  PROVE  /\ Len(Without(s, s[k])) = Len(s) - 1
         /\ \A i \in 1..(Len(s) - 1) :
               Without(s, s[k])[i] = IF i < k THEN s[i] ELSE s[i + 1]
<1> DEFINE a == SubSeq(s, 1, k - 1)
           b == SubSeq(s, k + 1, Len(s))
<1>1. k \in 1..Len(s) /\ Len(s) \in Nat
  OBVIOUS
<1>2. (CHOOSE i \in DOMAIN s : s[i] = s[k]) = k
  BY DEF Distinct
<1>3. Without(s, s[k]) = a \o b
  BY <1>2 DEF Without, Elements
<1>4. /\ a \in Seq(S) /\ Len(a) = k - 1 /\ \A i \in 1..(k - 1) : a[i] = s[i]
  BY <1>1, SubSeqProperties
<1>5. /\ b \in Seq(S) /\ Len(b) = Len(s) - k
      /\ \A i \in 1..(Len(s) - k) : b[i] = s[k + i]
  BY <1>1, SubSeqProperties
<1> HIDE DEF a, b
<1>6. /\ Len(a \o b) = Len(s) - 1
      /\ \A i \in 1..(Len(s) - 1) : (a \o b)[i] = IF i < k THEN a[i] ELSE b[i - (k - 1)]
  <2>1. /\ Len(a \o b) = Len(a) + Len(b)
        /\ \A i \in 1..(Len(a) + Len(b)) :
              (a \o b)[i] = IF i <= Len(a) THEN a[i] ELSE b[i - Len(a)]
    BY <1>4, <1>5, ConcatProperties
  <2>2. Len(a) + Len(b) = Len(s) - 1 /\ \A i \in Int : i <= Len(a) <=> i < k
    BY <1>1, <1>4, <1>5
  <2> QED BY <1>4, <2>1, <2>2
<1>7. ASSUME NEW i \in 1..(Len(s) - 1)
      PROVE  (a \o b)[i] = IF i < k THEN s[i] ELSE s[i + 1]
  <2>1. CASE i < k
    BY <1>1, <1>4, <1>6, <2>1
  <2>2. CASE ~ (i < k)
    <3>1. i - (k - 1) \in 1..(Len(s) - k) /\ k + (i - (k - 1)) = i + 1
      BY <1>1, <2>2
    <3> QED BY <1>5, <1>6, <2>2, <3>1
  <2> QED BY <2>1, <2>2
<1> QED BY <1>3, <1>6, <1>7

\* Taking the first element off.
LEMMA HeadAndTail ==
  ASSUME NEW S, NEW s \in Seq(S), Distinct(s), s # <<>>
  PROVE  /\ Head(s) \in S
         /\ Tail(s) \in Seq(S)
         /\ Distinct(Tail(s))
         /\ Head(s) \notin Elements(Tail(s))
         /\ Elements(s) = Elements(Tail(s)) \cup {Head(s)}
<1> DEFINE t == Tail(s)
<1>1. /\ Head(s) \in S /\ t \in Seq(S) /\ Len(t) = Len(s) - 1
      /\ \A i \in 1..Len(t) : t[i] = s[i + 1]
  BY HeadTailProperties
<1>2. Head(s) = s[1] /\ 1 \in DOMAIN s
  OBVIOUS
<1> HIDE DEF t
<1>3. ASSUME NEW i \in DOMAIN t PROVE i + 1 \in DOMAIN s /\ t[i] = s[i + 1]
  BY <1>1
<1>4. ASSUME NEW i \in DOMAIN s, i # 1 PROVE i - 1 \in DOMAIN t /\ s[i] = t[i - 1]
  BY <1>1, <1>4
<1>5. Distinct(t)
  <2> SUFFICES ASSUME NEW i \in DOMAIN t, NEW j \in DOMAIN t, t[i] = t[j]
               PROVE  i = j
    BY DEF Distinct
  <2>1. i + 1 = j + 1 BY <1>3 DEF Distinct
  <2> QED BY <2>1, <1>1
<1>6. Head(s) \notin Elements(t)
  <2> SUFFICES ASSUME NEW i \in DOMAIN t, t[i] = s[1] PROVE FALSE
    BY <1>2 DEF Elements
  <2>1. i + 1 = 1 BY <1>2, <1>3 DEF Distinct
  <2> QED BY <2>1, <1>1
<1>7. Elements(s) = Elements(t) \cup {Head(s)}
  BY <1>2, <1>3, <1>4 DEF Elements
<1> QED BY <1>1, <1>5, <1>6, <1>7 DEF t

\* An order of a finite set lists all of it.
LEMMA OrderElements ==
  ASSUME NEW S, IsFiniteSet(S), NEW s \in Orders(S)
  PROVE  /\ s \in Seq(S)
         /\ Distinct(s)
         /\ Elements(s) = S
<1> DEFINE n == Cardinality(S)
<1>1. n \in Nat
  BY FS_CardinalityType
<1>2. s \in [1..n -> S] /\ Distinct(s)
  BY DEF Orders
<1>3. s \in Injection(1..n, S)
  BY <1>2 DEF Injection, IsInjective, Distinct
<1>4. Cardinality(1..n) = n
  BY <1>1, FS_Interval
<1>5. s \in Surjection(1..n, S)
  BY <1>3, <1>4, FS_Injection
<1>6. Elements(s) = S
  BY <1>2, <1>5 DEF Surjection, Elements
<1>7. s \in Seq(S)
  BY <1>1, <1>2 
<1> QED BY <1>2, <1>6, <1>7

\* A set of natural numbers has a least one.
LEMMA LeastNumber ==
  ASSUME NEW T \in SUBSET Nat, T # {}
  PROVE  \E x \in T : \A y \in T : x <= y
<1>1. PICK x \in T : \A y \in T : ~ (<<y, x>> \in OpToRel(<, Nat))
  BY NatLessThanWellFounded, WFMin
<1>2. \A y \in T : ~ (y < x)
  BY <1>1 DEF OpToRel
<1> QED BY <1>2
=============================================================================
