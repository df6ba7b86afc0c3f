---------------------------- MODULE SymbolProofs ----------------------------
(*****************************************************************************)
(* The proof that the hash of a symbol table is perfect: the traversal of    *)
(* the graph, and the packed bits of its values.                             *)
(*****************************************************************************)
EXTENDS NumberProofs

-----------------------------------------------------------------------------
(* What the traversal keeps. *)

\* The values h of the vertices of the key k add up to its index.
HashAdds(h, k) == (h[edge[k][1]] + h[edge[k][2]]) % NKeys = k - 1

HashEdgesInv ==
    \A k \in Hash!Keys : /\ edge[k][1] \in Hash!Vertices /\ edge[k][2] \in Hash!Vertices
                         /\ edge[k][1] # edge[k][2]

HashEntries == (Hash!Vertices \cup {Hash!NoVertex}) \X Hash!Vertices

\* The parent in an entry of the stack is one of V, and some key connects it
\* with the vertex.  A root has no parent.
HashReached(st, V) ==
    \A i \in 1..Len(st) :
       \/ st[i][1] = Hash!NoVertex
       \/ st[i][1] \in V /\ \E k \in Hash!Keys : Hash!Ends(k) = {st[i][1], st[i][2]}

\* One of these keys has the value of the vertex in h.
HashValued(st, h, i) ==
    st[i][1] # Hash!NoVertex =>
        \E k \in Hash!Keys : Hash!Ends(k) = {st[i][1], st[i][2]} /\ HashAdds(h, k)

\* A vertex that is on the stack more than once has the value of the last push.
HashIsLast(st, i) == \A j \in 1..Len(st) : i < j => st[j][2] # st[i][2]

HashTypeInv ==
    /\ step \in {"attempt", "assign", "done"}
    /\ g \in [Hash!Vertices -> Int]
    /\ visited \subseteq Hash!Vertices
    /\ stack \in Seq(HashEntries)

\* The keys between vertices that were visited have their values.
HashVisitedInv ==
    /\ HashEdgesInv
    /\ \A k \in Hash!Keys : Hash!Ends(k) \subseteq visited => HashAdds(g, k)
    /\ HashReached(stack, visited)
    /\ \A i \in 1..Len(stack) : HashIsLast(stack, i) => HashValued(stack, g, i)

\* A number that a vertex may have.
HashRange == {0} \cup 0..(NKeys - 1)

\* Some keys in S are a path between u and v: all but these two are ends of
\* another key, wherever they are the end of one.
HashPath(K, u, v) ==
    /\ \E k \in K : u \in Hash!Ends(k)
    /\ \E k \in K : v \in Hash!Ends(k)
    /\ \A x \in K : \A z \in Hash!Ends(x) \ {u, v} : \E y \in K \ {x} : z \in Hash!Ends(y)
HashLinked(u, v, S) ==
    \E K \in SUBSET Hash!Keys : (\A k \in K : Hash!Ends(k) \subseteq S) /\ HashPath(K, u, v)

\* Each set of keys between vertices of S has a leaf.
HashLeaf(K) == \E k \in K : \E v \in Hash!Ends(k) : \A j \in K \ {k} : v \notin Hash!Ends(j)
HashForest(S) ==
    \A K \in (SUBSET Hash!Keys) \ {{}} : (\A k \in K : Hash!Ends(k) \subseteq S) => HashLeaf(K)

\* Two entries of the stack come from different keys.
HashApart(e, f) ==
    \E k, l \in Hash!Keys : k # l /\ Hash!Ends(k) = {e[1], e[2]} /\ Hash!Ends(l) = {f[1], f[2]}
HashPairs(st) ==
    \A i, j \in 1..Len(st) :
       i # j /\ st[i][1] # Hash!NoVertex /\ st[j][1] # Hash!NoVertex => HashApart(st[i], st[j])

\* The vertex is on the stack.
HashOn(st, v) == \E i \in 1..Len(st) : st[i][2] = v

\* S is connected with no other vertex.
HashClosed(S) == \A k \in Hash!Keys : Hash!Ends(k) \cap S # {} => Hash!Ends(k) \subseteq S

\* The trees before the current one are in S, and the current one is connected.
HashTree(S) ==
    /\ S \subseteq visited /\ HashClosed(S)
    /\ \A u, v \in visited \ S : u = v \/ HashLinked(u, v, visited)
    /\ \A i \in 1..Len(stack) : stack[i][1] = Hash!NoVertex => Len(stack) = 1 /\ visited = S

HashTreeInv ==
    /\ \A v \in Hash!Vertices : g[v] \in HashRange
    /\ HashForest(visited)
    /\ HashPairs(stack)
    /\ \A i \in 1..Len(stack) : stack[i][2] \notin visited
    /\ \A k \in Hash!Keys : Hash!Ends(k) \cap visited # {} =>
          \A v \in Hash!Ends(k) : v \in visited \/ HashOn(stack, v)
    /\ \E S : HashTree(S)

HashInv ==
    /\ HashTypeInv
    /\ step = "attempt" => visited = {} /\ stack = <<>> /\ \A v \in Hash!Vertices : g[v] = 0
    /\ step = "assign" => HashVisitedInv /\ HashTreeInv
    /\ Hash!ValuesArePerfect

-----------------------------------------------------------------------------
(* The loop over the neighbours of a vertex. *)

\* What Value() gives to a neighbour makes the sum right.
LEMMA ValueAdds ==
  ASSUME NEW N \in Nat \ {0}, NEW e \in 0..(N - 1), NEW a \in Int
  PROVE  (((e - a) % N) + a) % N = e
<1> DEFINE q == (e - a) \div N
           r == (e - a) % N
<1>1. q \in Int /\ r \in 0..(N - 1) /\ e - a = (N * q) + r
  OBVIOUS
<1> HIDE DEF q, r
<1>2. r + a = (N * (-q)) + e /\ -q \in Int
  BY <1>1
<1>3. ASSUME NEW b \in Int, NEW j \in Int, NEW x \in 0..(N - 1), b = (N * j) + x
      PROVE  b % N = x
  BY <1>3
<1>4. (r + a) % N = e
  <2> DEFINE b == r + a  j == -q
  <2>1. b \in Int /\ j \in Int /\ b = (N * j) + e
    BY <1>1, <1>2
  <2> HIDE DEF b, j
  <2>2. b % N = e
    BY ONLY <1>3, <2>1, e \in 0..(N - 1)
  <2> QED BY <2>2 DEF b
<1> QED BY <1>4 DEF r

\* The states of the loop over the neighbours of w.
HashLoops == [cyclic : BOOLEAN, seen : BOOLEAN, g : [Hash!Vertices -> Int],
              stack : Seq(HashEntries)]

\* The key k leads from w back to V.
HashBack(k, w, V) == w \in Hash!Ends(k) /\ Hash!Opposite(k, w) \in V

\* Of the first m keys, at most one leads back, to the parent p.
HashLoopInv(acc, m, p, w) ==
    LET V == visited \cup {w}
    IN /\ acc \in HashLoops
       /\ ~acc.cyclic =>
             /\ \A k \in 1..m : HashBack(k, w, V) => acc.seen /\ Hash!Opposite(k, w) = p
             /\ \A k, j \in 1..m : HashBack(k, w, V) /\ HashBack(j, w, V) => k = j
             /\ \A v \in V : acc.g[v] = g[v]
             /\ HashReached(acc.stack, V)
             /\ \A i \in 1..Len(acc.stack) :
                   HashIsLast(acc.stack, i) /\ acc.stack[i][2] # w
                      => HashValued(acc.stack, acc.g, i)

LEMMA AppendEntry ==
  ASSUME NEW st \in Seq(HashEntries), NEW x \in HashEntries
  PROVE  /\ Append(st, x) \in Seq(HashEntries) /\ Len(st) \in Nat
         /\ Len(Append(st, x)) = Len(st) + 1
         /\ \A i \in 1..Len(st) : Append(st, x)[i] = st[i] /\ i \in 1..(Len(st) + 1)
         /\ Append(st, x)[Len(st) + 1] = x
         /\ \A i \in 1..(Len(st) + 1) : i \in 1..Len(st) \/ i = Len(st) + 1
  OBVIOUS

LEMMA HashOpposite ==
  ASSUME HashEdgesInv, NEW k \in Hash!Keys, NEW w, w \in Hash!Ends(k)
  PROVE  /\ Hash!Opposite(k, w) \in Hash!Vertices /\ w \in Hash!Vertices
         /\ Hash!Ends(k) = {w, Hash!Opposite(k, w)} /\ w # Hash!Opposite(k, w)
         /\ \A h \in [Hash!Vertices -> Int] :
               HashAdds(h, k) <=> (h[Hash!Opposite(k, w)] + h[w]) % NKeys = k - 1
<1>1. CASE edge[k][1] = w
  BY <1>1 DEF HashEdgesInv, Hash!Ends, Hash!Opposite, HashAdds
<1>2. CASE edge[k][1] # w
  <2>1. edge[k][2] = w
    BY <1>2 DEF Hash!Ends
  <2>2. ASSUME NEW h \in [Hash!Vertices -> Int]
        PROVE  h[edge[k][1]] + h[edge[k][2]] = h[edge[k][2]] + h[edge[k][1]]
    BY DEF HashEdgesInv
  <2> QED BY <1>2, <2>1, <2>2 DEF HashEdgesInv, Hash!Ends, Hash!Opposite, HashAdds
<1> QED BY <1>1, <1>2

\* One key of the loop.
LEMMA HashStep ==
  ASSUME HashEdgesInv, g \in [Hash!Vertices -> Int], visited \subseteq Hash!Vertices,
         NKeys \in Nat, NEW m \in 1..NKeys, NEW w \in Hash!Vertices, NEW p, NEW acc,
         HashLoopInv(acc, m - 1, p, w)
  PROVE  HashLoopInv(Hash!Step(acc, m, p, w), m, p, w)
<1> DEFINE V == visited \cup {w}
           u == Hash!Opposite(m, w)
           r == Hash!Step(acc, m, p, w)
<1>1. m \in Hash!Keys /\ \A k \in 1..m : k \in 1..(m - 1) \/ k = m
  BY DEF Hash!Keys
<1>2. /\ acc \in HashLoops
      /\ acc.cyclic \in BOOLEAN /\ acc.seen \in BOOLEAN
      /\ acc.g \in [Hash!Vertices -> Int] /\ acc.stack \in Seq(HashEntries)
  BY DEF HashLoopInv, HashLoops
<1>3. CASE acc.cyclic
  <2>1. r = acc
    BY <1>3 DEF Hash!Step
  <2> QED BY <1>2, <1>3, <2>1 DEF HashLoopInv
<1>4. CASE ~acc.cyclic /\ w \notin Hash!Ends(m)
  <2>1. r = acc /\ ~HashBack(m, w, V)
    BY <1>4 DEF Hash!Step, HashBack
  <2> QED BY <1>1, <1>4, <2>1 DEF HashLoopInv
<1>5. CASE ~acc.cyclic /\ w \in Hash!Ends(m) /\ Hash!Ignored(acc, u, p)
  <2>1. r = [acc EXCEPT !.seen = TRUE] /\ ~acc.seen /\ u = p
    BY <1>5 DEF Hash!Step, Hash!Ignored
  <2>2. /\ r \in HashLoops /\ r.seen /\ r.cyclic = acc.cyclic /\ r.g = acc.g
        /\ r.stack = acc.stack
    BY <1>2, <2>1 DEF HashLoops
  <2> HIDE DEF r, u
  <2>3. \A k \in 1..(m - 1) : ~HashBack(k, w, V)
    BY <1>5, <2>1 DEF HashLoopInv
  <2>4. /\ \A v \in V : acc.g[v] = g[v]
        /\ HashReached(acc.stack, V)
        /\ \A i \in 1..Len(acc.stack) :
              HashIsLast(acc.stack, i) /\ acc.stack[i][2] # w
                 => HashValued(acc.stack, acc.g, i)
    BY <1>5 DEF HashLoopInv
  <2>5. \A k \in 1..m : HashBack(k, w, V) => k = m /\ Hash!Opposite(k, w) = p
    BY <1>1, <2>1, <2>3 DEF u
  <2> HIDE DEF V
  <2>6. /\ \A k \in 1..m : HashBack(k, w, V) => r.seen /\ Hash!Opposite(k, w) = p
        /\ \A k, j \in 1..m : HashBack(k, w, V) /\ HashBack(j, w, V) => k = j
    BY ONLY <2>2, <2>5
  <2>7. /\ \A v \in V : r.g[v] = g[v]
        /\ HashReached(r.stack, V)
        /\ \A i \in 1..Len(r.stack) :
              HashIsLast(r.stack, i) /\ r.stack[i][2] # w => HashValued(r.stack, r.g, i)
    BY ONLY <2>2, <2>4
  <2>8. HashLoopInv(r, m, p, w)
    BY ONLY <2>2, <2>6, <2>7 DEF HashLoopInv, V
  <2> QED BY <2>8 DEF r
<1>6. CASE ~acc.cyclic /\ w \in Hash!Ends(m) /\ ~Hash!Ignored(acc, u, p) /\ u \in V
  <2>1. r = [acc EXCEPT !.cyclic = TRUE]
    BY <1>6 DEF Hash!Step
  <2>2. r \in HashLoops /\ r.cyclic
    BY <1>2, <2>1 DEF HashLoops
  <2> QED BY <2>2 DEF HashLoopInv
<1>7. CASE ~acc.cyclic /\ w \in Hash!Ends(m) /\ ~Hash!Ignored(acc, u, p) /\ u \notin V
  <2> DEFINE x == <<w, u>>
             new == Hash!Value(m - 1, acc.g[w])
             h == [acc.g EXCEPT ![u] = new]
             st == Append(acc.stack, x)
  <2>1. /\ u \in Hash!Vertices /\ Hash!Ends(m) = {w, u} /\ w # u
        /\ \A f \in [Hash!Vertices -> Int] : HashAdds(f, m) <=> (f[u] + f[w]) % NKeys = m - 1
    BY <1>1, <1>7, HashOpposite
  <2>2. new \in Int /\ (new + acc.g[w]) % NKeys = m - 1
    <3>1. NKeys \in Nat \ {0} /\ m - 1 \in 0..(NKeys - 1) /\ acc.g[w] \in Int
      BY <1>2
    <3>2. new \in Int
      BY <3>1 DEF Hash!Value
    <3> QED BY <3>1, <3>2, ValueAdds DEF Hash!Value
  <2>3. x \in HashEntries /\ x[1] = w /\ x[2] = u /\ w # Hash!NoVertex
    BY <2>1 DEF HashEntries, Hash!NoVertex, Hash!Vertices
  <2>4. r = [acc EXCEPT !.g[u] = new, !.stack = st]
    BY <1>7 DEF Hash!Step
  <2> HIDE DEF new, u, x, r
  <2>5. h \in [Hash!Vertices -> Int] /\ h[u] = new /\ \A v \in Hash!Vertices \ {u} : h[v] = acc.g[v]
    BY <1>2, <2>1, <2>2
  <2>6. /\ st \in Seq(HashEntries) /\ Len(acc.stack) \in Nat
        /\ Len(st) = Len(acc.stack) + 1 /\ st[Len(acc.stack) + 1] = x
        /\ \A i \in 1..Len(acc.stack) : st[i] = acc.stack[i] /\ i \in 1..Len(st)
        /\ \A i \in 1..Len(st) : i \in 1..Len(acc.stack) \/ i = Len(acc.stack) + 1
    BY <1>2, <2>3, AppendEntry
  <2>7. r = [acc EXCEPT !.g = h, !.stack = st]
    BY <1>2, <2>4 DEF HashLoops
  <2> HIDE DEF h, st
  <2>8. /\ r \in HashLoops /\ r.g = h /\ r.stack = st /\ r.cyclic = acc.cyclic
        /\ r.seen = acc.seen
    BY <1>2, <2>5, <2>6, <2>7 DEF HashLoops
  <2>9. ~HashBack(m, w, V)
    BY <1>7 DEF HashBack, u
  <2>10. \A v \in V : h[v] = acc.g[v]
    BY <1>7, <2>5 DEF u
  <2>11. HashReached(st, V)
    <3>1. HashReached(acc.stack, V)
      BY <1>7 DEF HashLoopInv
    <3> QED BY <1>1, <2>1, <2>3, <2>6, <3>1 DEF HashReached
  <2>12. ASSUME NEW i \in 1..Len(st), HashIsLast(st, i), st[i][2] # w
         PROVE  HashValued(st, h, i)
    <3>1. CASE i \in 1..Len(acc.stack)
      <4>1. HashIsLast(acc.stack, i)
        BY <2>6, <2>12, <3>1 DEF HashIsLast
      <4>2. acc.stack[i][2] # u
        <5>1. Len(acc.stack) + 1 \in 1..Len(st) /\ i < Len(acc.stack) + 1
          BY <2>6, <3>1
        <5> QED BY <2>3, <2>6, <2>12, <3>1, <5>1 DEF HashIsLast
      <4>3. HashValued(acc.stack, acc.g, i) /\ st[i] = acc.stack[i]
        BY <1>7, <2>6, <2>12, <3>1, <4>1 DEF HashLoopInv
      <4>4. st[i][1] # Hash!NoVertex => st[i][1] \in V
        BY <1>7, <2>6, <3>1 DEF HashLoopInv, HashReached
      <4>5. ASSUME NEW k \in Hash!Keys, Hash!Ends(k) = {st[i][1], st[i][2]},
                   HashAdds(acc.g, k), st[i][1] # Hash!NoVertex
            PROVE  HashAdds(h, k)
        <5>1. u \notin Hash!Ends(k)
          BY <1>7, <4>2, <4>3, <4>4, <4>5 DEF u
        <5>2. h[edge[k][1]] = acc.g[edge[k][1]] /\ h[edge[k][2]] = acc.g[edge[k][2]]
          BY <2>5, <5>1 DEF HashEdgesInv, Hash!Ends
        <5> QED BY <4>5, <5>2 DEF HashAdds
      <4> QED BY <4>3, <4>5 DEF HashValued
    <3>2. CASE i = Len(acc.stack) + 1
      <4>1. st[i] = x
        BY <2>6, <3>2
      <4>2. h[w] = acc.g[w]
        BY <2>10
      <4>3. HashAdds(h, m)
        BY <2>1, <2>2, <2>5, <4>2
      <4> QED BY <1>1, <2>1, <2>3, <4>1, <4>3 DEF HashValued
    <3> QED BY <2>6, <3>1, <3>2
  <2>13. /\ \A k \in 1..m : HashBack(k, w, V) => acc.seen /\ Hash!Opposite(k, w) = p
         /\ \A k, j \in 1..m : HashBack(k, w, V) /\ HashBack(j, w, V) => k = j
         /\ \A v \in V : acc.g[v] = g[v]
    <3>1. \A k \in 1..m : HashBack(k, w, V) => k \in 1..(m - 1)
      BY <1>1, <2>9
    <3> QED BY <1>7, <3>1 DEF HashLoopInv
  <2> HIDE DEF V
  <2>14. /\ \A k \in 1..m : HashBack(k, w, V) => r.seen /\ Hash!Opposite(k, w) = p
         /\ \A k, j \in 1..m : HashBack(k, w, V) /\ HashBack(j, w, V) => k = j
         /\ \A v \in V : r.g[v] = g[v]
    BY ONLY <2>8, <2>10, <2>13
  <2>15. /\ HashReached(r.stack, V)
         /\ \A i \in 1..Len(r.stack) :
               HashIsLast(r.stack, i) /\ r.stack[i][2] # w => HashValued(r.stack, r.g, i)
    BY ONLY <2>8, <2>11, <2>12
  <2>16. HashLoopInv(r, m, p, w)
    BY ONLY <2>8, <2>14, <2>15 DEF HashLoopInv, V
  <2> QED BY <2>16 DEF r
<1> QED BY <1>3, <1>4, <1>5, <1>6, <1>7

\* Two keys lead from w back to V.
HashTwo(w, V) == \E k, l \in Hash!Keys : k # l /\ HashBack(k, w, V) /\ HashBack(l, w, V)

\* Of the first m keys of w, one leads to p and one more back to V.
HashCycle(m, p, w, V) ==
    \E k \in 1..m : /\ HashBack(k, w, V)
                    /\ \/ Hash!Opposite(k, w) # p
                       \/ \E j \in 1..m : /\ j # k /\ w \in Hash!Ends(j)
                                          /\ Hash!Opposite(j, w) = p

\* What the loop over the neighbours of w keeps, after m keys: the stack, and
\* the rest of its state.
HashCovers(st, m, w, V) ==
    \A k \in 1..m : w \in Hash!Ends(k) =>
       Hash!Opposite(k, w) \in V \/ HashOn(st, Hash!Opposite(k, w))
HashStacks(st, m, w, V) ==
    /\ HashPairs(st)
    /\ \A i \in 1..Len(st) :
          /\ st[i][1] \in V /\ st[i][2] \notin visited
          /\ st[i][2] = w => HashTwo(w, V)
          /\ st[i][1] = w => \E k \in 1..m : Hash!Ends(k) = {w, st[i][2]}
          /\ \E k \in Hash!Keys : Hash!Ends(k) = {st[i][1], st[i][2]}
    /\ \A i \in 1..(Len(stack) - 1) : HashOn(st, stack[i][2])
HashSeen(m, p, w) == \E j \in 1..m : w \in Hash!Ends(j) /\ Hash!Opposite(j, w) = p
HashRanges(h) == \A v \in Hash!Vertices : h[v] \in HashRange

HashGrows(acc, m, p, w) ==
    /\ HashRanges(acc.g)
    /\ acc.seen => HashSeen(m, p, w)
    /\ acc.cyclic => HashCycle(m, p, w, visited \cup {w})
    /\ HashStacks(acc.stack, m, w, visited \cup {w})
    /\ ~acc.cyclic => HashCovers(acc.stack, m, w, visited \cup {w})

\* One key of the loop.
LEMMA HashGrow ==
  ASSUME HashEdgesInv, visited \subseteq Hash!Vertices, NKeys \in Nat,
         NEW m \in 1..NKeys, NEW w \in Hash!Vertices, w \notin visited,
         NEW p, p = Hash!NoVertex \/ p \in visited, NEW acc,
         acc \in HashLoops, HashGrows(acc, m - 1, p, w)
  PROVE  HashGrows(Hash!Step(acc, m, p, w), m, p, w)
<1> DEFINE V == visited \cup {w}
           u == Hash!Opposite(m, w)
           r == Hash!Step(acc, m, p, w)
<1>1. m \in Hash!Keys /\ m \in 1..m /\ m \notin 1..(m - 1)
      /\ (\A k \in 1..m : k \in 1..(m - 1) \/ k = m) /\ (\A k \in 1..(m - 1) : k \in 1..m)
  BY DEF Hash!Keys
<1>2. /\ acc.cyclic \in BOOLEAN /\ acc.seen \in BOOLEAN
      /\ acc.g \in [Hash!Vertices -> Int] /\ acc.stack \in Seq(HashEntries)
  BY DEF HashLoops
<1>3. /\ HashRanges(acc.g)
      /\ acc.seen => HashSeen(m - 1, p, w)
      /\ acc.cyclic => HashCycle(m - 1, p, w, V)
      /\ HashStacks(acc.stack, m - 1, w, V)
      /\ ~acc.cyclic => HashCovers(acc.stack, m - 1, w, V)
  BY DEF HashGrows
\* What holds of fewer keys.
<1>4. /\ acc.seen => HashSeen(m, p, w)
      /\ acc.cyclic => HashCycle(m, p, w, V)
      /\ HashStacks(acc.stack, m, w, V)
  <2> HIDE DEF V
  <2>1. acc.cyclic => HashCycle(m, p, w, V)
    BY <1>1, <1>3 DEF HashCycle
  <2>2. acc.seen => HashSeen(m, p, w)
    BY <1>1, <1>3 DEF HashSeen
  <2>3. HashStacks(acc.stack, m, w, V)
    BY <1>1, <1>3 DEF HashStacks
  <2> QED BY <2>1, <2>2, <2>3
<1>5. CASE acc.cyclic \/ w \notin Hash!Ends(m)
  <2>1. r = acc
    BY <1>5 DEF Hash!Step
  <2> HIDE DEF V
  <2>2. ~acc.cyclic => HashCovers(acc.stack, m, w, V)
    BY <1>1, <1>3, <1>5 DEF HashCovers
  <2>3. HashGrows(acc, m, p, w)
    BY ONLY <1>3, <1>4, <2>2 DEF HashGrows, V
  <2> HIDE DEF r
  <2> QED BY <2>1, <2>3 DEF r
<1>6. CASE ~acc.cyclic /\ w \in Hash!Ends(m) /\ Hash!Ignored(acc, u, p)
  <2>1. r = [acc EXCEPT !.seen = TRUE] /\ u = p
    BY <1>6 DEF Hash!Step, Hash!Ignored
  <2>2. r.seen /\ r.cyclic = acc.cyclic /\ r.g = acc.g /\ r.stack = acc.stack
    BY <1>2, <2>1 DEF HashLoops
  <2> HIDE DEF r
  <2>3. HashSeen(m, p, w)
    BY <1>1, <1>6, <2>1 DEF HashSeen
  <2>4. /\ Hash!Ends(m) = {w, u} /\ w # u /\ u \in Hash!Vertices
    BY <1>1, <1>6, HashOpposite
  <2>5. u \in V
    BY <2>1, <2>4 DEF Hash!NoVertex, Hash!Vertices
  <2> HIDE DEF V
  <2>6. HashCovers(acc.stack, m, w, V)
    BY <1>1, <1>3, <1>6, <2>5 DEF HashCovers, u
  <2>7. HashGrows(r, m, p, w)
    BY ONLY <1>3, <1>4, <1>6, <2>2, <2>3, <2>6 DEF HashGrows, V
  <2> QED BY <2>7 DEF r
<1>7. CASE ~acc.cyclic /\ w \in Hash!Ends(m) /\ ~Hash!Ignored(acc, u, p) /\ u \in V
  <2>1. r = [acc EXCEPT !.cyclic = TRUE] /\ (acc.seen \/ u # p)
    BY <1>7 DEF Hash!Step, Hash!Ignored
  <2>2. r.cyclic /\ r.seen = acc.seen /\ r.g = acc.g /\ r.stack = acc.stack
    BY <1>2, <2>1 DEF HashLoops
  <2>3. HashCycle(m, p, w, V)
    <3>1. HashBack(m, w, V)
      BY <1>7 DEF HashBack
    <3>2. u # p \/ \E j \in 1..m : j # m /\ w \in Hash!Ends(j) /\ Hash!Opposite(j, w) = p
      BY <1>1, <1>3, <2>1 DEF HashSeen
    <3> HIDE DEF V
    <3> QED BY <1>1, <3>1, <3>2 DEF HashCycle, u
  <2> HIDE DEF r, u, V
  <2>4. HashGrows(r, m, p, w)
    BY ONLY <1>3, <1>4, <2>2, <2>3 DEF HashGrows, V
  <2> QED BY <2>4 DEF r
<1>8. CASE ~acc.cyclic /\ w \in Hash!Ends(m) /\ ~Hash!Ignored(acc, u, p) /\ u \notin V
  <2> DEFINE x == <<w, u>>
             new == Hash!Value(m - 1, acc.g[w])
             h == [acc.g EXCEPT ![u] = new]
             st == Append(acc.stack, x)
             top == Len(acc.stack) + 1
  <2>1. u \in Hash!Vertices /\ Hash!Ends(m) = {w, u} /\ w # u
    BY <1>1, <1>8, HashOpposite
  <2>2. new \in HashRange /\ new \in Int
    <3>1. NKeys \in Nat \ {0} /\ m - 1 \in Int /\ acc.g[w] \in Int
      BY <1>2
    <3> DEFINE a == acc.g[w]
    <3> HIDE DEF a
    <3>2. ((m - 1) - a) % NKeys \in 0..(NKeys - 1)
      BY <3>1 DEF a
    <3> QED BY <3>2 DEF a, Hash!Value, HashRange
  <2>3. x \in HashEntries /\ x[1] = w /\ x[2] = u /\ w # Hash!NoVertex
    BY <2>1 DEF HashEntries, Hash!NoVertex, Hash!Vertices
  <2>4. r = [acc EXCEPT !.g[u] = new, !.stack = st]
    BY <1>8 DEF Hash!Step
  <2> HIDE DEF new, u, x, r
  <2>5. h \in [Hash!Vertices -> Int] /\ h[u] = new /\ \A v \in Hash!Vertices \ {u} : h[v] = acc.g[v]
    BY <1>2, <2>1, <2>2
  <2>6. /\ st \in Seq(HashEntries) /\ Len(acc.stack) \in Nat
        /\ Len(st) = top /\ st[top] = x /\ top \in 1..Len(st)
        /\ \A i \in 1..Len(acc.stack) : st[i] = acc.stack[i] /\ i \in 1..Len(st)
        /\ \A i \in 1..Len(st) : i \in 1..Len(acc.stack) \/ i = top
    BY <1>2, <2>3, AppendEntry
  <2>7. r = [acc EXCEPT !.g = h, !.stack = st]
    BY <1>2, <2>4 DEF HashLoops
  <2> HIDE DEF h, st
  <2>8. r.g = h /\ r.stack = st /\ r.cyclic = acc.cyclic /\ r.seen = acc.seen
    BY <1>2, <2>5, <2>6, <2>7 DEF HashLoops
  <2> HIDE DEF top
  <2>9. HashRanges(h)
    BY <1>3, <2>2, <2>5 DEF HashRanges
  <2>10. \A v : HashOn(acc.stack, v) => HashOn(st, v)
    BY <2>6 DEF HashOn
  <2>11. HashOn(st, u)
    BY <2>3, <2>6 DEF HashOn
  <2>12. HashCovers(st, m, w, V) /\ \A i \in 1..(Len(stack) - 1) : HashOn(st, stack[i][2])
    <3>1. Hash!Opposite(m, w) = u
      BY DEF u
    <3>2. \A i \in 1..(Len(stack) - 1) : HashOn(st, stack[i][2])
      BY <1>3, <2>10 DEF HashStacks
    <3>3. HashCovers(st, m, w, V)
      BY <1>1, <1>3, <1>8, <2>10, <2>11, <3>1 DEF HashCovers
    <3> QED BY <3>2, <3>3
  <2>13. ASSUME NEW i \in 1..Len(st)
         PROVE  /\ st[i][1] \in V /\ st[i][2] \notin visited
                /\ st[i][2] = w => HashTwo(w, V)
                /\ st[i][1] = w => \E k \in 1..m : Hash!Ends(k) = {w, st[i][2]}
                /\ \E k \in Hash!Keys : Hash!Ends(k) = {st[i][1], st[i][2]}
    <3>1. CASE i \in 1..Len(acc.stack)
      <4>1. st[i] = acc.stack[i]
        BY <2>6, <3>1
      <4> QED BY <1>4, <3>1, <4>1 DEF HashStacks
    <3>2. CASE i = top
      <4>1. u \notin V
        BY <1>8 DEF u
      <4> QED BY <1>1, <2>1, <2>3, <2>6, <3>2, <4>1
    <3> QED BY <2>6, <3>1, <3>2
\* An entry that was there comes from a key other than m.
  <2>14. ASSUME NEW i \in 1..Len(acc.stack)
         PROVE  \E k \in Hash!Keys : k # m /\ Hash!Ends(k) = {st[i][1], st[i][2]}
    <3>1. st[i] = acc.stack[i] /\ st[i][1] \in V
      BY <1>3, <2>6 DEF HashStacks
    <3>2. CASE st[i][1] = w
      <4>1. PICK k \in 1..(m - 1) : Hash!Ends(k) = {w, st[i][2]}
        BY <1>3, <3>1, <3>2 DEF HashStacks
      <4>2. k \in Hash!Keys /\ k # m
        BY DEF Hash!Keys
      <4> QED BY <3>2, <4>1, <4>2
    <3>3. CASE st[i][1] # w
      <4>1. PICK k \in Hash!Keys : Hash!Ends(k) = {st[i][1], st[i][2]}
        BY <1>3, <3>1 DEF HashStacks
      <4>2. st[i][1] # u
        BY <1>8, <3>1 DEF u
      <4>3. k # m
        BY <2>1, <3>3, <4>1, <4>2
      <4> QED BY <4>1, <4>3
    <3> QED BY <3>2, <3>3
  <2>15. HashPairs(st)
    <3> SUFFICES ASSUME NEW i \in 1..Len(st), NEW j \in 1..Len(st), i # j,
                        st[i][1] # Hash!NoVertex, st[j][1] # Hash!NoVertex
                 PROVE  HashApart(st[i], st[j])
      BY DEF HashPairs
    <3>1. Hash!Ends(m) = {st[top][1], st[top][2]}
      BY <2>1, <2>3, <2>6
    <3>2. CASE i = top
      <4>1. j \in 1..Len(acc.stack)
        BY <2>6, <3>2
      <4> QED BY <1>1, <2>14, <3>1, <3>2, <4>1 DEF HashApart
    <3>3. CASE j = top
      <4>1. i \in 1..Len(acc.stack)
        BY <2>6, <3>3
      <4> QED BY <1>1, <2>14, <3>1, <3>3, <4>1 DEF HashApart
    <3>4. CASE i # top /\ j # top
      <4>1. /\ i \in 1..Len(acc.stack) /\ j \in 1..Len(acc.stack)
            /\ st[i] = acc.stack[i] /\ st[j] = acc.stack[j]
        BY <2>6, <3>4
      <4> QED BY <1>3, <4>1 DEF HashStacks, HashPairs
    <3> QED BY <3>2, <3>3, <3>4
  <2> HIDE DEF V
  <2>16. HashStacks(st, m, w, V)
    BY ONLY <2>12, <2>13, <2>15 DEF HashStacks
  <2>17. HashGrows(r, m, p, w)
    BY ONLY <1>4, <1>8, <2>8, <2>9, <2>12, <2>16 DEF HashGrows, V
  <2> QED BY <2>17 DEF r
<1> QED BY <1>5, <1>6, <1>7, <1>8

\* f[k] is the state of the loop after k keys.
HashAfter(f, start, p, w, m) ==
    f = [k \in 0..m |-> IF k = 0 THEN start ELSE Hash!Step(f[k - 1], k, p, w)]

\* The function exists, and so has one value for each number of keys.
LEMMA HashIterates ==
  ASSUME NEW start, NEW p, NEW w, NEW m \in Nat
  PROVE  \E f : HashAfter(f, start, p, w, m)
<1> DEFINE Body(f, b) == [k \in 0..b |-> IF k = 0 THEN start
                                         ELSE Hash!Step(f[k - 1], k, p, w)]
           T == {b \in Nat : ~ \E f : f = Body(f, b)}
<1>1. SUFFICES ASSUME T # {} PROVE FALSE
  BY DEF HashAfter
<1>2. T \in SUBSET Nat
  OBVIOUS
<1>3. PICK b \in T : \A k \in T : b <= k
  BY <1>1, <1>2, LeastNumber
<1>4. b \in Nat /\ ~ \E f : f = Body(f, b)
  BY <1>3
<1>5. CASE b = 0
  <2> DEFINE f == [k \in 0..0 |-> start]
  <2>1. \A k \in 0..0 : k = 0
    OBVIOUS
  <2>2. f = Body(f, 0)
    BY <2>1
  <2> QED BY <1>4, <1>5, <2>2
<1>6. CASE b # 0
  <2>1. b - 1 \in Nat /\ ~ (b <= b - 1)
    BY <1>4, <1>6
  <2>2. b - 1 \notin T
    BY <1>3, <2>1
  <2>3. PICK f : f = Body(f, b - 1)
    BY <2>1, <2>2
  <2> DEFINE h == [k \in 0..b |-> IF k = b THEN Hash!Step(f[b - 1], b, p, w) ELSE f[k]]
  <2>4. ASSUME NEW k \in 0..b PROVE h[k] = Body(h, b)[k]
    <3>1. CASE k = 0
      <4>1. 0 \in 0..(b - 1) /\ k # b
        BY <1>4, <1>6, <3>1
      <4>2. f[0] = start
        BY <2>3, <4>1
      <4> QED BY <3>1, <4>1, <4>2
    <3>2. CASE k # 0
      <4>1. k - 1 \in 0..b /\ k - 1 # b /\ k - 1 \in 0..(b - 1)
        BY <1>4, <3>2
      <4>2. h[k - 1] = f[k - 1]
        BY <4>1
      <4>3. CASE k = b
        BY <3>2, <4>2, <4>3
      <4>4. CASE k # b
        <5>1. k \in 0..(b - 1)
          BY <1>4, <4>4
        <5>2. f[k] = Hash!Step(f[k - 1], k, p, w)
          BY <2>3, <3>2, <5>1
        <5> QED BY <3>2, <4>2, <4>4, <5>2
      <4> QED BY <4>3, <4>4
    <3> QED BY <3>1, <3>2
  <2>5. h = Body(h, b)
    BY <2>4
  <2> QED BY <1>4, <2>5
<1> QED BY <1>5, <1>6

LEMMA FrontEntry ==
  ASSUME NEW st \in Seq(HashEntries), st # <<>>
  PROVE  /\ Hash!Front(st) \in Seq(HashEntries) /\ Len(st) \in Nat \ {0}
         /\ Hash!Last(st) = st[Len(st)] /\ Hash!Last(st) \in HashEntries
         /\ Len(Hash!Front(st)) = Len(st) - 1
         /\ \A i \in 1..(Len(st) - 1) : Hash!Front(st)[i] = st[i] /\ i \in 1..Len(st)
         /\ \A i \in 1..Len(st) : i \in 1..(Len(st) - 1) \/ i = Len(st)
<1>1. /\ Len(st) \in Nat \ {0} /\ Len(st) - 1 \in Nat /\ Len(st) \in 1..Len(st)
      /\ \A i \in 1..(Len(st) - 1) : i \in 1..Len(st)
      /\ \A i \in 1..Len(st) : i \in 1..(Len(st) - 1) \/ i = Len(st)
  OBVIOUS
<1>2. Hash!Front(st) = SubSeq(st, 1, Len(st) - 1) /\ Hash!Last(st) = st[Len(st)]
  BY DEF Hash!Front, Hash!Last
<1>3. /\ SubSeq(st, 1, Len(st) - 1) \in Seq(HashEntries)
      /\ Len(SubSeq(st, 1, Len(st) - 1)) = Len(st) - 1
      /\ \A i \in 1..(Len(st) - 1) : SubSeq(st, 1, Len(st) - 1)[i] = st[i]
  <2> DEFINE b == Len(st) - 1
  <2>1. 1 \in 1..(Len(st) + 1) /\ b \in (1 - 1)..Len(st) /\ b - 1 + 1 = b /\ b \in Nat
    BY <1>1
  <2> HIDE DEF b
  <2>2. /\ SubSeq(st, 1, b) \in Seq(HashEntries) /\ Len(SubSeq(st, 1, b)) = b
        /\ \A i \in 1..b : SubSeq(st, 1, b)[i] = st[1 + i - 1]
    BY <2>1, SubSeqProperties
  <2>3. \A i \in 1..b : 1 + i - 1 = i
    BY <2>1
  <2> QED BY <2>2, <2>3 DEF b
<1> QED BY <1>1, <1>2, <1>3

\* The loop starts from the rest of the stack.
LEMMA HashStart ==
  ASSUME HashTypeInv, HashVisitedInv, HashTreeInv, stack # <<>>,
         NEW p, NEW w, p = Hash!Last(stack)[1], w = Hash!Last(stack)[2],
         NEW start, start = [cyclic |-> FALSE, seen |-> FALSE, g |-> g,
                             stack |-> Hash!Front(stack)]
  PROVE  /\ w \in Hash!Vertices \ visited /\ (p = Hash!NoVertex \/ p \in visited)
         /\ HashGrows(start, 0, p, w)
<1> DEFINE top == Len(stack)
           st == Hash!Front(stack)
           V == visited \cup {w}
<1>1. /\ stack \in Seq(HashEntries) /\ HashEdgesInv /\ HashReached(stack, visited)
      /\ visited \subseteq Hash!Vertices
  BY DEF HashTypeInv, HashVisitedInv
<1>2. /\ top \in Nat \ {0} /\ top \in 1..top /\ Len(st) = top - 1
      /\ \A i \in 1..(top - 1) : st[i] = stack[i] /\ i \in 1..top /\ i # top
      /\ stack[top][1] = p /\ stack[top][2] = w /\ stack[top] \in HashEntries
  BY <1>1, FrontEntry
<1>3. /\ HashRanges(g) /\ HashPairs(stack)
      /\ \A i \in 1..top : stack[i][2] \notin visited
      /\ \A i \in 1..top : stack[i][1] = Hash!NoVertex => top = 1
  BY DEF HashTreeInv, HashTree, HashRanges
<1> HIDE DEF top, st
<1>4. w \in Hash!Vertices /\ w \notin visited
  BY <1>2, <1>3 DEF HashEntries
<1>5. p = Hash!NoVertex \/ p \in visited
  BY <1>1, <1>2 DEF HashReached, top
<1>6. ASSUME NEW i \in 1..(top - 1)
      PROVE  /\ st[i][1] \in visited /\ st[i][2] \notin visited
             /\ st[i][2] = w => HashTwo(w, V)
             /\ \E k \in Hash!Keys : Hash!Ends(k) = {st[i][1], st[i][2]}
  <2>1. st[i] = stack[i] /\ i \in 1..top /\ i # top /\ top # 1
    BY <1>2
  <2>2. st[i][1] # Hash!NoVertex /\ p # Hash!NoVertex
    BY <1>2, <1>3, <2>1
  <2>3. /\ st[i][1] \in visited /\ st[i][2] \notin visited
        /\ \E k \in Hash!Keys : Hash!Ends(k) = {st[i][1], st[i][2]}
    BY <1>1, <1>3, <2>1, <2>2 DEF HashReached, top
  <2>4. ASSUME st[i][2] = w PROVE HashTwo(w, V)
    <3>1. HashApart(stack[i], stack[top])
      BY <1>2, <1>3, <2>1, <2>2 DEF HashPairs, top
    <3>2. PICK k \in Hash!Keys, l \in Hash!Keys :
             k # l /\ Hash!Ends(k) = {st[i][1], w} /\ Hash!Ends(l) = {p, w}
      BY <1>2, <2>1, <2>4, <3>1 DEF HashApart
    <3>3. ASSUME NEW j \in Hash!Keys, NEW q \in visited, Hash!Ends(j) = {q, w}
          PROVE  HashBack(j, w, V)
      <4>1. Hash!Ends(j) = {w, Hash!Opposite(j, w)} /\ w # Hash!Opposite(j, w)
        BY <1>1, <3>3, HashOpposite
      <4> QED BY <3>3, <4>1 DEF HashBack
    <3>4. HashBack(k, w, V) /\ HashBack(l, w, V)
      BY <1>5, <2>2, <2>3, <3>2, <3>3
    <3> QED BY <3>2, <3>4 DEF HashTwo
  <2> QED BY <2>3, <2>4
<1>7. HashPairs(st)
  <2>1. \A i \in 1..Len(st) : st[i] = stack[i] /\ i \in 1..top
    BY <1>2
  <2> QED BY <1>3, <2>1 DEF HashPairs, top
<1>8. \A i \in 1..(top - 1) : HashOn(st, stack[i][2])
  BY <1>2 DEF HashOn
<1>9. HashStacks(st, 0, w, V)
  <2>1. \A i \in 1..Len(st) : st[i][1] \in V /\ st[i][1] # w
    BY <1>2, <1>4, <1>6
  <2> HIDE DEF V
  <2> QED BY <1>2, <1>6, <1>7, <1>8, <2>1 DEF HashStacks, top
<1>10. start.g = g /\ start.stack = st /\ ~start.cyclic /\ ~start.seen
  BY DEF st
<1>11. HashCovers(st, 0, w, V)
  BY DEF HashCovers
<1> QED BY <1>3, <1>4, <1>5, <1>9, <1>10, <1>11 DEF HashGrows, V

\* The loop over the neighbours of the vertex on top of the stack.
LEMMA HashNeighbours ==
  ASSUME HashTypeInv, HashVisitedInv, HashTreeInv, NKeys \in Nat, stack # <<>>
  PROVE  LET p == Hash!Last(stack)[1]  w == Hash!Last(stack)[2]
         IN  /\ w \in Hash!Vertices \ visited /\ (p = Hash!NoVertex \/ p \in visited)
             /\ HashLoopInv(Hash!Neighbours(p, w), NKeys, p, w)
             /\ HashGrows(Hash!Neighbours(p, w), NKeys, p, w)
<1> DEFINE p == Hash!Last(stack)[1]
           w == Hash!Last(stack)[2]
           start == [cyclic |-> FALSE, seen |-> FALSE, g |-> g, stack |-> Hash!Front(stack)]
           Body(f) == [k \in 0..NKeys |-> IF k = 0 THEN start
                                          ELSE Hash!Step(f[k - 1], k, p, w)]
           after == CHOOSE f : f = Body(f)
<1>1. /\ stack \in Seq(HashEntries) /\ g \in [Hash!Vertices -> Int]
      /\ visited \subseteq Hash!Vertices /\ HashEdgesInv
  BY DEF HashTypeInv, HashVisitedInv
<1>2. /\ Hash!Front(stack) \in Seq(HashEntries) /\ Len(stack) \in Nat \ {0}
      /\ Len(Hash!Front(stack)) = Len(stack) - 1
      /\ \A i \in 1..(Len(stack) - 1) : Hash!Front(stack)[i] = stack[i] /\ i \in 1..Len(stack)
      /\ \A i \in 1..Len(stack) : i \in 1..(Len(stack) - 1) \/ i = Len(stack)
      /\ Hash!Last(stack) = stack[Len(stack)] /\ Hash!Last(stack) \in HashEntries
  BY <1>1, FrontEntry
<1>3. /\ w \in Hash!Vertices \ visited /\ (p = Hash!NoVertex \/ p \in visited)
      /\ HashGrows(start, 0, p, w)
  <2> HIDE DEF p, w, start
  <2>1. p = Hash!Last(stack)[1] /\ w = Hash!Last(stack)[2]
        /\ start = [cyclic |-> FALSE, seen |-> FALSE, g |-> g, stack |-> Hash!Front(stack)]
    BY DEF p, w, start
  <2> QED BY <2>1, HashStart
<1>4. Hash!Neighbours(p, w) = after[NKeys]
  BY DEF Hash!Neighbours
<1>5. after = Body(after)
  <2>1. \E f : HashAfter(f, start, p, w, NKeys)
    BY HashIterates
  <2>2. \E f : f = Body(f)
    BY <2>1 DEF HashAfter
  <2> QED BY <2>2
<1> HIDE DEF after
<1>6. start \in HashLoops
  BY <1>1, <1>2 DEF HashLoops
<1>7. HashLoopInv(start, 0, p, w)
  <2> DEFINE V == visited \cup {w}
             st == Hash!Front(stack)
  <2>1. HashReached(st, V)
    <3>1. \A i \in 1..Len(st) : st[i] = stack[i] /\ i \in 1..Len(stack)
      BY <1>2
    <3>2. HashReached(stack, visited) /\ visited \subseteq V
      BY DEF HashVisitedInv
    <3> HIDE DEF st, V
    <3> QED BY ONLY <3>1, <3>2 DEF HashReached
  <2>2. ASSUME NEW i \in 1..Len(st), HashIsLast(st, i), st[i][2] # w
        PROVE  HashValued(st, g, i)
    <3>1. i \in 1..Len(stack) /\ st[i] = stack[i]
      BY <1>2
    <3>2. HashIsLast(stack, i)
      <4>1. ASSUME NEW j \in 1..Len(stack), i < j PROVE stack[j][2] # stack[i][2]
        <5>1. CASE j = Len(stack)
          BY <1>2, <2>2, <3>1, <5>1
        <5>2. CASE j # Len(stack)
          <6>1. j \in 1..Len(st) /\ st[j] = stack[j]
            BY <1>2, <5>2
          <6> QED BY <2>2, <3>1, <4>1, <6>1 DEF HashIsLast
        <5> QED BY <5>1, <5>2
      <4> QED BY <4>1 DEF HashIsLast
    <3>3. HashValued(stack, g, i)
      BY <3>1, <3>2 DEF HashVisitedInv
    <3> QED BY <3>1, <3>3 DEF HashValued
  <2>3. /\ start.g = g /\ start.stack = st /\ ~start.cyclic
        /\ \A k \in 1..0 : FALSE
    OBVIOUS
  <2> HIDE DEF st, start, V
  <2> QED BY <1>6, <2>1, <2>2, <2>3 DEF HashLoopInv, V
<1> HIDE DEF start, p, w
<1> DEFINE T == {k \in 0..NKeys : ~(HashLoopInv(after[k], k, p, w) /\ HashGrows(after[k], k, p, w))}
<1>8. T = {}
  <2>1. SUFFICES ASSUME T # {} PROVE FALSE
    OBVIOUS
  <2>2. T \in SUBSET Nat
    OBVIOUS
  <2>3. PICK k \in T : \A j \in T : k <= j
    BY <2>1, <2>2, LeastNumber
  <2>4. CASE k = 0
    <3>1. after[0] = start
      BY <1>5
    <3> QED BY <1>3, <1>7, <2>3, <2>4, <3>1
  <2>5. CASE k # 0
    <3>1. k - 1 \in 0..NKeys /\ ~(k <= k - 1) /\ k \in 1..NKeys
      BY <2>3, <2>5
    <3>2. HashLoopInv(after[k - 1], k - 1, p, w) /\ HashGrows(after[k - 1], k - 1, p, w)
      BY <2>3, <3>1
    <3>3. after[k] = Hash!Step(after[k - 1], k, p, w)
      BY <1>5, <2>5, <3>1
    <3>4. HashLoopInv(Hash!Step(after[k - 1], k, p, w), k, p, w)
      BY <1>1, <1>3, <3>1, <3>2, HashStep
    <3> DEFINE acc == after[k - 1]
    <3>5. acc \in HashLoops
      BY <3>2 DEF HashLoopInv
    <3>6. HashGrows(acc, k - 1, p, w)
      BY <3>2
    <3> HIDE DEF acc
    <3>7. HashGrows(Hash!Step(acc, k, p, w), k, p, w)
      BY <1>1, <1>3, <3>1, <3>5, <3>6, HashGrow
    <3> QED BY <2>3, <3>3, <3>4, <3>7 DEF acc
  <2> QED BY <2>4, <2>5
<1>9. NKeys \in 0..NKeys
  OBVIOUS
<1>10. HashLoopInv(after[NKeys], NKeys, p, w) /\ HashGrows(after[NKeys], NKeys, p, w)
  BY <1>8, <1>9
<1> QED BY <1>3, <1>4, <1>10 DEF p, w

\* A vertex is visited, and no cycle is found: the keys that lead from it to
\* vertices visited before are just the one that it was pushed for.
LEMMA HashVisit ==
  ASSUME HashTypeInv, HashVisitedInv, NKeys \in Nat, stack # <<>>,
         NEW p, NEW w, p = Hash!Last(stack)[1], w = Hash!Last(stack)[2],
         NEW r, HashLoopInv(r, NKeys, p, w), w \in Hash!Vertices, ~r.cyclic,
         visited' = visited \cup {w}, g' = r.g, stack' = r.stack, edge' = edge
  PROVE  /\ g' \in [Hash!Vertices -> Int] /\ visited' \subseteq Hash!Vertices
         /\ stack' \in Seq(HashEntries) /\ HashVisitedInv'
<1> DEFINE V == visited \cup {w}
<1>1. /\ stack \in Seq(HashEntries) /\ g \in [Hash!Vertices -> Int]
      /\ visited \subseteq Hash!Vertices /\ HashEdgesInv /\ V \subseteq Hash!Vertices
  BY DEF HashTypeInv, HashVisitedInv
<1>2. /\ r \in HashLoops
      /\ \A k \in Hash!Keys : HashBack(k, w, V) => Hash!Opposite(k, w) = p
      /\ \A k, j \in Hash!Keys : HashBack(k, w, V) /\ HashBack(j, w, V) => k = j
      /\ \A v \in V : r.g[v] = g[v]
      /\ HashReached(r.stack, V)
      /\ \A i \in 1..Len(r.stack) :
            HashIsLast(r.stack, i) /\ r.stack[i][2] # w => HashValued(r.stack, r.g, i)
  BY DEF HashLoopInv, Hash!Keys
<1>3. r.g \in [Hash!Vertices -> Int] /\ r.stack \in Seq(HashEntries)
  BY <1>2 DEF HashLoops
<1> HIDE DEF V
<1>4. \A k \in Hash!Keys : HashAdds(g, k) /\ Hash!Ends(k) \subseteq V => HashAdds(r.g, k)
  BY <1>2 DEF HashAdds, Hash!Ends
\* The key that the entry on top of the stack was pushed for.
<1>5. p # Hash!NoVertex =>
          \E k \in Hash!Keys : Hash!Ends(k) = {p, w} /\ HashAdds(g, k) /\ p \in visited
  <2>1. Len(stack) \in 1..Len(stack) /\ stack[Len(stack)] = Hash!Last(stack)
        /\ HashIsLast(stack, Len(stack))
    BY <1>1, FrontEntry DEF HashIsLast
  <2>2. HashValued(stack, g, Len(stack))
    BY <2>1 DEF HashVisitedInv
  <2>3. p # Hash!NoVertex => p \in visited
    BY <2>1 DEF HashVisitedInv, HashReached
  <2> QED BY <2>1, <2>2, <2>3 DEF HashValued
<1>6. ASSUME NEW k \in Hash!Keys, w \in Hash!Ends(k), Hash!Ends(k) \subseteq V
      PROVE  HashAdds(r.g, k)
  <2>1. /\ Hash!Opposite(k, w) \in Hash!Ends(k) /\ Hash!Opposite(k, w) \in Hash!Vertices
        /\ Hash!Ends(k) = {w, Hash!Opposite(k, w)} /\ w # Hash!Opposite(k, w)
    BY <1>1, <1>6, HashOpposite
  <2>2. HashBack(k, w, V) /\ Hash!Opposite(k, w) = p
    BY <1>2, <1>6, <2>1 DEF HashBack
  <2>3. p # Hash!NoVertex
    BY <2>1, <2>2 DEF Hash!NoVertex, Hash!Vertices
  <2>4. PICK j \in Hash!Keys : Hash!Ends(j) = {p, w} /\ HashAdds(g, j) /\ p \in visited
    BY <1>5, <2>3
  <2>5. HashBack(j, w, V)
    <3>1. w \in Hash!Ends(j)
      BY <2>4
    <3>2. Hash!Ends(j) = {w, Hash!Opposite(j, w)} /\ w # Hash!Opposite(j, w)
      BY <1>1, <3>1, HashOpposite
    <3> QED BY <2>4, <3>1, <3>2 DEF HashBack, V
  <2>6. j = k
    BY <1>2, <2>2, <2>5
  <2> QED BY <1>4, <1>6, <2>4, <2>6
<1>7. ASSUME NEW k \in Hash!Keys, Hash!Ends(k) \subseteq V PROVE HashAdds(r.g, k)
  <2>1. CASE w \in Hash!Ends(k)
    BY <1>6, <1>7, <2>1
  <2>2. CASE w \notin Hash!Ends(k)
    <3>1. HashAdds(g, k)
      BY <1>7, <2>2 DEF HashVisitedInv, V
    <3> QED BY <1>4, <1>7, <3>1
  <2> QED BY <2>1, <2>2
<1>8. ASSUME NEW i \in 1..Len(r.stack), HashIsLast(r.stack, i)
      PROVE  HashValued(r.stack, r.g, i)
  <2>1. CASE r.stack[i][2] # w
    BY <1>2, <1>8, <2>1
  <2>2. CASE r.stack[i][2] = w /\ r.stack[i][1] # Hash!NoVertex
    <3>1. PICK k \in Hash!Keys : Hash!Ends(k) = {r.stack[i][1], r.stack[i][2]}
      BY <1>2, <2>2 DEF HashReached
    <3>2. r.stack[i][1] \in V /\ w \in V
      BY <1>2, <2>2 DEF HashReached, V
    <3>3. HashAdds(r.g, k)
      BY <1>6, <2>2, <3>1, <3>2
    <3> QED BY <3>1, <3>3 DEF HashValued
  <2>3. CASE r.stack[i][1] = Hash!NoVertex
    BY <2>3 DEF HashValued
  <2> QED BY <2>1, <2>2, <2>3
<1>9. HashVisitedInv'
  <2>1. HashEdgesInv'
    BY <1>1 DEF HashEdgesInv, Hash!Keys, Hash!Vertices
  <2>2. (\A k \in Hash!Keys : Hash!Ends(k) \subseteq visited => HashAdds(g, k))'
    BY <1>7 DEF HashAdds, Hash!Ends, V, Hash!Keys
  <2>3. HashReached(stack, visited)'
    BY <1>2 DEF HashReached, Hash!Ends, V, Hash!Keys, Hash!NoVertex
  <2>4. (\A i \in 1..Len(stack) : HashIsLast(stack, i) => HashValued(stack, g, i))'
    BY <1>8 DEF HashIsLast, HashValued, HashAdds, Hash!Ends, Hash!Keys, Hash!NoVertex
  <2> QED BY <2>1, <2>2, <2>3, <2>4 DEF HashVisitedInv
<1> QED BY <1>1, <1>3, <1>9 DEF Hash!Vertices, HashEntries, Hash!NoVertex, V

-----------------------------------------------------------------------------
(* The trees that are traversed. *)

\* One more vertex that one key leads to is a leaf.
LEMMA HashForestGrows ==
  ASSUME HashEdgesInv, HashForest(visited), NEW w, NEW V, V = visited \cup {w},
         \A k, j \in Hash!Keys : HashBack(k, w, V) /\ HashBack(j, w, V) => k = j
  PROVE  HashForest(V)
<1> SUFFICES ASSUME NEW K \in (SUBSET Hash!Keys) \ {{}}, \A k \in K : Hash!Ends(k) \subseteq V
             PROVE  HashLeaf(K)
  BY DEF HashForest
<1>1. CASE \E k \in K : w \in Hash!Ends(k)
  <2>1. PICK k \in K : w \in Hash!Ends(k)
    BY <1>1
  <2>2. ASSUME NEW j \in K, w \in Hash!Ends(j) PROVE HashBack(j, w, V)
    <3>1. Hash!Opposite(j, w) \in Hash!Ends(j)
      BY <2>2, HashOpposite
    <3> QED BY <2>2, <3>1 DEF HashBack
  <2>3. \A j \in K \ {k} : w \notin Hash!Ends(j)
    BY <2>1, <2>2
  <2> QED BY <2>1, <2>3 DEF HashLeaf
<1>2. CASE \A k \in K : w \notin Hash!Ends(k)
  <2>1. \A k \in K : Hash!Ends(k) \subseteq visited
    BY <1>2
  <2> QED BY <2>1 DEF HashForest
<1> QED BY <1>1, <1>2

LEMMA HashLinkedBack ==
  ASSUME NEW u, NEW v, NEW S, HashLinked(u, v, S)
  PROVE  HashLinked(v, u, S)
<1>1. PICK K \in SUBSET Hash!Keys : (\A k \in K : Hash!Ends(k) \subseteq S) /\ HashPath(K, u, v)
  BY DEF HashLinked
<1>2. {u, v} = {v, u}
  OBVIOUS
<1>3. HashPath(K, v, u)
  BY <1>1, <1>2 DEF HashPath
<1> QED BY <1>1, <1>3 DEF HashLinked

\* A path to p goes on to w.
LEMMA HashLinkedGrows ==
  ASSUME NEW e \in Hash!Keys, NEW p \in visited, NEW w, w \notin visited,
         Hash!Ends(e) = {p, w}, NEW u, u = p \/ HashLinked(u, p, visited),
         NEW V, V = visited \cup {w}
  PROVE  HashLinked(u, w, V)
<1>1. CASE u = p
  <2> DEFINE K == {e}
  <2>1. K \in SUBSET Hash!Keys /\ \A k \in K : Hash!Ends(k) \subseteq V
    OBVIOUS
  <2>2. HashPath(K, u, w)
    BY <1>1 DEF HashPath
  <2> QED BY <2>1, <2>2 DEF HashLinked
<1>2. CASE HashLinked(u, p, visited)
  <2>1. PICK K \in SUBSET Hash!Keys :
           (\A k \in K : Hash!Ends(k) \subseteq visited) /\ HashPath(K, u, p)
    BY <1>2 DEF HashLinked
  <2> DEFINE L == K \cup {e}
  <2>2. L \in SUBSET Hash!Keys /\ e \in L /\ \A k \in L : Hash!Ends(k) \subseteq V
    BY <2>1
  <2>3. e \notin K /\ w \in Hash!Ends(e) /\ p \in Hash!Ends(e)
    BY <2>1
  <2>4. /\ \E k \in K : u \in Hash!Ends(k)
        /\ \E k \in K : p \in Hash!Ends(k)
        /\ \A x \in K : \A z \in Hash!Ends(x) \ {u, p} : \E y \in K \ {x} : z \in Hash!Ends(y)
    BY <2>1 DEF HashPath
  <2>5. ASSUME NEW x \in L, NEW z \in Hash!Ends(x), z # u, z # w
        PROVE  \E y \in L \ {x} : z \in Hash!Ends(y)
    <3>1. CASE x = e
      <4>1. z = p
        BY <2>5, <3>1
      <4> QED BY <2>3, <2>4, <3>1, <4>1
    <3>2. CASE x # e /\ z = p
      BY <2>2, <2>3, <3>2
    <3>3. CASE x # e /\ z # p
      <4>1. x \in K /\ z \in Hash!Ends(x) \ {u, p}
        BY <2>5, <3>3
      <4> QED BY <2>4, <4>1
    <3> QED BY <3>1, <3>2, <3>3
  <2>6. HashPath(L, u, w)
    BY <2>2, <2>3, <2>4, <2>5 DEF HashPath
  <2> QED BY <2>2, <2>6 DEF HashLinked
<1> QED BY <1>1, <1>2

LEMMA HashLinkedIn ==
  ASSUME NEW u, NEW v, NEW S, NEW V, S \subseteq V, HashLinked(u, v, S)
  PROVE  HashLinked(u, v, V)
<1>1. PICK K \in SUBSET Hash!Keys : (\A k \in K : Hash!Ends(k) \subseteq S) /\ HashPath(K, u, v)
  BY DEF HashLinked
<1>2. \A k \in K : Hash!Ends(k) \subseteq V
  BY <1>1
<1> QED BY <1>1, <1>2 DEF HashLinked

\* The current tree, and the entry on top of the stack.
LEMMA HashTop ==
  ASSUME HashTypeInv, HashVisitedInv, stack # <<>>, NEW S, HashTree(S),
         NEW p, NEW w, p = Hash!Last(stack)[1], w = Hash!Last(stack)[2], w \notin visited
  PROVE  IF p = Hash!NoVertex THEN visited = S
         ELSE p \in visited \ S /\ \E e \in Hash!Keys : Hash!Ends(e) = {p, w}
<1> DEFINE top == Len(stack)
<1>1. stack \in Seq(HashEntries) /\ HashReached(stack, visited)
  BY DEF HashTypeInv, HashVisitedInv
<1>2. top \in 1..top /\ stack[top][1] = p /\ stack[top][2] = w
  BY <1>1, FrontEntry
<1>3. CASE p = Hash!NoVertex
  BY <1>2, <1>3 DEF HashTree
<1>4. CASE p # Hash!NoVertex
  <2>1. PICK e \in Hash!Keys : p \in visited /\ Hash!Ends(e) = {p, w}
    BY <1>1, <1>2, <1>4 DEF HashReached
  <2>2. p \notin S
    <3>1. SUFFICES ASSUME p \in S PROVE FALSE
      OBVIOUS
    <3>2. Hash!Ends(e) \cap S # {}
      BY <2>1, <3>1
    <3>3. Hash!Ends(e) \subseteq S /\ S \subseteq visited
      BY <3>2 DEF HashTree, HashClosed
    <3> QED BY <2>1, <3>3
  <2> QED BY <1>4, <2>1, <2>2
<1> QED BY <1>3, <1>4

\* A second key from w to the tree that it is reached from closes a cycle.
LEMMA HashCycleIs ==
  ASSUME HashTypeInv, HashVisitedInv, HashTreeInv, stack # <<>>,
         NEW p, NEW w, p = Hash!Last(stack)[1], w = Hash!Last(stack)[2],
         w \notin visited, HashCycle(NKeys, p, w, visited \cup {w})
  PROVE  ~Hash!Acyclic
<1>1. PICK S : HashTree(S)
  BY DEF HashTreeInv
<1>2. HashEdgesInv
  BY DEF HashVisitedInv
<1> DEFINE Back(k) == Hash!Opposite(k, w)
<1>3. PICK k \in Hash!Keys : /\ HashBack(k, w, visited \cup {w})
                             /\ \/ Back(k) # p
                                \/ \E j \in Hash!Keys : /\ j # k /\ w \in Hash!Ends(j)
                                                        /\ Back(j) = p
  BY DEF HashCycle, Hash!Keys
<1>4. \A j \in Hash!Keys : w \in Hash!Ends(j) => Hash!Ends(j) = {w, Back(j)} /\ w # Back(j)
  BY <1>2, HashOpposite
<1> DEFINE v == Back(k)
<1>5. Hash!Ends(k) = {w, v} /\ v \in visited
  BY <1>3, <1>4 DEF HashBack
<1>6. v \notin S
  <2>1. SUFFICES ASSUME v \in S PROVE FALSE
    OBVIOUS
  <2>2. Hash!Ends(k) \cap S # {}
    BY <1>5, <2>1
  <2>3. Hash!Ends(k) \subseteq S /\ S \subseteq visited
    BY <1>1, <2>2 DEF HashTree, HashClosed
  <2> QED BY <1>5, <2>3
<1>7. p # Hash!NoVertex /\ p \in visited \ S /\ \E e \in Hash!Keys : Hash!Ends(e) = {p, w}
  BY <1>1, <1>5, <1>6, HashTop
<1>8. PICK e \in Hash!Keys : Hash!Ends(e) = {p, w}
  BY <1>7
<1> HIDE DEF v
<1>9. \E K \in (SUBSET Hash!Keys) \ {{}} : ~HashLeaf(K)
  <2>1. CASE v = p
    <3>1. PICK j \in Hash!Keys : j # k /\ Hash!Ends(j) = {w, p}
      BY <1>3, <1>4, <2>1 DEF v
    <3> DEFINE K == {j, k}
    <3>2. K \in (SUBSET Hash!Keys) \ {{}}
      OBVIOUS
    <3>3. ASSUME NEW x \in K, NEW z \in Hash!Ends(x) PROVE \E y \in K \ {x} : z \in Hash!Ends(y)
      <4>1. Hash!Ends(j) = Hash!Ends(k)
        BY <1>5, <2>1, <3>1
      <4> QED BY <3>1, <4>1
    <3>4. ~HashLeaf(K)
      BY <3>3 DEF HashLeaf
    <3> QED BY <3>2, <3>4
  <2>2. CASE v # p
    <3>1. HashLinked(p, v, visited)
      BY <1>1, <1>5, <1>6, <1>7, <2>2 DEF HashTree
    <3>2. PICK L \in SUBSET Hash!Keys :
             (\A x \in L : Hash!Ends(x) \subseteq visited) /\ HashPath(L, p, v)
      BY <3>1 DEF HashLinked
    <3> DEFINE K == L \cup {e, k}
    <3>3. K \in (SUBSET Hash!Keys) \ {{}} /\ e \in K /\ k \in K
      OBVIOUS
    <3>4. e \notin L /\ k \notin L /\ e # k
      <4>1. w \notin {p, v} /\ {p, w} # {w, v}
        BY <1>5, <1>7, <2>2
      <4> QED BY <1>5, <1>8, <3>2, <4>1
    <3>5. /\ \E x \in L : p \in Hash!Ends(x)
          /\ \E x \in L : v \in Hash!Ends(x)
          /\ \A x \in L : \A z \in Hash!Ends(x) \ {p, v} :
                \E y \in L \ {x} : z \in Hash!Ends(y)
      BY <3>2 DEF HashPath
    <3>6. ASSUME NEW x \in K, NEW z \in Hash!Ends(x) PROVE \E y \in K \ {x} : z \in Hash!Ends(y)
      <4>1. CASE x = e
        <5>1. z = p \/ z = w
          BY <1>8, <3>6, <4>1
        <5> QED BY <1>5, <3>3, <3>4, <3>5, <4>1, <5>1
      <4>2. CASE x = k
        <5>1. z = v \/ z = w
          BY <1>5, <3>6, <4>2
        <5> QED BY <1>8, <3>3, <3>4, <3>5, <4>2, <5>1
      <4>3. CASE x \in L
        <5>1. CASE z = p
          BY <1>8, <3>3, <3>4, <4>3, <5>1
        <5>2. CASE z = v
          BY <1>5, <3>3, <3>4, <4>3, <5>2
        <5>3. CASE z \notin {p, v}
          BY <3>5, <3>6, <4>3, <5>3
        <5> QED BY <5>1, <5>2, <5>3
      <4> QED BY <4>1, <4>2, <4>3
    <3>7. ~HashLeaf(K)
      BY <3>6 DEF HashLeaf
    <3> QED BY <3>3, <3>7
  <2> QED BY <2>1, <2>2
<1> QED BY <1>9 DEF Hash!Acyclic, HashLeaf

\* What a vertex visited without a cycle does to the trees.
HashTreeOf(S, V, st) ==
    /\ S \subseteq V /\ HashClosed(S)
    /\ \A u, v \in V \ S : u = v \/ HashLinked(u, v, V)
    /\ \A i \in 1..Len(st) : st[i][1] = Hash!NoVertex => Len(st) = 1 /\ V = S
HashTrees(h, V, st) ==
    /\ \A v \in Hash!Vertices : h[v] \in HashRange
    /\ HashForest(V)
    /\ HashPairs(st)
    /\ \A i \in 1..Len(st) : st[i][2] \notin V
    /\ \A k \in Hash!Keys : Hash!Ends(k) \cap V # {} =>
          \A v \in Hash!Ends(k) : v \in V \/ HashOn(st, v)
    /\ \E S : HashTreeOf(S, V, st)

LEMMA HashTreeVisit ==
  ASSUME HashTypeInv, HashVisitedInv, HashTreeInv, NKeys \in Nat, stack # <<>>,
         NEW p, NEW w, p = Hash!Last(stack)[1], w = Hash!Last(stack)[2],
         NEW r, HashLoopInv(r, NKeys, p, w), HashGrows(r, NKeys, p, w),
         w \in Hash!Vertices \ visited, p = Hash!NoVertex \/ p \in visited, ~r.cyclic
  PROVE  HashTrees(r.g, visited \cup {w}, r.stack)
<1> DEFINE V == visited \cup {w}
           st == r.stack
<1>1. /\ HashEdgesInv /\ stack \in Seq(HashEntries)
      /\ HashForest(visited)
      /\ \A k \in Hash!Keys : Hash!Ends(k) \cap visited # {} =>
            \A v \in Hash!Ends(k) : v \in visited \/ HashOn(stack, v)
  BY DEF HashTypeInv, HashVisitedInv, HashTreeInv
<1>2. /\ HashRanges(r.g) /\ HashStacks(st, NKeys, w, V) /\ HashCovers(st, NKeys, w, V)
      /\ \A k, j \in Hash!Keys : HashBack(k, w, V) /\ HashBack(j, w, V) => k = j
  BY DEF HashGrows, HashLoopInv, Hash!Keys
<1>3. PICK S : HashTree(S)
  BY DEF HashTreeInv
<1> HIDE DEF st, V
<1>4. HashForest(V)
  BY <1>1, <1>2, HashForestGrows DEF V
<1>5. ASSUME NEW i \in 1..Len(st) PROVE st[i][2] \notin V /\ st[i][1] # Hash!NoVertex
  <2>1. st[i][2] # w
    BY <1>2 DEF HashStacks, HashTwo
  <2>2. st[i][2] \notin visited /\ st[i][1] \in V
    BY <1>2 DEF HashStacks
  <2>3. Hash!NoVertex \notin V
    BY DEF V, HashTypeInv, Hash!NoVertex, Hash!Vertices
  <2> QED BY <2>1, <2>2, <2>3 DEF V
<1>6. ASSUME NEW k \in Hash!Keys, Hash!Ends(k) \cap V # {}, NEW v \in Hash!Ends(k)
      PROVE  v \in V \/ HashOn(st, v)
  <2>1. CASE w \in Hash!Ends(k)
    <3>1. Hash!Ends(k) = {w, Hash!Opposite(k, w)}
      BY <1>1, <2>1, HashOpposite
    <3>2. Hash!Opposite(k, w) \in V \/ HashOn(st, Hash!Opposite(k, w))
      BY <1>2, <2>1 DEF HashCovers, Hash!Keys
    <3> QED BY <1>6, <3>1, <3>2 DEF V
  <2>2. CASE w \notin Hash!Ends(k) /\ v \notin V
    <3>1. HashOn(stack, v)
      BY <1>1, <1>6, <2>2 DEF V
    <3>2. PICK i \in 1..Len(stack) : stack[i][2] = v
      BY <3>1 DEF HashOn
    <3>3. i \in 1..(Len(stack) - 1)
      <4>1. i # Len(stack)
        BY <1>1, <1>6, <2>2, <3>2, FrontEntry
      <4> QED BY <1>1, <4>1, FrontEntry
    <3> QED BY <1>2, <3>2, <3>3 DEF HashStacks
  <2> QED BY <2>1, <2>2
<1>7. IF p = Hash!NoVertex THEN visited = S
      ELSE p \in visited \ S /\ \E e \in Hash!Keys : Hash!Ends(e) = {p, w}
  BY <1>3, HashTop
<1>8. /\ S \subseteq visited /\ HashClosed(S)
      /\ \A u, v \in visited \ S : u = v \/ HashLinked(u, v, visited)
  BY <1>3 DEF HashTree
<1>9. ASSUME NEW u \in visited \ S PROVE HashLinked(u, w, V) /\ HashLinked(w, u, V)
  <2>1. PICK e \in Hash!Keys : Hash!Ends(e) = {p, w} /\ p \in visited \ S
    BY <1>7
  <2>2. u = p \/ HashLinked(u, p, visited)
    BY <1>8, <2>1
  <2>3. HashLinked(u, w, V)
    <3>1. e \in Hash!Keys /\ p \in visited /\ w \notin visited /\ V = visited \cup {w}
      BY <2>1 DEF V
    <3>2. Hash!Ends(e) = {p, w}
      BY <2>1
    <3> QED BY ONLY <2>2, <3>1, <3>2, HashLinkedGrows
  <2> QED BY <2>3, HashLinkedBack
<1>10. ASSUME NEW u \in V \ S, NEW v \in V \ S, u # v PROVE HashLinked(u, v, V)
  <2>1. CASE u \in visited /\ v \in visited
    <3>1. HashLinked(u, v, visited) /\ visited \subseteq V
      BY <1>8, <1>10, <2>1 DEF V
    <3> QED BY <3>1, HashLinkedIn
  <2>2. CASE u = w /\ v \in visited
    BY <1>9, <1>10, <2>2
  <2>3. CASE v = w /\ u \in visited
    BY <1>9, <1>10, <2>3
  <2> QED BY <1>10, <2>1, <2>2, <2>3 DEF V
<1>11. HashTreeOf(S, V, st)
  <2>1. S \subseteq V
    BY <1>8 DEF V
  <2> QED BY <1>5, <1>8, <1>10, <2>1 DEF HashTreeOf
<1>12. HashPairs(st) /\ \A v \in Hash!Vertices : r.g[v] \in HashRange
  BY <1>2 DEF HashStacks, HashRanges
<1>13. HashTrees(r.g, V, st)
  BY <1>4, <1>5, <1>6, <1>11, <1>12 DEF HashTrees
<1> QED BY <1>13 DEF V, st

\* The trees of the next state.
LEMMA HashTreesNext ==
  ASSUME edge' = edge, HashTrees(g', visited', stack')
  PROVE  HashTreeInv'
<1>1. /\ \A v \in Hash!Vertices : g'[v] \in HashRange
      /\ \A i \in 1..Len(stack') : stack'[i][2] \notin visited'
      /\ \A k \in Hash!Keys : Hash!Ends(k) \cap visited' # {} =>
            \A v \in Hash!Ends(k) : v \in visited' \/ HashOn(stack', v)
      /\ HashForest(visited') /\ HashPairs(stack')
  BY DEF HashTrees
<1>2. \A k : Hash!Ends(k)' = Hash!Ends(k)
  BY DEF Hash!Ends
<1>3. HashForest(visited)' /\ HashPairs(stack)'
  <2>1. \A K : HashLeaf(K)' <=> HashLeaf(K)
    BY DEF HashLeaf, Hash!Ends
  <2>2. HashForest(visited)'
    BY <1>1, <1>2, <2>1 DEF HashForest, Hash!Keys
  <2>3. \A e, f : HashApart(e, f)' <=> HashApart(e, f)
    BY DEF HashApart, Hash!Ends, Hash!Keys
  <2>4. HashPairs(stack)'
    BY <1>1, <2>3 DEF HashPairs, Hash!NoVertex
  <2> QED BY <2>2, <2>4
<1>4. PICK S : HashTreeOf(S, visited', stack')
  BY DEF HashTrees
<1>5. HashTree(S)'
  <2>1. HashClosed(S)'
    BY <1>4 DEF HashTreeOf, HashClosed, Hash!Ends, Hash!Keys
  <2>2. ASSUME NEW u, NEW v, HashLinked(u, v, visited') PROVE HashLinked(u, v, visited)'
    <3>1. PICK K \in SUBSET Hash!Keys :
             (\A k \in K : Hash!Ends(k) \subseteq visited') /\ HashPath(K, u, v)
      BY <2>2 DEF HashLinked
    <3>2. HashPath(K, u, v)'
      BY <3>1 DEF HashPath, Hash!Ends
    <3> QED BY <1>2, <3>1, <3>2 DEF HashLinked, Hash!Keys
  <2>3. \A u, v \in visited' \ S : u = v \/ HashLinked(u, v, visited)'
    BY <1>4, <2>2 DEF HashTreeOf
  <2> QED BY <1>4, <2>1, <2>3 DEF HashTreeOf, HashTree, Hash!NoVertex
<1> QED BY <1>1, <1>3, <1>5 DEF HashTreeInv, HashRange, Hash!Vertices, Hash!Keys, HashOn, Hash!Ends

\* Before the first root, and when the next tree starts.
LEMMA HashTreeStarts ==
  ASSUME NEW h, \A v \in Hash!Vertices : h[v] \in HashRange, NEW st, 
         HashForest(visited), \A k \in Hash!Keys : Hash!Ends(k) \cap visited # {} =>
                                  Hash!Ends(k) \subseteq visited,
         \/ Len(st) = 0
         \/ Len(st) = 1 /\ st[1][2] \notin visited
  PROVE  HashTrees(h, visited, st)
<1>1. HashPairs(st)
  BY DEF HashPairs
<1>2. \A i \in 1..Len(st) : st[i][2] \notin visited /\ Len(st) = 1
  OBVIOUS
<1>3. HashTreeOf(visited, visited, st)
  BY <1>2 DEF HashTreeOf, HashClosed
<1>4. \A k \in Hash!Keys : Hash!Ends(k) \cap visited # {} =>
            \A v \in Hash!Ends(k) : v \in visited \/ HashOn(st, v)
  OBVIOUS
<1> QED BY <1>1, <1>2, <1>3, <1>4 DEF HashTrees

-----------------------------------------------------------------------------
(* The invariant. *)

LEMMA HashInit == Hash!Init => HashInv
  BY DEF Hash!Init, HashInv, HashTypeInv, Hash!ValuesArePerfect, Hash!NoValues

LEMMA HashStepInv ==
  ASSUME NKeys \in Nat, HashInv, [Hash!Next]_Hash!vars
  PROVE  HashInv' /\ (step' = "attempt" => step = "attempt" \/ ~Hash!Acyclic)
<1>1. HashTypeInv
  BY DEF HashInv
<1>2. CASE UNCHANGED Hash!vars
  <2>1. HashTreeInv => HashTreeInv'
    <3> SUFFICES ASSUME HashTreeInv PROVE HashTrees(g', visited', stack') /\ edge' = edge
      BY HashTreesNext
    <3>1. HashTrees(g, visited, stack)
      BY DEF HashTreeInv, HashTrees, HashTree, HashTreeOf
    <3> QED BY <1>2, <3>1 DEF Hash!vars
  <2> QED BY <1>2, <2>1 DEF Hash!vars, HashInv, HashTypeInv, HashVisitedInv, HashEdgesInv,
             HashReached, HashIsLast, HashValued, HashAdds, Hash!Ends, Hash!ValuesArePerfect,
             Hash!Keys, Hash!Vertices, HashEntries
<1>3. CASE Hash!attempt
  <2>1. /\ step = "attempt" /\ step' = "assign" /\ UNCHANGED <<g, visited, stack>>
        /\ edge' \in [Hash!Keys -> {e \in Hash!Vertices \X Hash!Vertices : e[1] < e[2]}]
    BY <1>3 DEF Hash!attempt
  <2>2. visited' = {} /\ stack' = <<>> /\ Len(stack') = 0
    BY <2>1 DEF HashInv
  <2>3. HashEdgesInv'
    BY <2>1 DEF HashEdgesInv, Hash!Vertices, Hash!Keys
  <2>4. HashVisitedInv'
    BY <2>2, <2>3 DEF HashVisitedInv, HashReached, Hash!Ends
  <2>5. HashTreeInv'
    <3>1. \A v \in Hash!Vertices : g'[v] \in HashRange
      BY <2>1 DEF HashInv, HashRange
    <3>2. HashForest(visited)'
      <4>1. \A k \in Hash!Keys : Hash!Ends(k)' # {}
        BY DEF Hash!Ends
      <4> QED BY <2>2, <4>1 DEF HashForest, Hash!Keys
    <3>3. HashTree({})'
      BY <2>2 DEF HashTree, HashClosed
    <3> QED BY <2>2, <3>1, <3>2, <3>3 DEF HashTreeInv, HashPairs, HashRange, Hash!Vertices
  <2> QED BY <1>1, <2>1, <2>2, <2>4, <2>5 DEF HashInv, HashTypeInv, Hash!ValuesArePerfect,
             Hash!Vertices, HashEntries, Hash!NoVertex
<1>4. CASE Hash!assign_root
  <2> DEFINE root == Hash!Min(Hash!Vertices \ visited)
             x == <<Hash!NoVertex, root>>
  <2>1. /\ step = "assign" /\ visited # Hash!Vertices /\ stack = <<>> /\ stack' = <<x>>
        /\ g' = [g EXCEPT ![root] = 0] /\ UNCHANGED <<step, edge, visited>>
    BY <1>4 DEF Hash!assign_root
  <2>2. root \in Hash!Vertices \ visited
    <3> DEFINE T == Hash!Vertices \ visited
    <3>1. T \in SUBSET Nat /\ T # {}
      <4>1. Hash!Vertices \subseteq Nat
        BY DataAssumption DEF Hash!Vertices
      <4>2. visited \subseteq Hash!Vertices
        BY <1>1 DEF HashTypeInv
      <4> QED BY <2>1, <4>1, <4>2
    <3> HIDE DEF T
    <3>2. \E y \in T : \A z \in T : y <= z
      BY <3>1, LeastNumber
    <3>3. root = CHOOSE y \in T : \A z \in T : y <= z
      BY DEF Hash!Min, T
    <3> QED BY <3>2, <3>3 DEF T
  <2>3. x \in HashEntries /\ x[1] = Hash!NoVertex
    BY <2>2 DEF HashEntries
  <2> HIDE DEF root, x
  <2>4. stack' \in Seq(HashEntries) /\ Len(stack') = 1 /\ stack'[1] = x
    BY <2>1, <2>3
  <2>5. g' \in [Hash!Vertices -> Int] /\ \A v \in visited : g'[v] = g[v]
    BY <1>1, <2>1, <2>2 DEF HashTypeInv
  <2>6. HashEdgesInv /\ \A k \in Hash!Keys : Hash!Ends(k) \subseteq visited => HashAdds(g, k)
    BY <2>1 DEF HashInv, HashVisitedInv
  <2>7. (\A k \in Hash!Keys : Hash!Ends(k) \subseteq visited => HashAdds(g, k))'
    BY <2>1, <2>5, <2>6 DEF HashAdds, Hash!Ends, Hash!Keys
  <2>8. \A i \in 1..Len(stack') : stack'[i][1] = Hash!NoVertex
    BY <2>3, <2>4
  <2>9. HashVisitedInv'
    BY <2>1, <2>6, <2>7, <2>8 DEF HashVisitedInv, HashReached, HashValued, HashEdgesInv,
       Hash!NoVertex, Hash!Keys, Hash!Vertices
  <2>10. HashTreeInv'
    <3>1. /\ \A v \in Hash!Vertices : g[v] \in HashRange
          /\ HashForest(visited)
          /\ \A k \in Hash!Keys : Hash!Ends(k) \cap visited # {} =>
                Hash!Ends(k) \subseteq visited
      BY <2>1 DEF HashInv, HashTreeInv, HashOn
    <3>2. \A v \in Hash!Vertices : g'[v] \in HashRange
      <4>1. \A v \in Hash!Vertices : g'[v] = g[v] \/ g'[v] = 0
        BY <1>1, <2>1 DEF HashTypeInv
      <4> QED BY <3>1, <4>1 DEF HashRange
    <3>3. Len(stack') = 1 /\ stack'[1][2] \notin visited
      BY <2>2, <2>4 DEF x
    <3>4. HashTrees(g', visited, stack')
      BY <3>1, <3>2, <3>3, HashTreeStarts
    <3> QED BY <2>1, <3>4, HashTreesNext
  <2> QED BY <1>1, <2>1, <2>4, <2>5, <2>9, <2>10 DEF HashInv, HashTypeInv, Hash!ValuesArePerfect,
             Hash!Vertices, HashEntries, Hash!NoVertex
<1>5. CASE Hash!assign_vertex
  <2> DEFINE p == Hash!Last(stack)[1]
             w == Hash!Last(stack)[2]
             r == Hash!Neighbours(p, w)
  <2>1. /\ step = "assign" /\ stack # <<>>
        /\ \/ /\ r.cyclic /\ step' = "attempt"
              /\ visited' = {} /\ g' = Hash!NoValues /\ stack' = <<>>
           \/ /\ ~r.cyclic /\ visited' = visited \cup {w} /\ g' = r.g /\ stack' = r.stack
              /\ UNCHANGED <<step, edge>>
    BY <1>5 DEF Hash!assign_vertex
  <2>2. HashVisitedInv /\ HashTreeInv
    BY <2>1 DEF HashInv
  <2>3. /\ w \in Hash!Vertices \ visited /\ (p = Hash!NoVertex \/ p \in visited)
        /\ HashLoopInv(r, NKeys, p, w) /\ HashGrows(r, NKeys, p, w)
    BY <1>1, <2>1, <2>2, HashNeighbours
  <2> HIDE DEF r, p, w
  <2>4. p = Hash!Last(stack)[1] /\ w = Hash!Last(stack)[2]
    BY DEF p, w
  <2>5. CASE r.cyclic /\ step' = "attempt"
             /\ visited' = {} /\ g' = Hash!NoValues /\ stack' = <<>>
    <3>1. ~Hash!Acyclic
      <4>1. HashCycle(NKeys, p, w, visited \cup {w})
        BY <2>3, <2>5 DEF HashGrows
      <4> QED BY <1>1, <2>1, <2>2, <2>3, <2>4, <4>1, HashCycleIs
    <3> QED BY <2>5, <3>1 DEF HashInv, HashTypeInv, Hash!NoValues, Hash!ValuesArePerfect,
               Hash!Vertices
  <2>6. CASE /\ ~r.cyclic /\ visited' = visited \cup {w} /\ g' = r.g /\ stack' = r.stack
             /\ UNCHANGED <<step, edge>>
    <3>1. /\ g' \in [Hash!Vertices -> Int] /\ visited' \subseteq Hash!Vertices
          /\ stack' \in Seq(HashEntries) /\ HashVisitedInv'
      BY <1>1, <2>1, <2>2, <2>3, <2>4, <2>6, HashVisit
    <3>2. HashTreeInv'
      <4>1. HashTrees(r.g, visited \cup {w}, r.stack)
        BY <1>1, <2>1, <2>2, <2>3, <2>4, <2>6, HashTreeVisit
      <4>2. HashTrees(g', visited', stack')
        BY <2>6, <4>1
      <4> QED BY <2>6, <4>2, HashTreesNext
    <3> QED BY <2>1, <2>6, <3>1, <3>2 DEF HashInv, HashTypeInv, Hash!ValuesArePerfect,
               Hash!Vertices, HashEntries, Hash!NoVertex
  <2> QED BY <2>1, <2>5, <2>6
<1>6. CASE Hash!assigned
  <2>1. /\ step = "assign" /\ visited = Hash!Vertices /\ step' = "done"
        /\ UNCHANGED <<edge, g, visited, stack>>
    BY <1>6 DEF Hash!assigned
  <2>2. ASSUME NEW k \in Hash!Keys PROVE HashAdds(g, k)
    <3>1. Hash!Ends(k) \subseteq visited
      BY <2>1 DEF HashInv, HashVisitedInv, HashEdgesInv, Hash!Ends
    <3> QED BY <2>1, <3>1 DEF HashInv, HashVisitedInv
  <2> QED BY <1>1, <2>1, <2>2 DEF HashInv, HashTypeInv, Hash!ValuesArePerfect, HashAdds,
             Hash!Keys, Hash!Vertices, HashEntries, Hash!NoVertex
<1> QED BY <1>2, <1>3, <1>4, <1>5, <1>6 DEF Hash!Next

-----------------------------------------------------------------------------
(* The packed values, and the lookup of one of them. *)

\* The bits of a value are enough for it, and a lookup reads at most three bytes.
LEMMA HashKeyBits ==
  ASSUME NEW m, m = Hash!key_bits
  PROVE  m \in Nat /\ NKeys <= 2 ^ m /\ m <= 2 * ByteBits + 1
<1>1. NKeys \in Nat /\ ByteBits \in Nat \ {0} /\ NKeys <= 2 ^ (2 * ByteBits + 1)
  BY DataAssumption
<1> DEFINE S == {i \in 0..NKeys : NKeys <= 2 ^ i}
\* A power of two is larger than its exponent.
<1>2. NKeys <= 2 ^ NKeys
  <2> DEFINE T == {i \in Nat : ~(i <= 2 ^ i)}
  <2>1. SUFFICES ASSUME T # {} PROVE FALSE
    BY <1>1
  <2>2. T \in SUBSET Nat
    OBVIOUS
  <2>3. PICK i \in T : \A k \in T : i <= k
    BY <2>1, <2>2, LeastNumber
  <2>4. i \in Nat /\ ~(i <= 2 ^ i) /\ 2 ^ 0 = 1
    BY <2>3, PowerZero
  <2>5. i # 0
    <3>1. SUFFICES ASSUME i = 0 PROVE FALSE
      OBVIOUS
    <3>2. 2 ^ i = 1
      BY ONLY <2>4, <3>1, Zenon
    <3> QED BY <2>4, <3>1, <3>2
  <2>6. i - 1 \in Nat /\ ~(i <= i - 1) /\ (i - 1) + 1 = i
    BY <2>4, <2>5
  <2>7. i - 1 <= 2 ^ (i - 1)
    BY <2>3, <2>6
  <2>8. 2 ^ (i - 1) \in Nat \ {0} /\ 2 ^ ((i - 1) + 1) = 2 * 2 ^ (i - 1)
    BY <2>6, PowerType, PowerNext
  <2> DEFINE p == 2 ^ (i - 1)  q == 2 ^ i
  <2>9. p \in Nat \ {0} /\ q = 2 * p /\ i - 1 <= p /\ ~(i <= q)
    BY <2>4, <2>6, <2>7, <2>8
  <2> HIDE DEF p, q
  <2> QED BY <2>4, <2>9
<1>3. NKeys \in S
  BY <1>1, <1>2
<1>4. S \in SUBSET Nat
  BY <1>1
<1>5. m = CHOOSE i \in S : \A k \in S : i <= k
  BY DEF Hash!key_bits, Hash!Min
<1> HIDE DEF S
<1>6. m \in S /\ \A k \in S : m <= k
  <2>1. \E i \in S : \A k \in S : i <= k
    BY <1>3, <1>4, LeastNumber
  <2> QED BY <1>5, <2>1
<1>7. m <= 2 * ByteBits + 1
  <2> DEFINE i == 2 * ByteBits + 1
  <2>1. i \in Nat /\ NKeys <= 2 ^ i
    BY <1>1
  <2> HIDE DEF i
  <2>2. CASE i <= NKeys
    <3>1. i \in S
      BY <1>1, <2>1, <2>2 DEF S
    <3> QED BY <1>6, <3>1 DEF i
  <2>3. CASE i > NKeys
    <3>1. m \in Nat /\ m <= NKeys
      BY <1>3, <1>4, <1>6
    <3>2. m <= i
      BY <1>1, <2>1, <2>3, <3>1
    <3> QED BY <3>2 DEF i
  <2> QED BY <1>1, <2>1, <2>2, <2>3
<1> QED BY <1>4, <1>6, <1>7 DEF S

\* The values fit in their bits.
HashFits(h, m) == h \in [Hash!Vertices -> Int] /\ \A v \in Hash!Vertices : h[v] \in 0..(2 ^ m - 1)

LEMMA HashStarts ==
  ASSUME NEW m \in Nat, m = Hash!key_bits, NEW v \in Hash!Vertices
  PROVE  /\ v \in Nat \ {0} /\ v <= NV /\ NV \in Nat /\ v - 1 \in Nat
         /\ Hash!Start(v) \in Nat /\ Hash!Start(v) = (v - 1) * m
         /\ Hash!Start(v) + m = v * m /\ v * m \in Nat /\ v * m <= NV * m /\ NV * m \in Nat
<1>1. v \in Nat \ {0} /\ v <= NV /\ NV \in Nat /\ v - 1 \in Nat
  BY DataAssumption DEF Hash!Vertices
<1>2. (v - 1) * m \in Nat /\ (v - 1) * m + m = v * m /\ v * m \in Nat
  BY <1>1
<1>3. (NV - v) * m >= 0 /\ NV * m \in Nat
  BY <1>1
<1>4. (NV - v) * m = NV * m - v * m
  BY <1>1
<1>5. v * m <= NV * m
  <2> DEFINE a == v * m  b == NV * m  c == (NV - v) * m
  <2>1. a \in Nat /\ b \in Nat /\ c >= 0 /\ c = b - a
    BY <1>2, <1>3, <1>4
  <2> HIDE DEF a, b, c
  <2>2. a <= b
    BY <2>1
  <2> QED BY <2>2 DEF a, b
<1> QED BY <1>1, <1>2, <1>3, <1>5 DEF Hash!Start

\* What a value adds to a byte are its shifted bits.
LEMMA HashPart ==
  ASSUME NEW m \in Nat, m = Hash!key_bits, NEW v \in Hash!Vertices, g[v] \in Int, NEW i \in Nat \ {0}
  PROVE  Hash!Part(v, i) = Bits(g[v] * 2 ^ Hash!Start(v), ByteBits * (i - 1), ByteBits)
<1> DEFINE B == ByteBits  s == Hash!Start(v)  q == s \div B  t == s % B  k == (i - 1) - q
           x == g[v]
<1>1. B \in Nat \ {0} /\ s \in Nat
  BY HashStarts, DataAssumption
<1> HIDE DEF B, s
<1>2. q \in Int /\ t \in 0..(B - 1) /\ s = (B * q) + t
  BY <1>1, DivisionIs
<1>3. q \in Nat /\ t \in Nat /\ B * q \in Nat
  <2>1. q \in Nat
    <3> HIDE DEF q, t
    <3>1. B * (0 - q) = 0 - (B * q) /\ B * q \in Int
      BY <1>1, <1>2
    <3>2. q < 0 => B * ((0 - q) - 1) >= 0 /\ B * ((0 - q) - 1) = B * (0 - q) - B
      BY <1>1, <1>2
    <3> QED BY <1>1, <1>2, <3>1, <3>2
  <2> HIDE DEF q, t
  <2>2. B * q \in Nat
    BY <1>1, <2>1
  <2> QED BY <1>1, <1>2, <2>1, <2>2
<1>4. i - 1 - q = k
  <2> HIDE DEF q
  <2> QED BY <1>3
<1>5. Hash!Part(v, i) = IF k < 0 THEN 0 ELSE ((x * 2 ^ t) \div 2 ^ (B * k)) % 2 ^ B
  BY <1>4 DEF Hash!Part, B, s
<1> HIDE DEF q, t, x
<1>6. k \in Int /\ i - 1 = q + k /\ i - 1 \in Nat /\ x \in Int
  BY <1>3 DEF x
<1> HIDE DEF k
<1>7. CASE k < 0
  <2>1. B * (i - 1) \in Nat /\ B * (i - 1) + B <= s
    <3>1. B * (i - 1) + B = B * i /\ B * (i - 1) \in Nat /\ B * i \in Nat
      BY <1>1
    <3>2. i <= q
      BY <1>3, <1>6, <1>7
    <3>3. B * (q - i) >= 0 /\ B * (q - i) = B * q - B * i
      BY <1>1, <1>3, <3>2
    <3>4. B * i <= B * q
      BY <1>3, <3>1, <3>3
    <3> QED BY <1>2, <1>3, <3>1, <3>4
  <2> DEFINE e == B * (i - 1)
  <2> HIDE DEF e
  <2>2. Bits(x * 2 ^ s, e, B) = 0
    BY <1>1, <1>6, <2>1, BitsOfShifted DEF e
  <2> QED BY <1>5, <1>7, <2>2 DEF e, B, s, x
<1>8. CASE k >= 0
  <2> DEFINE c == B * q  d == B * k  y == x * 2 ^ t  z == x * 2 ^ s
  <2>1. k \in Nat /\ c \in Nat /\ d \in Nat /\ B * (i - 1) = c + d /\ s = c + t
    <3>1. k \in Nat
      BY <1>6, <1>8
    <3>2. B * k \in Nat /\ B * (q + k) = B * q + B * k
      BY <1>1, <1>3, <3>1
    <3> QED BY <1>2, <1>3, <1>6, <3>1, <3>2
  <2> HIDE DEF c, d
  <2>2. 2 ^ c \in Nat \ {0} /\ 2 ^ d \in Nat \ {0} /\ 2 ^ t \in Nat \ {0}
        /\ 2 ^ (c + t) = 2 ^ c * 2 ^ t /\ 2 ^ (c + d) = 2 ^ c * 2 ^ d
    BY <1>3, <2>1, PowerType, PowerSum
  <2> DEFINE a == 2 ^ c  b == 2 ^ d  w == 2 ^ t
  <2>3. a \in Nat \ {0} /\ b \in Nat \ {0} /\ w \in Nat \ {0} /\ 2 ^ s = a * w /\ 2 ^ (c + d) = a * b
    BY <2>1, <2>2
  <2> HIDE DEF a, b, w
  <2>4. y \in Int /\ z = y * a /\ z \in Int
    <3>1. x * w \in Int /\ x * (a * w) = (x * w) * a /\ x * (a * w) \in Int
      BY <1>6, <2>3
    <3> QED BY <2>3, <3>1 DEF w
  <2> HIDE DEF y, z
  <2>5. z \div a = y
    BY <2>3, <2>4, DivideMultiple
  <2>6. (z \div a) \div b = z \div (a * b)
    BY <2>3, <2>4, DivideTwice
  <2>7. z \div 2 ^ (c + d) = y \div b
    BY <2>3, <2>5, <2>6
  <2>8. Bits(z, c + d, B) = (y \div b) % 2 ^ B
    BY <2>7 DEF Bits
  <2>9. Hash!Part(v, i) = (y \div b) % 2 ^ B
    BY <1>5, <1>6, <1>8 DEF y, b, d
  <2> QED BY <2>1, <2>8, <2>9 DEF z, B, s, x
<1> QED BY <1>6, <1>7, <1>8

\* A sum of the shifted values.
HashSums(f, h) ==
    f \in [0..NV -> Int] /\ f[0] = 0
    /\ \A v \in Hash!Vertices : f[v] = f[v - 1] + h[v] * 2 ^ Hash!Start(v)

LEMMA HashSum ==
  ASSUME NEW m \in Nat, m = Hash!key_bits, NEW h, HashFits(h, m)
  PROVE  \E f : HashSums(f, h)
<1> DEFINE next == [v \in 1..NV |-> [x \in Int |-> x + h[v] * 2 ^ Hash!Start(v)]]
<1>1. NV \in Nat /\ 0 \in Int
  BY DataAssumption
<1>2. next \in Steps(Int, NV)
  <2>1. ASSUME NEW v \in 1..NV PROVE h[v] * 2 ^ Hash!Start(v) \in Int
    <3> DEFINE s == Hash!Start(v)  p == 2 ^ s  a == h[v]
    <3>1. s \in Nat /\ a \in Int
      <4>1. v \in Hash!Vertices
        BY DEF Hash!Vertices
      <4> QED BY <4>1, HashStarts DEF HashFits
    <3> HIDE DEF s
    <3>2. p \in Nat \ {0}
      BY <3>1, PowerType
    <3> HIDE DEF p, a
    <3>3. a * p \in Int
      BY <3>1, <3>2
    <3> QED BY <3>3 DEF a, p, s
  <2>2. ASSUME NEW v \in 1..NV, NEW x \in Int PROVE x + h[v] * 2 ^ Hash!Start(v) \in Int
    <3> DEFINE a == h[v] * 2 ^ Hash!Start(v)
    <3>1. a \in Int
      BY <2>1
    <3> HIDE DEF a
    <3>2. x + a \in Int
      BY <3>1
    <3> QED BY <3>2 DEF a
  <2> QED BY <2>2 DEF Steps
<1>3. PICK f : Iterated(f, Int, NV, 0, next)
  <2> HIDE DEF next
  <2> QED BY <1>1, <1>2, Iterates
<1>4. ASSUME NEW v \in Hash!Vertices PROVE f[v] = f[v - 1] + h[v] * 2 ^ Hash!Start(v)
  <2>1. v \in 1..NV /\ v - 1 \in 0..NV
    BY <1>1 DEF Hash!Vertices
  <2>2. f[v] = next[v][f[v - 1]] /\ f[v - 1] \in Int
    BY <1>3, <2>1 DEF Iterated
  <2> QED BY <2>1, <2>2
<1>5. f \in [0..NV -> Int] /\ f[0] = 0
  BY <1>3 DEF Iterated
<1> QED BY <1>4, <1>5 DEF HashSums

\* A value adds bits above those of the values before it, of which the sum keeps all.
LEMMA HashSumGrows ==
  ASSUME NEW m \in Nat, m = Hash!key_bits, NEW h, HashFits(h, m), NEW f, HashSums(f, h),
         NEW v \in Hash!Vertices, f[v - 1] \in 0..(2 ^ ((v - 1) * m) - 1)
  PROVE  /\ f[v] \in 0..(2 ^ (v * m) - 1)
         /\ Bits(f[v], Hash!Start(v), m) = h[v]
         /\ SameBelow(f[v - 1], f[v], Hash!Start(v))
         /\ \A t \in Nat, l \in Nat :
               Bits(f[v], t, l) = Bits(f[v - 1], t, l) + Bits(h[v] * 2 ^ Hash!Start(v), t, l)
<1> DEFINE s == Hash!Start(v)  x == f[v - 1]  y == h[v]
<1>1. s \in Nat /\ s = (v - 1) * m /\ s + m = v * m /\ x \in 0..(2 ^ s - 1)
  BY HashStarts
<1>2. y \in 0..(2 ^ m - 1) /\ f[v] = x + y * 2 ^ s
  BY DEF HashFits, HashSums
<1>3. x \in Int /\ y \in Nat
  <2> DEFINE p == 2 ^ s  w == 2 ^ m
  <2>1. p \in Nat /\ w \in Nat
    BY <1>1, PowerType
  <2>2. x \in 0..(p - 1) /\ y \in 0..(w - 1)
    BY <1>1, <1>2
  <2> HIDE DEF p, w, x, y, s
  <2> QED BY <2>1, <2>2
<1> HIDE DEF s, x, y
<1>4. x + y * 2 ^ s \in 0..(2 ^ (s + m) - 1) /\ Bits(x + y * 2 ^ s, s, m) = y
  BY <1>1, <1>2, BitsShifted
<1>5. ASSUME NEW t \in Nat, NEW l \in Nat
      PROVE  Bits(x + y * 2 ^ s, t, l) = Bits(x, t, l) + Bits(y * 2 ^ s, t, l)
  BY <1>1, <1>3, BitsOfSum
<1>6. SameBelow(x, x + y * 2 ^ s, s)
  BY <1>3 DEF SameBelow
<1>7. s + m = v * m
  BY <1>1
<1> QED BY ONLY <1>2, <1>4, <1>5, <1>6, <1>7 DEF s, x, y

\* The sum of all values, of which the bits of each can be read.
LEMMA HashSumBits ==
  ASSUME NEW m \in Nat, m = Hash!key_bits, NEW h, HashFits(h, m), NEW f, HashSums(f, h)
  PROVE  /\ \A v \in 0..NV : f[v] \in 0..(2 ^ (v * m) - 1)
         /\ \A v \in Hash!Vertices : Bits(f[NV], Hash!Start(v), m) = h[v]
<1>1. NV \in Nat
  BY DataAssumption
<1>2. \A v \in 0..NV : f[v] \in 0..(2 ^ (v * m) - 1)
  <2> DEFINE T == {v \in 0..NV : f[v] \notin 0..(2 ^ (v * m) - 1)}
  <2>1. SUFFICES ASSUME T # {} PROVE FALSE
    OBVIOUS
  <2>2. T \in SUBSET Nat
    BY <1>1
  <2>3. PICK v \in T : \A k \in T : v <= k
    BY <2>1, <2>2, LeastNumber
  <2>4. CASE v = 0
    <3>1. v * m = 0 /\ 2 ^ 0 = 1
      BY <2>4, PowerZero
    <3>2. 2 ^ (v * m) = 1
      BY ONLY <3>1, Zenon
    <3>3. f[v] = 0
      BY <2>4 DEF HashSums
    <3>4. f[v] \in 0..(2 ^ (v * m) - 1)
      BY <3>2, <3>3
    <3> QED BY <2>3, <3>4
  <2>5. CASE v # 0
    <3>1. v \in Hash!Vertices /\ v - 1 \in 0..NV /\ ~(v <= v - 1)
      BY <1>1, <2>3, <2>5 DEF Hash!Vertices
    <3>2. f[v - 1] \in 0..(2 ^ ((v - 1) * m) - 1)
      BY <2>3, <3>1
    <3>3. f[v] \in 0..(2 ^ (v * m) - 1)
      BY <3>1, <3>2, HashSumGrows
    <3> QED BY <2>3, <3>3
  <2> QED BY <2>4, <2>5
<1>3. ASSUME NEW v \in Hash!Vertices PROVE Bits(f[NV], Hash!Start(v), m) = h[v]
  <2> DEFINE T == {w \in v..NV : Bits(f[w], Hash!Start(v), m) # h[v]}
  <2>1. v \in Nat \ {0} /\ v <= NV
    BY HashStarts
  <2>2. SUFFICES ASSUME T # {} PROVE FALSE
    BY <1>1, <2>1
  <2>3. T \in SUBSET Nat
    BY <1>1, <2>1
  <2>4. PICK w \in T : \A k \in T : w <= k
    BY <2>2, <2>3, LeastNumber
  <2>5. w \in Hash!Vertices /\ w \in v..NV /\ w - 1 \in 0..NV
    BY <1>1, <2>1, <2>4 DEF Hash!Vertices
  <2>6. f[w - 1] \in 0..(2 ^ ((w - 1) * m) - 1)
    BY <1>2, <2>5
  <2>7. CASE w = v
    <3>1. Bits(f[w], Hash!Start(v), m) = h[v]
      BY <2>5, <2>6, <2>7, HashSumGrows
    <3> QED BY <2>4, <3>1
  <2>8. CASE w # v
    <3>1. w - 1 \in v..NV /\ ~(w <= w - 1)
      BY <1>1, <2>1, <2>5, <2>8
    <3>2. Bits(f[w - 1], Hash!Start(v), m) = h[v]
      BY <2>4, <3>1
    <3>3. SameBelow(f[w - 1], f[w], Hash!Start(w))
      BY <2>5, <2>6, HashSumGrows
    <3>4. /\ Hash!Start(v) \in Nat /\ Hash!Start(w) \in Nat
          /\ Hash!Start(v) + m <= Hash!Start(w)
      <4>1. /\ Hash!Start(v) \in Nat /\ Hash!Start(w) \in Nat
            /\ Hash!Start(v) + m = v * m /\ Hash!Start(w) = (w - 1) * m
        BY <2>5, HashStarts
      <4>2. ((w - 1) - v) * m >= 0 /\ ((w - 1) - v) * m = (w - 1) * m - v * m
            /\ (w - 1) * m \in Int /\ v * m \in Int
        BY <2>1, <2>5, <3>1
      <4> DEFINE a == (w - 1) * m  b == v * m  c == ((w - 1) - v) * m
      <4>3. c >= 0 /\ c = a - b /\ a \in Int /\ b \in Int
        BY <4>2
      <4> HIDE DEF a, b, c
      <4>4. b <= a
        BY <4>3
      <4> QED BY <4>1, <4>4 DEF a, b
    <3> DEFINE x == f[w - 1]  z == f[w]  s == Hash!Start(v)  e == Hash!Start(w)
    <3>5. x \in Int
      BY <2>5 DEF HashSums
    <3>6. e \in Nat /\ s \in Nat /\ s + m <= e /\ SameBelow(x, z, e)
      BY <3>3, <3>4
    <3> HIDE DEF x, z, s, e
    <3>7. Bits(z, s, m) = Bits(x, s, m)
      BY <3>5, <3>6, BitsBelow
    <3>8. Bits(f[w], Hash!Start(v), m) = h[v]
      BY <3>2, <3>7 DEF x, z, s
    <3> QED BY <2>4, <3>8
  <2> QED BY <2>7, <2>8
<1> QED BY <1>2, <1>3

HashSize == (NV * Hash!key_bits + ByteBits - 1) \div ByteBits

\* The packed bytes are those of the sum.
LEMMA HashBytes ==
  ASSUME NEW m \in Nat, m = Hash!key_bits, HashFits(g, m), NEW f, HashSums(f, g)
  PROVE  \A i \in 1..HashSize : Hash!pack_hash[i] = Bits(f[NV], ByteBits * (i - 1), ByteBits)
<1> DEFINE Bytes(x, i) == Bits(x, ByteBits * (i - 1), ByteBits)
           Body(h) == [v \in 0..NV |-> [i \in 1..HashSize |->
                          IF v = 0 THEN 0 ELSE h[v - 1][i] + Hash!Part(v, i)]]
           parts == CHOOSE h : h = Body(h)
           sums == [v \in 0..NV |-> [i \in 1..HashSize |-> Bytes(f[v], i)]]
<1>1. NV \in Nat /\ ByteBits \in Nat \ {0} /\ \A i \in 1..HashSize : i \in Nat \ {0}
  BY DataAssumption
<1>2. Hash!pack_hash = parts[NV]
  BY DEF Hash!pack_hash, HashSize
<1>3. ASSUME NEW i \in 1..HashSize PROVE Bytes(f[0], i) = 0
  <2> DEFINE t == ByteBits * (i - 1)  l == ByteBits
  <2>1. t \in Nat /\ l \in Nat /\ 0 \in Int /\ f[0] = 0
    BY <1>1 DEF HashSums
  <2> HIDE DEF t, l
  <2>2. 0 * 2 ^ (t + l) = 0
    <3> DEFINE p == 2 ^ (t + l)
    <3>1. t + l \in Nat
      BY <2>1
    <3>2. p \in Nat
      BY <3>1, PowerType
    <3> HIDE DEF p
    <3>3. 0 * p = 0
      BY <3>2
    <3> QED BY <3>3 DEF p
  <2> DEFINE e == t + l
  <2>3. e \in Nat /\ t + l <= e
    BY <2>1
  <2> HIDE DEF e
  <2>4. Bits(0 * 2 ^ e, t, l) = 0
    BY <2>1, <2>3, BitsOfShifted
  <2> QED BY <2>1, <2>2, <2>4 DEF e, t, l
<1>4. ASSUME NEW i \in 1..HashSize, NEW v \in Hash!Vertices
      PROVE  Bytes(f[v], i) = Bytes(f[v - 1], i) + Hash!Part(v, i)
  <2> DEFINE t == ByteBits * (i - 1)  l == ByteBits  y == g[v] * 2 ^ Hash!Start(v)
  <2>1. t \in Nat /\ l \in Nat
    BY <1>1
  <2>2. v - 1 \in 0..NV /\ g[v] \in Int
    BY <1>1 DEF Hash!Vertices, HashFits
  <2>3. f[v - 1] \in 0..(2 ^ ((v - 1) * m) - 1)
    BY <2>2, HashSumBits
  <2>4. Hash!Part(v, i) = Bits(y, t, l)
    BY <1>1, <2>2, HashPart
  <2>5. Bits(f[v], t, l) = Bits(f[v - 1], t, l) + Bits(y, t, l)
    <3> HIDE DEF t, l
    <3> QED BY <2>1, <2>3, HashSumGrows
  <2> QED BY <2>4, <2>5
<1> HIDE DEF Bytes
<1>5. sums = Body(sums)
  <2>1. ASSUME NEW v \in 0..NV, NEW i \in 1..HashSize
        PROVE  sums[v][i] = IF v = 0 THEN 0 ELSE sums[v - 1][i] + Hash!Part(v, i)
    <3>1. CASE v = 0
      BY <1>3, <3>1
    <3>2. CASE v # 0
      <4>1. v \in Hash!Vertices /\ v - 1 \in 0..NV
        BY <1>1, <3>2 DEF Hash!Vertices
      <4> QED BY <1>4, <3>2, <4>1
    <3> QED BY <3>1, <3>2
  <2>2. ASSUME NEW v \in 0..NV PROVE sums[v] = Body(sums)[v]
    <3>1. \A i \in 1..HashSize : sums[v][i] = Body(sums)[v][i]
      BY <2>1
    <3> QED BY <3>1
  <2> QED BY <2>2
<1>6. parts = Body(parts)
  BY <1>5
<1> HIDE DEF parts
<1>7. ASSUME NEW i \in 1..HashSize PROVE parts[NV][i] = Bytes(f[NV], i)
  <2> DEFINE T == {v \in 0..NV : parts[v][i] # Bytes(f[v], i)}
  <2>1. SUFFICES ASSUME T # {} PROVE FALSE
    BY <1>1
  <2>2. T \in SUBSET Nat
    BY <1>1
  <2>3. PICK v \in T : \A k \in T : v <= k
    BY <2>1, <2>2, LeastNumber
  <2>4. parts[v][i] = IF v = 0 THEN 0 ELSE parts[v - 1][i] + Hash!Part(v, i)
    BY <1>6, <2>3
  <2>5. CASE v = 0
    BY <1>3, <2>3, <2>4, <2>5
  <2>6. CASE v # 0
    <3>1. v \in Hash!Vertices /\ v - 1 \in 0..NV /\ ~(v <= v - 1)
      BY <1>1, <2>3, <2>6 DEF Hash!Vertices
    <3>2. parts[v - 1][i] = Bytes(f[v - 1], i)
      BY <2>3, <3>1
    <3> QED BY <1>4, <2>3, <2>4, <2>6, <3>1, <3>2
  <2> QED BY <2>5, <2>6
<1> QED BY <1>2, <1>7 DEF Bytes

\* A lookup in bytes of x finds the bits of x that the vertex has.
LEMMA HashLookup ==
  ASSUME NEW m \in Nat, m = Hash!key_bits, NEW x \in Int, NEW v \in Hash!Vertices,
         \A i \in 1..HashSize : packed'[i] = Bits(x, ByteBits * (i - 1), ByteBits)
  PROVE  m # 0 => Hash!lookup_g(v - 1)' = Bits(x, Hash!Start(v), m)
<1> SUFFICES ASSUME m # 0 PROVE Hash!lookup_g(v - 1)' = Bits(x, Hash!Start(v), m)
  OBVIOUS
<1> DEFINE B == ByteBits  s == Hash!Start(v)  q == s \div B  t == s % B  be == m + t
           Byte(j) == Bits(x, B * j, B)
           value == Byte(q) + (IF be > B THEN Byte(q + 1) * 2 ^ B ELSE 0)
                            + (IF be > 2 * B THEN Byte(q + 2) * 2 ^ (2 * B) ELSE 0)
<1>1. B \in Nat \ {0} /\ s \in Nat /\ s + m <= NV * m /\ NV * m \in Nat
      /\ s = (v - 1) * m
  BY HashStarts, DataAssumption
<1>2. m <= 2 * B + 1
  BY HashKeyBits
<1> HIDE DEF B, s
<1>3. q \in Int /\ t \in 0..(B - 1) /\ s = (B * q) + t
  <2>1. B \in Nat \ {0} /\ s \in Int
    BY <1>1
  <2> QED BY ONLY <2>1, DivisionIs
<1> HIDE DEF q, t
<1>4. q \in Nat /\ t \in Nat /\ B * q \in Nat
  <2>1. B * (0 - q) = 0 - (B * q) /\ B * q \in Int
    BY <1>1, <1>3
  <2>2. q < 0 => B * ((0 - q) - 1) >= 0 /\ B * ((0 - q) - 1) = B * (0 - q) - B
    BY <1>1, <1>3
  <2>3. q \in Nat
    BY <1>1, <1>3, <2>1, <2>2
  <2>4. B * q \in Nat
    BY <1>1, <2>3
  <2> QED BY <1>3, <2>3, <2>4
<1>5. be \in Nat /\ be <= 3 * B /\ be > 0
  BY <1>1, <1>2, <1>3, <1>4
\* The bytes that are read are in the table.
<1>6. ASSUME NEW j \in 0..2, be > j * B
      PROVE  packed'[q + 1 + j] = Byte(q + j)
  <2> DEFINE e == NV * m
             size == (e + B - 1) \div B
             w == q + j
             rest == (e + B - 1) % B
  <2>1. e \in Nat /\ w \in Nat /\ e + B - 1 \in Int
    BY <1>1, <1>4
  <2>2. B * w = B * q + j * B /\ B * w \in Int
    BY <1>1, <1>4
  <2>3. B * w < e
    BY <1>1, <1>3, <1>4, <1>6, <2>2
  <2> HIDE DEF e
  <2>4. size \in Int /\ rest \in 0..(B - 1) /\ e + B - 1 = (B * size) + rest
    BY <1>1, <2>1, DivisionIs
  <2> HIDE DEF w, size, rest
  <2>5. w < size
    <3>1. w >= size => B * (w - size) >= 0
      BY <1>1, <2>1, <2>4
    <3>2. B * (w - size) = B * w - B * size /\ B * w \in Int /\ B * size \in Int
      BY <1>1, <2>1, <2>4
    <3> QED BY <1>1, <2>1, <2>3, <2>4, <3>1, <3>2
  <2>6. HashSize = size
    BY DEF HashSize, size, e, B
  <2>7. q + 1 + j \in 1..HashSize /\ (q + 1 + j) - 1 = w
    <3>1. w + 1 \in 1..size /\ q + 1 + j = w + 1 /\ (w + 1) - 1 = w
      BY <1>4, <2>1, <2>4, <2>5 DEF w
    <3> QED BY <2>6, <3>1
  <2> QED BY <2>7 DEF w, B
<1>7. Hash!lookup_g(v - 1)' = (value \div 2 ^ t) % 2 ^ m
  <2> DEFINE first == q + 1
             read == packed'[first] + (IF be > B THEN packed'[first + 1] * 2 ^ B ELSE 0)
                     + (IF be > 2 * B THEN packed'[first + 2] * 2 ^ (2 * B) ELSE 0)
  <2>1. Hash!lookup_g(v - 1)' = (read \div 2 ^ t) % 2 ^ m
    BY <1>1 DEF Hash!lookup_g, q, t, s, B
  <2>2. packed'[first] = Byte(q)
    <3>1. 0 \in 0..2 /\ be > 0 * B /\ q + 1 + 0 = q + 1 /\ q + 0 = q
      BY <1>1, <1>4, <1>5
    <3>2. packed'[q + 1 + 0] = Byte(q + 0)
      BY <1>6, <3>1
    <3> QED BY <3>1, <3>2
  <2>3. be > B => packed'[first + 1] = Byte(q + 1)
    <3>1. 1 \in 0..2 /\ 1 * B = B
      BY <1>1
    <3> QED BY <1>6, <3>1
  <2>4. be > 2 * B => packed'[first + 2] = Byte(q + 2)
    <3>1. 2 \in 0..2
      OBVIOUS
    <3> QED BY <1>6, <3>1
  <2>5. read = value
    BY <2>2, <2>3, <2>4
  <2> QED BY <2>1, <2>5
\* They are the bits of x from q bytes on.
<1>8. \E l \in Nat : be <= l /\ value = Bits(x, B * q, l)
  <2> DEFINE z == B * q
  <2>1. z \in Nat /\ B * (q + 1) = z + B /\ B * (q + 2) = (z + B) + B /\ B + B = 2 * B
        /\ z + B \in Nat /\ 2 * B \in Nat /\ z + 2 * B = (z + B) + B
    BY <1>1, <1>4
  <2> DEFINE p == 2 ^ B  p2 == 2 ^ (2 * B)
             b0 == Bits(x, z, B)  b1 == Bits(x, z + B, B)  b2 == Bits(x, z + 2 * B, B)
  <2>2. b0 \in Int /\ b1 \in Int /\ b2 \in Int /\ p \in Int /\ p2 \in Int
    <3>1. z + 2 * B \in Nat
      BY <2>1
    <3>2. B \in Nat /\ 2 * B \in Nat /\ z \in Nat /\ z + B \in Nat
      BY <1>1, <2>1
    <3>3. b0 \in Int /\ b1 \in Int
      BY <3>2, BitsType
    <3>4. b2 \in Int
      <4> DEFINE y == z + 2 * B
      <4> HIDE DEF y
      <4>1. Bits(x, y, B) \in Int
        BY <3>1, <3>2, BitsType DEF y
      <4> QED BY <4>1 DEF y
    <3>5. p \in Int
      BY <3>2, PowerType
    <3>6. p2 \in Int
      <4> DEFINE y == 2 * B
      <4> HIDE DEF y
      <4>1. 2 ^ y \in Int
        BY <3>2, PowerType DEF y
      <4> QED BY <4>1 DEF y
    <3> QED BY <3>3, <3>4, <3>5, <3>6
  <2>3. Byte(q) = b0 /\ Byte(q + 1) = b1 /\ Byte(q + 2) = b2
    BY <2>1
  <2>4. b0 + b1 * p = Bits(x, z, 2 * B)
    <3>1. Bits(x, z, B) + Bits(x, z + B, B) * 2 ^ B = Bits(x, z, B + B)
      BY <1>1, <2>1, BitsJoin
    <3> QED BY <2>1, <3>1
  <2>5. Bits(x, z, 2 * B) + b2 * p2 = Bits(x, z, 2 * B + B)
    <3> DEFINE l == 2 * B
    <3>1. l \in Nat
      BY <2>1
    <3> HIDE DEF l, z
    <3>2. Bits(x, z, l) + Bits(x, z + l, B) * 2 ^ l = Bits(x, z, l + B)
      BY <1>1, <2>1, <3>1, BitsJoin
    <3> QED BY <3>2 DEF l
  <2>6. value = b0 + (IF be > B THEN b1 * p ELSE 0) + (IF be > 2 * B THEN b2 * p2 ELSE 0)
    BY <2>3
  <2> HIDE DEF value, b0, b1, b2, p, p2, be
  <2> DEFINE c1 == b1 * p  c2 == b2 * p2
  <2>7. c1 \in Int /\ c2 \in Int
    BY <2>2
  <2>8. value = b0 + (IF be > B THEN c1 ELSE 0) + (IF be > 2 * B THEN c2 ELSE 0)
        /\ b0 + c1 = Bits(x, z, 2 * B) /\ Bits(x, z, 2 * B) + c2 = Bits(x, z, 2 * B + B)
        /\ b0 = Bits(x, z, B)
    BY <2>4, <2>5, <2>6 DEF b0
  <2> HIDE DEF c1, c2, z
  <2>9. CASE be <= B
    <3>1. value = Bits(x, z, B)
      BY <1>1, <1>5, <2>2, <2>8, <2>9
    <3> QED BY <1>1, <2>9, <3>1 DEF z
  <2>10. CASE be > B /\ be <= 2 * B
    <3>1. value = b0 + c1
      BY <1>1, <1>5, <2>2, <2>7, <2>8, <2>10
    <3> QED BY <2>1, <2>8, <2>10, <3>1 DEF z
  <2>11. CASE be > 2 * B
    <3>1. be > B
      BY <1>1, <1>5, <2>11
    <3>2. value = (b0 + c1) + c2
      BY <1>1, <1>5, <2>2, <2>7, <2>8, <2>11, <3>1
    <3>3. value = Bits(x, z, 2 * B + B)
      BY <2>8, <3>2
    <3>4. 2 * B + B \in Nat /\ be <= 2 * B + B
      BY <1>1, <1>5
    <3> QED BY <3>3, <3>4 DEF z
  <2> QED BY <1>1, <1>5, <2>9, <2>10, <2>11
<1> HIDE DEF value
<1>9. PICK l \in Nat : be <= l /\ value = Bits(x, B * q, l)
  BY <1>8
<1>10. Bits(value, t, m) = Bits(x, s, m)
  <2> DEFINE z == B * q
  <2>1. z \in Nat /\ t + m <= l /\ s = z + t
    BY <1>1, <1>3, <1>4, <1>5, <1>9
  <2> HIDE DEF z, be
  <2>2. Bits(Bits(x, z, l), t, m) = Bits(x, z + t, m)
    BY <1>4, <2>1, BitsOfBits
  <2> QED BY <1>9, <2>1, <2>2 DEF z
<1> QED BY <1>7, <1>10 DEF Bits, s

-----------------------------------------------------------------------------
(* The hash. *)

\* When all vertices are visited, the values fit, and each lookup finds its own.
LEMMA HashFinds ==
  ASSUME HashInv, Hash!assigned
  PROVE  \A v \in Hash!Vertices : Hash!lookup_g(v - 1)' = g[v]
<1> DEFINE m == Hash!key_bits
<1>1. m \in Nat /\ NKeys <= 2 ^ m /\ NKeys \in Nat
  BY HashKeyBits, DataAssumption
<1> HIDE DEF m
<1>2. m = Hash!key_bits
  BY DEF m
<1>3. /\ step = "assign" /\ packed' = Hash!pack_hash /\ g \in [Hash!Vertices -> Int]
      /\ \A v \in Hash!Vertices : g[v] \in HashRange
  BY DEF Hash!assigned, HashInv, HashTypeInv, HashTreeInv
<1>4. HashFits(g, m)
  <2>1. ASSUME NEW v \in Hash!Vertices PROVE g[v] \in 0..(2 ^ m - 1)
    <3> DEFINE p == 2 ^ m
    <3>1. p \in Nat \ {0} /\ NKeys <= p
      BY <1>1, PowerType
    <3> HIDE DEF p
    <3>2. g[v] \in {0} \cup 0..(NKeys - 1)
      BY <1>3 DEF HashRange
    <3>3. g[v] \in 0..(p - 1)
      BY <1>1, <3>1, <3>2
    <3> QED BY <3>3 DEF p
  <2> QED BY <1>3, <2>1 DEF HashFits
<1>5. PICK f : HashSums(f, g)
  BY <1>1, <1>2, <1>4, HashSum
<1>6. \A i \in 1..HashSize : packed'[i] = Bits(f[NV], ByteBits * (i - 1), ByteBits)
  BY <1>1, <1>2, <1>3, <1>4, <1>5, HashBytes
<1>7. ASSUME NEW v \in Hash!Vertices PROVE Hash!lookup_g(v - 1)' = g[v]
  <2>1. CASE m # 0
    <3> DEFINE x == f[NV]
    <3>1. x \in Int
      BY <1>5, DataAssumption DEF HashSums
    <3>2. Bits(x, Hash!Start(v), m) = g[v]
      BY <1>1, <1>2, <1>4, <1>5, HashSumBits
    <3>3. \A i \in 1..HashSize : packed'[i] = Bits(x, ByteBits * (i - 1), ByteBits)
      BY <1>6
    <3> HIDE DEF x
    <3>4. Hash!lookup_g(v - 1)' = Bits(x, Hash!Start(v), m)
      BY ONLY <1>1, <1>2, <2>1, <3>1, <3>3, v \in Hash!Vertices, HashLookup
    <3> QED BY <3>2, <3>4
  <2>2. CASE m = 0
    <3>1. Hash!lookup_g(v - 1)' = 0
      BY <1>2, <2>2 DEF Hash!lookup_g
    <3>2. 2 ^ m = 1
      BY ONLY <2>2, PowerZero, Zenon
    <3>3. g[v] = 0
      BY <1>4, <3>2 DEF HashFits
    <3> QED BY <3>1, <3>3
  <2> QED BY <2>1, <2>2
<1> QED BY <1>7

\* The hash that is found is perfect, and the graph is a forest.
LEMMA HashFound ==
  ASSUME HashInv, HashInv', Hash!assigned
  PROVE  Hash!HashIsPerfect
<1>1. /\ step = "assign" /\ step' = "done" /\ visited = Hash!Vertices /\ UNCHANGED <<edge, g>>
  BY DEF Hash!assigned
<1>2. HashEdgesInv /\ HashForest(visited) /\ Hash!ValuesArePerfect'
  BY <1>1 DEF HashInv, HashVisitedInv, HashTreeInv
<1>3. Hash!Acyclic
  <2>1. \A k \in Hash!Keys : Hash!Ends(k) \subseteq visited
    BY <1>1, <1>2 DEF HashEdgesInv, Hash!Ends
  <2> QED BY <1>2, <2>1 DEF HashForest, HashLeaf, Hash!Acyclic
<1>4. ASSUME NEW k \in Hash!Keys PROVE Hash!perfect_hash(k)' = k - 1
  <2> SUFFICES ASSUME NEW u \in Hash!Vertices, NEW v \in Hash!Vertices,
                      u = edge[k][1], v = edge[k][2]
               PROVE  Hash!perfect_hash(k)' = k - 1
    BY <1>2 DEF HashEdgesInv
  <2>1. Hash!lookup_g(u - 1)' = g[u] /\ Hash!lookup_g(v - 1)' = g[v]
    BY HashFinds
  <2>2. (g[u] + g[v]) % NKeys = k - 1
    BY <1>1, <1>2 DEF Hash!ValuesArePerfect, Hash!Keys
  <2>3. edge'[k][1] = u /\ edge'[k][2] = v
    BY <1>1
  <2>4. Hash!perfect_hash(k)' = (Hash!lookup_g(u - 1)' + Hash!lookup_g(v - 1)') % NKeys
    BY <2>3 DEF Hash!perfect_hash, Hash!lookup_g
  <2> QED BY <2>1, <2>2, <2>4
<1> QED BY <1>1, <1>2, <1>3, <1>4 DEF Hash!HashIsPerfect, Hash!Keys

LEMMA HashStepIsPerfect ==
  ASSUME HashInv, [Hash!Next]_Hash!vars
  PROVE  HashInv' /\ (UNCHANGED Hash!vars \/ Hash!HashIsPerfect)
<1>1. HashInv' /\ (step' = "attempt" => step = "attempt" \/ ~Hash!Acyclic)
  BY HashStepInv, DataAssumption
<1>2. CASE Hash!assigned
  BY <1>1, <1>2, HashFound
<1>3. CASE Hash!attempt \/ Hash!assign_root \/ Hash!assign_vertex
  <2>1. step' # "done"
    BY <1>3 DEF Hash!attempt, Hash!assign_root, Hash!assign_vertex
  <2>2. step' = "attempt" => step # "attempt"
    BY <1>3 DEF Hash!attempt, Hash!assign_root, Hash!assign_vertex
  <2> QED BY <1>1, <2>1, <2>2 DEF Hash!HashIsPerfect, HashInv
<1> QED BY <1>1, <1>2, <1>3 DEF Hash!Next

\* The hash that is found for the symbols of a table gives each its own index,
\* in the values of its vertices and in the lookup of their packed bits, and an
\* attempt is given up just when the graph has a cycle, for any number of keys
\* and vertices, any graph and any width of a byte of which a lookup reads at
\* most three (tools/gen/gen.lua, core/module.c).
THEOREM HashCorrect == SpecAll => SymbolHashIsPerfect
<1> DEFINE Inv == which = "hash" => HashInv
           Found == which = "hash" => Hash!HashIsPerfect
<1>1. InitAll => Inv
  BY HashInit DEF InitAll
<1>2. Inv /\ [NextAll]_all => Inv' /\ [Found]_hash
  <2> SUFFICES ASSUME Inv, [NextAll]_all PROVE Inv' /\ [Found]_hash
    OBVIOUS
  <2>1. CASE which # "hash"
    BY <2>1, ModelMoves
  <2>2. CASE which = "hash"
    <3>1. [Hash!Next]_Hash!vars
      BY <2>2, ModelMoves DEF hash, Hash!vars
    <3>2. HashInv' /\ (UNCHANGED Hash!vars \/ Hash!HashIsPerfect)
      BY <2>2, <3>1, HashStepIsPerfect
    <3> QED BY <2>2, <3>2, ModelMoves DEF hash, Hash!vars
  <2> QED BY <2>1, <2>2
<1>3. SpecAll => [][Found]_hash
  BY <1>1, <1>2, PTL DEF SpecAll
<1> QED BY <1>3 DEF SymbolHashIsPerfect
=============================================================================
