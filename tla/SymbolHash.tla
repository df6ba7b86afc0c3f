----------------------------- MODULE SymbolHash ------------------------------
(***************************************************************************)
(* Hashed symbol tables: the perfect hash that tools/gen/gen.lua finds for *)
(* the symbols of a table (find_perfect_hash(), Graph:assign()), how it    *)
(* packs it (pack_hash()), and the lookup in it (core/module.c).  The two  *)
(* hashes of a key are any two vertices of the graph: an edge, whose value *)
(* is the index of the key.                                                *)
(***************************************************************************)
EXTENDS Integers, SequencesExt, FiniteSetsExt

CONSTANTS
    NKeys,     \* the number of symbols
    NV,        \* the number of vertices
    ByteBits   \* the bits of a byte of the packed values

VARIABLES
    pc,        \* "attempt", "assign" or "done"
    edge,      \* edge[key]: the hashes of the key
    g,         \* the values of the vertices, where they are set
    visited,
    stack,     \* the vertices to visit, each with its parent
    data       \* the packed values

vars == <<pc, edge, g, visited, stack, data>>

Keys == 1..NKeys
Vertices == 1..NV
NoVertex == 0

NoEdges == [k \in Keys |-> <<1, 2>>]
NoValues == [v \in Vertices |-> 0]

Init ==
    /\ pc = "attempt" /\ edge = NoEdges
    /\ g = NoValues /\ visited = {} /\ stack = <<>> /\ data = <<>>

\* The next pair of seeds; a key with two equal hashes goes on to another.
attempt ==
    /\ pc = "attempt" /\ pc' = "assign"
    /\ \E e \in [Keys -> {p \in Vertices \X Vertices : p[1] < p[2]}] : edge' = e
    /\ UNCHANGED <<g, visited, stack, data>>

Ends(k) == {edge[k][1], edge[k][2]}
Opposite(k, v) == IF edge[k][1] = v THEN edge[k][2] ELSE edge[k][1]

\* Mutant: every edge to the parent is ignored.
M_Ignored(acc, neigh, parent) == neigh = parent
\* One edge to the parent is ignored.
Ignored(acc, neigh, parent) == ~acc.seen /\ neigh = parent

Value(ev, at) == (ev - at) % NKeys

\* The loop over the neighbours of a vertex, in the order in which the keys were
\* connected, which ends at a visited one.
Step(acc, k, parent, vertex) ==
    LET neigh == Opposite(k, vertex)
    IN IF acc.cyclic \/ vertex \notin Ends(k) THEN acc
       ELSE IF Ignored(acc, neigh, parent) THEN [acc EXCEPT !.seen = TRUE]
       ELSE IF neigh \in visited \cup {vertex} THEN [acc EXCEPT !.cyclic = TRUE]
       ELSE [acc EXCEPT !.g[neigh] = Value(k - 1, acc.g[vertex]),
                        !.stack = Append(@, <<vertex, neigh>>)]
Neighbours(parent, vertex) ==
    LET after[k \in 0..NKeys] ==
            IF k = 0 THEN [cyclic |-> FALSE, seen |-> FALSE, g |-> g, stack |-> Front(stack)]
            ELSE Step(after[k - 1], k, parent, vertex)
    IN after[NKeys]

\* Graph:assign(): a vertex that was not visited is a root, of value 0.
assign_root ==
    /\ pc = "assign" /\ stack = <<>> /\ visited # Vertices
    /\ LET root == Min(Vertices \ visited)
       IN g' = [g EXCEPT ![root] = 0] /\ stack' = <<<<NoVertex, root>>>>
    /\ UNCHANGED <<pc, edge, visited, data>>

assign_vertex ==
    /\ pc = "assign" /\ stack # <<>>
    /\ LET vertex == Last(stack)[2]
           res == Neighbours(Last(stack)[1], vertex)
       IN IF res.cyclic
          THEN /\ pc' = "attempt" /\ edge' = NoEdges
               /\ visited' = {} /\ g' = NoValues /\ stack' = <<>>
          ELSE /\ visited' = visited \cup {vertex} /\ g' = res.g /\ stack' = res.stack
               /\ UNCHANGED <<pc, edge>>
    /\ UNCHANGED data

key_bits == Min({i \in 0..NKeys : NKeys <= 2 ^ i})

\* A value is shifted to where its bits start, and its bytes are or-ed in, into
\* bits that no other value has.
Start(v) == (v - 1) * key_bits
Part(v, i) ==
    LET k == i - 1 - Start(v) \div ByteBits
    IN IF k < 0 THEN 0
       ELSE ((g[v] * 2 ^ (Start(v) % ByteBits)) \div 2 ^ (ByteBits * k)) % 2 ^ ByteBits
pack_hash ==
    LET parts[v \in 0..NV] ==
            [i \in 1..((NV * key_bits + ByteBits - 1) \div ByteBits) |->
                IF v = 0 THEN 0 ELSE parts[v - 1][i] + Part(v, i)]
    IN parts[NV]

assigned ==
    /\ pc = "assign" /\ stack = <<>> /\ visited = Vertices
    /\ pc' = "done" /\ data' = pack_hash
    /\ UNCHANGED <<edge, g, visited, stack>>

Next == attempt \/ assign_root \/ assign_vertex \/ assigned
Spec == Init /\ [][Next]_vars

lookup_g(index) ==
    LET bi == index * key_bits
        first == bi \div ByteBits + 1
        shift == bi % ByteBits
        be == key_bits + shift
        value == data[first]
                 + (IF be > ByteBits THEN data[first + 1] * 2 ^ ByteBits ELSE 0)
                 + (IF be > 2 * ByteBits THEN data[first + 2] * 2 ^ (2 * ByteBits) ELSE 0)
    IN IF key_bits = 0 THEN 0 ELSE (value \div 2 ^ shift) % 2 ^ key_bits

perfect_hash(k) == (lookup_g(edge[k][1] - 1) + lookup_g(edge[k][2] - 1)) % NKeys

-----------------------------------------------------------------------------
(* Properties. *)

\* The values of the vertices of a key add up to its index.
ValuesArePerfect ==
    pc = "done" => \A k \in Keys : (g[edge[k][1]] + g[edge[k][2]]) % NKeys = k - 1

\* Reference: there is no cycle.  Each set of edges has a vertex at which just
\* one of them ends, so that edges can be taken away from it one by one.
Acyclic ==
    \A K \in (SUBSET Keys) \ {{}} :
       \E k \in K : \E v \in Ends(k) : \A j \in K \ {k} : v \notin Ends(j)

\* The hash that is found gives every symbol its own index, through the packed
\* values as well, and the traversal takes a graph for acyclic just when it is:
\* otherwise a symbol would get the value of another.
HashIsPerfect ==
    /\ ValuesArePerfect'
    /\ pc' = "done" => Acyclic /\ \A k \in Keys : perfect_hash(k)' = k - 1
    /\ pc' = "attempt" => ~Acyclic
=============================================================================
