------------------------------- MODULE NilList -------------------------------
(***************************************************************************)
(* mlua.list (lib/common/mlua.list.c): lists that hold nil, with their     *)
(* length in the field "n".  One list is acted upon; call records the last *)
(* call, its arguments and what it returned.                               *)
(***************************************************************************)
EXTENDS Integers, SequencesExt, FiniteSetsExt

CONSTANTS
    Values,    \* the values that a list holds beside nil
    Nil,
    MaxLen     \* bound on the length of the list

VARIABLES
    n,         \* the field "n", or NoLen
    at,        \* the fields 1 to MaxLen + 1
    meta,      \* the metatable of the table is mlua.List
    call       \* the last call

vars == <<n, at, meta, call>>

NoLen == -1
Elements == Values \cup {Nil}
Indices == 1..(MaxLen + 1)

\* lua_rawlen() of a table whose elements are not nil is their number.
length ==
    IF n # NoLen THEN n
    ELSE Cardinality({i \in Indices : at[i] # Nil})

Contents == SubSeq(at, 1, length)

Called(op, args, res) == call' = [op |-> op, args |-> args, res |-> res]

\* A plain table, or a list made by pack(), with or without its metatable.
Init ==
    /\ \/ n = NoLen /\ meta = FALSE
       \/ n \in 0..2 /\ meta \in BOOLEAN
    /\ at \in [Indices -> Elements]
    /\ \E len \in 0..2 : /\ n # NoLen => n = len
                         /\ \A i \in 1..len : n = NoLen => at[i] # Nil
                         /\ \A i \in Indices : i > len => at[i] = Nil
    /\ call = [op |-> "none", args |-> <<>>, res |-> <<>>]

list___new ==
    /\ n' = length /\ meta' = TRUE
    /\ Called("new", <<>>, <<>>) /\ UNCHANGED at

\* Mutant: what is cut off is not set to nil.
M_Cleared(new) == at
\* The loop of len() that clears what is beyond the new length.
Cleared(new) ==
    [i \in Indices |-> IF i > new /\ i <= length THEN Nil ELSE at[i]]

list_len(arg) ==
    LET new == IF arg < 0 THEN 0 ELSE arg
    IN /\ Called("len", <<new>>, <<length>>)
       /\ IF new = length THEN UNCHANGED <<n, at>>
          ELSE n' = new /\ at' = Cleared(new)
       /\ UNCHANGED meta

list_append(vals) ==
    /\ length + Len(vals) <= MaxLen
    /\ at' = [i \in Indices |-> IF i - length \in DOMAIN vals
                                THEN vals[i - length] ELSE at[i]]
    /\ n' = length + Len(vals)
    /\ Called("append", vals, <<>>) /\ UNCHANGED meta

\* The position is compared as an unsigned integer.
list_insert(pos, v) ==
    LET len == length + 1
    IN /\ len <= MaxLen
       /\ IF pos \in 1..len
          THEN /\ at' = [i \in Indices |->
                           IF i = pos THEN v
                           ELSE IF i > pos /\ i <= len THEN at[i - 1] ELSE at[i]]
               /\ n' = len
               /\ Called("insert", <<pos, v>>, <<>>)
          ELSE Called("insert", <<pos, v>>, <<"error">>) /\ UNCHANGED <<n, at>>
       /\ UNCHANGED meta

\* The elements after pos move down, and where this ends is cleared.
Closed(pos) ==
    [i \in Indices |-> IF i >= pos /\ i < length THEN at[i + 1]
                       ELSE IF i = Max({pos, length}) THEN Nil ELSE at[i]]

\* The check admits length + 1, and the length is lowered then, too: nothing is
\* removed, and the last element stays beyond the new length.
list_remove(pos) ==
    /\ IF pos # length /\ pos \notin 1..(length + 1)
       THEN Called("remove", <<pos>>, <<"error">>) /\ UNCHANGED <<n, at>>
       ELSE IF length = 0
       THEN Called("remove", <<pos>>, <<Nil>>) /\ UNCHANGED <<n, at>>
       ELSE /\ Called("remove", <<pos>>, <<at[pos]>>)
            /\ at' = Closed(pos) /\ n' = length - 1
    /\ UNCHANGED meta

list_pack(vals) ==
    /\ n' = Len(vals) /\ meta' = TRUE
    /\ at' = [i \in Indices |-> IF i \in DOMAIN vals THEN vals[i] ELSE Nil]
    /\ Called("pack", vals, <<>>)

list_unpack(b, e) ==
    /\ Called("unpack", <<b, e>>,
              [i \in 1..(e - b + 1) |-> IF b + i - 1 \in Indices
                                        THEN at[b + i - 1] ELSE Nil])
    /\ UNCHANGED <<n, at, meta>>

\* A negative start counts from the end.
Start(i) == IF i <= -length \/ i = 0 THEN 1 ELSE IF i < 0 THEN length + i + 1 ELSE i

list_find(v, i) ==
    LET found == {j \in Start(i)..length : at[j] = v}
    IN /\ Called("find", <<v, i>>,
                 IF found = {} THEN <<>>
                 ELSE <<CHOOSE j \in found : \A k \in found : j <= k>>)
       /\ UNCHANGED <<n, at, meta>>

\* Whether concat() of the values from i on meets one that is no string.
list_concat(i, last) ==
    /\ Called("concat", <<i, last>>,
              IF \E j \in i..last : j \notin Indices \/ at[j] = Nil THEN <<"error">>
              ELSE SubSeq(at, i, last))
    /\ UNCHANGED <<n, at, meta>>

\* ipairs() and __repr() go over the length; __eq() with a list of values.
list_ipairs ==
    /\ Called("ipairs", <<>>, [i \in 1..length |-> at[i]])
    /\ UNCHANGED <<n, at, meta>>

list___eq(vals) ==
    /\ Called("eq", vals, <<Len(vals) = length /\ \A i \in 1..length : at[i] = vals[i]>>)
    /\ UNCHANGED <<n, at, meta>>

\* restore_mt() runs however sort() ends.
AfterSort == meta

\* table.sort() takes the length from the metatable, which sort() sets for the
\* time of the call.  Its comparison may fail: it has then permuted the elements.
list_sort ==
    /\ \E perm \in Bijection(1..length, 1..length) :
          at' = [i \in Indices |-> IF i <= length THEN at[perm[i]] ELSE at[i]]
    /\ meta' = (IF n \in {NoLen, 0} THEN meta ELSE AfterSort)
    /\ Called("sort", <<>>, <<>>) /\ UNCHANGED n

Next ==
    \/ list___new
    \/ list_ipairs
    \/ list_sort
    \/ \E i \in -1..(MaxLen + 1) : list_len(i) /\ i <= MaxLen
    \/ \E i \in -1..(MaxLen + 1) : list_remove(i)
    \/ \E vals \in SeqOf(Elements, 2) :
          \/ list_append(vals) \/ list_pack(vals) \/ list___eq(vals)
    \/ \E i \in -1..(MaxLen + 1), v \in Elements : list_insert(i, v)
    \/ \E i \in 1..MaxLen, j \in 0..MaxLen : list_unpack(i, j) \/ list_concat(i, j)
    \/ \E i \in -2..2, v \in Elements : list_find(v, i)

Spec == Init /\ [][Next]_vars

-----------------------------------------------------------------------------
(* Properties. *)

\* An element is beyond the length.
Hung == \E i \in Indices : i > length /\ at[i] # Nil

\* remove() is called with the position after the last element.
RemovesNext == call'.op = "remove" /\ call'.args[1] = Len(Contents) + 1

\* What it does to a list that is not empty: it cuts the last element off, but
\* leaves it where it is, and returns what was after it.
CutsLast ==
    LET C == Contents
    IN  /\ Contents' = Front(C) /\ at'[Len(C)] = Last(C)
        /\ call'.res = <<at[Len(C) + 1]>>

\* Each call does to the elements, nil included, what it would do to a
\* sequence, and returns what it would of one, except for remove() with the
\* position after the last element, which is no error: this cuts off the last
\* one.  An element gets beyond the length in this way only; while it is there,
\* a longer length brings it back.
ActsOnSequence ==
    LET op == call'.op  a == call'.args  r == call'.res
        C == Contents  D == Contents'
    IN /\ ~Hung => (Hung' <=> RemovesNext /\ C # <<>> /\ Last(C) # Nil)
       /\ op \in {"new", "unpack", "concat", "find", "ipairs", "eq"} => D = C
       /\ op = "len" => /\ r = <<Len(C)>>
                        /\ D = [i \in 1..a[1] |-> IF i <= Len(C) THEN C[i]
                                                  ELSE IF Hung THEN at[i] ELSE Nil]
       /\ op = "append" => D = C \o a
       /\ op = "pack" => D = a
       /\ op = "insert" => IF r = <<>> THEN D = InsertAt(C, a[1], a[2]) ELSE D = C
       /\ op = "remove" /\ a[1] \in 1..Len(C) =>
             D = RemoveAt(C, a[1]) /\ r = <<C[a[1]]>>
       /\ RemovesNext => IF C = <<>> THEN D = C ELSE CutsLast
       /\ op = "remove" /\ a[1] \notin 1..(Len(C) + 1) => D = C
       /\ op = "sort" => meta' = meta /\ ToBag(C) = ToBag(D)
       /\ op = "ipairs" => r = C
       /\ op = "eq" => r = <<a = C>>
       /\ op = "find" /\ a[2] \in 1..Len(C) =>
             r = IF \E i \in a[2]..Len(C) : C[i] = a[1]
                 THEN <<SelectInSubSeq(C, a[2], Len(C), LAMBDA x : x = a[1])>>
                 ELSE <<>>
       /\ op = "unpack" /\ a[2] <= Len(C) => r = SubSeq(C, a[1], a[2])
=============================================================================
