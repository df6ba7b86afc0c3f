----------------------------- MODULE TypedArray ------------------------------
(***************************************************************************)
(* mlua.array (lib/common/mlua.array.c): arrays of a fixed capacity whose  *)
(* elements are stored in a number of bytes, as integers with or without   *)
(* sign or as strings.  Floating-point elements are left out, and the      *)
(* bounds keep lengths and offsets away from the limits of lua_Integer.    *)
(***************************************************************************)
EXTENDS Integers, Sequences

CONSTANTS
    Bits,      \* the bits of a byte
    Size,      \* the number of bytes of an element
    MaxCap,    \* bound on the capacity
    Bad        \* a value of the wrong type

VARIABLES
    kind,      \* "int", "uint" or "string"
    len, cap,
    data,      \* data[i]: the bytes of element i, from 0
    call       \* the last call, its arguments and results

vars == <<kind, len, cap, data, call>>

Base == 2 ^ Bits
Bytes == [1..Size -> 0..(Base - 1)]
Radix == 2 ^ (Bits * Size)
Offsets == 0..(cap - 1)
\* What is stored: integers of more than the range, or strings of bytes.
Args == (IF kind = "string" THEN {<<>>, <<1>>, <<1, 0, 2>>} ELSE {-Radix - 1, -1, 2, Radix})
        \cup {Bad}

\* __new(): what the elements hold is not initialised.
Init ==
    /\ kind \in {"int", "uint", "string"}
    /\ cap \in 1..MaxCap /\ len \in 0..cap
    /\ data \in [Offsets -> Bytes]
    /\ call = [op |-> "new", args |-> <<>>, res |-> <<>>]

Called(op, args, res) == call' = [op |-> op, args |-> args, res |-> res]

\* Little-endian: v[i] is the value of the last i bytes.
read_uint(bytes) ==
    LET v[i \in 0..Size] == IF i = 0 THEN 0 ELSE v[i - 1] * Base + bytes[Size - i + 1]
    IN v[Size]

\* (v ^ mask) - mask, where mask is the bit of the sign.
get_int(bytes) ==
    LET mask == Radix \div 2
    IN ((read_uint(bytes) + mask) % Radix) - mask

get(bytes) ==
    CASE kind = "int" -> get_int(bytes)
      [] kind = "uint" -> read_uint(bytes)
      [] kind = "string" -> bytes

\* Each byte is the lowest of what is left of the value after the ones before it.
set_uint(v) ==
    LET left[i \in 0..Size] == IF i = 0 THEN v ELSE left[i - 1] \div Base
    IN [i \in 1..Size |-> left[i - 1] % Base]
\* A longer string is cut, a shorter one is padded.
set_string(s) == [i \in 1..Size |-> IF i \in DOMAIN s THEN s[i] ELSE 0]
Stored(v) == IF kind = "string" THEN set_string(v) ELSE set_uint(v)

\* The loop that sets elements from off on; a value of the wrong type ends it.
Good(vals) == {k \in DOMAIN vals : \A j \in 1..k : vals[j] # Bad}
Set(off, vals) ==
    data' = [i \in Offsets |-> IF i - off + 1 \in Good(vals)
                               THEN Stored(vals[i - off + 1]) ELSE data[i]]
Ended(vals) == IF Good(vals) = DOMAIN vals THEN <<>> ELSE <<Bad>>

\* Mutant: an index counts from the end of the capacity.
M_check_offset(i) == i + (IF i >= 0 THEN -1 ELSE cap)
\* 1 is the first element and -1 the last; 0 is out of bounds.
check_offset(i) == i + (IF i >= 0 THEN -1 ELSE len)

array_len(new) ==
    /\ IF new \in 0..cap THEN len' = new /\ Called("len", <<new>>, <<len>>)
       ELSE Called("len", <<new>>, <<Bad>>) /\ UNCHANGED len
    /\ UNCHANGED <<kind, cap, data>>

array_get(i, count) ==
    LET off == check_offset(i)
    IN /\ Called("get", <<i>>,
                 [k \in 1..count |-> IF off + k - 1 \in 0..(len - 1)
                                     THEN <<get(data[off + k - 1])>> ELSE <<>>])
       /\ UNCHANGED <<kind, len, cap, data>>

\* pairs() and the comparison go over the length.
array___pairs ==
    /\ Called("pairs", <<1>>, [k \in 1..len |-> <<get(data[k - 1])>>])
    /\ UNCHANGED <<kind, len, cap, data>>

Fits(off, count) == off >= 0 /\ off + count <= cap

array_set(i, vals) ==
    LET off == check_offset(i)
    IN /\ IF Fits(off, Len(vals))
          THEN Set(off, vals) /\ Called("set", <<i, vals>>, Ended(vals))
          ELSE Called("set", <<i, vals>>, <<Bad>>) /\ UNCHANGED data
       /\ UNCHANGED <<kind, len, cap>>

array_append(vals) ==
    /\ IF len + Len(vals) > cap
       THEN Called("append", <<len + 1, vals>>, <<Bad>>) /\ UNCHANGED <<len, data>>
       ELSE /\ Set(len, vals) /\ Called("append", <<len + 1, vals>>, Ended(vals))
            /\ len' = IF Ended(vals) = <<>> THEN len + Len(vals) ELSE len
    /\ UNCHANGED <<kind, cap>>

\* fill() to the capacity, or of count elements.
array_fill(v, i, count) ==
    LET off == check_offset(i)
        vals == [k \in 1..count |-> v]
    IN /\ IF Fits(off, count)
          THEN Set(off, vals) /\ Called("fill", <<i, vals>>, Ended(vals))
          ELSE Called("fill", <<i, vals>>, <<Bad>>) /\ UNCHANGED data
       /\ UNCHANGED <<kind, len, cap>>

\* One call on any array: the next one may start from any elements too.
Next ==
    /\ call.op = "new"
    /\ \/ array___pairs
       \/ \E i \in -1..(MaxCap + 1) : array_len(i)
       \/ \E i \in -2..(MaxCap + 1), count \in 0..2 : array_get(i, count)
       \/ \E i \in -2..(MaxCap + 1), v \in Args :
             \/ array_set(i, <<v>>) \/ \E w \in Args : array_set(i, <<v, w>>)
             \/ i # 0 /\ array_fill(v, i, 2)
             \/ array_fill(v, 1, cap)
             \/ array_append(<<v, v>>)

Spec == Init /\ [][Next]_vars

-----------------------------------------------------------------------------
(* Properties. *)

\* What get() returns of a value that was stored.
Reduced(v) ==
    CASE kind = "int" -> ((v + Radix \div 2) % Radix) - Radix \div 2
      [] kind = "uint" -> v % Radix
      [] kind = "string" -> SubSeq(v \o [k \in 1..Size |-> 0], 1, Size)

\* The values that the array has before a step and after it.
Before == [i \in 1..cap |-> get(data[i - 1])]
After  == [i \in 1..cap |-> get(data'[i - 1])]

\* The position that an argument stands for.
From(i) == IF i < 0 THEN len + i + 1 ELSE i

\* The elements from the given position on are set, up to the first value that
\* is refused, and only those.
SetsElements(op, from, vals, r) ==
    LET In == {k \in DOMAIN vals : from >= 1 /\ from + Len(vals) - 1 <= cap
                                   /\ \A j \in 1..k : vals[j] # Bad}
    IN /\ \A i \in 1..cap :
             After[i] = IF i - from + 1 \in In THEN Reduced(vals[i - from + 1])
                        ELSE Before[i]
       /\ (r = <<>>) <=> In = DOMAIN vals
       /\ len' = len + (IF op = "append" /\ r = <<>> THEN Len(vals) ELSE 0)

\* The elements within the length are returned.
GetsElements(from, r) ==
    \A k \in DOMAIN r :
       r[k] = IF from + k - 1 \in 1..len THEN <<Before[from + k - 1]>> ELSE <<>>

\* The array is a sequence of cap values: a call that sets elements and returns
\* sets just those, to values of the type; one that fails sets the ones before
\* the value that it refuses, none when it refuses the position, and does not
\* change the length; get() returns the elements within the length.
ActsOnElements ==
    LET op == call'.op  a == call'.args  r == call'.res
    IN /\ op \in {"set", "fill", "append"} => SetsElements(op, From(a[1]), a[2], r)
       /\ op = "get" => GetsElements(From(a[1]), r)
       /\ op = "pairs" => Len(r) = len /\ \A k \in 1..len : r[k] = <<Before[k]>>
       /\ len' \in 0..cap
=============================================================================
