-------------------------------- MODULE Int64 --------------------------------
(***************************************************************************)
(* mlua.int64 (lib/common/mlua.int64.c) where lua_Integer has half the     *)
(* bits: integers of 2 * L bits, and what is computed from them and from   *)
(* lua_Integers and numbers.  A behaviour is one call, made and answered   *)
(* in the initial state.  A number is a count of halves; NaN and the       *)
(* infinities are left out.  So are the shifts by the smallest integer,    *)
(* whose negation is undefined (int64.c:210).                              *)
(***************************************************************************)
EXTENDS Integers, SequencesExt, FiniteSetsExt

CONSTANTS
    L,         \* the bits of a lua_Integer
    Mantissa,  \* the bits of the mantissa of a lua_Number
    Bases,     \* the bases of strings of digits
    Fail       \* what a conversion that fails returns

VARIABLE call  \* the call: its operation, arguments and result

W == 2 * L
Ints(bits) == -(2 ^ (bits - 1))..(2 ^ (bits - 1) - 1)
\* The conversion to a signed integer of the width.
Wrap(bits, v) == ((v + 2 ^ (bits - 1)) % 2 ^ bits) - 2 ^ (bits - 1)
Unsigned(v) == v % 2 ^ W
MinInt == -(2 ^ (W - 1))

Abs(v) == IF v < 0 THEN -v ELSE v
\* Division and remainder as C has them, towards zero.
CDiv(a, b) == (IF (a < 0) # (b < 0) THEN -1 ELSE 1) * (Abs(a) \div Abs(b))
CMod(a, b) == a - b * CDiv(a, b)

\* Numbers, in halves.
Floats == LET Pos == {m * 2 ^ e : m \in 0..(2 ^ Mantissa - 1), e \in 0..(W - 2)}
          IN Pos \cup {-h : h \in Pos}
\* (lua_Number)v: the nearest number, and of two as near the upper one here.
int64_tonumber(v) == LET h == {f \in Floats : \A g \in Floats : Abs(2 * v - f) <= Abs(2 * v - g)}
               IN Max(h)

int64_fits_number(v) == Unsigned(2 ^ Mantissa + v) <= 2 * 2 ^ Mantissa
number_fits_int64(h) == 2 * MinInt <= h /\ h < -2 * MinInt
number_to_int64(h) == IF number_fits_int64(h) THEN h \div 2 ELSE Fail
l_floor(h) == 2 * (h \div 2)
number_to_int64_eq(h) == IF l_floor(h) # h THEN Fail ELSE number_to_int64(h)
number_to_int64_floor(h) == number_to_int64(l_floor(h))
number_to_int64_ceil(h) ==
    number_to_int64(IF l_floor(h) # h THEN l_floor(h) + 2 ELSE h)

\* The digits that string_to_int64() takes, which wrap around, and their sign.
\* v[i] is the value of the first i of them.
string_to_int64(neg, base, digits) ==
    LET v[i \in 0..Len(digits)] ==
            IF i = 0 THEN 0 ELSE (v[i - 1] * base + digits[i]) % 2 ^ W
        all == v[Len(digits)]
    IN IF \E i \in DOMAIN digits : digits[i] >= base THEN Fail
       ELSE Wrap(W, IF neg THEN -all ELSE all)

\* A value is an integer, an Int64 or a number.
Val(type, v) == [type |-> type, v |-> v]
Operands == {Val("integer", v) : v \in Ints(L)} \cup {Val("int64", v) : v \in Ints(W)}
Numbers == {Val("number", h) : h \in Floats}

push_int64(v) == Val("int64", v)
push_minint(v) == IF v \in Ints(L) THEN Val("integer", v) ELSE push_int64(v)

\* The parts from the lowest on; the last one gives the sign.
int64___new(parts) ==
    push_int64(IF Len(parts) = 1 THEN parts[1]
               ELSE Wrap(W, (parts[1] % 2 ^ L) + parts[2] * 2 ^ L))

\* Mutant: an arithmetic shift of more than the width loses the sign.
M_shift_left(v, by, arith) ==
    IF Abs(by) >= W THEN 0
    ELSE IF by >= 0 THEN Wrap(W, v * 2 ^ by)
    ELSE Wrap(W, (IF arith THEN v ELSE Unsigned(v)) \div 2 ^ (-by))
shift_left(v, by, arith) ==
    IF by >= W THEN 0
    ELSE IF by >= 0 THEN Wrap(W, v * 2 ^ by)
    ELSE IF -by >= W THEN (IF arith /\ v < 0 THEN -1 ELSE 0)
    ELSE Wrap(W, (IF arith THEN v ELSE Unsigned(v)) \div 2 ^ (-by))

int64___idiv(a, b) ==
    IF b = 0 THEN Fail
    ELSE IF b = -1 THEN Wrap(W, -a)
    ELSE CDiv(a, b) - (IF (a < 0) # (b < 0) /\ CMod(a, b) # 0 THEN 1 ELSE 0)

int64___mod(a, b) ==
    IF b = 0 THEN Fail
    ELSE IF b = -1 THEN 0
    ELSE LET r == CMod(a, b)
         IN r + (IF r # 0 /\ (a < 0) # (b < 0) THEN b ELSE 0)

int64___add(a, b) == Wrap(W, a + b)
int64___sub(a, b) == Wrap(W, a - b)
int64___mul(a, b) == Wrap(W, a * b)
int64___unm(a) == Wrap(W, -a)
int64_ult(a, b) == Unsigned(a) < Unsigned(b)
int64_tointeger(a) == IF Wrap(L, a) = a THEN a ELSE Fail

\* to_int64x(): a number whose value is a lua_Integer is converted to one.
IsInt(x) == x.type # "number" \/ (l_floor(x.v) = x.v /\ x.v \div 2 \in Ints(L))
ToInt(x) == IF ~IsInt(x) THEN 0 ELSE IF x.type = "number" THEN x.v \div 2 ELSE x.v

Cmp(op, a, b) == CASE op = "eq" -> a = b [] op = "lt" -> a < b [] op = "le" -> a <= b

\* What the number on the right and on the left of the comparison goes through.
Rmod(op, h) == IF op = "eq" THEN number_to_int64_eq(h) ELSE number_to_int64_ceil(h)
Lmod(op, h) == IF op = "eq" THEN number_to_int64_eq(h) ELSE number_to_int64_floor(h)

\* CMP_OP.  A number out of range is answered from its side's integer, which
\* to_int64x() has left 0; an equality is false.
cmp(op, x, y) ==
    LET lhs == ToInt(x)  rhs == ToInt(y)
    IN IF IsInt(x) /\ IsInt(y) THEN Cmp(op, lhs, rhs)
       ELSE IF IsInt(x)
       THEN LET v == Rmod(op, y.v)
            IN IF int64_fits_number(lhs) THEN Cmp(op, 2 * lhs, y.v)
               ELSE IF v # Fail THEN Cmp(op, lhs, v)
               ELSE op # "eq" /\ Cmp(op, 0, rhs)
       ELSE LET v == Lmod(op, x.v)
            IN IF int64_fits_number(rhs) THEN Cmp(op, x.v, 2 * rhs)
               ELSE IF v # Fail THEN Cmp(op, v, rhs)
               ELSE op # "eq" /\ Cmp(op, lhs, 0)

Arith == {"add", "sub", "mul", "idiv", "mod", "ult"}
Apply(op, a, b) ==
    CASE op = "add" -> int64___add(a, b)
      [] op = "sub" -> int64___sub(a, b)
      [] op = "mul" -> int64___mul(a, b)
      [] op = "idiv" -> int64___idiv(a, b)
      [] op = "mod" -> int64___mod(a, b)
      [] op = "ult" -> int64_ult(a, b)

Call(op, x, y, res) == call = [op |-> op, x |-> x, y |-> y, res |-> res]

\* The digits of a value in a base, without sign, most significant first: what
\* is left of it after i divisions has one digit less.
Digits(v, base) ==
    LET left[i \in 0..W] == IF i = 0 THEN v ELSE left[i - 1] \div base
    IN [i \in 1..W |-> left[W - i] % base]

Init ==
    \/ \E op \in Arith, a, b \in Ints(W) : Call(op, a, b, Apply(op, a, b))
    \/ \E a \in Ints(W) : Call("unm", a, 0, int64___unm(a))
    \/ \E a \in Ints(W), b \in Ints(W) \ {MinInt}, arith \in BOOLEAN :
          Call(IF arith THEN "ashr" ELSE "shr", a, b, shift_left(a, -b, arith))
    \/ \E a \in Ints(W) : Call("tointeger", a, 0, int64_tointeger(a))
    \/ \E a \in Ints(W) : Call("tonumber", a, 0, int64_tonumber(a))
    \/ \E a \in Ints(W) : Call("minint", a, 0, push_minint(a))
    \/ \E a, b \in Ints(L) : Call("new", a, b, int64___new(<<a, b>>))
    \/ \E a \in Ints(L) : Call("extend", a, 0, int64___new(<<a>>))
    \/ \E h \in Floats : Call("int64", h, 0, number_to_int64_eq(h))
    \/ \E a \in Ints(W), base \in Bases :
          Call("parse", a, base, string_to_int64(a < 0, base, Digits(Abs(a), base)))
    \/ \E a \in Ints(W) :
          Call("parse", a, 2, string_to_int64(FALSE, 2, Digits(Unsigned(a), 2)))
    \/ \E op \in {"eq", "lt", "le"}, x \in Operands \cup Numbers, y \in Operands \cup Numbers :
          /\ x.type = "int64" \/ y.type = "int64"
          /\ Call(op, x, y, cmp(op, x, y))

Next == UNCHANGED call
Spec == Init /\ [][Next]_call

-----------------------------------------------------------------------------
(* Properties. *)

\* Arithmetic is that of the integers modulo 2^W, with floor division: the
\* smallest integer and -1 included, the quotient and the remainder make up the
\* dividend and the remainder has the divisor's sign.
ArithmeticIsModular ==
    LET a == call.x  b == call.y  r == call.res
    IN /\ call.op = "add" => r = Wrap(W, a + b)
       /\ call.op = "sub" => int64___add(r, b) = a
       /\ call.op = "mul" => (r - a * b) % 2 ^ W = 0
       /\ call.op = "unm" => (r + a) % 2 ^ W = 0
       /\ call.op \in {"idiv", "mod"} => (r = Fail <=> b = 0)
       /\ call.op = "idiv" /\ b # 0 => r = Wrap(W, IF b < 0 THEN (-a) \div (-b)
                                                    ELSE a \div b)
       /\ call.op = "mod" /\ b # 0 =>
             /\ (a - r) % Abs(b) = 0 /\ Abs(r) < Abs(b) /\ (r = 0 \/ (r < 0) = (b < 0))
             /\ int64___add(int64___mul(int64___idiv(a, b), b), r) = a

\* A shift by any number of bits, negative or beyond the width, is the quotient
\* by, or the multiple of, that power of two.
ShiftsScale ==
    LET a == call.x  b == call.y
        Power == 2 ^ Min({Abs(b), W})
        Of(v) == IF b < 0 THEN v * Power ELSE v \div Power
    IN /\ call.op = "ashr" => call.res = Wrap(W, Of(a))
       /\ call.op = "shr" => call.res = Wrap(W, Of(Unsigned(a)))

\* No bits are lost between an Int64, its two halves, an integer and a string of
\* digits in a base; a conversion to an integer, and of a number to an Int64,
\* keeps the value or fails.  One to a number does not fail: it keeps a value
\* that the mantissa has room for, and returns the nearest number to another.
ConversionsKeepValue ==
    LET a == call.x  r == call.res
    IN /\ call.op = "parse" => r = a
       /\ call.op = "new" => r.v \in Ints(W) /\ r.v % 2 ^ L = a % 2 ^ L /\ r.v \div 2 ^ L = call.y
       /\ call.op = "extend" => r.v = a
       /\ call.op = "tointeger" => r = IF a \in Ints(L) THEN a ELSE Fail
       /\ call.op = "tonumber" =>
             /\ int64_fits_number(a) => r = 2 * a
             /\ r \in Floats /\ \A h \in Floats : Abs(2 * a - r) <= Abs(2 * a - h)
       /\ call.op = "minint" => r.v = a
       /\ call.op = "int64" =>
             IF r = Fail THEN \A v \in Ints(W) : 2 * v # a ELSE 2 * r = a

Halves(x) == IF x.type = "number" THEN x.v ELSE 2 * x.v
\* A number that is no Int64, whatever it is rounded to, against one that has
\* more bits than the mantissa.
Beyond(x, y) == /\ x.type = "number" /\ ~number_fits_int64(x.v)
                /\ y.type = "int64" /\ ~int64_fits_number(y.v)

\* An Int64 compares with another, with an integer and with a number by value,
\* where the number has no room for the integer and where it has a fraction.
\* A comparison with a number beyond the range has one answer, right or wrong:
\* "less than" is false and "at most" is true on either side of the number,
\* unless the mantissa has room for the Int64.
ComparesByValue ==
    call.op \in {"eq", "lt", "le"} =>
        \/ call.res = Cmp(call.op, Halves(call.x), Halves(call.y))
        \/ /\ Beyond(call.x, call.y) \/ Beyond(call.y, call.x)
           /\ call.op # "eq" /\ call.res = (call.op = "le")
=============================================================================
