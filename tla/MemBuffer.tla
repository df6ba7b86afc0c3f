------------------------------ MODULE MemBuffer ------------------------------
(***************************************************************************)
(* mlua.mem (lib/common/mlua.mem.c) on one buffer of the buffer protocol   *)
(* (core/include/mlua/util.h, core/util.c), and the block device that      *)
(* mlua.block.mem makes of it (lib/common/mlua.block.c and .block.mem.c).  *)
(* Offsets and lengths are unsigned: a negative number of Lua is a large   *)
(* one here. A size of the device is as wide as its offsets, which it is   *)
(* where size_t has 64 bits.                                               *)
(***************************************************************************)
EXTENDS Integers, SequencesExt, FiniteSetsExt

CONSTANTS
    MemOffsets,   \* the number of offsets and lengths, 2 ^ W where they have W bits
    Size,         \* the size of the buffer, less than half of the offsets
    EraseSize,    \* the erase size of the device
    Default       \* an argument that is left out

VARIABLES
    bytes,     \* the content of the buffer, from 0
    call       \* the last call: its operation, range, bytes and result

vars == <<bytes, call>>

Erased == 3
Byte == {0, 1, Erased}
Error == <<-1>>
\* The result of a call that leaves the buffer.
Undefined == <<-2>>
dev_size == Size - (Size % EraseSize)

Init ==
    /\ bytes \in [0..(Size - 1) -> {0, 1}]
    /\ call = [op |-> "none", off |-> 0, len |-> 0, data |-> <<>>, res |-> <<>>]

Called(op, off, len, data, res) ==
    call' = [op |-> op, off |-> off, len |-> len, data |-> data, res |-> res]

\* The end is an unsigned integer too: a sum of MemOffsets or more starts again
\* from 0.
check_bounds(off, len) == off <= Size /\ (off + len) % MemOffsets <= Size

\* Mutant: the device accepts the whole of the buffer.
M_dev_bounds(off, len) == (off + len) % MemOffsets <= Size
dev_bounds(off, len) == (off + len) % MemOffsets <= dev_size

Wraps(off, len) == off + len >= MemOffsets
\* luaL_buffinitsize() has no memory for a string of this length.
TooLarge(len) == 2 * len >= MemOffsets

optlen(len, def) == IF len = Default THEN def ELSE len

buffer_read(off, len) == [i \in 1..len |-> bytes[off + i - 1]]
\* memcpy() and memset(), at addresses that wrap.
buffer_write(off, data) ==
    LET at(i) == 1 + ((i - off) % MemOffsets)
    IN bytes' = [i \in DOMAIN bytes |-> IF at(i) \in DOMAIN data THEN data[at(i)] ELSE bytes[i]]
\* memmem(): the offset of the first needle in the range.
buffer_find(off, len, needle) ==
    LET At(i) == buffer_read(i, Len(needle)) = needle
        found == {i \in off..(off + len - Len(needle)) : At(i)}
    IN IF found = {} THEN -1 ELSE Min(found)

rest(off) == (Size - off) % MemOffsets

\* read(), which makes room for the bytes before it copies them.
mod_read(off, optional) ==
    LET len == optlen(optional, rest(off))
    IN /\ Called("read", off, len, <<>>,
                 IF ~check_bounds(off, len) \/ TooLarge(len) THEN Error
                 ELSE buffer_read(off, len))
       /\ UNCHANGED bytes

\* get(): (int)len is negative for lua_checkstack() if the range wraps.
mod_get(off, optional) ==
    LET len == optlen(optional, 1)
    IN /\ Called("get", off, len, <<>>,
                 IF ~check_bounds(off, len) THEN Error
                 ELSE IF Wraps(off, len) THEN Undefined ELSE buffer_read(off, len))
       /\ UNCHANGED bytes

mod_read_cstr(off, optional) ==
    LET len == optlen(optional, rest(off))
        end == buffer_find(off, len, <<0>>)
    IN /\ Called("read_cstr", off, len, <<>>,
                 IF ~check_bounds(off, len) THEN Error
                 ELSE IF Wraps(off, len) THEN Undefined
                 ELSE buffer_read(off, IF end # -1 THEN end - off ELSE len))
       /\ UNCHANGED bytes

WriteIf(accepted, op, off, data) ==
    /\ IF accepted THEN buffer_write(off, data) ELSE UNCHANGED bytes
    /\ Called(op, off, Len(data), data,
              IF ~accepted THEN Error
              ELSE IF Wraps(off, Len(data)) THEN Undefined ELSE <<>>)

\* write(), set() and fill().
mod_write(op, off, data) == WriteIf(check_bounds(off, Len(data)), op, off, data)
mod_fill(value, off, optional) ==
    mod_write("fill", off, [i \in 1..optlen(optional, rest(off)) |-> value])

mod_find(needle, off, optional) ==
    LET len == optlen(optional, rest(off))
        pos == buffer_find(off, len, needle)
    IN /\ Called("find", off, len, needle,
                 IF ~check_bounds(off, len) \/ off + Len(needle) > Size THEN Error
                 ELSE IF Wraps(off, len) THEN Undefined
                 ELSE IF pos = -1 THEN <<>> ELSE <<pos>>)
       /\ UNCHANGED bytes

\* The device: an error is returned, not raised.
mem_dev_read(off, len) ==
    /\ Called("dev_read", off, len, <<>>,
              IF TooLarge(len) \/ ~dev_bounds(off, len) THEN Error
              ELSE IF Wraps(off, len) THEN Undefined ELSE buffer_read(off, len))
    /\ UNCHANGED bytes
mem_dev_write(op, off, data) == WriteIf(dev_bounds(off, Len(data)), op, off, data)
mem_dev_erase(off, len) ==
    mem_dev_write("dev_erase", off, [i \in 1..len |-> Erased])

Data == {<<>>, <<0>>, <<1, 1>>}

Offsets == 0..(MemOffsets - 1)

Next ==
    /\ call.op = "none"
    /\ \E off \in Offsets :
          \/ \E len \in Offsets \cup {Default} :
                \/ mod_read(off, len) \/ mod_get(off, len) \/ mod_read_cstr(off, len)
                \/ \E value \in Byte : mod_fill(value, off, len)
                \/ \E needle \in Data : mod_find(needle, off, len)
          \/ \E data \in Data :
                \/ mod_write("write", off, data) \/ mod_write("set", off, data)
                \/ mem_dev_write("dev_write", off, data)
          \/ \E len \in Offsets : mem_dev_read(off, len) \/ mem_dev_erase(off, len)

Spec == Init /\ [][Next]_vars

-----------------------------------------------------------------------------
(* Properties. *)

OfDevice(op) == op \in {"dev_read", "dev_write", "dev_erase"}
limit(op) == IF OfDevice(op) THEN dev_size ELSE Size
Inside(op, off, len) == off + len <= limit(op)
\* A range past the last offset, whose end is taken for one inside: its start is
\* an offset of the buffer for mlua.mem, any offset for the device. The calls
\* that make room for what they read fail if it is too long.
Slips(op, off, len) ==
    /\ off + len - MemOffsets \in 0..limit(op)
    /\ OfDevice(op) \/ off <= Size
    /\ op \in {"read", "dev_read"} => ~TooLarge(len)
Asked(off, len) == SubSeq([i \in 1..Size |-> bytes[i - 1]], off + 1, off + len)

\* A call that asks for bytes inside the buffer, or the device, reads or sets
\* just those bytes, the ones at the end and an empty range there included; one
\* that asks for any beyond is refused and changes nothing, unless the range
\* slips through: then, and only then, it is carried out beyond the buffer. (A
\* search may also be refused for its needle.)
ActsInBounds ==
    LET c == call'
        inside == Inside(c.op, c.off, c.len)
        slips == Slips(c.op, c.off, c.len)
        asked == Asked(c.off, c.len)
    IN /\ c.op # "find" => (inside <=> c.res \notin {Error, Undefined})
       /\ c.op # "find" => (slips <=> c.res = Undefined)
       /\ c.res = Undefined => slips
       /\ ~inside /\ ~slips => c.res = Error /\ UNCHANGED bytes
       /\ inside => \A i \in DOMAIN bytes :
                       i \notin c.off..(c.off + c.len - 1) => bytes'[i] = bytes[i]
       /\ inside /\ c.op \in {"read", "get", "dev_read"} => c.res = asked
       /\ inside /\ c.op = "read_cstr" =>
             /\ IsPrefix(c.res, asked) /\ \A i \in DOMAIN c.res : c.res[i] # 0
             /\ Len(c.res) = Len(asked) \/ asked[Len(c.res) + 1] = 0
       /\ inside /\ c.op \in {"write", "set", "fill", "dev_write", "dev_erase"} =>
             \A i \in DOMAIN c.data : bytes'[c.off + i - 1] = c.data[i]
       /\ inside /\ c.op = "find" /\ c.res = <<>> =>
             \A i \in 1..Len(asked) : ~IsPrefix(c.data, SubSeq(asked, i, Len(asked)))
       /\ inside /\ c.op = "find" /\ c.res \notin {<<>>, Error} =>
             IsPrefix(c.data, SubSeq(asked, c.res[1] - c.off + 1, Len(asked)))
=============================================================================
