------------------------------- MODULE MCData --------------------------------
(***************************************************************************)
(* Waiting for events, and the modules of data and files, for TLC.  They   *)
(* share nothing, so one run checks them side by side: which names the one *)
(* that moves in a behaviour.  The threads that wait stay in their initial *)
(* state, and the others at Idle, while another one moves.                 *)
(***************************************************************************)
EXTENDS EventWait, Integers

CONSTANTS Idle, Fail, Bad, Nil, Default, Values, Paths, Handles

\* The sizes of the models of the files.
CONSTANTS
    BlockSize, DevSize,      \* the device of a filesystem
    MaxWrites, MaxMounts,    \* the bounds on what is done to it
    PathLength,              \* the search path of the loader
    MaxBlocks                \* the length of a file, in blocks

\* The width of an integer, a millisecond, and the bounds on the clock.
CONSTANTS Half, Ms, MaxNow, Late

\* The symbols, the vertices and the byte of a hashed symbol table.
CONSTANTS NKeys, NV, ByteBits

\* The bits of a lua_Integer and of the mantissa of a lua_Number, the bases of digits.
CONSTANTS IntBits, Mantissa, Bases

\* The longest list.
CONSTANT MaxList

\* The bits of a byte of an array, the bytes of an element, and the largest array.
CONSTANTS ElemBits, ElemSize, MaxArray

\* The number of offsets, the buffer, and what a device of it erases at once.
CONSTANTS MemOffsets, MemSize, EraseSize

ASSUME DataAssumption ==
    /\ BlockSize \in Nat \ {0} /\ DevSize \in Nat
    /\ PathLength \in Nat /\ MaxBlocks \in Nat
    /\ Half \in Nat \ {0} /\ Ms \in Nat \ {0} /\ MaxNow \in Nat /\ Late \in Nat
    /\ 2 * Half <= MaxNow /\ MaxNow + 2 * Half < 2 * Half * Half
    /\ NKeys \in Nat /\ NV \in Nat
    /\ ByteBits \in Nat \ {0} /\ NKeys <= 2 ^ (2 * ByteBits + 1)
    /\ IntBits \in Nat /\ IntBits >= 2 /\ Mantissa \in Nat \ {0} /\ Mantissa < 2 * IntBits - 1
    /\ Bases \subseteq Nat \ {0, 1} /\ Fail \notin Int
    /\ MaxList \in Nat /\ MaxList >= 2
    /\ ElemBits \in Nat \ {0} /\ ElemSize \in Nat \ {0} /\ MaxArray \in Nat
    /\ MemOffsets \in Nat /\ MemSize \in Nat /\ EraseSize \in Nat \ {0}
    /\ 2 * MemSize + 3 < MemOffsets

VARIABLES n, at, meta, list_call
list == <<n, at, meta, list_call>>
List == INSTANCE NilList WITH MaxLen <- MaxList, call <- list_call

VARIABLES kind, len, cap, data, array_call
array == <<kind, len, cap, data, array_call>>
Array == INSTANCE TypedArray
    WITH Bits <- ElemBits, Size <- ElemSize, MaxCap <- MaxArray, call <- array_call

VARIABLE int64
I64 == INSTANCE Int64 WITH L <- IntBits, call <- int64

VARIABLES clock, phase, api, time, delay, due
ticks == <<clock, phase, api, time, delay, due>>
Ticks == INSTANCE TickTimes WITH now <- clock, pc <- phase

VARIABLES bytes, mem_call
mem == <<bytes, mem_call>>
Mem == INSTANCE MemBuffer WITH Size <- MemSize, call <- mem_call

VARIABLES step, edge, g, visited, stack, packed
hash == <<step, edge, g, visited, stack, packed>>
Hash == INSTANCE SymbolHash WITH pc <- step, data <- packed

VARIABLES disk, mounted, config, blocks, mlist, handle, mount_id, opened_in
lfs == <<disk, mounted, config, blocks, mlist, handle, mount_id, opened_in>>
Lfs == INSTANCE LfsFilesystem

VARIABLES fs, files, searching, path, file, chunk, err, result
loader == <<fs, files, searching, path, file, chunk, err, result>>
Loader == INSTANCE FsLoader
    WITH pc <- searching,
         SearchPath <- [i \in 1..PathLength |-> i],
         Contents <- UNION {[1..k -> Values] : k \in 0..MaxBlocks}

VARIABLE which
data_parts == <<list, array, int64, ticks, mem, hash, lfs, loader>>
all == <<which, vars, data_parts>>

InitAll ==
    /\ which \in {"wait", "list", "array", "int64", "ticks", "mem", "hash", "lfs", "loader"}
    /\ Init
    /\ IF which = "list" THEN List!Init
       ELSE n = Idle /\ at = Idle /\ meta = Idle /\ list_call = Idle
    /\ IF which = "array" THEN Array!Init
       ELSE kind = Idle /\ len = Idle /\ cap = Idle /\ data = Idle /\ array_call = Idle
    /\ IF which = "int64" THEN I64!Init ELSE int64 = Idle
    /\ IF which = "ticks" THEN Ticks!Init
       ELSE clock = Idle /\ phase = Idle /\ api = Idle /\ time = Idle /\ delay = Idle /\ due = Idle
    /\ IF which = "mem" THEN Mem!Init ELSE bytes = Idle /\ mem_call = Idle
    /\ IF which = "hash" THEN Hash!Init
       ELSE step = Idle /\ edge = Idle /\ g = Idle /\ visited = Idle /\ stack = Idle
            /\ packed = Idle
    /\ IF which = "lfs" THEN Lfs!Init
       ELSE disk = Idle /\ mounted = Idle /\ config = Idle /\ blocks = Idle /\ mlist = Idle
            /\ handle = Idle /\ mount_id = Idle /\ opened_in = Idle
    /\ IF which = "loader" THEN Loader!Init
       ELSE fs = Idle /\ files = Idle /\ searching = Idle /\ path = Idle /\ file = Idle
            /\ chunk = Idle /\ err = Idle /\ result = Idle

NextAll ==
    /\ UNCHANGED which
    /\ \/ which = "wait" /\ Next /\ UNCHANGED data_parts
       \/ which = "list" /\ List!Next
          /\ UNCHANGED <<vars, array, int64, ticks, mem, hash, lfs, loader>>
       \/ which = "array" /\ Array!Next
          /\ UNCHANGED <<vars, list, int64, ticks, mem, hash, lfs, loader>>
       \/ which = "int64" /\ I64!Next
          /\ UNCHANGED <<vars, list, array, ticks, mem, hash, lfs, loader>>
       \/ which = "ticks" /\ Ticks!Next
          /\ UNCHANGED <<vars, list, array, int64, mem, hash, lfs, loader>>
       \/ which = "mem" /\ Mem!Next
          /\ UNCHANGED <<vars, list, array, int64, ticks, hash, lfs, loader>>
       \/ which = "hash" /\ Hash!Next
          /\ UNCHANGED <<vars, list, array, int64, ticks, mem, lfs, loader>>
       \/ which = "lfs" /\ Lfs!Next
          /\ UNCHANGED <<vars, list, array, int64, ticks, mem, hash, loader>>
       \/ which = "loader" /\ Loader!Next
          /\ UNCHANGED <<vars, list, array, int64, ticks, mem, hash, lfs>>

\* The fairness of EventWait, which also holds where nothing waits.
SpecAll ==
    /\ InitAll
    /\ [][NextAll]_all
    /\ []<>(running = NULL)
    /\ \A e \in Events : []<>(e \notin Elements(queue))
    /\ \A t \in Threads :
           []<>(which = "wait" => running = t \/ state[t] # "active")

-----------------------------------------------------------------------------
(* Properties: those of EventWait, and those of each other module by the   *)
(* module's name.                                                          *)

\* A thread that watches an event whose condition is true eventually runs
\* again, unless the event is disabled or the condition withdrawn.  Threads
\* are interchangeable, and so are events: one of each stands for all.
ConditionIsSeen ==
    LET t == CHOOSE u \in Threads : TRUE
        e == CHOOSE f \in Events : TRUE
    IN  Watches(t, e) /\ ready[e] ~> ~(Watches(t, e) /\ ready[e])

\* A list acts on its elements like a sequence, but for remove() with the
\* position after the last one, which cuts this off (NilList).
ListActsOnSequence == [][which = "list" => List!ActsOnSequence]_list

\* An array acts on its elements like a sequence of its type (TypedArray).
ArrayActsOnElements == [][which = "array" => Array!ActsOnElements]_array

\* An Int64 computes, converts and compares by value; numbers round beyond the
\* mantissa, and those beyond the range compare in one way (Int64).
Int64Computes ==
    which = "int64" => /\ I64!ArithmeticIsModular /\ I64!ShiftsScale
                       /\ I64!ConversionsKeepValue /\ I64!ComparesByValue

\* A thread sleeps until the time that was meant, and times compare (TickTimes).
TimesAreKept == which = "ticks" => Ticks!WakesWhenDue /\ Ticks!TimesCompare

\* A memory operation stays within its buffer or device, unless the end of its
\* range wraps around to it (MemBuffer).
MemActsInBounds == [][which = "mem" => Mem!ActsInBounds]_mem

\* The hash of a symbol table is perfect (SymbolHash).
SymbolHashIsPerfect == [][which = "hash" => Hash!HashIsPerfect]_hash

\* Of the handles of its present mount littlefs knows those that are open, and it
\* stays in the device (LfsFilesystem).
FilesAreListed == which = "lfs" => Lfs!ListedWhileOpen /\ Lfs!StaysInDevice

\* A module is loaded from a whole file (FsLoader).
LoadsWholeFile == which = "loader" => Loader!LoadsWholeFile
=============================================================================
