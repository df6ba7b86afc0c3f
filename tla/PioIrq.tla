-------------------------------- MODULE PioIrq --------------------------------
(***************************************************************************)
(* A state machine of a PIO block (lib/pico/hardware.pio.c) as one core    *)
(* sees it: put_blocking(), get_blocking(), wait_irq(), enable_irq() and   *)
(* the interrupt handler.  The sources of the interrupt are levels, so the *)
(* handler masks those that fire and a call that has to wait unmasks them  *)
(* again.  The events are shared with the other core.  One thread puts,    *)
(* one gets and one waits for the flags.                                   *)
(***************************************************************************)
EXTENDS Naturals

CONSTANTS
    Flags,          \* the interrupt flags that the program sets
    FifoDepth

FifoBits == {"TXNFULL", "RXNEMPTY"}
Bits == FifoBits \cup Flags
Calls == {"put", "get", "wait"}

VARIABLES
    tx, rx,    \* how many words are in the FIFOs
    irq,       \* the flags that are set
    inte,      \* the bits that interrupt this core
    mask,      \* PIOState.mask of this core: the bits enabled by Lua code
    owner,     \* owner[b]: who has enabled the event: "none", "me", "other"
    queued,    \* the events that are pending on this core
    pc,        \* pc[c]: "lua", "first", "loop", "block", "suspended", "ready"
    want,      \* want[c]: the bits that the call is about
    watched    \* watched[c]: the events that the call watches

hwVars == <<tx, rx, irq>>
irqVars == <<mask, owner>>
vars == <<tx, rx, irq, inte, mask, owner, queued, pc, want, watched>>

Init ==
    /\ tx = 0 /\ rx = 0 /\ irq = {} /\ inte = {} /\ mask = {} /\ queued = {}
    /\ owner = [b \in Bits |-> "none"]
    /\ pc = [c \in Calls |-> "lua"]
    /\ want = [c \in Calls |-> {}] /\ watched = [c \in Calls |-> {}]

Raised == irq \cup {b \in FifoBits : CASE b = "TXNFULL" -> tx < FifoDepth
                                       [] b = "RXNEMPTY" -> rx > 0}

\* The program of the state machine.
StateMachine ==
    /\ \/ tx > 0 /\ tx' = tx - 1 /\ UNCHANGED <<rx, irq>>
       \/ rx < FifoDepth /\ rx' = rx + 1 /\ UNCHANGED <<tx, irq>>
       \/ (\E f \in Flags : irq' = irq \cup {f}) /\ UNCHANGED <<tx, rx>>
    /\ UNCHANGED <<inte, irqVars, queued, pc, want, watched>>

-----------------------------------------------------------------------------
(* The interrupt handler, enabled in the core as long as a bit is. *)

Firing == mask # {} /\ inte \cap Raised # {}

\* Events that nobody has enabled are not set.
handle_pio_irq ==
    /\ Firing
    /\ inte' = inte \ Raised
    /\ queued' = queued \cup {b \in inte \cap Raised : owner[b] # "none"}
    /\ UNCHANGED <<hwVars, irqVars, pc, want, watched>>

Dispatch(b) ==
    /\ ~Firing /\ b \in queued
    /\ queued' = queued \ {b}
    /\ pc' = [c \in Calls |-> IF pc[c] = "suspended" /\ b \in watched[c]
                              THEN "ready" ELSE pc[c]]
    /\ UNCHANGED <<hwVars, inte, irqVars, want, watched>>

-----------------------------------------------------------------------------
(* The calls.  Lua code runs in one thread at a time, between the points   *)
(* where it suspends.                                                      *)

Running == {c \in Calls : pc[c] \in {"first", "loop", "block"}}
InLua == Running = {} /\ ~Firing

\* A call waits on the events if it has enabled them on this core, and else
\* polls the hardware.
Call(c, S) ==
    /\ InLua /\ pc[c] = "lua"
    /\ want' = [want EXCEPT ![c] = S]
    /\ pc' = [pc EXCEPT ![c] = IF S \subseteq mask THEN "first" ELSE "block"]
    /\ UNCHANGED <<hwVars, inte, irqVars, queued, watched>>

SM_put_blocking == Call("put", {"TXNFULL"})
SM_get_blocking == Call("get", {"RXNEMPTY"})
PIO_wait_irq(S) == Call("wait", S)

Run(c) ==
    /\ InLua /\ pc[c] = "ready"
    /\ pc' = [pc EXCEPT ![c] = "loop"]
    /\ UNCHANGED <<hwVars, inte, irqVars, queued, want, watched>>

\* What is taken from the hardware: wait_irq() leaves the flags set.
Take(c) ==
    /\ tx' = tx + (IF c = "put" THEN 1 ELSE 0)
    /\ rx' = rx - (IF c = "get" THEN 1 ELSE 0)
    /\ UNCHANGED irq

Return(c) ==
    /\ Take(c)
    /\ pc' = [pc EXCEPT ![c] = "lua"] /\ watched' = [watched EXCEPT ![c] = {}]
    /\ UNCHANGED <<inte, irqVars, queued, want>>

\* Mutant: the bits are unmasked when the event is enabled, and only then.
M_Unmask(c) == inte

\* wait_irq() only looks at flags that are still enabled.
Unmask(c) == inte \cup (IF c = "wait" THEN want[c] \cap mask ELSE want[c])

\* put_loop(), get_loop() and wait_irq_loop(), called by mlua_event_wait(),
\* which watches the events the first time.
Loop(c) ==
    LET seen == IF c = "wait" THEN want[c] \cap mask ELSE want[c] IN
        /\ pc[c] \in {"first", "loop"} /\ ~Firing
        /\ \/ seen \cap Raised # {} /\ Return(c)
           \/ /\ seen \cap Raised = {}
              /\ inte' = Unmask(c)
              /\ pc' = [pc EXCEPT ![c] = "suspended"]
              /\ watched' = IF pc[c] = "first" THEN [watched EXCEPT ![c] = want[c]]
                            ELSE watched
              /\ UNCHANGED <<hwVars, irqVars, queued, want>>

Block(c) ==
    /\ pc[c] = "block" /\ ~Firing
    /\ want[c] \cap Raised # {} /\ Return(c)

interrupt_clear(f) ==
    /\ InLua
    /\ irq' = irq \ {f}
    /\ UNCHANGED <<tx, rx, inte, irqVars, queued, pc, want, watched>>

-----------------------------------------------------------------------------
(* enable_irq(). *)

\* A disabled event forgets its watcher.
disable_events(S) ==
    /\ owner' = [b \in Bits |-> IF b \in S THEN "none" ELSE owner[b]]
    /\ queued' = queued \ S
    /\ watched' = [c \in Calls |-> watched[c] \ S]

\* The ones enabled are disabled again when an event is taken.
enable_events(S) ==
    owner' = IF \A b \in S : owner[b] = "none"
             THEN [b \in Bits |-> IF b \in S THEN "me" ELSE owner[b]]
             ELSE owner

PIO_enable_irq(S) ==
    /\ InLua
    /\ enable_events(S \ mask)
    /\ mask' = IF \A b \in S \ mask : owner[b] = "none" THEN mask \cup S ELSE mask
    /\ UNCHANGED <<hwVars, inte, queued, pc, want, watched>>

PIO_disable_irq(S) ==
    /\ InLua
    /\ disable_events(S \cap mask)
    /\ inte' = inte \ (S \cap mask)
    /\ mask' = mask \ S
    /\ UNCHANGED <<hwVars, pc, want>>

\* The other core enables or disables an event of its own.
Other(b) ==
    /\ \/ owner[b] = "none" /\ owner' = [owner EXCEPT ![b] = "other"]
       \/ owner[b] = "other" /\ owner' = [owner EXCEPT ![b] = "none"]
    /\ UNCHANGED <<hwVars, inte, mask, queued, pc, want, watched>>

Next ==
    \/ StateMachine \/ handle_pio_irq \/ SM_put_blocking \/ SM_get_blocking
    \/ \E b \in Bits : Dispatch(b) \/ Other(b)
    \/ \E c \in Calls : Run(c) \/ Loop(c) \/ Block(c)
    \/ \E f \in Flags : interrupt_clear(f)
    \/ \E S \in (SUBSET Flags) \ {{}} : PIO_wait_irq(S)
    \/ \E S \in (SUBSET Bits) \ {{}} : PIO_enable_irq(S) \/ PIO_disable_irq(S)

Spec == Init /\ [][Next]_vars

-----------------------------------------------------------------------------
(* Properties. *)

\* A call that is suspended is told of each event that it watches: the source
\* is unmasked, or has fired and the event is in the queue.
WaitersAreArmed ==
    \A c \in Calls : pc[c] = "suspended" => watched[c] \subseteq inte \cup queued

\* An enable_irq() that fails has enabled nothing, and disabling leaves no
\* event behind: the events of this core are the bits of its mask.
EventsMatchMask == mask = {b \in Bits : owner[b] = "me"}
=============================================================================
