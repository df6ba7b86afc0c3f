------------------------------- MODULE GpioIrq -------------------------------
(***************************************************************************)
(* GPIO interrupts and their Lua callback (lib/pico/hardware.gpio.c), on   *)
(* one core.  The interrupt handler stores the edges that have fired, as   *)
(* the hardware forgets them when they are acknowledged, and masks the     *)
(* levels, which fire as long as they last.  The handler thread walks the  *)
(* blocks of pins: it takes the edges and levels of a block, calls the     *)
(* callback for each of its pins, and unmasks the levels again.  Calls of  *)
(* the module come from the callback, which does not suspend, and from     *)
(* other threads.  set_dormant_irq_enabled() is not modelled.              *)
(***************************************************************************)
EXTENDS Naturals

CONSTANTS
    Blocks,          \* the number of interrupt registers, EVENTS_SIZE
    PinsPerBlock     \* the pins of each, 8 in the hardware

Pins == (0..(Blocks - 1)) \X (1..PinsPerBlock)
Edges == Pins \X {"edge"}
Levels == Pins \X {"level"}
Triggers == Edges \cup Levels

Pin(e) == e[1]
BlockOf(e) == e[1][1]

VARIABLES
    intr,      \* the raw state: the edges latched, the levels as they are
    inte,      \* the events that interrupt this core
    mask,      \* IRQState.mask: the events enabled by Lua code
    pending,   \* IRQState.pending: the edges stored
    event,     \* irq_event: "disabled", "idle", "pending"
    pc,        \* the handler thread: "none", "wait", "raw", "stored", "call",
               \* "callback"
    block,     \* the block that it is at
    taken,     \* the events of this block that it has taken
    unseen     \* auxiliary: the edges that came since they were taken last

irqVars == <<intr, inte, mask, pending, event, unseen>>
threadVars == <<pc, block, taken>>
vars == <<intr, inte, mask, pending, event, pc, block, taken, unseen>>

Init ==
    /\ intr = {} /\ inte = {} /\ mask = {} /\ pending = {}
    /\ event = "disabled" /\ pc = "none" /\ block = 0 /\ taken = {}
    /\ unseen = {}

-----------------------------------------------------------------------------
(* The pins and the interrupt handler. *)

PinEdge(e) ==
    /\ e \in Edges
    /\ intr' = intr \cup {e} /\ unseen' = unseen \cup {e}
    /\ UNCHANGED <<inte, mask, pending, event, threadVars>>

PinLevel(e) ==
    /\ e \in Levels
    /\ intr' = IF e \in intr THEN intr \ {e} ELSE intr \cup {e}
    /\ UNCHANGED <<inte, mask, pending, event, threadVars, unseen>>

Firing == event # "disabled" /\ inte \cap intr # {}

handle_gpio_irq ==
    /\ Firing
    /\ LET fired == inte \cap intr \cap mask IN
           /\ intr' = intr \ (fired \cap Edges)
           /\ pending' = pending \cup (fired \cap Edges)
           /\ inte' = inte \ (fired \cap Levels)
           /\ event' = IF fired = {} THEN event ELSE "pending"
    /\ UNCHANGED <<mask, threadVars, unseen>>

-----------------------------------------------------------------------------
(* The handler thread. *)

Dispatch ==
    /\ event = "pending" /\ pc = "wait" /\ ~Firing
    /\ event' = "idle"
    /\ pc' = "raw" /\ block' = 0
    /\ UNCHANGED <<intr, inte, mask, pending, taken, unseen>>

\* The raw state of the block is read, with interrupts enabled: an edge that
\* comes now may be read here and stored by the handler, too.
TakeRaw ==
    /\ pc = "raw"
    /\ pc' = "stored"
    /\ taken' = {e \in intr : BlockOf(e) = block}
    /\ UNCHANGED <<irqVars, block>>

Acknowledged == {e \in pending : BlockOf(e) # block}

\* The stored edges are mixed in, with interrupts disabled.
TakeStored ==
    /\ pc = "stored" /\ ~Firing
    /\ taken' = (taken \cup {e \in pending : BlockOf(e) = block}) \cap mask
    /\ pending' = Acknowledged
    /\ unseen' = unseen \ taken'
    /\ pc' = "call"
    /\ UNCHANGED <<intr, inte, mask, event, block>>

Call ==
    /\ pc = "call" /\ taken # {} /\ ~Firing
    /\ \E p \in Pins :
           /\ \E e \in taken : Pin(e) = p
           /\ taken' = {e \in taken : Pin(e) # p}
    /\ pc' = "callback"
    /\ UNCHANGED <<irqVars, block>>

CallbackReturns ==
    /\ pc = "callback" /\ ~Firing
    /\ pc' = "call"
    /\ UNCHANGED <<irqVars, block, taken>>

\* The levels of the block that the walk has done.
Unmasked == {e \in mask \cap Levels : BlockOf(e) = block}

NextBlock ==
    /\ pc = "call" /\ taken = {} /\ ~Firing
    /\ inte' = inte \cup Unmasked
    /\ IF block = Blocks - 1 THEN pc' = "wait" /\ block' = 0
                             ELSE pc' = "raw" /\ block' = block + 1
    /\ UNCHANGED <<intr, mask, pending, event, taken, unseen>>

\* handle_irq_event() and handle_irq_event_1().
handle_irq_event == TakeRaw \/ TakeStored \/ Call \/ CallbackReturns \/ NextBlock

-----------------------------------------------------------------------------
(* Calls from Lua. *)

InLua == pc \in {"none", "wait", "callback"} /\ ~Firing

\* With a callback: the handler thread starts, if there is none.
mod_set_irq_callback ==
    /\ InLua /\ pc = "none"
    /\ event' = "idle"
    /\ pc' = "raw" /\ block' = 0
    /\ UNCHANGED <<intr, inte, mask, pending, taken, unseen>>

\* With nil, from another thread: the handler thread is killed.
irq_handler_done ==
    /\ InLua /\ pc = "wait"
    /\ event' = "disabled"
    /\ pc' = "none" /\ block' = 0 /\ taken' = {}
    /\ UNCHANGED <<intr, inte, mask, pending, unseen>>

\* What was pending before is forgotten, by the hardware and in the state.
Acknowledge(S) ==
    /\ intr' = intr \ (S \cap Edges)
    /\ pending' = pending \ S
    /\ unseen' = unseen \ S

set_irq_enabled(S, enabled) ==
    /\ InLua
    /\ Acknowledge(S)
    /\ mask' = IF enabled THEN mask \cup S ELSE mask \ S
    /\ inte' = IF enabled THEN inte \cup S ELSE inte \ S
    /\ UNCHANGED <<event, threadVars>>

mod_acknowledge_irq(S) ==
    /\ InLua
    /\ Acknowledge(S)
    /\ UNCHANGED <<inte, mask, event, threadVars>>

Next ==
    \/ \E e \in Triggers : PinEdge(e) \/ PinLevel(e)
    \/ handle_gpio_irq \/ Dispatch \/ handle_irq_event
    \/ mod_set_irq_callback \/ irq_handler_done
    \/ \E p \in Pins, K \in SUBSET {"edge", "level"} :
           \/ \E enabled \in BOOLEAN : set_irq_enabled({p} \X K, enabled)
           \/ mod_acknowledge_irq({p} \X K)

Spec == Init /\ [][Next]_vars

-----------------------------------------------------------------------------
(* Properties. *)

\* The walk comes, or comes back, to the block of e.
WillTake(e) ==
    \/ event = "pending"
    \/ pc \in {"raw", "stored", "call", "callback"} /\ BlockOf(e) > block
    \/ pc \in {"raw", "stored"} /\ BlockOf(e) = block

\* An edge that the handler has stored is taken by a walk of the handler
\* thread, also when it comes behind the walk or during a callback.
StoredEdgesAreTaken == pc # "none" => \A e \in pending : WillTake(e)

\* A level that Lua code has enabled, and the handler has masked, is unmasked
\* by a walk of the handler thread.
MaskedLevelsReturn ==
    pc # "none" =>
        \A e \in mask \cap Levels :
            \/ e \in inte
            \/ WillTake(e)
            \/ pc \in {"call", "callback"} /\ BlockOf(e) = block

\* An event interrupts the core only while Lua code has it enabled: otherwise
\* the handler would neither acknowledge nor mask it, and run for ever.
InterruptsAreWanted == inte \subseteq mask

\* An edge is taken once, although the raw state and the stored state may
\* both have it.
EdgesAreTakenOnce ==
    pc = "stored" /\ pc' = "call" => taken' \cap Edges \subseteq unseen
=============================================================================
