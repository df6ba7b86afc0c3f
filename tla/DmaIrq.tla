------------------------------- MODULE DmaIrq --------------------------------
(***************************************************************************)
(* The completion interrupts of DMA channels (lib/pico/hardware.dma.c), as *)
(* one core sees them: enable_irq(), wait_irq() and the interrupt handler. *)
(* The flags and the enable bits are per core, the events are shared with  *)
(* the other core, which may have enabled some.  One thread at a time      *)
(* calls wait_irq().                                                       *)
(***************************************************************************)
EXTENDS Naturals

CONSTANT Channels

VARIABLES
    intr,      \* the raw flags: the channels that have completed
    inte,      \* the channels that interrupt this core
    pending,   \* dma_state.pending of this core
    owner,     \* owner[ch]: who has enabled the event: "none", "me", "other"
    queued,    \* the events that are pending on this core
    pc,        \* "lua", "first", "loop", "suspended", "ready", "poll"
    want,      \* the channels of the call of wait_irq()
    watched,   \* the channels whose events it watches
    polled,    \* when polling: those that interrupted the core at its start
    returned,  \* what the last call has returned
    unseen     \* auxiliary: the channels that have completed since they were
               \* last returned or acknowledged

irqVars == <<inte, owner>>
callVars == <<pc, want, watched, polled, returned>>
vars == <<intr, inte, pending, owner, queued, pc, want, watched, polled,
          returned, unseen>>

Init ==
    /\ intr = {} /\ inte = {} /\ pending = {} /\ queued = {}
    /\ owner = [ch \in Channels |-> "none"]
    /\ pc = "lua" /\ want = {} /\ watched = {} /\ polled = {} /\ returned = {} /\ unseen = {}

Complete(ch) ==
    /\ intr' = intr \cup {ch} /\ unseen' = unseen \cup {ch}
    /\ UNCHANGED <<pending, queued, irqVars, callVars>>

Firing == inte \cap intr # {}

Fired == inte \cap intr

handle_dma_irq ==
    /\ Firing
    /\ intr' = intr \ inte
    /\ pending' = pending \cup Fired
    /\ queued' = queued \cup Fired
    /\ UNCHANGED <<irqVars, callVars, unseen>>

-----------------------------------------------------------------------------
(* wait_irq(). *)

InLua == pc \in {"lua", "suspended", "ready"} /\ ~Firing

\* mlua_event_can_wait(): the events are enabled, by whichever core.
CanWait(S) == \A ch \in S : owner[ch] # "none"

mod_wait_irq(S) ==
    /\ pc = "lua" /\ ~Firing
    /\ want' = S /\ returned' = {}
    /\ pc' = IF CanWait(S) THEN "first" ELSE "poll"
    /\ polled' = IF CanWait(S) THEN {} ELSE inte \cap S
    /\ UNCHANGED <<intr, pending, queued, irqVars, watched, unseen>>

Return(S) ==
    /\ S # {}
    /\ pc' = "lua" /\ watched' = {} /\ returned' = S /\ unseen' = unseen \ S

Left == pending \ want

wait_irq_loop ==
    /\ pc \in {"first", "loop"} /\ ~Firing
    /\ pending' = Left
    /\ \/ Return(pending \cap want)
       \/ /\ pending \cap want = {}
          /\ pc' = "suspended"
          /\ watched' = IF pc = "first" THEN want ELSE watched
          /\ UNCHANGED <<returned, unseen>>
    /\ UNCHANGED <<intr, queued, irqVars, want, polled>>

\* Flags of channels that do not interrupt are taken from the hardware.
Poll ==
    /\ pc = "poll" /\ ~Firing
    /\ Return((intr \cap (want \ polled)) \cup (pending \cap polled))
    /\ intr' = intr \ (want \ polled)
    /\ pending' = pending \ polled
    /\ UNCHANGED <<queued, irqVars, want, polled>>

Dispatch(ch) ==
    /\ InLua /\ ch \in queued
    /\ queued' = queued \ {ch}
    /\ pc' = IF pc = "suspended" /\ ch \in watched THEN "ready" ELSE pc
    /\ UNCHANGED <<intr, pending, irqVars, want, watched, polled, returned,
                   unseen>>

Run ==
    /\ pc = "ready" /\ ~Firing
    /\ pc' = "loop"
    /\ UNCHANGED <<intr, pending, queued, irqVars, want, watched, polled,
                   returned, unseen>>

-----------------------------------------------------------------------------
(* The other calls, from any thread. *)

enable_events(S) ==
    owner' = IF \A ch \in S : owner[ch] = "none"
             THEN [ch \in Channels |-> IF ch \in S THEN "me" ELSE owner[ch]]
             ELSE owner

disable_events(S) ==
    /\ owner' = [ch \in Channels |-> IF ch \in S THEN "none" ELSE owner[ch]]
    /\ queued' = queued \ S
    /\ watched' = watched \ S

\* Flags from before are forgotten.
Forget(S) == intr' = intr \ S /\ pending' = pending \ S /\ unseen' = unseen \ S

mod_enable_irq(S) ==
    /\ InLua
    /\ LET new == S \ inte IN
           /\ enable_events(new)
           /\ IF \E ch \in new : owner[ch] # "none"
              THEN UNCHANGED <<intr, pending, inte, unseen>>
              ELSE Forget(new) /\ inte' = inte \cup new
    /\ UNCHANGED <<queued, callVars>>

mod_disable_irq(S) ==
    /\ InLua
    /\ disable_events(S \cap inte)
    /\ inte' = inte \ S
    /\ UNCHANGED <<intr, pending, pc, want, polled, returned, unseen>>

mod_channel_acknowledge_irq(ch) ==
    /\ InLua
    /\ Forget({ch})
    /\ UNCHANGED <<queued, irqVars, callVars>>

\* The other core enables or disables an event, at any time.
Other(ch) ==
    /\ \/ owner[ch] = "none" /\ owner' = [owner EXCEPT ![ch] = "other"]
       \/ owner[ch] = "other" /\ owner' = [owner EXCEPT ![ch] = "none"]
    /\ UNCHANGED <<intr, inte, pending, queued, callVars, unseen>>

Next ==
    \/ \E ch \in Channels :
           Complete(ch) \/ Dispatch(ch) \/ mod_channel_acknowledge_irq(ch) \/ Other(ch)
    \/ \E S \in (SUBSET Channels) \ {{}} :
           mod_wait_irq(S) \/ mod_enable_irq(S) \/ mod_disable_irq(S)
    \/ handle_dma_irq \/ wait_irq_loop \/ Poll \/ Run

Spec == Init /\ [][Next]_vars

-----------------------------------------------------------------------------
(* Properties. *)

\* A thread is told of each completion of a channel that it watches: none is
\* stored without an event in the queue to report it.
WaiterIsTold ==
    pc = "suspended" /\ pending \cap watched # {} => queued \cap watched # {}

\* A completion on a channel that interrupts the core is not forgotten before
\* it is returned or acknowledged.
CompletionsAreKept == unseen \cap inte \subseteq intr \cup pending

\* An enable_irq() that fails has enabled nothing: the events of this core are
\* those of the channels that interrupt it.
EventsMatchInte == inte = {ch \in Channels : owner[ch] = "me"}
=============================================================================
