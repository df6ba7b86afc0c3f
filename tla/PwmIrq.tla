------------------------------- MODULE PwmIrq --------------------------------
(***************************************************************************)
(* The wrap interrupt of the PWM slices and its Lua handler                *)
(* (lib/pico/hardware.pwm.c).  The slices share one interrupt and one      *)
(* event: the handler is called with all the slices that have wrapped.     *)
(***************************************************************************)
EXTENDS HandlerThread

CONSTANT Slices

VARIABLES
    intr,      \* the slices whose raw flag is set
    inte,      \* the slices that interrupt
    pending,   \* pwm_state.pending
    given,     \* what the handler was called with last
    unseen     \* auxiliary: wrapped since they were cleared or given

vars == <<enabled, queued, pc, intr, inte, pending, given, unseen>>
pwmVars == <<intr, inte, pending, given, unseen>>

Init ==
    /\ HandlerInit
    /\ intr = {} /\ inte = {} /\ pending = {} /\ given = {} /\ unseen = {}

Wrap(slice) ==
    /\ intr' = intr \cup {slice} /\ unseen' = unseen \cup {slice}
    /\ UNCHANGED <<handlerVars, inte, pending, given>>

\* The interrupt is enabled as long as the event is.
Firing == enabled /\ intr \cap inte # {}

Taken == intr \cap inte

handle_pwm_irq ==
    /\ Firing
    /\ intr' = intr \ Taken
    /\ pending' = pending \cup (intr \cap inte)
    /\ SetEvent
    /\ UNCHANGED <<inte, given, unseen>>

\* The interrupt is taken before Lua code goes on.
handle_pwm_event ==
    /\ ~Firing /\ Test(pending # {})
    /\ given' = pending /\ pending' = {} /\ unseen' = unseen \ (pending \ intr)
    /\ UNCHANGED <<intr, inte>>

\* mod_clear_irq(), with interrupts disabled.
mod_clear_irq(slice) ==
    /\ LuaRuns
    /\ intr' = intr \ {slice} /\ pending' = pending \ {slice}
    /\ unseen' = unseen \ {slice}
    /\ UNCHANGED <<handlerVars, inte, given>>

\* pwm_set_irq_mask_enabled() and set_irq_enabled() of the SDK.
set_irq_enabled(slice) ==
    /\ LuaRuns
    /\ inte' \in {inte \cup {slice}, inte \ {slice}}
    /\ UNCHANGED <<handlerVars, intr, pending, given, unseen>>

\* A handler is set; with nil the handler thread is killed, after which
\* pwm_handler_done() disables the interrupt and the event.
mod_set_irq_handler == (StartHandler \/ EndHandler) /\ UNCHANGED pwmVars

Next ==
    \/ \E slice \in Slices : Wrap(slice) \/ mod_clear_irq(slice) \/ set_irq_enabled(slice)
    \/ handle_pwm_irq \/ handle_pwm_event \/ mod_set_irq_handler
    \/ HandlerStep /\ UNCHANGED pwmVars

Spec == Init /\ [][Next]_vars

-----------------------------------------------------------------------------
(* Properties. *)

\* The handler is called with slices that have wrapped, each once for the
\* wraps since it was given or cleared last.
CallIsForWrapped == CallbackStarts => given' # {} /\ given' \subseteq unseen

\* A wrap is not forgotten before it is given to the handler or cleared, also
\* that of a slice whose interrupt is enabled later.
WrapsAreKept == unseen \subseteq intr \cup pending

\* A handler thread that waits with a slice pending is about to be resumed.
PendingIsReported == pending # {} /\ pc = "loop" => queued
=============================================================================
