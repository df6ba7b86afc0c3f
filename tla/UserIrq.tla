-------------------------------- MODULE UserIrq -------------------------------
(***************************************************************************)
(* A user interrupt and its Lua handler (lib/pico/hardware.irq.c), on one  *)
(* core.  The interrupt is pending in the NVIC until handle_user_irq()     *)
(* takes it, then in IRQState until the handler thread does; clear() has   *)
(* to clear both.                                                          *)
(***************************************************************************)
EXTENDS HandlerThread

VARIABLES
    nvic,      \* pending in the interrupt controller
    on,        \* enabled in the interrupt controller
    pending,   \* the bit of IRQState.pending
    raised     \* auxiliary: raised since it was cleared or the handler called

vars == <<enabled, queued, pc, nvic, on, pending, raised>>

Init ==
    /\ HandlerInit
    /\ nvic = FALSE /\ on = FALSE /\ pending = FALSE /\ raised = FALSE

\* set_pending(), or the other core through the hardware.
set_pending ==
    /\ nvic' = TRUE /\ raised' = TRUE
    /\ UNCHANGED <<handlerVars, on, pending>>

\* The interrupt handler is set as long as there is a handler thread.
handle_user_irq ==
    /\ nvic /\ on /\ enabled
    /\ nvic' = FALSE /\ pending' = TRUE
    /\ SetEvent
    /\ UNCHANGED <<on, raised>>

\* Mutant: clear() leaves what the interrupt handler has taken.
M_Clear == nvic' = FALSE /\ UNCHANGED pending /\ raised' = FALSE

Clear == nvic' = FALSE /\ pending' = FALSE /\ raised' = FALSE

mod_clear == LuaRuns /\ Clear /\ UNCHANGED <<handlerVars, on>>

mod_set_enabled ==
    /\ LuaRuns
    /\ \/ on' = TRUE /\ Clear
       \/ on' = FALSE /\ UNCHANGED <<nvic, pending, raised>>
    /\ UNCHANGED handlerVars

set_handler == StartHandler /\ UNCHANGED <<nvic, on, pending, raised>>

mod_remove_handler == EndHandler /\ UNCHANGED <<nvic, on, pending, raised>>

\* What is raised again while the bit is set is still in the NVIC.
handle_user_irq_event ==
    /\ Test(pending)
    /\ pending' = FALSE
    /\ raised' = (raised /\ (nvic \/ ~pending))
    /\ UNCHANGED <<nvic, on>>

Next ==
    \/ set_pending \/ handle_user_irq \/ mod_clear \/ mod_set_enabled
    \/ set_handler \/ mod_remove_handler \/ handle_user_irq_event
    \/ HandlerStep /\ UNCHANGED <<nvic, on, pending, raised>>

Spec == Init /\ [][Next]_vars

-----------------------------------------------------------------------------
(* Properties. *)

\* The handler is called only for an interrupt that came after the last
\* clear() or set_enabled(), and once for it.
CallIsForRaised == CallbackStarts => raised

\* A handler thread that waits with its bit set is about to be resumed.
PendingIsReported == pending /\ pc = "loop" => queued
=============================================================================
