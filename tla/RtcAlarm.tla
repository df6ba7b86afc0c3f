------------------------------- MODULE RtcAlarm -------------------------------
(***************************************************************************)
(* The alarm of the real-time clock and its Lua callback                   *)
(* (lib/pico/hardware.rtc.c).  The SDK's interrupt handler disables the    *)
(* alarm, enables it again if it repeats, and calls handle_alarm().  The   *)
(* calls of the SDK that change the alarm run with its interrupt masked.   *)
(***************************************************************************)
EXTENDS HandlerThread

VARIABLES
    armed,     \* the alarm is enabled in the clock
    intr,      \* it has matched, and was not disabled since
    inte,      \* it interrupts the core
    pending,   \* rtc_state.pending
    call,      \* the call in progress: "none", "set", "disable"
    due        \* auxiliary: the alarm as it is set now has matched, and the
               \* callback was not called for it

clockVars == <<armed, intr, inte>>
vars == <<enabled, queued, pc, armed, intr, inte, pending, call, due>>

Init ==
    /\ HandlerInit
    /\ armed = FALSE /\ intr = FALSE /\ inte = FALSE
    /\ pending = FALSE /\ call = "none" /\ due = FALSE

Match ==
    /\ armed
    /\ intr' = TRUE /\ due' = TRUE
    /\ UNCHANGED <<handlerVars, armed, inte, pending, call>>

\* rtc_irq_handler() of the SDK and handle_alarm().
handle_alarm ==
    /\ intr /\ inte
    /\ intr' = FALSE /\ armed' \in BOOLEAN
    /\ pending' = TRUE
    /\ SetEvent
    /\ UNCHANGED <<inte, call, due>>

-----------------------------------------------------------------------------
(* The calls of Lua code. *)

Calls == LuaRuns /\ call = "none"

\* set_alarm() with a callback, or with a new time for the one that is there;
\* without either it returns at once.
mod_set_alarm ==
    /\ Calls
    /\ \/ StartHandler
       \/ enabled /\ UNCHANGED handlerVars
    /\ inte' = FALSE
    /\ pending' = FALSE
    /\ call' = "set"
    /\ UNCHANGED <<armed, intr, due>>

\* rtc_disable_alarm() of the SDK also clears the interrupt.
Disarm == armed' = FALSE /\ intr' = FALSE

\* rtc_set_alarm() disables the alarm, then enables it and its interrupt.
SetAlarmSecond ==
    /\ call = "set"
    /\ armed' = TRUE /\ intr' = FALSE
    /\ inte' = TRUE /\ due' = FALSE /\ call' = "none"
    /\ UNCHANGED <<handlerVars, pending>>

mod_enable_alarm ==
    /\ Calls
    /\ armed' = TRUE
    /\ UNCHANGED <<handlerVars, intr, inte, pending, call, due>>

mod_disable_alarm ==
    /\ Calls
    /\ Disarm
    /\ call' = "disable"
    /\ UNCHANGED <<handlerVars, inte, pending, due>>

Forget == pending' = FALSE

DisableAlarmSecond ==
    /\ call = "disable"
    /\ Forget
    /\ due' = FALSE /\ call' = "none"
    /\ UNCHANGED <<handlerVars, clockVars>>

\* alarm_handler_done(): the handler thread ends.
alarm_handler_done ==
    /\ call = "none" /\ EndHandler
    /\ Disarm
    /\ inte' = FALSE
    /\ UNCHANGED <<pending, call, due>>

handle_alarm_event ==
    /\ Test(pending)
    /\ pending' = FALSE
    /\ due' = (due /\ (intr \/ ~pending))
    /\ UNCHANGED <<clockVars, call>>

Next ==
    \/ Match \/ handle_alarm \/ mod_set_alarm \/ SetAlarmSecond
    \/ mod_enable_alarm \/ mod_disable_alarm \/ DisableAlarmSecond
    \/ alarm_handler_done \/ handle_alarm_event
    \/ call = "none" /\ HandlerStep /\ UNCHANGED <<clockVars, pending, call, due>>

Spec == Init /\ [][Next]_vars

-----------------------------------------------------------------------------
(* Properties. *)

\* The callback is called only for a match of the alarm as it was set last,
\* and not for one before disable_alarm() or before the alarm was changed.
CallIsForDue == CallbackStarts => due

\* A handler thread that waits with the flag set is about to be resumed.
PendingIsReported == pending /\ pc = "loop" => queued
=============================================================================
