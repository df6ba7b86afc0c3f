---------------------------- MODULE HandlerThread -----------------------------
(***************************************************************************)
(* An event and the handler thread that calls a Lua callback when it is    *)
(* triggered (mlua_event_handle() and handler_thread() of                  *)
(* lib/common/mlua.thread.c), for callbacks that do not suspend.           *)
(* AlarmCallback models the same in more detail, for callbacks that do.    *)
(***************************************************************************)

VARIABLES
    enabled,   \* the event is enabled
    queued,    \* the event is pending in the queue of the core
    pc         \* "none", "ready", "test", "callback", "loop"

handlerVars == <<enabled, queued, pc>>

HandlerInit == enabled = FALSE /\ queued = FALSE /\ pc = "none"

\* Lua code runs in another thread, or in the callback.
OtherRuns == pc \notin {"test", "callback"}
LuaRuns == pc # "test"

\* mlua_event_set().
SetEvent == queued' = (queued \/ enabled) /\ UNCHANGED <<enabled, pc>>

\* mlua_event_enable() and mlua_event_handle(); the thread first tests.
StartHandler ==
    /\ OtherRuns /\ pc = "none" /\ ~enabled
    /\ enabled' = TRUE /\ pc' = "ready" /\ UNCHANGED queued

\* The end of the thread: mlua_event_stop_handler(), a kill or an error in the
\* callback.  The deferred clean-up disables the event.
EndHandler ==
    /\ LuaRuns /\ pc # "none"
    /\ enabled' = FALSE /\ queued' = FALSE /\ pc' = "none"

\* mlua_event_dispatch().
Dispatch ==
    /\ OtherRuns /\ queued
    /\ queued' = FALSE
    /\ pc' = IF pc = "loop" THEN "ready" ELSE pc
    /\ UNCHANGED enabled

RunHandler == OtherRuns /\ pc = "ready" /\ pc' = "test" /\ UNCHANGED <<enabled, queued>>

\* The event handler calls the callback if it finds that it has to.
Test(found) ==
    /\ pc = "test"
    /\ pc' = IF found THEN "callback" ELSE "loop"
    /\ UNCHANGED <<enabled, queued>>

CallbackReturns ==
    pc = "callback" /\ pc' = "loop" /\ UNCHANGED <<enabled, queued>>

\* The steps of the event queue and of the handler thread alone.
HandlerStep == Dispatch \/ RunHandler \/ CallbackReturns

CallbackStarts == pc = "test" /\ pc' = "callback"
=============================================================================
