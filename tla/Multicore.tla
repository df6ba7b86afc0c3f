------------------------------ MODULE Multicore -------------------------------
(***************************************************************************)
(* The interpreter of core 1 (lib/pico/pico.multicore.c): launch_core1()   *)
(* and reset_core1() on core 0, launch_core() and the shutdown handler on  *)
(* core 1.  Both cores run at the same time and share CoreState; each      *)
(* event is enabled by one core and may be set by the other.  Threads of   *)
(* core 0 run one at a time.                                               *)
(***************************************************************************)
EXTENDS HandlerThread

CONSTANT Threads     \* the threads of core 0 that launch and reset core 1

VARIABLES
    main,       \* launch_core(): "off", "main", "close", "stop"
    running,    \* shutdown_event is enabled
    shutdown,   \* CoreState.shutdown
    asked,      \* auxiliary: asked to shut down, the handler not yet called
    stopped,    \* stopped_event: "disabled", "idle", "pending"
    state       \* of each thread: "lua", "launch", "enable", "first",
                \* "suspended", "ready"

coreVars == <<running, shutdown, asked, stopped, state>>
vars == <<enabled, queued, pc, main, running, shutdown, asked, stopped, state>>

Init ==
    /\ HandlerInit
    /\ main = "off" /\ running = FALSE /\ shutdown = FALSE /\ asked = FALSE
    /\ stopped = "disabled" /\ state = [t \in Threads |-> "lua"]

-----------------------------------------------------------------------------
(* Core 1.  The event of the handler thread is shutdown_event: "enabled"   *)
(* and "queued" are about its watcher.                                     *)

CoreOne(action) == main = "main" /\ action

\* mlua_run_main() returns and shutdown_event is disabled; the interpreter is
\* closed; stopped_event is set.
EndMain ==
    /\ main = "main" /\ LuaRuns
    /\ main' = "close" /\ running' = FALSE /\ asked' = FALSE
    /\ enabled' = FALSE /\ queued' = FALSE /\ pc' = "none"
    /\ UNCHANGED <<shutdown, stopped, state>>

CloseInterpreter == main = "close" /\ main' = "stop" /\ UNCHANGED <<handlerVars, coreVars>>

SetStopped ==
    /\ main = "stop"
    /\ main' = "off"
    /\ stopped' = IF stopped = "idle" THEN "pending" ELSE stopped
    /\ UNCHANGED <<handlerVars, running, shutdown, asked, state>>

mod_set_shutdown_handler ==
    /\ main = "main" /\ pc = "none"
    /\ pc' = "ready" /\ UNCHANGED <<enabled, queued, main, coreVars>>

\* The event stays enabled, for reset_core1().
shutdown_handler_done ==
    /\ main = "main" /\ pc # "none" /\ LuaRuns
    /\ pc' = "none" /\ UNCHANGED <<enabled, queued, main, coreVars>>

handle_shutdown_event ==
    /\ Test(shutdown)
    /\ asked' = (asked /\ ~shutdown)
    /\ UNCHANGED <<main, running, shutdown, stopped, state>>

-----------------------------------------------------------------------------
(* Core 0. *)

CoreZero == \A t \in Threads : state[t] \notin {"launch", "enable", "first"}

\* The launch waits until core 1 is back in the boot code.
mod_launch_core1(t) ==
    /\ CoreZero /\ state[t] = "lua" /\ ~running
    /\ running' = TRUE /\ enabled' = TRUE /\ shutdown' = FALSE
    /\ state' = [state EXCEPT ![t] = "launch"]
    /\ UNCHANGED <<queued, pc, main, asked, stopped>>

Launched(t) ==
    /\ state[t] = "launch" /\ main = "off"
    /\ main' = "main"
    /\ state' = [state EXCEPT ![t] = "lua"]
    /\ UNCHANGED <<handlerVars, running, shutdown, asked, stopped>>

\* multicore_reset_core1() stops core 1 wherever it is.
ResetCore == main' = "off" /\ UNCHANGED <<handlerVars, running, shutdown, asked>>

\* Under the event lock.
RequestShutdown == queued' = (queued \/ enabled) /\ shutdown' = TRUE

mod_reset_core1(t) ==
    /\ CoreZero /\ state[t] = "lua"
    /\ \/ running /\ RequestShutdown
          /\ asked' = TRUE /\ state' = [state EXCEPT ![t] = "enable"]
          /\ UNCHANGED <<enabled, pc, main, running, stopped>>
       \/ ~running /\ ResetCore /\ UNCHANGED <<stopped, state>>

\* mlua_event_enable(), which raises an error when another thread waits.
EnableStopped(t) ==
    /\ state[t] = "enable"
    /\ stopped' = IF stopped = "disabled" THEN "idle" ELSE stopped
    /\ state' = [state EXCEPT ![t] = IF stopped = "disabled" THEN "first" ELSE "lua"]
    /\ UNCHANGED <<handlerVars, main, running, shutdown, asked>>

\* Mutant: the first wait does not look at the event.
M_MustWait(t) == state[t] = "first" \/ running

MustWait(t) == running

stopped_loop(t) ==
    /\ state[t] \in {"first", "ready"}
    /\ \A u \in Threads \ {t} : state[u] \notin {"launch", "enable", "first"}
    /\ \/ MustWait(t)
          /\ state' = [state EXCEPT ![t] = "suspended"]
          /\ UNCHANGED <<handlerVars, main, running, shutdown, asked, stopped>>
       \/ ~MustWait(t)
          /\ stopped' = "disabled" /\ ResetCore
          /\ state' = [state EXCEPT ![t] = "lua"]

DispatchStopped ==
    /\ CoreZero /\ stopped = "pending"
    /\ stopped' = "idle"
    /\ state' = [t \in Threads |-> IF state[t] = "suspended" THEN "ready" ELSE state[t]]
    /\ UNCHANGED <<handlerVars, main, running, shutdown, asked>>

Next ==
    \/ EndMain \/ CloseInterpreter \/ SetStopped \/ mod_set_shutdown_handler
    \/ shutdown_handler_done \/ handle_shutdown_event \/ DispatchStopped
    \/ CoreOne(HandlerStep) /\ UNCHANGED <<main, coreVars>>
    \/ \E t \in Threads : mod_launch_core1(t) \/ Launched(t) \/ mod_reset_core1(t)
                          \/ EnableStopped(t) \/ stopped_loop(t)

Spec == Init /\ [][Next]_vars

-----------------------------------------------------------------------------
(* Properties. *)

\* A thread that waits for core 1 to stop will be told: core 1 still runs, is
\* about to set the event, or has done it.  The race that a comment on
\* reset_core1() fears is not there: stopped_event is set after
\* shutdown_event is disabled, which is looked at before the thread waits.
\* It holds of a single thread that resets core 1; a second one that does so
\* while the interpreter is being closed stops core 1 at once, and the event
\* of the first is never set.
ResetIsNotStuck ==
    \A t \in Threads : state[t] = "suspended" =>
        running \/ main \in {"close", "stop"} \/ stopped = "pending"

\* A request to shut down is not lost on a handler that is set at the same
\* time: the thread that waits for it is about to be resumed.
ShutdownIsReported == asked /\ pc = "loop" => queued
=============================================================================
