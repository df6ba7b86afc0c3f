--------------------------- MODULE AlarmCallback ----------------------------
(***************************************************************************)
(* A Lua callback for a hardware interrupt: hardware.timer.set_callback()  *)
(* with set_target() and cancel() (lib/pico/hardware.timer.c), and the     *)
(* event handler thread that calls the callback (mlua_event_handle() and   *)
(* handler_thread() of lib/common/mlua.thread.c).  The same shape, a       *)
(* pending flag beside an event, serves hardware.irq, hardware.rtc,        *)
(* hardware.pwm and pico.multicore.                                        *)
(*                                                                         *)
(* One alarm is modelled.  The interrupt handler runs between any two      *)
(* steps of the core.  The other Lua threads are the environment: while    *)
(* the handler thread is not running, one of them may make any call of the *)
(* module, kill or resume the handler thread.                              *)
(***************************************************************************)
VARIABLES
    armed,      \* the alarm has a target and has not fired for it
    hooked,     \* handle_alarm() is the alarm's interrupt callback
    pending,    \* the alarm's bit of alarm_state.pending
    enabled,    \* alarm_state.events[alarm] is enabled
    queued,     \* ... and is pending in the queue of the core
    watched,    \* the handler thread is the watcher of the event
    state,      \* ThreadExtra.state of the handler thread; "none": no thread
    pc,         \* where the handler thread is, see Locations
    running,    \* the handler thread is running
    call,       \* the call of cancel() or set_target() in progress
    fired,      \* auxiliary: the alarm fired after the last cancel() or
                \* set_target(), and the callback was not called since
    lua         \* what the Lua code does, fixed in each behaviour; suspends:
                \* the callback may suspend or yield its thread; killsEarly:
                \* the handler thread may be killed before it has run, and
                \* then leaks, as mlua_event_handle() explains

alarmVars == <<armed, hooked, pending, call>>
eventVars == <<enabled, queued, watched>>
threadVars == <<state, pc, running>>
vars == <<armed, hooked, pending, enabled, queued, watched, state, pc,
          running, call, fired, lua>>

\* "new": not yet run; "test": calling handle_alarm_event(); "callback": in
\* the Lua callback; "loop": suspended by handler_thread_2().
Locations == {"new", "test", "callback", "loop"}

\* "none"; "cancel", "target": hardware_alarm_cancel() comes next;
\* "clear", "clearTarget": it is done, the pending bit comes next;
\* "arm": hardware_alarm_set_target() comes next.
Calls == {"none", "cancel", "target", "clear", "clearTarget", "arm"}

Alive == state \notin {"none", "dead"}

Suspended == state \in {"suspended", "timer"}

Init ==
    /\ armed = FALSE /\ hooked = FALSE /\ pending = FALSE /\ call = "none"
    /\ enabled = FALSE /\ queued = FALSE /\ watched = FALSE
    /\ state = "none" /\ pc = "new" /\ running = FALSE
    /\ fired = FALSE
    /\ lua \in [suspends : BOOLEAN, killsEarly : BOOLEAN]

-----------------------------------------------------------------------------
(* The interrupt. *)

\* Mutant: the event is set only if the handler thread waits for it.
M_handle_alarm ==
    /\ pending' = TRUE
    /\ queued' = (queued \/ (enabled /\ Suspended))

\* handle_alarm(): one section under mlua_event_lock().
handle_alarm ==
    /\ pending' = TRUE
    /\ queued' = (queued \/ enabled)

\* The target is reached.  Without a callback the interrupt is masked, and
\* is taken when a callback is set.
Fire ==
    /\ armed
    /\ hooked
    /\ armed' = FALSE
    /\ handle_alarm
    /\ fired' = TRUE
    /\ UNCHANGED <<hooked, enabled, watched, call, threadVars>>

-----------------------------------------------------------------------------
(* Calls of Lua code: another thread, or the callback itself. *)

LuaRuns ==
    /\ call = "none"
    /\ running => pc = "callback"

OtherRuns == LuaRuns /\ ~running

\* cancel() or set_target() is called.
BeginCall(c) ==
    /\ LuaRuns
    /\ call' = c
    /\ UNCHANGED <<armed, hooked, pending, eventVars, threadVars, fired>>

CancelFirst ==
    /\ call \in {"cancel", "target"}
    /\ call' = IF call = "cancel" THEN "clear" ELSE "clearTarget"
    /\ UNCHANGED <<hooked, eventVars, threadVars, fired>>

CancelSecond ==
    /\ call \in {"clear", "clearTarget"}
    /\ call' = IF call = "clear" THEN "none" ELSE "arm"
    /\ fired' = FALSE
    /\ UNCHANGED <<hooked, eventVars, threadVars>>

\* hardware_alarm_cancel(), then the pending bit is cleared, under the lock.
cancel_hardware_alarm ==
    \/ CancelFirst /\ armed' = FALSE /\ UNCHANGED pending
    \/ CancelSecond /\ pending' = FALSE /\ UNCHANGED armed

\* hardware_alarm_set_target(); a target that is missed leaves the alarm
\* unarmed.
Arm ==
    /\ call = "arm"
    /\ armed' \in BOOLEAN
    /\ call' = "none"
    /\ UNCHANGED <<hooked, pending, eventVars, threadVars, fired>>

\* set_callback() with a function: it raises an error unless the event is
\* disabled; else it starts the handler thread and yields.
SetCallback ==
    /\ OtherRuns
    /\ ~enabled
    /\ enabled' = TRUE
    /\ hooked' = TRUE
    /\ watched' = TRUE
    /\ state' = "active"
    /\ pc' = "new"
    /\ UNCHANGED <<armed, pending, queued, running, call, fired>>

\* Mutant: the event is not disabled.
M_handler_thread_done ==
    /\ watched' = FALSE
    /\ hooked' = FALSE
    /\ UNCHANGED <<enabled, queued>>

\* handler_thread_done() with alarm_handler_done(): the deferred clean-up of
\* a handler thread that has run.
handler_thread_done ==
    /\ watched' = FALSE
    /\ hooked' = FALSE
    /\ enabled' = FALSE
    /\ queued' = FALSE

\* Thread.kill() of the handler thread, also by set_callback(alarm, nil).
KillHandler ==
    /\ OtherRuns
    /\ Alive
    /\ state' = "dead"
    /\ \/ pc # "new" /\ handler_thread_done
       \/ pc = "new" /\ lua.killsEarly /\ UNCHANGED <<hooked, eventVars>>
    /\ UNCHANGED <<armed, pending, pc, running, call, fired>>

\* Thread.resume() of the handler thread.
ResumeHandler ==
    /\ OtherRuns
    /\ Suspended
    /\ state' = "active"
    /\ UNCHANGED <<alarmVars, eventVars, pc, running, fired>>

-----------------------------------------------------------------------------
(* The scheduler, which runs between the calls of other threads. *)

\* mlua_event_dispatch() and mlua_event_resume_watcher().
Dispatch ==
    /\ OtherRuns
    /\ queued
    /\ queued' = FALSE
    /\ state' = IF watched /\ Suspended THEN "active" ELSE state
    /\ UNCHANGED <<alarmVars, enabled, watched, pc, running, fired>>

\* The deadline of a callback that sleeps.
Expire ==
    /\ OtherRuns
    /\ state = "timer"
    /\ state' = "active"
    /\ UNCHANGED <<alarmVars, eventVars, pc, running, fired>>

RunHandler ==
    /\ OtherRuns
    /\ state = "active"
    /\ running' = TRUE
    /\ pc' = IF pc = "callback" THEN pc ELSE "test"
    /\ UNCHANGED <<alarmVars, eventVars, state, fired>>

-----------------------------------------------------------------------------
(* The handler thread. *)

\* The thread gives up control, in state s.
Yield(s) ==
    /\ running' = FALSE
    /\ state' = s

\* handle_alarm_event(): take the bit and, if it was set, call the callback;
\* handler_thread_2() suspends the thread otherwise.
handle_alarm_event ==
    /\ running
    /\ pc = "test"
    /\ pending' = FALSE
    /\ IF pending
       THEN /\ pc' = "callback"
            /\ fired' = FALSE
            /\ UNCHANGED <<state, running>>
       ELSE /\ pc' = "loop"
            /\ Yield("suspended")
            /\ UNCHANGED fired
    /\ UNCHANGED <<armed, hooked, call, eventVars>>

InCallback == running /\ pc = "callback" /\ call = "none"

\* The callback returns, and handler_thread_2() suspends the thread.
CallbackReturns ==
    /\ InCallback
    /\ pc' = "loop"
    /\ Yield("suspended")
    /\ UNCHANGED <<alarmVars, eventVars, fired>>

\* The callback waits for something else, sleeps, or yields.
CallbackWaits ==
    /\ InCallback
    /\ lua.suspends
    /\ \E s \in {"suspended", "timer", "active"} : Yield(s)
    /\ UNCHANGED <<alarmVars, eventVars, pc, fired>>

\* The callback raises an error, which ends the thread.
CallbackFails ==
    /\ InCallback
    /\ handler_thread_done
    /\ Yield("dead")
    /\ UNCHANGED <<armed, pending, pc, call, fired>>

Next ==
    /\ UNCHANGED lua
    /\ \/ Fire
       \/ \E c \in {"cancel", "target"} : BeginCall(c)
       \/ cancel_hardware_alarm
       \/ Arm
       \/ SetCallback
       \/ KillHandler
       \/ ResumeHandler
       \/ Dispatch
       \/ Expire
       \/ RunHandler
       \/ handle_alarm_event
       \/ CallbackReturns
       \/ CallbackWaits
       \/ CallbackFails

Spec == Init /\ [][Next]_vars

\* C code runs to its end; the callback returns, because threads are
\* cooperative; the other threads let the scheduler run, which dispatches
\* events and runs every active thread in turn.
FairSpec ==
    /\ Spec
    /\ WF_vars((cancel_hardware_alarm \/ Arm) /\ UNCHANGED lua)
    /\ WF_vars(handle_alarm_event /\ UNCHANGED lua)
    /\ SF_vars(CallbackReturns /\ UNCHANGED lua)
    /\ SF_vars(Dispatch /\ UNCHANGED lua)
    /\ SF_vars(RunHandler /\ UNCHANGED lua)

-----------------------------------------------------------------------------
(* Properties. *)

\* Every variable has its type.
TypeOK ==
    /\ {armed, hooked, pending, enabled, queued, watched, running, fired} \subseteq BOOLEAN
    /\ state \in {"none", "active", "suspended", "timer", "dead"}
    /\ pc \in Locations
    /\ call \in Calls
    /\ lua \in [suspends : BOOLEAN, killsEarly : BOOLEAN]

CallbackStarts == pc # "callback" /\ pc' = "callback"

\* hardware.timer.c:113, "Cancel first to avoid that the pending flag is set
\* between resetting it and setting the new target": once cancel() or the
\* cancelling half of set_target() is done, the callback is not called for an
\* alarm that fired before, wherever in the call the interrupt came.
CallIsForFired == CallbackStarts => fired

\* While the alarm's event is enabled there is a handler thread alive that
\* watches it, and when the handler thread has ended, killed or by an error,
\* nothing of it is left: interrupt callback, watcher and pending event are
\* gone, and set_callback() can be called again.
HandlerOwnsAlarm ==
    ~lua.killsEarly =>
        /\ enabled <=> Alive
        /\ hooked <=> Alive
        /\ watched <=> Alive
        /\ queued => Alive

\* thread.h:111, the event handler "is called from the thread every time the
\* event is triggered": a handler thread that is suspended with the pending
\* bit set has its event pending too, and will be resumed.
TriggerReachesHandler ==
    Suspended /\ pc = "loop" /\ pending => queued

\* It is so if the callback does not suspend its thread.
TriggerReachesQuickHandler == ~lua.suspends => TriggerReachesHandler

=============================================================================
