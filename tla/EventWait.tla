----------------------------- MODULE EventWait ------------------------------
(***************************************************************************)
(* Threads that wait for events: mlua_event_wait() and the watchers it     *)
(* registers (lib/common/mlua.thread.c), with the interrupts that set the  *)
(* events and the dispatcher that resumes the watchers, on one core.       *)
(*                                                                         *)
(* A thread calls a loop function that tests a condition, ready[e] for     *)
(* each of the events it wants.  While the condition is false the thread   *)
(* is registered in the Lua registry, under the address of each event, and *)
(* suspended.  An interrupt makes the condition true and sets the event at *)
(* any time; threads, and the dispatcher between them, are cooperative.    *)
(*                                                                         *)
(* The queue of pending events is the sequence that EventQueue is shown to *)
(* implement.  The scheduler runs any active thread; its order is the      *)
(* subject of ThreadScheduler.                                             *)
(***************************************************************************)
EXTENDS Sequences, FiniteSets, QueueOps

CONSTANTS
    Threads,   \* the Lua threads
    Events,    \* the events they wait for
    NULL       \* no thread

ASSUME NullAssumption == NULL \notin Threads

VARIABLES
    ready,     \* ready[e]: the condition that the loop functions test
    enabled,   \* enabled[e]: the event is enabled
    queue,     \* the pending events, first to last
    watcher,   \* watcher[e]: the registry entry of e, a thread or nil (NULL)
    running,   \* the thread that executes, NULL: the scheduler does
    state,     \* state[t]: the thread's ThreadExtra.state
    pc,        \* pc[t]: where t is with respect to mlua_event_wait()
    wants,     \* wants[t]: the events of t's call of mlua_event_wait()
    deadline   \* deadline[t]: of that call: "none", "future" or "reached"

eventVars == <<ready, enabled, queue, watcher>>
threadVars == <<running, state, pc, wants, deadline>>
vars == <<ready, enabled, queue, watcher, running, state, pc, wants, deadline>>

Init ==
    /\ ready = [e \in Events |-> FALSE]
    /\ enabled = [e \in Events |-> FALSE]
    /\ queue = <<>>
    /\ watcher = [e \in Events |-> NULL]
    /\ running = NULL
    /\ state = [t \in Threads |-> "active"]
    /\ pc = [t \in Threads |-> "lua"]
    /\ wants = [t \in Threads |-> {}]
    /\ deadline = [t \in Threads |-> "none"]

\* t is inside mlua_event_wait() and not running.
Waiting(t) == pc[t] = "wait" /\ state[t] # "dead" /\ running # t

Suspended(t) == state[t] \in {"suspended", "timer"}

-----------------------------------------------------------------------------
(* Interrupts. *)

\* Mutant: the event is set only if a thread watches it by now.
M_Interrupt(e) ==
    /\ ready' = [ready EXCEPT ![e] = TRUE]
    /\ queue' = IF enabled[e] /\ watcher[e] # NULL /\ e \notin Elements(queue)
                THEN Append(queue, e) ELSE queue
    /\ UNCHANGED <<enabled, watcher, threadVars>>

\* The condition of event e becomes true, and mlua_event_set(e) is called.
Interrupt(e) ==
    /\ ready' = [ready EXCEPT ![e] = TRUE]
    /\ queue' = IF enabled[e] /\ e \notin Elements(queue)
                THEN Append(queue, e) ELSE queue
    /\ UNCHANGED <<enabled, watcher, threadVars>>

-----------------------------------------------------------------------------
(* mlua_event_wait() in the running thread t. *)

\* The loop function finds one of the conditions E true and consumes it.
Consume(E) ==
    \E e \in E : ready[e] /\ ready' = [ready EXCEPT ![e] = FALSE]

\* The first call of the loop function; mlua_event_can_wait() has checked
\* that the events are enabled.
Check(t, E, d) ==
    /\ running = t
    /\ pc[t] = "lua"
    /\ \A e \in E : enabled[e]
    /\ \/ /\ Consume(E)
          /\ UNCHANGED <<pc, wants, deadline>>
       \/ /\ \A e \in E : ~ready[e]
          /\ pc' = [pc EXCEPT ![t] = "watch"]
          /\ wants' = [wants EXCEPT ![t] = E]
          /\ deadline' = [deadline EXCEPT ![t] = d]
          /\ UNCHANGED ready
    /\ UNCHANGED <<enabled, queue, watcher, running, state>>

\* Mutant: the state is taken from the deadline as it is.
M_Suspend(t) ==
    /\ running' = NULL
    /\ state' = [state EXCEPT ![t] = deadline[t]]

\* mlua_thread_suspend(): the scheduler takes over, and lists t by deadline.
\* A deadline already reached makes t a timer that expires at once.
Suspend(t) ==
    /\ running' = NULL
    /\ state' = [state EXCEPT
                    ![t] = IF deadline[t] = "none" THEN "suspended"
                                                   ELSE "timer"]

\* watch_events(): t replaces whatever thread is registered.
WatchEvents(t) ==
    watcher' = [e \in Events |-> IF e \in wants[t] THEN t ELSE watcher[e]]

Watch(t) ==
    /\ running = t
    /\ pc[t] = "watch"
    /\ WatchEvents(t)
    /\ pc' = [pc EXCEPT ![t] = "wait"]
    /\ Suspend(t)
    /\ UNCHANGED <<ready, enabled, queue, wants, deadline>>

\* unwatch_events(): whatever thread is registered is removed, but an event
\* that is disabled is skipped.
UnwatchEvents(t) ==
    watcher' = [e \in Events |->
                  IF e \in wants[t] /\ enabled[e] THEN NULL ELSE watcher[e]]

Return(t) ==
    /\ pc' = [pc EXCEPT ![t] = "lua"]
    /\ wants' = [wants EXCEPT ![t] = {}]
    /\ deadline' = [deadline EXCEPT ![t] = "none"]

\* mlua_event_wait_2(): the loop function is called again.  It succeeds, or
\* times out, and the events are no longer watched.
Succeed(t) ==
    /\ running = t
    /\ pc[t] = "wait"
    /\ \/ Consume(wants[t])
       \/ /\ deadline[t] = "reached"
          /\ \A e \in wants[t] : ~ready[e]
          /\ UNCHANGED ready
    /\ UnwatchEvents(t)
    /\ Return(t)
    /\ UNCHANGED <<enabled, queue, running, state>>

\* Mutant: the thread is unregistered before it suspends again.
M_Retry(t) ==
    /\ running = t
    /\ pc[t] = "wait"
    /\ deadline[t] # "reached"
    /\ \A e \in wants[t] : ~ready[e]
    /\ Suspend(t)
    /\ UnwatchEvents(t)
    /\ UNCHANGED <<ready, enabled, queue, pc, wants, deadline>>

\* It does not, and the thread suspends again, still registered.
Retry(t) ==
    /\ running = t
    /\ pc[t] = "wait"
    /\ deadline[t] # "reached"
    /\ \A e \in wants[t] : ~ready[e]
    /\ Suspend(t)
    /\ UNCHANGED <<eventVars, pc, wants, deadline>>

\* It raises an error, which skips unwatch_events(): t remains registered.
Raise(t) ==
    /\ running = t
    /\ pc[t] = "wait"
    /\ Return(t)
    /\ UNCHANGED <<eventVars, running, state>>

-----------------------------------------------------------------------------
(* Other calls of the running thread t. *)

\* An IRQ enabler: mlua_event_enable().
Enable(t, e) ==
    /\ running = t
    /\ pc[t] = "lua"
    /\ ~enabled[e]
    /\ enabled' = [enabled EXCEPT ![e] = TRUE]
    /\ UNCHANGED <<ready, queue, watcher, threadVars>>

\* Mutant: the watcher survives.
M_Disable(t, e) ==
    /\ running = t
    /\ pc[t] = "lua"
    /\ enabled[e]
    /\ enabled' = [enabled EXCEPT ![e] = FALSE]
    /\ queue' = Without(queue, e)
    /\ UNCHANGED <<ready, watcher, threadVars>>

\* mlua_event_disable(): the event leaves the queue, and its watcher is
\* removed but not resumed.
Disable(t, e) ==
    /\ running = t
    /\ pc[t] = "lua"
    /\ enabled[e]
    /\ enabled' = [enabled EXCEPT ![e] = FALSE]
    /\ queue' = Without(queue, e)
    /\ watcher' = [watcher EXCEPT ![e] = NULL]
    /\ UNCHANGED <<ready, threadVars>>

\* Thread.resume(u), to which a waiting thread is like any suspended one.
Resume(t, u) ==
    /\ running = t
    /\ pc[t] = "lua"
    /\ Suspended(u)
    /\ state' = [state EXCEPT ![u] = "active"]
    /\ UNCHANGED <<eventVars, running, pc, wants, deadline>>

\* Thread.kill(u): the watchers of the events are left alone.
Kill(t, u) ==
    /\ running = t
    /\ pc[t] = "lua"
    /\ u # t
    /\ state[u] # "dead"
    /\ state' = [state EXCEPT ![u] = "dead"]
    /\ UNCHANGED <<eventVars, running, pc, wants, deadline>>

\* thread.suspend(), thread.yield() or the end of t's function.
Leave(t, newState) ==
    /\ running = t
    /\ pc[t] = "lua"
    /\ running' = NULL
    /\ state' = [state EXCEPT ![t] = newState]
    /\ UNCHANGED <<eventVars, pc, wants, deadline>>

-----------------------------------------------------------------------------
(* The scheduler. *)

Run(t) ==
    /\ running = NULL
    /\ state[t] = "active"
    /\ running' = t
    /\ UNCHANGED <<eventVars, state, pc, wants, deadline>>

\* mlua_event_dispatch() takes the first pending event and calls
\* mlua_event_resume_watcher().
Dispatch ==
    /\ running = NULL
    /\ queue # <<>>
    /\ queue' = Tail(queue)
    /\ LET t == watcher[Head(queue)]
       IN  state' = IF t # NULL /\ Suspended(t)
                    THEN [state EXCEPT ![t] = "active"] ELSE state
    /\ UNCHANGED <<ready, enabled, watcher, running, pc, wants, deadline>>

\* The time of t's deadline comes, at any moment.
Reach(t) ==
    /\ deadline[t] = "future"
    /\ deadline' = [deadline EXCEPT ![t] = "reached"]
    /\ UNCHANGED <<eventVars, running, state, pc, wants>>

\* The scheduler moves t from the timer list to the active queue.
Expire(t) ==
    /\ running = NULL
    /\ state[t] = "timer"
    /\ deadline[t] = "reached"
    /\ state' = [state EXCEPT ![t] = "active"]
    /\ UNCHANGED <<eventVars, running, pc, wants, deadline>>

WaitStep(t) ==
    \/ \E E \in (SUBSET Events) \ {{}}, d \in {"none", "future"} :
          Check(t, E, d)
    \/ Watch(t)
    \/ Succeed(t)
    \/ Retry(t)
    \/ Raise(t)

Next ==
    \/ \E e \in Events : Interrupt(e)
    \/ \E t \in Threads :
          \/ WaitStep(t)
          \/ \E e \in Events : Enable(t, e) \/ Disable(t, e)
          \/ \E u \in Threads : Resume(t, u) \/ Kill(t, u)
          \/ \E newState \in {"active", "suspended", "dead"} :
                Leave(t, newState)
          \/ Run(t)
          \/ Reach(t)
          \/ Expire(t)
    \/ Dispatch

Spec == Init /\ [][Next]_vars

\* Threads are cooperative: the one that runs goes on to its next suspension.
\* The dispatcher gets to every pending event (DriversAnswer of MCDrivers),
\* and the scheduler to every active thread (ThreadsProgress of MCThreads).
\* Nothing else has to happen, no interrupt and no deadline.
FairSpec ==
    /\ Spec
    /\ []<>(running = NULL)
    /\ \A e \in Events : []<>(e \notin Elements(queue))
    /\ \A t \in Threads : []<>(running = t \/ state[t] # "active")

-----------------------------------------------------------------------------
(* Properties. *)

\* Every variable has its type.
TypeOK ==
    /\ ready \in [Events -> BOOLEAN]
    /\ enabled \in [Events -> BOOLEAN]
    /\ Elements(queue) \subseteq Events
    /\ watcher \in [Events -> Threads \cup {NULL}]
    /\ running \in Threads \cup {NULL}
    /\ state \in [Threads -> {"active", "suspended", "timer", "dead"}]
    /\ pc \in [Threads -> {"lua", "watch", "wait"}]
    /\ wants \in [Threads -> SUBSET Events]
    /\ deadline \in [Threads -> {"none", "future", "reached"}]

\* t is suspended in a wait for e, and is the thread that e will resume.
Watches(t, e) == Waiting(t) /\ e \in wants[t] /\ watcher[e] = t

\* A condition is never lost: if a thread is suspended in a wait, the
\* condition it waits for is true and it is registered, then the event is
\* pending, whenever the interrupt came between the test of the condition,
\* the registration and the suspension, and whatever the thread did with the
\* event in earlier waits.
NoLostCondition ==
    \A t \in Threads, e \in Events :
        Watches(t, e) /\ Suspended(t) /\ ready[e] => e \in Elements(queue)

\* A thread remains registered for every event it waits for until its wait
\* ends, as long as the event stays enabled and no other thread waits for it
\* too: neither the wait of another thread that ends, nor a resume that finds
\* the condition false, unregisters it.
KeepsWatching ==
    [][\A t \in Threads, e \in Events :
          /\ pc[t] = "wait" /\ pc'[t] = "wait"
          /\ e \in wants[t] /\ watcher[e] = t
          /\ enabled'[e]
          /\ \A u \in Threads \ {t} : e \in wants[u] => state[u] = "dead"
          => watcher'[e] = t]_vars

\* mlua_event_disable() leaves nothing behind: an event that is disabled has
\* no watcher and is not pending, so that a thread that waited for it before
\* is not resumed by it after it is enabled again.
DisabledIsForgotten ==
    \A e \in Events :
        ~enabled[e] => watcher[e] = NULL /\ e \notin Elements(queue)
=============================================================================
