----------------------------- MODULE EventQueue -----------------------------
(***************************************************************************)
(* The pending-event queues of lib/pico/event.c, one per interpreter (the  *)
(* RP2040 runs one Lua interpreter per core), and the dispatch loop that   *)
(* drains them.                                                            *)
(*                                                                         *)
(* An MLuaEvent is one word, a tagged pointer.  Here the tag is tag[e] and *)
(* the pointer is link[e] while the event is pending (the next pending     *)
(* event).  While the event is idle the pointer is the queue of the core   *)
(* that enabled it, owner[e].  The code overwrites that pointer while the  *)
(* event is pending; the model keeps owner[e], only to say that the core   *)
(* that enabled an event is the one that disables it, as every caller in   *)
(* src/lib/pico does.                                                      *)
(*                                                                         *)
(* Every section between mlua_event_lock() and mlua_event_unlock() holds a *)
(* spinlock with interrupts disabled, so each is one atomic action.  Set   *)
(* and DisableAbandoned run in interrupt handlers, in lwIP callbacks or on *)
(* the other core, between any two steps of a core's dispatch loop.        *)
(***************************************************************************)
EXTENDS Integers, FiniteSets, Sequences, QueueOps

CONSTANTS
    Events,        \* the MLuaEvent objects
    Cores,         \* the cores that run an interpreter
    NULL,          \* the null pointer
    TailRemoval    \* may an event be disabled while it is pending, last in
                   \* its queue and not first?  FALSE leaves out this one
                   \* case, which remove_pending_nolock() gets wrong

ASSUME EventsAssumption == IsFiniteSet(Events) /\ NULL \notin Events
ASSUME CoresAssumption == Cores # {}
ASSUME TailRemovalAssumption == TailRemoval \in BOOLEAN

VARIABLES
    tag,      \* tag[e]: the lower bits of MLuaEvent.state
    link,     \* link[e]: next_pending(e) of a pending event, else NULL
    owner,    \* owner[e]: the core whose queue e was last enabled for
    head,     \* head[c]: EventQueue.head of core c
    tail,     \* tail[c]: EventQueue.tail of core c, stale when head is NULL
    pc,       \* pc[c]: where core c is with respect to mlua_event_dispatch()
    wake,     \* wake[c]: the local variable of mlua_event_dispatch()
    evreg     \* evreg[c]: the event register that SEV sets and WFE consumes

queueVars == <<tag, link, owner, head, tail>>
loopVars == <<pc, wake, evreg>>
vars == <<tag, link, owner, head, tail, pc, wake, evreg>>

Tags == {"disabled", "idle", "pending", "abandoned"}

\* "run": Lua code; "pop": the inner loop; "check": the inner loop found the
\* queue empty and released the lock; "wfe": about to execute, or in, WFE.
Locations == {"run", "pop", "check", "wfe"}

Init ==
    /\ tag = [e \in Events |-> "disabled"]
    /\ link = [e \in Events |-> NULL]
    /\ owner \in [Events -> Cores]
    /\ head = [c \in Cores |-> NULL]
    /\ tail = [c \in Cores |-> NULL]
    /\ pc = [c \in Cores |-> "run"]
    /\ wake = [c \in Cores |-> FALSE]
    /\ evreg = [c \in Cores |-> FALSE]

-----------------------------------------------------------------------------
(* The linked list. *)

\* What a walk from the head of core c's queue finds, by number of steps.
Walk(c) ==
    LET w[n \in 0..Cardinality(Events)] ==
            IF n = 0 THEN head[c]
            ELSE IF w[n - 1] = NULL THEN NULL ELSE link[w[n - 1]]
    IN  w

\* The walk reaches p.
OnChain(c, p) == \E n \in 0..Cardinality(Events) : Walk(c)[n] = p

\* Mutant: the event unlinked is not compared with the head first.
M_RemovePending(c, e) ==
    /\ head' = head
    /\ link' = [p \in Events |-> IF p = e THEN NULL
                                ELSE IF link[p] = e THEN link[e] ELSE link[p]]

\* remove_pending_nolock() on the queue of core c, followed by the store that
\* ends e's time in the queue.  The tail pointer is left alone, also when e
\* was the tail.  (On an empty queue the walk starts at a null pointer; only
\* an event lost by the defect this leaves can get there, and the walk is
\* then taken to find nothing.)
RemovePending(c, e) ==
    /\ head' = IF head[c] = e THEN [head EXCEPT ![c] = link[e]] ELSE head
    /\ link' = [p \in Events |->
                  IF p = e THEN NULL
                  ELSE IF head[c] # e /\ link[p] = e /\ OnChain(c, p)
                       THEN link[e]
                       ELSE link[p]]

-----------------------------------------------------------------------------
(* Calls from Lua code, on the core that runs it. *)

\* mlua_event_enable(), successful.  A call on an event that is not disabled
\* returns false and changes nothing.
Enable(c, e) ==
    /\ pc[c] = "run"
    /\ tag[e] = "disabled"
    /\ tag' = [tag EXCEPT ![e] = "idle"]
    /\ owner' = [owner EXCEPT ![e] = c]
    /\ UNCHANGED <<link, head, tail, loopVars>>

MayDisable(c, e) ==
    /\ pc[c] = "run"
    /\ owner[e] = c
    /\ \/ TailRemoval
       \/ ~(tag[e] = "pending" /\ tail[c] = e /\ head[c] # e)

\* disable_event(): the locked section.  (The watcher it then removes is
\* state of the Lua registry, see EventWait.)
DisableTo(c, e, newTag) ==
    /\ MayDisable(c, e)
    /\ tag[e] # "disabled"
    /\ IF tag[e] = "pending" THEN RemovePending(c, e)
                             ELSE UNCHANGED <<head, link>>
    /\ tag' = [tag EXCEPT ![e] = newTag]
    /\ UNCHANGED <<owner, tail, loopVars>>

Disable(c, e) == DisableTo(c, e, "disabled")

Abandon(c, e) == DisableTo(c, e, "abandoned")

-----------------------------------------------------------------------------
(* Calls from interrupt handlers and callbacks. *)

\* Mutant: the state keeps the queue pointer, with the tag changed.
M_Enqueue_KeepsPointer(e) ==
    LET q == owner[e]
    IN  /\ IF head[q] = NULL
           THEN /\ head' = [head EXCEPT ![q] = e]
                /\ link' = [link EXCEPT ![e] = q]
           ELSE /\ link' = [link EXCEPT ![e] = q, ![tail[q]] = e]
                /\ UNCHANGED head
        /\ tag' = [tag EXCEPT ![e] = "pending"]
        /\ tail' = [tail EXCEPT ![q] = e]
        /\ UNCHANGED owner

\* Mutant: events are pushed to the head.
M_Enqueue_AtHead(e) ==
    LET q == owner[e]
    IN  /\ tag' = [tag EXCEPT ![e] = "pending"]
        /\ head' = [head EXCEPT ![q] = e]
        /\ link' = [link EXCEPT ![e] = head[q]]
        /\ tail' = [tail EXCEPT ![q] = IF head[q] = NULL THEN e ELSE @]
        /\ UNCHANGED owner

\* The enqueueing part of mlua_event_set_nolock(), for an idle event.
Enqueue(e) ==
    LET q == owner[e]
        last == tail[q]
    IN  /\ IF head[q] = NULL
           THEN /\ head' = [head EXCEPT ![q] = e]
                /\ tag' = [tag EXCEPT ![e] = "pending"]
                /\ link' = [link EXCEPT ![e] = NULL]
           ELSE /\ tag' = [tag EXCEPT ![e] = "pending", ![last] = "pending"]
                /\ link' = [link EXCEPT ![e] = NULL, ![last] = e]
                /\ UNCHANGED head
        /\ tail' = [tail EXCEPT ![q] = e]
        /\ UNCHANGED owner

\* Mutant: no __sev().
M_SendEvent == UNCHANGED evreg

\* __sev() reaches every core.
SendEvent == evreg' = [c \in Cores |-> TRUE]

\* Mutant: the tag is only compared with EVENT_PENDING.
M_Set(e) ==
    /\ tag[e] \in {"idle", "abandoned"}
    /\ Enqueue(e)
    /\ SendEvent
    /\ UNCHANGED <<pc, wake>>

\* mlua_event_set().  Setting an event that is disabled, already pending or
\* abandoned changes nothing.
Set(e) ==
    /\ tag[e] = "idle"
    /\ Enqueue(e)
    /\ SendEvent
    /\ UNCHANGED <<pc, wake>>

\* mlua_event_disable_abandoned(), when it returns true.
DisableAbandoned(e) ==
    /\ tag[e] = "abandoned"
    /\ tag' = [tag EXCEPT ![e] = "disabled"]
    /\ UNCHANGED <<link, owner, head, tail, loopVars>>

-----------------------------------------------------------------------------
(* mlua_event_dispatch() on core c. *)

\* Entry; wake is initially true iff the deadline is MLUA_TICKS_MIN, that is
\* when the scheduler has active threads and only polls.
DispatchEnter(c) ==
    /\ pc[c] = "run"
    /\ pc' = [pc EXCEPT ![c] = "pop"]
    /\ \E poll \in BOOLEAN : wake' = [wake EXCEPT ![c] = poll]
    /\ UNCHANGED <<queueVars, evreg>>

\* The head of the queue becomes idle again, then its watcher is resumed;
\* whether there was a suspended watcher is up to the threads.
Pop(c) ==
    LET e == head[c]
    IN  /\ pc[c] = "pop"
        /\ e # NULL
        /\ head' = [head EXCEPT ![c] = link[e]]
        /\ tag' = [tag EXCEPT ![e] = "idle"]
        /\ link' = [link EXCEPT ![e] = NULL]
        /\ owner' = [owner EXCEPT ![e] = c]
        /\ \E resumed \in BOOLEAN :
               wake' = [wake EXCEPT ![c] = @ \/ resumed]
        /\ UNCHANGED <<tail, pc, evreg>>

PopEmpty(c) ==
    /\ pc[c] = "pop"
    /\ head[c] = NULL
    /\ pc' = [pc EXCEPT ![c] = "check"]
    /\ UNCHANGED <<queueVars, wake, evreg>>

DispatchReturn(c) ==
    /\ pc[c] = "check"
    /\ \E deadlineReached \in BOOLEAN : wake[c] \/ deadlineReached
    /\ pc' = [pc EXCEPT ![c] = "run"]
    /\ UNCHANGED <<queueVars, wake, evreg>>

\* No thread to run and the deadline in the future: mlua_wait().
EnterWait(c) ==
    /\ pc[c] = "check"
    /\ ~wake[c]
    /\ pc' = [pc EXCEPT ![c] = "wfe"]
    /\ UNCHANGED <<queueVars, wake, evreg>>

\* WFE returns at once and clears the event register if it is set.
WaitEvent(c) ==
    /\ pc[c] = "wfe"
    /\ evreg[c]
    /\ evreg' = [evreg EXCEPT ![c] = FALSE]
    /\ pc' = [pc EXCEPT ![c] = "pop"]
    /\ UNCHANGED <<queueVars, wake>>

\* best_effort_wfe_or_timeout() wakes up for the deadline, if there is one.
WaitTimeout(c) ==
    /\ pc[c] = "wfe"
    /\ pc' = [pc EXCEPT ![c] = "pop"]
    /\ UNCHANGED <<queueVars, wake, evreg>>

DispatchStep(c) ==
    \/ DispatchEnter(c)
    \/ Pop(c)
    \/ PopEmpty(c)
    \/ DispatchReturn(c)
    \/ EnterWait(c)
    \/ WaitEvent(c)

Next ==
    \/ \E c \in Cores :
          \/ DispatchEnter(c)
          \/ Pop(c)
          \/ PopEmpty(c)
          \/ DispatchReturn(c)
          \/ EnterWait(c)
          \/ WaitEvent(c)
          \/ WaitTimeout(c)
    \/ \E c \in Cores, e \in Events :
          \/ Enable(c, e)
          \/ Disable(c, e)
          \/ Abandon(c, e)
    \/ \E e \in Events :
          \/ Set(e)
          \/ DisableAbandoned(e)

Spec == Init /\ [][Next]_vars

\* A core never stops executing: Lua threads yield to the scheduler (they are
\* cooperative), and the dispatch loop is straight-line code.  The timeout of
\* WFE gets no fairness: the scheduler may wait without a deadline.
FairSpec == Spec /\ \A c \in Cores : WF_vars(DispatchStep(c))

-----------------------------------------------------------------------------
(* Properties. *)

\* Every variable has its type.
TypeOK ==
    /\ tag \in [Events -> Tags]
    /\ link \in [Events -> Events \cup {NULL}]
    /\ owner \in [Events -> Cores]
    /\ head \in [Cores -> Events \cup {NULL}]
    /\ tail \in [Cores -> Events \cup {NULL}]
    /\ pc \in [Cores -> Locations]
    /\ wake \in [Cores -> BOOLEAN]
    /\ evreg \in [Cores -> BOOLEAN]

PendingOf(c) == {e \in Events : tag[e] = "pending" /\ owner[e] = c}

\* As many events from the head of core c's queue as are pending.
QueueOf(c) == [i \in 1..Cardinality(PendingOf(c)) |-> Walk(c)[i - 1]]

\* The queue of core c is the list s: it starts at head, ends at tail, is
\* linked through the states of the events, and holds exactly the pending
\* events that core c enabled.
Represents(c, s) ==
    /\ Elements(s) = PendingOf(c)
    /\ head[c] = IF s = <<>> THEN NULL ELSE s[1]
    /\ s # <<>> => tail[c] = s[Len(s)]
    /\ \A i \in DOMAIN s :
          link[s[i]] = IF i = Len(s) THEN NULL ELSE s[i + 1]

\* event.c, EventQueue: the linked list of each core is well formed and holds
\* the pending events of the core, all of them and nothing else.  This is
\* what enqueueing, popping and unlinking from the middle must preserve
\* together; without it an event stays pending and is never dispatched.
\* (It needs TailRemoval = FALSE, see PendingIsQueued.)
QueueWellFormed == \A c \in Cores : Represents(c, QueueOf(c))

\* event.c:18-21, "the state of each pending event contains a pointer to the
\* next pending event": every pending event is reachable from the head of the
\* queue it was pushed to, so that dispatching will pop it.  It fails with
\* TailRemoval = TRUE.
PendingIsQueued ==
    \A e \in Events : tag[e] = "pending" => OnChain(owner[e], e)

\* A core never sleeps on a pending event: if an event became pending after
\* the inner loop saw the queue empty and released the lock, WFE finds the
\* event register set and returns at once.
NoLostWakeup ==
    \A c \in Cores : pc[c] = "wfe" /\ head[c] # NULL => evreg[c]

\* Interrupt handlers and callbacks only ever make an event pending or end an
\* abandoned one, and the core that dispatches only ever makes it idle:
\* an event that its owner abandoned is never queued, dispatched or enabled
\* again before the callback has released it (event.h, EVENT_ABANDONED).
AbandonedUntilReleased ==
    [][\A e \in Events :
          tag[e] = "abandoned" /\ tag'[e] # "abandoned"
             => tag'[e] = "disabled"]_vars

\* The order of dispatching: each core's queue behaves as a FIFO sequence of
\* events, whatever the links look like (EventFifo).
Fifo == INSTANCE EventFifo WITH queue <- [c \in Cores |-> QueueOf(c)]

ImplementsFifo == Fifo!Spec
=============================================================================
