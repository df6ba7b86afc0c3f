----------------------------- MODULE EventFifo ------------------------------
(***************************************************************************)
(* What the pending-event queues of lib/pico/event.c promise, without      *)
(* pointers: each core has a sequence of pending events.  Setting an event *)
(* appends it to the sequence of the core that enabled it, unless it is    *)
(* already in one; dispatching takes the first; disabling takes an event   *)
(* out of wherever it is.  Nothing else changes a sequence.                *)
(***************************************************************************)
EXTENDS Sequences, QueueOps

CONSTANTS Events, Cores

VARIABLE queue    \* queue[c]: the pending events of core c, first to last

Init == queue = [c \in Cores |-> <<>>]

Queued(e) == \E c \in Cores : e \in Elements(queue[c])

\* mlua_event_set() on an idle event that core c enabled.
Set(c, e) ==
    /\ ~Queued(e)
    /\ queue' = [queue EXCEPT ![c] = Append(@, e)]

\* One iteration of the inner loop of mlua_event_dispatch() on core c.
Pop(c) ==
    /\ queue[c] # <<>>
    /\ queue' = [queue EXCEPT ![c] = Tail(@)]

\* mlua_event_disable() or mlua_event_abandon() of a pending event.
Unlink(c, e) ==
    /\ e \in Elements(queue[c])
    /\ queue' = [queue EXCEPT ![c] = Without(@, e)]

Next ==
    \E c \in Cores :
        \/ Pop(c)
        \/ \E e \in Events : Set(c, e) \/ Unlink(c, e)

Spec == Init /\ [][Next]_queue
=============================================================================
