------------------------------ MODULE WifiScan -------------------------------
(***************************************************************************)
(* The Wi-Fi scan of pico.cyw43.wifi (lib/pico/pico.cyw43.wifi.c): an      *)
(* iterator for a generic "for" loop that returns the results which the    *)
(* driver hands to handle_scan_result(), from an interrupt.                *)
(***************************************************************************)
EXTENDS PacketRing

CONSTANTS
    MaxResults,   \* bound on the results of a scan
    Wrap          \* the range of the 8-bit counter dropped, here smaller

VARIABLES
    scan_queue,   \* wifi_state.scan_queue is not NULL
    live,         \* the ScanQueue it points to is reachable for Lua
    queue,        \* head, len and items of the ScanQueue
    dropped,      \* its field dropped
    active,       \* cyw43_state.wifi_scan_state: the driver is scanning
    scan_event,   \* "disabled", "enabled" or "pending"
    iter,         \* the iterator: "none", "lua", "loop", "suspended", "ready",
                  \* "dropped" when Lua has collected it, "failed" when the
                  \* scan did not start
    expired,      \* the deadline of scan_next() is reached
    results,      \* auxiliary: the results of this scan so far
    returned,     \* auxiliary: those that scan_next() has returned
    lost          \* auxiliary: the number reported as dropped

vars == <<scan_queue, live, queue, dropped, active, scan_event, iter, expired,
          results, returned, lost>>

Empty == [head |-> 0, len |-> 0, items |-> NoItems]

Init ==
    /\ scan_queue = FALSE /\ live = FALSE /\ active = FALSE
    /\ queue = Empty /\ dropped = 0
    /\ scan_event = "disabled" /\ iter = "none" /\ expired = FALSE
    /\ results = 0 /\ returned = <<>> /\ lost = 0

-----------------------------------------------------------------------------
(* The driver. *)

\* handle_scan_result(), under the event lock.
handle_scan_result ==
    /\ active /\ results < MaxResults
    /\ results' = results + 1
    /\ IF ~scan_queue THEN UNCHANGED <<queue, dropped, scan_event>>
       ELSE IF Full(queue)
       THEN dropped' = (dropped + 1) % Wrap /\ UNCHANGED <<queue, scan_event>>
       ELSE /\ queue' = PutItem(queue, results')
            /\ scan_event' = IF scan_event = "disabled" THEN scan_event
                                                        ELSE "pending"
            /\ UNCHANGED dropped
    /\ UNCHANGED <<scan_queue, live, active, iter, expired, returned, lost>>

ScanEnds ==
    /\ active
    /\ active' = FALSE
    /\ UNCHANGED <<scan_queue, live, queue, dropped, scan_event, iter, expired,
                   results, returned, lost>>

-----------------------------------------------------------------------------
(* The iterator. *)

\* mod_scan().  The event is enabled until the iterator is closed, so one that
\* was dropped makes each later call fail.  A scan that does not start leaves
\* scan_queue as it is set, with the queue for Lua to collect; nothing here
\* says whether the driver, which reports the error, scans.
mod_scan ==
    /\ iter \in {"none", "failed"} /\ scan_event = "disabled"
    /\ scan_queue' = TRUE /\ queue' = Empty /\ dropped' = 0
    /\ results' = 0 /\ returned' = <<>> /\ lost' = 0
    /\ \/ /\ active' = TRUE /\ live' = TRUE
          /\ scan_event' = "enabled" /\ iter' = "lua"
       \/ /\ live' = FALSE /\ active' \in BOOLEAN
          /\ iter' = "failed" /\ UNCHANGED scan_event
    /\ UNCHANGED expired

\* scan_next() starts with a deadline of 200 ms.
scan_next ==
    /\ iter = "lua"
    /\ iter' = "loop" /\ expired' = FALSE
    /\ UNCHANGED <<scan_queue, live, queue, dropped, active, scan_event, results,
                   returned, lost>>

\* A deadline that is reached is replaced by one in 200 ms.
Renewed == FALSE

\* scan_done(): the driver and the queue are stopped, then the event.
Done ==
    /\ active' = FALSE /\ scan_queue' = FALSE /\ live' = FALSE
    /\ scan_event' = "disabled" /\ iter' = "none" /\ expired' = FALSE
    /\ UNCHANGED <<queue, dropped, results, returned, lost>>

\* Mutant: the counter goes on.
M_Reset == dropped

\* The counter of dropped results, once it is reported.
Reset == 0

\* scan_next_loop(): a result, with the number of those dropped before it.
Return ==
    /\ iter = "loop" /\ queue.len > 0
    /\ returned' = Append(returned, FirstItem(queue))
    /\ queue' = TakeItem(queue)
    /\ lost' = lost + dropped /\ dropped' = Reset
    /\ iter' = "lua"
    /\ UNCHANGED <<scan_queue, live, active, scan_event, expired, results>>

\* Without results it ends the loop, if the scan has ended, or suspends.
Wait ==
    /\ iter = "loop" /\ queue.len = 0
    /\ IF ~active THEN Done
       ELSE /\ iter' = "suspended" /\ expired' = Renewed
            /\ UNCHANGED <<scan_queue, live, queue, dropped, active, scan_event,
                           results, returned, lost>>

\* Another thread kills the one that iterates, or it leaves the loop.  The
\* closing function may be called after the queue was collected, too.
scan_done == iter \in {"lua", "suspended", "ready", "dropped"} /\ Done

\* Outside of a "for" loop, the values of mod_scan() are dropped without a call
\* of the closing one, also when the thread that uses them is killed.  Only they
\* keep the queue, which has no finalizer: the driver is not told.
Drop ==
    /\ iter \in {"lua", "suspended", "ready"}
    /\ iter' = "dropped" /\ live' = FALSE
    /\ UNCHANGED <<scan_queue, queue, dropped, active, scan_event, expired, results,
                   returned, lost>>

Dispatch ==
    /\ iter # "loop" /\ scan_event = "pending"
    /\ scan_event' = "enabled"
    /\ iter' = IF iter = "suspended" THEN "ready" ELSE iter
    /\ UNCHANGED <<scan_queue, live, queue, dropped, active, expired, results,
                   returned, lost>>

Timer ==
    /\ iter = "suspended" /\ ~expired
    /\ iter' = "ready" /\ expired' = TRUE
    /\ UNCHANGED <<scan_queue, live, queue, dropped, active, scan_event, results,
                   returned, lost>>

Resumed ==
    /\ iter = "ready"
    /\ iter' = "loop"
    /\ UNCHANGED <<scan_queue, live, queue, dropped, active, scan_event, expired,
                   results, returned, lost>>

Next ==
    \/ handle_scan_result
    \/ ScanEnds
    \/ mod_scan
    \/ scan_next
    \/ Return
    \/ Wait
    \/ scan_done
    \/ Drop
    \/ Dispatch
    \/ Timer
    \/ Resumed

Spec == Init /\ [][Next]_vars

\* The driver ends its scan some time; threads, events and timers get their
\* turn.
Fairness ==
    /\ WF_vars(ScanEnds)
    /\ WF_vars(Return) /\ WF_vars(Wait) /\ WF_vars(Resumed)
    /\ WF_vars(Dispatch) /\ WF_vars(Timer)

-----------------------------------------------------------------------------
(* Properties. *)

\* The results of a scan come in order; those that are missing are counted,
\* modulo the width of the counter.
ResultsAreCounted ==
    LET seen == returned \o Contents(queue)
    IN scan_queue /\ live =>
          /\ \A i, j \in DOMAIN seen : i < j => seen[i] < seen[j]
          /\ (Len(seen) + dropped + lost - results) % Wrap = 0

\* The queue that the driver is given is one that Lua keeps, and once the
\* iterator is closed the driver is given none and scans no more.  The queue
\* outlives its Lua object in two cases, in which the driver may write to
\* memory that is free: when the iterator is dropped without being closed, and
\* when the scan does not start.
QueueIsLive ==
    /\ scan_queue => live \/ iter \in {"dropped", "failed"}
    /\ iter = "none" => ~scan_queue /\ ~active
    /\ iter \in {"lua", "loop", "suspended", "ready"} => scan_queue /\ live

=============================================================================
