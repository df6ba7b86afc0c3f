------------------------------ MODULE UdpSocket ------------------------------
(***************************************************************************)
(* A socket of lwip.udp (lib/pico/lwip.udp.c) with a queue of packets,     *)
(* that the handler fills from an interrupt and one thread empties with    *)
(* recv() or recvfrom().  Packets are numbered as they arrive.             *)
(***************************************************************************)
EXTENDS PacketRing, FiniteSets

CONSTANT MaxPackets     \* bound on the packets that arrive

Packets == 1..MaxPackets

VARIABLES
    open,      \* the UDP has a PCB
    ring,      \* head, len and recv_packets
    event,     \* recv_event: "disabled", "enabled" or "pending"
    pc,        \* the receiver, see TypeOK
    timed,     \* its call has a deadline
    late,      \* the loop function is asked a last time
    packet,    \* the packet that recv_loop() has copied
    arrived,   \* auxiliary: the number of packets that arrived
    kept,      \* auxiliary: those that were put in the queue
    given,       \* auxiliary: those that were returned to Lua
    freed      \* auxiliary: those that were freed by the module

udpThread == <<pc, timed, late, packet>>
vars == <<open, ring, event, udpThread, arrived, kept, given, freed>>

\* mod_new() with a capacity: without, there is no queue and no event.
Init ==
    /\ open = TRUE /\ event = "enabled"
    /\ ring = [head |-> 0, len |-> 0, items |-> NoItems]
    /\ pc = "lua" /\ timed = FALSE /\ late = FALSE /\ packet = 0
    /\ arrived = 0 /\ kept = <<>> /\ given = <<>> /\ freed = {}

\* Mutant: the event is set if the receiver is suspended.
M_Set == event' = IF pc = "suspended" THEN "pending" ELSE event

Set == event' = IF event = "disabled" THEN event ELSE "pending"

\* handle_recv(), between any two steps of the core.
handle_recv ==
    /\ open /\ arrived < MaxPackets
    /\ arrived' = arrived + 1
    /\ IF Full(ring)
       THEN freed' = freed \cup {arrived'} /\ UNCHANGED <<ring, event, kept>>
       ELSE /\ ring' = PutItem(ring, arrived') /\ Set
            /\ kept' = Append(kept, arrived')
            /\ UNCHANGED freed
    /\ UNCHANGED <<open, udpThread, given>>

\* recv_loop() looks at len under the lock.
Test(again) ==
    /\ pc' = IF ring.len > 0 THEN "copy" ELSE IF again THEN "lua" ELSE "empty"
    /\ UNCHANGED <<open, ring, event, packet, arrived, kept, given, freed>>

\* mlua_event_wait() suspends.
Suspend ==
    /\ pc = "empty" /\ pc' = "suspended"
    /\ UNCHANGED <<open, ring, event, timed, late, packet, arrived, kept, given,
                   freed>>

\* recv(), recvfrom().
UDP_recv ==
    /\ pc = "lua" /\ open
    /\ timed' \in BOOLEAN /\ late' = FALSE
    /\ Test(FALSE)

\* The loop function is called again.
Again == pc = "ready" /\ Test(late) /\ UNCHANGED <<timed, late>>

\* The packet is copied, without the lock.
Copy ==
    /\ pc = "copy"
    /\ packet' = FirstItem(ring)
    /\ pc' = "advance"
    /\ UNCHANGED <<open, ring, event, timed, late, arrived, kept, given, freed>>

\* The packet leaves the queue, and is returned.
Advance ==
    /\ pc = "advance"
    /\ ring' = TakeItem(ring)
    /\ given' = Append(given, packet)
    /\ packet' = 0
    /\ pc' = "lua"
    /\ UNCHANGED <<open, event, timed, late, arrived, kept, freed>>

\* The loop of UDP_close() frees what is in the queue.
Freed == {Contents(ring)[i] : i \in 1..ring.len}

\* close() of another thread, or of this one between two calls.
UDP_close ==
    /\ open /\ pc \in {"lua", "suspended", "ready"}
    /\ open' = FALSE /\ event' = "disabled"
    /\ freed' = freed \cup Freed
    /\ ring' = [ring EXCEPT !.head = Slot(ring, ring.len), !.len = 0]
    /\ UNCHANGED <<udpThread, arrived, kept, given>>

Dispatch ==
    /\ pc \in {"lua", "suspended", "ready"}
    /\ event = "pending" /\ event' = "enabled"
    /\ pc' = IF pc = "suspended" THEN "ready" ELSE pc
    /\ UNCHANGED <<open, ring, timed, late, packet, arrived, kept, given, freed>>

\* The deadline is reached.
Timer ==
    /\ pc \in {"suspended", "ready"} /\ timed /\ ~late
    /\ late' = TRUE /\ pc' = "ready"
    /\ UNCHANGED <<open, ring, event, timed, packet, arrived, kept, given, freed>>

Next ==
    \/ handle_recv
    \/ UDP_recv
    \/ Suspend
    \/ Again
    \/ Copy
    \/ Advance
    \/ UDP_close
    \/ Dispatch
    \/ Timer

Spec == Init /\ [][Next]_vars

-----------------------------------------------------------------------------
(* Properties. *)

\* Every variable has its type; in particular the ring stays in its array.
TypeOK ==
    /\ open \in BOOLEAN /\ timed \in BOOLEAN /\ late \in BOOLEAN
    /\ ring \in Rings(Packets \cup {0})
    /\ event \in {"disabled", "enabled", "pending"}
    /\ pc \in {"lua", "copy", "advance", "empty", "suspended", "ready"}

\* recv() returns the packets that were kept, in order, each once.
ReceivedInOrder ==
    given \o Contents(ring) = SubSeq(kept, 1, Len(given) + ring.len)

\* Every packet that arrives ends in one place: returned to Lua, which frees
\* it, in the queue, or freed; none is freed twice or leaks, close() included.
EachPacketOnce ==
    LET inLua == {given[i] : i \in DOMAIN given}
        queued == {Contents(ring)[i] : i \in 1..ring.len}
    IN /\ inLua \cup queued \cup freed = 1..arrived
       /\ Cardinality(inLua) + Cardinality(queued) + Cardinality(freed) = arrived

\* A receiver is not suspended beside a packet without being told.
ReceiverIsTold == pc = "suspended" /\ ring.len > 0 => event = "pending"

\* The ring is the bounded queue of PacketFifo.
Fifo == INSTANCE PacketFifo WITH Items <- Packets, queue <- Contents(ring)

ImplementsFifo == Fifo!Spec
=============================================================================
