----------------------------- MODULE PacketFifo ------------------------------
(***************************************************************************)
(* What the receive queues of lwip.udp and of pico.cyw43.wifi promise: a   *)
(* bounded queue that keeps the oldest items, and drops what arrives while *)
(* it is full.                                                             *)
(***************************************************************************)
EXTENDS Naturals, Sequences

CONSTANTS Items, Cap

VARIABLE queue

Init == queue = <<>>

Put(p) == Len(queue) < Cap /\ queue' = Append(queue, p)

Take == queue # <<>> /\ queue' = Tail(queue)

Clear == queue' = <<>>

Next == Take \/ Clear \/ \E p \in Items : Put(p)

Spec == Init /\ [][Next]_queue
=============================================================================
