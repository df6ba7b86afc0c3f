----------------------------- MODULE PacketRing ------------------------------
(***************************************************************************)
(* The array with head and len in which lwip.udp keeps packets and         *)
(* pico.cyw43.wifi keeps scan results: struct UDP and struct ScanQueue.    *)
(***************************************************************************)
EXTENDS Naturals, Sequences

CONSTANT Cap    \* the capacity, the field cap; not 0

Places == 0..(Cap - 1)

Rings(Items) == [head : Places, len : 0..Cap, items : [Places -> Items]]

NoItems == [i \in Places |-> 0]

\* The place of the i-th item, counted from 0.
Slot(r, i) == IF r.head + i >= Cap THEN r.head + i - Cap ELSE r.head + i

Full(r) == r.len >= Cap

PutItem(r, p) == [r EXCEPT !.len = @ + 1, !.items = [@ EXCEPT ![Slot(r, r.len)] = p]]

FirstItem(r) == r.items[r.head]

\* Mutant: the head stays.
M_TakeItem(r) == [r EXCEPT !.len = @ - 1]

TakeItem(r) == [r EXCEPT !.head = IF @ + 1 = Cap THEN 0 ELSE @ + 1, !.len = @ - 1]

\* The items, first to last.
Contents(r) == [i \in 1..r.len |-> r.items[Slot(r, i - 1)]]
=============================================================================
