------------------------------ MODULE MCNetwork ------------------------------
(***************************************************************************)
(* The network modules, for TLC.  They share nothing but the ring of       *)
(* packets, so one run checks them side by side: which names the one that  *)
(* moves in a behaviour, and the others stay in an initial state.  A       *)
(* socket of lwip.tcp is checked with data in one direction at a time.     *)
(***************************************************************************)
EXTENDS Integers, Sequences

CONSTANTS MaxUnits, MaxPbuf, Window, SndBuf, MaxQueue, Cap, MaxPackets,
          MaxResults, Wrap, Threads, NoThread, Requests,
          Strings     \* the number of strings that are passed to send()

ASSUME NetworkAssumption ==
    /\ {MaxUnits, MaxPbuf, Window, SndBuf, Cap, Wrap} \subseteq Nat \ {0}
    /\ {MaxQueue, MaxPackets, MaxResults, Requests, Strings} \subseteq Nat
    /\ NoThread \notin Threads
    \* Threads are not confused with the other results of a lookup.
    /\ Threads \cap {"none", "error", "false", "timeout", "killed"} = {}

VARIABLES listener, pcb, arg, tcp, recv_event, send_event, peer, acceptor,
          receiver, sender, got, written
tcpVars == <<listener, pcb, arg, tcp, recv_event, send_event, peer, acceptor,
             receiver, sender, got, written>>
\* send() is called with strings each of which is longer than the one before.
T == INSTANCE TcpSocket WITH Messages <- {[k \in 1..Strings |-> k]}

VARIABLES open, ring, event, upc, timed, late, packet, arrived, kept, given, freed
udp == <<open, ring, event, upc, timed, late, packet, arrived, kept, given, freed>>
U == INSTANCE UdpSocket WITH pc <- upc

VARIABLES scan_queue, live, squeue, dropped, active, scan_event, iter, expired,
          results, returned, lost
scan == <<scan_queue, live, squeue, dropped, active, scan_event, iter, expired,
          results, returned, lost>>
W == INSTANCE WifiScan WITH queue <- squeue

VARIABLES slot, asked, looker
dns == <<slot, asked, looker>>
D == INSTANCE DnsLookups

VARIABLE which
all == <<which, tcpVars, udp, scan, dns>>

InitAll ==
    /\ T!Init /\ U!Init /\ W!Init /\ D!Init
    /\ which \in {"tcp in", "tcp out", "udp", "scan", "dns"}
    /\ which # "tcp in" => pcb = "new"

Unmoved(models, v) == IF which \in models THEN TRUE ELSE UNCHANGED v

Step(model) ==
    /\ which = model
    /\ UNCHANGED which
    /\ Unmoved({"tcp in", "tcp out"}, tcpVars)
    /\ Unmoved({"udp"}, udp) /\ Unmoved({"scan"}, scan) /\ Unmoved({"dns"}, dns)

Outwards ==
    peer'.sent = 0 /\ peer'.fin = "no" /\ peer'.rx /\ receiver'.call # "recv"

NextAll ==
    \/ Step("tcp in") /\ T!Next /\ sender'.pc = "lua"
    \/ Step("tcp out") /\ T!Next /\ Outwards
    \/ Step("udp") /\ U!Next
    \/ Step("scan") /\ W!Next
    \/ Step("dns") /\ D!Next

\* The fairness of each model, as its module states it.  The model of a
\* behaviour is fixed, so a line may join fair actions of several models.
Send(action) == Step("tcp out") /\ action /\ Outwards

FairnessAll ==
    /\ WF_all(\/ Send(\E k \in 1..SndBuf : T!handle_sent(k))
              \/ Step("scan") /\ W!ScanEnds)
    /\ WF_all(\/ Send(T!handle_poll)
              \/ Step("scan") /\ W!Return)
    /\ WF_all(\/ Send(T!OtherRuns /\ T!DispatchSend)
              \/ Step("scan") /\ W!Wait)
    /\ WF_all(\/ Send(T!OtherRuns /\ T!RunSender)
              \/ Step("scan") /\ W!Resumed)
    /\ WF_all(\/ Send(T!send_loop)
              \/ Step("scan") /\ W!Dispatch)
    /\ WF_all(Step("scan") /\ W!Timer)
    /\ \A s \in D!Slots :
           WF_all(Step("dns") /\ \E found \in BOOLEAN : D!handle_dns_found(s, found))
    /\ \A t \in Threads :
           /\ WF_all(Step("dns") /\ D!gethostbyname_loop(t))
           /\ WF_all(Step("dns") /\ D!gethostbyname_done(t))
           /\ SF_all(\/ Step("dns") /\ D!Dispatch(t)
                     \/ Send(T!send_loop /\ Len(written') > Len(written)))
           /\ SF_all(Step("dns") /\ D!Resumed(t))

SpecAll == InitAll /\ [][NextAll]_all /\ FairnessAll

-----------------------------------------------------------------------------
(* Properties: those of each module together. *)

\* recv() returns what lwIP has handed over, in order, each unit once, and
\* end of file after all of it; each unit read goes back to the window; and
\* send() writes the units of its strings in order, each once (TcpSocket).
TcpDataInOrder ==
    T!RecvInOrder /\ T!WindowReturned /\ T!EofIsTheEnd /\ T!SendInOrder

\* No thread of a socket is suspended beside what it waits for, an error or its
\* deadline, and a socket without an error has a PCB that lwIP has not freed,
\* but for one that was reset in the accept queue (TcpSocket).
TcpWaitersAreTold == T!WaitersAreTold /\ T!DeadlinesHold /\ T!PcbMatchesErr

\* Each datagram that arrives is returned, in order, or freed, once, and the receiver is
\* told of those in the queue (UdpSocket).
UdpPackets == U!EachPacketOnce /\ U!ReceivedInOrder /\ U!ReceiverIsTold

\* The queue of a UDP socket is a bounded FIFO (UdpSocket, PacketFifo).
UdpImplementsFifo == U!ImplementsFifo

\* The results of a scan come in order and those missing are counted; the queue
\* that the driver is given is kept, but for an iterator that was dropped and a
\* scan that did not start (WifiScan).
ScanIsCounted == W!ResultsAreCounted /\ W!QueueIsLive

\* A lookup returns the answer to its own question, and its slot is taken
\* until lwIP is done with it (DnsLookups).
AnswersAreMine == D!AskedSlotIsTaken /\ D!SlotsAreUsed /\ D!AnswerIsMine

\* send(), the iterator of a scan, unless it is dropped, and gethostbyname() return,
\* and no slot is abandoned for ever.  The threads of lookups are interchangeable.
CallsReturn ==
    LET t == CHOOSE u \in Threads : TRUE IN
        /\ (\/ which = "tcp out" /\ sender.pc = "loop"
            \/ which = "scan" /\ iter = "loop"
            \/ which = "dns" /\ looker[t].pc = "loop")
           ~>
           (\/ sender.pc = "lua" /\ iter \in {"none", "lua", "dropped"} /\ looker[t].pc = "lua"
            \/ which = "tcp out"
                /\ (pcb = "closed" \/ tcp.err = "CLSD" \/ ~tcp.connected))
        /\ D!SlotsAreReturned

\* docs/lwip.md, send(): "The deadline is an absolute time" (TcpSocket).
SendDeadlineHolds == T!SendDeadlineHolds
=============================================================================
