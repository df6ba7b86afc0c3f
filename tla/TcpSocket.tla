------------------------------ MODULE TcpSocket ------------------------------
(***************************************************************************)
(* The sockets of lwip.tcp (lib/pico/lwip.tcp.c): one connection, made by  *)
(* connect() or taken from the accept queue of a listener, followed from   *)
(* its first segment to its end.                                           *)
(*                                                                         *)
(* lwIP calls the handlers from an interrupt, at any time at which the     *)
(* core does not hold the lwIP lock.  Three threads use the sockets: one   *)
(* in accept(), one in connect() or recv(), one in send(); while they wait,*)
(* other threads make any of the other calls.  How mlua_event_wait() links *)
(* an event to the thread that waits for it is the subject of EventWait;   *)
(* here an event that is dispatched resumes the thread.                    *)
(*                                                                         *)
(* The data of the peer are the units 1, 2, ...; a chain of pbufs is the   *)
(* sequence of its units, which says where a pbuf ends.                    *)
(*                                                                         *)
(* A connection may be reset while it is in the accept queue.  The code    *)
(* does not notice: accept(), close() and the next connection then use a   *)
(* PCB that lwIP has freed.  The model gives them the outcome of memory    *)
(* that was not used again: the link of the queue is still there, and the  *)
(* PCB, whose state is CLOSED, takes no data.                              *)
(***************************************************************************)
EXTENDS Integers, Sequences, FiniteSetsExt

CONSTANTS
    MaxUnits,   \* bound on the units that the peer sends
    MaxPbuf,    \* the most units in a pbuf
    Window,     \* the receive window, in units
    SndBuf,     \* the size of the send buffer of lwIP, in units
    MaxQueue,   \* bound on the other connections in the accept queue
    Messages    \* arguments of send(): sequences of the sizes of strings

VARIABLES
    listener,    \* the listening TCP: err, accept queue, event
    pcb,         \* the PCB of the connection, see PcbStates
    arg,         \* its callback argument: "NULL", "TCP_name" or "TCP"
    tcp,         \* the connection's TCP: err, connected, rx_closed, recv_head
                 \* (the chain of pbufs), recv_off
    recv_event,  \* "disabled", "enabled" or "pending"
    send_event,
    peer,        \* lwIP's view of the connection: units sent by the peer, and
                 \* told to handle_recv(), FIN, window, room in the send
                 \* buffer; rx and tx: the directions that are open
    acceptor, receiver, sender,     \* the threads, see Lua
    got,         \* auxiliary: what recv() has returned
    written      \* auxiliary: what the call of send() has written

threads == <<acceptor, receiver, sender>>
events == <<recv_event, send_event>>
vars == <<listener, pcb, arg, tcp, events, peer, threads, got, written>>

\* "none": it does not exist yet; "queued": in the accept queue; "reset": in
\* the accept queue, but lwIP has freed it; "freed": Lua has accepted it after
\* that; "gone": it is freed, or no longer this socket's; "closed": close() was
\* called, too.
PcbStates == {"none", "new", "connecting", "queued", "reset", "open", "freed",
              "gone", "closed"}

Gone == pcb \in {"gone", "closed"}

\* A thread outside of the calls that are modelled.  timed: the call has a
\* deadline; late: the loop function was called after it; len, index and
\* offset are locals; res: its last call was a recv() that returned "", or a
\* send() that returned true (results that the properties tell apart).
Lua == [pc |-> "lua", call |-> "none", res |-> "none", timed |-> FALSE,
        late |-> FALSE, len |-> 0, msg |-> <<>>, index |-> 1, offset |-> 0]

Set(ev) == IF ev = "disabled" THEN ev ELSE "pending"

NoListener == [err |-> "CLSD", queue |-> <<>>, ev |-> "disabled"]

\* mod_new(); the listener of a server is listening when a peer connects.
Init ==
    /\ \/ listener = NoListener /\ pcb = "new" /\ arg = "TCP"
       \/ /\ listener = [NoListener EXCEPT !.err = "OK", !.ev = "enabled"]
          /\ pcb = "none" /\ arg = "NULL"
    /\ tcp = [err |-> "OK", connected |-> FALSE, rx_closed |-> FALSE,
              recv_head |-> <<>>, recv_off |-> 0]
    /\ recv_event = "disabled" /\ send_event = "disabled"
    /\ peer = [sent |-> 0, told |-> 0, fin |-> "no", wnd |-> Window,
               room |-> SndBuf, rx |-> TRUE, tx |-> TRUE]
    /\ acceptor = Lua /\ receiver = Lua /\ sender = Lua
    /\ got = <<>> /\ written = <<>>

\* A loop function has nothing.  It tests under the lock and suspends later;
\* a handler that runs in between does what it does after the suspension.
Suspend(t) == [t EXCEPT !.pc = "suspended"]

NothingThere(t) == IF t.late THEN Lua ELSE Suspend(t)

-----------------------------------------------------------------------------
(* The handlers that lwIP calls. *)

\* handle_accept(): c is the connection that is followed, or another one.
handle_accept(c) ==
    /\ listener.err = "OK"
    /\ listener' = [listener EXCEPT !.queue = Append(@, c), !.ev = Set(@)]
    /\ \/ c = "this" /\ pcb = "none" /\ pcb' = "queued" /\ arg' = "TCP_name"
       \/ c = "other" /\ Len(listener.queue) < MaxQueue /\ UNCHANGED <<pcb, arg>>
    /\ UNCHANGED <<tcp, events, peer, threads, got, written>>

handle_connected ==
    /\ pcb = "connecting" /\ arg = "TCP"
    /\ pcb' = "open"
    /\ tcp' = [tcp EXCEPT !.connected = TRUE]
    /\ recv_event' = Set(recv_event)
    /\ UNCHANGED <<listener, arg, send_event, peer, threads, got, written>>

\* The peer sends n units, if the window permits; lwIP keeps a pbuf that is
\* refused, and offers it again.
PeerSends(n) ==
    /\ pcb \in {"queued", "open"} /\ peer.fin = "no"
    /\ n <= peer.wnd /\ peer.sent + n <= MaxUnits
    /\ peer' = [peer EXCEPT !.sent = @ + n, !.wnd = @ - n]
    /\ UNCHANGED <<listener, pcb, arg, tcp, events, threads, got, written>>

Pbuf(n) == [i \in 1..n |-> [unit |-> peer.told + i, last |-> i = n]]

\* handle_recv() with a pbuf.  One of a connection that is not accepted yet
\* is refused with ERR_MEM.
handle_recv(n) ==
    /\ pcb = "open" /\ arg = "TCP" /\ peer.rx
    /\ peer.told + n <= peer.sent
    /\ peer' = [peer EXCEPT !.told = @ + n]
    /\ tcp' = [tcp EXCEPT !.recv_head = @ \o Pbuf(n)]
    /\ recv_event' = Set(recv_event)
    /\ UNCHANGED <<listener, pcb, arg, send_event, threads, got, written>>

\* The peer closes its side.  lwIP delays a FIN behind data that it has to
\* offer again; but one that handle_recv() refuses by itself, because the
\* connection is not accepted yet, is not offered again.
PeerCloses ==
    /\ pcb \in {"queued", "open"} /\ peer.fin = "no"
    /\ peer' = [peer EXCEPT !.fin = IF pcb = "queued" /\ peer.sent = 0
                                    THEN "lost" ELSE "sent"]
    /\ UNCHANGED <<listener, pcb, arg, tcp, events, threads, got, written>>

\* handle_recv() without a pbuf, after all data.
handle_recv_fin ==
    /\ pcb = "open" /\ arg = "TCP" /\ peer.rx
    /\ peer.fin = "sent" /\ peer.told = peer.sent /\ ~tcp.rx_closed
    /\ tcp' = [tcp EXCEPT !.rx_closed = TRUE]
    /\ recv_event' = Set(recv_event)
    /\ UNCHANGED <<listener, pcb, arg, send_event, peer, threads, got, written>>

\* n units are acknowledged.
handle_sent(n) ==
    /\ pcb = "open" /\ arg = "TCP"
    /\ peer.room + n <= SndBuf
    /\ peer' = [peer EXCEPT !.room = @ + n]
    /\ send_event' = Set(send_event)
    /\ UNCHANGED <<listener, pcb, arg, tcp, recv_event, threads, got, written>>

\* Once a second.
handle_poll ==
    /\ pcb = "open" /\ arg = "TCP"
    /\ send_event # Set(send_event)
    /\ send_event' = Set(send_event)
    /\ UNCHANGED <<listener, pcb, arg, tcp, recv_event, peer, threads, got, written>>

\* Mutant: the sender is not told.
M_TellSender == UNCHANGED send_event

TellSender == send_event' = Set(send_event)

\* The peer resets the connection, or does not answer; lwIP frees the PCB.
\* That of a connection in the accept queue stays there.
handle_err ==
    /\ \/ /\ pcb \in {"connecting", "open"} /\ arg = "TCP"
          /\ tcp' = [tcp EXCEPT !.err = "RST"]
          /\ pcb' = "gone"
          /\ recv_event' = Set(recv_event) /\ TellSender
       \/ /\ pcb = "queued" /\ arg = "TCP_name"
          /\ pcb' = "reset"
          /\ UNCHANGED <<tcp, events>>
    /\ UNCHANGED <<listener, arg, peer, threads, got, written>>

-----------------------------------------------------------------------------
(* accept(). *)

\* The loop function.  The connection that is followed becomes a TCP of its
\* own; from then on the listener is not followed.
accept_loop(t) ==
    /\ \/ /\ listener.err # "OK"
          /\ acceptor' = Lua
          /\ UNCHANGED <<listener, pcb, arg, tcp, events>>
       \/ /\ listener.err = "OK" /\ listener.queue = <<>>
          /\ acceptor' = NothingThere(t)
          /\ UNCHANGED <<listener, pcb, arg, tcp, events>>
       \/ /\ listener.err = "OK" /\ listener.queue # <<>>
          /\ acceptor' = Lua
          /\ IF Head(listener.queue) = "this"
             THEN /\ pcb' = IF pcb = "reset" THEN "freed" ELSE "open"
                  /\ arg' = "TCP"
                  /\ tcp' = [tcp EXCEPT !.connected = TRUE]
                  /\ recv_event' = "enabled" /\ send_event' = "enabled"
                  /\ listener' = NoListener
             ELSE /\ listener' = [listener EXCEPT !.queue = Tail(@)]
                  /\ UNCHANGED <<pcb, arg, tcp, events>>
    /\ UNCHANGED <<peer, receiver, sender, got, written>>

TCP_accept ==
    /\ listener.err = "OK" /\ acceptor.pc = "lua"
    /\ \E timed \in BOOLEAN : accept_loop([Lua EXCEPT !.call = "accept",
                                                              !.timed = timed])

-----------------------------------------------------------------------------
(* connect() and recv(). *)

connect_loop(t) ==
    /\ receiver' = IF tcp.err # "OK" THEN Lua
                   ELSE IF tcp.connected THEN Lua
                   ELSE NothingThere(t)
    /\ UNCHANGED <<listener, pcb, arg, tcp, send_event, peer, acceptor, sender,
                   got, written>>

\* Both events are enabled first, and stay so if the socket has an error
\* before tcp_connect().
TCP_connect ==
    /\ pcb \notin {"none", "queued", "reset"} /\ receiver.pc = "lua"
    /\ IF {recv_event, send_event} # {"disabled"}
       THEN receiver' = Lua /\ UNCHANGED <<pcb, events>>
       ELSE IF tcp.err # "OK"
       THEN receiver' = Lua /\ recv_event' = "enabled"
            /\ send_event' = "enabled" /\ UNCHANGED pcb
       ELSE \/ receiver' = Lua /\ UNCHANGED <<pcb, events>>
            \/ /\ pcb = "new" /\ pcb' = "connecting"
               /\ recv_event' = "enabled" /\ send_event' = "enabled"
               /\ \E timed \in BOOLEAN : receiver' =
                    [Lua EXCEPT !.call = "connect", !.timed = timed,
                                        !.pc = "suspended"]
    /\ UNCHANGED <<listener, arg, tcp, peer, acceptor, sender, got, written>>

\* The units of the chain that are not read yet.
Unread == [i \in 1..(Len(tcp.recv_head) - tcp.recv_off) |->
              tcp.recv_head[tcp.recv_off + i].unit]

\* Reading n units frees the pbufs that are read to their end, and leaves an
\* offset into the next one.
AfterReading(n) ==
    LET end == tcp.recv_off + n
        ends == {k \in DOMAIN tcp.recv_head : k <= end /\ tcp.recv_head[k].last}
        freed == Max(ends \cup {0})
    IN [tcp EXCEPT !.recv_head = SubSeq(@, freed + 1, Len(@)),
                   !.recv_off = end - freed]

\* Mutants: units are given back when a pbuf is read to its end; the offset
\* into the pbuf is given back again.
M_Recved(n) == IF Len(AfterReading(n).recv_head) < Len(tcp.recv_head)
               THEN [peer EXCEPT !.wnd = @ + n] ELSE peer

\* tcp_recved() opens the window for n units.
Recved(n) == [peer EXCEPT !.wnd = @ + n]

Outcome(t, n) == IF n = 0 /\ tcp.rx_closed THEN [Lua EXCEPT !.res = "eof"]
                 ELSE IF n > 0 \/ tcp.err # "OK" THEN Lua ELSE NothingThere(t)

\* The loop function: data first, then the end of the stream, then errors.
recv_loop(t) ==
    LET n == IF t.len < Len(Unread) THEN t.len ELSE Len(Unread)
    IN /\ got' = got \o SubSeq(Unread, 1, n)
       /\ tcp' = AfterReading(n)
       /\ send_event' = IF Len(tcp'.recv_head) < Len(tcp.recv_head)
                        THEN Set(send_event) ELSE send_event
       /\ peer' = IF ~Gone THEN Recved(n) ELSE peer
       /\ receiver' = Outcome(t, n)
       /\ UNCHANGED <<listener, pcb, arg, acceptor, sender, written>>

TCP_recv ==
    /\ pcb \notin {"none", "queued", "reset"} /\ receiver.pc = "lua"
    /\ \E len \in 1..MaxUnits, timed \in BOOLEAN :
          recv_loop([Lua EXCEPT !.call = "recv", !.len = len,
                                        !.timed = timed])
    /\ UNCHANGED recv_event

-----------------------------------------------------------------------------
(* send(). *)

TCP_send ==
    /\ pcb \notin {"none", "queued", "reset"} /\ sender.pc = "lua"
    /\ \E msg \in Messages, timed \in BOOLEAN : sender' =
          [Lua EXCEPT !.pc = "loop", !.call = "send", !.msg = msg,
                              !.timed = timed]
    /\ written' = <<>>
    /\ UNCHANGED <<listener, pcb, arg, tcp, events, peer, acceptor, receiver, got>>

Advance(t, n) == [t EXCEPT !.offset = @ + n]

\* send() returns.
Return(t, res) == [Lua EXCEPT !.msg = t.msg, !.res = res]

\* One turn of the inner loop: tcp_write() takes what there is room for, or
\* has no room, or fails.  The size is capped by that of the string, not by
\* what is left of it, and so are the units that are copied.
Write(t) ==
    LET size == t.msg[t.index]
        sz == IF peer.room < size THEN peer.room ELSE size
    IN \/ /\ tcp.err # "OK"
          /\ sender' = Return(t, "none") /\ UNCHANGED <<peer, written>>
       \/ /\ tcp.err = "OK" /\ (pcb # "open" \/ ~peer.tx) /\ sz > 0
          /\ sender' = Return(t, "none") /\ UNCHANGED <<peer, written>>
       \/ /\ tcp.err = "OK" /\ (sz > 0 => pcb = "open" /\ peer.tx)
          /\ sender' = Suspend(t) /\ UNCHANGED <<peer, written>>
       \/ /\ tcp.err = "OK" /\ pcb = "open" /\ peer.tx /\ sz > 0
          /\ sender' = Advance(t, sz)
          /\ written' = written \o [i \in 1..sz |-> <<t.index, t.offset + i>>]
          /\ peer' = [peer EXCEPT !.room = @ - sz]

\* send_loop(), which does not look at timeout.
send_loop ==
    LET t == sender
    IN /\ t.pc = "loop"
       /\ IF t.index > Len(t.msg)
          THEN /\ sender' = Return(t, IF tcp.err # "OK" THEN "none" ELSE "ok")
               /\ UNCHANGED <<peer, written>>
          ELSE IF t.offset < t.msg[t.index] THEN Write(t)
          ELSE /\ sender' = [t EXCEPT !.index = @ + 1, !.offset = 0]
               /\ UNCHANGED <<peer, written>>
       /\ UNCHANGED <<listener, pcb, arg, tcp, events, acceptor, receiver, got>>

-----------------------------------------------------------------------------
(* Calls of other threads. *)

\* The calls that use the PCB do so if this holds, and else return err:
\* prio(), local_ip() and the other accessors, bind(), connect(), shutdown().
UsesPcb == tcp.err = "OK"

TCP_shutdown(rx, tx) ==
    /\ pcb \notin {"none", "queued", "reset"} /\ UsesPcb
    /\ IF rx /\ tx
       THEN /\ arg' = "NULL" /\ pcb' = "gone"
            /\ tcp' = [tcp EXCEPT !.err = "CLSD"]
            /\ UNCHANGED peer
       ELSE /\ peer' = [peer EXCEPT !.rx = @ /\ ~rx,
                                    !.tx = @ /\ ~(tx /\ pcb = "open")]
            /\ UNCHANGED <<arg, pcb, tcp>>
    /\ UNCHANGED <<listener, events, threads, got, written>>

\* err is set by the first of an error, shutdown() and close().
Err == IF UsesPcb THEN "CLSD" ELSE tcp.err

\* close() of the connection.  The threads that wait are not resumed.
TCP_close ==
    /\ pcb \notin {"none", "queued", "reset"}
    /\ pcb' = "closed" /\ arg' = "NULL"
    /\ tcp' = [tcp EXCEPT !.err = Err, !.recv_head = <<>>]
    /\ recv_event' = "disabled" /\ send_event' = "disabled"
    /\ UNCHANGED <<listener, peer, threads, got, written>>

\* close() of the listener: the connections of the queue are aborted, the
\* one that was reset, too.
TCP_close_listener ==
    /\ listener.err = "OK"
    /\ listener' = NoListener
    /\ IF pcb \in {"queued", "reset"} THEN pcb' = "none" /\ arg' = "NULL"
                                       ELSE UNCHANGED <<pcb, arg>>
    /\ UNCHANGED <<tcp, events, peer, threads, got, written>>

-----------------------------------------------------------------------------
(* Events, deadlines and the threads that wait, as mlua_event_wait() does. *)

Ready(t) == IF t.pc = "suspended" THEN [t EXCEPT !.pc = "ready"] ELSE t

DispatchAccept ==
    /\ listener.ev = "pending"
    /\ listener' = [listener EXCEPT !.ev = "enabled"]
    /\ acceptor' = Ready(acceptor)
    /\ UNCHANGED <<pcb, arg, tcp, events, peer, receiver, sender, got, written>>

DispatchRecv ==
    /\ recv_event = "pending"
    /\ recv_event' = "enabled"
    /\ receiver' = Ready(receiver)
    /\ UNCHANGED <<listener, pcb, arg, tcp, send_event, peer, acceptor, sender,
                   got, written>>

DispatchSend ==
    /\ send_event = "pending"
    /\ send_event' = "enabled"
    /\ sender' = Ready(sender)
    /\ UNCHANGED <<listener, pcb, arg, tcp, recv_event, peer, acceptor, receiver,
                   got, written>>

\* The deadline is reached, before the thread runs again.
Expires(t, u) == t.timed /\ ~t.late /\ t.pc \in {"suspended", "ready"}
                 /\ u = [Ready(t) EXCEPT !.late = TRUE]

\* send() gives its deadline as an index from the top of the stack, where
\* mlua_event_wait_1() has pushed the mask of events by the time that
\* mlua_thread_suspend() looks it up: the timer of the thread is 0, which is
\* a time in the past, or one in the future.
Timer ==
    /\ \/ Expires(acceptor, acceptor') /\ UNCHANGED <<receiver, sender>>
       \/ Expires(receiver, receiver') /\ UNCHANGED <<acceptor, sender>>
       \/ sender.pc = "ready" /\ Expires(sender, sender')
          /\ UNCHANGED <<acceptor, receiver>>
       \/ sender.timed /\ sender.pc = "suspended" /\ sender' = Ready(sender)
          /\ UNCHANGED <<acceptor, receiver>>
    /\ UNCHANGED <<listener, pcb, arg, tcp, events, peer, got, written>>

\* A thread that was resumed calls its loop function again.
RunAcceptor == acceptor.pc = "ready" /\ accept_loop(acceptor)

RunReceiver ==
    /\ receiver.pc = "ready"
    /\ \/ receiver.call = "recv" /\ recv_loop(receiver)
       \/ receiver.call = "connect" /\ connect_loop(receiver)
    /\ UNCHANGED recv_event

RunSender ==
    /\ sender.pc = "ready"
    /\ sender' = [sender EXCEPT !.pc = "loop"]
    /\ UNCHANGED <<listener, pcb, arg, tcp, events, peer, acceptor, receiver,
                   got, written>>

\* Other threads run only when send_loop() does not.
OtherRuns == sender.pc # "loop"

Next ==
    \/ \E c \in {"this", "other"} : handle_accept(c)
    \/ handle_connected
    \/ \E n \in 1..MaxUnits : PeerSends(n)
    \/ \E n \in 1..MaxPbuf : handle_recv(n)
    \/ PeerCloses
    \/ handle_recv_fin
    \/ \E n \in 1..SndBuf : handle_sent(n)
    \/ handle_poll
    \/ handle_err
    \/ send_loop
    \/ OtherRuns /\ TCP_accept
    \/ OtherRuns /\ TCP_connect
    \/ OtherRuns /\ TCP_recv
    \/ OtherRuns /\ TCP_send
    \/ \E rx, tx \in BOOLEAN : OtherRuns /\ TCP_shutdown(rx, tx)
    \/ OtherRuns /\ TCP_close
    \/ OtherRuns /\ TCP_close_listener
    \/ OtherRuns /\ DispatchAccept
    \/ OtherRuns /\ DispatchRecv
    \/ OtherRuns /\ DispatchSend
    \/ Timer
    \/ OtherRuns /\ RunAcceptor
    \/ OtherRuns /\ RunReceiver
    \/ OtherRuns /\ RunSender

Spec == Init /\ [][Next]_vars

\* The peer acknowledges what is sent to it, lwIP polls, tcp_write() does not
\* fail for lack of memory for ever, and events and threads get their turn.
Fairness ==
    /\ WF_vars(\E n \in 1..SndBuf : handle_sent(n))
    /\ WF_vars(handle_poll)
    /\ WF_vars(OtherRuns /\ DispatchSend)
    /\ WF_vars(OtherRuns /\ RunSender)
    /\ WF_vars(send_loop)
    /\ SF_vars(send_loop /\ Len(written') > Len(written))

-----------------------------------------------------------------------------
(* Properties. *)

Events == {"disabled", "enabled", "pending"}

\* Every variable has its type.
TypeOK ==
    /\ listener.err \in {"OK", "CLSD"} /\ listener.ev \in Events
    /\ Len(listener.queue) <= MaxQueue + 1
    /\ pcb \in PcbStates
    /\ arg \in {"NULL", "TCP_name", "TCP"}
    /\ tcp.err \in {"OK", "RST", "CLSD"}
    /\ recv_event \in Events /\ send_event \in Events
    /\ peer.wnd \in 0..Window /\ peer.room \in 0..SndBuf
    /\ \A t \in {acceptor, receiver, sender} :
          t.pc \in {"lua", "loop", "suspended", "ready"}

\* The stream: what recv() has returned and what it has still to return are
\* the units that lwIP has handed over, in order, each once, however they
\* were cut into pbufs and whatever the lengths asked for.
RecvInOrder ==
    LET stream == got \o Unread
    IN /\ stream = [i \in 1..Len(stream) |-> i]
       /\ pcb # "closed" => Len(stream) = peer.told

\* Every unit that is read is given back to the receive window, once: a peer
\* that may not send has sent Window units that nobody has read.
WindowReturned ==
    pcb = "open" => peer.wnd + (peer.sent - peer.told) + Len(Unread) = Window

\* recv() returns "" after all data, on a socket that is not closed.
EofIsTheEnd ==
    receiver.res = "eof" /\ pcb # "closed" => Len(got) = peer.sent

\* No thread is suspended while what it waits for is there and nothing is
\* going to tell it: the loop functions test and suspend without the lock,
\* and handlers run in between.  A close() or shutdown() of another thread
\* tells nobody; nor does the end of a connection that was reset before it
\* was accepted, whose err stays OK.
WaitersAreTold ==
    /\ (acceptor.pc = "suspended" /\ listener.queue # <<>>)
          => listener.ev = "pending"
    /\ ( /\ receiver.pc = "suspended" /\ pcb # "closed"
         /\ \/ tcp.err = "RST"
            \/ receiver.call = "recv" /\ (Unread # <<>> \/ tcp.rx_closed)
            \/ receiver.call = "connect" /\ tcp.connected)
          => recv_event = "pending"
    /\ (sender.pc = "suspended" /\ pcb # "closed" /\ tcp.err = "RST")
          => send_event = "pending"

\* Units of the strings that were passed to send(), and their order.
UnitsOf(msg) == UNION {{k} \X (1..msg[k]) : k \in DOMAIN msg}

Before(u, v) == u[1] < v[1] \/ (u[1] = v[1] /\ u[2] < v[2])

\* send() writes units of its strings in order, each once, leaving out none,
\* and all of them by the time it returns true, however much room there was
\* in each round.  Units past the end of a string, which Write() may add,
\* are between those of this string and of the next.
SendInOrder ==
    sender.msg # <<>> =>
        /\ \A i, j \in DOMAIN written : i < j => Before(written[i], written[j])
        /\ \A i \in DOMAIN written : written[i][1] \in DOMAIN sender.msg
        /\ \A u \in UnitsOf(sender.msg) :
              \/ \E i \in DOMAIN written : written[i] = u
              \/ /\ sender.res # "ok"
                 /\ \A i \in DOMAIN written : Before(written[i], u)

\* A socket has no error as long as it has a PCB, and the calls use the PCB
\* if there is no error.  That PCB is one that lwIP has not freed, but for a
\* connection that was reset in the accept queue: its PCB is in use from
\* there, and by the socket that accept() makes of it, until close() or a
\* shutdown() of both directions.
PcbMatchesErr ==
    LET ofLwip == pcb \in {"new", "connecting", "queued", "open"}
        freedInQueue == pcb \in {"reset", "freed"}
    IN  pcb # "none" => /\ UsesPcb <=> ofLwip \/ freedInQueue
                        /\ freedInQueue => ~tcp.rx_closed /\ peer.told = 0

\* accept(), connect() and recv() do not suspend after their deadline.
DeadlinesHold ==
    \A t \in {acceptor, receiver} : t.late => t.pc # "suspended"

\* docs/lwip.md: of send(), "The deadline is an absolute time".
SendDeadlineHolds == sender.late => sender.pc # "suspended"

=============================================================================
