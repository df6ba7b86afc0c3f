------------------------------ MODULE I2cSlave -------------------------------
(***************************************************************************)
(* An I2C slave: run() of pico.i2c_slave (lib/pico/pico.i2c_slave.c) with  *)
(* the interrupt handler of lib/pico/hardware.i2c.c.  A master writes      *)
(* bytes and asks for bytes; while the slave owes it something the bus     *)
(* waits (clock stretching).  The handler thread is called once when it    *)
(* starts, then each time the event of the peripheral resumes it.  The     *)
(* callbacks return without suspending; AlarmCallback is about those that  *)
(* do.                                                                     *)
(***************************************************************************)
EXTENDS Naturals

CONSTANT RxDepth     \* the size of the RX FIFO

VARIABLES
    level,     \* the bytes in the RX FIFO, RX_FULL is raw while there are any
    request,   \* raw RD_REQ: the master waits for a byte
    mask,      \* intr_mask: the sources that interrupt the core
    queued,    \* the event of the peripheral is pending
    pc         \* where the handler thread is: "none" when there is none

vars == <<level, request, mask, queued, pc>>

Locations == {"none", "wait", "receive", "on_receive", "requests", "on_request"}

\* After a reset all sources interrupt, TX_EMPTY at once, and are masked.
Init ==
    /\ level = 0 /\ request = FALSE
    /\ mask = {} /\ queued = FALSE
    /\ pc = "none"

-----------------------------------------------------------------------------
(* The bus. *)

MasterWrites ==
    /\ pc # "none" /\ ~request /\ level < RxDepth
    /\ level' = level + 1
    /\ UNCHANGED <<request, mask, queued, pc>>

MasterReads ==
    /\ pc # "none" /\ ~request
    /\ request' = TRUE
    /\ UNCHANGED <<level, mask, queued, pc>>

Firing == \/ "RX_FULL" \in mask /\ level > 0
          \/ "RD_REQ" \in mask /\ request

\* The interrupt is asserted as long as its source is: it is masked.
handle_i2c_irq ==
    /\ Firing
    /\ mask' = {}
    /\ queued' = TRUE
    /\ UNCHANGED <<level, request, pc>>

-----------------------------------------------------------------------------
(* The handler thread. *)

\* The peripheral becomes a slave, and the handler is called a first time.
mod_run ==
    /\ pc = "none" /\ ~queued
    /\ pc' = "receive"
    /\ UNCHANGED <<level, request, mask, queued>>

Dispatch ==
    /\ queued /\ pc \in {"none", "wait"} /\ ~Firing
    /\ queued' = FALSE
    /\ pc' = IF pc = "wait" THEN "receive" ELSE pc
    /\ UNCHANGED <<level, request, mask>>

Unmask(sources) == mask' = mask \cup sources

\* handle_i2c_slave_event_1(), byte by byte.
Receive ==
    /\ pc = "receive" /\ ~Firing
    /\ IF level > 0
       THEN level' = level - 1 /\ pc' = "on_receive" /\ UNCHANGED mask
       ELSE pc' = "requests" /\ Unmask({"RX_FULL"}) /\ UNCHANGED level
    /\ UNCHANGED <<request, queued>>

CallbackReturns ==
    /\ ~Firing
    /\ \/ pc = "on_receive" /\ pc' = "receive"
       \/ pc = "on_request" /\ pc' = "wait"
    /\ UNCHANGED <<level, request, mask, queued>>

\* RD_REQ is unmasked only if there is a request at this time; then
\* on_request() writes the byte.
Requests ==
    /\ pc = "requests" /\ ~Firing
    /\ IF request
       THEN request' = FALSE /\ Unmask({"RD_REQ"}) /\ pc' = "on_request"
       ELSE pc' = "wait" /\ UNCHANGED <<request, mask>>
    /\ UNCHANGED <<level, queued>>

\* The thread is killed: i2c_slave_handler_done() disables the slave, which
\* empties the FIFO.
i2c_slave_handler_done ==
    /\ pc = "wait" /\ ~Firing
    /\ pc' = "none" /\ mask' = {} /\ level' = 0 /\ request' = FALSE
    /\ UNCHANGED queued

Next ==
    \/ MasterWrites \/ MasterReads \/ handle_i2c_irq \/ mod_run \/ Dispatch
    \/ Receive \/ CallbackReturns \/ Requests \/ i2c_slave_handler_done

\* Interrupts are taken and the scheduler runs what can run.  The master
\* does what it likes.
Fairness ==
    /\ WF_vars(handle_i2c_irq) /\ WF_vars(Dispatch)
    /\ WF_vars(Receive) /\ WF_vars(CallbackReturns) /\ WF_vars(Requests)

Spec == Init /\ [][Next]_vars /\ Fairness

-----------------------------------------------------------------------------
(* Properties. *)

\* docs/pico.md:277-278, "on_request(i2c): Data is requested from the slave":
\* a request of the master is answered.
RequestsAreAnswered == request ~> ~request
=============================================================================
