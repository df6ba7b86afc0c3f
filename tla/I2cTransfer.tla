----------------------------- MODULE I2cTransfer -----------------------------
(***************************************************************************)
(* write_blocking() and read_blocking() of an I2C master with its event    *)
(* enabled (lib/pico/hardware.i2c.c): loop functions that fill the TX FIFO *)
(* and empty the RX FIFO of the peripheral, and suspend in                 *)
(* mlua_event_wait() while there is nothing to do.                         *)
(*                                                                         *)
(* The peripheral puts the commands of the TX FIFO on the bus one after    *)
(* the other.  When a device does not acknowledge one, or the arbitration  *)
(* is lost, it records the reason, flushes both FIFOs, keeps them empty    *)
(* until clr_tx_abrt is read, and ends the transfer with a STOP condition. *)
(* Disabling it flushes both FIFOs.                                        *)
(***************************************************************************)
EXTENDS Naturals, Sequences

CONSTANTS
    FifoDepth,     \* the size of the FIFOs
    MaxLen         \* bound on the length of a transfer

VARIABLES
    txf,       \* TX FIFO: commands [stop |-> BOOLEAN, read |-> BOOLEAN]
    rxf,       \* RX FIFO: the number of bytes in it
    abrt,      \* tx_abrt_source: "no", "nack" or "lost"
    stop,      \* raw STOP_DET
    mask,      \* intr_mask
    queued,    \* the event of the peripheral is pending
    pc,        \* "lua", "start", "loop", "stop": in the loop function, before
               \* the STOP condition; "suspended", "ready"
    op,        \* the arguments: [write, len, nostop], and what is kept on the
               \* stack: offset, wcnt and abort_reason
    deadline,  \* "none", "future" or "reached"
    result,    \* what the last call has returned: "count", "error" or "timeout",
               \* and the count
    acked,     \* auxiliary: the bytes of this call acknowledged, or sent, by
               \* the device
    clean      \* auxiliary: the call has found the peripheral idle

hw == <<txf, rxf, abrt, stop>>
irq == <<mask, queued>>
vars == <<txf, rxf, abrt, stop, mask, queued, pc, op, deadline, result, acked,
          clean>>

Idle == txf = <<>> /\ rxf = 0 /\ abrt = "no" /\ ~stop

Init ==
    /\ txf = <<>> /\ rxf = 0 /\ abrt = "no" /\ stop = FALSE
    /\ mask = {} /\ queued = FALSE
    /\ pc = "lua" /\ deadline = "none" /\ result = <<"count", 0>> /\ acked = 0
    /\ op = [write |-> TRUE, len |-> 0, nostop |-> FALSE, offset |-> 0,
             wcnt |-> 0, abort |-> "no"]
    /\ clean = TRUE

-----------------------------------------------------------------------------
(* The bus and the interrupt handler. *)

\* The command at the head of the TX FIFO is carried out; a read waits for
\* room in the RX FIFO.
Bus ==
    /\ txf # <<>> /\ abrt = "no"
    /\ LET c == Head(txf) IN
           /\ c.read => rxf < FifoDepth
           /\ rxf' = IF c.read THEN rxf + 1 ELSE rxf
           /\ stop' = (stop \/ c.stop)
    /\ txf' = Tail(txf)
    /\ acked' = acked + 1
    /\ UNCHANGED <<abrt, irq, pc, op, deadline, result, clean>>

Abort ==
    /\ txf # <<>> /\ abrt = "no"
    /\ abrt' \in {"nack", "lost"}
    /\ txf' = <<>> /\ rxf' = 0 /\ stop' = TRUE
    /\ UNCHANGED <<irq, pc, op, deadline, result, acked, clean>>

Firing == \/ "TX_EMPTY" \in mask /\ txf = <<>>
          \/ "RX_FULL" \in mask /\ rxf > 0
          \/ "TX_ABRT" \in mask /\ abrt # "no"
          \/ "STOP_DET" \in mask /\ stop

\* Mutant: the sources stay unmasked, the event is not set.
M_handle_i2c_irq ==
    /\ Firing
    /\ mask' = {}
    /\ UNCHANGED <<hw, queued, pc, op, deadline, result, acked, clean>>

handle_i2c_irq ==
    /\ Firing
    /\ mask' = {}
    /\ queued' = TRUE
    /\ UNCHANGED <<hw, pc, op, deadline, result, acked, clean>>

-----------------------------------------------------------------------------
(* The loop functions.  Steps of the bus come between any two of theirs. *)

Thread == UNCHANGED <<queued, deadline, clean>>

I2C_blocking(write) ==
    /\ pc = "lua" /\ ~Firing
    /\ \E n \in 1..MaxLen, nostop \in BOOLEAN :
           op' = [write |-> write, len |-> n, nostop |-> nostop, offset |-> 0,
                  wcnt |-> 0, abort |-> "no"]
    /\ deadline' \in {"none", "future"}
    /\ clean' = Idle
    /\ pc' = "start"
    /\ acked' = 0
    /\ UNCHANGED <<hw, irq, result>>

I2C_write_blocking == I2C_blocking(TRUE)

I2C_read_blocking == I2C_blocking(FALSE)

\* The peripheral is disabled, addresses the device, and is enabled again.
SetAddress ==
    /\ pc = "start" /\ ~Firing
    /\ txf' = <<>> /\ rxf' = 0
    /\ pc' = "loop"
    /\ Thread /\ UNCHANGED <<abrt, stop, mask, op, result, acked>>

\* Reading clr_tx_abrt clears the source, and lets go of the FIFOs.
TakeAbort == abrt # "no" /\ abrt' = "no"

Suspend(sources) == mask' = mask \cup sources /\ pc' = "suspended"

Return(r) == result' = r /\ pc' = "lua"

\* The result of a transfer, aborted or not.
Count(abort) ==
    IF abort = "nack" THEN <<"error", 0>> ELSE <<"count", op.offset>>

Full == Len(txf) >= FifoDepth

\* write_loop(): "Send data".
Send ==
    /\ op.write /\ op.offset < op.len /\ op.abort = "no"
    /\ \/ /\ TakeAbort /\ op' = [op EXCEPT !.abort = abrt]
          /\ pc' = "stop" /\ UNCHANGED <<txf, mask>>
       \/ /\ abrt = "no" /\ Full
          /\ Suspend({"TX_EMPTY", "TX_ABRT"}) /\ UNCHANGED <<txf, abrt, op>>
       \/ /\ abrt = "no" /\ ~Full
          /\ txf' = Append(txf, [read |-> FALSE,
                        stop |-> op.offset = op.len - 1 /\ ~op.nostop])
          /\ op' = [op EXCEPT !.offset = @ + 1]
          /\ UNCHANGED <<abrt, mask, pc>>
    /\ UNCHANGED <<rxf, stop, result>>

Sent ==
    /\ op.write /\ op.offset = op.len
    /\ pc' = "stop"
    /\ UNCHANGED <<hw, mask, op, result>>

\* Mutant: the call does not wait for the STOP condition.
M_AwaitsStop == FALSE

AwaitsStop == op.abort # "no" \/ ~op.nostop

\* write_loop(): "Wait for the STOP condition".
Stop ==
    /\ pc = "stop" /\ ~Firing
    /\ IF AwaitsStop /\ ~stop
       THEN Suspend({"STOP_DET"}) /\ UNCHANGED <<stop, result>>
       ELSE /\ stop' = (stop /\ ~AwaitsStop)
            /\ Return(Count(op.abort)) /\ UNCHANGED mask
    /\ Thread /\ UNCHANGED <<txf, rxf, abrt, op, acked>>

Least(a, b) == IF a < b THEN a ELSE b

rend == Least(op.offset + rxf, op.len)

\* The read commands are given all together.
wend == Least(op.wcnt + (FifoDepth - Len(txf)), op.len)

\* read_loop(): "Receive data".
Receive ==
    /\ ~op.write /\ op.offset < op.len
    /\ \/ TakeAbort /\ Return(Count(abrt)) /\ UNCHANGED <<txf, rxf, mask, op>>
       \/ /\ abrt = "no" /\ op.offset >= rend /\ op.wcnt >= wend
          /\ Suspend((IF op.wcnt < op.len THEN {"TX_EMPTY"} ELSE {})
                     \cup {"RX_FULL", "TX_ABRT"})
          /\ UNCHANGED <<txf, rxf, abrt, op, result>>
       \/ /\ abrt = "no" /\ ~(op.offset >= rend /\ op.wcnt >= wend)
          /\ op' = [op EXCEPT !.offset = rend, !.wcnt = wend]
          /\ rxf' = rxf - (rend - op.offset)
          /\ txf' = txf \o [i \in 1..(wend - op.wcnt) |-> [read |-> TRUE,
                        stop |-> op.wcnt + i = op.len /\ ~op.nostop]]
          /\ UNCHANGED <<abrt, mask, pc, result>>
    /\ UNCHANGED stop

\* A read does not wait for the STOP condition, and leaves it to be seen.
Received ==
    /\ ~op.write /\ op.offset = op.len
    /\ Return(Count("no"))
    /\ UNCHANGED <<hw, mask, op>>

write_loop == Send \/ Sent

read_loop == Receive \/ Received

Loop ==
    /\ pc = "loop" /\ ~Firing
    /\ write_loop \/ read_loop
    /\ Thread /\ UNCHANGED acked

-----------------------------------------------------------------------------
(* The scheduler. *)

Dispatch ==
    /\ queued /\ pc \in {"lua", "suspended", "ready"} /\ ~Firing
    /\ queued' = FALSE
    /\ pc' = IF pc = "suspended" THEN "ready" ELSE pc
    /\ UNCHANGED <<hw, mask, op, deadline, result, acked, clean>>

Timer ==
    /\ deadline = "future" /\ pc \in {"suspended", "ready"} /\ ~Firing
    /\ deadline' = "reached" /\ pc' = "ready"
    /\ UNCHANGED <<hw, irq, op, result, acked, clean>>

\* mlua_event_wait_2(): a call that has timed out leaves the peripheral as
\* it is.
Run ==
    /\ pc = "ready" /\ ~Firing
    /\ IF deadline = "reached" THEN Return(<<"timeout", 0>>)
       ELSE /\ pc' = IF op.write /\ (op.offset = op.len \/ op.abort # "no")
                     THEN "stop" ELSE "loop"
            /\ UNCHANGED result
    /\ Thread /\ UNCHANGED <<hw, mask, op, acked>>

Next ==
    \/ Bus \/ Abort \/ handle_i2c_irq
    \/ I2C_write_blocking \/ I2C_read_blocking \/ SetAddress
    \/ Loop \/ Stop \/ Dispatch \/ Timer \/ Run

Fairness ==
    /\ WF_vars(Bus) /\ WF_vars(handle_i2c_irq) /\ WF_vars(SetAddress)
    /\ WF_vars(Loop) /\ WF_vars(Stop) /\ WF_vars(Dispatch) /\ WF_vars(Run)

Spec == Init /\ [][Next]_vars /\ Fairness

-----------------------------------------------------------------------------
(* Properties. *)

\* A call that has found the peripheral idle, and was not aborted, returns
\* the number of bytes transferred, and only when they are: a write with a
\* STOP condition waits for it, and a read takes each byte once.
CountHolds ==
    pc # "lua" /\ pc' = "lua" /\ clean /\ op.abort = "no" /\ abrt = "no"
        /\ (op.write => ~op.nostop)
    => result' \in {<<"count", acked>>, <<"timeout", 0>>}

\* docs/hardware.md:353, "If the write fails, returns `fail` and an error
\* code": a write to a device that does not acknowledge it does not return
\* the number of bytes.
FailedWriteFails ==
    [][pc = "stop" /\ pc' = "lua" /\ op.write /\ clean /\ abrt = "nack"
       => result'[1] = "error"]_vars

=============================================================================
