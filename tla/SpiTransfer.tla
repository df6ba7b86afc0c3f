----------------------------- MODULE SpiTransfer -----------------------------
(***************************************************************************)
(* write_read_blocking(), write_blocking() and read_blocking() of          *)
(* hardware.spi (lib/pico/hardware.spi.c): each unit written shifts one    *)
(* in, so that both FIFOs move together.  With the event enabled the loop  *)
(* function suspends when it can neither write nor read; without it, the   *)
(* thread polls.  The device answers the i-th unit with i; a write-only    *)
(* transfer drops the answers.                                             *)
(***************************************************************************)
EXTENDS Naturals, Sequences

CONSTANTS
    FifoDepth,     \* the size of the FIFOs, WR_FIFO_DEPTH
    MaxUnits       \* bound on the length of a transfer

VARIABLES
    txf, wire, rxf,   \* the TX FIFO, the unit that is shifted, the RX FIFO
    imsc,      \* the sources that interrupt: "TX", "RX" (with its timeout)
    event,     \* "disabled", "idle", "pending"
    pc,        \* "lua", "feed", "drain", "check", "suspended", "ready"
    read, len, \* the arguments of the call
    tx, rx,    \* the units it still has to write, to read
    polls,     \* write_read_blocking(): the event was not enabled
    moved,     \* something was done in this round of the loop
    got        \* the units read

hw == <<txf, wire, rxf>>
call == <<read, len, polls>>
vars == <<txf, wire, rxf, imsc, event, pc, read, len, tx, rx, polls, moved,
          got>>

Init ==
    /\ txf = <<>> /\ wire = <<>> /\ rxf = <<>>
    /\ imsc = {} /\ event = "disabled" /\ pc = "lua"
    /\ read = FALSE /\ len = 0 /\ tx = 0 /\ rx = 0 /\ polls = FALSE
    /\ moved = FALSE /\ got = <<>>

-----------------------------------------------------------------------------
(* The peripheral: a unit that finds the RX FIFO full is lost. *)

Shift ==
    /\ wire = <<>> /\ txf # <<>>
    /\ wire' = <<Head(txf)>> /\ txf' = Tail(txf)
    /\ UNCHANGED <<rxf, imsc, event, pc, call, tx, rx, moved, got>>

Shifted ==
    /\ wire # <<>>
    /\ wire' = <<>>
    /\ rxf' = IF Len(rxf) < FifoDepth THEN rxf \o wire ELSE rxf
    /\ UNCHANGED <<txf, imsc, event, pc, call, tx, rx, moved, got>>

\* The TX FIFO is half empty; the RX FIFO is half full, or has something and
\* nothing more is coming.
Firing ==
    /\ event # "disabled"
    /\ \/ "TX" \in imsc /\ 2 * Len(txf) <= FifoDepth
       \/ "RX" \in imsc /\ \/ 2 * Len(rxf) >= FifoDepth
                           \/ rxf # <<>> /\ txf = <<>> /\ wire = <<>>

handle_spi_irq ==
    /\ Firing
    /\ imsc' = {}
    /\ event' = "pending"
    /\ UNCHANGED <<hw, pc, call, tx, rx, moved, got>>

-----------------------------------------------------------------------------

Idle == pc = "lua" /\ ~Firing

SPI_enable_irq ==
    /\ Idle
    /\ event' = IF event = "disabled" THEN "idle" ELSE "disabled"
    /\ UNCHANGED <<hw, imsc, pc, call, tx, rx, moved, got>>

\* The loop function is entered, with a new round of its loop.
Enter == pc' = "feed" /\ moved' = FALSE

write_read ==
    /\ Idle
    /\ read' \in BOOLEAN /\ len' \in 0..MaxUnits
    /\ tx' = len' /\ rx' = len' /\ got' = <<>>
    /\ polls' = (event = "disabled")
    /\ Enter
    /\ UNCHANGED <<hw, imsc, event>>

\* As many units are in flight as the RX FIFO can hold.
MayFeed == tx > 0 /\ rx < tx + FifoDepth

\* "Feed the TX FIFO": all there is room for, or one unit when polling.
Feed ==
    /\ pc = "feed" /\ ~Firing
    /\ IF MayFeed /\ Len(txf) < FifoDepth
       THEN /\ txf' = Append(txf, len - tx + 1) /\ tx' = tx - 1
            /\ moved' = TRUE
            /\ pc' = IF polls THEN "drain" ELSE "feed"
       ELSE pc' = "drain" /\ UNCHANGED <<txf, tx, moved>>
    /\ UNCHANGED <<wire, rxf, imsc, event, call, rx, got>>

\* "Drain the RX FIFO".
Drain ==
    /\ pc = "drain" /\ ~Firing
    /\ IF rx > 0 /\ rxf # <<>>
       THEN /\ rxf' = Tail(rxf) /\ rx' = rx - 1
            /\ got' = IF read THEN Append(got, Head(rxf)) ELSE got
            /\ moved' = TRUE
            /\ pc' = IF polls THEN "check" ELSE "drain"
       ELSE pc' = "check" /\ UNCHANGED <<rxf, rx, got, moved>>
    /\ UNCHANGED <<txf, wire, imsc, event, call, tx>>

\* The interrupts that end the wait.
Awaited == (IF MayFeed THEN {"TX"} ELSE {}) \cup (IF rx > 0 THEN {"RX"} ELSE {})

Return == tx = 0 /\ rx = 0 /\ pc' = "lua" /\ UNCHANGED <<imsc, moved>>

\* "If nothing was done during this round, suspend and wait for an IRQ".
write_read_loop ==
    \/ Return
    \/ /\ tx > 0 \/ rx > 0
       /\ IF moved \/ polls
          THEN pc' = "feed" /\ moved' = FALSE /\ UNCHANGED imsc
          ELSE /\ imsc' = imsc \cup Awaited
               /\ pc' = "suspended"
               /\ UNCHANGED moved

Check ==
    /\ pc = "check" /\ ~Firing
    /\ write_read_loop
    /\ UNCHANGED <<hw, event, call, tx, rx, got>>

-----------------------------------------------------------------------------
(* The scheduler: the event, or another thread, resumes the thread. *)

Dispatch ==
    /\ event = "pending" /\ pc \in {"lua", "suspended", "ready"} /\ ~Firing
    /\ event' = "idle"
    /\ pc' = IF pc = "suspended" THEN "ready" ELSE pc
    /\ UNCHANGED <<hw, imsc, call, tx, rx, moved, got>>

Resume ==
    /\ pc = "suspended" /\ ~Firing
    /\ pc' = "ready"
    /\ UNCHANGED <<hw, imsc, event, call, tx, rx, moved, got>>

Run ==
    /\ pc = "ready" /\ ~Firing
    /\ Enter
    /\ UNCHANGED <<hw, imsc, event, call, tx, rx, got>>

Next ==
    \/ Shift \/ Shifted \/ handle_spi_irq
    \/ SPI_enable_irq \/ write_read \/ Feed \/ Drain \/ Check
    \/ Dispatch \/ Resume \/ Run

Fairness ==
    /\ WF_vars(Shift) /\ WF_vars(Shifted) /\ WF_vars(handle_spi_irq)
    /\ WF_vars(Feed) /\ WF_vars(Drain) /\ WF_vars(Check)
    /\ WF_vars(Dispatch) /\ WF_vars(Run)

Spec == Init /\ [][Next]_vars /\ Fairness

-----------------------------------------------------------------------------
(* Properties. *)

\* A transfer returns the units of the device, each once and in order: none
\* is lost in a full RX FIFO and none is left for the next transfer.
UnitsHold ==
    pc = "check" /\ pc' = "lua"
    => /\ read => got = [i \in 1..len |-> i]
       /\ txf = <<>> /\ wire = <<>> /\ rxf = <<>>

=============================================================================
