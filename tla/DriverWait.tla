----------------------------- MODULE DriverWait -----------------------------
(***************************************************************************)
(* Calls that wait for a hardware FIFO: read_blocking(), write_blocking(), *)
(* getc() and is_readable_within_us() of a UART (lib/pico/hardware.uart.c),*)
(* the pop functions of the inter-core FIFO (pico.multicore.fifo.c), and   *)
(* fifo_get_blocking() of the ADC (hardware.adc.c).                        *)
(*                                                                         *)
(* They all work with an interrupt source that is masked most of the time. *)
(* The loop function that finds the FIFO empty (or full, when writing)     *)
(* unmasks the source before the thread suspends; the interrupt handler    *)
(* masks it again, because the interrupt is asserted as long as the FIFO   *)
(* has something, and sets the event that resumes the thread.              *)
(*                                                                         *)
(* One call is followed at a time, on one FIFO.  The hardware and the      *)
(* handler come between any two steps of the loop functions.  Which thread *)
(* an event resumes is the subject of EventWait.                           *)
(***************************************************************************)
EXTENDS Naturals

CONSTANTS
    Depth,     \* the size of the hardware FIFO
    MaxLen     \* bound on the number of units of a transfer

ASSUME SizesAssumption == Depth \in Nat \ {0} /\ MaxLen \in Nat \ {0}

Calls == {"read_blocking", "write_blocking", "getc",
          "is_readable_within_us", "pop_blocking", "pop_timeout_us",
          "fifo_get_blocking"}

VARIABLES
    call,      \* the call in progress, or made last
    len,       \* its argument: how many units to transfer
    offset,    \* how many it has transferred
    deadline,  \* its deadline: "none", "future" or "reached"
    timeout,   \* the argument of the loop function: is it asked a last time?
    pc,        \* where the thread is, see Locations
    level,     \* what the loop function can take: the units in the RX FIFO,
               \* or, for write_blocking(), the free places of the TX FIFO
    asserted,  \* the hardware asserts the interrupt
    unmasked,  \* the mask bit, or the enable bit in the NVIC, lets it through
    queued     \* the event is pending

callVars == <<call, len, offset, deadline, timeout>>
irqVars == <<asserted, unmasked, queued>>
vars == <<callVars, pc, level, irqVars>>

\* "lua": no call; "loop": in the loop function; "unmask": it found that it
\* must wait; "suspended": in mlua_event_wait(); "ready": resumed.
Locations == {"lua", "loop", "unmask", "suspended", "ready"}

Init ==
    /\ call \in Calls
    /\ len = 0 /\ offset = 0 /\ deadline = "none" /\ timeout = FALSE
    /\ pc = "lua"
    /\ level \in 0..Depth
    /\ asserted = FALSE /\ unmasked = FALSE /\ queued = FALSE

-----------------------------------------------------------------------------
(* The hardware and the interrupt handlers. *)

\* A unit arrives, or leaves the TX FIFO.
Arrive ==
    /\ level < Depth
    /\ level' = level + 1
    /\ UNCHANGED <<callVars, pc, irqVars>>

\* The interrupt is asserted at some time while the FIFO has something: at
\* once, at a threshold, or when nothing has arrived for a while.
Assert ==
    /\ level > 0
    /\ ~asserted
    /\ asserted' = TRUE
    /\ UNCHANGED <<callVars, pc, level, unmasked, queued>>

\* handle_uart_irq(), handle_sio_irq() or handle_adc_irq().
handle_irq ==
    /\ asserted /\ unmasked
    /\ unmasked' = FALSE
    /\ queued' = TRUE
    /\ UNCHANGED <<callVars, pc, level, asserted>>

\* An interrupt that is let through runs before anything else on the core.
Interrupted == asserted /\ unmasked

-----------------------------------------------------------------------------
(* The calls. *)

HasDeadline == call \in {"is_readable_within_us", "pop_timeout_us"}

\* mlua_event_wait() first asks the loop function with timeout FALSE.
Begin ==
    /\ pc = "lua"
    /\ ~Interrupted
    /\ call' \in Calls
    /\ len' \in IF call' \in {"read_blocking", "write_blocking"}
                THEN 1..MaxLen ELSE {1}
    /\ offset' = 0
    /\ deadline' \in IF HasDeadline' THEN {"future", "reached"} ELSE {"none"}
    /\ timeout' = FALSE
    /\ pc' = "loop"
    /\ UNCHANGED <<level, irqVars>>

\* One unit goes from or to the FIFO; the interrupt is no longer asserted
\* when there is nothing left.
Take ==
    /\ level > 0
    /\ level' = level - 1
    /\ asserted' = (asserted /\ level' > 0)
    /\ UNCHANGED <<unmasked, queued>>

Finish ==
    /\ pc' = "lua"
    /\ UNCHANGED <<level, irqVars>>

\* The one unit that the call is about is taken, and the call returns.
Deliver ==
    /\ Take
    /\ offset' = len
    /\ pc' = "lua"
    /\ UNCHANGED <<call, len, deadline, timeout>>

MustWait ==
    /\ level = 0
    /\ pc' = "unmask"
    /\ UNCHANGED <<callVars, level, irqVars>>

\* Mutant: the bound of the loop is off by one.
M_read_loop ==
    \/ /\ offset <= len
       /\ Take
       /\ offset' = offset + 1
       /\ UNCHANGED <<call, len, deadline, timeout, pc>>
    \/ offset <= len /\ MustWait
    \/ offset > len /\ Finish /\ UNCHANGED callVars

\* read_loop(): unit by unit, until the transfer is complete.
read_loop ==
    \/ /\ offset < len
       /\ Take
       /\ offset' = offset + 1
       /\ UNCHANGED <<call, len, deadline, timeout, pc>>
    \/ offset < len /\ MustWait
    \/ offset = len /\ Finish /\ UNCHANGED callVars

\* write_loop() does the same, with free places for units.
write_loop == read_loop

\* getc_loop(), fifo_get_loop().
getc_loop ==
    \/ Deliver
    \/ MustWait

fifo_get_loop == getc_loop

\* is_readable_loop() takes nothing.
is_readable_loop ==
    \/ (level > 0 \/ timeout) /\ Finish /\ UNCHANGED callVars
    \/ ~timeout /\ MustWait

pop_loop ==
    \/ Deliver
    \/ level = 0 /\ timeout /\ Finish /\ UNCHANGED callVars
    \/ ~timeout /\ MustWait

Loop ==
    /\ pc = "loop"
    /\ ~Interrupted
    /\ \/ call = "read_blocking" /\ read_loop
       \/ call = "write_blocking" /\ write_loop
       \/ call = "getc" /\ getc_loop
       \/ call = "is_readable_within_us" /\ is_readable_loop
       \/ call \in {"pop_blocking", "pop_timeout_us"} /\ pop_loop
       \/ call = "fifo_get_blocking" /\ fifo_get_loop

\* Mutant: no call unmasks the source.
M_Unmasks == FALSE

\* Does the loop function unmask the source before it returns -1?
Unmasks == call \notin {"getc", "is_readable_within_us"}

\* The loop function unmasks the source, returns -1, and the thread suspends.
UnmaskAndSuspend ==
    /\ pc = "unmask"
    /\ ~Interrupted
    /\ unmasked' = (unmasked \/ Unmasks)
    /\ pc' = "suspended"
    /\ UNCHANGED <<callVars, level, asserted, queued>>

-----------------------------------------------------------------------------
(* The scheduler and the other threads. *)

Dispatch ==
    /\ pc \in {"lua", "suspended", "ready"}
    /\ ~Interrupted
    /\ queued
    /\ queued' = FALSE
    /\ pc' = IF pc = "suspended" THEN "ready" ELSE pc
    /\ UNCHANGED <<callVars, level, asserted, unmasked>>

Reach ==
    /\ deadline = "future"
    /\ deadline' = "reached"
    /\ UNCHANGED <<call, len, offset, timeout, pc, level, irqVars>>

\* The deadline is reached, or another thread calls Thread.resume().
Resume ==
    /\ pc = "suspended"
    /\ ~Interrupted
    /\ pc' = "ready"
    /\ UNCHANGED <<callVars, level, irqVars>>

\* mlua_event_wait_2() asks the loop function again.
Run ==
    /\ pc = "ready"
    /\ ~Interrupted
    /\ pc' = "loop"
    /\ timeout' = (deadline = "reached")
    /\ UNCHANGED <<call, len, offset, deadline, level, irqVars>>

\* Another thread kills this one; the source stays unmasked.
Kill ==
    /\ pc \in {"suspended", "ready"}
    /\ ~Interrupted
    /\ pc' = "lua"
    /\ UNCHANGED <<callVars, level, irqVars>>

Next ==
    \/ Arrive
    \/ Assert
    \/ handle_irq
    \/ Begin
    \/ Loop
    \/ UnmaskAndSuspend
    \/ Dispatch
    \/ Reach
    \/ Resume
    \/ Run
    \/ Kill

Spec == Init /\ [][Next]_vars

\* Units keep coming, the hardware reports them, handlers run, and so do
\* loop functions and the scheduler.  Nothing has to resume or kill the
\* thread, and no deadline has to come.
FairSpec ==
    /\ Spec
    /\ WF_vars(Arrive)
    /\ WF_vars(Assert)
    /\ WF_vars(handle_irq)
    /\ SF_vars(Loop)
    /\ SF_vars(UnmaskAndSuspend)
    /\ SF_vars(Dispatch)
    /\ SF_vars(Run)

-----------------------------------------------------------------------------
(* Properties. *)

\* Every variable has its type.
TypeOK ==
    /\ call \in Calls
    /\ len \in 0..MaxLen
    /\ offset \in 0..len
    /\ deadline \in {"none", "future", "reached"}
    /\ timeout \in BOOLEAN
    /\ pc \in Locations
    /\ level \in 0..Depth
    /\ asserted \in BOOLEAN
    /\ unmasked \in BOOLEAN
    /\ queued \in BOOLEAN

\* docs/hardware.md:1174, "Yields until the read completes if the IRQ handler
\* is enabled": while a thread is suspended in a call, either its event is
\* pending or the interrupt that sets it is unmasked, whenever units arrive
\* and whatever interrupts earlier calls have left behind.
SuspendedIsArmed == pc = "suspended" => unmasked \/ queued

Polling == {"getc", "is_readable_within_us"}

\* It is so for all calls but getc() and is_readable_within_us().
TransferIsArmed == call \notin Polling => SuspendedIsArmed

=============================================================================
