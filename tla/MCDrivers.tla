------------------------------ MODULE MCDrivers -------------------------------
(***************************************************************************)
(* The drivers that wait for interrupts, and the event queue that they     *)
(* share, for TLC.  The models share nothing, so one run checks them side  *)
(* by side: which names the one that moves in a behaviour, and the others  *)
(* stay in an initial state.                                               *)
(***************************************************************************)
EXTENDS DriverWait

CONSTANTS Channels, Flags, Events, Cores, NULL, Core0Threads

\* The sizes of the models that MCDrivers instantiates.
CONSTANTS
    SlaveDepth,              \* the RX FIFO of an I2C slave
    I2cDepth, I2cMaxLen,     \* the FIFOs of an I2C master, and its transfers
    SpiDepth, SpiMaxUnits,   \* those of SPI
    GpioBlocks, GpioPins,    \* the interrupt registers of the pins
    PioDepth                 \* the FIFOs of a state machine

ASSUME DriversAssumption ==
    /\ I2cDepth \in Nat \ {0} /\ I2cMaxLen \in Nat
    /\ SpiDepth \in Nat \ {0} /\ SpiMaxUnits \in Nat
    /\ GpioBlocks \in Nat \ {0}

VARIABLES armed, hooked, pending, enabled, equeued, watched, state, at, running,
          acall, fired, lua
alarm == <<armed, hooked, pending, enabled, equeued, watched, state, at, running,
           acall, fired, lua>>
Alarm == INSTANCE AlarmCallback WITH queued <- equeued, pc <- at, call <- acall

VARIABLES slevel, request, smask, squeued, spc
slave == <<slevel, request, smask, squeued, spc>>
Slave == INSTANCE I2cSlave WITH RxDepth <- SlaveDepth, level <- slevel,
                                mask <- smask, queued <- squeued, pc <- spc

VARIABLES txf, rxf, abrt, stop, mask, iqueued, ipc, op, ideadline, result, acked, clean
i2c == <<txf, rxf, abrt, stop, mask, iqueued, ipc, op, ideadline, result, acked, clean>>
I2c == INSTANCE I2cTransfer WITH FifoDepth <- I2cDepth, MaxLen <- I2cMaxLen,
                                 queued <- iqueued, pc <- ipc,
                                 deadline <- ideadline

VARIABLES ptxf, wire, prxf, imsc, event, ppc, read, plen, tx, rx, polls, moved, got
spi == <<ptxf, wire, prxf, imsc, event, ppc, read, plen, tx, rx, polls, moved, got>>
Spi == INSTANCE SpiTransfer WITH FifoDepth <- SpiDepth, MaxUnits <- SpiMaxUnits,
                                 txf <- ptxf, rxf <- prxf, pc <- ppc, len <- plen

VARIABLES intr, inte, gmask, gpending, gevent, gpc, block, taken, unseen
gpio == <<intr, inte, gmask, gpending, gevent, gpc, block, taken, unseen>>
Gpio == INSTANCE GpioIrq WITH Blocks <- GpioBlocks, PinsPerBlock <- GpioPins,
                              mask <- gmask, pending <- gpending, event <- gevent,
                              pc <- gpc

VARIABLES dintr, dinte, dpending, owner, dqueued, dpc, want, dwatched, polled,
          returned, dunseen
dma == <<dintr, dinte, dpending, owner, dqueued, dpc, want, dwatched, polled,
         returned, dunseen>>
Dma == INSTANCE DmaIrq WITH intr <- dintr, inte <- dinte, pending <- dpending,
                            queued <- dqueued, pc <- dpc, watched <- dwatched,
                            unseen <- dunseen

VARIABLES qtx, qrx, irq, qinte, qmask, qowner, qqueued, qpc, qwant, qwatched
pio == <<qtx, qrx, irq, qinte, qmask, qowner, qqueued, qpc, qwant, qwatched>>
Pio == INSTANCE PioIrq WITH FifoDepth <- PioDepth, tx <- qtx, rx <- qrx,
                            inte <- qinte, mask <- qmask, owner <- qowner,
                            queued <- qqueued, pc <- qpc, want <- qwant,
                            watched <- qwatched

\* The handler threads of the three callbacks below.
VARIABLES henabled, hqueued, hpc
handler == <<henabled, hqueued, hpc>>

VARIABLES nvic, on, upending, raised
user == <<nvic, on, upending, raised>>
User == INSTANCE UserIrq WITH enabled <- henabled, queued <- hqueued, pc <- hpc,
                              pending <- upending

VARIABLES rarmed, rintr, rinte, rpending, rcall, due
rtc == <<rarmed, rintr, rinte, rpending, rcall, due>>
Rtc == INSTANCE RtcAlarm WITH enabled <- henabled, queued <- hqueued, pc <- hpc,
                              armed <- rarmed, intr <- rintr, inte <- rinte,
                              pending <- rpending, call <- rcall

VARIABLES wintr, winte, wpending, wgiven, wunseen
pwm == <<wintr, winte, wpending, wgiven, wunseen>>
Pwm == INSTANCE PwmIrq WITH enabled <- henabled, queued <- hqueued, pc <- hpc,
                             intr <- wintr, inte <- winte, pending <- wpending,
                             given <- wgiven, unseen <- wunseen, Slices <- Channels

VARIABLES main, mrunning, shutdown, asked, stopped, mstate
core1 == <<main, mrunning, shutdown, asked, stopped, mstate>>
Core1 == INSTANCE Multicore WITH enabled <- henabled, queued <- hqueued, pc <- hpc,
                                 running <- mrunning, state <- mstate,
                                 Threads <- Core0Threads

VARIABLES tag, link, eowner, head, tail, epc, wake, evreg
equeue == <<tag, link, eowner, head, tail, epc, wake, evreg>>
Queue == INSTANCE EventQueue WITH TailRemoval <- FALSE, owner <- eowner, pc <- epc

\* Events are interchangeable: the queue's liveness is checked of one of them.
subject == CHOOSE e \in Events : TRUE

VARIABLE which
all == <<which, vars, alarm, slave, i2c, spi, gpio, dma, pio, handler, user,
         rtc, pwm, core1, equeue>>

Models == {"fifo", "alarm", "slave", "i2c", "spi", "gpio", "dma", "pio", "user", "rtc",
           "pwm", "core1", "equeue"}

InitAll ==
    /\ Init /\ Alarm!Init /\ Slave!Init /\ I2c!Init /\ Spi!Init /\ Gpio!Init
    /\ Dma!Init /\ Pio!Init /\ User!Init /\ Rtc!Init /\ Pwm!Init
    /\ Core1!Init /\ Queue!Init
    /\ which \in Models
    /\ which # "fifo" => call = "getc" /\ level = 0
    /\ which # "alarm" => lua = [suspends |-> FALSE, killsEarly |-> FALSE]

Unmoved(model, v) == IF which = model THEN TRUE ELSE UNCHANGED v

\* One model makes a step.
Step(model) ==
    /\ which = model
    /\ UNCHANGED which
    /\ Unmoved("fifo", vars) /\ Unmoved("alarm", alarm) /\ Unmoved("slave", slave)
    /\ Unmoved("i2c", i2c) /\ Unmoved("spi", spi) /\ Unmoved("gpio", gpio)
    /\ Unmoved("dma", dma) /\ Unmoved("pio", pio) /\ Unmoved("user", user)
    /\ Unmoved("rtc", rtc) /\ Unmoved("pwm", pwm)
    /\ Unmoved("core1", core1) /\ Unmoved("equeue", equeue)
    /\ IF which \in {"user", "rtc", "pwm", "core1"} THEN TRUE ELSE UNCHANGED handler

NextAll ==
    \/ Step("fifo") /\ Next
    \/ Step("alarm") /\ Alarm!Next
    \/ Step("slave") /\ Slave!Next
    \/ Step("i2c") /\ I2c!Next
    \/ Step("spi") /\ Spi!Next
    \/ Step("gpio") /\ Gpio!Next
    \/ Step("dma") /\ Dma!Next
    \/ Step("pio") /\ Pio!Next
    \/ Step("user") /\ User!Next
    \/ Step("rtc") /\ Rtc!Next
    \/ Step("pwm") /\ Pwm!Next
    \/ Step("core1") /\ Core1!Next
    \/ Step("equeue") /\ Queue!Next

\* The fairness of each model, as its module states it.  The model of a
\* behaviour is fixed, so a line may join fair actions of several models: the
\* first ones are fair as long as they stay enabled, the last ones as often
\* as they get enabled.
LuaKept == UNCHANGED lua

FairnessAll ==
    /\ WF_all(\/ Step("fifo") /\ Arrive
              \/ Step("alarm") /\ (Alarm!cancel_hardware_alarm \/ Alarm!Arm) /\ LuaKept
              \/ Step("slave") /\ Slave!handle_i2c_irq
              \/ Step("i2c") /\ I2c!Bus
              \/ Step("spi") /\ Spi!Shift
              \/ Step("equeue") /\ \E c \in Cores : Queue!DispatchStep(c))
    /\ WF_all(\/ Step("fifo") /\ Assert
              \/ Step("alarm") /\ Alarm!handle_alarm_event /\ LuaKept
              \/ Step("slave") /\ Slave!Dispatch
              \/ Step("i2c") /\ I2c!handle_i2c_irq
              \/ Step("spi") /\ Spi!Shifted)
    /\ WF_all(\/ Step("fifo") /\ handle_irq
              \/ Step("slave") /\ Slave!Receive
              \/ Step("i2c") /\ I2c!SetAddress
              \/ Step("spi") /\ Spi!handle_spi_irq)
    /\ WF_all(\/ Step("slave") /\ Slave!CallbackReturns
              \/ Step("i2c") /\ I2c!Loop
              \/ Step("spi") /\ Spi!Feed)
    /\ WF_all(\/ Step("slave") /\ Slave!Requests
              \/ Step("i2c") /\ I2c!Stop
              \/ Step("spi") /\ Spi!Drain)
    /\ WF_all(\/ Step("i2c") /\ I2c!Dispatch
              \/ Step("spi") /\ Spi!Check)
    /\ WF_all(\/ Step("i2c") /\ I2c!Run
              \/ Step("spi") /\ Spi!Dispatch)
    /\ WF_all(Step("spi") /\ Spi!Run)
    /\ SF_all(\/ Step("fifo") /\ Loop
              \/ Step("alarm") /\ Alarm!CallbackReturns /\ LuaKept)
    /\ SF_all(\/ Step("fifo") /\ UnmaskAndSuspend
              \/ Step("alarm") /\ Alarm!Dispatch /\ LuaKept)
    /\ SF_all(\/ Step("fifo") /\ Dispatch
              \/ Step("alarm") /\ Alarm!RunHandler /\ LuaKept)
    /\ SF_all(Step("fifo") /\ Run)

SpecAll == InitAll /\ [][NextAll]_all /\ FairnessAll

-----------------------------------------------------------------------------
(* Properties: those of each module, those of one kind together. *)

\* While the event of an alarm is enabled its handler thread is alive, and
\* nothing is left of one that has ended (AlarmCallback).
HandlerOwnsAlarm == which = "alarm" => Alarm!HandlerOwnsAlarm

\* A handler thread that waits while there is something to report has its
\* event pending: a trigger that comes between its test and its suspension,
\* or before it is set up, is not lost.
TriggersAreReported ==
    /\ which = "alarm" => Alarm!TriggerReachesQuickHandler
    /\ which = "user" => User!PendingIsReported
    /\ which = "rtc" => Rtc!PendingIsReported
    /\ which = "pwm" => Pwm!PendingIsReported
    /\ which = "core1" => Core1!ShutdownIsReported

\* A callback is called for something that came after the last call that
\* cancelled, cleared or replaced it, and once for it.
NoStaleCallback ==
    [][/\ which = "alarm" => Alarm!CallIsForFired
       /\ which = "gpio" => Gpio!EdgesAreTakenOnce
       /\ which = "user" => User!CallIsForRaised
       /\ which = "rtc" => Rtc!CallIsForDue
       /\ which = "pwm" => Pwm!CallIsForWrapped]_all

\* What a transfer returns is what was transferred (I2cTransfer, SpiTransfer).
TransfersAreWhole ==
    /\ [][which = "i2c" => I2c!CountHolds]_i2c
    /\ [][which = "spi" => Spi!UnitsHold]_spi

\* Masking and unmasking lose no interrupt and leave none behind: whoever
\* waits for a source finds it unmasked or its event on the way (GpioIrq,
\* DmaIrq, PioIrq, PwmIrq).
IrqsAreKept ==
    /\ which = "gpio" => /\ Gpio!StoredEdgesAreTaken /\ Gpio!MaskedLevelsReturn
                         /\ Gpio!InterruptsAreWanted
    /\ which = "dma" => Dma!WaiterIsTold /\ Dma!CompletionsAreKept /\ Dma!EventsMatchInte
    /\ which = "pio" => Pio!WaitersAreArmed /\ Pio!EventsMatchMask
    /\ which = "pwm" => Pwm!WrapsAreKept

\* A thread that resets core 1 does not wait for ever (Multicore).
ResetIsNotStuck == which = "core1" => Core1!ResetIsNotStuck

\* What has been started is answered: calls return, callbacks are called,
\* bytes are received and events are dispatched.
DriversAnswer ==
    (\/ which = "fifo" /\ pc = "loop" /\ call \notin Polling
     \/ which = "alarm" /\ ~lua.suspends /\ fired /\ Alarm!Alive
     \/ which = "slave" /\ slevel > 0 /\ spc # "none"
     \/ which = "i2c" /\ ipc = "start" /\ clean
     \/ which = "spi" /\ ppc = "feed"
     \/ which = "equeue" /\ tag[subject] = "pending")
    ~>
    (\/ which = "fifo" /\ pc = "lua"
     \/ which = "alarm" /\ (~fired \/ ~Alarm!Alive)
     \/ which = "slave" /\ spc \in {"on_receive", "none"}
     \/ which = "i2c" /\ ipc = "lua"
     \/ which = "spi" /\ ppc = "lua"
     \/ which = "equeue" /\ tag[subject] # "pending")
=============================================================================
