# MicroLua in TLA+

This directory is a formal model of MicroLua, a Lua runtime for the RP2040
microcontroller: TLA+ modules of its events, threads, drivers, network sockets,
data types and files, TLC configurations that check them on small instances,
and proofs, checked by TLAPS, that the main safety properties hold for every
instance. Paths below are relative to `src/`. `PROJECT.json` maps each
definition to the lines it translates.

## The system

MicroLua runs one Lua interpreter per core (two at most). In each interpreter a
cooperative scheduler, which is the interpreter's main function, runs Lua
coroutines as threads. Hardware interrupts, callbacks of the lwIP network stack
and the other core communicate with threads through *events*: a C object that
such a context sets and a thread waits for.

```
   interrupt handlers, lwIP callbacks, the other core
        |  mlua_event_set()                 (EventQueue)
        v
   queue of pending events, one per core
        |  mlua_event_dispatch(): pop, find the watcher
        v
   watcher in the Lua registry              (EventWait)
        |  mlua_event_resume_watcher()
        v
   active queue -> running thread -> suspend, timers, join
        |                                   (ThreadScheduler, ThreadLists)
        v
   loop function of a driver call           (DriverWait, SpiTransfer, ...)
   or the callback of a handler thread      (AlarmCallback, HandlerThread, ...)
```

### Inventory

| Component | State it keeps | Operations | What is hard about it |
|---|---|---|---|
| events, `lib/pico/event.c`, `mlua/event.h` | one tagged word per event: disabled, idle with a pointer to a queue, pending with a pointer to the next pending event, abandoned; head and tail per core | enable, disable, abandon, set, disable_abandoned, dispatch | handlers and the other core set events between any two steps of the dispatch loop; a lost wake-up before WFE; unlinking from a singly-linked list |
| threads, `lib/common/mlua.thread.c` | HEAD, TAIL and TIMERS in upvalues, NEXT on top of each coroutine's stack, `ThreadExtra`, THREADS, JOINERS | start, resume, kill, join, yield, suspend, shutdown, main loop | one stack slot is the link of two lists; kills leave dead threads queued; joiners have three representations |
| event waits, same file | watchers in the registry, three values on the waiter's stack | can_wait, wait, watch, unwatch, resume_watcher | condition, registration and suspension are separate steps; waits end by success, timeout, error, kill or disabling |
| event handlers, same file | a thread per handler, its deferred clean-up | handle, stop_handler, the handler thread | a trigger during the handler; death of the thread in any position |
| hardware.timer, irq, rtc, pwm | pending bits beside an event | set_callback, set_handler, set_target, cancel, clear, enable | an interrupt inside a call; a pending bit that outlives what it was for |
| hardware.gpio, dma, pio | masks that the interrupt handler accumulates and a thread takes, events that both cores share | set_irq_enabled, wait_irq, put, get, enable_irq, acknowledge | read and clear of a mask against the handler; a source masked by the handler that nobody unmasks; enabling several events of which one is taken |
| hardware.uart, adc, pico.multicore.fifo | an event per FIFO, the interrupt mask | blocking reads and writes | the interrupt is unmasked only while a thread needs it |
| hardware.spi, i2c, pico.i2c_slave | events, transfer state on the stack | transfers, slave callbacks | aborts and stops that belong to an earlier transfer; FIFOs at their limit |
| pico.multicore | an interpreter and two events for core 1 | launch, reset, shutdown handler | shutdown of one core driven from the other |
| pico.time | alarms are threads | alarms, repeating timers | times of 64 bits given as integers of 32 |
| pico.stdio | a flag and an event | getchar, callbacks | a reader and a callback share the flag |
| lwip.tcp | a PCB, chained buffers, accept queue, two events per socket | connect, accept, send, recv, shutdown, close | error, close and data callbacks against waiting threads; partial sends |
| lwip.udp, pico.cyw43.wifi | a ring of packets or scan results, an event | recv, recvfrom, the scan iterator | the ring at its limit, filled from an interrupt; a scan that outlives its iterator |
| lwip.dns | slots shared with lwIP | gethostbyname | a request that outlives its thread |
| mlua.time, platform, mlua.int64 | ticks, two-word integers | deadlines, comparisons, arithmetic | wrap-around |
| mlua.list, mlua.array, mlua.mem, mlua.block | data in Lua values and buffers | sequential | index arithmetic at the boundaries |
| symbol tables, `core/module.c`, `tools/gen` | hashed tables | generation and lookup | bit packing across bytes |
| mlua.fs.lfs, mlua.fs.loader | littlefs objects, open handles | mount, open, read, write, close, searchers | handles that outlive a mount; errors in the middle of a file |
| interpreter, Lua libraries, build tools | - | - | sequential |

What makes each part correct:

- *events*: a pending event is in its core's list once, and is dispatched; a
  core does not sleep while one is pending; an abandoned event stays so until
  the callback releases it;
- *threads*: an active thread has one place in the queue and runs; timers fire;
  a join ends when the joined thread does; shutdown finds every live thread;
- *waits*: a condition that becomes true resumes the thread that waits for it,
  wherever the interrupt came; a wait leaves nothing behind that harms another;
- *handlers*: the callback is called for each trigger, not for triggers that
  were cancelled, and everything is released when the handler thread ends;
- *drivers*: a suspended call can be woken by its interrupt, returns when the
  hardware has served it, and returns what was transferred;
- *network*: data and answers come in order, once, and to whom they belong; a
  ring drops the newest when it is full; a thread blocked on a socket learns
  that it was closed;
- *data*: an operation does what the same operation on sequences or integers
  does, within the bounds of its buffer;
- *files*: littlefs and the binding agree on what is open; a module is loaded
  from a whole file or not at all.

The hazards behind these, each at its line, are in `PROJECT.json`.

## Modules

| Module | Models | Checked in | Proofs |
|---|---|---|---|
| `QueueOps` | operators on sequences without repetitions | | `QueueOpsProofs` |
| `EventQueue` | the linked lists of `event.c`, their callers, the dispatch loop with WFE and SEV | `MCEventQueue`, `MCDrivers` | `EventQueueProofs` |
| `EventFifo` | what `EventQueue` promises: a sequence per core | refined by `EventQueue` | |
| `ThreadLists` | the scheduler as coded | `MCThreads` | `ThreadProofs` |
| `ThreadScheduler` | the scheduler as `docs/mlua.md` describes it; what `ThreadLists` promises | `MCThreads` | `ThreadProofs` |
| `EventWait` | `mlua_event_wait()`, watchers and their interplay with threads | `MCData` | `DataProofs` |
| `AlarmCallback` | `hardware.timer` callbacks and the event handler thread | `MCDrivers` | `DriversProofs` |
| `HandlerThread` | the same thread, for callbacks that do not suspend | through the next four | `DriversProofs` |
| `UserIrq`, `RtcAlarm`, `PwmIrq`, `Multicore` | user interrupts, the clock's alarm, PWM wraps; the life of core 1 | `MCDrivers` | `DriversProofs` |
| `DriverWait` | loop functions of UART, ADC and inter-core FIFO against their interrupt | `MCDrivers` | `DriversProofs` |
| `SpiTransfer`, `I2cTransfer` | transfers of a master | `MCDrivers` | `DriversProofs` |
| `I2cSlave` | the slave's event handler | `MCDrivers` | |
| `GpioIrq` | pin interrupts, edges and levels | `MCDrivers` | `DriversProofs` |
| `DmaIrq` | channel completions | `MCDrivers` | `DriversProofs` |
| `PioIrq` | FIFO and flag interrupts of a PIO | `MCDrivers` | `DriversProofs` |
| `TcpSocket` | a connection and its listener | `MCNetwork` | `NetworkProofs` |
| `PacketRing`, `PacketFifo` | the ring buffer and what it promises | through the next two | `NetworkProofs` |
| `UdpSocket` | a UDP socket | `MCNetwork` | `NetworkProofs` |
| `WifiScan` | the scan iterator | `MCNetwork` | `NetworkProofs` |
| `DnsLookups` | `gethostbyname()` | `MCNetwork` | `NetworkProofs` |
| `Int64` | 64-bit integers | `MCData` | `NumberProofs` |
| `TickTimes` | times and sleeps | `MCData` | `NumberProofs` |
| `MemBuffer` | buffers | `MCData` | `NumberProofs` |
| `NilList`, `TypedArray` | lists, arrays | `MCData` | `DataProofs` |
| `SymbolHash` | hashed symbol tables, from their generation to the lookup | `MCData` | `SymbolProofs` |
| `LfsFilesystem`, `FsLoader` | files, and modules loaded from them | `MCData` | `DataProofs` |

### How they compose

The modules form two layers. `EventQueue` implements `EventFifo`, and
`ThreadLists` implements `ThreadScheduler`; the others start from what those
promise: an event that is set is dispatched once, first in first out, and an
active thread gets to run. The fairness that the upper modules assume is what
the lower ones show (`DriversAnswer` for events, `ThreadsProgress` for
threads), and what `EventWait` shows (`NoLostCondition`, `ConditionIsSeen`) is
why a driver model may say that dispatching its event resumes the thread that
waits for it.

`MCThreads` carries both schedulers at once: `state` and `active` of
`ThreadScheduler` are functions of the lists of `ThreadLists`, the other
variables are shared. `UserIrq`, `RtcAlarm`, `PwmIrq` and `Multicore` each
extend `HandlerThread` with a source of interrupts.
`UdpSocket` and `WifiScan` keep their items in a `PacketRing`; the first is
shown to implement `PacketFifo`.

`MCDrivers`, `MCNetwork` and `MCData` hold several models that do not share
state in the code either. The variable `which`, fixed in a behaviour, names
the one that moves, and the others stay in an initial state: the states of a
run are the sum of those of its models, not the product. A property of such a
run is a conjunction of implications `which = ... => M!Property`.

### EventQueue

`tag[e]` and `link[e]` are the two halves of `MLuaEvent.state`; `head` and
`tail` are the fields of `EventQueue`. The critical sections between
`mlua_event_lock()` and `mlua_event_unlock()` hold a spinlock with interrupts
disabled, so each is one action: `Enable`, `Disable`, `Abandon`, `Set`,
`DisableAbandoned`, and each iteration `Pop` or `PopEmpty` of the inner loop
of `mlua_event_dispatch()`. Between them the loop has its own locations:
after the unlock (`check`) and before WFE (`wfe`), where a core may find
`evreg`, the event register that `__sev()` sets on both cores. `owner[e]` keeps
the queue pointer that the code overwrites while the event is pending; it is
only used to say that an event is disabled on the core that enabled it, as all
callers do. `RemovePending` leaves `tail` alone, as the code does; the constant
`TailRemoval` says whether behaviours include the case in which that is wrong.

### ThreadLists and ThreadScheduler

`lists` holds HEAD, TAIL, TIMERS, NEXT and the state of each thread, so that
the C helpers are operators from lists to lists: `RemoveTimer`, `Activate`,
`ResumeThread`, `ExpireTimers`, `PushYielded`, `PopRunnable`, `InsertTimer`.
Coroutines run one at a time, so each Lua-visible call is one action of the
running thread, and one iteration of the main loop after dispatching is
`Schedule`. `WatcherResumed` is what dispatching may do to a thread.
`Terminate` and `Kill` share `Bury`. JOINERS is a set per thread; `Join` adds
the wrong thread from the third joiner on, as the code does, and `MaxJoiners`
bounds how many threads may join one. `Collect` returns a dead thread that
nothing refers to to the unused ones, so that behaviours are not limited by the
number of threads. `ThreadScheduler` has the same actions on one sequence,
without links and without dead threads in the queue.

### EventWait

`ready[e]` is the condition that loop functions test, `watcher[e]` the registry
entry under the event's address, `queue` the pending events. `Check` is the
first call of the loop function, `Watch` the registration and suspension,
`Succeed`, `Retry` and `Raise` the outcomes of `mlua_event_wait_2()`. An
interrupt comes between any two of them. Threads may wait for several events,
wait for the same event as another thread (the later replaces the earlier, as
in the code), have deadlines, resume, kill and disable.

### AlarmCallback, HandlerThread and its users

In `AlarmCallback`, `pending` is the alarm's bit in `alarm_state.pending`,
`hooked` the interrupt callback, `enabled`, `queued` and `watched` the event.
Cancelling is two steps, as in `cancel_hardware_alarm()`, because the interrupt
may come in between. The other threads are an environment that makes any call
when the handler thread is not running. `lua` fixes, per behaviour, what the
Lua code may do: whether the callback suspends its thread, and whether somebody
kills the handler thread before it has run (the leak that `mlua_event_handle()`
describes in a comment).

`HandlerThread` is the part that the other callbacks share, without
suspension: the event's `enabled` and `queued`, and where the thread is. Its
operators are called by the actions of `UserIrq` (`nvic` and `on` are the
interrupt controller's bits, `pending` that of `IRQState`), `RtcAlarm` (`armed`,
`intr`, `inte` are the peripheral's), `PwmIrq` (sets of slices) and `Multicore`
(`running` and `stopped` are the two events of `CoreState`, `shutdown` its flag,
`main` where core 1 is in `launch_core()`; the handler thread is that of
`set_shutdown_handler()`). `raised`, `due` and `unseen` are auxiliary: what a
callback may be called for.

### DriverWait and the transfers

In `DriverWait`, `level` is what the loop function can take, `asserted` the
interrupt line, `unmasked` the mask bit (UART, ADC) or the enable bit in the
NVIC (inter-core FIFO). An interrupt that is let through comes before any other
step of the core, which is what makes the mask matter: a handler that does not
mask would run for ever. `Loop` takes one unit, or returns, or finds that it
must wait; `UnmaskAndSuspend` follows. `timeout` is the argument that
`mlua_event_wait_2()` computes before it calls the loop function.

`SpiTransfer` adds the two FIFOs and the shift register, `I2cTransfer` the bus
with its acknowledgements, aborts and STOP conditions (`clean` says that the
call found the peripheral idle), `I2cSlave` the requests of a master and the
mask that the handler thread opens.

### GpioIrq, DmaIrq and PioIrq

`intr` are the flags of the hardware, `inte` what is enabled, `pending` what
the handler has stored, `mask` what has been asked for. `GpioIrq` walks the
blocks of pins with an interrupt between any two (`block`, `taken`). In
`DmaIrq` and `PioIrq` an event belongs to one of the cores (`owner`), so that
enabling several is all or nothing. `want` are the arguments of the call that
waits, `watched` the events its thread is registered for.

### The network modules

`TcpSocket` has one connection from its first segment to its end, its listener
with an accept queue, a thread in `accept()`, one in `connect()` or `recv()`,
one in `send()`, and other threads that make every other call. lwIP is modelled
from how the code uses it: it calls the handlers when the core does not hold its
lock. `tcp` is the socket's own struct, `peer` what lwIP knows, and `pcb` what
has become of the connection: a PCB that lwIP frees while it is in the accept
queue is `"reset"` there, and `"freed"` in the socket that accepts it. What the
calls find in it is that of memory which nobody has used again. `UdpSocket`
numbers packets as they arrive; `kept`, `given` and `freed` record what became
of each. In `WifiScan`, `scan_queue` and `live` tell which queue the driver
writes to and whether it has been collected, which happens when the iterator is
`"dropped"` without being closed, or the scan `"failed"` to start. In `DnsLookups`, `asked[s]` is the thread
whose request lwIP will answer into slot `s`.

### Data and files

These modules follow one call at a time and record it with its result: `call`
in `NilList`, `TypedArray`, `Int64` and `MemBuffer`. Their properties compare the
result with a reference definition on sequences or integers, and where the code
departs from it, with a definition of the calls that do and of what they return
(see Findings). `MemBuffer` has every offset and length, as the unsigned numbers
that they become, and the result `Undefined` for a call that leaves the buffer.
Widths are
parameters: `Int64` and `TickTimes` have integers of `2 * L` bits over Lua
integers of `L`; `TickTimes` is given `Half`, which is `2 ^ (L - 1)`. It follows
one sleep, or one alarm, from the time that is given (`time`) to the time that
was meant (`due`). `SymbolHash` searches the acyclic graph of
`find_perfect_hash()`, step by step as `Graph:assign()` visits it, packs the
values and looks them up as `core/module.c` does. `LfsFilesystem` has littlefs as
an environment: what is on the device (`disk`), its list of open files (`mlist`)
and its block count (`blocks`), beside the fields of the binding (`mounted`,
`config`, `handle`). `FsLoader` reads a file block by block from a device that
may fail at any call.

## Runs

| Run | Instance | What it shows |
|---|---|---|
| `eq_two_cores` | 2 cores, 3 events | no core sleeps on a pending event (`NoLostWakeup`), the lists are well formed (`QueueWellFormed`) and implement `EventFifo`, and an abandoned event stays so until it is released |
| `tl` | 3 threads, deadlines 0 to 2, of which 2 stands for never, 2 joiners | `ListsWellFormed`, the properties of `ThreadScheduler` on what the lists do, that they implement it, and that threads run, timers fire and joins return |
| `data` | 2 threads and 2 events for `EventWait`; small widths and lengths for the others | no condition is lost, registrations last and are forgotten when they must; the data types and files do what their reference definitions say |
| `drivers` | FIFOs of 1 or 2, transfers of up to 4 units, 2 channels and slices, 1 PIO flag, 3 events | no trigger is lost, no callback is stale, transfers are whole, and what is started is answered |
| `net_calls` | 3 units through a window and a send buffer of 2, rings of 2, 5 packets, 6 results, 2 threads that look up names | data, packets, results and answers arrive in order, each once; waiters are told; calls return |
| `eq_tail_removal`, `tl_joiners`, `ac_suspends`, `dw_getc`, `i2c_nack`, `i2c_slave`, `tcp_send_deadline` | | violations, see Findings |

Each property names the definitions of the component modules that it joins;
their comments say what each means and which code it is about.

Why the bounds are enough for what they are used for:

- Three events make a queue with a head, a middle and a tail, the three cases
  of unlinking. Two cores are all the RP2040 has.
- Three threads make a running thread and a list with two links, or two
  joiners of one thread; four are needed for three joiners. `MaxTime` bounds
  the clock: the clock stops before it, so that a deadline of `MaxTime` stands
  for all those that do not come. Deadlines below it come in every order, and
  twice the same.
- Two threads and two events make a wait for several events and a wait for a
  shared one.
- A transfer longer than the FIFO must wait at least once for any initial
  level; a transfer of 4 units through an SPI FIFO of 2 fills both FIFOs.
- Two channels, slices or blocks make one that completes while another is being
  taken, and an `enable_irq()` of which one half fails.
- Rings of 2 wrap around, and are full while more arrives: `MaxPackets` and
  `MaxResults` go round them more than twice. `Wrap` bounds the counter of
  dropped results.
- A window and a send buffer of 2 units and 3 units to send make a partial send
  and a window that must be given back. Two strings of different lengths are
  what the loop over strings needs. `MaxQueue` bounds the other connections in
  the accept queue. Data flows in one direction at a time, because `recv()` and
  `send()` share only `err` and the PCB, which both runs vary.
- `Requests = 2`, the number of slots, lets one be abandoned, answered and taken
  again while the other is in use.
- `Int64` has 6 bits, twice those of a Lua integer (`IntBits = 3`): all pairs of
  values, so that every carry, borrow and sign occurs. `Mantissa = 4` makes
  floating-point numbers that keep only some of them, and `Bases` has a power
  of two and another. `Half = 4` makes integers of 3 bits; `MaxNow` lets the
  clock of `TickTimes` pass the wrap of the low word more than once, and `Late`
  bounds how late a thread wakes.
- Lists of up to 3 elements (`MaxList`), arrays of 2 (`MaxArray`),
  buffers of 4 bytes (`MemSize`) have a first, a middle and a last element;
  positions and offsets range beyond both ends. Offsets and lengths of memory
  take all values below `MemOffsets = 12`, so that each pair whose sum wraps
  occurs; the assumption `2 * MemSize + 3 < MemOffsets` says that memory is far
  smaller than what an offset can address. `EraseSize = 3` leaves a byte of the
  buffer outside of the device. Elements of two bytes (`ElemSize`) of one bit (`ElemBits`)
  have every value, and are taken apart into more than one byte.
- 4 keys over 5 vertices make graphs with and without cycles, and values of 2
  bits straddle bytes of 3 (`ByteBits`). `DataAssumption` limits a value to
  `2 * ByteBits + 1` bits, 17 in the code, as a lookup reads at most three bytes.
- Two paths, two handles and two mounts make a handle that outlives its mount,
  and a file that is open twice.

Symmetry reduces the events and the cores in `eq_two_cores`, which has no
liveness property. In runs with liveness the property is stated for one thread,
or one event, chosen among interchangeable ones.

`CHECK_DEADLOCK FALSE` is set where the system may stop: a program whose
threads have all ended, or all wait for events that nobody sets (`tl`,
`tl_joiners`, `data`, `i2c_slave`), a socket that is closed, a transfer or a
function call that was the only one (`drivers`, `net_calls`, `data`,
`i2c_nack`, `tcp_send_deadline`). The other runs check it.

### Fairness

- `EventQueue`: the dispatch loop goes on. The timeout of WFE has no fairness,
  as the scheduler may wait without a deadline; interrupts have none either.
- `ThreadLists`: the running thread eventually yields, suspends or ends, since
  threads are cooperative, `main()` is called, the scheduler goes on, and time
  passes. No thread has to resume another and no event has to come. The first
  three are written as `[]<>` of state formulas: they say the same as weak
  fairness of the steps and cost TLC less.
- `EventWait`: the running thread goes on to its next suspension, pending
  events leave the queue (shown by `DriversAnswer`) and active threads run
  (shown by `ThreadsProgress`).
- `AlarmCallback`: C code runs to its end. Strong fairness of `RunHandler` and
  `Dispatch`: other threads may run in between, but the scheduler's turn comes
  back again and again, and it dispatches every pending event then. Strong
  fairness of `CallbackReturns`: the callback may call into the module, again
  and again, but is cooperative.
- `DriverWait`: units keep coming and are reported, handlers run, and the
  steps of the thread and the scheduler are strongly fair, since an interrupt
  that is let through disables them only until its handler has run.
- `SpiTransfer`, `I2cTransfer`, `I2cSlave`: the peripheral moves what is in its
  FIFOs, the handler runs, and so do the thread and the dispatcher. A device on
  the bus may refuse to acknowledge, and a master need not send anything.
- `TcpSocket`: lwIP acknowledges what was written or reports an error, and
  polls; the thread goes on. Strong fairness of a write that writes something:
  room in the send buffer comes back again and again, and lwIP does not run out
  of memory each time. Nothing makes the peer send or close.
- `WifiScan`: the driver ends its scan, and the loop function goes on.
- `DnsLookups`: lwIP answers each request, in the end with a failure, which is
  what its own timeouts do; the thread goes on.

The models without liveness properties have no fairness.

## Proofs

All theorems hold for every value of the constants under the assumptions in
the modules: finite sets, a `NULL` apart from them, positive sizes. Each proof
module extends the module it is about.

- `QueueOpsProofs`: lemmas about appending to, taking from and filtering a
  sequence without repetitions, and the least element of a set of numbers. They
  are cited by the modules below.
- `EventQueueProofs`:
  - `TypeCorrect`, and `WakeupCorrect`, that a core never sleeps on a pending
    event. The property alone is not inductive, as it says nothing about a core
    that is about to sleep. `WakeInv` adds the location after the unlock: from
    the moment the queue was seen empty, a queue that is no longer empty comes
    with the event register set.
  - `ListCorrect`, `FifoCorrect` and `AbandonCorrect`, for behaviours without
    the removal of a tail behind other events (`TailRemoval = FALSE`; the code
    gets that wrong, see Findings). The inductive invariant `ListInv` says of
    each core that some sequence without repetition *is* its queue: its first
    and last are head and tail, each element links to the next, and it holds
    the pending events of that core. Each operation changes the sequence as
    `EventFifo` says (`PopQueue`, `SetQueue`, `RemoveQueue`), and the queue that
    the refinement mapping reads off the links, which follows at most as many
    as there are events, is that sequence (`WalkPassesQueue`, `QueueIs`).
    `FifoCorrect` is the refinement, initial states and steps;
    `AbandonCorrect` needs the lists because setting an event writes to the
    tail's word, and popping to the head's: both are pending, hence not
    abandoned.
- `ThreadProofs`:
  - About `ThreadScheduler`: `TypeCorrect`; `QueueCorrect`, that the active queue
    has each active thread once; `JoinCorrect`, that a thread in `join()` is
    registered with a live thread. `JoinInv` adds what happens between the death
    of the joined thread and the return of the joiner: a thread in a join is
    alive, and either registered with a live thread, or active because the thread
    it joined has died. `RunInv` relates `running` to `pc`. Each action has a
    lemma that starts from `SInv`, the part without `JoinInv`, and ends in `Kept`,
    that `SInv` holds again, and `JoinInv` too if it did: the lists need the
    first part also where the code registers the wrong joiner.
  - The next three are about `MCThreads`, in which both schedulers take each step
    together.
  - `ListsCorrect` and `LinkedQueueCorrect`, for any threads, deadlines and
    joiners: the two linked lists are never corrupted, and hold each active
    thread once. `Is` says that the record of links is two chains: the active
    queue is a sequence `s` with its tail, the timer list a sequence `m`, no
    thread is in both, and what is in neither links to nothing. `Live` relates
    `s` to the queue of `ThreadScheduler`: that one is `s` without its dead
    threads, in their order, and there is only one such sequence. `Good` adds
    that `m` has the threads with a timer, sorted by deadline. Each helper of
    the code has a lemma that says what it does to `s` and `m` (`ActivateIs`,
    `InsertTimerIs`, `RemoveTimerIs`, `ExpireTimersIs`, `PopRunnableIs`,
    `DeadIs`, `ResumeAllIs`), and each action one that starts from them. `CInv`
    is the whole invariant: `Good` for some `s` and `m`, `SInv`, and that
    `THREADS` has the live threads.
  - `SchedulerRefined`: `ThreadLists` implements `ThreadScheduler`, initial
    states and steps. The loop that skips dead threads at the head becomes one
    step to the first live one, the timers that have come are moved to the
    queue in the order of their deadlines, and joiners are resumed in whatever
    order the table has them. It is proved for `MaxJoiners \in 0..2`, which is
    not a convenience: the third thread to join another is not registered
    (see `tl_joiners` under Findings), and the refinement fails there.
  - `LinkedJoinCorrect`, under the same assumption and for the same reason:
    `JoinersRegistered`, on the lists.
- `DriversProofs`: one invariant per model of `MCDrivers`, which `DriversInv`
  joins as `which = ... => ...Inv`, for any depths of FIFOs, lengths of
  transfers, sets of channels, slices, flags, pins and threads.
  - `TypeCorrect` and `TransferCorrect`, about `DriverWait`: a thread suspended
    in a transfer has its event pending or its interrupt unmasked. It is
    inductive with the types.
  - `IrqsCorrect`: masking and unmasking lose no interrupt. For pins, an edge
    that is latched, stored or read by the walk over the blocks came after it
    was taken last (`GpioEdgeInv`, `GpioRawInv`), and edges are never masked.
    That some event tells a waiter of some DMA completion is not inductive, as
    disabling a channel takes its event away: `DmaToldInv` says that each
    completion it waits for has its own. `PioWatchInv` says that a call watches
    only events of its core.
  - `TriggersCorrect`: a handler thread that waits while there is something to
    report has its event pending. `Flagged` extends this
    to the callback, after which the thread suspends without another test;
    the invariants add what else may set the flag in the middle of a call
    (`RtcInv`, `Core1Inv`).
  - `AlarmCorrect`: while the event of an alarm is enabled its handler thread
    lives, and nothing is left of one that has ended. `AlarmThreadInv` has the
    converse, and that a callback which does not suspend its thread keeps it
    running.
  - `CallbacksCorrect`, an action property: a callback is called for something
    that came after the last call that cancelled it.
  - `ResetCorrect`: a reset of core 1 does not wait for ever. It is proved for a
    single thread of core 0 (`ASSUME \A t, u \in Core0Threads : t = u`), which
    is also the instance that the run checks: the event that says that core 1
    has stopped has one watcher, so that the first of two threads that wait
    for it is not told.
  - `TransfersCorrect`, an action property: what an SPI or I2C transfer returns
    is what was transferred. `SpiFlightInv` gives the place of each unit, in
    the two FIFOs, the shift register and the results, as positions in the
    string that is sent; `I2cWriteInv` and `I2cReadInv` count commands, bytes on
    the bus and results of a call that found the peripheral idle, which is what
    the property is about.
- `NetworkProofs`, for any sizes of windows, buffers, pbufs, rings and tables,
  and any threads:
  - `TcpWaitersCorrect`: no thread is suspended beside what it waits for, and
    a socket without an error has a PCB that lwIP has not freed, unless its
    connection was reset in the accept queue. `TcpPcbInv` relates the error of a socket to
    whether lwIP still has its PCB, the accept queue, and the events that are
    enabled; the property, with that of the deadlines, is inductive with them.
    `TcpFreedInv` says of a PCB that was freed in the queue that nothing has come
    from it: no data and no end of file.
  - `TcpDataCorrect`: what `recv()` returns is what arrived, and what `send()`
    writes is its strings. `GotInv` makes the units that were returned and
    those in the chain of buffers the numbers from 1 on without a gap, up to the
    last that lwIP has passed on; `WindowInv` adds them, what is on the way and
    what the peer may still send up to the window, and puts the end of file
    after all of them. `WrittenInv`, `PlaceInv` and `ReturnedInv` do the same for
    the position in the strings, across partial writes and errors.
  - `UdpCorrect`, and `UdpRefinesFifo`, the refinement of `PacketFifo` by the
    ring: the packets returned and those in the ring, read from `head` on
    modulo the capacity, are the packets kept, in order (`UdpQueueInv`).
  - `ScanCorrect`: results and the counts of those dropped add up, modulo the
    width of the counter (`ScanCountInv`), and the queue that the driver is
    given is kept until the iterator is closed, but for one that was dropped
    and for a scan that did not start (`ScanLiveInv`).
  - `AnswersCorrect`: the answer that a call returns is that of its request.
    The invariant adds that a slot in use has one owner and that what it says
    was found is the owner's (`DnsOwnSlot`, `DnsOwnAddress`).
- `NumberProofs`, about the models of numbers and bytes. Powers of two, which the
  provers do not know, are numbers of subsets (`PowerIsSubsets`, from which come
  `PowerNext` and `PowerSum`), and a recursive function on an interval exists
  and takes its steps (`Iterates`).
  - `TimesCorrect`: a thread sleeps until the time that was meant, and times
    compare. The width of an integer is a parameter, so the arithmetic is that
    of multiples of any number: `NearTime` shows that `to_ticks64()` finds the
    time with the given low bits in the half range on each side of the clock,
    `SameLowBits` that there is only one. `MeansTime` relates the time that the
    thread sleeps until to what was meant: the low bits of one that is not too
    far ahead, the time itself, or the cap, when both lie beyond the clock's
    end. It is inductive because the clock only approaches a time that is ahead.
    `DataAssumption` keeps the clock one range of an integer away from the end
    of the times, which is some 290000 years after the start.
  - `MemCorrect`: a call on a buffer acts within it, on just the bytes it asks
    for, and is refused otherwise, unless its range slips through: `Slips` is
    what wraps around to an end inside, and just these calls are undefined. The arithmetic is modulo the number of offsets, of which only the size
    matters: `MemBounds` and `MemDevBounds` show that the comparisons of the code
    accept just the ranges that lie inside and those that wrap around to an end
    inside. `MemPrefix` relates `find()` to the sequence it searches.
  - `Int64Correct`: every call on an Int64 computes what it should, for any
    width. The bits of a value are never looked at: the arithmetic is that of
    remainders modulo `2 ^ W`, of which each value has one in the range of an
    Int64, so that sums, differences and products of any representatives agree.
    Division and modulo of the code, which round towards zero and correct the
    result, are compared with the one quotient and remainder that fit
    (`DivisionIs`), and together make up the dividend, also where the quotient
    overflows. A number is an integer of halves; each integer for which
    `int64_fits_number()` holds is a number, so that it is compared as one, and
    any other is compared with the integers around the number, if it has any
    in the range: `Beyond` are the comparisons for which it has not. `tonumber()`
    returns no number that is further away than another. What is parsed is
    what its digits, by remainder and quotient, add up to again, in any base.
- `DataProofs`:
  - About `EventWait`: `TypeCorrect`; `WaitCorrect`, that no condition is lost;
    `DisableCorrect`; `WatchCorrect`, the action property `KeepsWatching`.
    `WatchInv` extends `NoLostCondition` to the window between the failed test
    and the registration, in which the thread is not suspended yet: its events
    are enabled and, if a condition has become true, pending. `QueueInv` says
    that each event is queued once, and `DisabledIsForgotten` is part of the
    invariant, since enabling an event must not revive old watchers.
    `WatchCorrect` needs `RunInv`, that the thread that executes is active: only
    it registers and unregisters, and a dead thread with the same event does not.
  - `FilesCorrect`: littlefs lists just the open files, within the device, for
    any paths, handles, sizes of blocks and of the device, and any number of
    writes and mounts. `LfsHandleInv` adds that no handle was opened in a mount
    to come, so that those which a mount leaves behind stay stale. The property is
    about handles within their mount;
    `LfsSizeInv` that the counts in the superblock, in littlefs and in the
    configuration each fit in the device.
  - `LoaderCorrect`: a module is loaded from a whole file. `LoaderInv`: what was
    given to `lua_load()` followed by what is left of the file is its content,
    and when the loop has ended without an error nothing is left.
  - `ListCorrect`: a call on a list is one on a sequence of elements, nil
    included, but for `remove()` with the position after the last, of which it
    says what it does (`CutsLast`); no other call leaves an element beyond the
    length (`Hung`). `ListInv` adds that a table whose length is not recorded has no nil
    among its elements, so that counting them gives the length. The operators
    that shift elements are then compared with those on sequences point by point
    (`InsertAtIs`, `RemoveAtIs`), and a sort is a bijection of positions, under
    which each element occurs as often as before (`ListPermuted`).
  - `ArrayCorrect`: a call on an array acts on just the elements it names, for
    any number of bits in a byte, any size of an element and any capacity.
    `LeavesOf` names what is left of a value after each byte, `ReadsBack` shows
    that the bytes add up to the remainder modulo `Radix`, by
    `RemainderByProduct` for each, and `StoresReduced` that what `get()` finds is
    what was set, reduced to the type: signed, unsigned or a string. `ArraySets`
    is the common part of `set()`, `fill()` and `append()`.

- `SymbolProofs`: `HashCorrect`, that the hash of a symbol table is perfect, for
  any numbers of keys and vertices and any graph.
  - The values: `HashValued` says that the last entry of a vertex on the stack
    is the one its value was computed for, `HashReached` that its parent has
    been visited, and `HashLoopInv` that a vertex visited without a cycle has
    one key that leads back, the one it was pushed for. So each key is accounted
    for when the second of its vertices is visited.
  - An attempt is given up just when the graph has a cycle. A graph is acyclic
    when every set of keys has a leaf, a vertex at which just one of them ends.
    `HashTreeInv` says so of the keys between visited vertices
    (`HashForestGrows`), and that a set of keys connects any two vertices of the
    tree being visited, each other vertex on it being the end of two
    (`HashPath`, `HashLinkedGrows`). `HashGrows` follows the loop over the
    neighbours of a vertex, and says what made it stop: a second key back to the
    tree, which closes the path to a set of keys without a leaf (`HashCycleIs`).
  - The packed values. `Bits(x, s, l)` are the `l` bits of `x` from `s` on, and
    `NumberProofs` has what becomes of them when numbers are shifted, added and
    taken apart (`BitsBelow`, `BitsJoin`, `BitsOfSum`, `BitsOfBits`). The bytes
    are those of the sum of the shifted values (`HashBytes`), in which no value
    touches the bits of another (`HashSumBits`), and the one to three bytes that
    a lookup reads hold all those of its value (`HashLookup`).

Liveness stays with TLC, as the provers do not support it: `ThreadsProgress`,
`DriversAnswer`, `ConditionIsSeen`, `CallsReturn`, and `RequestsAreAnswered` of
`I2cSlave`, its only property. Every safety property of the passing runs is
stated by a theorem.

## Findings

Where the code and its documentation disagree, a run shows it.

- `eq_tail_removal`: `remove_pending_nolock()` (`lib/pico/event.c:56`) does not
  update the tail when it unlinks the last of several pending events. The next
  event that is set is linked behind the removed one, is not in the list and is
  not dispatched, and the removed event is marked pending again.
- `tl_joiners`: the third thread that joins a thread is not registered
  (`lib/common/mlua.thread.c:334` pushes the wrong value) and never returns.
- `ac_suspends`: a trigger that comes while a callback suspends its thread can
  be consumed by resuming the callback; the handler then suspends without
  testing the flag again.
- `dw_getc`: `getc()` and `is_readable_within_us()` of a UART suspend without
  unmasking the interrupt that would resume them.
- `i2c_nack`: an I2C write whose last bytes are not acknowledged returns the
  number of bytes, and the error aborts the next call.
- `i2c_slave`: a master that reads before it has written is not answered, as
  the request's interrupt is unmasked only after a first request.
- `tcp_send_deadline`: `send()` of a TCP socket ignores its deadline once it
  waits for room.

Observed while modelling, without a run of their own:

- An event has one watcher, the last thread to wait for it, while
  `docs/core.md:227` speaks of a set of them (`EventWait`).
- `set_callback()` of an alarm keeps the pending bit of an earlier alarm
  (`lib/pico/hardware.timer.c:88`, `AlarmCallback`).
- After a partial write, the next one of a TCP `send()` is capped by the length
  of the string and not by what remains of it (`lib/pico/lwip.tcp.c:317`,
  `TcpSocket`).
- A connection that is reset while it is in the accept queue stays there:
  `handle_err()` returns early for it (`lib/pico/lwip.tcp.c:47`), and lwIP frees
  the PCB. `accept()` (206-224) makes a socket of it, which has no error and
  whose `recv()` waits for nothing; `close()` of the listener (118-121) aborts
  it again. `TcpSocket` has both, as the states `"reset"` and `"freed"`.
- The driver of a Wi-Fi scan keeps a pointer to a queue that only the iterator's
  values keep alive (`lib/pico/pico.cyw43.wifi.c:217-242`): values that are dropped
  outside of a `for` loop leave the driver with memory that is free, and the event
  enabled, so that each later scan is refused; a scan that fails to start does
  not clear `scan_queue`. Both are in `WifiScan` (`Drop`, `mod_scan`).
- An I2C read, or a deadline, leaves a STOP condition or a transfer behind that
  the next call meets (`lib/pico/hardware.i2c.c:118`, `I2cTransfer`).
- `remove()` of a list takes the position after the last element
  (`lib/common/mlua.list.c:177-189`): it lowers the length without removing
  anything, so that the last element stays beyond it, and comes back when `len()`
  makes the list longer (`NilList`).
- The range of a buffer is checked by the sum of its offset and length, which are
  unsigned and may wrap (`lib/common/mlua.mem.c:58`, and
  `lib/common/mlua.block.mem.c:21` behind `mlua.block.c:28`): a negative length
  from an offset that is not smaller passes. `read()` then finds no memory for the
  result; `get()`, `find()` and `fill()` leave the buffer (`MemBuffer`).
- `tonumber()` of an Int64 rounds (`lib/common/mlua.int64.c:256`), where the
  conversions to an Int64 and to an integer fail. An Int64 with more bits than
  the mantissa compares with a number beyond its range as if the two were equal
  for `<` and `<=`, whichever is larger (396, 403; `Int64`).
- A file that is still open when its filesystem is unmounted is passed to littlefs
  all the same, since `check_File()` and `File_close()` do not look at
  `fs->mounted` (`lib/common/mlua.fs.lfs.c:501-519`, `LfsFilesystem`).
- `push_timeout_us()` of the inter-core FIFO lacks the `__sev()` of
  `push_blocking()` (`lib/pico/pico.multicore.fifo.c:93`), so that a core which
  waits for it in WFE, its event not being enabled, sleeps until something else
  wakes it. The pushes are not modelled.

The models named here behave like the code. The properties of `TcpSocket` about
PCBs, and those of `WifiScan`, `NilList`, `MemBuffer` and `Int64`, say in which calls
it happens, and that it happens in no others; those of `EventWait`,
`AlarmCallback`, `I2cTransfer` and `LfsFilesystem`, and `SendInOrder`, are stated
for the other cases.

## Not modelled

- Close handlers that call the scheduler while their thread is being killed,
  names, statistics and the blocking mode of threads: a close handler runs
  arbitrary Lua code in the middle of a step of `ThreadLists`.
- The host build, where there are no interrupts.
- Which interrupt priority preempts which: handlers are atomic here, since
  they work under the event lock or on one word.
- The pushes to the inter-core FIFO, which poll, and `pico.stdio`: its flag of
  available characters has the shape of `UserIrq`, and the rest depends on when
  the SDK's drivers report characters again, which is not in the repository.
- The accesses to registers in all the hardware modules, the PIO assembler,
  and the accessors of lwIP's netif, pbuf and addresses: one call of the SDK or
  the library each, without state of their own.
- Wi-Fi connections and access points: the driver keeps their state, and is
  not in the repository.
- Floating-point elements of arrays, formatting and parsing of numbers,
  comparison and printing of lists and arrays.
- The flash block device, which calls the SDK with interrupts disabled, and
  attributes, garbage collection and traversal of littlefs.
- The creation of interpreters, classes and modules through the Lua API, the
  Lua libraries and the unit test framework: sequential, and a matter of what
  Lua itself does.

## What could follow

- Close handlers inside `Kill`, as a state of `ThreadLists` between the reading
  and the writing of the link.
- Both ends of the inter-core FIFO in one module, with the `__sev()` of each
  push.
