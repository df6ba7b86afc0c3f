---------------------------- MODULE DriversProofs ----------------------------
(***************************************************************************)
(* Proofs about the drivers of MCDrivers.tla: for each model an inductive  *)
(* invariant (XInv, with XInit and XStep) and, where a callback or a       *)
(* transfer ends, what it gives (XCalls, XTakes, XReturns, XCounts).  They *)
(* are joined at the end: the models share no variable but those of the    *)
(* handler thread, and which names the one that moves.                     *)
(***************************************************************************)
EXTENDS MCDrivers, Integers, Sequences, TLAPS

-----------------------------------------------------------------------------
(* DriverWait, the waits of a single thread, which stands on its own. *)

WaitInv == TypeOK /\ TransferIsArmed

\* The initial states satisfy the invariant.
LEMMA WaitInit == Init => WaitInv
<1> SUFFICES ASSUME Init PROVE WaitInv
  OBVIOUS
<1> USE DEF Init
<1>1. len \in 0..MaxLen /\ offset \in 0..len /\ level \in 0..Depth
  BY SizesAssumption
<1>2. pc \in Locations /\ deadline \in {"none", "future", "reached"}
  BY DEF Locations
<1>3. /\ asserted \in BOOLEAN /\ unmasked \in BOOLEAN
      /\ queued \in BOOLEAN /\ timeout \in BOOLEAN
  OBVIOUS
<1>4. pc # "suspended"
  OBVIOUS
<1> QED
  BY <1>1, <1>2, <1>3, <1>4 DEF WaitInv, TypeOK, TransferIsArmed, SuspendedIsArmed

\* A step of a loop function leaves the thread out of "suspended" and the
\* mask and the event alone.
LEMMA WaitLoop ==
    ASSUME WaitInv, Loop
    PROVE  /\ pc' \in Locations \ {"suspended"}
           /\ UNCHANGED <<call, len, deadline, timeout, unmasked, queued>>
           /\ offset' \in 0..len
           /\ level' \in 0..Depth
           /\ asserted' \in BOOLEAN
<1> USE DEF WaitInv, TypeOK, callVars, irqVars, Finish, MustWait, Locations
<1>1. CASE Take /\ offset < len /\ offset' = offset + 1
           /\ UNCHANGED <<call, len, deadline, timeout, pc>>
  <2>1. level' \in 0..Depth /\ offset' \in 0..len
    BY <1>1, SizesAssumption DEF Take
  <2>2. asserted' \in BOOLEAN /\ UNCHANGED <<unmasked, queued>>
    BY <1>1, Zenon DEF Take
  <2>3. pc' = "loop"
    BY <1>1 DEF Loop
  <2> QED
    BY <1>1, <2>1, <2>2, <2>3
<1>2. CASE Deliver
  <2>1. level' \in 0..Depth /\ offset' \in 0..len
    BY <1>2, SizesAssumption DEF Deliver, Take
  <2>2. asserted' \in BOOLEAN /\ UNCHANGED <<unmasked, queued>>
    BY <1>2, Zenon DEF Deliver, Take
  <2> QED
    BY <1>2, <2>1, <2>2 DEF Deliver
<1>3. CASE Finish /\ UNCHANGED callVars
  BY <1>3
<1>4. CASE MustWait
  BY <1>4
<1> QED
  BY <1>1, <1>2, <1>3, <1>4, Zenon DEF Loop, read_loop, write_loop, getc_loop,
     fifo_get_loop, is_readable_loop, pop_loop

\* Every step preserves the invariant.  Only UnmaskAndSuspend makes a thread
\* suspended; handle_irq masks the source but leaves the event pending, and
\* Dispatch takes the event but resumes the thread.
LEMMA WaitStep == WaitInv /\ [Next]_vars => WaitInv'
<1> SUFFICES ASSUME WaitInv, [Next]_vars PROVE WaitInv'
  OBVIOUS
<1> USE DEF WaitInv, TypeOK, TransferIsArmed, SuspendedIsArmed, callVars,
    irqVars, Locations
<1>1. CASE Arrive
  BY <1>1, SizesAssumption DEF Arrive
<1>2. CASE Assert
  BY <1>2 DEF Assert
<1>3. CASE handle_irq
  BY <1>3 DEF handle_irq
<1>4. CASE Begin
  <2>1. call' \in Calls /\ pc' = "loop" /\ UNCHANGED <<level, irqVars>>
    BY <1>4 DEF Begin
  <2>2. len' \in 0..MaxLen /\ offset' \in 0..len'
    BY <1>4, SizesAssumption DEF Begin
  <2>3. deadline' \in {"none", "future", "reached"} /\ timeout' \in BOOLEAN
    BY <1>4 DEF Begin
  <2> QED
    BY <2>1, <2>2, <2>3
<1>5. CASE Loop
  BY <1>5, WaitLoop
<1>6. CASE UnmaskAndSuspend
  <2>1. unmasked' \in BOOLEAN /\ UNCHANGED <<callVars, level, asserted, queued>>
    BY <1>6, Zenon DEF UnmaskAndSuspend
  <2>2. call \notin Polling => unmasked'
    BY <1>6, Zenon DEF UnmaskAndSuspend, Unmasks, Polling
  <2>3. pc' = "suspended"
    BY <1>6 DEF UnmaskAndSuspend
  <2> QED
    BY <2>1, <2>2, <2>3
<1>7. CASE Dispatch
  BY <1>7 DEF Dispatch
<1>8. CASE Reach
  BY <1>8 DEF Reach
<1>9. CASE Resume
  BY <1>9 DEF Resume
<1>10. CASE Run
  BY <1>10 DEF Run
<1>11. CASE Kill
  BY <1>11 DEF Kill
<1>12. CASE UNCHANGED vars
  BY <1>12 DEF vars
<1> QED
  BY <1>1, <1>2, <1>3, <1>4, <1>5, <1>6, <1>7, <1>8, <1>9, <1>10, <1>11,
     <1>12 DEF Next

\* The invariant holds in every reachable state.
THEOREM WaitInvariance == Spec => []WaitInv
  BY WaitInit, WaitStep, PTL DEF Spec

\* The variables of DriverWait keep their types.
THEOREM TypeCorrect == Spec => []TypeOK
<1>1. WaitInv => TypeOK
  BY DEF WaitInv
<1> QED
  BY <1>1, WaitInvariance, PTL

\* A thread that is suspended in a transfer has its event pending or its
\* interrupt unmasked: the hand-over between the loop functions of
\* hardware.uart.c, pico.multicore.fifo.c and hardware.adc.c and their
\* interrupt handlers has no gap, whatever the depth and the length.
THEOREM TransferCorrect == Spec => []TransferIsArmed
<1>1. WaitInv => TransferIsArmed
  BY DEF WaitInv
<1> QED
  BY <1>1, WaitInvariance, PTL

-----------------------------------------------------------------------------
(* GpioIrq. *)

GpioTypeInv ==
    /\ intr \subseteq Gpio!Triggers /\ inte \subseteq gmask
    /\ gmask \subseteq Gpio!Triggers
    /\ gpending \subseteq Gpio!Triggers /\ taken \subseteq Gpio!Triggers
    /\ block \in 0..(GpioBlocks - 1)
    /\ gpc # "none" => gevent # "disabled"

\* Edges are never masked, and each one that is latched or stored came after
\* it was taken last.
GpioEdgeInv ==
    /\ gmask \cap Gpio!Edges \subseteq inte
    /\ (intr \cup gpending) \cap Gpio!Edges \subseteq unseen

\* What the handler thread has read from the hardware, before it mixes in what
\* is stored: events of its block, and edges that have not been taken.
GpioRawInv == gpc = "stored" =>
    /\ \A e \in taken : Gpio!BlockOf(e) = block
    /\ taken \cap Gpio!Edges \subseteq unseen

GpioInv ==
    /\ GpioTypeInv /\ GpioEdgeInv /\ GpioRawInv
    /\ Gpio!StoredEdgesAreTaken /\ Gpio!MaskedLevelsReturn

LEMMA GpioKinds ==
    /\ Gpio!Edges \subseteq Gpio!Triggers /\ Gpio!Levels \subseteq Gpio!Triggers
    /\ Gpio!Edges \cap Gpio!Levels = {}
    /\ \A e \in Gpio!Triggers : e \in Gpio!Edges \/ e \in Gpio!Levels
    /\ \A e \in Gpio!Triggers : Gpio!BlockOf(e) \in 0..(GpioBlocks - 1)
BY DEF Gpio!Triggers, Gpio!Edges, Gpio!Levels, Gpio!Pins, Gpio!BlockOf

LEMMA GpioInit == Gpio!Init => GpioInv
BY DriversAssumption
DEF Gpio!Init, GpioInv, GpioTypeInv, GpioEdgeInv, GpioRawInv, Gpio!StoredEdgesAreTaken,
    Gpio!MaskedLevelsReturn

\* The pins, and the interrupt handler: what it stores or masks leaves the
\* event pending.
LEMMA GpioHardware ==
    ASSUME GpioInv,
           \/ \E e \in Gpio!Triggers : Gpio!PinEdge(e) \/ Gpio!PinLevel(e)
           \/ Gpio!handle_gpio_irq
    PROVE  GpioInv'
<1>1. ASSUME NEW e \in Gpio!Triggers, Gpio!PinEdge(e) \/ Gpio!PinLevel(e)
      PROVE  GpioInv'
  <2>1. /\ intr' \subseteq intr \cup {e}
        /\ unseen \subseteq unseen' /\ (e \in Gpio!Edges => e \in unseen')
        /\ UNCHANGED <<inte, gmask, gpending, gevent, gpc, block, taken>>
    BY <1>1, GpioKinds DEF Gpio!PinEdge, Gpio!PinLevel, Gpio!threadVars
  <2>2. GpioTypeInv' /\ GpioEdgeInv' /\ GpioRawInv'
    BY <2>1, GpioKinds DEF GpioInv, GpioTypeInv, GpioEdgeInv, GpioRawInv
  <2>3. Gpio!StoredEdgesAreTaken' /\ Gpio!MaskedLevelsReturn'
    BY <2>1 DEF GpioInv, Gpio!StoredEdgesAreTaken, Gpio!MaskedLevelsReturn, Gpio!WillTake
  <2> QED BY <2>2, <2>3 DEF GpioInv
<1>2. CASE Gpio!handle_gpio_irq
  <2> DEFINE trig == (inte \cap intr) \cap gmask
  <2>1. /\ intr' = intr \ (trig \cap Gpio!Edges)
        /\ gpending' = gpending \cup (trig \cap Gpio!Edges)
        /\ inte' = inte \ (trig \cap Gpio!Levels)
        /\ gevent' = IF trig = {} THEN gevent ELSE "pending"
        /\ UNCHANGED <<gmask, gpc, block, taken, unseen>>
    BY <1>2 DEF Gpio!handle_gpio_irq, Gpio!threadVars
  <2>2. trig \subseteq intr /\ trig \subseteq Gpio!Triggers
    BY DEF GpioInv, GpioTypeInv
  <2>3. \A e \in trig : gevent' = "pending"
    BY <2>1
  <2>4. gevent = "pending" => gevent' = "pending"
    BY <2>1
  <2>5. gevent # "disabled" => gevent' # "disabled"
    BY <2>1
  <2> HIDE DEF trig
  <2>6. GpioTypeInv' /\ GpioEdgeInv' /\ GpioRawInv'
    BY <2>1, <2>2, <2>5, GpioKinds DEF GpioInv, GpioTypeInv, GpioEdgeInv, GpioRawInv
  <2>7. Gpio!StoredEdgesAreTaken' /\ Gpio!MaskedLevelsReturn'
    BY <2>1, <2>3, <2>4
    DEF GpioInv, Gpio!StoredEdgesAreTaken, Gpio!MaskedLevelsReturn, Gpio!WillTake
  <2> QED BY <2>6, <2>7 DEF GpioInv
<1> QED BY <1>1, <1>2

\* The walk of the handler thread over the blocks.
LEMMA GpioWalk ==
    ASSUME GpioInv, Gpio!Dispatch \/ Gpio!handle_irq_event
    PROVE  GpioInv'
<1>1. CASE Gpio!Dispatch
  <2>1. gpc' = "raw" /\ block' = 0 /\ gevent' = "idle"
        /\ UNCHANGED <<intr, inte, gmask, gpending, taken, unseen>>
    BY <1>1 DEF Gpio!Dispatch
  <2>2. GpioTypeInv' /\ GpioEdgeInv' /\ GpioRawInv'
    BY <2>1, DriversAssumption DEF GpioInv, GpioTypeInv, GpioEdgeInv, GpioRawInv
  <2>3. \A e \in Gpio!Triggers : Gpio!WillTake(e)'
    BY <2>1, GpioKinds DEF Gpio!WillTake
  <2>4. gpending' \subseteq Gpio!Triggers /\ gmask' \subseteq Gpio!Triggers
    BY <2>2 DEF GpioTypeInv
  <2> QED
    BY <2>2, <2>3, <2>4 DEF GpioInv, Gpio!StoredEdgesAreTaken, Gpio!MaskedLevelsReturn
<1>2. CASE Gpio!TakeRaw
  <2>1. /\ gpc = "raw" /\ gpc' = "stored"
        /\ taken' = {e \in intr : Gpio!BlockOf(e) = block}
        /\ UNCHANGED <<intr, inte, gmask, gpending, gevent, unseen, block>>
    BY <1>2 DEF Gpio!TakeRaw, Gpio!irqVars
  <2>2. GpioTypeInv' /\ GpioEdgeInv' /\ GpioRawInv'
    BY <2>1 DEF GpioInv, GpioTypeInv, GpioEdgeInv, GpioRawInv
  <2>3. Gpio!StoredEdgesAreTaken' /\ Gpio!MaskedLevelsReturn'
    BY <2>1 DEF GpioInv, Gpio!StoredEdgesAreTaken, Gpio!MaskedLevelsReturn, Gpio!WillTake
  <2> QED BY <2>2, <2>3 DEF GpioInv
<1>3. CASE Gpio!TakeStored
  <2>1. /\ gpc = "stored" /\ gpc' = "call" /\ ~Gpio!Firing
        /\ taken' = (taken \cup {e \in gpending : Gpio!BlockOf(e) = block}) \cap gmask
        /\ gpending' = {e \in gpending : Gpio!BlockOf(e) # block}
        /\ unseen' = unseen \ taken'
        /\ UNCHANGED <<intr, inte, gmask, gevent, block>>
    BY <1>3 DEF Gpio!TakeStored, Gpio!Acknowledged
  <2>2. inte \cap intr = {}
    BY <2>1 DEF Gpio!Firing, GpioInv, GpioTypeInv
  <2>3. (intr \cap Gpio!Edges) \cap taken' = {}
    BY <2>1, <2>2 DEF GpioInv, GpioEdgeInv
  <2>4. \A e \in taken' : Gpio!BlockOf(e) = block
    BY <2>1 DEF GpioInv, GpioRawInv
  <2>5. GpioTypeInv' /\ GpioRawInv'
    BY <2>1 DEF GpioInv, GpioTypeInv, GpioRawInv
  <2>6. GpioEdgeInv'
    BY <2>1, <2>3, <2>4 DEF GpioInv, GpioEdgeInv
  <2>7. Gpio!StoredEdgesAreTaken'
    BY <2>1 DEF GpioInv, Gpio!StoredEdgesAreTaken, Gpio!WillTake
  <2>8. Gpio!MaskedLevelsReturn'
    BY <2>1 DEF GpioInv, Gpio!MaskedLevelsReturn, Gpio!WillTake
  <2> QED BY <2>5, <2>6, <2>7, <2>8 DEF GpioInv
<1>4. CASE Gpio!Call \/ Gpio!CallbackReturns
  <2>1. /\ gpc \in {"call", "callback"} /\ gpc' \in {"call", "callback"}
        /\ taken' \subseteq taken
        /\ UNCHANGED <<intr, inte, gmask, gpending, gevent, unseen, block>>
    BY <1>4 DEF Gpio!Call, Gpio!CallbackReturns, Gpio!irqVars
  <2>2. GpioTypeInv' /\ GpioEdgeInv' /\ GpioRawInv'
    BY <2>1 DEF GpioInv, GpioTypeInv, GpioEdgeInv, GpioRawInv
  <2>3. Gpio!StoredEdgesAreTaken' /\ Gpio!MaskedLevelsReturn'
    BY <2>1 DEF GpioInv, Gpio!StoredEdgesAreTaken, Gpio!MaskedLevelsReturn, Gpio!WillTake
  <2> QED BY <2>2, <2>3 DEF GpioInv
<1>5. CASE Gpio!NextBlock
  <2>1. /\ gpc = "call"
        /\ inte' = inte \cup Gpio!Unmasked
        /\ IF block = GpioBlocks - 1 THEN gpc' = "wait" /\ block' = 0
                                     ELSE gpc' = "raw" /\ block' = block + 1
        /\ UNCHANGED <<intr, gmask, gpending, gevent, taken, unseen>>
    BY <1>5 DEF Gpio!NextBlock
  <2>2. block \in 0..(GpioBlocks - 1) /\ GpioBlocks \in Nat \ {0}
    BY DriversAssumption DEF GpioInv, GpioTypeInv
  <2>3. block' \in 0..(GpioBlocks - 1)
    BY <2>1, <2>2
  <2>4. Gpio!Unmasked \subseteq gmask
    BY DEF Gpio!Unmasked
  <2>5. GpioTypeInv' /\ GpioEdgeInv' /\ GpioRawInv'
    BY <2>1, <2>3, <2>4 DEF GpioInv, GpioTypeInv, GpioEdgeInv, GpioRawInv
  <2>6. \A e \in Gpio!Triggers : Gpio!WillTake(e) => Gpio!WillTake(e)'
    <3> SUFFICES ASSUME NEW e \in Gpio!Triggers, Gpio!WillTake(e)
                 PROVE  Gpio!WillTake(e)'
      OBVIOUS
    <3>1. Gpio!BlockOf(e) \in 0..(GpioBlocks - 1)
      BY GpioKinds
    <3>2. gevent = "pending" \/ Gpio!BlockOf(e) > block
      BY <2>1 DEF Gpio!WillTake
    <3>3. CASE gevent = "pending"
      BY <2>1, <3>3 DEF Gpio!WillTake
    <3>4. CASE Gpio!BlockOf(e) > block
      <4>1. block # GpioBlocks - 1
        BY <2>2, <3>1, <3>4
      <4>2. gpc' = "raw" /\ block' = block + 1
        BY <2>1, <4>1
      <4>3. Gpio!BlockOf(e) > block' \/ Gpio!BlockOf(e) = block'
        BY <2>2, <3>1, <3>4, <4>2
      <4> QED BY <4>2, <4>3 DEF Gpio!WillTake
    <3> QED BY <3>2, <3>3, <3>4
  <2>7. gpending \subseteq Gpio!Triggers /\ Gpio!Levels \subseteq Gpio!Triggers
    BY GpioKinds DEF GpioInv, GpioTypeInv
  <2>8. Gpio!StoredEdgesAreTaken'
    BY <2>1, <2>6, <2>7 DEF GpioInv, Gpio!StoredEdgesAreTaken
  <2>9. Gpio!MaskedLevelsReturn'
    BY <2>1, <2>6, <2>7 DEF GpioInv, Gpio!MaskedLevelsReturn, Gpio!Unmasked
  <2> QED BY <2>5, <2>8, <2>9 DEF GpioInv
<1> QED BY <1>1, <1>2, <1>3, <1>4, <1>5 DEF Gpio!handle_irq_event

\* The calls of Lua code, which forget what they acknowledge.
LEMMA GpioCalls ==
    ASSUME GpioInv,
           \/ Gpio!mod_set_irq_callback \/ Gpio!irq_handler_done
           \/ \E S \in SUBSET Gpio!Triggers :
                  \/ \E b \in BOOLEAN : Gpio!set_irq_enabled(S, b)
                  \/ Gpio!mod_acknowledge_irq(S)
    PROVE  GpioInv'
<1>1. CASE Gpio!mod_set_irq_callback
  <2>1. /\ gpc' = "raw" /\ block' = 0 /\ gevent' = "idle"
        /\ UNCHANGED <<intr, inte, gmask, gpending, taken, unseen>>
    BY <1>1 DEF Gpio!mod_set_irq_callback
  <2>2. GpioTypeInv' /\ GpioEdgeInv' /\ GpioRawInv'
    BY <2>1, DriversAssumption DEF GpioInv, GpioTypeInv, GpioEdgeInv, GpioRawInv
  <2>3. \A e \in Gpio!Triggers : Gpio!WillTake(e)'
    BY <2>1, GpioKinds DEF Gpio!WillTake
  <2>4. gpending' \subseteq Gpio!Triggers /\ gmask' \subseteq Gpio!Triggers
    BY <2>2 DEF GpioTypeInv
  <2> QED
    BY <2>2, <2>3, <2>4 DEF GpioInv, Gpio!StoredEdgesAreTaken, Gpio!MaskedLevelsReturn
<1>2. CASE Gpio!irq_handler_done
  BY <1>2, DriversAssumption
  DEF Gpio!irq_handler_done, GpioInv, GpioTypeInv, GpioEdgeInv, GpioRawInv,
      Gpio!StoredEdgesAreTaken, Gpio!MaskedLevelsReturn
<1>3. ASSUME NEW S \in SUBSET Gpio!Triggers,
             \/ \E b \in BOOLEAN : Gpio!set_irq_enabled(S, b)
             \/ Gpio!mod_acknowledge_irq(S)
      PROVE  GpioInv'
  <2>1. /\ intr' = intr \ (S \cap Gpio!Edges)
        /\ gpending' = gpending \ S /\ unseen' = unseen \ S
        /\ UNCHANGED <<gevent, gpc, block, taken>>
        /\ gpc # "stored"
    BY <1>3 DEF Gpio!set_irq_enabled, Gpio!mod_acknowledge_irq, Gpio!Acknowledge,
                Gpio!threadVars, Gpio!InLua
  <2>2. \/ gmask' = gmask \cup S /\ inte' = inte \cup S
        \/ gmask' = gmask \ S /\ inte' = inte \ S
        \/ gmask' = gmask /\ inte' = inte
    BY <1>3 DEF Gpio!set_irq_enabled, Gpio!mod_acknowledge_irq
  <2>3. GpioTypeInv' /\ GpioEdgeInv' /\ GpioRawInv'
    BY <2>1, <2>2 DEF GpioInv, GpioTypeInv, GpioEdgeInv, GpioRawInv
  <2>4. Gpio!StoredEdgesAreTaken'
    BY <2>1 DEF GpioInv, Gpio!StoredEdgesAreTaken, Gpio!WillTake
  <2>5. Gpio!MaskedLevelsReturn'
    BY <2>1, <2>2 DEF GpioInv, Gpio!MaskedLevelsReturn, Gpio!WillTake
  <2> QED BY <2>3, <2>4, <2>5 DEF GpioInv
<1> QED BY <1>1, <1>2, <1>3

LEMMA GpioStep == GpioInv /\ [Gpio!Next]_Gpio!vars => GpioInv'
<1> SUFFICES ASSUME GpioInv, [Gpio!Next]_Gpio!vars PROVE GpioInv'
  OBVIOUS
<1>1. CASE UNCHANGED Gpio!vars
  BY <1>1 DEF Gpio!vars, GpioInv, GpioTypeInv, GpioEdgeInv, GpioRawInv,
              Gpio!StoredEdgesAreTaken, Gpio!MaskedLevelsReturn, Gpio!WillTake
<1>2. CASE Gpio!Next
  <2>1. \A p \in Gpio!Pins, K \in SUBSET {"edge", "level"} :
            {p} \X K \in SUBSET Gpio!Triggers
    BY DEF Gpio!Triggers, Gpio!Edges, Gpio!Levels
  <2> QED BY <1>2, <2>1, GpioHardware, GpioWalk, GpioCalls DEF Gpio!Next
<1> QED BY <1>1, <1>2

\* An edge is taken when the raw and the stored state are mixed, and is in
\* neither of them afterwards.
LEMMA GpioTakes == GpioInv /\ [Gpio!Next]_Gpio!vars => Gpio!EdgesAreTakenOnce
<1> SUFFICES ASSUME GpioInv, [Gpio!Next]_Gpio!vars, gpc = "stored", gpc' = "call"
             PROVE  taken' \cap Gpio!Edges \subseteq unseen
  BY DEF Gpio!EdgesAreTakenOnce
<1>1. Gpio!TakeStored
  BY DEF Gpio!Next, Gpio!vars, Gpio!PinEdge, Gpio!PinLevel, Gpio!handle_gpio_irq,
         Gpio!Dispatch, Gpio!handle_irq_event, Gpio!TakeRaw, Gpio!Call,
         Gpio!CallbackReturns, Gpio!NextBlock, Gpio!mod_set_irq_callback,
         Gpio!irq_handler_done, Gpio!set_irq_enabled, Gpio!mod_acknowledge_irq,
         Gpio!threadVars
<1> QED BY <1>1 DEF Gpio!TakeStored, GpioInv, GpioEdgeInv, GpioRawInv

-----------------------------------------------------------------------------
(* PwmIrq, RtcAlarm and UserIrq: a handler thread and a flag.  A thread that *)
(* waits, or is in its callback and will wait after it, has its event       *)
(* pending when the flag is set.                                            *)

Flagged(flag) == flag /\ hpc \in {"callback", "loop"} => hqueued

PwmInv ==
    /\ Flagged(wpending # {})
    /\ wintr \cup wpending = wunseen

LEMMA PwmInit == Pwm!Init => PwmInv
BY DEF Pwm!Init, Pwm!HandlerInit, PwmInv, Flagged

LEMMA PwmStep == PwmInv /\ [Pwm!Next]_Pwm!vars => PwmInv'
<1> SUFFICES ASSUME PwmInv, [Pwm!Next]_Pwm!vars PROVE PwmInv'
  OBVIOUS
<1> USE DEF PwmInv, Flagged, Pwm!pwmVars, Pwm!handlerVars
<1>1. CASE UNCHANGED Pwm!vars
  BY <1>1 DEF Pwm!vars
<1>2. ASSUME NEW slice \in Channels,
             Pwm!Wrap(slice) \/ Pwm!mod_clear_irq(slice) \/ Pwm!set_irq_enabled(slice)
      PROVE  PwmInv'
  BY <1>2 DEF Pwm!Wrap, Pwm!mod_clear_irq, Pwm!set_irq_enabled
<1>3. CASE Pwm!handle_pwm_irq
  BY <1>3 DEF Pwm!handle_pwm_irq, Pwm!Firing, Pwm!SetEvent, Pwm!Taken
<1>4. CASE Pwm!handle_pwm_event
  BY <1>4 DEF Pwm!handle_pwm_event, Pwm!Test
<1>5. CASE Pwm!mod_set_irq_handler
  BY <1>5 DEF Pwm!mod_set_irq_handler, Pwm!StartHandler, Pwm!EndHandler
<1>6. CASE Pwm!HandlerStep /\ UNCHANGED Pwm!pwmVars
  BY <1>6 DEF Pwm!HandlerStep, Pwm!Dispatch, Pwm!RunHandler, Pwm!CallbackReturns,
              Pwm!OtherRuns
<1> QED BY <1>1, <1>2, <1>3, <1>4, <1>5, <1>6 DEF Pwm!Next

\* The handler is called with what is pending, which has wrapped.
LEMMA PwmCalls == PwmInv /\ [Pwm!Next]_Pwm!vars => Pwm!CallIsForWrapped
<1> SUFFICES ASSUME PwmInv, [Pwm!Next]_Pwm!vars, hpc = "test", hpc' = "callback"
             PROVE  wgiven' # {} /\ wgiven' \subseteq wunseen
  BY DEF Pwm!CallIsForWrapped, Pwm!CallbackStarts
<1>1. Pwm!handle_pwm_event
  BY DEF Pwm!Next, Pwm!vars, Pwm!Wrap, Pwm!mod_clear_irq, Pwm!set_irq_enabled,
         Pwm!handle_pwm_irq, Pwm!SetEvent, Pwm!mod_set_irq_handler, Pwm!StartHandler,
         Pwm!EndHandler, Pwm!HandlerStep, Pwm!Dispatch, Pwm!RunHandler,
         Pwm!CallbackReturns, Pwm!handlerVars, Pwm!OtherRuns, Pwm!LuaRuns
<1> QED BY <1>1 DEF PwmInv, Pwm!handle_pwm_event, Pwm!Test

-----------------------------------------------------------------------------
HandlerTypeInv ==
    /\ henabled \in BOOLEAN /\ hqueued \in BOOLEAN
    /\ hpc \in {"none", "ready", "test", "callback", "loop"}
    /\ hpc # "none" => henabled

\* While set_alarm() or disable_alarm() is between its two halves, the
\* interrupt cannot come, and the handler thread does not look.
RtcInv ==
    /\ HandlerTypeInv
    /\ {rarmed, rintr, rinte, rpending, due} \subseteq BOOLEAN
    /\ rcall \in {"none", "set", "disable"}
    /\ Flagged(rpending)
    /\ rintr \/ rpending => due
    /\ rcall # "none" => hpc # "test"
    /\ rcall = "set" => ~rinte /\ ~rpending
    /\ rcall = "disable" => ~rarmed /\ ~rintr

LEMMA RtcInit == Rtc!Init => RtcInv
BY DEF Rtc!Init, Rtc!HandlerInit, RtcInv, HandlerTypeInv, Flagged

LEMMA RtcStep == RtcInv /\ [Rtc!Next]_Rtc!vars => RtcInv'
<1> SUFFICES ASSUME RtcInv, [Rtc!Next]_Rtc!vars PROVE RtcInv'
  OBVIOUS
<1> USE DEF RtcInv, HandlerTypeInv, Flagged, Rtc!handlerVars, Rtc!clockVars
<1>1. CASE UNCHANGED Rtc!vars
  BY <1>1 DEF Rtc!vars
<1>2. CASE Rtc!Match
  BY <1>2 DEF Rtc!Match
<1>3. CASE Rtc!handle_alarm
  BY <1>3 DEF Rtc!handle_alarm, Rtc!SetEvent
<1>4. CASE Rtc!mod_set_alarm
  <2>1. /\ hpc # "test"
        /\ \/ henabled' = TRUE /\ hpc' = "ready" /\ UNCHANGED hqueued
           \/ UNCHANGED <<henabled, hqueued, hpc>>
        /\ rinte' = FALSE /\ rpending' = FALSE /\ rcall' = "set"
        /\ UNCHANGED <<rarmed, rintr, due>>
    BY <1>4 DEF Rtc!mod_set_alarm, Rtc!Calls, Rtc!LuaRuns, Rtc!StartHandler
  <2>2. CASE henabled' = TRUE /\ hpc' = "ready" /\ UNCHANGED hqueued
    BY <2>1, <2>2
  <2>3. CASE UNCHANGED <<henabled, hqueued, hpc>>
    BY <2>1, <2>3
  <2> QED BY <2>1, <2>2, <2>3
<1>5. CASE Rtc!SetAlarmSecond
  BY <1>5 DEF Rtc!SetAlarmSecond
<1>6. CASE Rtc!mod_enable_alarm
  BY <1>6 DEF Rtc!mod_enable_alarm, Rtc!Calls
<1>11. CASE Rtc!mod_disable_alarm
  BY <1>11 DEF Rtc!mod_disable_alarm, Rtc!Disarm, Rtc!Calls, Rtc!LuaRuns
<1>7. CASE Rtc!DisableAlarmSecond
  BY <1>7 DEF Rtc!DisableAlarmSecond, Rtc!Forget
<1>8. CASE Rtc!alarm_handler_done
  BY <1>8 DEF Rtc!alarm_handler_done, Rtc!EndHandler, Rtc!Disarm
<1>9. CASE Rtc!handle_alarm_event
  BY <1>9 DEF Rtc!handle_alarm_event, Rtc!Test
<1>10. CASE /\ rcall = "none" /\ Rtc!HandlerStep
            /\ UNCHANGED <<rarmed, rintr, rinte, rpending, rcall, due>>
  BY <1>10 DEF Rtc!HandlerStep, Rtc!Dispatch, Rtc!RunHandler, Rtc!CallbackReturns,
               Rtc!OtherRuns
<1> QED
  BY <1>1, <1>2, <1>3, <1>4, <1>5, <1>6, <1>7, <1>8, <1>9, <1>10, <1>11
  DEF Rtc!Next

LEMMA RtcCalls == RtcInv /\ [Rtc!Next]_Rtc!vars => Rtc!CallIsForDue
<1> SUFFICES ASSUME RtcInv, [Rtc!Next]_Rtc!vars, hpc = "test", hpc' = "callback"
             PROVE  due
  BY DEF Rtc!CallIsForDue, Rtc!CallbackStarts
<1>1. Rtc!handle_alarm_event
  BY DEF Rtc!Next, Rtc!vars, Rtc!Match, Rtc!handle_alarm, Rtc!SetEvent, Rtc!mod_set_alarm,
         Rtc!SetAlarmSecond, Rtc!mod_enable_alarm, Rtc!mod_disable_alarm,
         Rtc!DisableAlarmSecond, Rtc!alarm_handler_done, Rtc!StartHandler,
         Rtc!EndHandler, Rtc!HandlerStep, Rtc!Dispatch, Rtc!RunHandler,
         Rtc!CallbackReturns, Rtc!handlerVars, Rtc!OtherRuns, Rtc!LuaRuns, Rtc!Calls
<1> QED BY <1>1 DEF RtcInv, Rtc!handle_alarm_event, Rtc!Test

-----------------------------------------------------------------------------
UserInv ==
    /\ HandlerTypeInv
    /\ {nvic, on, upending, raised} \subseteq BOOLEAN
    /\ Flagged(upending)
    /\ nvic \/ upending => raised

LEMMA UserInit == User!Init => UserInv
BY DEF User!Init, User!HandlerInit, UserInv, HandlerTypeInv, Flagged

LEMMA UserStep == UserInv /\ [User!Next]_User!vars => UserInv'
<1> SUFFICES ASSUME UserInv, [User!Next]_User!vars PROVE UserInv'
  OBVIOUS
<1> USE DEF UserInv, HandlerTypeInv, Flagged, User!handlerVars
<1>1. CASE UNCHANGED User!vars
  BY <1>1 DEF User!vars
<1>2. CASE User!set_pending
  BY <1>2 DEF User!set_pending
<1>3. CASE User!handle_user_irq
  BY <1>3 DEF User!handle_user_irq, User!SetEvent
<1>4. CASE User!mod_clear \/ User!mod_set_enabled
  <2>1. /\ \/ nvic' = FALSE /\ upending' = FALSE /\ raised' = FALSE
           \/ UNCHANGED <<nvic, upending, raised>>
        /\ on' \in BOOLEAN
        /\ UNCHANGED <<henabled, hqueued, hpc>>
    BY <1>4 DEF User!mod_clear, User!mod_set_enabled, User!Clear
  <2>2. CASE nvic' = FALSE /\ upending' = FALSE /\ raised' = FALSE
    BY <2>1, <2>2
  <2>3. CASE UNCHANGED <<nvic, upending, raised>>
    BY <2>1, <2>3
  <2> QED BY <2>1, <2>2, <2>3
<1>5. CASE User!set_handler \/ User!mod_remove_handler
  <2>1. /\ \/ henabled' = TRUE /\ hpc' = "ready" /\ UNCHANGED hqueued
           \/ henabled' = FALSE /\ hpc' = "none" /\ hqueued' = FALSE
        /\ UNCHANGED <<nvic, on, upending, raised>>
    BY <1>5 DEF User!set_handler, User!mod_remove_handler, User!StartHandler,
                User!EndHandler
  <2>2. CASE henabled' = TRUE /\ hpc' = "ready" /\ UNCHANGED hqueued
    BY <2>1, <2>2
  <2>3. CASE henabled' = FALSE /\ hpc' = "none" /\ hqueued' = FALSE
    BY <2>1, <2>3
  <2> QED BY <2>1, <2>2, <2>3
<1>6. CASE User!handle_user_irq_event
  BY <1>6 DEF User!handle_user_irq_event, User!Test
<1>7. CASE User!HandlerStep /\ UNCHANGED <<nvic, on, upending, raised>>
  BY <1>7 DEF User!HandlerStep, User!Dispatch, User!RunHandler, User!CallbackReturns,
              User!OtherRuns
<1> QED BY <1>1, <1>2, <1>3, <1>4, <1>5, <1>6, <1>7 DEF User!Next

LEMMA UserCalls == UserInv /\ [User!Next]_User!vars => User!CallIsForRaised
<1> SUFFICES ASSUME UserInv, [User!Next]_User!vars, hpc = "test", hpc' = "callback"
             PROVE  raised
  BY DEF User!CallIsForRaised, User!CallbackStarts
<1>1. User!handle_user_irq_event
  BY DEF User!Next, User!vars, User!set_pending, User!handle_user_irq, User!SetEvent,
         User!mod_clear, User!mod_set_enabled, User!set_handler,
         User!mod_remove_handler, User!StartHandler, User!EndHandler,
         User!HandlerStep, User!Dispatch, User!RunHandler, User!CallbackReturns,
         User!handlerVars, User!OtherRuns, User!LuaRuns
<1> QED BY <1>1 DEF UserInv, User!handle_user_irq_event, User!Test

-----------------------------------------------------------------------------
(* Multicore. *)

CoreStates == {"lua", "launch", "enable", "first", "suspended", "ready"}

\* Threads of core 0 run one at a time.
LaunchInv ==
    /\ \A t \in Core0Threads : mstate[t] = "launch" => mrunning /\ main # "main"
    /\ \A t, u \in Core0Threads :
           mstate[t] \in {"launch", "enable", "first"} =>
               t = u \/ mstate[u] \notin {"launch", "enable", "first"}

\* What a request to shut down meets: core 1 runs its interpreter only while
\* shutdown_event is enabled, and a thread that launches has enabled it before.
Core1Inv ==
    /\ HandlerTypeInv
    /\ mrunning \in BOOLEAN /\ shutdown \in BOOLEAN /\ asked \in BOOLEAN
    /\ main \in {"off", "main", "close", "stop"}
    /\ mstate \in [Core0Threads -> CoreStates]
    /\ henabled = mrunning
    /\ main = "main" => mrunning
    /\ hpc # "none" => main = "main"
    /\ asked => mrunning /\ shutdown
    /\ Flagged(asked)
    /\ LaunchInv

LEMMA Core1Init == Core1!Init => Core1Inv
BY DEF Core1!Init, Core1!HandlerInit, Core1Inv, HandlerTypeInv, Flagged, LaunchInv, CoreStates

\* The interpreter of core 1: its end, its handler and its event.
LEMMA Core1Main ==
    ASSUME Core1Inv,
           \/ Core1!EndMain \/ Core1!CloseInterpreter \/ Core1!SetStopped
           \/ Core1!mod_set_shutdown_handler \/ Core1!shutdown_handler_done
           \/ Core1!handle_shutdown_event
           \/ Core1!CoreOne(Core1!HandlerStep) /\ UNCHANGED <<main, Core1!coreVars>>
    PROVE  Core1Inv'
<1> USE DEF Core1Inv, HandlerTypeInv, Flagged, LaunchInv, Core1!handlerVars, Core1!coreVars
<1>1. CASE Core1!EndMain
  BY <1>1 DEF Core1!EndMain
<1>2. CASE Core1!CloseInterpreter \/ Core1!SetStopped
  <2>1. /\ main \in {"close", "stop"} /\ main' \in {"stop", "off"}
        /\ UNCHANGED <<henabled, hqueued, hpc, mrunning, shutdown, asked, mstate>>
    BY <1>2 DEF Core1!CloseInterpreter, Core1!SetStopped
  <2> QED BY <2>1
<1>3. CASE Core1!mod_set_shutdown_handler
  BY <1>3 DEF Core1!mod_set_shutdown_handler
<1>4. CASE Core1!shutdown_handler_done
  BY <1>4 DEF Core1!shutdown_handler_done
<1>5. CASE Core1!handle_shutdown_event
  BY <1>5 DEF Core1!handle_shutdown_event, Core1!Test
<1>6. CASE Core1!CoreOne(Core1!HandlerStep) /\ UNCHANGED <<main, Core1!coreVars>>
  BY <1>6 DEF Core1!CoreOne, Core1!HandlerStep, Core1!Dispatch, Core1!RunHandler,
              Core1!CallbackReturns, Core1!OtherRuns
<1> QED BY <1>1, <1>2, <1>3, <1>4, <1>5, <1>6

\* The threads of core 0, which launch core 1 and ask it to stop.
LEMMA Core1Zero ==
    ASSUME Core1Inv,
           \/ Core1!DispatchStopped
           \/ \E t \in Core0Threads :
                  \/ Core1!mod_launch_core1(t) \/ Core1!Launched(t)
                  \/ Core1!mod_reset_core1(t)
                  \/ Core1!EnableStopped(t) \/ Core1!stopped_loop(t)
    PROVE  Core1Inv'
<1>1. CASE Core1!DispatchStopped
  <2>1. /\ mstate' = [t \in Core0Threads |->
                         IF mstate[t] = "suspended" THEN "ready" ELSE mstate[t]]
        /\ UNCHANGED <<henabled, hqueued, hpc, main, mrunning, shutdown, asked>>
    BY <1>1 DEF Core1!DispatchStopped, Core1!handlerVars
  <2> QED BY <2>1 DEF Core1Inv, HandlerTypeInv, Flagged, LaunchInv, CoreStates
<1>2. ASSUME NEW t \in Core0Threads, Core1!mod_launch_core1(t) PROVE Core1Inv'
  <2>1. /\ \A u \in Core0Threads : mstate[u] \notin {"launch", "enable", "first"}
        /\ ~mrunning /\ mrunning' = TRUE /\ henabled' = TRUE /\ shutdown' = FALSE
        /\ mstate' = [mstate EXCEPT ![t] = "launch"]
        /\ UNCHANGED <<hqueued, hpc, main, asked>>
    BY <1>2 DEF Core1!mod_launch_core1, Core1!CoreZero
  <2>2. ~asked /\ main # "main" /\ hpc = "none"
    BY <2>1 DEF Core1Inv
  <2>3. LaunchInv' /\ mstate' \in [Core0Threads -> CoreStates]
    BY <2>1, <2>2 DEF Core1Inv, LaunchInv, CoreStates
  <2> QED BY <2>1, <2>2, <2>3 DEF Core1Inv, HandlerTypeInv, Flagged
<1>3. ASSUME NEW t \in Core0Threads, Core1!Launched(t) PROVE Core1Inv'
  <2>1. /\ mstate[t] = "launch" /\ main' = "main"
        /\ mstate' = [mstate EXCEPT ![t] = "lua"]
        /\ UNCHANGED <<henabled, hqueued, hpc, mrunning, shutdown, asked>>
    BY <1>3 DEF Core1!Launched, Core1!handlerVars
  <2>2. mrunning /\ \A u \in Core0Threads \ {t} : mstate[u] \notin {"launch", "enable", "first"}
    BY <2>1 DEF Core1Inv, LaunchInv
  <2>3. LaunchInv' /\ mstate' \in [Core0Threads -> CoreStates]
    BY <2>1, <2>2 DEF Core1Inv, LaunchInv, CoreStates
  <2> QED BY <2>1, <2>2, <2>3 DEF Core1Inv, HandlerTypeInv, Flagged
<1>4. ASSUME NEW t \in Core0Threads, Core1!mod_reset_core1(t) PROVE Core1Inv'
  <2>1. CASE mrunning
    <3>1. /\ \A u \in Core0Threads : mstate[u] \notin {"launch", "enable", "first"}
          /\ hqueued' = (hqueued \/ henabled) /\ shutdown' = TRUE /\ asked' = TRUE
          /\ mstate' = [mstate EXCEPT ![t] = "enable"]
          /\ UNCHANGED <<henabled, hpc, main, mrunning>>
      BY <1>4, <2>1 DEF Core1!mod_reset_core1, Core1!CoreZero, Core1!RequestShutdown
    <3>2. LaunchInv' /\ mstate' \in [Core0Threads -> CoreStates]
      BY <3>1 DEF Core1Inv, LaunchInv, CoreStates
    <3> QED BY <2>1, <3>1, <3>2 DEF Core1Inv, HandlerTypeInv, Flagged
  <2>2. CASE ~mrunning
    <3>1. /\ main' = "off" /\ hpc = "none"
          /\ UNCHANGED <<henabled, hqueued, hpc, mrunning, shutdown, asked, mstate>>
      BY <1>4, <2>2 DEF Core1!mod_reset_core1, Core1!ResetCore, Core1!handlerVars, Core1Inv
    <3> QED BY <3>1 DEF Core1Inv, HandlerTypeInv, Flagged, LaunchInv
  <2> QED BY <2>1, <2>2
<1>5. ASSUME NEW t \in Core0Threads, Core1!EnableStopped(t) PROVE Core1Inv'
  <2>1. /\ mstate[t] = "enable"
        /\ \E s \in {"first", "lua"} : mstate' = [mstate EXCEPT ![t] = s]
        /\ UNCHANGED <<henabled, hqueued, hpc, main, mrunning, shutdown, asked>>
    BY <1>5 DEF Core1!EnableStopped, Core1!handlerVars
  <2>2. LaunchInv' /\ mstate' \in [Core0Threads -> CoreStates]
    BY <2>1 DEF Core1Inv, LaunchInv, CoreStates
  <2> QED BY <2>1, <2>2 DEF Core1Inv, HandlerTypeInv, Flagged
<1>6. ASSUME NEW t \in Core0Threads, Core1!stopped_loop(t) PROVE Core1Inv'
  <2>1. /\ \E s \in {"suspended", "lua"} : mstate' = [mstate EXCEPT ![t] = s]
        /\ main' = main \/ (main' = "off" /\ ~mrunning)
        /\ UNCHANGED <<henabled, hqueued, hpc, mrunning, shutdown, asked>>
    BY <1>6 DEF Core1!stopped_loop, Core1!MustWait, Core1!ResetCore, Core1!handlerVars
  <2>2. LaunchInv' /\ mstate' \in [Core0Threads -> CoreStates]
    BY <2>1 DEF Core1Inv, LaunchInv, CoreStates
  <2>3. CASE main' = main
    BY <2>1, <2>2, <2>3 DEF Core1Inv, HandlerTypeInv, Flagged
  <2>4. CASE main' = "off" /\ ~mrunning
    BY <2>1, <2>2, <2>4 DEF Core1Inv, HandlerTypeInv, Flagged
  <2> QED BY <2>1, <2>3, <2>4
<1> QED BY <1>1, <1>2, <1>3, <1>4, <1>5, <1>6

LEMMA Core1Step == Core1Inv /\ [Core1!Next]_Core1!vars => Core1Inv'
<1> SUFFICES ASSUME Core1Inv, [Core1!Next]_Core1!vars PROVE Core1Inv'
  OBVIOUS
<1>1. CASE UNCHANGED Core1!vars
  BY <1>1 DEF Core1!vars, Core1Inv, HandlerTypeInv, Flagged, LaunchInv
<1>2. CASE Core1!Next
  BY <1>2, Core1Main, Core1Zero DEF Core1!Next
<1> QED BY <1>1, <1>2

\* A single thread that resets core 1 has enabled stopped_event before it
\* waits, so that the end of the interpreter leaves it pending.
StoppedInv ==
    /\ Core1!ResetIsNotStuck
    /\ stopped \in {"disabled", "idle", "pending"}
    /\ \A t \in Core0Threads :
           mstate[t] \in {"first", "suspended", "ready"} => stopped # "disabled"

LEMMA StoppedInit == Core1!Init => StoppedInv
BY DEF Core1!Init, StoppedInv, Core1!ResetIsNotStuck

LEMMA StoppedStep ==
    ASSUME \A t, u \in Core0Threads : t = u,
           Core1Inv, StoppedInv, [Core1!Next]_Core1!vars
    PROVE  StoppedInv'
<1> USE DEF StoppedInv, Core1!ResetIsNotStuck, Core1!handlerVars, Core1!coreVars
<1>m. mstate \in [Core0Threads -> CoreStates]
  BY DEF Core1Inv
<1>1. CASE UNCHANGED Core1!vars
  BY <1>1 DEF Core1!vars
<1>2. CASE Core1!EndMain
  BY <1>2 DEF Core1!EndMain
<1>3. CASE Core1!CloseInterpreter
  BY <1>3 DEF Core1!CloseInterpreter
<1>4. CASE Core1!SetStopped
  BY <1>4, <1>m DEF Core1!SetStopped
<1>5. CASE \/ Core1!mod_set_shutdown_handler \/ Core1!shutdown_handler_done
           \/ Core1!handle_shutdown_event
           \/ Core1!CoreOne(Core1!HandlerStep) /\ UNCHANGED <<main, Core1!coreVars>>
  <2>1. UNCHANGED <<main, mrunning, stopped, mstate>>
    BY <1>5 DEF Core1!mod_set_shutdown_handler, Core1!shutdown_handler_done,
                Core1!handle_shutdown_event
  <2> QED BY <2>1
<1>6. CASE Core1!DispatchStopped
  BY <1>6, <1>m DEF Core1!DispatchStopped
<1>7. ASSUME NEW t \in Core0Threads, Core1!mod_launch_core1(t) \/ Core1!Launched(t)
      PROVE  StoppedInv'
  <2>1. mstate'[t] \in {"launch", "lua"} /\ UNCHANGED stopped
    BY <1>7, <1>m DEF Core1!mod_launch_core1, Core1!Launched
  <2> QED BY <2>1
<1>8. ASSUME NEW t \in Core0Threads, Core1!mod_reset_core1(t) PROVE StoppedInv'
  <2>1. mstate'[t] \in {"enable", "lua"} /\ UNCHANGED stopped
    BY <1>8, <1>m DEF Core1!mod_reset_core1
  <2> QED BY <2>1
<1>9. ASSUME NEW t \in Core0Threads, Core1!EnableStopped(t) PROVE StoppedInv'
  <2>1. \/ mstate'[t] = "first" /\ stopped' = "idle"
        \/ mstate'[t] = "lua" /\ UNCHANGED stopped
    BY <1>9, <1>m DEF Core1!EnableStopped
  <2> QED BY <2>1
<1>10. ASSUME NEW t \in Core0Threads, Core1!stopped_loop(t) PROVE StoppedInv'
  <2>1. \/ mstate'[t] = "suspended" /\ mrunning /\ UNCHANGED <<mrunning, stopped>>
           /\ mstate[t] \in {"first", "ready"}
        \/ mstate'[t] = "lua" /\ stopped' = "disabled"
    BY <1>10, <1>m DEF Core1!stopped_loop, Core1!MustWait
  <2> QED BY <2>1
<1> QED
  BY <1>1, <1>2, <1>3, <1>4, <1>5, <1>6, <1>7, <1>8, <1>9, <1>10 DEF Core1!Next

-----------------------------------------------------------------------------
(* DmaIrq. *)

DmaTypeInv ==
    /\ dinte \subseteq Channels
    /\ owner \in [Channels -> {"none", "me", "other"}]

\* A thread watches the events of channels that it wants, and none before it
\* has looked for their flags.
DmaWatchInv ==
    /\ dwatched \subseteq want
    /\ dpc \in {"lua", "first", "poll"} => dwatched = {}

\* WaiterIsTold is not inductive: disabling the interrupt of a channel removes
\* its event from the queue, and that event might be the one that tells of
\* another channel.  So each completion has an event of its own.
DmaToldInv == dpc = "suspended" => dpending \cap dwatched \subseteq dqueued

DmaInv == DmaTypeInv /\ DmaWatchInv /\ DmaToldInv /\ Dma!CompletionsAreKept /\ Dma!EventsMatchInte

LEMMA DmaInit == Dma!Init => DmaInv
BY DEF Dma!Init, DmaInv, DmaTypeInv, DmaWatchInv, DmaToldInv,
       Dma!CompletionsAreKept, Dma!EventsMatchInte

\* enable_irq() enables all the events or none.
LEMMA DmaEnableInv ==
    ASSUME DmaInv, NEW S \in SUBSET Channels, Dma!mod_enable_irq(S)
    PROVE  DmaInv'
<1> DEFINE new == S \ dinte
<1> USE DEF DmaInv, Dma!mod_enable_irq, Dma!callVars
<1>1. CASE \A ch \in new : owner[ch] = "none"
  <2>1. /\ owner' = [ch \in Channels |-> IF ch \in new THEN "me" ELSE owner[ch]]
        /\ dintr' = dintr \ new /\ dpending' = dpending \ new /\ dunseen' = dunseen \ new
        /\ dinte' = dinte \cup new
        /\ UNCHANGED <<dqueued, dpc, want, dwatched>>
    BY <1>1 DEF Dma!enable_events, Dma!Forget
  <2>2. DmaTypeInv' /\ Dma!EventsMatchInte'
    BY <2>1 DEF DmaTypeInv, Dma!EventsMatchInte
  <2>3. DmaWatchInv' /\ DmaToldInv' /\ Dma!CompletionsAreKept'
    BY <2>1 DEF DmaWatchInv, DmaToldInv, Dma!CompletionsAreKept
  <2> QED BY <2>2, <2>3
<1>2. CASE \E ch \in new : owner[ch] # "none"
  <2>1. UNCHANGED <<owner, dintr, dpending, dinte, dunseen, dqueued, dpc, want, dwatched>>
    BY <1>2 DEF Dma!enable_events
  <2> QED
    BY <2>1 DEF DmaTypeInv, DmaWatchInv, DmaToldInv, Dma!CompletionsAreKept,
                Dma!EventsMatchInte
<1> QED BY <1>1, <1>2

\* disable_irq() takes the events out of the queue and of the watchers.
LEMMA DmaDisableInv ==
    ASSUME DmaInv, NEW S \in SUBSET Channels, Dma!mod_disable_irq(S)
    PROVE  DmaInv'
<1>1. DmaTypeInv' /\ Dma!EventsMatchInte'
  BY DEF DmaInv, Dma!mod_disable_irq, Dma!disable_events, DmaTypeInv,
         Dma!EventsMatchInte
<1>2. DmaWatchInv' /\ DmaToldInv' /\ Dma!CompletionsAreKept'
  BY DEF DmaInv, Dma!mod_disable_irq, Dma!disable_events, DmaWatchInv, DmaToldInv,
         Dma!CompletionsAreKept
<1> QED BY <1>1, <1>2 DEF DmaInv

\* The steps of a call of wait_irq(), and the event that wakes its thread.
LEMMA DmaCallInv ==
    ASSUME DmaInv,
           \/ \E S \in SUBSET Channels : Dma!mod_wait_irq(S)
           \/ Dma!wait_irq_loop \/ Dma!Poll \/ Dma!Run
           \/ \E ch \in Channels : Dma!Dispatch(ch)
    PROVE  DmaInv'
<1>1. UNCHANGED <<dinte, owner>>
  BY DEF Dma!mod_wait_irq, Dma!wait_irq_loop, Dma!Poll, Dma!Run, Dma!Dispatch,
         Dma!irqVars
<1>2. DmaTypeInv' /\ Dma!EventsMatchInte'
  BY <1>1 DEF DmaInv, DmaTypeInv, Dma!EventsMatchInte
<1>3. ASSUME NEW S \in SUBSET Channels, Dma!mod_wait_irq(S)
      PROVE  DmaWatchInv' /\ DmaToldInv' /\ Dma!CompletionsAreKept'
  BY <1>3 DEF DmaInv, Dma!mod_wait_irq, Dma!irqVars, DmaWatchInv, DmaToldInv,
              Dma!CompletionsAreKept
<1>4. CASE Dma!wait_irq_loop
  BY <1>2, <1>4 DEF DmaInv, Dma!wait_irq_loop, Dma!Return, Dma!Left, Dma!irqVars,
                    DmaWatchInv, DmaToldInv,
                    Dma!CompletionsAreKept
<1>5. CASE Dma!Poll
  BY <1>2, <1>5 DEF DmaInv, Dma!Poll, Dma!Return, Dma!irqVars, DmaWatchInv,
                    DmaToldInv, Dma!CompletionsAreKept
<1>6. CASE Dma!Run
  BY <1>2, <1>6 DEF DmaInv, Dma!Run, Dma!irqVars, DmaWatchInv, DmaToldInv,
                    Dma!CompletionsAreKept
<1>7. ASSUME NEW ch \in Channels, Dma!Dispatch(ch)
      PROVE  DmaWatchInv' /\ DmaToldInv' /\ Dma!CompletionsAreKept'
  BY <1>7 DEF DmaInv, Dma!Dispatch, Dma!irqVars, DmaWatchInv, DmaToldInv,
              Dma!CompletionsAreKept
<1> QED BY <1>2, <1>3, <1>4, <1>5, <1>6, <1>7 DEF DmaInv

\* The hardware, the interrupt handler, acknowledge_irq() and the other core.
LEMMA DmaOtherInv ==
    ASSUME DmaInv,
           \/ Dma!handle_dma_irq
           \/ \E ch \in Channels :
                  Dma!Complete(ch) \/ Dma!mod_channel_acknowledge_irq(ch) \/ Dma!Other(ch)
    PROVE  DmaInv'
<1> USE DEF DmaInv, Dma!irqVars, Dma!callVars
<1>1. CASE Dma!handle_dma_irq
  BY <1>1 DEF Dma!handle_dma_irq, Dma!Fired, DmaTypeInv, Dma!EventsMatchInte,
              DmaWatchInv, DmaToldInv,
              Dma!CompletionsAreKept
<1>2. ASSUME NEW ch \in Channels, Dma!Complete(ch) PROVE DmaInv'
  BY <1>2 DEF Dma!Complete, DmaTypeInv, Dma!EventsMatchInte, DmaWatchInv,
              DmaToldInv, Dma!CompletionsAreKept
<1>3. ASSUME NEW ch \in Channels, Dma!mod_channel_acknowledge_irq(ch) PROVE DmaInv'
  BY <1>3 DEF Dma!mod_channel_acknowledge_irq, Dma!Forget, DmaTypeInv,
              Dma!EventsMatchInte, DmaWatchInv,
              DmaToldInv, Dma!CompletionsAreKept
<1>4. ASSUME NEW ch \in Channels, Dma!Other(ch) PROVE DmaInv'
  BY <1>4 DEF Dma!Other, DmaTypeInv, Dma!EventsMatchInte, DmaWatchInv, DmaToldInv,
              Dma!CompletionsAreKept
<1> QED BY <1>1, <1>2, <1>3, <1>4

LEMMA DmaStep == DmaInv /\ [Dma!Next]_Dma!vars => DmaInv'
<1> SUFFICES ASSUME DmaInv, [Dma!Next]_Dma!vars PROVE DmaInv'
  OBVIOUS
<1>1. CASE UNCHANGED Dma!vars
  BY <1>1 DEF Dma!vars, DmaInv, DmaTypeInv, DmaWatchInv, DmaToldInv,
              Dma!CompletionsAreKept, Dma!EventsMatchInte
<1>2. CASE Dma!Next
  BY <1>2, DmaEnableInv, DmaDisableInv, DmaCallInv, DmaOtherInv DEF Dma!Next
<1> QED BY <1>1, <1>2

-----------------------------------------------------------------------------
(* PioIrq. *)

PioTypeInv ==
    /\ qmask \subseteq Pio!Bits
    /\ qowner \in [Pio!Bits -> {"none", "me", "other"}]
    /\ qpc \in [Pio!Calls -> {"lua", "first", "loop", "block", "suspended", "ready"}]
    /\ qwant \in [Pio!Calls -> SUBSET Pio!Bits]
    /\ qwatched \in [Pio!Calls -> SUBSET Pio!Bits]

\* A call watches events that it wants and that this core has enabled, and none
\* before it has suspended; when it decides to wait, all are enabled.
PioWatchInv == \A c \in Pio!Calls :
    /\ qwatched[c] \subseteq qwant[c] \cap qmask
    /\ qpc[c] \in {"lua", "first", "block"} => qwatched[c] = {}
    /\ qpc[c] = "first" => qwant[c] \subseteq qmask

PioInv == PioTypeInv /\ PioWatchInv /\ Pio!EventsMatchMask /\ Pio!WaitersAreArmed

LEMMA PioInit == Pio!Init => PioInv
BY DEF Pio!Init, PioInv, PioTypeInv, PioWatchInv, Pio!EventsMatchMask,
       Pio!WaitersAreArmed

\* The hardware, the other core and interrupt_clear() leave the calls and
\* what this core has enabled alone.
LEMMA PioHardwareInv ==
    ASSUME PioInv,
           \/ Pio!StateMachine
           \/ \E b \in Pio!Bits : Pio!Other(b)
           \/ \E f \in Flags : Pio!interrupt_clear(f)
    PROVE  PioInv'
<1>1. UNCHANGED <<qinte, qmask, qqueued, qpc, qwant, qwatched>>
  BY DEF Pio!StateMachine, Pio!Other, Pio!interrupt_clear, Pio!irqVars, Pio!hwVars
<1>2. qowner' = qowner \/ \E b \in Pio!Bits : Pio!Other(b)
  BY DEF Pio!StateMachine, Pio!interrupt_clear, Pio!irqVars
<1>3. PioTypeInv' /\ Pio!EventsMatchMask'
  BY <1>1, <1>2 DEF PioInv, PioTypeInv, Pio!EventsMatchMask, Pio!Other
<1>4. PioWatchInv' /\ Pio!WaitersAreArmed'
  BY <1>1 DEF PioInv, PioWatchInv, Pio!WaitersAreArmed
<1> QED BY <1>3, <1>4 DEF PioInv

\* A source that the handler masks and that a suspended call watches is
\* enabled on this core, so that its event is set.
LEMMA PioHandlerInv ==
    ASSUME PioInv, Pio!handle_pio_irq
    PROVE  PioInv'
<1>1. /\ qinte' = qinte \ Pio!Raised
      /\ qqueued' = qqueued \cup {b \in qinte \cap Pio!Raised : qowner[b] # "none"}
      /\ UNCHANGED <<qmask, qowner, qpc, qwant, qwatched>>
  BY DEF Pio!handle_pio_irq, Pio!irqVars
<1>2. PioTypeInv' /\ PioWatchInv' /\ Pio!EventsMatchMask'
  BY <1>1 DEF PioInv, PioTypeInv, PioWatchInv, Pio!EventsMatchMask
<1>3. ASSUME NEW c \in Pio!Calls, qpc[c] = "suspended", NEW b \in qwatched[c]
      PROVE  b \in qinte' \cup qqueued'
  <2>1. b \in qinte \cup qqueued
    BY <1>3 DEF PioInv, Pio!WaitersAreArmed
  <2>2. qowner[b] = "me"
    BY <1>3 DEF PioInv, PioWatchInv, Pio!EventsMatchMask
  <2> QED BY <1>1, <2>1, <2>2
<1>4. Pio!WaitersAreArmed'
  BY <1>1, <1>3 DEF Pio!WaitersAreArmed
<1> QED BY <1>2, <1>4 DEF PioInv

\* An event that leaves the queue resumes the call that watches it.
LEMMA PioDispatchInv ==
    ASSUME PioInv, NEW b \in Pio!Bits, Pio!Dispatch(b)
    PROVE  PioInv'
<1>1. /\ qqueued' = qqueued \ {b}
      /\ qpc' = [c \in Pio!Calls |-> IF qpc[c] = "suspended" /\ b \in qwatched[c]
                                THEN "ready" ELSE qpc[c]]
      /\ UNCHANGED <<qinte, qmask, qowner, qwant, qwatched>>
  BY DEF Pio!Dispatch, Pio!irqVars
<1>2. PioTypeInv' /\ Pio!EventsMatchMask'
  BY <1>1 DEF PioInv, PioTypeInv, Pio!EventsMatchMask
<1>3. PioWatchInv'
  BY <1>1 DEF PioInv, PioWatchInv
<1>4. Pio!WaitersAreArmed'
  BY <1>1 DEF PioInv, Pio!WaitersAreArmed
<1> QED BY <1>2, <1>3, <1>4 DEF PioInv

\* The start of a call, and its resumption.
LEMMA PioCallInv ==
    ASSUME PioInv, NEW c \in Pio!Calls,
           Pio!Run(c) \/ \E S \in SUBSET Pio!Bits : Pio!Call(c, S)
    PROVE  PioInv'
<1>1. UNCHANGED <<qinte, qmask, qowner, qqueued, qwatched>>
  BY DEF Pio!Run, Pio!Call, Pio!irqVars
<1>2. CASE Pio!Run(c)
  <2>1. qpc[c] = "ready" /\ qpc' = [qpc EXCEPT ![c] = "loop"] /\ UNCHANGED qwant
    BY <1>2 DEF Pio!Run
  <2>2. PioTypeInv' /\ Pio!EventsMatchMask'
    BY <1>1, <2>1 DEF PioInv, PioTypeInv, Pio!EventsMatchMask
  <2>3. PioWatchInv' /\ Pio!WaitersAreArmed'
    BY <1>1, <2>1 DEF PioInv, PioTypeInv, PioWatchInv, Pio!WaitersAreArmed
  <2> QED BY <2>2, <2>3 DEF PioInv
<1>3. ASSUME NEW S \in SUBSET Pio!Bits, Pio!Call(c, S) PROVE PioInv'
  <2>1. /\ qpc[c] = "lua" /\ qwant' = [qwant EXCEPT ![c] = S]
        /\ qpc' = [qpc EXCEPT ![c] = IF S \subseteq qmask THEN "first" ELSE "block"]
    BY <1>3 DEF Pio!Call
  <2>2. PioTypeInv' /\ Pio!EventsMatchMask'
    BY <1>1, <2>1 DEF PioInv, PioTypeInv, Pio!EventsMatchMask
  <2>3. PioWatchInv' /\ Pio!WaitersAreArmed'
    BY <1>1, <2>1 DEF PioInv, PioTypeInv, PioWatchInv, Pio!WaitersAreArmed
  <2> QED BY <2>2, <2>3 DEF PioInv
<1> QED BY <1>2, <1>3

\* A call that returns watches nothing.
LEMMA PioReturnInv ==
    ASSUME PioInv, NEW c \in Pio!Calls, Pio!Return(c)
    PROVE  PioInv'
<1>1. /\ qpc' = [qpc EXCEPT ![c] = "lua"] /\ qwatched' = [qwatched EXCEPT ![c] = {}]
      /\ UNCHANGED <<qinte, qmask, qowner, qqueued, qwant>>
  BY DEF Pio!Return, Pio!irqVars
<1>2. PioTypeInv' /\ Pio!EventsMatchMask'
  BY <1>1 DEF PioInv, PioTypeInv, Pio!EventsMatchMask
<1>3. PioWatchInv' /\ Pio!WaitersAreArmed'
  BY <1>1 DEF PioInv, PioTypeInv, PioWatchInv, Pio!WaitersAreArmed
<1> QED BY <1>2, <1>3 DEF PioInv

\* A call that suspends has unmasked what it watches: what it wants the first
\* time, and later what is left of that after other threads have disabled some.
LEMMA PioLoopInv ==
    ASSUME PioInv, NEW c \in Pio!Calls, Pio!Loop(c)
    PROVE  PioInv'
<1>1. CASE Pio!Return(c)
  BY <1>1, PioReturnInv
<1>2. CASE ~Pio!Return(c)
  <2>1. /\ qpc[c] \in {"first", "loop"}
        /\ qinte' = Pio!Unmask(c)
        /\ qpc' = [qpc EXCEPT ![c] = "suspended"]
        /\ qwatched' = IF qpc[c] = "first" THEN [qwatched EXCEPT ![c] = qwant[c]]
                      ELSE qwatched
        /\ UNCHANGED <<qmask, qowner, qqueued, qwant>>
    BY <1>2 DEF Pio!Loop, Pio!irqVars
  <2>2. PioTypeInv' /\ Pio!EventsMatchMask'
    BY <2>1 DEF PioInv, PioTypeInv, Pio!EventsMatchMask
  <2>3. qwatched'[c] \subseteq qwant[c] \cap qmask
    BY <2>1 DEF PioInv, PioTypeInv, PioWatchInv
  <2>4. qwatched'[c] \subseteq qinte' /\ qinte \subseteq qinte'
    BY <2>1, <2>3 DEF Pio!Unmask
  <2>5. \A d \in Pio!Calls \ {c} : qwatched'[d] = qwatched[d] /\ qpc'[d] = qpc[d]
    BY <2>1 DEF PioInv, PioTypeInv
  <2>6. qpc'[c] = "suspended"
    BY <2>1 DEF PioInv, PioTypeInv
  <2>7. PioWatchInv'
    BY <2>1, <2>3, <2>5, <2>6 DEF PioInv, PioWatchInv
  <2>8. Pio!WaitersAreArmed'
    BY <2>1, <2>4, <2>5 DEF PioInv, Pio!WaitersAreArmed
  <2> QED BY <2>2, <2>7, <2>8 DEF PioInv
<1> QED BY <1>1, <1>2

\* enable_irq() enables all the events or none.
LEMMA PioEnableInv ==
    ASSUME PioInv, NEW S \in SUBSET Pio!Bits, Pio!PIO_enable_irq(S)
    PROVE  PioInv'
<1>1. UNCHANGED <<qinte, qqueued, qpc, qwant, qwatched>>
  BY DEF Pio!PIO_enable_irq
<1>2. CASE \A b \in S \ qmask : qowner[b] = "none"
  <2>1. /\ qowner' = [b \in Pio!Bits |-> IF b \in S \ qmask THEN "me" ELSE qowner[b]]
        /\ qmask' = qmask \cup S
    BY <1>2 DEF Pio!PIO_enable_irq, Pio!enable_events
  <2>2. PioTypeInv' /\ Pio!EventsMatchMask'
    BY <1>1, <2>1 DEF PioInv, PioTypeInv, Pio!EventsMatchMask
  <2>3. PioWatchInv' /\ Pio!WaitersAreArmed'
    BY <1>1, <2>1 DEF PioInv, PioWatchInv, Pio!WaitersAreArmed
  <2> QED BY <2>2, <2>3 DEF PioInv
<1>3. CASE \E b \in S \ qmask : qowner[b] # "none"
  <2>1. UNCHANGED <<qowner, qmask>>
    BY <1>3 DEF Pio!PIO_enable_irq, Pio!enable_events
  <2> QED
    BY <1>1, <2>1 DEF PioInv, PioTypeInv, PioWatchInv, Pio!EventsMatchMask,
                      Pio!WaitersAreArmed
<1> QED BY <1>2, <1>3

\* disable_irq() takes the events out of the queue and of the watchers.
LEMMA PioDisableInv ==
    ASSUME PioInv, NEW S \in SUBSET Pio!Bits, Pio!PIO_disable_irq(S)
    PROVE  PioInv'
<1>1. /\ qowner' = [b \in Pio!Bits |-> IF b \in S \cap qmask THEN "none" ELSE qowner[b]]
      /\ qqueued' = qqueued \ (S \cap qmask)
      /\ qwatched' = [c \in Pio!Calls |-> qwatched[c] \ (S \cap qmask)]
      /\ qinte' = qinte \ (S \cap qmask) /\ qmask' = qmask \ S
      /\ UNCHANGED <<qpc, qwant>>
  BY DEF Pio!PIO_disable_irq, Pio!disable_events
<1>2. PioTypeInv' /\ Pio!EventsMatchMask'
  BY <1>1 DEF PioInv, PioTypeInv, Pio!EventsMatchMask
<1>3. \A c \in Pio!Calls : qpc[c] # "first"
  BY DEF Pio!PIO_disable_irq, Pio!InLua, Pio!Running
<1>4. PioWatchInv'
  BY <1>1, <1>3 DEF PioInv, PioWatchInv
<1>5. Pio!WaitersAreArmed'
  BY <1>1 DEF PioInv, Pio!WaitersAreArmed
<1> QED BY <1>2, <1>4, <1>5 DEF PioInv

LEMMA PioStep == PioInv /\ [Pio!Next]_Pio!vars => PioInv'
<1> SUFFICES ASSUME PioInv, [Pio!Next]_Pio!vars PROVE PioInv'
  OBVIOUS
<1>1. CASE UNCHANGED Pio!vars
  BY <1>1 DEF Pio!vars, PioInv, PioTypeInv, PioWatchInv, Pio!EventsMatchMask,
              Pio!WaitersAreArmed
<1>2. CASE Pio!Next
  <2>1. ASSUME \/ Pio!SM_put_blocking \/ Pio!SM_get_blocking
               \/ \E S \in SUBSET Flags : Pio!PIO_wait_irq(S)
        PROVE  \E c \in Pio!Calls, S \in SUBSET Pio!Bits : Pio!Call(c, S)
    BY <2>1 DEF Pio!SM_put_blocking, Pio!SM_get_blocking, Pio!PIO_wait_irq,
                Pio!Calls, Pio!Bits, Pio!FifoBits
  <2>2. ASSUME NEW c \in Pio!Calls, Pio!Block(c) PROVE PioInv'
    BY <2>2, PioReturnInv DEF Pio!Block
  <2> QED
    BY <1>2, <2>1, <2>2, PioHardwareInv, PioHandlerInv, PioDispatchInv, PioCallInv, PioLoopInv,
       PioEnableInv, PioDisableInv DEF Pio!Next
<1> QED BY <1>1, <1>2

-----------------------------------------------------------------------------
(* AlarmCallback. *)

AlarmTypeInv ==
    /\ pending \in BOOLEAN /\ enabled \in BOOLEAN /\ equeued \in BOOLEAN
    /\ watched \in BOOLEAN /\ hooked \in BOOLEAN
    /\ running \in BOOLEAN /\ fired \in BOOLEAN
    /\ state \in {"none", "active", "suspended", "timer", "dead"}
    /\ at \in Alarm!Locations
    /\ lua \in [suspends : BOOLEAN, killsEarly : BOOLEAN]

\* The handler thread that lives watches an enabled event, and a callback that
\* does not suspend it keeps it running: then nothing takes the event out of
\* the queue before it waits again.
AlarmThreadInv ==
    /\ running => state = "active"
    /\ Alarm!Alive => enabled /\ watched
    /\ pending => fired
    /\ ~lua.suspends =>
           /\ at = "callback" /\ Alarm!Alive => running
           /\ pending /\ running /\ at = "callback" => equeued
           /\ Alarm!TriggerReachesHandler

AlarmInv == AlarmTypeInv /\ AlarmThreadInv /\ Alarm!HandlerOwnsAlarm

LEMMA AlarmInit == Alarm!Init => AlarmInv
BY DEF Alarm!Init, AlarmInv, AlarmTypeInv, AlarmThreadInv, Alarm!HandlerOwnsAlarm,
       Alarm!Alive, Alarm!Suspended, Alarm!TriggerReachesHandler, Alarm!Locations

\* The interrupt and the calls of the module.
LEMMA AlarmCalls ==
    ASSUME AlarmInv, UNCHANGED lua,
           \/ Alarm!Fire
           \/ \E c \in {"cancel", "target"} : Alarm!BeginCall(c)
           \/ Alarm!cancel_hardware_alarm \/ Alarm!Arm \/ Alarm!SetCallback
    PROVE  AlarmInv'
<1> USE DEF AlarmInv, AlarmTypeInv, AlarmThreadInv, Alarm!HandlerOwnsAlarm, Alarm!Alive,
            Alarm!Suspended, Alarm!TriggerReachesHandler, Alarm!Locations,
            Alarm!eventVars, Alarm!threadVars
<1>1. CASE Alarm!Fire
  BY <1>1 DEF Alarm!Fire, Alarm!handle_alarm
<1>2. CASE Alarm!SetCallback
  BY <1>2 DEF Alarm!SetCallback
<1>3. ASSUME UNCHANGED <<hooked, pending, enabled, equeued, watched, state, at, running,
                         fired>>
      PROVE  AlarmInv'
  BY <1>3
<1>4. ASSUME NEW c \in {"cancel", "target"}, Alarm!BeginCall(c) PROVE AlarmInv'
  BY <1>3, <1>4 DEF Alarm!BeginCall
<1>5. CASE Alarm!Arm
  BY <1>3, <1>5 DEF Alarm!Arm
<1>6. CASE Alarm!CancelSecond /\ pending' = FALSE
  BY <1>6 DEF Alarm!CancelSecond
<1>7. CASE Alarm!CancelFirst /\ UNCHANGED pending
  BY <1>3, <1>7 DEF Alarm!CancelFirst
<1>8. CASE Alarm!cancel_hardware_alarm
  BY <1>6, <1>8, <1>7 DEF Alarm!cancel_hardware_alarm
<1> QED BY <1>1, <1>2, <1>4, <1>5, <1>8

\* The scheduler and the handler thread.
LEMMA AlarmThread ==
    ASSUME AlarmInv, UNCHANGED lua,
           \/ Alarm!KillHandler \/ Alarm!ResumeHandler \/ Alarm!Dispatch \/ Alarm!Expire
           \/ Alarm!RunHandler \/ Alarm!handle_alarm_event \/ Alarm!CallbackReturns
           \/ Alarm!CallbackWaits \/ Alarm!CallbackFails
    PROVE  AlarmInv'
<1> USE DEF AlarmInv, AlarmTypeInv, AlarmThreadInv, Alarm!HandlerOwnsAlarm, Alarm!Alive,
            Alarm!Suspended, Alarm!TriggerReachesHandler, Alarm!Locations,
            Alarm!eventVars, Alarm!threadVars, Alarm!alarmVars, Alarm!OtherRuns,
            Alarm!LuaRuns, Alarm!Yield, Alarm!InCallback
<1>1. CASE Alarm!KillHandler
  <2>1. CASE at # "new" /\ Alarm!handler_thread_done
    BY <1>1, <2>1 DEF Alarm!KillHandler, Alarm!handler_thread_done
  <2>2. CASE at = "new" /\ lua.killsEarly /\ UNCHANGED <<hooked, enabled, equeued, watched>>
    BY <1>1, <2>2 DEF Alarm!KillHandler
  <2> QED BY <1>1, <2>1, <2>2 DEF Alarm!KillHandler
<1>2. CASE Alarm!ResumeHandler
  BY <1>2 DEF Alarm!ResumeHandler
<1>3. CASE Alarm!Dispatch
  BY <1>3 DEF Alarm!Dispatch
<1>4. CASE Alarm!Expire
  BY <1>4 DEF Alarm!Expire
<1>5. CASE Alarm!RunHandler
  BY <1>5 DEF Alarm!RunHandler
<1>6. CASE Alarm!handle_alarm_event
  BY <1>6 DEF Alarm!handle_alarm_event
<1>7. CASE Alarm!CallbackReturns
  BY <1>7 DEF Alarm!CallbackReturns
<1>8. CASE Alarm!CallbackWaits
  BY <1>8 DEF Alarm!CallbackWaits
<1>9. CASE Alarm!CallbackFails
  BY <1>9 DEF Alarm!CallbackFails, Alarm!handler_thread_done
<1> QED BY <1>1, <1>2, <1>3, <1>4, <1>5, <1>6, <1>7, <1>8, <1>9

LEMMA AlarmStep == AlarmInv /\ [Alarm!Next]_Alarm!vars => AlarmInv'
<1> SUFFICES ASSUME AlarmInv, [Alarm!Next]_Alarm!vars PROVE AlarmInv'
  OBVIOUS
<1>1. CASE UNCHANGED Alarm!vars
  BY <1>1 DEF Alarm!vars, AlarmInv, AlarmTypeInv, AlarmThreadInv, Alarm!HandlerOwnsAlarm,
              Alarm!Alive, Alarm!Suspended, Alarm!TriggerReachesHandler
<1>2. CASE Alarm!Next
  BY <1>2, AlarmCalls, AlarmThread DEF Alarm!Next
<1> QED BY <1>1, <1>2

\* The callback is entered when the pending bit is found set.
LEMMA AlarmFired == AlarmInv /\ [Alarm!Next]_Alarm!vars => Alarm!CallIsForFired
<1> SUFFICES ASSUME AlarmInv, [Alarm!Next]_Alarm!vars, at # "callback", at' = "callback"
             PROVE  fired
  BY DEF Alarm!CallIsForFired, Alarm!CallbackStarts
<1>1. Alarm!handle_alarm_event
  BY DEF Alarm!Next, Alarm!vars, Alarm!Fire, Alarm!BeginCall, Alarm!cancel_hardware_alarm,
         Alarm!CancelFirst, Alarm!CancelSecond, Alarm!Arm, Alarm!SetCallback,
         Alarm!KillHandler, Alarm!ResumeHandler, Alarm!Dispatch, Alarm!Expire,
         Alarm!RunHandler, Alarm!CallbackReturns, Alarm!CallbackWaits,
         Alarm!CallbackFails, Alarm!threadVars
<1> QED BY <1>1 DEF Alarm!handle_alarm_event, AlarmInv, AlarmTypeInv, AlarmThreadInv

-----------------------------------------------------------------------------
(* What is used of sequences below. *)

LEMMA FunIsSeq ==
    ASSUME NEW S, NEW k \in Nat, NEW f \in [1..k -> S]
    PROVE  f \in Seq(S) /\ Len(f) = k
OBVIOUS

LEMMA AppendFacts ==
    ASSUME NEW S, NEW s \in Seq(S), NEW e \in S
    PROVE  /\ Append(s, e) \in Seq(S) /\ Len(Append(s, e)) = Len(s) + 1
           /\ \A i \in 1..Len(s) : Append(s, e)[i] = s[i]
           /\ Append(s, e)[Len(s) + 1] = e
OBVIOUS

LEMMA ConcatFacts ==
    ASSUME NEW S, NEW s \in Seq(S), NEW t \in Seq(S)
    PROVE  /\ s \o t \in Seq(S) /\ Len(s \o t) = Len(s) + Len(t)
           /\ \A i \in 1..Len(s) : (s \o t)[i] = s[i]
           /\ \A i \in 1..Len(t) : (s \o t)[Len(s) + i] = t[i]
OBVIOUS

-----------------------------------------------------------------------------
(* SpiTransfer. *)

SpiTypeInv ==
    /\ ptxf \in Seq(Nat) /\ wire \in Seq(Nat) /\ prxf \in Seq(Nat)
    /\ plen \in Nat /\ tx \in Nat /\ rx \in Nat
    /\ got \in Seq(Nat)

\* The units in flight, from the RX FIFO to the TX FIFO, are the next ones, as
\* many as have been written and not read.
SpiFlightInv ==
    /\ tx <= rx /\ rx <= plen /\ rx <= tx + SpiDepth
    /\ Len(wire) <= 1
    /\ Len(prxf) + Len(wire) + Len(ptxf) = rx - tx
    /\ \A i \in 1..Len(prxf) : prxf[i] = (plen - rx) + i
    /\ \A i \in 1..Len(wire) : wire[i] = (plen - rx) + Len(prxf) + i
    /\ \A i \in 1..Len(ptxf) : ptxf[i] = (plen - rx) + Len(prxf) + Len(wire) + i

SpiGotInv ==
    /\ ppc = "lua" => tx = 0 /\ rx = 0
    /\ read => /\ Len(got) = plen - rx
               /\ \A i \in 1..Len(got) : got[i] = i

SpiInv == SpiTypeInv /\ SpiFlightInv /\ SpiGotInv

LEMMA SpiInit == Spi!Init => SpiInv
BY DriversAssumption DEF Spi!Init, SpiInv, SpiTypeInv, SpiFlightInv, SpiGotInv

\* A unit goes to the wire, and from the wire to the RX FIFO, which has room
\* for it: no more units are in flight than it holds.
LEMMA SpiHardware ==
    ASSUME SpiInv, Spi!Shift \/ Spi!Shifted
    PROVE  SpiInv'
<1> DEFINE b == plen - rx
<1>t. /\ ptxf \in Seq(Nat) /\ wire \in Seq(Nat) /\ prxf \in Seq(Nat)
      /\ plen \in Nat /\ tx \in Nat /\ rx \in Nat /\ got \in Seq(Nat)
      /\ b \in Int /\ SpiDepth \in Nat
  BY DriversAssumption DEF SpiInv, SpiTypeInv
<1>f. /\ tx <= rx /\ rx <= plen /\ rx <= tx + SpiDepth
      /\ Len(wire) <= 1
      /\ Len(prxf) + Len(wire) + Len(ptxf) = rx - tx
  BY DEF SpiInv, SpiFlightInv
<1>q. /\ \A i \in 1..Len(prxf) : prxf[i] = b + i
      /\ \A i \in 1..Len(wire) : wire[i] = b + Len(prxf) + i
      /\ \A i \in 1..Len(ptxf) : ptxf[i] = b + Len(prxf) + Len(wire) + i
  BY DEF SpiInv, SpiFlightInv
<1>l. Len(prxf) \in Nat /\ Len(wire) \in Nat /\ Len(ptxf) \in Nat
  BY <1>t
<1>u. UNCHANGED <<ppc, read, plen, tx, rx, got>>
  BY DEF Spi!Shift, Spi!Shifted, Spi!call
<1>g. SpiGotInv'
  BY <1>u DEF SpiInv, SpiGotInv
<1>1. CASE Spi!Shift
  <2>1. wire = <<>> /\ ptxf # <<>> /\ wire' = <<Head(ptxf)>> /\ ptxf' = Tail(ptxf) /\ prxf' = prxf
    BY <1>1 DEF Spi!Shift
  <2>0. Len(ptxf) >= 1 /\ Len(wire) = 0 /\ Len(wire') = 1 /\ Len(ptxf') = Len(ptxf) - 1
    BY <1>t, <2>1
  <2>2. /\ wire' \in Seq(Nat) /\ ptxf' \in Seq(Nat)
        /\ wire'[1] = ptxf[1]
        /\ \A i \in 1..(Len(ptxf) - 1) : ptxf'[i] = ptxf[i + 1]
    BY <1>t, <2>1
  <2> HIDE DEF b
  <2>3. \A i \in 1..Len(wire') : wire'[i] = b + Len(prxf) + i
    <3>1. 1 \in 1..Len(ptxf)
      BY <1>l, <2>0
    <3>2. ptxf[1] = b + Len(prxf) + 0 + 1
      BY <1>q, <2>0, <3>1
    <3> QED BY <1>t, <1>l, <2>0, <2>2, <3>2
  <2>4. \A i \in 1..Len(ptxf') : ptxf'[i] = b + Len(prxf) + Len(wire') + i
    <3>1. TAKE i \in 1..Len(ptxf')
    <3>2. i \in Nat /\ i + 1 \in 1..Len(ptxf) /\ ptxf'[i] = ptxf[i + 1]
      <4>1. i \in 1..(Len(ptxf) - 1)
        BY ONLY <2>0
      <4>2. i \in Nat /\ i + 1 \in 1..Len(ptxf)
        BY ONLY <1>l, <4>1
      <4> QED BY ONLY <2>2, <4>1, <4>2
    <3>3. ptxf[i + 1] = b + Len(prxf) + 0 + (i + 1)
      BY <1>q, <2>0, <3>2
    <3>4. b \in Int /\ i \in Nat
      BY <1>t, <3>2
    <3> QED BY <1>l, <2>0, <3>2, <3>3, <3>4
  <2>5. Len(prxf) + Len(wire') + Len(ptxf') = rx - tx
    BY <1>f, <1>l, <2>0
  <2> QED BY <1>t, <1>f, <1>q, <1>u, <1>g, <2>0, <2>1, <2>2, <2>3, <2>4, <2>5
          DEF SpiInv, SpiTypeInv, SpiFlightInv, b
<1>2. CASE Spi!Shifted
  <2>1. /\ wire # <<>> /\ wire' = <<>> /\ ptxf' = ptxf
        /\ prxf' = IF Len(prxf) < SpiDepth THEN prxf \o wire ELSE prxf
    BY <1>2 DEF Spi!Shifted
  <2>2. Len(wire) = 1 /\ Len(prxf) < SpiDepth
    <3>1. Len(wire) # 0
      BY <1>t, <2>1
    <3>2. tx \in Nat /\ rx \in Nat /\ SpiDepth \in Nat
      BY <1>t
    <3>3. Len(wire) = 1
      <4>1. Len(wire) \in Nat /\ Len(wire) <= 1
        BY ONLY <1>f, <1>l
      <4> QED BY ONLY <3>1, <4>1
    <3>4. Len(prxf) + 1 <= rx - tx
      BY ONLY <1>f, <1>l, <3>2, <3>3
    <3>5. rx - tx <= SpiDepth
      BY ONLY <1>f, <3>2
    <3> QED BY ONLY <1>l, <3>2, <3>3, <3>4, <3>5
  <2>0. prxf' = prxf \o wire /\ Len(prxf') = Len(prxf) + 1 /\ Len(wire') = 0
    <3>1. prxf' = prxf \o wire /\ wire' = <<>>
      BY ONLY <2>1, <2>2
    <3>2. Len(prxf \o wire) = Len(prxf) + Len(wire)
      BY ONLY <1>t
    <3> QED BY ONLY <3>1, <3>2, <2>2
  <2>3. /\ prxf' \in Seq(Nat)
        /\ \A i \in 1..Len(prxf) : prxf'[i] = prxf[i]
        /\ prxf'[Len(prxf) + 1] = wire[1]
        /\ wire' \in Seq(Nat)
    BY ONLY <1>t, <2>0, <2>1, <2>2
  <2> HIDE DEF b
  <2>4. \A i \in 1..Len(prxf') : prxf'[i] = b + i
    <3>1. wire[1] = b + Len(prxf) + 1
      BY <1>q, <2>2
    <3>2. TAKE i \in 1..Len(prxf')
    <3>3. CASE i \in 1..Len(prxf)
      BY <1>q, <2>3, <3>3
    <3>4. CASE i = Len(prxf) + 1
      BY <1>t, <1>l, <2>3, <3>1, <3>4
    <3> QED BY <1>l, <2>0, <3>3, <3>4
  <2>5. \A i \in 1..Len(ptxf) : ptxf[i] = b + Len(prxf') + Len(wire') + i
    <3>1. TAKE i \in 1..Len(ptxf)
    <3>2. ptxf[i] = b + Len(prxf) + 1 + i
      BY <1>q, <2>2
    <3>3. b \in Int /\ i \in Nat
      BY <1>t, <1>l
    <3> QED BY <1>l, <2>0, <3>2, <3>3
  <2>6. Len(prxf') + Len(wire') + Len(ptxf') = rx - tx
    BY <1>f, <1>l, <2>0, <2>1, <2>2
  <2> QED BY <1>t, <1>f, <1>q, <1>u, <1>g, <2>0, <2>1, <2>2, <2>3, <2>4, <2>5, <2>6
          DEF SpiInv, SpiTypeInv, SpiFlightInv, b
<1> QED BY <1>1, <1>2

\* The loop function writes the next unit, and reads the first one in flight.
LEMMA SpiLoop ==
    ASSUME SpiInv, Spi!Feed \/ Spi!Drain
    PROVE  SpiInv'
<1> DEFINE b == plen - rx
           n == Len(prxf) + Len(wire)
<1>t. /\ ptxf \in Seq(Nat) /\ wire \in Seq(Nat) /\ prxf \in Seq(Nat)
      /\ plen \in Nat /\ tx \in Nat /\ rx \in Nat /\ got \in Seq(Nat)
      /\ b \in Int /\ SpiDepth \in Nat /\ n \in Nat
  BY DriversAssumption DEF SpiInv, SpiTypeInv
<1>f. /\ tx <= rx /\ rx <= plen /\ rx <= tx + SpiDepth
      /\ Len(wire) <= 1
      /\ n + Len(ptxf) = rx - tx
  BY DEF SpiInv, SpiFlightInv, SpiTypeInv
<1>q. /\ \A i \in 1..Len(prxf) : prxf[i] = b + i
      /\ \A i \in 1..Len(wire) : wire[i] = b + Len(prxf) + i
      /\ \A i \in 1..Len(ptxf) : ptxf[i] = b + n + i
  BY DEF SpiInv, SpiFlightInv, SpiTypeInv
<1>l. Len(prxf) \in Nat /\ Len(wire) \in Nat /\ Len(ptxf) \in Nat
  BY <1>t
<1>p. ppc' # "lua" /\ UNCHANGED <<read, plen, wire>>
  BY DEF Spi!Feed, Spi!Drain, Spi!call
<1>1. CASE Spi!Feed
  <2>1. CASE Spi!MayFeed /\ Len(ptxf) < SpiDepth
    <3>1. /\ tx > 0 /\ rx < tx + SpiDepth
          /\ ptxf' = Append(ptxf, plen - tx + 1) /\ tx' = tx - 1
          /\ UNCHANGED <<prxf, rx, got>>
      BY <1>1, <2>1 DEF Spi!Feed, Spi!MayFeed
    <3>2. /\ ptxf' \in Seq(Nat) /\ Len(ptxf') = Len(ptxf) + 1
          /\ \A i \in 1..Len(ptxf) : ptxf'[i] = ptxf[i]
          /\ ptxf'[Len(ptxf) + 1] = plen - tx + 1
      <4>1. tx <= plen /\ tx \in Nat /\ plen \in Nat
        <5>1. tx \in Nat /\ plen \in Nat /\ rx \in Nat
          BY <1>t
        <5> QED BY <1>f, <5>1
      <4>2. plen - tx + 1 \in Nat
        BY <4>1
      <4> QED BY <1>t, <3>1, <4>2
    <3>3. plen - tx + 1 = b + n + (Len(ptxf) + 1)
      <4>1. tx \in Nat /\ plen \in Nat /\ rx \in Nat
        BY <1>t
      <4> QED BY <1>f, <1>l, <4>1
    <3> HIDE DEF b, n
    <3>4. \A i \in 1..Len(ptxf') : ptxf'[i] = b + n + i
      <4>1. TAKE i \in 1..Len(ptxf')
      <4>2. CASE i \in 1..Len(ptxf)
        BY <1>q, <3>2, <4>2
      <4>3. CASE i = Len(ptxf) + 1
        BY <3>2, <3>3, <4>3
      <4> QED BY <1>t, <3>2, <4>2, <4>3
    <3>5. /\ tx' \in Nat /\ tx' <= rx /\ rx <= tx' + SpiDepth
          /\ n + Len(ptxf') = rx - tx'
      <4>1. tx \in Nat /\ rx \in Nat /\ n \in Nat /\ SpiDepth \in Nat
        BY <1>t
      <4>2. Len(ptxf') = Len(ptxf) + 1 /\ tx' = tx - 1 /\ tx > 0 /\ rx < tx + SpiDepth
        BY <3>1, <3>2
      <4> QED BY <1>f, <1>l, <4>1, <4>2
    <3>6. SpiTypeInv' /\ SpiGotInv'
      BY <1>t, <1>p, <3>1, <3>2, <3>5 DEF SpiInv, SpiTypeInv, SpiGotInv
    <3> QED BY <1>t, <1>f, <1>q, <1>p, <3>1, <3>4, <3>5, <3>6 DEF SpiInv, SpiFlightInv, b, n
  <2>2. CASE ~(Spi!MayFeed /\ Len(ptxf) < SpiDepth)
    <3>1. UNCHANGED <<ptxf, tx, prxf, rx, got>>
      BY <1>1, <2>2 DEF Spi!Feed
    <3> QED BY <1>p, <3>1 DEF SpiInv, SpiTypeInv, SpiFlightInv, SpiGotInv
  <2> QED BY <2>1, <2>2
<1>2. CASE Spi!Drain
  <2>1. CASE rx > 0 /\ prxf # <<>>
    <3>1. /\ prxf' = Tail(prxf) /\ rx' = rx - 1
          /\ got' = IF read THEN Append(got, Head(prxf)) ELSE got
          /\ UNCHANGED <<ptxf, tx>>
      BY <1>2, <2>1 DEF Spi!Drain
    <3>2. /\ Len(prxf) >= 1 /\ prxf' \in Seq(Nat) /\ Len(prxf') = Len(prxf) - 1
          /\ Head(prxf) \in Nat /\ Head(prxf) = prxf[1]
          /\ \A i \in 1..(Len(prxf) - 1) : prxf'[i] = prxf[i + 1]
      BY <1>t, <2>1, <3>1
    <3>3. Head(prxf) = b + 1
      BY <1>q, <3>2
    <3> DEFINE c == plen - rx'
    <3>4. c = b + 1 /\ c \in Int /\ rx' \in Nat /\ tx <= rx' /\ rx' <= plen
          /\ rx' <= tx + SpiDepth
          /\ Len(prxf') + Len(wire) + Len(ptxf) = rx' - tx
      <4>1. tx \in Nat /\ rx \in Nat /\ n \in Nat /\ SpiDepth \in Nat /\ plen \in Nat
        BY <1>t
      <4>2. Len(prxf') = Len(prxf) - 1 /\ rx' = rx - 1 /\ rx > 0 /\ Len(prxf) >= 1
        BY <2>1, <3>1, <3>2
      <4> QED BY <1>f, <1>l, <4>1, <4>2
    <3>g. got' \in Seq(Nat) /\ SpiGotInv'
      <4>1. CASE read
        <5>1. /\ Len(got) = b /\ \A i \in 1..Len(got) : got[i] = i
              /\ got' = Append(got, Head(prxf))
          BY <3>1, <4>1 DEF SpiInv, SpiGotInv
        <5>2. /\ got' \in Seq(Nat) /\ Len(got') = Len(got) + 1
              /\ \A i \in 1..Len(got) : got'[i] = got[i]
              /\ got'[Len(got) + 1] = Head(prxf)
          <6>1. got \in Seq(Nat) /\ Head(prxf) \in Nat
            BY ONLY <1>t, <3>2
          <6>2. /\ Append(got, Head(prxf)) \in Seq(Nat)
                /\ Len(Append(got, Head(prxf))) = Len(got) + 1
                /\ \A i \in 1..Len(got) : Append(got, Head(prxf))[i] = got[i]
                /\ Append(got, Head(prxf))[Len(got) + 1] = Head(prxf)
            BY ONLY <6>1, AppendFacts
          <6> QED BY ONLY <5>1, <6>2
        <5>3. \A i \in 1..Len(got') : got'[i] = i
          BY <1>t, <3>3, <5>1, <5>2
        <5> QED BY <1>t, <1>p, <3>4, <5>1, <5>2, <5>3 DEF SpiGotInv
      <4>2. CASE ~read
        BY <1>t, <1>p, <3>1, <4>2 DEF SpiGotInv
      <4> QED BY <4>1, <4>2
    <3> HIDE DEF b, c
    <3>5. \A i \in 1..Len(prxf') : prxf'[i] = c + i
      <4>1. TAKE i \in 1..Len(prxf')
      <4>2. i \in Nat /\ i + 1 \in 1..Len(prxf) /\ prxf'[i] = prxf[i + 1]
        BY <1>l, <3>2
      <4>3. prxf[i + 1] = b + (i + 1)
        BY <1>q, <4>2
      <4>4. b \in Int /\ c = b + 1
        BY <1>t, <3>4
      <4> QED BY <4>2, <4>3, <4>4
    <3>6. \A i \in 1..Len(wire) : wire[i] = c + Len(prxf') + i
      BY <1>t, <1>q, <1>l, <3>2, <3>4
    <3>7. \A i \in 1..Len(ptxf) : ptxf[i] = c + Len(prxf') + Len(wire) + i
      BY <1>t, <1>q, <1>l, <3>2, <3>4
    <3> QED
      BY <1>t, <1>f, <1>q, <1>p, <3>1, <3>2, <3>4, <3>g, <3>5, <3>6, <3>7
      DEF SpiInv, SpiTypeInv, SpiFlightInv, c
  <2>2. CASE ~(rx > 0 /\ prxf # <<>>)
    <3>1. UNCHANGED <<ptxf, tx, prxf, rx, got>>
      BY <1>2, <2>2 DEF Spi!Drain
    <3> QED BY <1>p, <3>1 DEF SpiInv, SpiTypeInv, SpiFlightInv, SpiGotInv
  <2> QED BY <2>1, <2>2
<1> QED BY <1>1, <1>2

\* A call finds nothing in flight; the other steps move no unit.
LEMMA SpiStep == SpiInv /\ [Spi!Next]_Spi!vars => SpiInv'
<1> SUFFICES ASSUME SpiInv, [Spi!Next]_Spi!vars PROVE SpiInv'
  OBVIOUS
<1>1. CASE Spi!write_read
  <2>1. /\ ppc = "lua" /\ ppc' = "feed" /\ plen' \in 0..SpiMaxUnits
        /\ tx' = plen' /\ rx' = plen' /\ got' = <<>>
        /\ UNCHANGED <<ptxf, wire, prxf>>
    BY <1>1 DEF Spi!write_read, Spi!Idle, Spi!Enter, Spi!hw
  <2>2. /\ ptxf \in Seq(Nat) /\ wire \in Seq(Nat) /\ prxf \in Seq(Nat)
        /\ Len(ptxf) = 0 /\ Len(wire) = 0 /\ Len(prxf) = 0
    BY <2>1 DEF SpiInv, SpiTypeInv, SpiFlightInv, SpiGotInv
  <2>3. plen' \in Nat
    BY <2>1, DriversAssumption
  <2>4. SpiTypeInv'
    BY <2>1, <2>2, <2>3 DEF SpiTypeInv
  <2>5. SpiFlightInv'
    <3>1. SpiDepth \in Nat
      BY DriversAssumption
    <3>2. /\ Len(ptxf') = 0 /\ Len(wire') = 0 /\ Len(prxf') = 0
          /\ tx' = rx' /\ rx' = plen' /\ rx' \in Nat
      <4>1. ptxf' = ptxf /\ wire' = wire /\ prxf' = prxf /\ tx' = plen' /\ rx' = plen'
        BY ONLY <2>1
      <4> QED BY ONLY <4>1, <2>2, <2>3
    <3>3. /\ tx' <= rx' /\ rx' <= plen' /\ rx' <= tx' + SpiDepth
          /\ 0 = rx' - tx'
      <4> DEFINE r == rx'
      <4>1. r \in Nat /\ tx' = r /\ plen' = r /\ rx' = r
        BY ONLY <3>2
      <4> HIDE DEF r
      <4> QED BY ONLY <3>1, <4>1
    <3>4. /\ Len(wire') <= 1 /\ Len(prxf') + Len(wire') + Len(ptxf') = 0
          /\ 1..Len(ptxf') = {} /\ 1..Len(wire') = {} /\ 1..Len(prxf') = {}
      BY ONLY <3>2
    <3> QED BY ONLY <3>3, <3>4 DEF SpiFlightInv
  <2>6. SpiGotInv'
    <3>1. got' = <<>> /\ plen' - rx' = 0 /\ ppc' # "lua"
      <4> DEFINE r == plen'
      <4>1. r \in Nat /\ rx' = r /\ plen' = r /\ got' = <<>> /\ ppc' = "feed"
        BY ONLY <2>1, <2>3
      <4> HIDE DEF r
      <4> QED BY ONLY <4>1
    <3> QED BY ONLY <3>1 DEF SpiGotInv
  <2> QED BY <2>4, <2>5, <2>6 DEF SpiInv
<1>2. CASE Spi!Check
  <2>1. /\ UNCHANGED <<ptxf, wire, prxf, read, plen, tx, rx, got>>
        /\ ppc' = "lua" => tx = 0 /\ rx = 0
    BY <1>2 DEF Spi!Check, Spi!write_read_loop, Spi!Return, Spi!hw, Spi!call
  <2> QED BY <2>1 DEF SpiInv, SpiTypeInv, SpiFlightInv, SpiGotInv
<1>3. CASE \/ Spi!handle_spi_irq \/ Spi!SPI_enable_irq \/ Spi!Dispatch \/ Spi!Resume \/ Spi!Run
           \/ UNCHANGED Spi!vars
  <2>1. /\ UNCHANGED <<ptxf, wire, prxf, read, plen, tx, rx, got>>
        /\ ppc' = "lua" => ppc = "lua"
    BY <1>3 DEF Spi!handle_spi_irq, Spi!SPI_enable_irq, Spi!Dispatch, Spi!Resume, Spi!Run,
                Spi!Enter, Spi!hw, Spi!call, Spi!vars
  <2> QED BY <2>1 DEF SpiInv, SpiTypeInv, SpiFlightInv, SpiGotInv
<1> QED BY <1>1, <1>2, <1>3, SpiHardware, SpiLoop DEF Spi!Next

\* When a call returns nothing is in flight.
LEMMA SpiReturns == SpiInv /\ [Spi!Next]_Spi!vars => Spi!UnitsHold
<1> SUFFICES ASSUME SpiInv, [Spi!Next]_Spi!vars, ppc = "check", ppc' = "lua"
             PROVE  /\ read => got = [i \in 1..plen |-> i]
                    /\ ptxf = <<>> /\ wire = <<>> /\ prxf = <<>>
  BY DEF Spi!UnitsHold
<1>1. Spi!Check
  BY DEF Spi!Next, Spi!vars, Spi!Shift, Spi!Shifted, Spi!handle_spi_irq,
         Spi!SPI_enable_irq, Spi!Idle, Spi!write_read, Spi!Enter, Spi!Feed, Spi!Drain,
         Spi!Dispatch, Spi!Resume, Spi!Run
<1>2. tx = 0 /\ rx = 0
  BY <1>1 DEF Spi!Check, Spi!write_read_loop, Spi!Return
<1>3. ptxf = <<>> /\ wire = <<>> /\ prxf = <<>>
  <2>1. /\ ptxf \in Seq(Nat) /\ wire \in Seq(Nat) /\ prxf \in Seq(Nat)
        /\ Len(ptxf) = 0 /\ Len(wire) = 0 /\ Len(prxf) = 0
    BY <1>2 DEF SpiInv, SpiTypeInv, SpiFlightInv
  <2> QED BY <2>1
<1>4. ASSUME read PROVE got = [i \in 1..plen |-> i]
  <2>1. /\ got \in Seq(Nat) /\ Len(got) = plen
        /\ \A i \in 1..Len(got) : got[i] = i
    BY <1>2, <1>4 DEF SpiInv, SpiTypeInv, SpiGotInv
  <2> QED BY <2>1
<1> QED BY <1>3, <1>4

-----------------------------------------------------------------------------
(* I2cTransfer. *)

I2cTypeInv ==
    /\ txf \in Seq([read : BOOLEAN, stop : BOOLEAN])
    /\ rxf \in Nat /\ acked \in Nat
    /\ abrt \in {"no", "nack", "lost"}
    /\ op \in [write : BOOLEAN, len : Nat, nostop : BOOLEAN, offset : Nat,
               wcnt : Nat, abort : {"no", "nack", "lost"}]
    /\ Len(txf) <= I2cDepth /\ op.offset <= op.len /\ op.wcnt <= op.len

\* A call that has found the peripheral idle and was not aborted.
Sound == ipc # "lua" /\ clean /\ op.abort = "no" /\ abrt = "no"

\* The commands of a write are acknowledged or in the TX FIFO, and the STOP
\* condition comes with the last one.
I2cWriteInv ==
    Sound /\ op.write /\ ~op.nostop
    => /\ acked + Len(txf) = op.offset
       /\ \A i \in 1..Len(txf) : txf[i].stop => acked + i = op.len
       /\ stop => acked = op.len
       /\ ipc = "start" => txf = <<>>
       /\ ipc = "stop" => op.offset = op.len

\* The bytes of a read are taken, in the RX FIFO, or asked for in the TX FIFO.
I2cReadInv ==
    Sound /\ ~op.write
    => /\ acked = op.offset + rxf
       /\ acked + Len(txf) = op.wcnt
       /\ \A i \in 1..Len(txf) : txf[i].read
       /\ ipc = "start" => txf = <<>> /\ rxf = 0
       /\ ipc # "stop"

I2cInv == I2cTypeInv /\ I2cWriteInv /\ I2cReadInv

LEMMA I2cInit == I2c!Init => I2cInv
<1> SUFFICES ASSUME I2c!Init PROVE I2cInv
  OBVIOUS
<1>1. /\ txf = <<>> /\ rxf = 0 /\ acked = 0 /\ ipc = "lua" /\ abrt = "no"
      /\ op = [write |-> TRUE, len |-> 0, nostop |-> FALSE, offset |-> 0,
               wcnt |-> 0, abort |-> "no"]
  BY DEF I2c!Init
<1> QED BY <1>1, DriversAssumption DEF I2cInv, I2cTypeInv, I2cWriteInv, I2cReadInv, Sound

\* The command at the head of the TX FIFO is carried out.
LEMMA I2cBus == I2cInv /\ I2c!Bus => I2cInv'
<1> SUFFICES ASSUME I2cInv, I2c!Bus PROVE I2cInv'
  OBVIOUS
<1> DEFINE n == Len(txf)
<1>t. /\ txf \in Seq([read : BOOLEAN, stop : BOOLEAN])
      /\ rxf \in Nat /\ acked \in Nat /\ n \in Nat
      /\ op.len \in Nat /\ op.offset \in Nat /\ op.wcnt \in Nat /\ I2cDepth \in Nat
      /\ n <= I2cDepth /\ op.offset <= op.len
  BY DriversAssumption DEF I2cInv, I2cTypeInv
<1>1. /\ txf # <<>> /\ abrt = "no"
      /\ rxf' = IF Head(txf).read THEN rxf + 1 ELSE rxf
      /\ stop' = (stop \/ Head(txf).stop)
      /\ txf' = Tail(txf) /\ acked' = acked + 1
      /\ UNCHANGED <<abrt, ipc, op, clean>>
  BY DEF I2c!Bus
<1>2. /\ n >= 1 /\ Head(txf) = txf[1]
      /\ txf' \in Seq([read : BOOLEAN, stop : BOOLEAN]) /\ Len(txf') = n - 1
      /\ \A i \in 1..(n - 1) : txf'[i] = txf[i + 1]
  BY ONLY <1>t, <1>1
<1>a. acked' = acked + 1 /\ Len(txf') = n - 1 /\ n \in Nat /\ n >= 1 /\ acked \in Nat
  BY ONLY <1>t, <1>1, <1>2
<1> HIDE DEF n
<1>3. I2cTypeInv'
  <2>1. Len(txf') <= I2cDepth /\ rxf' \in Nat /\ acked' \in Nat
    BY <1>t, <1>1, <1>2
  <2> QED BY <1>1, <1>2, <2>1 DEF I2cInv, I2cTypeInv
<1>4. I2cWriteInv'
  <2> SUFFICES ASSUME Sound', op'.write, ~op'.nostop
               PROVE  I2cWriteInv'
    BY DEF I2cWriteInv
  <2>1. /\ acked + n = op.offset
        /\ \A i \in 1..n : txf[i].stop => acked + i = op.len
        /\ stop => acked = op.len
        /\ ipc # "start"
        /\ ipc = "stop" => op.offset = op.len
    BY <1>1 DEF I2cInv, I2cWriteInv, Sound, n
  <2>2. ~stop
    BY ONLY <1>t, <1>2, <2>1
  <2>3. stop' => acked' = op.len
    <3>1. ASSUME stop' PROVE txf[1].stop /\ 1 \in 1..n
      <4>1. stop' = (stop \/ Head(txf).stop)
        BY ONLY <1>1
      <4>2. Head(txf).stop
        BY ONLY <2>2, <3>1, <4>1
      <4>3. Head(txf) = txf[1]
        BY ONLY <1>2
      <4>4. txf[1].stop
        BY ONLY <4>2, <4>3
      <4> QED BY ONLY <1>a, <4>4
    <3>2. stop' => acked + 1 = op.len
      BY <2>1, <3>1
    <3> QED BY ONLY <1>a, <3>2
  <2>4. acked' + Len(txf') = op.offset
    <3>1. acked + n = op.offset /\ op.offset \in Nat
      BY <1>t, <2>1
    <3> QED BY ONLY <1>a, <3>1
  <2>5. ASSUME NEW i \in 1..Len(txf'), txf'[i].stop PROVE acked' + i = op.len
    <3>1. i \in Nat /\ i + 1 \in 1..n /\ txf'[i] = txf[i + 1]
      BY <1>t, <1>2
    <3>2. acked + (i + 1) = op.len
      BY <2>1, <2>5, <3>1
    <3> QED BY ONLY <1>t, <1>1, <3>1, <3>2
  <2> QED BY <1>1, <2>1, <2>3, <2>4, <2>5 DEF I2cWriteInv
<1>5. I2cReadInv'
  <2> SUFFICES ASSUME Sound', ~op'.write
               PROVE  I2cReadInv'
    BY DEF I2cReadInv
  <2>1. /\ acked = op.offset + rxf
        /\ acked + n = op.wcnt
        /\ \A i \in 1..n : txf[i].read
        /\ ipc # "start" /\ ipc # "stop"
    BY <1>1 DEF I2cInv, I2cReadInv, Sound, n
  <2>2. rxf' = rxf + 1
    <3>1. 1 \in 1..n
      BY ONLY <1>a
    <3> QED BY <1>1, <1>2, <2>1, <3>1
  <2>3. acked' = op.offset + rxf' /\ acked' + Len(txf') = op.wcnt
    <3>1. /\ acked = op.offset + rxf /\ acked + n = op.wcnt
          /\ op.offset \in Nat /\ rxf \in Nat /\ op.wcnt \in Nat
      BY <1>t, <2>1
    <3>2. acked' = op.offset + rxf'
      <4> DEFINE o == op.offset
      <4>1. /\ o \in Nat /\ rxf \in Nat /\ acked = o + rxf
            /\ acked' = acked + 1 /\ rxf' = rxf + 1
        BY ONLY <1>a, <2>2, <3>1
      <4> HIDE DEF o
      <4>2. acked' = o + rxf'
        BY ONLY <4>1
      <4> QED BY ONLY <4>2 DEF o
    <3>3. acked' + Len(txf') = op.wcnt
      BY ONLY <1>a, <3>1
    <3> QED BY ONLY <3>2, <3>3
  <2>4. \A i \in 1..Len(txf') : txf'[i].read
    <3>1. TAKE i \in 1..Len(txf')
    <3>2. i \in 1..(n - 1) /\ i + 1 \in 1..n
      BY ONLY <1>a
    <3> QED BY <1>2, <2>1, <3>2
  <2> QED BY <1>1, <2>1, <2>3, <2>4 DEF I2cReadInv
<1> QED BY <1>3, <1>4, <1>5 DEF I2cInv

\* A call starts with an idle peripheral, or is not a sound one.
LEMMA I2cCall ==
    ASSUME I2cInv, I2c!I2C_write_blocking \/ I2c!I2C_read_blocking
    PROVE  I2cInv'
<1>1. PICK w \in BOOLEAN, n \in 1..I2cMaxLen, s \in BOOLEAN :
          /\ op' = [write |-> w, len |-> n, nostop |-> s, offset |-> 0,
                    wcnt |-> 0, abort |-> "no"]
          /\ clean' = I2c!Idle /\ ipc' = "start" /\ acked' = 0
          /\ UNCHANGED <<txf, rxf, abrt, stop>>
  BY DEF I2c!I2C_write_blocking, I2c!I2C_read_blocking, I2c!I2C_blocking, I2c!hw
<1>2. /\ n \in Nat /\ op'.len = n /\ op'.offset = 0 /\ op'.wcnt = 0
      /\ op' \in [write : BOOLEAN, len : Nat, nostop : BOOLEAN, offset : Nat,
                  wcnt : Nat, abort : {"no", "nack", "lost"}]
  BY <1>1, DriversAssumption
<1>3. clean' => txf' = <<>> /\ rxf' = 0 /\ ~stop'
  BY <1>1 DEF I2c!Idle
<1>4. I2cTypeInv'
  BY <1>1, <1>2 DEF I2cInv, I2cTypeInv
<1>5. I2cWriteInv'
  <2>1. clean' => Len(txf') = 0 /\ acked' + Len(txf') = 0
    BY <1>1, <1>3
  <2> QED BY <1>1, <1>2, <1>3, <2>1 DEF I2cWriteInv, Sound
<1>6. I2cReadInv'
  <2>1. clean' => Len(txf') = 0 /\ acked' + Len(txf') = 0 /\ acked' = 0 + rxf'
    BY <1>1, <1>3
  <2> QED BY <1>1, <1>2, <1>3, <2>1 DEF I2cReadInv, Sound
<1> QED BY <1>4, <1>5, <1>6 DEF I2cInv

\* write_loop() gives the next command, and finds the last one given.
LEMMA I2cSend ==
    ASSUME I2cInv, ipc = "loop", I2c!Send, UNCHANGED <<clean, acked>>
    PROVE  I2cInv'
<1> DEFINE n == Len(txf)
           m == op.offset
           c == [read |-> FALSE, stop |-> m = op.len - 1 /\ ~op.nostop]
<1>t. /\ txf \in Seq([read : BOOLEAN, stop : BOOLEAN])
      /\ n \in Nat /\ m \in Nat /\ op.len \in Nat /\ I2cDepth \in Nat
      /\ acked \in Nat
  BY DriversAssumption DEF I2cInv, I2cTypeInv
<1>1. /\ UNCHANGED <<rxf, stop>> /\ op.write /\ m < op.len
      /\ \/ /\ abrt # "no" /\ abrt' = "no" /\ UNCHANGED txf
            /\ op' = [op EXCEPT !.abort = abrt]
         \/ UNCHANGED <<txf, abrt, op>> /\ ipc' = "suspended"
         \/ /\ ~(n >= I2cDepth) /\ txf' = Append(txf, c)
            /\ op' = [op EXCEPT !.offset = @ + 1]
            /\ UNCHANGED <<abrt, ipc>>
  BY DEF I2c!Send, I2c!Suspend, I2c!TakeAbort, I2c!Full
<1>2. CASE abrt # "no" /\ abrt' = "no" /\ UNCHANGED txf /\ op' = [op EXCEPT !.abort = abrt]
  <2>1. /\ op'.abort # "no" /\ op'.offset = op.offset /\ op'.len = op.len
        /\ op'.wcnt = op.wcnt
        /\ op' \in [write : BOOLEAN, len : Nat, nostop : BOOLEAN, offset : Nat,
                    wcnt : Nat, abort : {"no", "nack", "lost"}]
    BY <1>2 DEF I2cInv, I2cTypeInv
  <2> QED BY <1>1, <1>2, <2>1 DEF I2cInv, I2cTypeInv, I2cWriteInv, I2cReadInv, Sound
<1>3. CASE UNCHANGED <<txf, abrt, op>> /\ ipc' = "suspended"
  BY <1>1, <1>3 DEF I2cInv, I2cTypeInv, I2cWriteInv, I2cReadInv, Sound
<1>4. CASE /\ ~(n >= I2cDepth) /\ txf' = Append(txf, c)
           /\ op' = [op EXCEPT !.offset = @ + 1]
           /\ UNCHANGED <<abrt, ipc>>
  <2>1. /\ op'.abort = op.abort /\ op'.offset = m + 1 /\ op'.len = op.len
        /\ op'.wcnt = op.wcnt /\ op'.write /\ op'.nostop = op.nostop
        /\ op' \in [write : BOOLEAN, len : Nat, nostop : BOOLEAN, offset : Nat,
                    wcnt : Nat, abort : {"no", "nack", "lost"}]
    BY <1>1, <1>4 DEF I2cInv, I2cTypeInv
  <2>2. c \in [read : BOOLEAN, stop : BOOLEAN] /\ (c.stop => m = op.len - 1)
    OBVIOUS
  <2> HIDE DEF c
  <2>3. /\ txf' \in Seq([read : BOOLEAN, stop : BOOLEAN]) /\ Len(txf') = n + 1
        /\ \A i \in 1..n : txf'[i] = txf[i]
        /\ txf'[n + 1] = c
    BY ONLY <1>t, <1>4, <2>2
  <2> HIDE DEF n, m
  <2>4. Len(txf') <= I2cDepth /\ m + 1 <= op.len
    BY ONLY <1>t, <1>1, <1>4, <2>3
  <2>5. I2cTypeInv'
    BY <1>1, <1>4, <2>1, <2>3, <2>4 DEF I2cInv, I2cTypeInv
  <2>6. I2cReadInv'
    BY <2>1 DEF I2cReadInv
  <2>7. I2cWriteInv'
    <3> SUFFICES ASSUME Sound', op'.write, ~op'.nostop
                 PROVE  I2cWriteInv'
      BY DEF I2cWriteInv
    <3>1. /\ acked + n = m
          /\ \A i \in 1..n : txf[i].stop => acked + i = op.len
          /\ stop => acked = op.len
      BY <1>1, <1>4, <2>1 DEF I2cInv, I2cWriteInv, Sound, n, m
    <3>2. acked + Len(txf') = op'.offset
      <4>1. op'.offset = m + 1 /\ Len(txf') = n + 1 /\ acked + n = m
        BY <2>1, <2>3, <3>1
      <4> QED BY ONLY <1>t, <4>1
    <3>3. ASSUME NEW i \in 1..Len(txf'), txf'[i].stop PROVE acked + i = op.len
      <4>1. CASE i \in 1..n
        BY <2>3, <3>1, <3>3, <4>1
      <4>2. CASE i = n + 1
        <5>1. m = op.len - 1
          BY <2>2, <2>3, <3>3, <4>2
        <5> QED BY ONLY <1>t, <3>1, <4>2, <5>1
      <4> QED BY <1>t, <2>3, <4>1, <4>2
    <3> QED BY <1>1, <1>4, <2>1, <3>1, <3>2, <3>3 DEF I2cWriteInv
  <2> QED BY <2>5, <2>6, <2>7 DEF I2cInv
<1> QED BY <1>1, <1>2, <1>3, <1>4

\* read_loop() takes what has come, and gives as many commands as there is
\* room for.
LEMMA I2cReceive ==
    ASSUME I2cInv, ipc = "loop", I2c!Receive, UNCHANGED <<clean, acked>>
    PROVE  I2cInv'
<1> DEFINE n == Len(txf)
           m == op.offset
           k == op.wcnt
           e == I2c!rend
           d == I2c!wend
           cs == [i \in 1..(d - k) |-> [read |-> TRUE,
                        stop |-> k + i = op.len /\ ~op.nostop]]
<1>t. /\ txf \in Seq([read : BOOLEAN, stop : BOOLEAN])
      /\ n \in Nat /\ m \in Nat /\ k \in Nat /\ op.len \in Nat /\ I2cDepth \in Nat
      /\ acked \in Nat /\ rxf \in Nat
      /\ n <= I2cDepth /\ m <= op.len /\ k <= op.len
  BY DriversAssumption DEF I2cInv, I2cTypeInv
<1>1. /\ UNCHANGED stop /\ ~op.write /\ m < op.len
      /\ \/ ipc' = "lua" /\ abrt' = "no" /\ UNCHANGED <<txf, rxf, op>>
         \/ UNCHANGED <<txf, rxf, abrt, op>> /\ ipc' = "suspended"
         \/ /\ op' = [op EXCEPT !.offset = e, !.wcnt = d]
            /\ rxf' = rxf - (e - m) /\ txf' = txf \o cs
            /\ UNCHANGED <<abrt, ipc>>
  BY DEF I2c!Receive, I2c!Suspend, I2c!TakeAbort, I2c!Return
<1>2. CASE ipc' = "lua" /\ abrt' = "no" /\ UNCHANGED <<txf, rxf, op>>
  BY <1>1, <1>2 DEF I2cInv, I2cTypeInv, I2cWriteInv, I2cReadInv, Sound
<1>3. CASE UNCHANGED <<txf, rxf, abrt, op>> /\ ipc' = "suspended"
  BY <1>1, <1>3 DEF I2cInv, I2cTypeInv, I2cWriteInv, I2cReadInv, Sound
<1>4. CASE /\ op' = [op EXCEPT !.offset = e, !.wcnt = d]
           /\ rxf' = rxf - (e - m) /\ txf' = txf \o cs
           /\ UNCHANGED <<abrt, ipc>>
  <2>1. /\ e \in Nat /\ m <= e /\ e <= op.len /\ e <= m + rxf
        /\ d \in Nat /\ k <= d /\ d <= op.len /\ d <= k + (I2cDepth - n)
    <3> HIDE DEF n, m, k
    <3>1. e = I2c!Least(m + rxf, op.len) /\ d = I2c!Least(k + (I2cDepth - n), op.len)
      BY DEF I2c!rend, I2c!wend, n, m, k
    <3>2. /\ \A a, b \in Nat : /\ I2c!Least(a, b) \in Nat
                               /\ I2c!Least(a, b) <= a /\ I2c!Least(a, b) <= b
          /\ \A a, b, z \in Nat : z <= a /\ z <= b => z <= I2c!Least(a, b)
      BY DEF I2c!Least
    <3>3. m + rxf \in Nat /\ k + (I2cDepth - n) \in Nat /\ m <= m + rxf
          /\ k <= k + (I2cDepth - n)
      BY ONLY <1>t
    <3> QED BY ONLY <1>t, <3>1, <3>2, <3>3
  <2> HIDE DEF e, d
  <2>2. /\ cs \in Seq([read : BOOLEAN, stop : BOOLEAN]) /\ Len(cs) = d - k
        /\ \A i \in 1..Len(cs) : cs[i].read
    <3>1. d - k \in Nat
      BY ONLY <1>t, <2>1
    <3>2. /\ cs \in [1..(d - k) -> [read : BOOLEAN, stop : BOOLEAN]]
          /\ \A i \in 1..(d - k) : cs[i].read
      OBVIOUS
    <3> DEFINE l == d - k
    <3>3. /\ cs \in [1..l -> [read : BOOLEAN, stop : BOOLEAN]] /\ l \in Nat
          /\ \A i \in 1..l : cs[i].read
      BY <3>1, <3>2
    <3> HIDE DEF l, cs
    <3>4. cs \in Seq([read : BOOLEAN, stop : BOOLEAN]) /\ Len(cs) = l
      BY ONLY <3>3, FunIsSeq
    <3> QED BY <3>3, <3>4 DEF l
  <2> HIDE DEF cs
  <2>3. /\ txf' \in Seq([read : BOOLEAN, stop : BOOLEAN])
        /\ Len(txf') = n + Len(cs)
        /\ \A i \in 1..n : txf'[i] = txf[i]
        /\ \A i \in 1..Len(cs) : txf'[n + i] = cs[i]
    <3>1. txf' = txf \o cs
      BY <1>4
    <3> DEFINE C == [read : BOOLEAN, stop : BOOLEAN]
    <3>2. txf \in Seq(C) /\ cs \in Seq(C)
      BY ONLY <1>t, <2>2
    <3> HIDE DEF C
    <3>3. /\ txf \o cs \in Seq(C) /\ Len(txf \o cs) = n + Len(cs)
          /\ \A i \in 1..n : (txf \o cs)[i] = txf[i]
          /\ \A i \in 1..Len(cs) : (txf \o cs)[n + i] = cs[i]
      BY ONLY <3>2, ConcatFacts
    <3> QED BY ONLY <3>1, <3>3 DEF C
  <2>4. /\ op'.abort = op.abort /\ op'.offset = e /\ op'.len = op.len
        /\ op'.wcnt = d /\ ~op'.write /\ op'.nostop = op.nostop
        /\ op' \in [write : BOOLEAN, len : Nat, nostop : BOOLEAN, offset : Nat,
                    wcnt : Nat, abort : {"no", "nack", "lost"}]
    BY <1>1, <1>4, <2>1 DEF I2cInv, I2cTypeInv
  <2> HIDE DEF n, m, k
  <2>l. Len(txf') = n + (d - k) /\ Len(cs) = d - k /\ rxf' = rxf - (e - m)
    BY <1>4, <2>2, <2>3
  <2>5. Len(txf') <= I2cDepth /\ rxf' \in Nat
    BY ONLY <1>t, <2>1, <2>l
  <2>6. I2cTypeInv'
    BY <1>1, <1>4, <2>1, <2>3, <2>4, <2>5 DEF I2cInv, I2cTypeInv
  <2>7. I2cWriteInv'
    BY <2>4 DEF I2cWriteInv
  <2>8. I2cReadInv'
    <3> SUFFICES ASSUME Sound', ~op'.write
                 PROVE  I2cReadInv'
      BY DEF I2cReadInv
    <3>1. /\ acked = m + rxf /\ acked + n = k
          /\ \A i \in 1..n : txf[i].read
      BY <1>1, <1>4, <2>4 DEF I2cInv, I2cReadInv, Sound, n, m, k
    <3>2. acked = op'.offset + rxf' /\ acked + Len(txf') = op'.wcnt
      <4>1. op'.offset = e /\ op'.wcnt = d /\ acked = m + rxf /\ acked + n = k
        BY <2>4, <3>1
      <4> QED BY ONLY <1>t, <2>1, <2>l, <4>1
    <3>3. ASSUME NEW i \in 1..Len(txf') PROVE txf'[i].read
      <4>1. CASE i \in 1..n
        BY <2>3, <3>1, <4>1
      <4>2. CASE ~(i \in 1..n)
        <5>1. i - n \in 1..Len(cs) /\ n + (i - n) = i
          BY ONLY <1>t, <2>1, <2>l, <4>2
        <5> QED BY <2>2, <2>3, <5>1
      <4> QED BY <4>1, <4>2
    <3> QED BY <1>1, <1>4, <3>2, <3>3 DEF I2cReadInv
  <2> QED BY <2>6, <2>7, <2>8 DEF I2cInv
<1> QED BY <1>1, <1>2, <1>3, <1>4

\* What a step of the thread or of the scheduler does to a call: it keeps
\* the FIFOs and the arguments, or the call ends.
LEMMA I2cKept ==
    ASSUME I2cInv, UNCHANGED <<txf, rxf, op, clean, acked, abrt>>, ipc # "lua",
           \/ ipc' = "lua"
           \/ ipc' # "start" /\ stop' = stop /\ (ipc' = "stop" => op.write)
              /\ (ipc' = "stop" => op.offset = op.len \/ op.abort # "no")
    PROVE  I2cInv'
BY DEF I2cInv, I2cTypeInv, I2cWriteInv, I2cReadInv, Sound

LEMMA I2cStep == I2cInv /\ [I2c!Next]_I2c!vars => I2cInv'
<1> SUFFICES ASSUME I2cInv, [I2c!Next]_I2c!vars PROVE I2cInv'
  OBVIOUS
<1>0. CASE UNCHANGED I2c!vars
  BY <1>0 DEF I2c!vars, I2cInv, I2cTypeInv, I2cWriteInv, I2cReadInv, Sound
<1>1. CASE I2c!Abort
  <2>1. /\ abrt' # "no" /\ abrt' \in {"nack", "lost"} /\ txf' = <<>> /\ rxf' = 0
        /\ UNCHANGED <<op, acked>>
    BY <1>1 DEF I2c!Abort
  <2> QED BY <2>1, DriversAssumption DEF I2cInv, I2cTypeInv, I2cWriteInv, I2cReadInv, Sound
<1>2. CASE I2c!SetAddress
  <2>1. /\ ipc = "start" /\ ipc' = "loop" /\ txf' = <<>> /\ rxf' = 0
        /\ UNCHANGED <<abrt, stop, op, acked, clean>>
    BY <1>2 DEF I2c!SetAddress, I2c!Thread
  <2>2. I2cTypeInv'
    BY <2>1, DriversAssumption DEF I2cInv, I2cTypeInv
  <2>3. Sound' /\ op'.write /\ ~op'.nostop => txf' = txf
    BY <2>1 DEF I2cInv, I2cWriteInv, Sound
  <2>4. Sound' /\ ~op'.write => txf' = txf /\ rxf' = rxf
    BY <2>1 DEF I2cInv, I2cReadInv, Sound
  <2>5. I2cWriteInv'
    BY <2>1, <2>3 DEF I2cInv, I2cWriteInv, Sound
  <2>6. I2cReadInv'
    BY <2>1, <2>4 DEF I2cInv, I2cReadInv, Sound
  <2> QED BY <2>2, <2>5, <2>6 DEF I2cInv
<1>3. CASE I2c!Loop
  <2>1. ipc = "loop" /\ UNCHANGED <<clean, acked>>
    BY <1>3 DEF I2c!Loop, I2c!Thread
  <2>2. CASE I2c!Sent
    BY <2>1, <2>2, I2cKept DEF I2c!Sent, I2c!hw
  <2>3. CASE I2c!Received
    BY <2>1, <2>3, I2cKept DEF I2c!Received, I2c!Return, I2c!hw
  <2> QED BY <1>3, <2>1, <2>2, <2>3, I2cSend, I2cReceive
          DEF I2c!Loop, I2c!write_loop, I2c!read_loop
<1>4. CASE I2c!Stop \/ I2c!Timer \/ I2c!Run
  <2>1. /\ UNCHANGED <<txf, rxf, op, clean, acked, abrt>> /\ ipc # "lua"
        /\ \/ ipc' = "lua"
           \/ ipc' # "start" /\ stop' = stop /\ (ipc' = "stop" => op.write)
              /\ (ipc' = "stop" => op.offset = op.len \/ op.abort # "no")
    BY <1>4 DEF I2c!Stop, I2c!Timer, I2c!Run, I2c!Suspend, I2c!Return, I2c!Thread,
                I2c!hw, I2c!irq
  <2> QED BY <2>1, I2cKept
<1>5. CASE I2c!Dispatch \/ I2c!handle_i2c_irq
  <2>1. /\ UNCHANGED <<txf, rxf, stop, op, clean, acked, abrt>>
        /\ \/ ipc' = ipc
           \/ ipc = "suspended" /\ ipc' = "ready"
    BY <1>5 DEF I2c!Dispatch, I2c!handle_i2c_irq, I2c!hw
  <2> QED BY <2>1 DEF I2cInv, I2cTypeInv, I2cWriteInv, I2cReadInv, Sound
<1> QED BY <1>0, <1>1, <1>2, <1>3, <1>4, <1>5, I2cBus, I2cCall DEF I2c!Next

\* The count that a sound call returns is what the device has acknowledged.
LEMMA I2cCounts == I2cInv /\ [I2c!Next]_I2c!vars => I2c!CountHolds
<1> SUFFICES ASSUME I2cInv, [I2c!Next]_I2c!vars,
                    ipc # "lua", ipc' = "lua", clean, op.abort = "no", abrt = "no",
                    op.write => ~op.nostop
             PROVE  result' \in {<<"count", acked>>, <<"timeout", 0>>}
  BY DEF I2c!CountHolds
<1>t. /\ rxf \in Nat /\ acked \in Nat /\ Len(txf) \in Nat
      /\ op.offset \in Nat /\ op.wcnt \in Nat /\ op.len \in Nat
      /\ op.wcnt <= op.len /\ op.write \in BOOLEAN
  BY DEF I2cInv, I2cTypeInv
<1>1. \/ I2c!Stop
      \/ I2c!Received
      \/ I2c!Run
  BY DEF I2c!Next, I2c!vars, I2c!Bus, I2c!Abort, I2c!handle_i2c_irq,
         I2c!I2C_write_blocking, I2c!I2C_read_blocking, I2c!I2C_blocking, I2c!SetAddress,
         I2c!Loop, I2c!write_loop, I2c!read_loop, I2c!Send, I2c!Sent, I2c!Receive,
         I2c!Suspend, I2c!TakeAbort, I2c!Dispatch, I2c!Timer
<1>2. CASE I2c!Stop
  <2>1. ipc = "stop" /\ (I2c!AwaitsStop => stop) /\ result' = I2c!Count(op.abort)
    BY <1>2 DEF I2c!Stop, I2c!Suspend, I2c!Return
  <2>2. op.write
    BY <2>1, <1>t DEF I2cInv, I2cReadInv, Sound
  <2>3. stop /\ result' = <<"count", op.offset>>
    BY <2>1, <2>2 DEF I2c!AwaitsStop, I2c!Count
  <2>4. acked = op.len /\ op.offset = op.len
    BY <2>1, <2>2, <2>3 DEF I2cInv, I2cWriteInv, Sound
  <2> QED BY <2>3, <2>4
<1>3. CASE I2c!Received
  <2>1. ~op.write /\ op.offset = op.len /\ result' = <<"count", op.offset>>
    BY <1>3 DEF I2c!Received, I2c!Return, I2c!Count
  <2>2. acked = op.offset + rxf /\ acked + Len(txf) = op.wcnt
    BY <2>1 DEF I2cInv, I2cReadInv, Sound
  <2>3. acked = op.offset
    BY ONLY <1>t, <2>1, <2>2
  <2> QED BY <2>1, <2>3
<1>4. CASE I2c!Run
  BY <1>4 DEF I2c!Run, I2c!Return
<1> QED BY <1>1, <1>2, <1>3, <1>4
-----------------------------------------------------------------------------
(* The models side by side.  A step of the system is a step of the model     *)
(* that moves, and leaves the others alone.                                  *)

DriversInv ==
    /\ which = "alarm" => AlarmInv
    /\ which = "i2c" => I2cInv
    /\ which = "spi" => SpiInv
    /\ which = "gpio" => GpioInv
    /\ which = "dma" => DmaInv
    /\ which = "pio" => PioInv
    /\ which = "user" => UserInv
    /\ which = "rtc" => RtcInv
    /\ which = "pwm" => PwmInv
    /\ which = "core1" => Core1Inv

LEMMA DriversInit == InitAll => DriversInv
BY AlarmInit, I2cInit, SpiInit, GpioInit, DmaInit, PioInit, UserInit, RtcInit, PwmInit,
   Core1Init
DEF InitAll, DriversInv

LEMMA ModelMoves ==
    ASSUME [NextAll]_all
    PROVE  /\ which' = which
           /\ which = "alarm" => [Alarm!Next]_Alarm!vars
           /\ which = "i2c" => [I2c!Next]_I2c!vars
           /\ which = "spi" => [Spi!Next]_Spi!vars
           /\ which = "gpio" => [Gpio!Next]_Gpio!vars
           /\ which = "dma" => [Dma!Next]_Dma!vars
           /\ which = "pio" => [Pio!Next]_Pio!vars
           /\ which = "user" => [User!Next]_User!vars
           /\ which = "rtc" => [Rtc!Next]_Rtc!vars
           /\ which = "pwm" => [Pwm!Next]_Pwm!vars
           /\ which = "core1" => [Core1!Next]_Core1!vars
<1>1. CASE NextAll
  BY <1>1 DEF NextAll, Step
<1>2. CASE UNCHANGED all
  <2>1. which' = which
    BY <1>2 DEF all
  <2>2. UNCHANGED Alarm!vars
    BY <1>2 DEF all, alarm, Alarm!vars
  <2>3. UNCHANGED I2c!vars
    BY <1>2 DEF all, i2c, I2c!vars
  <2>4. UNCHANGED Spi!vars
    BY <1>2 DEF all, spi, Spi!vars
  <2>5. UNCHANGED Gpio!vars
    BY <1>2 DEF all, gpio, Gpio!vars
  <2>6. UNCHANGED Dma!vars
    BY <1>2 DEF all, dma, Dma!vars
  <2>7. UNCHANGED Pio!vars
    BY <1>2 DEF all, pio, Pio!vars
  <2>8. UNCHANGED User!vars
    BY <1>2 DEF all, user, handler, User!vars, User!handlerVars
  <2>9. UNCHANGED Rtc!vars
    BY <1>2 DEF all, rtc, handler, Rtc!vars, Rtc!handlerVars
  <2>10. UNCHANGED Pwm!vars
    BY <1>2 DEF all, pwm, handler, Pwm!vars, Pwm!handlerVars, Pwm!pwmVars
  <2>11. UNCHANGED Core1!vars
    BY <1>2 DEF all, core1, handler, Core1!vars, Core1!handlerVars
  <2> QED BY <2>1, <2>2, <2>3, <2>4, <2>5, <2>6, <2>7, <2>8, <2>9, <2>10, <2>11
<1> QED BY <1>1, <1>2

LEMMA DriversStep == DriversInv /\ [NextAll]_all => DriversInv'
<1> SUFFICES ASSUME DriversInv, [NextAll]_all PROVE DriversInv'
  OBVIOUS
<1>1. /\ which = "alarm" => AlarmInv'
      /\ which = "i2c" => I2cInv'
      /\ which = "spi" => SpiInv'
      /\ which = "gpio" => GpioInv'
      /\ which = "dma" => DmaInv'
      /\ which = "pio" => PioInv'
      /\ which = "user" => UserInv'
      /\ which = "rtc" => RtcInv'
      /\ which = "pwm" => PwmInv'
      /\ which = "core1" => Core1Inv'
  BY ModelMoves, AlarmStep, I2cStep, SpiStep, GpioStep, DmaStep, PioStep, UserStep,
     RtcStep, PwmStep, Core1Step
  DEF DriversInv
<1> QED BY <1>1, ModelMoves DEF DriversInv

LEMMA DriversInvariant == SpecAll => []DriversInv
BY DriversInit, DriversStep, PTL DEF SpecAll

\* Masking and unmasking lose no interrupt and leave none behind: an edge that
\* is stored, a level that is masked, a completion, a full or empty FIFO and a
\* wrap are found by who waits for them, for any pins, channels, flags and
\* slices (hardware.gpio.c, hardware.dma.c, hardware.pio.c, hardware.pwm.c).
THEOREM IrqsCorrect == SpecAll => []IrqsAreKept
<1>1. DriversInv => IrqsAreKept
  <2> SUFFICES ASSUME DriversInv PROVE IrqsAreKept
    OBVIOUS
  <2>1. which = "gpio" => /\ Gpio!StoredEdgesAreTaken /\ Gpio!MaskedLevelsReturn
                          /\ Gpio!InterruptsAreWanted
    BY DEF DriversInv, GpioInv, GpioTypeInv, Gpio!InterruptsAreWanted
  <2>2. which = "dma" => Dma!WaiterIsTold /\ Dma!CompletionsAreKept /\ Dma!EventsMatchInte
    BY DEF DriversInv, DmaInv, DmaToldInv, Dma!WaiterIsTold
  <2>3. which = "pio" => Pio!WaitersAreArmed /\ Pio!EventsMatchMask
    BY DEF DriversInv, PioInv
  <2>4. which = "pwm" => Pwm!WrapsAreKept
    BY DEF DriversInv, PwmInv, Pwm!WrapsAreKept
  <2> QED BY <2>1, <2>2, <2>3, <2>4 DEF IrqsAreKept
<1> QED BY <1>1, DriversInvariant, PTL

\* A handler thread that waits while there is something to report has its
\* event pending: no trigger falls between the test of handle_*_event() and
\* the suspension (mlua.event.c), for any number of slices and threads.
THEOREM TriggersCorrect == SpecAll => []TriggersAreReported
<1>1. DriversInv => TriggersAreReported
  <2> SUFFICES ASSUME DriversInv PROVE TriggersAreReported
    OBVIOUS
  <2>1. which = "alarm" => Alarm!TriggerReachesQuickHandler
    BY DEF DriversInv, AlarmInv, AlarmThreadInv, Alarm!TriggerReachesQuickHandler
  <2>2. which = "user" => User!PendingIsReported
    BY DEF DriversInv, UserInv, Flagged, User!PendingIsReported
  <2>3. which = "rtc" => Rtc!PendingIsReported
    BY DEF DriversInv, RtcInv, Flagged, Rtc!PendingIsReported
  <2>4. which = "pwm" => Pwm!PendingIsReported
    BY DEF DriversInv, PwmInv, Flagged, Pwm!PendingIsReported
  <2>5. which = "core1" => Core1!ShutdownIsReported
    BY DEF DriversInv, Core1Inv, Flagged, Core1!ShutdownIsReported
  <2> QED BY <2>1, <2>2, <2>3, <2>4, <2>5 DEF TriggersAreReported
<1> QED BY <1>1, DriversInvariant, PTL

\* While the event of an alarm is enabled its handler thread is alive, and
\* nothing is left of one that has ended: set_callback(), a kill, an error and
\* a callback that replaces its own handler included (hardware.timer.c).
THEOREM AlarmCorrect == SpecAll => []HandlerOwnsAlarm
<1>1. DriversInv => HandlerOwnsAlarm
  BY DEF DriversInv, AlarmInv, HandlerOwnsAlarm
<1> QED BY <1>1, DriversInvariant, PTL

\* The thread of core 0 that resets core 1 does not wait for ever: when core 1
\* has stopped, the event that says so is queued or its waiter is ready.  It
\* is stated for a single waiting thread: the event has one watcher.
THEOREM ResetCorrect ==
    ASSUME \A t, u \in Core0Threads : t = u
    PROVE  SpecAll => []ResetIsNotStuck
<1> DEFINE StopInv == which = "core1" => StoppedInv
<1>1. InitAll => StopInv
  BY StoppedInit DEF InitAll
<1>2. DriversInv /\ StopInv /\ [NextAll]_all => StopInv'
  <2> SUFFICES ASSUME DriversInv, StopInv, [NextAll]_all, which' = "core1"
               PROVE  StoppedInv'
    OBVIOUS
  <2>1. which = "core1" /\ [Core1!Next]_Core1!vars
    BY ModelMoves
  <2> QED BY <2>1, StoppedStep DEF DriversInv
<1>3. StopInv => ResetIsNotStuck
  BY DEF StoppedInv, ResetIsNotStuck
<1> QED BY <1>1, <1>2, <1>3, DriversInvariant, PTL DEF SpecAll

\* A callback is called for something that came after the last call that
\* cancelled, cleared or replaced it, and once for it (handle_*_event()).
THEOREM CallbacksCorrect == SpecAll => NoStaleCallback
<1> DEFINE CallsHold ==
      /\ which = "alarm" => Alarm!CallIsForFired
      /\ which = "gpio" => Gpio!EdgesAreTakenOnce
      /\ which = "user" => User!CallIsForRaised
      /\ which = "rtc" => Rtc!CallIsForDue
      /\ which = "pwm" => Pwm!CallIsForWrapped
<1>1. DriversInv /\ [NextAll]_all => [CallsHold]_all
  BY ModelMoves, AlarmFired, GpioTakes, UserCalls, RtcCalls, PwmCalls DEF DriversInv
<1> QED BY <1>1, DriversInvariant, PTL DEF SpecAll, NoStaleCallback

\* What a transfer returns is what was transferred: the count of a sound I2C
\* call is what the device has acknowledged or sent, and an SPI transfer
\* returns each unit once and in order, with FIFOs of any size (write_loop()
\* and read_loop() of hardware.i2c.c, write_read_loop() of hardware.spi.c).
THEOREM TransfersCorrect == SpecAll => TransfersAreWhole
<1>1. DriversInv /\ [NextAll]_all => [which = "i2c" => I2c!CountHolds]_i2c
  BY ModelMoves, I2cCounts DEF DriversInv
<1>2. DriversInv /\ [NextAll]_all => [which = "spi" => Spi!UnitsHold]_spi
  BY ModelMoves, SpiReturns DEF DriversInv
<1> QED BY <1>1, <1>2, DriversInvariant, PTL DEF SpecAll, TransfersAreWhole

=============================================================================
