----------------------------- MODULE DataProofs -----------------------------
(*****************************************************************************)
(* Proofs about the other modules of MCData.tla: waiting for events, the     *)
(* files of littlefs, the loader of modules, lists and arrays of integers.   *)
(*****************************************************************************)
EXTENDS NumberProofs

-----------------------------------------------------------------------------
(* EventWait, for any number of threads and events. *)

\* The queue is a sequence of events without repetition.
QueueInv == queue \in Seq(Events) /\ Distinct(queue)

\* A thread that has found its conditions false, and has yet to register, is
\* running, so that its events stay enabled; and if one of its conditions has
\* become true meanwhile, the event is pending.
WatchInv ==
    \A t \in Threads :
        pc[t] = "watch" =>
            /\ running = t
            /\ \A e \in wants[t] :
                  enabled[e] /\ (ready[e] => e \in Elements(queue))

IInv ==
    /\ TypeOK
    /\ QueueInv
    /\ WatchInv
    /\ DisabledIsForgotten
    /\ NoLostCondition

\* The initial states satisfy the invariant.
LEMMA InitInv == Init => IInv
<1> SUFFICES ASSUME Init PROVE IInv
  OBVIOUS
<1>1. Elements(queue) = {} /\ QueueInv
  BY EmptyQueue DEF Init, QueueInv
<1>2. TypeOK
  BY <1>1 DEF Init, TypeOK
<1>3. WatchInv /\ DisabledIsForgotten /\ NoLostCondition
  BY <1>1 DEF Init, WatchInv, DisabledIsForgotten, NoLostCondition, Watches,
              Waiting
<1> QED BY <1>1, <1>2, <1>3 DEF IInv

\* An interrupt only adds its event to the queue, and does if it is enabled.
LEMMA InterruptInv ==
  ASSUME IInv, NEW e \in Events, Interrupt(e)
  PROVE  IInv'
<1>1. /\ Elements(queue') = IF enabled[e] THEN Elements(queue) \cup {e}
                                          ELSE Elements(queue)
      /\ QueueInv'
  <2>1. CASE enabled[e] /\ e \notin Elements(queue)
    BY <2>1, AppendNew DEF IInv, QueueInv, Interrupt
  <2>2. CASE ~(enabled[e] /\ e \notin Elements(queue))
    <3>1. queue' = queue
      BY <2>2 DEF Interrupt
    <3> QED BY <2>2, <3>1 DEF IInv, QueueInv
  <2> QED BY <2>1, <2>2
<1>2. /\ ready' = [ready EXCEPT ![e] = TRUE]
      /\ UNCHANGED <<enabled, watcher, running, state, pc, wants, deadline>>
  BY DEF Interrupt, threadVars
<1>3. TypeOK'
  BY <1>1, <1>2 DEF IInv, TypeOK
<1>4. WatchInv'
  BY <1>1, <1>2 DEF IInv, TypeOK, WatchInv
<1>5. DisabledIsForgotten'
  BY <1>1, <1>2 DEF IInv, TypeOK, DisabledIsForgotten
<1>6. NoLostCondition'
  BY <1>1, <1>2, NullAssumption DEF IInv, TypeOK, DisabledIsForgotten,
     NoLostCondition, Watches, Waiting, Suspended
<1> QED BY <1>1, <1>3, <1>4, <1>5, <1>6 DEF IInv

\* A loop function only makes conditions false.
LEMMA ConsumeFacts ==
  ASSUME TypeOK, NEW E \in SUBSET Events, Consume(E)
  PROVE  /\ ready' \in [Events -> BOOLEAN]
         /\ \A e \in Events : ready'[e] => ready[e]
<1>1. PICK e \in E : ready' = [ready EXCEPT ![e] = FALSE]
  BY DEF Consume
<1> QED BY <1>1 DEF TypeOK

\* The first test leaves the running thread with all its conditions false.
LEMMA CheckInv ==
  ASSUME IInv, NEW t \in Threads, NEW E \in SUBSET Events,
         NEW d \in {"none", "future"}, Check(t, E, d)
  PROVE  IInv'
<1>1. /\ running = t /\ pc[t] = "lua"
      /\ \A e \in E : enabled[e]
      /\ UNCHANGED <<enabled, queue, watcher, running, state>>
  BY DEF Check
<1>2. CASE Consume(E) /\ UNCHANGED <<pc, wants, deadline>>
  <2>1. /\ ready' \in [Events -> BOOLEAN]
        /\ \A e \in Events : ready'[e] => ready[e]
    BY <1>2, ConsumeFacts DEF IInv
  <2>2. TypeOK' /\ QueueInv' /\ DisabledIsForgotten'
    BY <1>1, <1>2, <2>1 DEF IInv, TypeOK, QueueInv, DisabledIsForgotten
  <2>3. WatchInv'
    BY <1>1, <1>2, <2>1 DEF IInv, TypeOK, WatchInv
  <2>4. NoLostCondition'
    BY <1>1, <1>2, <2>1 DEF IInv, TypeOK, NoLostCondition, Watches, Waiting,
                           Suspended
  <2> QED BY <2>2, <2>3, <2>4 DEF IInv
<1>3. CASE /\ \A e \in E : ~ready[e]
           /\ pc' = [pc EXCEPT ![t] = "watch"]
           /\ wants' = [wants EXCEPT ![t] = E]
           /\ deadline' = [deadline EXCEPT ![t] = d]
           /\ UNCHANGED ready
  <2>1. TypeOK' /\ QueueInv' /\ DisabledIsForgotten'
    BY <1>1, <1>3 DEF IInv, TypeOK, QueueInv, DisabledIsForgotten
  <2>2. WatchInv'
    BY <1>1, <1>3 DEF IInv, TypeOK, WatchInv
  <2>3. NoLostCondition'
    BY <1>1, <1>3 DEF IInv, TypeOK, NoLostCondition, Watches, Waiting,
                      Suspended
  <2> QED BY <2>1, <2>2, <2>3 DEF IInv
<1> QED BY <1>2, <1>3 DEF Check

\* Registering is where the two halves of the argument meet: a condition that
\* became true since the test has made its event pending.
LEMMA WatchStepInv ==
  ASSUME IInv, NEW t \in Threads, Watch(t)
  PROVE  IInv'
<1>1. /\ running = t /\ pc[t] = "watch"
      /\ watcher' = [e \in Events |-> IF e \in wants[t] THEN t
                                                        ELSE watcher[e]]
      /\ pc' = [pc EXCEPT ![t] = "wait"]
      /\ running' = NULL
      /\ state' = [state EXCEPT ![t] = IF deadline[t] = "none"
                                       THEN "suspended" ELSE "timer"]
      /\ UNCHANGED <<ready, enabled, queue, wants, deadline>>
  BY DEF Watch, WatchEvents, Suspend
<1>2. \A e \in wants[t] : enabled[e] /\ (ready[e] => e \in Elements(queue))
  BY <1>1 DEF IInv, WatchInv
<1>3. TypeOK' /\ QueueInv'
  BY <1>1 DEF IInv, TypeOK, QueueInv
<1>4. WatchInv'
  BY <1>1 DEF IInv, TypeOK, WatchInv
<1>5. DisabledIsForgotten'
  BY <1>1, <1>2 DEF IInv, TypeOK, DisabledIsForgotten
<1>6. NoLostCondition'
  BY <1>1, <1>2, NullAssumption DEF IInv, TypeOK, NoLostCondition, Watches,
     Waiting, Suspended
<1> QED BY <1>3, <1>4, <1>5, <1>6 DEF IInv

\* The steps of a thread that was resumed in a wait.
LEMMA ResumedInv ==
  ASSUME IInv, NEW t \in Threads, Succeed(t) \/ Retry(t) \/ Raise(t)
  PROVE  IInv'
<1> USE DEF IInv
<1>1. CASE Succeed(t)
  <2>1. /\ running = t /\ pc[t] = "wait"
        /\ watcher' = [e \in Events |-> IF e \in wants[t] /\ enabled[e]
                                        THEN NULL ELSE watcher[e]]
        /\ pc' = [pc EXCEPT ![t] = "lua"]
        /\ wants' = [wants EXCEPT ![t] = {}]
        /\ deadline' = [deadline EXCEPT ![t] = "none"]
        /\ UNCHANGED <<enabled, queue, running, state>>
    BY <1>1 DEF Succeed, UnwatchEvents, Return
  <2>2. /\ ready' \in [Events -> BOOLEAN]
        /\ \A e \in Events : ready'[e] => ready[e]
    <3>1. wants[t] \in SUBSET Events
      BY DEF TypeOK
    <3> QED BY <1>1, <3>1, ConsumeFacts DEF Succeed, TypeOK
  <2>3. TypeOK' /\ QueueInv' /\ DisabledIsForgotten'
    BY <2>1, <2>2 DEF TypeOK, QueueInv, DisabledIsForgotten
  <2>4. WatchInv'
    BY <2>1, <2>2 DEF TypeOK, WatchInv
  <2>5. NoLostCondition'
    BY <2>1, <2>2, NullAssumption DEF TypeOK, NoLostCondition, Watches,
       Waiting, Suspended
  <2> QED BY <2>3, <2>4, <2>5
<1>2. CASE Retry(t)
  <2>1. /\ running = t /\ pc[t] = "wait"
        /\ \A e \in wants[t] : ~ready[e]
        /\ running' = NULL
        /\ state' = [state EXCEPT ![t] = IF deadline[t] = "none"
                                         THEN "suspended" ELSE "timer"]
        /\ UNCHANGED <<ready, enabled, queue, watcher, pc, wants, deadline>>
    BY <1>2 DEF Retry, Suspend, eventVars
  <2>2. TypeOK' /\ QueueInv' /\ DisabledIsForgotten'
    BY <2>1 DEF TypeOK, QueueInv, DisabledIsForgotten
  <2>3. WatchInv'
    BY <2>1 DEF TypeOK, WatchInv
  <2>4. NoLostCondition'
    BY <2>1, NullAssumption DEF TypeOK, NoLostCondition, Watches, Waiting,
       Suspended
  <2> QED BY <2>2, <2>3, <2>4
<1>3. CASE Raise(t)
  BY <1>3 DEF Raise, Return, eventVars, TypeOK, QueueInv, WatchInv,
     DisabledIsForgotten, NoLostCondition, Watches, Waiting, Suspended
<1> QED BY <1>1, <1>2, <1>3

\* The other calls of the running thread: none runs while a thread is between
\* its test and its registration.
LEMMA LuaInv ==
  ASSUME IInv, NEW t \in Threads, running = t, pc[t] = "lua",
         \/ \E e \in Events : Enable(t, e) \/ Disable(t, e)
         \/ \E u \in Threads : Resume(t, u) \/ Kill(t, u)
         \/ \E newState \in {"active", "suspended", "dead"} :
               Leave(t, newState)
  PROVE  IInv'
<1>1. \A u \in Threads : pc[u] # "watch"
  BY DEF IInv, WatchInv
<1>2. ASSUME NEW e \in Events, Enable(t, e)
      PROVE  IInv'
  BY <1>1, <1>2 DEF Enable, threadVars, IInv, TypeOK, QueueInv, WatchInv,
     DisabledIsForgotten, NoLostCondition, Watches, Waiting, Suspended
<1>3. ASSUME NEW e \in Events, Disable(t, e)
      PROVE  IInv'
  <2>1. /\ enabled' = [enabled EXCEPT ![e] = FALSE]
        /\ watcher' = [watcher EXCEPT ![e] = NULL]
        /\ UNCHANGED <<ready, running, state, pc, wants, deadline>>
    BY <1>3 DEF Disable, threadVars
  <2>2. QueueInv' /\ Elements(queue') = Elements(queue) \ {e}
    BY <1>3, WithoutElement DEF IInv, QueueInv, Disable
  <2>3. TypeOK'
    BY <2>1, <2>2 DEF IInv, TypeOK
  <2>4. WatchInv' /\ DisabledIsForgotten'
    BY <1>1, <2>1, <2>2 DEF IInv, TypeOK, WatchInv, DisabledIsForgotten
  <2>5. NoLostCondition'
    BY <2>1, <2>2, NullAssumption DEF IInv, TypeOK, NoLostCondition, Watches,
       Waiting, Suspended
  <2> QED BY <2>2, <2>3, <2>4, <2>5 DEF IInv
<1>4. ASSUME NEW u \in Threads, Resume(t, u) \/ Kill(t, u)
      PROVE  IInv'
  BY <1>1, <1>4 DEF Resume, Kill, eventVars, IInv, TypeOK, QueueInv, WatchInv,
     DisabledIsForgotten, NoLostCondition, Watches, Waiting, Suspended
<1>5. ASSUME NEW newState \in {"active", "suspended", "dead"},
             Leave(t, newState)
      PROVE  IInv'
  BY <1>1, <1>5 DEF Leave, eventVars, IInv, TypeOK, QueueInv, WatchInv,
     DisabledIsForgotten, NoLostCondition, Watches, Waiting, Suspended
<1> QED BY <1>2, <1>3, <1>4, <1>5

\* The scheduler runs only when no thread does.
LEMMA SchedulerInv ==
  ASSUME IInv,
         Dispatch \/ \E t \in Threads : Run(t) \/ Reach(t) \/ Expire(t)
  PROVE  IInv'
<1>1. CASE Dispatch
  <2> DEFINE w == watcher[Head(queue)]
  <2>1. /\ running = NULL
        /\ queue # <<>>
        /\ queue' = Tail(queue)
        /\ state' = IF w # NULL /\ Suspended(w)
                    THEN [state EXCEPT ![w] = "active"] ELSE state
        /\ UNCHANGED <<ready, enabled, watcher, running, pc, wants, deadline>>
    BY <1>1 DEF Dispatch
  <2>2. /\ Head(queue) \in Events
        /\ QueueInv'
        /\ Elements(queue) = Elements(queue') \cup {Head(queue)}
    BY <2>1, HeadAndTail DEF IInv, QueueInv
  <2>3. w \in Threads \cup {NULL}
    BY <2>2 DEF IInv, TypeOK
  <2>4. TypeOK'
    BY <2>1, <2>2, <2>3 DEF IInv, TypeOK
  <2>5. \A u \in Threads : pc[u] # "watch"
    BY <2>1, NullAssumption DEF IInv, WatchInv
  <2>6. WatchInv' /\ DisabledIsForgotten'
    BY <2>1, <2>2, <2>5 DEF IInv, WatchInv, DisabledIsForgotten
  <2>7. NoLostCondition'
    <3> SUFFICES ASSUME NEW u \in Threads, NEW e \in Events, Watches(u, e)',
                        Suspended(u)', ready'[e]
                 PROVE  e \in Elements(queue')
      BY DEF NoLostCondition
    <3>1. Suspended(u) /\ Watches(u, e) /\ ready[e]
      BY <2>1, <2>3 DEF Watches, Waiting, Suspended, IInv, TypeOK
    <3>2. e \in Elements(queue)
      BY <3>1 DEF IInv, NoLostCondition
    <3>3. e # Head(queue)
      BY <2>1, <2>3, <3>1, NullAssumption DEF Watches, Suspended, IInv, TypeOK
    <3> QED BY <2>2, <3>2, <3>3
  <2> QED BY <2>2, <2>4, <2>6, <2>7 DEF IInv
<1>2. ASSUME NEW t \in Threads, Run(t) \/ Reach(t) \/ Expire(t)
      PROVE  IInv'
  BY <1>2, NullAssumption DEF Run, Reach, Expire, eventVars, IInv, TypeOK,
     QueueInv, WatchInv, DisabledIsForgotten, NoLostCondition, Watches,
     Waiting, Suspended
<1> QED BY <1>1, <1>2

\* Every step preserves the invariant.
LEMMA StepInv == IInv /\ [Next]_vars => IInv'
<1> SUFFICES ASSUME IInv, [Next]_vars PROVE IInv'
  OBVIOUS
<1>1. CASE UNCHANGED vars
  BY <1>1 DEF vars, IInv, TypeOK, QueueInv, WatchInv, DisabledIsForgotten,
     NoLostCondition, Watches, Waiting, Suspended
<1>2. ASSUME NEW e \in Events, Interrupt(e)
      PROVE  IInv'
  BY <1>2, InterruptInv
<1>3. ASSUME NEW t \in Threads, WaitStep(t)
      PROVE  IInv'
  BY <1>3, CheckInv, WatchStepInv, ResumedInv DEF WaitStep
<1>4. ASSUME NEW t \in Threads,
             \/ \E e \in Events : Enable(t, e) \/ Disable(t, e)
             \/ \E u \in Threads : Resume(t, u) \/ Kill(t, u)
             \/ \E newState \in {"active", "suspended", "dead"} :
                   Leave(t, newState)
      PROVE  IInv'
  <2>1. running = t /\ pc[t] = "lua"
    BY <1>4 DEF Enable, Disable, Resume, Kill, Leave
  <2> QED BY <1>4, <2>1, LuaInv
<1>5. CASE Dispatch \/ \E t \in Threads : Run(t) \/ Reach(t) \/ Expire(t)
  BY <1>5, SchedulerInv
<1> QED BY <1>1, <1>2, <1>3, <1>4, <1>5 DEF Next

\* The inductive invariant holds in every reachable state.
THEOREM Invariance == Spec => []IInv
  BY InitInv, StepInv, PTL DEF Spec

\* Every variable keeps its type.
THEOREM TypeCorrect == Spec => []TypeOK
<1>1. IInv => TypeOK
  BY DEF IInv
<1> QED BY <1>1, Invariance, PTL

\* No condition is lost between its test, the registration of the thread and
\* its suspension (mlua_event_wait()).
THEOREM WaitCorrect == Spec => []NoLostCondition
<1>1. IInv => NoLostCondition
  BY DEF IInv
<1> QED BY <1>1, Invariance, PTL

\* A disabled event has no watcher and is not pending (mlua_event_disable()).
THEOREM DisableCorrect == Spec => []DisabledIsForgotten
<1>1. IInv => DisabledIsForgotten
  BY DEF IInv
<1> QED BY <1>1, Invariance, PTL

\* The thread that executes is active.
RunInv == running \in Threads => state[running] = "active"

\* Threads leave the active state only when they suspend or end, or are killed
\* by another.
LEMMA RunningIsActive == Spec => []RunInv
<1>1. Init => RunInv
  BY NullAssumption DEF Init, RunInv
<1>2. TypeOK /\ RunInv /\ [Next]_vars => RunInv'
  <2> SUFFICES ASSUME TypeOK, RunInv, [Next]_vars PROVE RunInv'
    OBVIOUS
  <2>1. CASE UNCHANGED vars
    BY <2>1 DEF vars, RunInv
  <2>2. ASSUME NEW e \in Events, Interrupt(e)
        PROVE  RunInv'
    BY <2>2 DEF Interrupt, threadVars, RunInv
  <2>3. ASSUME NEW t \in Threads, WaitStep(t)
        PROVE  RunInv'
    BY <2>3, NullAssumption DEF WaitStep, Check, Watch, Succeed, Retry, Raise,
       Suspend, RunInv
  <2>4. ASSUME NEW t \in Threads, NEW e \in Events, Enable(t, e) \/ Disable(t, e)
        PROVE  RunInv'
    BY <2>4 DEF Enable, Disable, threadVars, RunInv
  <2>5. ASSUME NEW t \in Threads, NEW u \in Threads, Resume(t, u) \/ Kill(t, u)
        PROVE  RunInv'
    BY <2>5 DEF Resume, Kill, TypeOK, RunInv
  <2>6. ASSUME NEW t \in Threads,
               NEW newState \in {"active", "suspended", "dead"},
               Leave(t, newState)
        PROVE  RunInv'
    BY <2>6, NullAssumption DEF Leave, RunInv
  <2>7. ASSUME NEW t \in Threads, Run(t) \/ Reach(t) \/ Expire(t)
        PROVE  RunInv'
    BY <2>7, NullAssumption DEF Run, Reach, Expire, RunInv
  <2>8. CASE Dispatch
    BY <2>8, NullAssumption DEF Dispatch, RunInv
  <2> QED BY <2>1, <2>2, <2>3, <2>4, <2>5, <2>6, <2>7, <2>8 DEF Next
<1> QED BY <1>1, <1>2, TypeCorrect, PTL DEF Spec

\* What one step does to the watcher of an event that remains enabled.
LEMMA StepKeepsWatching ==
  ASSUME TypeOK, RunInv, [Next]_vars,
         NEW t \in Threads, NEW e \in Events,
         pc[t] = "wait", pc'[t] = "wait",
         e \in wants[t], watcher[e] = t, enabled'[e],
         \A u \in Threads \ {t} : e \in wants[u] => state[u] = "dead"
  PROVE  watcher'[e] = t
<1>1. CASE UNCHANGED watcher
  BY <1>1
<1>2. ASSUME NEW u \in Threads, u # t, running = u
      PROVE  e \notin wants[u]
  BY <1>2 DEF RunInv
<1>3. ASSUME NEW u \in Threads, Watch(u)
      PROVE  watcher'[e] = t
  <2>1. running = u /\ u # t
    BY <1>3 DEF Watch
  <2>2. watcher'[e] = watcher[e]
    BY <1>2, <1>3, <2>1 DEF Watch, WatchEvents
  <2> QED BY <2>2
<1>4. ASSUME NEW u \in Threads, Succeed(u)
      PROVE  watcher'[e] = t
  <2>1. running = u /\ u # t
    BY <1>4 DEF Succeed, Return, TypeOK
  <2>2. watcher'[e] = watcher[e]
    BY <1>2, <1>4, <2>1 DEF Succeed, UnwatchEvents
  <2> QED BY <2>2
<1>5. ASSUME NEW u \in Threads, NEW f \in Events, Disable(u, f)
      PROVE  watcher'[e] = t
  BY <1>5 DEF Disable, TypeOK
<1>6. UNCHANGED watcher \/ \E u \in Threads :
        Watch(u) \/ Succeed(u) \/ \E f \in Events : Disable(u, f)
  <2> USE DEF eventVars
  <2>1. CASE UNCHANGED vars
    BY <2>1 DEF vars
  <2>2. ASSUME NEW f \in Events, Interrupt(f)
        PROVE  UNCHANGED watcher
    BY <2>2 DEF Interrupt
  <2>3. ASSUME NEW u \in Threads, WaitStep(u)
        PROVE  UNCHANGED watcher \/ Watch(u) \/ Succeed(u)
    BY <2>3 DEF WaitStep, Check, Retry, Raise
  <2>4. ASSUME NEW u \in Threads,
               \/ \E f \in Events : Enable(u, f)
               \/ \E w \in Threads : Resume(u, w) \/ Kill(u, w)
               \/ \E newState \in {"active", "suspended", "dead"} :
                     Leave(u, newState)
               \/ Run(u) \/ Reach(u) \/ Expire(u)
        PROVE  UNCHANGED watcher
    BY <2>4 DEF Enable, Resume, Kill, Leave, Run, Reach, Expire
  <2>5. CASE Dispatch
    BY <2>5 DEF Dispatch
  <2> QED BY <2>1, <2>2, <2>3, <2>4, <2>5 DEF Next
<1> QED BY <1>1, <1>3, <1>4, <1>5, <1>6

\* A thread stays registered until its wait ends (watch_events() and
\* unwatch_events()), unless a live thread waits for the same event.
THEOREM WatchCorrect == Spec => KeepsWatching
<1> DEFINE Kept ==
      \A t \in Threads, e \in Events :
        /\ pc[t] = "wait" /\ pc'[t] = "wait"
        /\ e \in wants[t] /\ watcher[e] = t
        /\ enabled'[e]
        /\ \A u \in Threads \ {t} : e \in wants[u] => state[u] = "dead"
        => watcher'[e] = t
<1>1. TypeOK /\ RunInv /\ [Next]_vars => [Kept]_vars
  BY StepKeepsWatching
<1>2. Spec => [][Kept]_vars
  BY <1>1, TypeCorrect, RunningIsActive, PTL DEF Spec
<1> QED BY <1>2 DEF KeepsWatching

-----------------------------------------------------------------------------
(* LfsFilesystem. *)

LfsHandles == [kind : {"none", "file", "dir"}, path : Paths \cup {Lfs!NoHandle.path},
               content : Int, dirty : BOOLEAN, open : BOOLEAN]

\* A block count is one of whole blocks that fit in the device.
FitsDevice(count) == count \in Nat /\ count * BlockSize <= DevSize

LfsTypeInv ==
    /\ disk \in [count : Nat, files : [Paths -> Int]]
    /\ mounted \in BOOLEAN
    /\ handle \in [Handles -> LfsHandles]
    /\ mount_id \in Nat
    /\ opened_in \in [Handles -> Nat]

\* A handle was opened in this mount or in an earlier one, so that one which a
\* mount leaves behind is stale for good; and it is open only once opened.
LfsHandleInv ==
    /\ \A h \in Handles : /\ opened_in[h] <= mount_id
                          /\ handle[h].kind = "none" => ~handle[h].open
    /\ Lfs!ListedWhileOpen

LfsSizeInv ==
    /\ mounted => blocks = disk.count
    /\ FitsDevice(blocks) /\ FitsDevice(disk.count) /\ FitsDevice(config)

LfsInv == LfsTypeInv /\ LfsHandleInv /\ LfsSizeInv

LEMMA NoBlocksFit == FitsDevice(0)
BY DataAssumption DEF FitsDevice

\* The remainder of a size is not used.
LEMMA CheckedFits == ASSUME NEW size \in Nat PROVE FitsDevice(Lfs!check_blocks(size))
<1>1. CASE size <= DevSize
  <2> DEFINE d == size \div BlockSize
  <2>1. d \in Nat /\ d * BlockSize <= size
    BY DataAssumption
  <2>2. d * BlockSize \in Nat
    BY <2>1, DataAssumption
  <2>3. Lfs!check_blocks(size) = d
    BY <1>1 DEF Lfs!check_blocks
  <2> HIDE DEF d
  <2>4. d * BlockSize <= DevSize
    BY <1>1, <2>1, <2>2, DataAssumption
  <2> QED BY <2>1, <2>3, <2>4 DEF FitsDevice
<1>2. CASE ~(size <= DevSize)
  BY <1>2, NoBlocksFit DEF Lfs!check_blocks
<1> QED BY <1>1, <1>2

LEMMA NoHandleType == Lfs!NoHandle \in LfsHandles /\ ~Lfs!NoHandle.open
BY DEF LfsHandles, Lfs!NoHandle

LEMMA LfsInit == Lfs!Init => LfsInv
<1> SUFFICES ASSUME Lfs!Init PROVE LfsInv
  OBVIOUS
<1>1. LfsTypeInv
  <2>1. disk \in [count : Nat, files : [Paths -> Int]]
    BY DEF Lfs!Init, Lfs!NoFile
  <2>2. handle \in [Handles -> LfsHandles]
    BY NoHandleType DEF Lfs!Init
  <2> QED BY <2>1, <2>2 DEF Lfs!Init, LfsTypeInv
<1>2. LfsHandleInv
  BY NoHandleType DEF Lfs!Init, LfsHandleInv, Lfs!ListedWhileOpen
<1>3. LfsSizeInv
  BY NoBlocksFit DEF Lfs!Init, LfsSizeInv
<1> QED BY <1>1, <1>2, <1>3 DEF LfsInv

\* What leaves the filesystem as it is, and the handles.
LEMMA LfsDisk ==
    ASSUME LfsInv, UNCHANGED <<mounted, mlist, handle, mount_id, opened_in>>,
           disk' \in [count : Nat, files : [Paths -> Int]],
           LfsSizeInv'
    PROVE  LfsInv'
BY DEF LfsInv, LfsTypeInv, LfsHandleInv, Lfs!ListedWhileOpen, Lfs!Stale

\* The filesystem as a whole: while it is not mounted no handle is in use.
LEMMA LfsMounting ==
    ASSUME LfsInv,
           \/ Lfs!mod_new \/ Lfs!Filesystem_mount \/ Lfs!Filesystem_unmount
           \/ \E size \in Lfs!Sizes : Lfs!Filesystem_format(size) \/ Lfs!Filesystem_grow(size)
    PROVE  LfsInv'
<1>1. CASE Lfs!mod_new
  <2> USE <1>1 DEF Lfs!mod_new
  <2>1. LfsTypeInv'
    BY NoHandleType DEF LfsInv, LfsTypeInv
  <2>2. LfsHandleInv'
    BY NoHandleType DEF LfsInv, LfsHandleInv, Lfs!ListedWhileOpen
  <2>3. LfsSizeInv'
    BY NoBlocksFit DEF LfsInv, LfsSizeInv
  <2> QED BY <2>1, <2>2, <2>3 DEF LfsInv
<1>2. CASE Lfs!Filesystem_mount
  <2>1. /\ blocks' = disk.count /\ mlist' = {} /\ mounted' = TRUE
        /\ mount_id' = mount_id + 1 /\ UNCHANGED <<disk, config, handle, opened_in>>
    BY <1>2 DEF Lfs!Filesystem_mount, Lfs!lfs_mount
  <2>2. \A h \in Handles : opened_in[h] \in Nat /\ opened_in[h] <= mount_id /\ mount_id \in Nat
    BY DEF LfsInv, LfsTypeInv, LfsHandleInv
  <2>3. \A h \in Handles : opened_in'[h] <= mount_id' /\ opened_in'[h] # mount_id'
    BY <2>1, <2>2
  <2>4. LfsHandleInv'
    BY <2>1, <2>3 DEF LfsInv, LfsHandleInv, Lfs!ListedWhileOpen, Lfs!Stale
  <2> QED BY <2>1, <2>4 DEF LfsInv, LfsTypeInv, LfsSizeInv
<1>3. CASE Lfs!Filesystem_unmount
  BY <1>3 DEF Lfs!Filesystem_unmount, LfsInv, LfsTypeInv, LfsHandleInv, LfsSizeInv,
              Lfs!ListedWhileOpen
<1>4. ASSUME NEW size \in Lfs!Sizes, Lfs!Filesystem_format(size) PROVE LfsInv'
  <2>0. size \in Nat
    BY DataAssumption DEF Lfs!Sizes
  <2>1. PICK c \in {0, Lfs!check_blocks(size)} :
            disk' = [count |-> c, files |-> [p \in Paths |-> Lfs!NoFile]]
    BY <1>4 DEF Lfs!Filesystem_format, Lfs!lfs_format
  <2>2. /\ ~mounted /\ config' = Lfs!check_blocks(size)
        /\ UNCHANGED <<mounted, blocks, mlist, handle, mount_id, opened_in>>
    BY <1>4 DEF Lfs!Filesystem_format
  <2>3. FitsDevice(c) /\ FitsDevice(config')
    BY <2>0, <2>1, <2>2, CheckedFits, NoBlocksFit
  <2>4. c \in Nat
    BY <2>3 DEF FitsDevice
  <2>5. disk' \in [count : Nat, files : [Paths -> Int]] /\ disk'.count = c
    BY <2>1, <2>4 DEF Lfs!NoFile
  <2> QED BY <2>2, <2>3, <2>5, LfsDisk DEF LfsInv, LfsSizeInv
<1>5. ASSUME NEW size \in Lfs!Sizes, Lfs!Filesystem_grow(size) PROVE LfsInv'
  <2>0. size \in Nat
    BY DataAssumption DEF Lfs!Sizes
  <2> DEFINE c == Lfs!check_blocks(size)
  <2>1. /\ disk' = [disk EXCEPT !.count = c] /\ blocks' = c
        /\ UNCHANGED <<mounted, config, mlist, handle, mount_id, opened_in>>
    BY <1>5 DEF Lfs!Filesystem_grow
  <2>2. FitsDevice(c)
    BY <2>0, CheckedFits
  <2> HIDE DEF c
  <2>3. disk' \in [count : Nat, files : [Paths -> Int]] /\ disk'.count = c
    BY <2>1, <2>2 DEF FitsDevice, LfsInv, LfsTypeInv
  <2> QED BY <2>1, <2>2, <2>3, LfsDisk DEF LfsInv, LfsSizeInv
<1> QED BY <1>1, <1>2, <1>3, <1>4, <1>5

\* The names in the filesystem.
LEMMA LfsNames ==
    ASSUME LfsInv, NEW p \in Paths, NEW q \in Paths,
           Lfs!Filesystem_remove(p) \/ Lfs!Filesystem_rename(p, q)
    PROVE  LfsInv'
<1>1. /\ disk' \in [count : Nat, files : [Paths -> Int]] /\ disk'.count = disk.count
      /\ UNCHANGED <<mounted, config, blocks, mlist, handle, mount_id, opened_in>>
  <2>1. disk \in [count : Nat, files : [Paths -> Int]]
    BY DEF LfsInv, LfsTypeInv
  <2>2. CASE Lfs!Filesystem_remove(p)
    BY <2>1, <2>2 DEF Lfs!Filesystem_remove, Lfs!NoFile
  <2>3. CASE Lfs!Filesystem_rename(p, q)
    <3> DEFINE i == disk.files[q]
    <3> DEFINE m == disk.files[p]
    <3>1. i \in Int /\ m \in Int
      BY <2>1
    <3>2. /\ disk' = [disk EXCEPT !.files[q] = m, !.files[p] = Lfs!NoFile]
          /\ UNCHANGED <<mounted, config, blocks, mlist, handle, mount_id, opened_in>>
      BY <2>3 DEF Lfs!Filesystem_rename
    <3> HIDE DEF i, m
    <3> DEFINE F == [disk.files EXCEPT ![q] = m, ![p] = Lfs!NoFile]
    <3>3. F \in [Paths -> Int]
      BY <2>1, <3>1 DEF Lfs!NoFile
    <3>4. disk' = [disk EXCEPT !.files = F]
      BY <2>1, <3>2
    <3> HIDE DEF F
    <3> QED BY <2>1, <3>2, <3>3, <3>4
  <2> QED BY <2>2, <2>3
<1> QED BY <1>1, LfsDisk DEF LfsInv, LfsSizeInv

\* What littlefs writes of a file keeps the block count.
LEMMA SyncedKeepsCount ==
    ASSUME LfsInv, NEW h \in Handles
    PROVE  /\ Lfs!Synced(h) \in [count : Nat, files : [Paths -> Int]]
           /\ Lfs!Synced(h).count = disk.count
<1>1. /\ disk \in [count : Nat, files : [Paths -> Int]]
      /\ handle[h].content \in Int
  BY DEF LfsInv, LfsTypeInv, LfsHandles
<1> QED BY <1>1 DEF Lfs!Synced

\* The handles: one that is opened or closed is in the list, or not, like the
\* others.
LEMMA LfsFiles ==
    ASSUME LfsInv, NEW h \in Handles,
           \/ \E p \in Paths, creat, trunc \in BOOLEAN :
                  Lfs!Filesystem_open(h, p, creat, trunc)
           \/ Lfs!Filesystem_list(h) \/ Lfs!File_close(h) \/ Lfs!Collected(h)
           \/ Lfs!File_sync(h) \/ Lfs!File_write(h)
    PROVE  LfsInv'
<1>t. /\ handle \in [Handles -> LfsHandles] /\ opened_in \in [Handles -> Nat]
      /\ mount_id \in Nat /\ disk \in [count : Nat, files : [Paths -> Int]]
  BY DEF LfsInv, LfsTypeInv
<1>1. ASSUME NEW r \in LfsHandles,
             handle' = [handle EXCEPT ![h] = r], r.kind = "none" => ~r.open,
             disk' \in [count : Nat, files : [Paths -> Int]], disk'.count = disk.count,
             UNCHANGED <<mounted, config, blocks, mount_id>>,
             \/ r.open /\ mlist' = mlist \cup {h}
                /\ opened_in' = [opened_in EXCEPT ![h] = mount_id]
             \/ ~r.open /\ mlist' = mlist \ {h} /\ opened_in' = opened_in
             \/ r.open = handle[h].open /\ mlist' = mlist /\ opened_in' = opened_in
      PROVE  LfsInv'
  <2>1. /\ handle'[h] = r /\ \A k \in Handles \ {h} : handle'[k] = handle[k]
        /\ handle' \in [Handles -> LfsHandles]
    BY <1>t, <1>1
  <2>2. /\ opened_in' \in [Handles -> Nat]
        /\ \A k \in Handles \ {h} : opened_in'[k] = opened_in[k]
        /\ opened_in'[h] \in {opened_in[h], mount_id}
        /\ \A k \in Handles : opened_in'[k] <= mount_id
    BY <1>t, <1>1 DEF LfsInv, LfsHandleInv
  <2>3. \A k \in Handles \ {h} : k \in mlist' <=> k \in mlist
    BY <1>1
  <2>4. \A k \in Handles : handle'[k].kind = "none" => ~handle'[k].open
    BY <1>1, <2>1 DEF LfsInv, LfsHandleInv
  <2>5. ASSUME mounted', NEW k \in Handles, ~Lfs!Stale(k)'
        PROVE  k \in mlist' <=> handle'[k].open
    <3>1. CASE k # h
      BY <1>1, <2>1, <2>2, <2>3, <2>5, <3>1
      DEF LfsInv, LfsHandleInv, Lfs!ListedWhileOpen, Lfs!Stale
    <3>2. CASE k = h
      BY <1>1, <2>1, <2>5, <3>2 DEF LfsInv, LfsHandleInv, Lfs!ListedWhileOpen, Lfs!Stale
    <3> QED BY <3>1, <3>2
  <2>6. LfsHandleInv'
    BY <1>1, <2>2, <2>4, <2>5 DEF LfsHandleInv, Lfs!ListedWhileOpen
  <2>7. LfsTypeInv' /\ LfsSizeInv'
    BY <1>1, <2>1, <2>2 DEF LfsInv, LfsTypeInv, LfsSizeInv
  <2> QED BY <2>6, <2>7 DEF LfsInv
<1>2. ASSUME NEW p \in Paths, NEW creat \in BOOLEAN, NEW trunc \in BOOLEAN,
             Lfs!Filesystem_open(h, p, creat, trunc)
      PROVE  LfsInv'
  <2> DEFINE new == disk.files[p] = Lfs!NoFile
             r == [kind |-> "file", path |-> p, open |-> TRUE, dirty |-> trunc \/ new,
                   content |-> IF new \/ trunc THEN 0 ELSE disk.files[p]]
  <2>1. r \in LfsHandles /\ r.open /\ r.kind = "file"
    BY <1>t DEF LfsHandles
  <2>2. /\ handle' = [handle EXCEPT ![h] = r] /\ mlist' = mlist \cup {h}
        /\ opened_in' = [opened_in EXCEPT ![h] = mount_id]
        /\ UNCHANGED <<disk, mounted, config, blocks, mount_id>>
    BY <1>2 DEF Lfs!Filesystem_open
  <2> HIDE DEF r
  <2> QED BY <1>t, <1>1, <2>1, <2>2
<1>3. CASE Lfs!Filesystem_list(h)
  <2> DEFINE r == [Lfs!NoHandle EXCEPT !.kind = "dir", !.open = TRUE]
  <2>1. r \in LfsHandles /\ r.open /\ r.kind = "dir"
    BY NoHandleType DEF LfsHandles
  <2>2. /\ handle' = [handle EXCEPT ![h] = r] /\ mlist' = mlist \cup {h}
        /\ opened_in' = [opened_in EXCEPT ![h] = mount_id]
        /\ UNCHANGED <<disk, mounted, config, blocks, mount_id>>
    BY <1>3 DEF Lfs!Filesystem_list
  <2> HIDE DEF r
  <2> QED BY <1>t, <1>1, <2>1, <2>2
<1>4. CASE Lfs!File_close(h)
  <2> DEFINE r == Lfs!Closed(h)
  <2>1. r \in LfsHandles /\ ~r.open
    BY <1>t DEF LfsHandles, Lfs!Closed
  <2>2. /\ handle' = [handle EXCEPT ![h] = r] /\ mlist' = mlist \ {h}
        /\ disk' = Lfs!Synced(h)
        /\ UNCHANGED <<mounted, config, blocks, mount_id, opened_in>>
    BY <1>4 DEF Lfs!File_close
  <2> HIDE DEF r
  <2> QED BY <1>t, <1>1, <2>1, <2>2, SyncedKeepsCount
<1>5. CASE Lfs!Collected(h)
  <2> DEFINE r == Lfs!NoHandle
  <2>1. /\ handle' = [handle EXCEPT ![h] = r] /\ ~handle[h].open
        /\ UNCHANGED <<disk, mounted, config, blocks, mlist, mount_id, opened_in>>
    BY <1>5 DEF Lfs!Collected
  <2>2. r.open = handle[h].open
    BY <2>1 DEF Lfs!NoHandle, LfsInv, LfsTypeInv, LfsHandles
  <2>3. r \in LfsHandles /\ ~r.open
    BY NoHandleType
  <2> HIDE DEF r
  <2> QED BY <1>t, <1>1, <2>1, <2>2, <2>3
<1>6. CASE Lfs!File_sync(h)
  <2> DEFINE r == [handle[h] EXCEPT !.dirty = FALSE]
  <2>1. r \in LfsHandles /\ r.open = handle[h].open /\ r.kind = handle[h].kind
    BY <1>t DEF LfsHandles
  <2>2. /\ handle' = [handle EXCEPT ![h].dirty = FALSE] /\ disk' = Lfs!Synced(h)
        /\ UNCHANGED <<mounted, config, blocks, mlist, mount_id, opened_in>>
        /\ handle[h].kind = "file"
    BY <1>6 DEF Lfs!File_sync, Lfs!Usable
  <2>3. handle' = [handle EXCEPT ![h] = r]
    BY <2>2
  <2> HIDE DEF r
  <2> QED BY <1>t, <1>1, <2>1, <2>2, <2>3, SyncedKeepsCount
<1>7. CASE Lfs!File_write(h)
  <2> DEFINE r == [handle[h] EXCEPT !.content = @ + 1, !.dirty = TRUE]
  <2> DEFINE v == handle[h].content + 1
  <2>0. v \in Int /\ r = [handle[h] EXCEPT !.content = v, !.dirty = TRUE]
    BY <1>t DEF LfsHandles
  <2>1. r \in LfsHandles /\ r.open = handle[h].open /\ r.kind = handle[h].kind
    <3> HIDE DEF v, r
    <3>1. handle[h] \in LfsHandles
      BY <1>t
    <3> QED BY <2>0, <3>1 DEF LfsHandles
  <2>2. /\ handle' = [handle EXCEPT ![h].content = @ + 1, ![h].dirty = TRUE]
        /\ UNCHANGED <<disk, mounted, config, blocks, mlist, mount_id, opened_in>>
        /\ handle[h].kind = "file"
    BY <1>7 DEF Lfs!File_write, Lfs!Usable
  <2>3. handle' = [handle EXCEPT ![h] = r]
    BY <1>t, <2>2 DEF LfsHandles
  <2> HIDE DEF r
  <2> QED BY <1>t, <1>1, <2>1, <2>2, <2>3
<1> QED BY <1>2, <1>3, <1>4, <1>5, <1>6, <1>7

LEMMA LfsStep == LfsInv /\ [Lfs!Next]_Lfs!vars => LfsInv'
<1> SUFFICES ASSUME LfsInv, [Lfs!Next]_Lfs!vars PROVE LfsInv'
  OBVIOUS
<1>1. CASE UNCHANGED Lfs!vars
  BY <1>1 DEF Lfs!vars, LfsInv, LfsTypeInv, LfsHandleInv, LfsSizeInv, Lfs!ListedWhileOpen,
              Lfs!Stale
<1>2. CASE Lfs!Next
  BY <1>1, <1>2, LfsMounting, LfsNames, LfsFiles
  DEF Lfs!Next, Lfs!Filesystem_info, Lfs!Filesystem_metadata, Lfs!File_read,
      Lfs!File_position, Lfs!Dir_next
<1> QED BY <1>1, <1>2

-----------------------------------------------------------------------------
(* FsLoader. *)

\* What has been given to lua_load() and what is left of the file make up its
\* content, of which nothing is left when it ends without an error.
LoaderFiles == [name : Nat \cup {""}, left : Seq(Values), open : BOOLEAN]

LoaderInv ==
    /\ searching \in {"idle", "search", "load", "loaded", "done"}
    /\ searching = "search" => chunk = <<>> /\ ~file.open
    /\ file \in LoaderFiles
    /\ files \in [DOMAIN files -> Seq(Values)] /\ DOMAIN files \subseteq Nat
    /\ chunk \in Seq(Values)
    /\ searching \in {"load", "loaded"} =>
           file.name \in DOMAIN files /\ chunk \o file.left = files[file.name]
    /\ searching = "loaded" /\ ~err => file.left = <<>>
    /\ searching = "done" \/ result # "loader"
    /\ Loader!LoadsWholeFile

LEMMA ClosedFile == Loader!Closed \in LoaderFiles /\ ~Loader!Closed.open
BY DEF Loader!Closed, LoaderFiles

LEMMA LoaderInit == Loader!Init => LoaderInv
<1> SUFFICES ASSUME Loader!Init PROVE LoaderInv
  OBVIOUS
<1> DEFINE Path == [i \in 1..PathLength |-> i]
           Contents == UNION {[1..k -> Values] : k \in 0..MaxBlocks}
<1>1. PICK S \in SUBSET Loader!Range(Path) : files \in [S -> Contents]
  BY DEF Loader!Init
<1>2. S \subseteq Nat
  BY <1>1, DataAssumption DEF Loader!Range
<1>3. Contents \subseteq Seq(Values)
  BY DataAssumption
<1> HIDE DEF Contents
<1>4. files \in [DOMAIN files -> Seq(Values)] /\ DOMAIN files \subseteq Nat
  BY <1>1, <1>2, <1>3
<1>5. /\ searching = "idle" /\ file = Loader!Closed /\ chunk = <<>> /\ result = "none"
  BY DEF Loader!Init
<1> QED BY <1>4, <1>5, ClosedFile DEF LoaderInv, Loader!LoadsWholeFile

LEMMA LoaderStep == LoaderInv /\ [Loader!Next]_Loader!vars => LoaderInv'
<1> SUFFICES ASSUME LoaderInv, [Loader!Next]_Loader!vars PROVE LoaderInv'
  OBVIOUS
<1>1. CASE UNCHANGED Loader!vars
  BY <1>1 DEF Loader!vars, LoaderInv, Loader!LoadsWholeFile
<1>2. CASE Loader!mod_search
  <2>1. /\ searching' \in {"done", "search"} /\ file' = Loader!Closed /\ chunk' = <<>>
        /\ result' = "none" /\ files' = files
    BY <1>2 DEF Loader!mod_search
  <2> QED BY <2>1, ClosedFile DEF LoaderInv, Loader!LoadsWholeFile
<1>3. CASE Loader!TryPath
  <2>1. /\ searching = "search" /\ UNCHANGED <<files, chunk, err>>
        /\ \/ searching' = "done" /\ result' = "error" /\ file' = file
           \/ /\ searching' = "load" /\ result' = result
              /\ \E p \in DOMAIN files :
                     file' = [name |-> p, left |-> files[p], open |-> TRUE]
           \/ UNCHANGED <<searching, file, result>>
    BY <1>3 DEF Loader!TryPath, Loader!Opens, Loader!Opened
  <2>2. CASE /\ searching' = "load" /\ result' = result
             /\ \E p \in DOMAIN files :
                    file' = [name |-> p, left |-> files[p], open |-> TRUE]
    <3>1. PICK p \in DOMAIN files : file' = [name |-> p, left |-> files[p], open |-> TRUE]
      BY <2>2
    <3>2. p \in Nat /\ files[p] \in Seq(Values) /\ chunk = <<>>
      BY <2>1 DEF LoaderInv
    <3>3. <<>> \o files[p] = files[p]
      BY <3>2
    <3>4. file' \in LoaderFiles
      BY <3>1, <3>2 DEF LoaderFiles
    <3>5. file'.name = p /\ file'.left = files[p]
      BY <3>1
    <3> QED BY <2>1, <2>2, <3>2, <3>3, <3>4, <3>5 DEF LoaderInv, Loader!LoadsWholeFile
  <2> QED BY <2>1, <2>2 DEF LoaderInv, Loader!LoadsWholeFile
<1>4. CASE Loader!load_block
  <2>1. /\ searching = "load" /\ UNCHANGED <<files, result>>
        /\ \/ /\ file.left # <<>> /\ chunk' = Append(chunk, Head(file.left))
              /\ file' = [file EXCEPT !.left = Tail(file.left)] /\ UNCHANGED searching
           \/ file.left = <<>> /\ searching' = "loaded" /\ UNCHANGED <<chunk, file>>
           \/ searching' = "loaded" /\ err' = TRUE /\ UNCHANGED <<chunk, file>>
    BY <1>4 DEF Loader!load_block
  <2>2. CASE /\ file.left # <<>> /\ chunk' = Append(chunk, Head(file.left))
             /\ file' = [file EXCEPT !.left = Tail(file.left)] /\ UNCHANGED searching
    <3> DEFINE l == file.left
    <3>1. l \in Seq(Values) /\ chunk \in Seq(Values) /\ l # <<>>
      BY <2>2 DEF LoaderInv, LoaderFiles
    <3>2. /\ file' \in LoaderFiles
          /\ file'.name = file.name /\ file'.left = Tail(l)
      <4>1. Tail(l) \in Seq(Values) /\ file \in LoaderFiles
        BY <3>1 DEF LoaderInv
      <4>2. file' = [file EXCEPT !.left = Tail(l)]
        BY <2>2
      <4> HIDE DEF l
      <4> QED BY <4>1, <4>2 DEF LoaderFiles
    <3>3. chunk' = Append(chunk, Head(l))
      BY <2>2
    <3> HIDE DEF l
    <3>4. Append(chunk, Head(l)) \o Tail(l) = chunk \o l /\ Append(chunk, Head(l)) \in Seq(Values)
      BY ONLY <3>1
    <3>5. chunk \o l = files[file.name] /\ file.name \in DOMAIN files
      BY <2>1 DEF LoaderInv, l
    <3> QED BY <2>1, <2>2, <3>2, <3>3, <3>4, <3>5 DEF LoaderInv, Loader!LoadsWholeFile
  <2> QED BY <2>1, <2>2 DEF LoaderInv, Loader!LoadsWholeFile
<1>5. CASE Loader!Loaded
  <2>1. /\ searching = "loaded" /\ searching' = "done"
        /\ file' = [file EXCEPT !.open = FALSE] /\ UNCHANGED <<files, chunk>>
        /\ result' = "loader" => ~err
    BY <1>5 DEF Loader!Loaded, Loader!Failed
  <2>2. /\ file' \in LoaderFiles
        /\ file'.name = file.name /\ ~file'.open
    BY <2>1 DEF LoaderInv, LoaderFiles
  <2>3. ~err => chunk = files[file.name]
    <3>1. chunk \in Seq(Values) /\ (~err => chunk \o <<>> = files[file.name])
      BY <2>1 DEF LoaderInv
    <3>2. chunk \o <<>> = chunk
      BY <3>1
    <3> QED BY <3>1, <3>2
  <2> QED BY <2>1, <2>2, <2>3 DEF LoaderInv, Loader!LoadsWholeFile
<1> QED BY <1>1, <1>2, <1>3, <1>4, <1>5 DEF Loader!Next

-----------------------------------------------------------------------------
(* NilList. *)

\* A table whose length is not recorded is a sequence without nil.
ListInv ==
    /\ n \in {List!NoLen} \cup (0..MaxList)
    /\ at \in [List!Indices -> List!Elements]
    /\ n = List!NoLen =>
          \E l \in 0..MaxList : \A i \in List!Indices : at[i] # Nil <=> i <= l

LEMMA ListSizes == /\ MaxList \in Nat /\ MaxList >= 2 /\ List!Indices = 1..(MaxList + 1)
                   /\ List!NoLen = -1
BY DataAssumption DEF List!Indices, List!NoLen

LEMMA ListLength ==
    ASSUME ListInv
    PROVE  /\ List!length \in 0..MaxList
           /\ n # List!NoLen => List!length = n
           /\ n = List!NoLen => \A i \in List!Indices : at[i] # Nil <=> i <= List!length
<1>1. CASE n # List!NoLen
  BY <1>1 DEF ListInv, List!length
<1>2. CASE n = List!NoLen
  <2>1. PICK l \in 0..MaxList : \A i \in List!Indices : at[i] # Nil <=> i <= l
    BY <1>2 DEF ListInv
  <2>2. {i \in List!Indices : at[i] # Nil} = 1..l
    BY <2>1, ListSizes
  <2>3. List!Cardinality(1..l) = Cardinality(1..l)
    BY DEF List!Cardinality, Cardinality
  <2>4. Cardinality(1..l) = l
    BY FS_Interval
  <2>5. List!length = l
    BY <1>2, <2>2, <2>3, <2>4 DEF List!length
  <2> QED BY <1>2, <2>1, <2>5
<1> QED BY <1>1, <1>2

LEMMA ListPrefix ==
    ASSUME NEW f \in [List!Indices -> List!Elements], NEW l \in 0..MaxList
    PROVE  /\ SubSeq(f, 1, l) \in Seq(List!Elements) /\ Len(SubSeq(f, 1, l)) = l
           /\ \A i \in 1..l : SubSeq(f, 1, l)[i] = f[i]
<1>1. \A i \in 1..l : f[i] \in List!Elements
  BY ListSizes
<1>2. 1 \in Int /\ l \in Int
  BY ListSizes
<1>3. /\ SubSeq(f, 1, l) \in Seq(List!Elements)
      /\ Len(SubSeq(f, 1, l)) = IF 1 <= l THEN l - 1 + 1 ELSE 0
      /\ \A i \in 1..(l - 1 + 1) : SubSeq(f, 1, l)[i] = f[1 + i - 1]
  BY <1>1, <1>2, SubSeqProperties
<1> DEFINE s == SubSeq(f, 1, l)
<1> HIDE DEF s
<1>4. /\ s \in Seq(List!Elements) /\ Len(s) = IF 1 <= l THEN l - 1 + 1 ELSE 0
      /\ \A i \in 1..(l - 1 + 1) : s[i] = f[1 + i - 1]
  BY <1>3 DEF s
<1>5. Len(s) = l /\ \A i \in 1..l : s[i] = f[i]
  BY <1>4, ListSizes
<1> QED BY <1>4, <1>5 DEF s

\* The list of a state, as a sequence.
LEMMA ListContents ==
    ASSUME ListInv
    PROVE  /\ List!Contents \in Seq(List!Elements) /\ Len(List!Contents) = List!length
           /\ \A i \in 1..List!length : List!Contents[i] = at[i]
BY ListLength, ListPrefix DEF List!Contents, ListInv

\* A call that sets the length and the elements, and one that does not.
LEMMA ListAfter ==
    ASSUME NEW k \in 0..MaxList, n' = k, at' \in [List!Indices -> List!Elements]
    PROVE  /\ ListInv' /\ List!length' = k
           /\ List!Contents' \in Seq(List!Elements) /\ Len(List!Contents') = k
           /\ \A i \in 1..k : List!Contents'[i] = at'[i]
<1>1. List!length' = k
  BY ListSizes DEF List!length
<1>2. List!Contents' = SubSeq(at', 1, k)
  BY <1>1 DEF List!Contents
<1>3. ListInv'
  BY ListSizes DEF ListInv
<1>4. /\ SubSeq(at', 1, k) \in Seq(List!Elements) /\ Len(SubSeq(at', 1, k)) = k
      /\ \A i \in 1..k : SubSeq(at', 1, k)[i] = at'[i]
  BY ListPrefix
<1> QED BY <1>1, <1>2, <1>3, <1>4

LEMMA ListSame ==
    ASSUME ListInv, UNCHANGED <<n, at>>
    PROVE  /\ ListInv' /\ List!length' = List!length /\ List!Contents' = List!Contents
           /\ List!Hung' <=> List!Hung
BY DEF ListInv, List!length, List!Contents, List!Hung

\* Sequences of the elements of a list.
LEMMA ListsEqual ==
    ASSUME NEW s \in Seq(List!Elements), NEW t \in Seq(List!Elements), Len(s) = Len(t),
           \A i \in 1..Len(s) : s[i] = t[i]
    PROVE  s = t
BY SeqEqual

ListCall(op, args, res) == [op |-> op, args |-> args, res |-> res]

LEMMA ListNew == ASSUME ListInv, List!list___new PROVE ListInv' /\ List!ActsOnSequence
<1>1. /\ n' = List!length /\ at' = at /\ List!length \in 0..MaxList
      /\ list_call' = ListCall("new", <<>>, <<>>)
  BY ListLength DEF List!list___new, List!Called, ListCall
<1>2. /\ ListInv' /\ List!length' = List!length
      /\ List!Contents' \in Seq(List!Elements) /\ Len(List!Contents') = List!length
      /\ \A i \in 1..List!length : List!Contents'[i] = at[i]
  BY <1>1, ListAfter DEF ListInv
<1>3. List!Contents' = List!Contents
  BY <1>2, ListContents, ListsEqual
<1>4. List!Hung' <=> List!Hung
  BY <1>1, <1>2 DEF List!Hung
<1> QED BY <1>1, <1>2, <1>3, <1>4 DEF List!ActsOnSequence, List!RemovesNext, ListCall

LEMMA ListIpairs == ASSUME ListInv, List!list_ipairs PROVE ListInv' /\ List!ActsOnSequence
<1> DEFINE r == [i \in 1..List!length |-> at[i]]
<1>1. UNCHANGED <<n, at>> /\ list_call' = ListCall("ipairs", <<>>, r)
  BY DEF List!list_ipairs, List!Called, ListCall
<1>2. r = List!Contents
  <2>1. List!Contents = [i \in 1..List!length |-> List!Contents[i]]
    BY ListContents
  <2> QED BY <2>1, ListContents
<1> HIDE DEF r
<1> QED BY <1>1, <1>2, ListSame DEF List!ActsOnSequence, List!RemovesNext, ListCall

\* The sequences that a program passes.
LEMMA ListArgs ==
    ASSUME NEW vals \in List!SeqOf(List!Elements, 2)
    PROVE  vals \in Seq(List!Elements) /\ Len(vals) \in Nat /\ DOMAIN vals = 1..Len(vals)
<1>1. PICK m \in 0..2 : vals \in [1..m -> List!Elements]
  BY DEF List!SeqOf
<1> QED BY <1>1

LEMMA ListEq ==
    ASSUME ListInv, NEW vals \in List!SeqOf(List!Elements, 2), List!list___eq(vals)
    PROVE  ListInv' /\ List!ActsOnSequence
<1> DEFINE b == Len(vals) = List!length /\ \A i \in 1..List!length : at[i] = vals[i]
<1>1. UNCHANGED <<n, at>> /\ list_call' = ListCall("eq", vals, <<b>>)
  BY DEF List!list___eq, List!Called, ListCall
<1>2. b <=> vals = List!Contents
  <2>1. ASSUME b PROVE vals = List!Contents
    BY <2>1, ListArgs, ListContents, ListsEqual
  <2>2. ASSUME vals = List!Contents PROVE b
    BY <2>2, ListContents
  <2> QED BY <2>1, <2>2
<1>3. b = (vals = List!Contents)
  BY <1>2
<1> HIDE DEF b
<1> QED BY <1>1, <1>3, ListSame DEF List!ActsOnSequence, List!RemovesNext, ListCall

LEMMA ListFind ==
    ASSUME ListInv, NEW v \in List!Elements, NEW i \in Int, List!list_find(v, i)
    PROVE  ListInv' /\ List!ActsOnSequence
<1> DEFINE C == List!Contents  l == List!length
           found == {j \in List!Start(i)..l : at[j] = v}
           first == CHOOSE j \in found : \A k \in found : j <= k
           r == IF found = {} THEN <<>> ELSE <<first>>
           I == {j \in i..Len(C) : C[j] = v}
<1>1. UNCHANGED <<n, at>> /\ list_call' = ListCall("find", <<v, i>>, r)
  BY DEF List!list_find, List!Called, ListCall
<1>2. ASSUME i \in 1..Len(C)
      PROVE  r = IF \E j \in i..Len(C) : C[j] = v
                 THEN <<List!SelectInSubSeq(C, i, Len(C), LAMBDA x : x = v)>>
                 ELSE <<>>
  <2>1. List!Start(i) = i /\ Len(C) = l /\ l \in Nat
    BY <1>2, ListContents, ListLength DEF List!Start
  <2>2. found = I
    BY <1>2, <2>1, ListContents
  <2>3. I # {} <=> \E j \in i..Len(C) : C[j] = v
    OBVIOUS
  <2>4. List!SelectInSubSeq(C, i, Len(C), LAMBDA x : x = v)
          = IF I # {} THEN List!Min(I) ELSE 0
    BY DEF List!SelectInSubSeq
  <2>5. first = List!Min(I)
    <3> HIDE DEF I
    <3> QED BY <2>2 DEF List!Min
  <2> HIDE DEF I, first, found, C
  <2> QED BY <2>2, <2>3, <2>4, <2>5
<1> HIDE DEF r, found, first, I
<1>3. /\ list_call'.op = "find" /\ list_call'.args[1] = v /\ list_call'.args[2] = i
      /\ list_call'.res = r
  BY <1>1 DEF ListCall
<1>4. C' = C /\ (List!Hung' <=> List!Hung) /\ ListInv'
  BY <1>1, ListSame
<1> QED BY <1>2, <1>3, <1>4 DEF List!ActsOnSequence, List!RemovesNext

LEMMA ListUnpack ==
    ASSUME ListInv, NEW b \in 1..MaxList, NEW e \in 0..MaxList,
           List!list_unpack(b, e) \/ List!list_concat(b, e)
    PROVE  ListInv' /\ List!ActsOnSequence
<1> DEFINE C == List!Contents
           r == [i \in 1..(e - b + 1) |-> IF b + i - 1 \in List!Indices
                                         THEN at[b + i - 1] ELSE Nil]
<1>1. CASE List!list_concat(b, e)
  <2>1. UNCHANGED <<n, at>> /\ list_call'.op = "concat"
    BY <1>1 DEF List!list_concat, List!Called
  <2> QED BY <2>1, ListSame DEF List!ActsOnSequence, List!RemovesNext
<1>2. CASE List!list_unpack(b, e)
  <2>1. UNCHANGED <<n, at>> /\ list_call' = ListCall("unpack", <<b, e>>, r)
    BY <1>2 DEF List!list_unpack, List!Called, ListCall
  <2>2. ASSUME e <= Len(C) PROVE r = SubSeq(C, b, e)
    <3>1. \A i \in b..e : C[i] \in List!Elements /\ C[i] = at[i] /\ i \in List!Indices
      BY <2>2, ListContents, ListLength, ListSizes
    <3>2. /\ SubSeq(C, b, e) \in Seq(List!Elements)
          /\ Len(SubSeq(C, b, e)) = IF b <= e THEN e - b + 1 ELSE 0
          /\ \A i \in 1..(e - b + 1) : SubSeq(C, b, e)[i] = C[b + i - 1]
      <4> HIDE DEF C
      <4>1. b \in Int /\ e \in Int
        OBVIOUS
      <4> QED BY <3>1, <4>1, SubSeqProperties
    <3> DEFINE s == SubSeq(C, b, e)
    <3> HIDE DEF s, C
    <3>3. DOMAIN s = 1..(e - b + 1) /\ s = [i \in DOMAIN s |-> s[i]]
      <4>1. s \in Seq(List!Elements) /\ Len(s) = IF b <= e THEN e - b + 1 ELSE 0
        BY <3>2 DEF s
      <4>2. 1..Len(s) = 1..(e - b + 1)
        BY <4>1
      <4> QED BY <4>1, <4>2
    <3>4. ASSUME NEW i \in 1..(e - b + 1) PROVE s[i] = r[i]
      <4>1. b + i - 1 \in b..e
        OBVIOUS
      <4>2. s[i] = C[b + i - 1]
        BY <3>2 DEF s
      <4> QED BY <3>1, <4>1, <4>2
    <3>5. s = r
      BY <3>3, <3>4
    <3> QED BY <3>5 DEF s
  <2> HIDE DEF r
  <2>3. /\ list_call'.op = "unpack" /\ list_call'.args[1] = b /\ list_call'.args[2] = e
        /\ list_call'.res = r
    BY <2>1 DEF ListCall
  <2>4. C' = C /\ (List!Hung' <=> List!Hung) /\ ListInv'
    BY <2>1, ListSame
  <2> QED BY <2>2, <2>3, <2>4 DEF List!ActsOnSequence, List!RemovesNext
<1> QED BY <1>1, <1>2

LEMMA ListLen ==
    ASSUME ListInv, NEW arg \in Int, arg <= MaxList, List!list_len(arg)
    PROVE  ListInv' /\ List!ActsOnSequence
<1> DEFINE new == IF arg < 0 THEN 0 ELSE arg
           C == List!Contents
           D == [i \in 1..new |-> IF i <= Len(C) THEN C[i]
                                 ELSE IF List!Hung THEN at[i] ELSE Nil]
<1>1. /\ list_call' = ListCall("len", <<new>>, <<List!length>>)
      /\ IF new = List!length THEN UNCHANGED <<n, at>>
         ELSE n' = new /\ at' = List!Cleared(new)
  BY DEF List!list_len, List!Called, ListCall
<1>2. new \in 0..MaxList
  BY ListSizes
<1>3. /\ C \in Seq(List!Elements) /\ Len(C) = List!length /\ List!length \in 0..MaxList
      /\ \A i \in 1..List!length : C[i] = at[i]
  BY ListContents, ListLength
<1>4. Nil \in List!Elements
  BY DEF List!Elements
<1> HIDE DEF new, C
<1>9. \A i \in 1..new : at[i] \in List!Elements
  BY <1>2, ListSizes DEF ListInv
<1>5. D \in Seq(List!Elements) /\ Len(D) = new
  BY <1>2, <1>3, <1>4, <1>9
<1>6. \A i \in 1..new : D[i] = IF i <= Len(C) THEN C[i]
                              ELSE IF List!Hung THEN at[i] ELSE Nil
  OBVIOUS
<1> HIDE DEF D
<1>7. CASE new = List!length
  <2>1. C' = C /\ (List!Hung' <=> List!Hung) /\ ListInv'
    BY <1>1, <1>7, ListSame DEF C
  <2>2. D = C
    BY <1>3, <1>5, <1>6, <1>7, ListsEqual
  <2>3. list_call'.op = "len" /\ list_call'.args[1] = new /\ list_call'.res = <<Len(C)>>
    BY <1>1, <1>3 DEF ListCall
  <2> QED BY <2>1, <2>2, <2>3 DEF List!ActsOnSequence, List!RemovesNext, C, D
<1>8. CASE new # List!length
  <2>1. n' = new /\ at' = List!Cleared(new)
    BY <1>1, <1>8
  <2>2. at' \in [List!Indices -> List!Elements]
    BY <2>1, <1>4 DEF List!Cleared, ListInv
  <2>3. /\ ListInv' /\ List!length' = new
        /\ List!Contents' \in Seq(List!Elements) /\ Len(List!Contents') = new
        /\ \A i \in 1..new : List!Contents'[i] = at'[i]
    BY <1>2, <2>1, <2>2, ListAfter
  <2>4. \A i \in List!Indices : at'[i] = IF i > new /\ i <= List!length THEN Nil ELSE at[i]
    BY <2>1 DEF List!Cleared
  <2>5. ASSUME ~List!Hung PROVE ~List!Hung'
    <3>1. ASSUME NEW i \in List!Indices, i > new PROVE at'[i] = Nil
      BY <1>2, <1>3, <2>4, <2>5, <3>1, ListSizes DEF List!Hung
    <3> QED BY <2>3, <3>1 DEF List!Hung
  <2>6. List!Contents' = D
    <3>1. ASSUME NEW i \in 1..new PROVE List!Contents'[i] = D[i]
      <4>1. i \in List!Indices /\ ~(i > new)
        BY <1>2, ListSizes
      <4>2. at'[i] = at[i]
        BY <2>4, <4>1
      <4>3. i > List!length => at[i] = IF List!Hung THEN at[i] ELSE Nil
        BY <4>1 DEF List!Hung
      <4> QED BY <1>2, <1>3, <1>6, <2>3, <4>2, <4>3
    <3> QED BY <1>5, <2>3, <3>1, ListsEqual
  <2>7. list_call'.op = "len" /\ list_call'.args[1] = new /\ list_call'.res = <<Len(C)>>
    BY <1>1, <1>3 DEF ListCall
  <2> QED BY <2>3, <2>5, <2>6, <2>7 DEF List!ActsOnSequence, List!RemovesNext, C, D
<1> QED BY <1>7, <1>8

LEMMA ListAppend ==
    ASSUME ListInv, NEW vals \in List!SeqOf(List!Elements, 2), List!list_append(vals)
    PROVE  ListInv' /\ List!ActsOnSequence
<1> DEFINE C == List!Contents
           k == List!length + Len(vals)
           D == C \o vals
<1>1. /\ vals \in Seq(List!Elements) /\ Len(vals) \in Nat /\ DOMAIN vals = 1..Len(vals)
      /\ C \in Seq(List!Elements) /\ Len(C) = List!length /\ List!length \in 0..MaxList
      /\ \A i \in 1..List!length : C[i] = at[i]
  BY ListArgs, ListContents, ListLength
<1>2. /\ k <= MaxList /\ n' = k /\ list_call' = ListCall("append", vals, <<>>)
      /\ at' = [i \in List!Indices |-> IF i - List!length \in 1..Len(vals)
                                      THEN vals[i - List!length] ELSE at[i]]
  BY <1>1 DEF List!list_append, List!Called, ListCall
<1>3. at' \in [List!Indices -> List!Elements]
  <2>1. \A i \in 1..Len(vals) : vals[i] \in List!Elements
    BY <1>1
  <2> QED BY <1>2, <2>1 DEF ListInv
<1>4. k \in 0..MaxList
  BY <1>1, <1>2, ListSizes
<1> HIDE DEF C
<1>5. /\ D \in Seq(List!Elements) /\ Len(D) = Len(C) + Len(vals)
      /\ \A i \in 1..(Len(C) + Len(vals)) :
             D[i] = IF i <= Len(C) THEN C[i] ELSE vals[i - Len(C)]
  BY <1>1, ConcatProperties
<1> HIDE DEF D, k
<1>6. /\ ListInv' /\ List!length' = k
      /\ List!Contents' \in Seq(List!Elements) /\ Len(List!Contents') = k
      /\ \A i \in 1..k : List!Contents'[i] = at'[i]
  BY <1>2, <1>3, <1>4, ListAfter
<1>7. ASSUME NEW i \in 1..k PROVE List!Contents'[i] = D[i]
  <2>1. i \in List!Indices /\ i \in 1..(Len(C) + Len(vals)) /\ i \in Int
    BY <1>1, <1>4, ListSizes DEF k
  <2>2. CASE i <= List!length
    <3>1. i - List!length \notin 1..Len(vals) /\ i \in 1..List!length
      BY <1>1, <2>1, <2>2
    <3> QED BY <1>1, <1>2, <1>5, <1>6, <2>1, <2>2, <3>1
  <2>3. CASE ~(i <= List!length)
    <3>1. i - List!length \in 1..Len(vals)
      BY <1>1, <2>1, <2>3
    <3> QED BY <1>1, <1>2, <1>5, <1>6, <2>1, <2>3, <3>1
  <2> QED BY <2>2, <2>3
<1>8. List!Contents' = D
  BY <1>1, <1>5, <1>6, <1>7, ListsEqual DEF k
<1>9. ~List!Hung => ~List!Hung'
  <2>1. ASSUME ~List!Hung, NEW i \in List!Indices, i > k PROVE at'[i] = Nil
    <3>1. i - List!length \notin 1..Len(vals) /\ i > List!length
      BY <1>1, <2>1, ListSizes DEF k
    <3> QED BY <1>2, <2>1, <3>1 DEF List!Hung
  <2> QED BY <1>6, <2>1 DEF List!Hung
<1> QED BY <1>2, <1>6, <1>8, <1>9 DEF List!ActsOnSequence, List!RemovesNext, ListCall, C, D

LEMMA ListPack ==
    ASSUME ListInv, NEW vals \in List!SeqOf(List!Elements, 2), List!list_pack(vals)
    PROVE  ListInv' /\ List!ActsOnSequence
<1> DEFINE k == Len(vals)
<1>1. /\ vals \in Seq(List!Elements) /\ k \in 0..MaxList /\ DOMAIN vals = 1..k
  <2>1. PICK m \in 0..2 : vals \in [1..m -> List!Elements]
    BY DEF List!SeqOf
  <2> QED BY <2>1, ListSizes
<1>2. /\ n' = k /\ list_call' = ListCall("pack", vals, <<>>)
      /\ at' = [i \in List!Indices |-> IF i \in 1..k THEN vals[i] ELSE Nil]
  BY <1>1 DEF List!list_pack, List!Called, ListCall
<1> HIDE DEF k
<1>3. at' \in [List!Indices -> List!Elements]
  <2>1. \A i \in 1..k : vals[i] \in List!Elements
    BY <1>1 DEF k
  <2>2. Nil \in List!Elements
    BY DEF List!Elements
  <2> QED BY <1>2, <2>1, <2>2
<1>4. /\ ListInv' /\ List!length' = k
      /\ List!Contents' \in Seq(List!Elements) /\ Len(List!Contents') = k
      /\ \A i \in 1..k : List!Contents'[i] = at'[i]
  BY <1>1, <1>2, <1>3, ListAfter
<1>5. List!Contents' = vals
  <2>1. \A i \in 1..k : at'[i] = vals[i]
    BY <1>1, <1>2, ListSizes
  <2> QED BY <1>1, <1>4, <2>1, ListsEqual DEF k
<1>6. ~List!Hung'
  <2>1. \A i \in List!Indices : i > k => at'[i] = Nil
    BY <1>1, <1>2, ListSizes
  <2> QED BY <1>4, <2>1 DEF List!Hung
<1> QED BY <1>2, <1>4, <1>5, <1>6 DEF List!ActsOnSequence, List!RemovesNext, ListCall

\* A part of a sequence.
LEMMA ListPart ==
    ASSUME NEW s \in Seq(List!Elements), NEW b \in 1..(Len(s) + 1), NEW e \in 0..Len(s), b <= e + 1
    PROVE  /\ SubSeq(s, b, e) \in Seq(List!Elements) /\ Len(SubSeq(s, b, e)) = e - b + 1
           /\ \A i \in 1..(e - b + 1) : SubSeq(s, b, e)[i] = s[b + i - 1]
<1>1. \A i \in b..e : s[i] \in List!Elements
  OBVIOUS
<1>2. b \in Int /\ e \in Int
  OBVIOUS
<1>3. /\ SubSeq(s, b, e) \in Seq(List!Elements)
      /\ Len(SubSeq(s, b, e)) = IF b <= e THEN e - b + 1 ELSE 0
      /\ \A i \in 1..(e - b + 1) : SubSeq(s, b, e)[i] = s[b + i - 1]
  BY <1>1, <1>2, SubSeqProperties
<1> DEFINE t == SubSeq(s, b, e)
<1> HIDE DEF t
<1>4. Len(t) = IF b <= e THEN e - b + 1 ELSE 0
  BY <1>3 DEF t
<1>5. Len(t) = e - b + 1
  BY <1>2, <1>4
<1> QED BY <1>3, <1>5 DEF t

LEMMA InsertAtIs ==
    ASSUME NEW s \in Seq(List!Elements), NEW k \in 1..(Len(s) + 1), NEW v \in List!Elements
    PROVE  /\ List!InsertAt(s, k, v) \in Seq(List!Elements)
           /\ Len(List!InsertAt(s, k, v)) = Len(s) + 1
           /\ \A i \in 1..(Len(s) + 1) :
                 List!InsertAt(s, k, v)[i] = IF i < k THEN s[i] ELSE IF i = k THEN v ELSE s[i - 1]
<1> DEFINE a == SubSeq(s, 1, k - 1)  b == SubSeq(s, k, Len(s))  c == <<v>>
           d == a \o c  r == d \o b
<1>1. /\ a \in Seq(List!Elements) /\ Len(a) = k - 1
      /\ \A i \in 1..(k - 1) : a[i] = s[i]
  <2>1. 1 \in 1..(Len(s) + 1) /\ k - 1 \in 0..Len(s) /\ 1 <= (k - 1) + 1
    OBVIOUS
  <2>2. /\ a \in Seq(List!Elements) /\ Len(a) = (k - 1) - 1 + 1
        /\ \A i \in 1..((k - 1) - 1 + 1) : a[i] = s[1 + i - 1]
    BY <2>1, ListPart
  <2> HIDE DEF a
  <2> QED BY <2>2
<1>2. /\ b \in Seq(List!Elements) /\ Len(b) = Len(s) - k + 1
      /\ \A i \in 1..(Len(s) - k + 1) : b[i] = s[k + i - 1]
  <2>1. Len(s) \in 0..Len(s) /\ k <= Len(s) + 1
    OBVIOUS
  <2> QED BY <2>1, ListPart
<1>3. c \in Seq(List!Elements) /\ Len(c) = 1 /\ c[1] = v
  OBVIOUS
<1> HIDE DEF a, b, c
<1>4. /\ d \in Seq(List!Elements) /\ Len(d) = Len(a) + Len(c)
      /\ \A i \in 1..(Len(a) + Len(c)) :
             d[i] = IF i <= Len(a) THEN a[i] ELSE c[i - Len(a)]
  BY <1>1, <1>3, ConcatProperties
<1> HIDE DEF d
<1>5. /\ r \in Seq(List!Elements) /\ Len(r) = Len(d) + Len(b)
      /\ \A i \in 1..(Len(d) + Len(b)) :
             r[i] = IF i <= Len(d) THEN d[i] ELSE b[i - Len(d)]
  <2>1. d \in Seq(List!Elements) /\ b \in Seq(List!Elements)
    BY <1>2, <1>4
  <2> QED BY ONLY <2>1, ConcatProperties
<1>6. List!InsertAt(s, k, v) = r
  BY DEF List!InsertAt, r, d, a, b, c
<1> HIDE DEF r
<1>7. Len(d) = k /\ Len(r) = Len(s) + 1
  BY <1>1, <1>2, <1>3, <1>4, <1>5
<1>8. ASSUME NEW i \in 1..(Len(s) + 1)
      PROVE  r[i] = IF i < k THEN s[i] ELSE IF i = k THEN v ELSE s[i - 1]
  <2>1. CASE i < k
    <3>1. /\ i \in 1..(k - 1) /\ i <= Len(d) /\ i \in 1..(Len(d) + Len(b))
          /\ i \in 1..(Len(a) + Len(c)) /\ i <= Len(a)
      BY <1>1, <1>2, <1>3, <1>7, <2>1
    <3>2. r[i] = d[i] /\ d[i] = a[i] /\ a[i] = s[i]
      BY <1>1, <1>4, <1>5, <3>1
    <3> QED BY <2>1, <3>2
  <2>2. CASE i = k
    <3>1. i <= Len(d) /\ i \in 1..(Len(d) + Len(b)) /\ i - Len(a) = 1 /\ ~(i <= Len(a))
      BY <1>1, <1>2, <1>7, <2>2
    <3> QED BY <1>1, <1>3, <1>4, <1>5, <2>2, <3>1
  <2>3. CASE i > k
    <3>1. /\ ~(i <= Len(d)) /\ i \in 1..(Len(d) + Len(b))
          /\ i - Len(d) \in 1..(Len(s) - k + 1) /\ k + (i - Len(d)) - 1 = i - 1
      BY <1>2, <1>7, <2>3
    <3>2. r[i] = b[i - Len(d)]
      BY <1>5, <3>1
    <3>3. b[i - Len(d)] = s[k + (i - Len(d)) - 1]
      BY <1>2, <3>1
    <3>4. r[i] = s[i - 1]
      BY ONLY <3>1, <3>2, <3>3
    <3>5. ~(i < k) /\ i # k
      BY <2>3
    <3> QED BY ONLY <3>4, <3>5
  <2> QED BY <2>1, <2>2, <2>3
<1> QED BY <1>5, <1>6, <1>7, <1>8

LEMMA RemoveAtIs ==
    ASSUME NEW s \in Seq(List!Elements), NEW k \in 1..Len(s)
    PROVE  /\ List!RemoveAt(s, k) \in Seq(List!Elements)
           /\ Len(List!RemoveAt(s, k)) = Len(s) - 1
           /\ \A i \in 1..(Len(s) - 1) :
                 List!RemoveAt(s, k)[i] = IF i < k THEN s[i] ELSE s[i + 1]
<1> DEFINE a == SubSeq(s, 1, k - 1)  b == SubSeq(s, k + 1, Len(s))  r == a \o b
<1>1. /\ a \in Seq(List!Elements) /\ Len(a) = k - 1
      /\ \A i \in 1..(k - 1) : a[i] = s[i]
  <2>1. 1 \in 1..(Len(s) + 1) /\ k - 1 \in 0..Len(s) /\ 1 <= (k - 1) + 1
    OBVIOUS
  <2>2. /\ a \in Seq(List!Elements) /\ Len(a) = (k - 1) - 1 + 1
        /\ \A i \in 1..((k - 1) - 1 + 1) : a[i] = s[1 + i - 1]
    BY <2>1, ListPart
  <2> HIDE DEF a
  <2> QED BY <2>2
<1>2. /\ b \in Seq(List!Elements) /\ Len(b) = Len(s) - k
      /\ \A i \in 1..(Len(s) - k) : b[i] = s[k + i]
  <2>1. Len(s) \in 0..Len(s) /\ k + 1 <= Len(s) + 1 /\ k + 1 \in 1..(Len(s) + 1)
    OBVIOUS
  <2>2. /\ b \in Seq(List!Elements) /\ Len(b) = Len(s) - (k + 1) + 1
        /\ \A i \in 1..(Len(s) - (k + 1) + 1) : b[i] = s[(k + 1) + i - 1]
    BY <2>1, ListPart
  <2> HIDE DEF b
  <2>3. Len(s) - (k + 1) + 1 = Len(s) - k
    OBVIOUS
  <2>4. ASSUME NEW i \in 1..(Len(s) - k) PROVE b[i] = s[k + i]
    <3>1. (k + 1) + i - 1 = k + i
      OBVIOUS
    <3>2. b[i] = s[(k + 1) + i - 1]
      BY ONLY <2>2, <2>3, i \in 1..(Len(s) - k)
    <3> QED BY <3>1, <3>2
  <2> QED BY ONLY <2>2, <2>3, <2>4
<1> HIDE DEF a, b
<1>3. /\ r \in Seq(List!Elements) /\ Len(r) = Len(a) + Len(b)
      /\ \A i \in 1..(Len(a) + Len(b)) :
             r[i] = IF i <= Len(a) THEN a[i] ELSE b[i - Len(a)]
  BY <1>1, <1>2, ConcatProperties
<1>4. List!RemoveAt(s, k) = r
  BY DEF List!RemoveAt, r, a, b
<1> HIDE DEF r
<1>5. Len(r) = Len(s) - 1
  BY <1>1, <1>2, <1>3
<1>6. ASSUME NEW i \in 1..(Len(s) - 1) PROVE r[i] = IF i < k THEN s[i] ELSE s[i + 1]
  <2>1. CASE i < k
    <3>1. i \in 1..(k - 1) /\ i <= Len(a) /\ i \in 1..(Len(a) + Len(b))
      BY <1>1, <1>2, <2>1
    <3> QED BY <1>1, <1>3, <2>1, <3>1
  <2>2. CASE ~(i < k)
    <3>1. /\ ~(i <= Len(a)) /\ i \in 1..(Len(a) + Len(b))
          /\ i - Len(a) \in 1..(Len(s) - k) /\ k + (i - Len(a)) = i + 1
      BY <1>1, <1>2, <2>2
    <3>2. r[i] = b[i - Len(a)]
      BY <1>3, <3>1
    <3>3. b[i - Len(a)] = s[k + (i - Len(a))]
      BY <1>2, <3>1
    <3> QED BY <2>2, <3>1, <3>2, <3>3
  <2> QED BY <2>1, <2>2
<1> QED BY <1>3, <1>4, <1>5, <1>6

LEMMA ListInsert ==
    ASSUME ListInv, NEW pos \in Int, NEW v \in List!Elements, List!list_insert(pos, v)
    PROVE  ListInv' /\ List!ActsOnSequence
<1> DEFINE C == List!Contents
           k == List!length + 1
           D == List!InsertAt(C, pos, v)
<1>1. /\ C \in Seq(List!Elements) /\ Len(C) = List!length /\ List!length \in 0..MaxList
      /\ \A i \in 1..List!length : C[i] = at[i]
  BY ListContents, ListLength
<1>2. k <= MaxList /\ k \in 0..MaxList
  BY <1>1, ListSizes DEF List!list_insert
<1>3. CASE pos \notin 1..k
  <2>1. UNCHANGED <<n, at>> /\ list_call' = ListCall("insert", <<pos, v>>, <<"error">>)
    BY <1>3 DEF List!list_insert, List!Called, ListCall
  <2>2. C' = C /\ (List!Hung' <=> List!Hung) /\ ListInv'
    BY <2>1, ListSame
  <2>3. list_call'.op = "insert" /\ list_call'.res # <<>>
    BY <2>1 DEF ListCall
  <2> QED BY <2>2, <2>3 DEF List!ActsOnSequence, List!RemovesNext
<1>4. CASE pos \in 1..k
  <2>1. /\ n' = k /\ list_call' = ListCall("insert", <<pos, v>>, <<>>)
        /\ at' = [i \in List!Indices |->
                    IF i = pos THEN v
                    ELSE IF i > pos /\ i <= k THEN at[i - 1] ELSE at[i]]
    BY <1>4 DEF List!list_insert, List!Called, ListCall
  <2> HIDE DEF C
  <2>2. at' \in [List!Indices -> List!Elements]
    <3>1. ASSUME NEW i \in List!Indices, i > pos, i <= k PROVE at[i - 1] \in List!Elements
      <4>1. i - 1 \in List!Indices
        BY <1>4, <3>1, ListSizes
      <4> QED BY <4>1 DEF ListInv
    <3> QED BY <2>1, <3>1 DEF ListInv
  <2>3. /\ D \in Seq(List!Elements) /\ Len(D) = Len(C) + 1
        /\ \A i \in 1..(Len(C) + 1) :
              D[i] = IF i < pos THEN C[i] ELSE IF i = pos THEN v ELSE C[i - 1]
    BY <1>1, <1>4, InsertAtIs
  <2> HIDE DEF D, k
  <2>4. /\ ListInv' /\ List!length' = k
        /\ List!Contents' \in Seq(List!Elements) /\ Len(List!Contents') = k
        /\ \A i \in 1..k : List!Contents'[i] = at'[i]
    BY <1>2, <2>1, <2>2, ListAfter
  <2>5. k = List!length + 1
    BY DEF k
  <2>6. ASSUME NEW i \in 1..k PROVE List!Contents'[i] = D[i]
    <3>1. i \in List!Indices /\ i \in 1..(Len(C) + 1)
      BY <1>1, <1>2, <2>5, ListSizes
    <3>2. at'[i] = IF i = pos THEN v
                   ELSE IF i > pos /\ i <= k THEN at[i - 1] ELSE at[i]
      BY <2>1, <3>1
    <3>3. D[i] = IF i < pos THEN C[i] ELSE IF i = pos THEN v ELSE C[i - 1]
      BY <2>3, <3>1
    <3>4. (i < pos => C[i] = at[i]) /\ (i > pos => C[i - 1] = at[i - 1])
      <4>1. (i < pos => i \in 1..List!length) /\ (i > pos => i - 1 \in 1..List!length)
        BY <1>1, <1>4, <2>5
      <4> QED BY <1>1, <4>1
    <3>5. at'[i] = D[i]
      BY <1>4, <3>2, <3>3, <3>4
    <3> QED BY <2>4, <3>5
  <2>7. List!Contents' = D
    BY <1>1, <2>3, <2>4, <2>5, <2>6, ListsEqual
  <2>8. ~List!Hung => ~List!Hung'
    <3>1. ASSUME ~List!Hung, NEW i \in List!Indices, i > k PROVE at'[i] = Nil
      <4>1. i # pos /\ ~(i <= k) /\ i > List!length
        BY <1>1, <1>4, <2>5, <3>1, ListSizes
      <4> QED BY <2>1, <3>1, <4>1 DEF List!Hung
    <3> QED BY <2>4, <3>1 DEF List!Hung
  <2>9. /\ list_call'.op = "insert" /\ list_call'.res = <<>>
        /\ list_call'.args[1] = pos /\ list_call'.args[2] = v
    BY <2>1 DEF ListCall
  <2> QED BY <2>4, <2>7, <2>8, <2>9 DEF List!ActsOnSequence, List!RemovesNext, C, D
<1> QED BY <1>3, <1>4

LEMMA ListRemove ==
    ASSUME ListInv, NEW pos \in Int, List!list_remove(pos)
    PROVE  ListInv' /\ List!ActsOnSequence
<1> DEFINE C == List!Contents
           l == List!length
           D == List!RemoveAt(C, pos)
<1>1. /\ C \in Seq(List!Elements) /\ Len(C) = l /\ l \in 0..MaxList
      /\ \A i \in 1..l : C[i] = at[i]
  BY ListContents, ListLength
<1>2. CASE (pos # l /\ pos \notin 1..(l + 1)) \/ l = 0
  <2>1. UNCHANGED <<n, at>> /\ list_call'.op = "remove" /\ list_call'.args = <<pos>>
    BY <1>2 DEF List!list_remove, List!Called
  <2>2. C' = C /\ (List!Hung' <=> List!Hung) /\ ListInv'
    BY <2>1, ListSame
  <2>3. pos \notin 1..Len(C) /\ (pos = Len(C) + 1 => C = <<>>)
    BY <1>1, <1>2
  <2> HIDE DEF C
  <2> QED BY <2>1, <2>2, <2>3 DEF List!ActsOnSequence, List!RemovesNext, C
<1>3. CASE ~((pos # l /\ pos \notin 1..(l + 1)) \/ l = 0)
  <2>1. pos \in 1..(l + 1) /\ l \in 1..MaxList /\ l - 1 \in 0..MaxList
    BY <1>1, <1>3, ListSizes
  <2>2. /\ n' = l - 1 /\ list_call' = ListCall("remove", <<pos>>, <<at[pos]>>)
        /\ at' = List!Closed(pos)
    BY <1>3 DEF List!list_remove, List!Called, ListCall
  <2> HIDE DEF C
  <2> DEFINE m == List!Max({pos, l})
  <2>3. at' = [i \in List!Indices |-> IF i >= pos /\ i < l THEN at[i + 1]
                                     ELSE IF i = m THEN Nil ELSE at[i]]
    BY <2>2 DEF List!Closed
  <2>4. m \in {pos, l} /\ m >= pos /\ m >= l
    <3>1. \E x \in {pos, l} : \A y \in {pos, l} : x >= y
      BY <1>1
    <3> QED BY <3>1 DEF List!Max
  <2> HIDE DEF m
  <2>5. at' \in [List!Indices -> List!Elements]
    <3>1. ASSUME NEW i \in List!Indices, i < l PROVE at[i + 1] \in List!Elements
      <4>1. i + 1 \in List!Indices
        BY <2>1, <3>1, ListSizes
      <4> QED BY <4>1 DEF ListInv
    <3> QED BY <2>3, <3>1 DEF ListInv, List!Elements
  <2>6. /\ ListInv' /\ List!length' = l - 1
        /\ List!Contents' \in Seq(List!Elements) /\ Len(List!Contents') = l - 1
        /\ \A i \in 1..(l - 1) : List!Contents'[i] = at'[i]
    BY <2>1, <2>2, <2>5, ListAfter
  <2>7. ASSUME pos \in 1..Len(C) PROVE List!Contents' = D /\ at[pos] = C[pos]
    <3>1. /\ D \in Seq(List!Elements) /\ Len(D) = Len(C) - 1
          /\ \A i \in 1..(Len(C) - 1) : D[i] = IF i < pos THEN C[i] ELSE C[i + 1]
      BY <1>1, <2>7, RemoveAtIs
    <3> HIDE DEF D, l
    <3>2. ASSUME NEW i \in 1..(l - 1) PROVE List!Contents'[i] = D[i]
      <4>1. i \in List!Indices /\ i \in 1..(Len(C) - 1) /\ i < l /\ i # m
        BY <1>1, <2>1, <2>4, ListSizes
      <4>2. i \in 1..l /\ i + 1 \in 1..l
        BY <2>1
      <4>3. at'[i] = IF i < pos THEN at[i] ELSE at[i + 1]
        BY <2>1, <2>3, <4>1
      <4> QED BY <1>1, <2>6, <3>1, <4>1, <4>2, <4>3
    <3> QED BY <1>1, <2>6, <2>7, <3>1, <3>2, ListsEqual
  <2>8. /\ list_call'.op = "remove" /\ list_call'.args[1] = pos
        /\ list_call'.res = <<at[pos]>>
    BY <2>2 DEF ListCall
  <2>9. pos \in 1..(Len(C) + 1) /\ C # <<>> /\ List!RemovesNext = (pos = Len(C) + 1)
    BY <1>1, <2>1, <2>8 DEF List!RemovesNext, C
  <2>10. ASSUME ~List!Hung PROVE List!Hung' <=> pos = l + 1 /\ at[l] # Nil
    <3> HIDE DEF l
    <3>1. ASSUME NEW i \in List!Indices, i > l PROVE at'[i] = Nil
      <4>1. at[i] = Nil /\ ~(i < l)
        BY <2>1, <2>10, <3>1, ListSizes DEF List!Hung, l
      <4> QED BY <2>3, <4>1
    <3>2. l \in List!Indices /\ ~(l < l) /\ l > l - 1
      BY <2>1, ListSizes
    <3>3. CASE pos = l + 1
      <4>1. at'[l] = at[l]
        BY <2>1, <2>3, <2>4, <3>2, <3>3
      <4> QED BY <2>1, <2>6, <3>1, <3>2, <3>3, <4>1, ListSizes DEF List!Hung
    <3>4. CASE pos # l + 1
      <4>1. at'[l] = Nil
        BY <2>1, <2>3, <2>4, <3>2, <3>4
      <4> QED BY <2>1, <2>6, <3>1, <3>2, <3>4, <4>1, ListSizes DEF List!Hung
    <3> QED BY <3>3, <3>4
  <2>11. ASSUME pos = l + 1 PROVE List!CutsLast
    <3> DEFINE F == List!Front(C)
    <3>1. F \in Seq(List!Elements) /\ Len(F) = l - 1 /\ \A i \in 1..(l - 1) : F[i] = C[i]
      <4> HIDE DEF l
      <4>1. 1 \in 1..(Len(C) + 1) /\ l - 1 \in 0..Len(C) /\ 1 <= (l - 1) + 1
        BY <1>1, <2>1
      <4>2. F = SubSeq(C, 1, l - 1)
        BY <1>1 DEF List!Front
      <4>3. /\ SubSeq(C, 1, l - 1) \in Seq(List!Elements)
            /\ Len(SubSeq(C, 1, l - 1)) = (l - 1) - 1 + 1
            /\ \A i \in 1..((l - 1) - 1 + 1) : SubSeq(C, 1, l - 1)[i] = C[1 + i - 1]
        BY <1>1, <4>1, ListPart
      <4> HIDE DEF F
      <4>4. (l - 1) - 1 + 1 = l - 1 /\ \A i \in 1..(l - 1) : 1 + i - 1 = i
        BY <2>1
      <4> QED BY <4>2, <4>3, <4>4
    <3> HIDE DEF F, l
    <3>2. ASSUME NEW i \in 1..(l - 1) PROVE List!Contents'[i] = F[i]
      <4>1. i \in List!Indices /\ i < pos /\ i # m /\ i \in 1..l
        BY <2>1, <2>4, <2>11, ListSizes
      <4>2. at'[i] = at[i]
        BY <2>3, <4>1
      <4> HIDE DEF List!Contents
      <4> QED BY <1>1, <2>6, <3>1, <4>1, <4>2
    <3>3. List!Contents' = F
      BY <2>1, <2>6, <3>1, <3>2, ListsEqual
    <3>4. at'[l] = at[l]
      <4>1. l \in List!Indices /\ l < pos /\ l # m
        BY <2>1, <2>4, <2>11, ListSizes
      <4> QED BY <2>1, <2>3, <4>1
    <3>5. at[l] = C[l] /\ Len(C) = l
      BY <1>1, <2>1
    <3> QED BY <2>8, <2>11, <3>3, <3>4, <3>5 DEF List!CutsLast, List!Last, F, C
  <2>12. at[l] = List!Last(C) /\ Len(C) = l
    BY <1>1, <2>1 DEF List!Last
  <2> HIDE DEF D, l
  <2>13. ~List!Hung => (List!Hung' <=> List!RemovesNext /\ C # <<>> /\ List!Last(C) # Nil)
    BY <2>9, <2>10, <2>12
  <2>14. List!RemovesNext => C # <<>> /\ List!CutsLast
    BY <2>9, <2>11, <2>12
  <2> QED BY <2>6, <2>7, <2>8, <2>9, <2>13, <2>14 DEF List!ActsOnSequence, C, D
<1> QED BY <1>2, <1>3

\* Two sequences of which each is a permutation of the other.
LEMMA ListPermuted ==
    ASSUME NEW s \in Seq(List!Elements), NEW t \in Seq(List!Elements), Len(s) = Len(t),
           NEW perm \in List!Bijection(1..Len(s), 1..Len(s)),
           \A i \in 1..Len(s) : t[i] = s[perm[i]]
    PROVE  List!ToBag(s) = List!ToBag(t)
<1> DEFINE S == 1..Len(s)
           In(u, x) == {i \in S : u[i] = x}
<1>1. /\ perm \in [S -> S]
      /\ \A i, j \in S : perm[i] = perm[j] => i = j
      /\ \A j \in S : \E i \in S : perm[i] = j
  BY DEF List!Bijection, List!Injection, List!Surjection, List!IsInjective
<1>2. List!Range(s) = List!Range(t)
  <2>1. List!Range(s) = {s[i] : i \in S} /\ List!Range(t) = {t[i] : i \in S}
    BY DEF List!Range
  <2>2. ASSUME NEW i \in S PROVE t[i] \in List!Range(s)
    <3>1. perm[i] \in S
      BY <1>1
    <3>2. t[i] = s[perm[i]]
      OBVIOUS
    <3> QED BY <2>1, <3>1, <3>2
  <2>3. ASSUME NEW j \in S PROVE s[j] \in List!Range(t)
    <3>1. PICK i \in S : perm[i] = j
      BY <1>1
    <3>2. t[i] = s[j]
      BY <3>1
    <3> QED BY <2>1, <3>2
  <2> QED BY <2>1, <2>2, <2>3
<1>3. ASSUME NEW x PROVE Cardinality(In(t, x)) = Cardinality(In(s, x))
  <2> DEFINE A == In(t, x)  B == In(s, x)
             f == [i \in A |-> perm[i]]
  <2>1. f \in [A -> B]
    BY <1>1
  <2>2. ASSUME NEW i \in A, NEW j \in A, f[i] = f[j] PROVE i = j
    BY <1>1, <2>2
  <2>3. ASSUME NEW j \in B PROVE \E i \in A : f[i] = j
    <3>1. j \in S /\ s[j] = x
      OBVIOUS
    <3>2. PICK i \in S : perm[i] = j
      BY <1>1, <3>1
    <3>3. t[i] = x
      BY <3>1, <3>2
    <3> QED BY <3>2, <3>3
  <2>4. IsFiniteSet(A)
    <3>1. A \subseteq S /\ 1 \in Int /\ Len(s) \in Int
      OBVIOUS
    <3>2. IsFiniteSet(S)
      BY ONLY <3>1, FS_Interval
    <3> QED BY <3>1, <3>2, FS_Subset
  <2> HIDE DEF A, B, f
  <2>5. f \in Bijection(A, B)
    BY <2>1, <2>2, <2>3 DEF Bijection, Injection, Surjection, IsInjective
  <2>6. ExistsBijection(A, B)
    BY <2>5 DEF ExistsBijection
  <2>7. Cardinality(B) = Cardinality(A)
    BY <2>4, <2>6, FS_Bijection
  <2> QED BY <2>7 DEF A, B
<1>4. ASSUME NEW x PROVE List!Cardinality(In(s, x)) = List!Cardinality(In(t, x))
  BY <1>3 DEF List!Cardinality, Cardinality
<1>5. DOMAIN s = S /\ DOMAIN t = S
  OBVIOUS
<1>6. List!ToBag(s) = [x \in List!Range(s) |-> List!Cardinality(In(s, x))]
  BY <1>5 DEF List!ToBag
<1>7. List!ToBag(t) = [x \in List!Range(t) |-> List!Cardinality(In(t, x))]
  BY <1>5 DEF List!ToBag
<1> HIDE DEF In
<1> QED BY <1>2, <1>4, <1>6, <1>7

LEMMA ListSort == ASSUME ListInv, List!list_sort PROVE ListInv' /\ List!ActsOnSequence
<1> DEFINE C == List!Contents
           l == List!length
           D == [i \in 1..l |-> at'[i]]
<1>1. /\ C \in Seq(List!Elements) /\ Len(C) = l /\ l \in 0..MaxList
      /\ \A i \in 1..l : C[i] = at[i]
  BY ListContents, ListLength
<1>2. /\ n' = n /\ list_call' = ListCall("sort", <<>>, <<>>)
      /\ meta' = meta
  BY DEF List!list_sort, List!Called, ListCall, List!AfterSort
<1>3. PICK perm \in List!Bijection(1..l, 1..l) :
         at' = [i \in List!Indices |-> IF i <= l THEN at[perm[i]] ELSE at[i]]
  BY DEF List!list_sort
<1>4. perm \in [1..l -> 1..l]
  BY DEF List!Bijection, List!Injection
<1> HIDE DEF C, l
<1>5. ASSUME NEW i \in List!Indices, i <= l PROVE perm[i] \in 1..l /\ perm[i] \in List!Indices
  BY <1>1, <1>4, <1>5, ListSizes
<1>6. at' \in [List!Indices -> List!Elements]
  BY <1>3, <1>5 DEF ListInv
<1>7. ListInv' /\ List!length' = l
  <2>1. CASE n # List!NoLen
    <3>1. n = l /\ n' = l
      BY <1>2, <2>1, ListLength DEF l
    <3> QED BY <1>1, <1>6, <3>1, ListAfter
  <2>2. CASE n = List!NoLen
    <3>1. \A i \in List!Indices : at[i] # Nil <=> i <= l
      BY <2>2, ListLength DEF l
    <3>2. ASSUME NEW i \in List!Indices PROVE at'[i] # Nil <=> i <= l
      BY <1>3, <1>5, <3>1
    <3>3. ListInv'
      BY <1>1, <1>2, <1>6, <2>2, <3>2 DEF ListInv
    <3>4. {i \in List!Indices : at'[i] # Nil} = {i \in List!Indices : at[i] # Nil}
      BY <3>1, <3>2
    <3>5. List!length' = List!length
      BY <1>2, <3>4 DEF List!length
    <3> QED BY <3>3, <3>5 DEF l
  <2> QED BY <2>1, <2>2
<1>8. /\ List!Contents' \in Seq(List!Elements) /\ Len(List!Contents') = l
      /\ \A i \in 1..l : List!Contents'[i] = at'[i]
  <2>1. List!Contents' = SubSeq(at', 1, l)
    BY <1>7 DEF List!Contents
  <2> QED BY <1>1, <1>6, <2>1, ListPrefix
<1>9. \A i \in 1..l : List!Contents'[i] = C[perm[i]]
  <2> SUFFICES ASSUME NEW i \in 1..l PROVE List!Contents'[i] = C[perm[i]]
    OBVIOUS
  <2>1. i \in List!Indices /\ i <= l
    BY <1>1, ListSizes
  <2> QED BY <1>1, <1>3, <1>5, <1>8, <2>1
<1>10. List!ToBag(C) = List!ToBag(List!Contents')
  <2> DEFINE E == List!Contents'
  <2> HIDE DEF E
  <2>1. /\ E \in Seq(List!Elements) /\ Len(C) = Len(E) /\ C \in Seq(List!Elements)
        /\ perm \in List!Bijection(1..Len(C), 1..Len(C))
        /\ \A i \in 1..Len(C) : E[i] = C[perm[i]]
    BY <1>1, <1>3, <1>8, <1>9 DEF E
  <2>2. List!ToBag(C) = List!ToBag(E)
    BY ONLY <2>1, ListPermuted
  <2> QED BY <2>2 DEF E
<1>11. ~List!Hung => ~List!Hung'
  <2>1. ASSUME ~List!Hung, NEW i \in List!Indices, i > l PROVE at'[i] = Nil
    <3>1. at'[i] = at[i]
      BY <1>1, <1>3, <2>1, ListSizes
    <3> QED BY <2>1, <3>1 DEF List!Hung, l
  <2> QED BY <1>7, <2>1 DEF List!Hung
<1> QED BY <1>2, <1>7, <1>10, <1>11 DEF List!ActsOnSequence, List!RemovesNext, ListCall, C

LEMMA ListInit == ASSUME List!Init PROVE ListInv
<1>1. /\ n \in {List!NoLen} \cup (0..MaxList) /\ at \in [List!Indices -> List!Elements]
  BY ListSizes DEF List!Init
<1>2. PICK l \in 0..2 : /\ \A i \in 1..l : n = List!NoLen => at[i] # Nil
                        /\ \A i \in List!Indices : i > l => at[i] = Nil
  BY DEF List!Init
<1>3. ASSUME n = List!NoLen, NEW i \in List!Indices PROVE at[i] # Nil <=> i <= l
  BY <1>2, <1>3, ListSizes
<1>4. l \in 0..MaxList
  BY ListSizes
<1> QED BY <1>1, <1>3, <1>4 DEF ListInv

LEMMA ListActs == ASSUME ListInv, List!Next PROVE ListInv' /\ List!ActsOnSequence
<1>0. \A i \in -1..(MaxList + 1) : i \in Int
  OBVIOUS
<1>1. CASE List!list___new
  BY <1>1, ListNew
<1>2. CASE List!list_ipairs
  BY <1>2, ListIpairs
<1>3. CASE List!list_sort
  BY <1>3, ListSort
<1>4. CASE \E i \in -1..(MaxList + 1) : List!list_len(i) /\ i <= MaxList
  BY <1>0, <1>4, ListLen
<1>5. CASE \E i \in -1..(MaxList + 1) : List!list_remove(i)
  BY <1>0, <1>5, ListRemove
<1>6. CASE \E vals \in List!SeqOf(List!Elements, 2) :
              \/ List!list_append(vals) \/ List!list_pack(vals) \/ List!list___eq(vals)
  BY <1>6, ListAppend, ListPack, ListEq
<1>7. CASE \E i \in -1..(MaxList + 1), v \in List!Elements : List!list_insert(i, v)
  BY <1>0, <1>7, ListInsert
<1>8. CASE \E i \in 1..MaxList, j \in 0..MaxList : List!list_unpack(i, j) \/ List!list_concat(i, j)
  BY <1>8, ListUnpack
<1>9. CASE \E i \in -2..2, v \in List!Elements : List!list_find(v, i)
  <2>1. \A i \in -2..2 : i \in Int
    OBVIOUS
  <2> QED BY <1>9, <2>1, ListFind
<1> QED BY <1>1, <1>2, <1>3, <1>4, <1>5, <1>6, <1>7, <1>8, <1>9 DEF List!Next

-----------------------------------------------------------------------------
(* TypedArray. *)

\* The values of the bytes up to one of them.
Place(i) == 2 ^ (ElemBits * i)

LEMMA ArrayWidths ==
    /\ ElemSize \in Nat \ {0} /\ Array!Base \in Nat \ {0, 1} /\ Array!Radix = Place(ElemSize)
    /\ Place(0) = 1
    /\ \A i \in Nat : Place(i) \in Nat \ {0} /\ Place(i + 1) = Array!Base * Place(i)
<1>1. ElemBits \in Nat \ {0} /\ ElemSize \in Nat \ {0}
  BY DataAssumption
<1>2. Array!Base = 2 ^ ElemBits /\ Array!Radix = Place(ElemSize)
  BY DEF Array!Base, Array!Radix, Place
<1>3. 2 ^ ElemBits \in Nat /\ 2 ^ ElemBits >= 2
  <2>1. ElemBits - 1 \in Nat /\ ElemBits = (ElemBits - 1) + 1
    BY <1>1
  <2>2. 2 ^ ((ElemBits - 1) + 1) = 2 * 2 ^ (ElemBits - 1)
    BY <2>1, PowerNext
  <2>3. 2 ^ (ElemBits - 1) \in Nat \ {0}
    BY <2>1, PowerType
  <2> QED BY <2>1, <2>2, <2>3
<1>4. Place(0) = 1
  <2>1. ElemBits * 0 = 0
    BY <1>1
  <2> QED BY <2>1, PowerZero DEF Place
<1>5. ASSUME NEW i \in Nat PROVE Place(i) \in Nat \ {0} /\ Place(i + 1) = Array!Base * Place(i)
  <2>1. ElemBits * i \in Nat /\ ElemBits * (i + 1) = ElemBits + (ElemBits * i)
    BY <1>1
  <2> DEFINE x == ElemBits * i
  <2>2. x \in Nat /\ ElemBits * (i + 1) = ElemBits + x
    BY <2>1
  <2>3. Place(i) = 2 ^ x /\ Place(i + 1) = 2 ^ (ElemBits + x)
    BY <2>2 DEF Place
  <2> HIDE DEF x
  <2>4. 2 ^ (ElemBits + x) = 2 ^ ElemBits * 2 ^ x /\ 2 ^ x \in Nat \ {0}
    BY <1>1, <2>2, PowerSum, PowerType
  <2> QED BY <1>2, <2>3, <2>4
<1> QED BY <1>1, <1>2, <1>3, <1>4, <1>5

\* What is left of a value after each byte of it.
LeavesOf(f, v) ==
    /\ f \in [0..ElemSize -> Int] /\ f[0] = v
    /\ \A i \in 1..ElemSize : f[i] = f[i - 1] \div Array!Base

LEMMA BytesAre ==
    ASSUME NEW v \in Int
    PROVE  \E f : LeavesOf(f, v)
                  /\ Array!set_uint(v) = [i \in 1..ElemSize |-> f[i - 1] % Array!Base]
<1> DEFINE B == Array!Base
           Body(f) == [i \in 0..ElemSize |-> IF i = 0 THEN v ELSE f[i - 1] \div B]
           left == CHOOSE f : f = Body(f)
           next == [i \in 1..ElemSize |-> [x \in Int |-> x \div B]]
<1>1. ElemSize \in Nat /\ B \in Nat \ {0}
  BY ArrayWidths
<1>2. Array!set_uint(v) = [i \in 1..ElemSize |-> left[i - 1] % B]
  BY DEF Array!set_uint
<1> HIDE DEF B
<1>3. PICK f : Iterated(f, Int, ElemSize, v, next)
  <2>1. \A x \in Int : x \div B \in Int
    BY <1>1, DivisionIs
  <2>2. v \in Int /\ next \in Steps(Int, ElemSize)
    BY <2>1 DEF Steps
  <2> HIDE DEF next
  <2>3. \E f : Iterated(f, Int, ElemSize, v, next)
    BY ONLY <1>1, <2>2, Iterates
  <2> QED BY <2>3
<1>4. f \in [0..ElemSize -> Int] /\ f[0] = v
  BY <1>3 DEF Iterated
<1>5. ASSUME NEW i \in 1..ElemSize PROVE f[i] = f[i - 1] \div B
  <2>1. i - 1 \in 0..ElemSize
    BY <1>1
  <2>2. f[i - 1] \in Int /\ f[i] = next[i][f[i - 1]]
    BY <1>3, <1>4, <2>1 DEF Iterated
  <2> QED BY <2>2
<1>6. ASSUME NEW i \in 0..ElemSize PROVE f[i] = Body(f)[i]
  <2>1. i # 0 => i \in 1..ElemSize
    BY <1>1
  <2> QED BY <1>4, <1>5, <2>1
<1>7. f = Body(f)
  BY <1>4, <1>6
<1>8. left = Body(left)
  BY <1>7
<1> HIDE DEF left
<1>9. left[0] = v /\ \A i \in 1..ElemSize : left[i] = left[i - 1] \div B
  <2>1. left[0] = v
    BY <1>1, <1>8
  <2>2. ASSUME NEW i \in 1..ElemSize PROVE left[i] = left[i - 1] \div B
    <3>1. i \in 0..ElemSize /\ i # 0
      BY <1>1
    <3> QED BY <1>8, <3>1
  <2> QED BY <2>1, <2>2
<1>10. left \in [0..ElemSize -> Int]
  <2> DEFINE T == {i \in 0..ElemSize : left[i] \notin Int}
  <2>1. ASSUME T # {} PROVE FALSE
    <3>1. T \in SUBSET Nat
      BY <1>1
    <3>2. PICK i \in T : \A k \in T : i <= k
      BY <2>1, <3>1, LeastNumber
    <3>3. i \in 1..ElemSize /\ i - 1 \in 0..ElemSize /\ ~(i <= i - 1)
      BY <1>1, <1>9, <3>2
    <3>4. left[i - 1] \in Int
      BY <3>2, <3>3
    <3>5. left[i] \in Int
      BY <1>1, <1>9, <3>3, <3>4, DivisionIs
    <3> QED BY <3>2, <3>5
  <2>2. \A i \in 0..ElemSize : left[i] \in Int
    BY <2>1
  <2>3. DOMAIN left = 0..ElemSize /\ left = [i \in 0..ElemSize |-> left[i]]
    BY <1>8
  <2> QED BY <2>2, <2>3
<1> QED BY <1>2, <1>9, <1>10 DEF LeavesOf, B

\* An integer is read back from its bytes, as many as there are.
LEMMA ReadsBack ==
    ASSUME NEW v \in Int
    PROVE  Array!read_uint(Array!set_uint(v)) = v % Array!Radix
<1> DEFINE S == ElemSize  B == Array!Base  store == Array!set_uint(v)
<1>1. S \in Nat /\ B \in Nat \ {0}
  BY ArrayWidths
<1>2. PICK f : LeavesOf(f, v) /\ store = [i \in 1..S |-> f[i - 1] % B]
  BY BytesAre
<1>3. f[0] = v /\ \A i \in 0..S : f[i] \in Int
  BY <1>2 DEF LeavesOf
<1>4. \A i \in 1..S : f[i] = f[i - 1] \div B
  BY <1>2 DEF LeavesOf
<1>5. \A i \in 1..S : store[i] = f[i - 1] % B
  BY <1>2
<1> DEFINE Body(h) == [i \in 0..S |-> IF i = 0 THEN 0 ELSE h[i - 1] * B + store[S - i + 1]]
           value == CHOOSE h : h = Body(h)
           back == [i \in 0..S |-> f[S - i] % Place(i)]
<1>6. Array!read_uint(store) = value[S]
  BY DEF Array!read_uint
<1> HIDE DEF B, store
<1>7. ASSUME NEW i \in 1..S
      PROVE  f[S - i] % Place(i) = (f[S - (i - 1)] % Place(i - 1)) * B + store[S - i + 1]
  <2>1. /\ S - i \in 0..S /\ S - (i - 1) \in 1..S /\ (S - (i - 1)) - 1 = S - i
        /\ S - i + 1 \in 1..S /\ (S - i + 1) - 1 = S - i /\ i - 1 \in Nat /\ i = (i - 1) + 1
    BY <1>1
  <2> DEFINE x == f[S - i]  p == Place(i - 1)
  <2>2. x \in Int
    BY <1>3, <2>1
  <2>3. f[S - (i - 1)] = x \div B
    BY <1>4, <2>1
  <2>4. store[S - i + 1] = x % B
    BY <1>5, <2>1
  <2>5. p \in Nat \ {0} /\ Place(i) = B * p
    BY <2>1, ArrayWidths DEF B
  <2> HIDE DEF x, p
  <2>6. x % (B * p) = ((x \div B) % p) * B + (x % B)
    BY <1>1, <2>2, <2>5, RemainderByProduct
  <2> QED BY <2>3, <2>4, <2>5, <2>6 DEF x, p
<1>8. f[S - 0] % Place(0) = 0
  <2>1. f[S - 0] \in Int
    BY <1>1, <1>3
  <2> DEFINE x == f[S - 0]
  <2> HIDE DEF x
  <2>2. x \in Int => x % 1 = 0
    OBVIOUS
  <2> QED BY <2>1, <2>2, ArrayWidths DEF x
<1>9. back = Body(back)
  <2>1. ASSUME NEW i \in 0..S PROVE back[i] = Body(back)[i]
    <3>1. CASE i = 0
      BY <1>8, <3>1
    <3>2. CASE i # 0
      <4>1. i \in 1..S /\ i - 1 \in 0..S
        BY <1>1, <3>2
      <4>2. back[i] = f[S - i] % Place(i) /\ back[i - 1] = f[S - (i - 1)] % Place(i - 1)
        BY <4>1
      <4>3. Body(back)[i] = back[i - 1] * B + store[S - i + 1]
        BY <3>2, <4>1
      <4> QED BY <1>7, <4>1, <4>2, <4>3
    <3> QED BY <3>1, <3>2
  <2> QED BY <2>1
<1>10. value = Body(value)
  BY <1>9
<1> HIDE DEF value
<1>11. /\ value[0] = 0
       /\ \A i \in 1..S : value[i] = value[i - 1] * B + store[S - i + 1]
  <2>1. value[0] = 0
    BY <1>1, <1>10
  <2>2. ASSUME NEW i \in 1..S
        PROVE  value[i] = value[i - 1] * B + store[S - i + 1]
    <3>1. i \in 0..S /\ i # 0
      BY <1>1
    <3> QED BY <1>10, <3>1
  <2> QED BY <2>1, <2>2
<1> DEFINE T == {i \in 0..S : value[i] # f[S - i] % Place(i)}
<1>12. ASSUME T # {} PROVE FALSE
  <2>1. T \in SUBSET Nat
    BY <1>1
  <2>2. PICK i \in T : \A k \in T : i <= k
    BY <1>12, <2>1, LeastNumber
  <2>3. i # 0
    BY <1>8, <1>11, <2>2
  <2>4. i \in 1..S /\ i - 1 \in 0..S /\ ~(i <= i - 1)
    BY <1>1, <2>2, <2>3
  <2>5. value[i - 1] = f[S - (i - 1)] % Place(i - 1)
    BY <2>2, <2>4
  <2>6. value[i] = f[S - i] % Place(i)
    BY <1>7, <1>11, <2>4, <2>5
  <2> QED BY <2>2, <2>6
<1>13. value[S] = v % Array!Radix
  <2>1. S \in 0..S /\ S - S = 0
    BY <1>1
  <2>2. value[S] = f[0] % Place(S)
    BY <1>12, <2>1
  <2> QED BY <1>3, <2>2, ArrayWidths
<1> QED BY <1>6, <1>13 DEF store

\* The remainder of a sum is that of the sum of a remainder.
LEMMA RemainderOfSum ==
    ASSUME NEW x \in Int, NEW m \in Int, NEW p \in Nat \ {0}
    PROVE  ((x % p) + m) % p = (x + m) % p
<1> DEFINE q == x \div p  r == x % p
<1>1. q \in Int /\ r \in 0..(p - 1) /\ x = (p * q) + r
  BY DivisionIs
<1> HIDE DEF q, r
<1> DEFINE y == r + m  s == y \div p  t == y % p
<1>2. y \in Int
  BY <1>1
<1> HIDE DEF y
<1>3. s \in Int /\ t \in 0..(p - 1) /\ y = (p * s) + t
  BY <1>2, DivisionIs
<1> HIDE DEF s
<1>4. y = r + m
  BY DEF y
<1> DEFINE z == x + m  k == q + s
<1>5. z \in Int /\ k \in Int /\ z = (p * k) + t
  <2>1. p * (q + s) = (p * q) + (p * s)
    BY <1>1, <1>3
  <2>2. p * q \in Int /\ p * s \in Int
    BY <1>1, <1>3
  <2> HIDE DEF t
  <2> QED BY <1>1, <1>3, <1>4, <2>1, <2>2
<1> HIDE DEF z, k, t
<1>6. z % p = t
  BY ONLY <1>3, <1>5, FloorDivision, p \in Nat \ {0}
<1> QED BY <1>6 DEF z, t, y, r

ArrayKinds == {"int", "uint", "string"}
\* The values that are stored.
ArrayGood == Array!Args \ {Bad}

\* A value that is stored is read as its type holds it.
LEMMA StoresReduced ==
    ASSUME kind \in ArrayKinds, NEW v \in ArrayGood
    PROVE  Array!get(Array!Stored(v)) = Array!Reduced(v)
<1> DEFINE R == Array!Radix
<1>1. R \in Nat \ {0}
  BY ArrayWidths
<1>2. ASSUME kind # "string" PROVE v \in Int
  <2>1. v \in {-Array!Radix - 1, -1, 2, Array!Radix}
    BY <1>2 DEF ArrayGood, Array!Args
  <2> QED BY <1>1, <2>1
<1>3. ASSUME v \in Int PROVE Array!read_uint(Array!set_uint(v)) = v % R
  BY <1>3, ReadsBack
<1>4. CASE kind = "int"
  <2> DEFINE m == R \div 2
  <2>1. v \in Int /\ m \in Int
    BY <1>1, <1>2, <1>4
  <2>2. Array!get(Array!Stored(v)) = ((Array!read_uint(Array!set_uint(v)) + m) % R) - m
    BY <1>4 DEF Array!get, Array!get_int, Array!Stored
  <2>3. Array!Reduced(v) = ((v + m) % R) - m
    BY <1>4 DEF Array!Reduced
  <2> HIDE DEF m, R
  <2>4. ((v % R) + m) % R = (v + m) % R
    BY <1>1, <2>1, RemainderOfSum
  <2> QED BY <1>3, <2>1, <2>2, <2>3, <2>4
<1>5. CASE kind = "uint"
  <2>1. Array!get(Array!Stored(v)) = Array!read_uint(Array!set_uint(v))
    BY <1>5 DEF Array!get, Array!Stored
  <2>2. Array!Reduced(v) = v % R
    BY <1>5 DEF Array!Reduced
  <2> QED BY <1>2, <1>3, <1>5, <2>1, <2>2
<1>6. CASE kind = "string"
  <2>1. v \in Seq(Int)
    <3>1. v \in {<<>>, <<1>>, <<1, 0, 2>>}
      BY <1>6 DEF ArrayGood, Array!Args
    <3>2. <<>> \in Seq(Int) /\ <<1>> \in Seq(Int) /\ <<1, 0, 2>> \in Seq(Int)
      OBVIOUS
    <3> QED BY <3>1, <3>2
  <2> DEFINE pad == [k \in 1..ElemSize |-> 0]  whole == v \o pad
  <2>2. Array!get(Array!Stored(v)) = Array!set_string(v)
    BY <1>6 DEF Array!get, Array!Stored
  <2>3. Array!Reduced(v) = SubSeq(whole, 1, ElemSize)
    BY <1>6 DEF Array!Reduced
  <2>4. ElemSize \in Nat
    BY ArrayWidths
  <2>5. pad \in Seq(Int) /\ Len(pad) = ElemSize /\ \A k \in 1..ElemSize : pad[k] = 0
    BY <2>4
  <2> HIDE DEF pad
  <2>6. /\ whole \in Seq(Int) /\ Len(whole) = Len(v) + ElemSize
        /\ \A k \in 1..Len(v) : whole[k] = v[k]
        /\ \A k \in 1..ElemSize : k > Len(v) => whole[k] = 0
    <3>1. whole \in Seq(Int) /\ Len(whole) = Len(v) + ElemSize
      BY <2>1, <2>5
    <3>2. \A k \in 1..Len(v) : whole[k] = v[k]
      BY <2>1, <2>5
    <3>3. ASSUME NEW k \in 1..ElemSize, k > Len(v) PROVE whole[k] = 0
      <4>1. whole[k] = pad[k - Len(v)] /\ k - Len(v) \in 1..ElemSize
        BY <2>1, <2>4, <2>5, <3>3
      <4> QED BY <2>5, <4>1
    <3> QED BY <3>1, <3>2, <3>3
  <2> HIDE DEF whole
  <2>7. Array!set_string(v) = [k \in 1..ElemSize |-> IF k \in DOMAIN v THEN v[k] ELSE 0]
    BY DEF Array!set_string
  <2>8. SubSeq(whole, 1, ElemSize) = [k \in 1..ElemSize |-> whole[k]]
    <3>1. Len(v) \in Nat
      BY <2>1
    <3>2. SubSeq(whole, 1, ElemSize) \in Seq(Int) /\ Len(SubSeq(whole, 1, ElemSize)) = ElemSize
          /\ \A k \in 1..ElemSize : SubSeq(whole, 1, ElemSize)[k] = whole[k]
      BY <2>4, <2>6, <3>1
    <3> DEFINE t == SubSeq(whole, 1, ElemSize)
    <3> HIDE DEF t
    <3>3. t \in Seq(Int) /\ Len(t) = ElemSize /\ \A k \in 1..ElemSize : t[k] = whole[k]
      BY <3>2 DEF t
    <3>4. DOMAIN t = 1..ElemSize /\ t = [k \in 1..ElemSize |-> t[k]]
      BY <3>3
    <3>5. t = [k \in 1..ElemSize |-> whole[k]]
      BY <3>3, <3>4
    <3> QED BY <3>5 DEF t
  <2>9. ASSUME NEW k \in 1..ElemSize PROVE whole[k] = IF k \in DOMAIN v THEN v[k] ELSE 0
    <3>1. DOMAIN v = 1..Len(v) /\ Len(v) \in Nat /\ k \in Nat /\ k >= 1
      BY <2>1, <2>4
    <3> QED BY <2>6, <3>1
  <2> QED BY <2>2, <2>3, <2>7, <2>8, <2>9
<1> QED BY <1>4, <1>5, <1>6 DEF ArrayKinds

\* An array before its call.
ArrayInv ==
    /\ kind \in ArrayKinds /\ cap \in Nat \ {0} /\ len \in 0..cap
    /\ data \in [Array!Offsets -> Array!Bytes]

LEMMA ArrayInit == Array!Init => ArrayInv
<1> SUFFICES ASSUME Array!Init PROVE ArrayInv
  OBVIOUS
<1>1. MaxArray \in Nat
  BY DataAssumption
<1> QED BY <1>1 DEF Array!Init, ArrayInv, ArrayKinds

LEMMA OffsetIs ==
    ASSUME ArrayInv, NEW i \in Int
    PROVE  Array!From(i) \in Int /\ Array!check_offset(i) = Array!From(i) - 1
BY DEF ArrayInv, Array!From, Array!check_offset

\* A call that sets elements, as many as there are values.
LEMMA ArraySets ==
    ASSUME ArrayInv, NEW op \in {"set", "fill", "append"}, NEW i \in Int,
           NEW count \in Nat \ {0}, NEW vals \in [1..count -> Array!Args],
           NEW off, off = Array!From(i) - 1, NEW r, Array!Called(op, <<i, vals>>, r),
           IF Array!Fits(off, count) THEN Array!Set(off, vals) /\ r = Array!Ended(vals)
           ELSE data' = data /\ r = <<Bad>>,
           op = "append" => i = len + 1,
           len' = len + (IF op = "append" /\ r = <<>> THEN count ELSE 0)
    PROVE  Array!ActsOnElements
<1> DEFINE F == Array!From(i)
           In == {k \in DOMAIN vals : F >= 1 /\ F + Len(vals) - 1 <= cap
                                      /\ \A j \in 1..k : vals[j] # Bad}
<1>1. /\ cap \in Nat \ {0} /\ len \in 0..cap /\ data \in [Array!Offsets -> Array!Bytes]
      /\ kind \in ArrayKinds /\ F \in Int
      /\ Array!Offsets = 0..(cap - 1)
  BY OffsetIs DEF ArrayInv, Array!Offsets
<1>2. DOMAIN vals = 1..count /\ Len(vals) = count
  OBVIOUS
<1>3. Array!Fits(off, count) <=> F >= 1 /\ F + count - 1 <= cap
  BY <1>1 DEF Array!Fits
<1>4. In = IF Array!Fits(off, count) THEN Array!Good(vals) ELSE {}
  BY <1>2, <1>3 DEF Array!Good
<1>5. ASSUME NEW k \in In PROVE vals[k] \in ArrayGood
  BY <1>2, <1>5 DEF ArrayGood
<1> HIDE DEF In
<1>6. ASSUME NEW j \in 1..cap
      PROVE  Array!get(data'[j - 1]) = IF j - F + 1 \in In THEN Array!Reduced(vals[j - F + 1])
                                       ELSE Array!get(data[j - 1])
  <2>1. j - 1 \in 0..(cap - 1) /\ (j - 1) - off + 1 = j - F + 1
    BY <1>1
  <2>2. CASE Array!Fits(off, count)
    <3>1. data'[j - 1] = IF j - F + 1 \in Array!Good(vals) THEN Array!Stored(vals[j - F + 1])
                         ELSE data[j - 1]
      BY <1>1, <2>1, <2>2 DEF Array!Set
    <3> QED BY <1>1, <1>4, <1>5, <2>2, <3>1, StoresReduced
  <2>3. CASE ~Array!Fits(off, count)
    BY <1>4, <2>3
  <2> QED BY <2>2, <2>3
<1>7. (r = <<>>) <=> In = DOMAIN vals
  <2>1. <<Bad>> # <<>>
    OBVIOUS
  <2>2. DOMAIN vals # {}
    <3>1. 1 \in 1..count
      OBVIOUS
    <3> QED BY <1>2, <3>1
  <2>3. CASE Array!Fits(off, count)
    BY <1>4, <2>1, <2>3 DEF Array!Ended
  <2>4. CASE ~Array!Fits(off, count)
    BY <1>4, <2>1, <2>2, <2>4
  <2> QED BY <2>3, <2>4
<1>8. len' \in 0..cap
  <2>1. CASE op = "append" /\ r = <<>>
    <3>1. In # {}
      <4>1. 1 \in 1..count
        OBVIOUS
      <4> QED BY <1>2, <1>7, <2>1, <4>1
    <3>2. Array!Fits(off, count)
      BY <1>4, <3>1
    <3>3. F = len + 1
      BY <1>1, <2>1 DEF Array!From
    <3> QED BY <1>1, <1>3, <2>1, <3>2, <3>3
  <2>2. CASE ~(op = "append" /\ r = <<>>)
    BY <1>1, <2>2
  <2> QED BY <2>1, <2>2
<1>9. /\ array_call'.op = op /\ array_call'.args[1] = i
      /\ array_call'.args[2] = vals /\ array_call'.res = r
  BY DEF Array!Called
<1>10. op \notin {"get", "pairs"}
  OBVIOUS
<1>11. DOMAIN vals = 1..count /\ Len(vals) = count
  BY <1>2
<1>12. Array!SetsElements(op, F, vals, r)
  <2>1. ASSUME NEW j \in 1..cap
        PROVE  Array!After[j] = IF j - F + 1 \in In THEN Array!Reduced(vals[j - F + 1])
                                ELSE Array!Before[j]
    BY <1>6 DEF Array!After, Array!Before
  <2>2. len' = len + (IF op = "append" /\ r = <<>> THEN Len(vals) ELSE 0)
    BY <1>11
  <2> HIDE DEF F
  <2> QED BY ONLY <1>7, <2>1, <2>2 DEF Array!SetsElements, In
<1> HIDE DEF F
<1>13. F = Array!From(i)
  BY DEF F
<1> QED BY <1>8, <1>9, <1>10, <1>12, <1>13 DEF Array!ActsOnElements

\* The other calls leave the elements alone.
LEMMA ArrayLen == ASSUME ArrayInv, NEW new \in Int, Array!array_len(new)
                  PROVE  Array!ActsOnElements
<1>1. array_call'.op = "len" /\ len' \in 0..cap
  BY DEF ArrayInv, Array!array_len, Array!Called
<1> QED BY <1>1 DEF Array!ActsOnElements

LEMMA ArrayPairs == ASSUME ArrayInv, Array!array___pairs PROVE Array!ActsOnElements
<1> DEFINE res == [k \in 1..len |-> <<Array!get(data[k - 1])>>]
<1>1. array_call'.op = "pairs" /\ array_call'.res = res /\ len' = len
  BY DEF Array!array___pairs, Array!Called
<1>2. len \in Nat /\ len' \in 0..cap
  BY <1>1 DEF ArrayInv
<1>3. Len(res) = len /\ \A k \in 1..len : res[k] = <<Array!get(data[k - 1])>>
  <2> DEFINE S == {<<Array!get(data[k - 1])>> : k \in 1..len}
  <2>1. res \in [1..len -> S]
    OBVIOUS
  <2>2. \A k \in 1..len : res[k] = <<Array!get(data[k - 1])>>
    OBVIOUS
  <2> HIDE DEF res, S
  <2>3. Len(res) = len
    BY <1>2, <2>1
  <2> QED BY <2>2, <2>3
<1> HIDE DEF res
<1>4. \A k \in 1..len : res[k] = <<Array!Before[k]>>
  BY <1>2, <1>3 DEF ArrayInv, Array!Before
<1> QED BY <1>1, <1>2, <1>3, <1>4 DEF Array!ActsOnElements

LEMMA ArrayGet == ASSUME ArrayInv, NEW i \in Int, NEW count \in Nat, Array!array_get(i, count)
                  PROVE  Array!ActsOnElements
<1> DEFINE F == Array!From(i)
           res == [k \in 1..count |-> IF F + k - 1 \in 1..len
                                      THEN <<Array!get(data[F + k - 1 - 1])>> ELSE <<>>]
<1>1. F \in Int /\ Array!check_offset(i) = F - 1 /\ len \in Nat
  BY OffsetIs DEF ArrayInv
<1>2. /\ array_call'.op = "get" /\ array_call'.args[1] = i /\ len' = len
      /\ array_call'.res = [k \in 1..count |-> IF (F - 1) + k - 1 \in 0..(len - 1)
                                               THEN <<Array!get(data[(F - 1) + k - 1])>> ELSE <<>>]
  BY <1>1 DEF Array!array_get, Array!Called
<1> HIDE DEF F
<1>3. \A k \in 1..count : /\ (F - 1) + k - 1 = F + k - 1 - 1
                          /\ (F - 1) + k - 1 \in 0..(len - 1) <=> F + k - 1 \in 1..len
  BY <1>1
<1>4. array_call'.res = res
  BY <1>2, <1>3
<1>5. DOMAIN res = 1..count
      /\ \A k \in 1..count : res[k] = IF F + k - 1 \in 1..len
                                      THEN <<Array!get(data[F + k - 1 - 1])>> ELSE <<>>
  OBVIOUS
<1> HIDE DEF res
<1>6. len' \in 0..cap
  BY <1>2 DEF ArrayInv
<1>7. Array!GetsElements(F, res)
  <2>1. ASSUME NEW k \in 1..count, F + k - 1 \in 1..len
        PROVE  Array!Before[F + k - 1] = Array!get(data[F + k - 1 - 1])
    BY <1>1, <2>1 DEF ArrayInv, Array!Before
  <2> QED BY <1>5, <2>1 DEF Array!GetsElements
<1>8. F = Array!From(i)
  BY DEF F
<1> QED BY <1>2, <1>4, <1>6, <1>7, <1>8 DEF Array!ActsOnElements

\* A tuple of arguments is a function on their positions.
LEMMA TupleIs ==
    ASSUME NEW S, NEW v \in S, NEW w \in S
    PROVE  /\ <<v>> \in [1..1 -> S] /\ Len(<<v>>) = 1
           /\ <<v, w>> \in [1..2 -> S] /\ Len(<<v, w>>) = 2
<1>1. <<v>> = [k \in 1..1 |-> v] /\ Len(<<v>>) = 1
  OBVIOUS
<1>2. <<v, w>> = [k \in 1..2 |-> IF k = 1 THEN v ELSE w] /\ Len(<<v, w>>) = 2
  OBVIOUS
<1> QED BY <1>1, <1>2

LEMMA ArraySet ==
    ASSUME ArrayInv, NEW i \in Int, NEW count \in Nat \ {0}, NEW vals \in [1..count -> Array!Args],
           Array!array_set(i, vals)
    PROVE  Array!ActsOnElements
<1> DEFINE off == Array!check_offset(i)
           r == IF Array!Fits(off, count) THEN Array!Ended(vals) ELSE <<Bad>>
<1>1. Len(vals) = count /\ off = Array!From(i) - 1
  BY OffsetIs
<1>2. /\ IF Array!Fits(off, count) THEN Array!Set(off, vals) ELSE data' = data
      /\ Array!Called("set", <<i, vals>>, r) /\ len' = len
  BY <1>1 DEF Array!array_set
<1>3. len' = len + 0
  BY <1>2 DEF ArrayInv
<1> HIDE DEF off
<1>4. /\ IF Array!Fits(off, count) THEN Array!Set(off, vals) /\ r = Array!Ended(vals)
         ELSE data' = data /\ r = <<Bad>>
      /\ Array!Called("set", <<i, vals>>, r)
  BY <1>2
<1> HIDE DEF r
<1> DEFINE op == "set"
<1>5. /\ op \in {"set", "fill", "append"} /\ (op = "append" => i = len + 1)
      /\ len' = len + (IF op = "append" /\ r = <<>> THEN count ELSE 0)
      /\ Array!Called(op, <<i, vals>>, r)
  BY <1>3, <1>4
<1> HIDE DEF op
<1> QED BY <1>1, <1>4, <1>5, ArraySets

LEMMA ArrayFill ==
    ASSUME ArrayInv, NEW i \in Int, NEW count \in Nat \ {0}, NEW v \in Array!Args,
           Array!array_fill(v, i, count)
    PROVE  Array!ActsOnElements
<1> DEFINE off == Array!check_offset(i)  vals == [k \in 1..count |-> v]
           r == IF Array!Fits(off, count) THEN Array!Ended(vals) ELSE <<Bad>>
<1>1. vals \in [1..count -> Array!Args] /\ off = Array!From(i) - 1
  BY OffsetIs
<1>2. /\ IF Array!Fits(off, count) THEN Array!Set(off, vals) ELSE data' = data
      /\ Array!Called("fill", <<i, vals>>, r) /\ len' = len
  BY DEF Array!array_fill
<1>3. len' = len + 0
  BY <1>2 DEF ArrayInv
<1> HIDE DEF off, vals
<1>4. /\ IF Array!Fits(off, count) THEN Array!Set(off, vals) /\ r = Array!Ended(vals)
         ELSE data' = data /\ r = <<Bad>>
      /\ Array!Called("fill", <<i, vals>>, r)
  BY <1>2
<1> HIDE DEF r
<1> DEFINE op == "fill"
<1>5. /\ op \in {"set", "fill", "append"} /\ (op = "append" => i = len + 1)
      /\ len' = len + (IF op = "append" /\ r = <<>> THEN count ELSE 0)
      /\ Array!Called(op, <<i, vals>>, r)
  BY <1>3, <1>4
<1> HIDE DEF op
<1> QED BY <1>1, <1>4, <1>5, ArraySets

LEMMA ArrayAppend ==
    ASSUME ArrayInv, NEW count \in Nat \ {0}, NEW vals \in [1..count -> Array!Args],
           Array!array_append(vals)
    PROVE  Array!ActsOnElements
<1> DEFINE off == len  i == len + 1
           r == IF Array!Fits(off, count) THEN Array!Ended(vals) ELSE <<Bad>>
<1>1. Len(vals) = count /\ i \in Int /\ off = Array!From(i) - 1 /\ len \in Nat /\ cap \in Nat
  <2>1. len \in Nat /\ cap \in Nat
    BY DEF ArrayInv
  <2> QED BY <2>1 DEF Array!From
<1>2. Array!Fits(off, count) <=> ~(len + Len(vals) > cap)
  BY <1>1 DEF Array!Fits
<1>3. <<Bad>> # <<>>
  OBVIOUS
<1>4. /\ IF Array!Fits(off, count) THEN Array!Set(off, vals) ELSE data' = data
      /\ Array!Called("append", <<i, vals>>, r)
      /\ len' = len + (IF r = <<>> THEN count ELSE 0)
  <2>1. CASE Array!Fits(off, count)
    BY <1>1, <1>2, <2>1 DEF Array!array_append
  <2>2. CASE ~Array!Fits(off, count)
    BY <1>1, <1>2, <1>3, <2>2 DEF Array!array_append
  <2> QED BY <2>1, <2>2
<1> HIDE DEF off
<1>5. /\ IF Array!Fits(off, count) THEN Array!Set(off, vals) /\ r = Array!Ended(vals)
         ELSE data' = data /\ r = <<Bad>>
      /\ i = len + 1
  BY <1>4
<1> HIDE DEF r, i
<1> DEFINE op == "append"
<1>6. /\ op \in {"set", "fill", "append"} /\ (op = "append" => i = len + 1)
      /\ len' = len + (IF op = "append" /\ r = <<>> THEN count ELSE 0)
      /\ Array!Called(op, <<i, vals>>, r)
  BY <1>4, <1>5
<1> HIDE DEF op
<1> QED BY <1>1, <1>5, <1>6, ArraySets

LEMMA ArrayActs == ASSUME ArrayInv, Array!Next PROVE Array!ActsOnElements
<1>0. /\ \A i \in -1..(MaxArray + 1) : i \in Int
      /\ \A i \in -2..(MaxArray + 1) : i \in Int
      /\ \A count \in 0..2 : count \in Nat
      /\ cap \in Nat \ {0} /\ 1 \in Int /\ 2 \in Nat \ {0} /\ 1 \in Nat \ {0}
  BY DataAssumption DEF ArrayInv
<1>1. CASE Array!array___pairs
  BY <1>1, ArrayPairs
<1>2. CASE \E i \in -1..(MaxArray + 1) : Array!array_len(i)
  BY <1>0, <1>2, ArrayLen
<1>3. CASE \E i \in -2..(MaxArray + 1), count \in 0..2 : Array!array_get(i, count)
  BY <1>0, <1>3, ArrayGet
<1>4. ASSUME NEW i \in -2..(MaxArray + 1), NEW v \in Array!Args,
             \/ Array!array_set(i, <<v>>) \/ \E w \in Array!Args : Array!array_set(i, <<v, w>>)
             \/ i # 0 /\ Array!array_fill(v, i, 2)
             \/ Array!array_fill(v, 1, cap)
             \/ Array!array_append(<<v, v>>)
      PROVE  Array!ActsOnElements
  <2>1. CASE Array!array_set(i, <<v>>)
    BY <1>0, <2>1, TupleIs, ArraySet
  <2>2. CASE \E w \in Array!Args : Array!array_set(i, <<v, w>>)
    BY <1>0, <2>2, TupleIs, ArraySet
  <2>3. CASE Array!array_fill(v, i, 2)
    BY <1>0, <2>3, ArrayFill
  <2>4. CASE Array!array_fill(v, 1, cap)
    BY <1>0, <2>4, ArrayFill
  <2>5. CASE Array!array_append(<<v, v>>)
    BY <1>0, <2>5, TupleIs, ArrayAppend
  <2> QED BY <1>4, <2>1, <2>2, <2>3, <2>4, <2>5
<1> QED BY <1>1, <1>2, <1>3, <1>4 DEF Array!Next

LEMMA ArrayCalls == ASSUME Array!Next PROVE array_call'.op # "new"
<1>1. ASSUME Array!array___pairs PROVE array_call'.op # "new"
  BY <1>1 DEF Array!array___pairs, Array!Called
<1>2. ASSUME NEW i, Array!array_len(i) PROVE array_call'.op # "new"
  BY <1>2 DEF Array!array_len, Array!Called
<1>3. ASSUME NEW i, NEW count, Array!array_get(i, count) PROVE array_call'.op # "new"
  BY <1>3 DEF Array!array_get, Array!Called
<1>4. ASSUME NEW i, NEW vals, Array!array_set(i, vals) PROVE array_call'.op # "new"
  BY <1>4 DEF Array!array_set, Array!Called
<1>5. ASSUME NEW v, NEW i, NEW count, Array!array_fill(v, i, count) PROVE array_call'.op # "new"
  BY <1>5 DEF Array!array_fill, Array!Called
<1>6. ASSUME NEW vals, Array!array_append(vals) PROVE array_call'.op # "new"
  BY <1>6 DEF Array!array_append, Array!Called
<1> QED BY <1>1, <1>2, <1>3, <1>4, <1>5, <1>6 DEF Array!Next

-----------------------------------------------------------------------------
(* The models side by side. *)

\* Of the handles that were opened in its present mount, littlefs knows just
\* those that are open, and it asks for nothing beyond the end of the device, for
\* any paths, handles and sizes: mounts, unmounts, resets, formats that fail,
\* growth, and calls with handles of earlier mounts included (mlua.fs.lfs.c).
THEOREM FilesCorrect == SpecAll => []FilesAreListed
<1> DEFINE Inv == which = "lfs" => LfsInv
<1>1. InitAll => Inv
  BY LfsInit DEF InitAll
<1>2. Inv /\ [NextAll]_all => Inv'
  BY LfsStep, ModelMoves
<1>3. Inv => FilesAreListed
  <2> SUFFICES ASSUME LfsInv, which = "lfs" PROVE Lfs!ListedWhileOpen /\ Lfs!StaysInDevice
    BY DEF FilesAreListed
  <2>1. \A count \in {blocks, disk.count, config} : count * BlockSize <= DevSize
    BY DEF LfsInv, LfsSizeInv, FitsDevice
  <2> QED BY <2>1 DEF LfsInv, LfsHandleInv, LfsSizeInv, Lfs!StaysInDevice
<1> QED BY <1>1, <1>2, <1>3, PTL DEF SpecAll

\* A module that is given to require() is the whole content of one file, and
\* no file stays open, for any search path and any content, wherever a read
\* fails (mlua.fs.loader.c).
THEOREM LoaderCorrect == SpecAll => []LoadsWholeFile
<1> DEFINE Inv == which = "loader" => LoaderInv
<1>1. InitAll => Inv
  BY LoaderInit DEF InitAll
<1>2. Inv /\ [NextAll]_all => Inv'
  BY LoaderStep, ModelMoves
<1>3. Inv => LoadsWholeFile
  BY DEF LoaderInv, LoadsWholeFile
<1> QED BY <1>1, <1>2, <1>3, PTL DEF SpecAll

\* A call on a list does to its elements, nil included, what it would do to a
\* sequence, and returns what it would of one, for lists of any length and any
\* values: tables whose length is not recorded, positions out of range and a sort
\* of any order included.  The exception is remove() with the position after the
\* last element: it cuts this off and leaves it beyond the length, and no other
\* call leaves an element there (mlua.list.c).
THEOREM ListCorrect == SpecAll => ListActsOnSequence
<1> DEFINE Inv == which = "list" => ListInv
           Acts == which = "list" => List!ActsOnSequence
<1>1. InitAll => Inv
  BY ListInit DEF InitAll
<1>2. Inv /\ [NextAll]_all => Inv' /\ [Acts]_list
  <2> SUFFICES ASSUME Inv, [NextAll]_all PROVE Inv' /\ [Acts]_list
    OBVIOUS
  <2>1. CASE which # "list"
    BY <2>1, ModelMoves
  <2>2. CASE which = "list" /\ UNCHANGED list
    BY <2>2, ListSame, ModelMoves DEF list
  <2>3. CASE which = "list" /\ List!Next
    BY <2>3, ListActs, ModelMoves
  <2> QED BY <2>1, <2>2, <2>3, ModelMoves
<1>3. SpecAll => [][Acts]_list
  BY <1>1, <1>2, PTL DEF SpecAll
<1> QED BY <1>3 DEF ListActsOnSequence

\* A call on an array of fixed-size integers reads and writes just the elements
\* that it names, each kept modulo its width, and is refused when one of them
\* is out of the array, for any width of an element and any capacity: counts
\* from the end, elements past the length and calls of several values included
\* (mlua.array.c).
THEOREM ArrayCorrect == SpecAll => ArrayActsOnElements
<1> DEFINE Inv == which = "array" => (array_call.op = "new" => ArrayInv)
           Acts == which = "array" => Array!ActsOnElements
<1>1. InitAll => Inv
  BY ArrayInit DEF InitAll
<1>2. Inv /\ [NextAll]_all => Inv' /\ [Acts]_array
  <2> SUFFICES ASSUME Inv, [NextAll]_all PROVE Inv' /\ [Acts]_array
    OBVIOUS
  <2>1. CASE which # "array"
    BY <2>1, ModelMoves
  <2>2. CASE which = "array" /\ UNCHANGED array
    BY <2>2, ModelMoves DEF array, ArrayInv, Array!Offsets
  <2>3. CASE which = "array" /\ Array!Next
    BY <2>3, ArrayActs, ArrayCalls, ModelMoves DEF Array!Next
  <2> QED BY <2>1, <2>2, <2>3, ModelMoves
<1>3. SpecAll => [][Acts]_array
  BY <1>1, <1>2, PTL DEF SpecAll
<1> QED BY <1>3 DEF ArrayActsOnElements
=============================================================================
