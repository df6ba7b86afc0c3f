---------------------------- MODULE ThreadProofs ----------------------------
(***************************************************************************)
(* The invariants of ThreadScheduler, and ThreadLists: the linked lists of *)
(* mlua.thread.c are well formed, and implement the queue and the timers   *)
(* of the scheduler, for any number of threads.                            *)
(***************************************************************************)
EXTENDS MCThreads, QueueOpsProofs

-----------------------------------------------------------------------------
(* ThreadScheduler. *)

\* JoinersRegistered says nothing of a thread in join() that was resumed and
\* has not run yet.  It must still be registered, or the thread it joins must
\* be dead already, since JoinAgain does not register it again.
JoinInv ==
    \A t \in Threads : target[t] # NULL =>
        /\ Alive(t)
        /\ \/ Alive(target[t]) /\ t \in joiners[target[t]]
           \/ state[target[t]] = "dead" /\ state[t] = "active"

\* There is a running thread only between the call of main() and its return.
RunInv == /\ pc = "boot" => running = NULL
          /\ pc = "run" => running # NULL

\* The first part does not depend on what joiners holds.
SInv == TypeOK /\ QueueHoldsActive /\ RunInv

IInv == SInv /\ JoinInv

\* A step that keeps it, and JoinInv also if it holds.
Kept == SInv' /\ (JoinInv => JoinInv')

-----------------------------------------------------------------------------
\* Facts about the running thread that the steps below need.
LEMMA CallsFacts ==
  ASSUME TypeOK, QueueHoldsActive, NEW r \in Threads, Runs(r)
  PROVE  /\ state[r] = "active"
         /\ r \notin Elements(active)
         /\ running = r
         /\ pc = "run"
         /\ r # NULL
<1>1. running = r /\ pc = "run"
  BY DEF Runs
<1>2. r # NULL
  BY ThreadsAssumption
<1> QED BY <1>1, <1>2 DEF QueueHoldsActive

\* A thread becomes active and goes to the end of the queue.
LEMMA ActivatePreserves ==
  ASSUME SInv, NEW t \in Threads, state[t] # "active",
         state[t] # "dead",
         state' = [state EXCEPT ![t] = "active"],
         active' = Append(active, t),
         UNCHANGED <<deadline, running, pc, target, joiners, now>>
  PROVE  Kept
<1> USE DEF SInv, Kept
<1>1. t \notin Elements(active) /\ t # running
  <2>1. t # NULL
    BY ThreadsAssumption
  <2> QED BY <2>1 DEF QueueHoldsActive
<1>2. /\ active' \in Seq(Threads)
      /\ Distinct(active')
      /\ Elements(active') = Elements(active) \cup {t}
  BY <1>1, AppendNew DEF TypeOK, QueueHoldsActive
<1>3. TypeOK'
  BY <1>2 DEF TypeOK, States
<1>4. QueueHoldsActive'
  <2>1. running' \notin Elements(active')
    BY <1>1, <1>2 DEF QueueHoldsActive
  <2>2. \A u \in Threads : state'[u] = "active" <=> u = t \/ state[u] = "active"
    BY DEF TypeOK
  <2> QED BY <1>2, <2>1, <2>2 DEF QueueHoldsActive
<1>5. RunInv'
  BY DEF RunInv
<1>6. JoinInv => JoinInv'
  BY ThreadsAssumption DEF JoinInv, Alive, Waiting, TypeOK
<1> QED BY <1>3, <1>4, <1>5, <1>6

\* A thread dies, other than the running one or with it.
LEMMA DiePreserves ==
  ASSUME SInv, NEW t \in Threads, Alive(t), Die(t),
         \/ t # running /\ running' = running /\ pc' = pc
         \/ t = running /\ running' = NULL /\ pc' = "dispatch"
  PROVE  Kept
<1> USE DEF SInv, Kept
<1> DEFINE woken == {j \in joiners[t] : Waiting(j) /\ j # t}
<1>1. /\ woken \subseteq Threads
      /\ IsFiniteSet(woken)
      /\ \A u \in woken : state[u] # "active" /\ u \notin Elements(active)
  <2>1. woken \subseteq Threads
    BY DEF TypeOK
  <2>2. IsFiniteSet(woken)
    BY <2>1, ThreadsAssumption, FS_Subset
  <2>3. \A u \in woken : state[u] # "active"
    BY DEF Waiting
  <2>4. Elements(active) \subseteq {u \in Threads : state[u] = "active"}
    BY DEF QueueHoldsActive
  <2> QED BY <2>1, <2>2, <2>3, <2>4
<1>2. PICK order \in Orders(woken) : active' = Without(active, t) \o order
  BY DEF Die
<1>3. /\ state' = [u \in Threads |-> IF u = t THEN "dead"
                                     ELSE IF u \in woken THEN "active"
                                     ELSE state[u]]
      /\ joiners' = [joiners EXCEPT ![t] = {}]
      /\ target' = [target EXCEPT ![t] = NULL]
      /\ UNCHANGED <<deadline, now>>
  BY DEF Die
<1> HIDE DEF woken
<1>4. /\ order \in Seq(woken) /\ order \in Seq(Threads)
      /\ Distinct(order) /\ Elements(order) = woken
  BY <1>1, <1>2, OrderElements
<1>5. /\ Without(active, t) \in Seq(Threads)
      /\ Distinct(Without(active, t))
      /\ Elements(Without(active, t)) = Elements(active) \ {t}
  BY WithoutElement DEF TypeOK, QueueHoldsActive
<1>6. /\ active' \in Seq(Threads)
      /\ Distinct(active')
      /\ Elements(active') = (Elements(active) \ {t}) \cup woken
  BY <1>1, <1>2, <1>4, <1>5, ConcatDisjoint
<1>7. TypeOK'
  BY <1>3, <1>6 DEF TypeOK, States, Locations
<1>8. QueueHoldsActive'
  <2>1. \A u \in Threads : state'[u] = "active" <=>
           u # t /\ (u \in woken \/ state[u] = "active")
    BY <1>3
  <2>2. t \notin woken
    BY DEF woken
  <2>3. running' \notin Elements(active')
    <3>1. CASE running' = running /\ t # running
      <4>1. running = NULL \/ state[running] = "active"
        BY DEF QueueHoldsActive, TypeOK
      <4> QED BY <1>1, <1>6, <3>1, <4>1, ThreadsAssumption DEF QueueHoldsActive
    <3>2. CASE running' = NULL
      <4>1. NULL \notin Elements(active')
        BY <1>1, <1>6, ThreadsAssumption DEF QueueHoldsActive
      <4> QED BY <3>2, <4>1
    <3> QED BY <3>1, <3>2
  <2>4. Elements(active') \cup ({running'} \ {NULL})
           = {u \in Threads : state'[u] = "active"}
    BY <1>1, <1>6, <2>1, <2>2, ThreadsAssumption DEF QueueHoldsActive
  <2> QED BY <1>6, <2>3, <2>4 DEF QueueHoldsActive
<1>9. RunInv'
  BY DEF RunInv
<1>10. ASSUME JoinInv PROVE JoinInv'
  <2> USE <1>10
  <2> SUFFICES ASSUME NEW u \in Threads, target'[u] # NULL
               PROVE  /\ Alive(u)'
                      /\ \/ Alive(target[u])' /\ u \in joiners'[target'[u]]
                         \/ state'[target'[u]] = "dead" /\ state'[u] = "active"
    BY DEF JoinInv
  <2>1. u # t /\ target'[u] = target[u] /\ target[u] # NULL
    BY <1>3 DEF TypeOK
  <2>2. target[u] \in Threads
    BY <2>1 DEF TypeOK
  <2>3. Alive(u)'
    BY <1>3, <2>1 DEF JoinInv, Alive, Waiting
  <2>4. CASE target[u] = t
    <3>1. u \in joiners[t]
      BY <2>1, <2>4 DEF JoinInv, Alive, Waiting
    <3>2. state'[u] = "active"
      BY <1>3, <2>1, <3>1 DEF JoinInv, Alive, woken
    <3> QED BY <1>3, <2>1, <2>3, <2>4, <3>2
  <2>5. CASE target[u] # t
    <3> DEFINE v == target[u]
    <3>1. v \in Threads /\ v # t /\ target'[u] = v
      BY <2>1, <2>2, <2>5
    <3>2. joiners'[v] = joiners[v]
      BY <1>3, <3>1 DEF TypeOK
    <3>3. state'[v] = IF v \in woken THEN "active" ELSE state[v]
      BY <1>3, <3>1
    <3>4. state'[u] = IF u \in woken THEN "active" ELSE state[u]
      BY <1>3, <2>1
    <3>5. CASE Alive(v) /\ u \in joiners[v]
      BY <2>3, <3>1, <3>2, <3>3, <3>5 DEF Alive, Waiting
    <3>6. CASE state[v] = "dead" /\ state[u] = "active"
      <4>1. v \notin woken /\ u \notin woken
        BY <3>6 DEF woken, Waiting
      <4> QED BY <2>3, <3>1, <3>3, <3>4, <3>6, <4>1
    <3> QED BY <2>1, <3>5, <3>6 DEF JoinInv
  <2> QED BY <2>4, <2>5
<1> QED BY <1>7, <1>8, <1>9, <1>10

\* The running thread waits.
LEMMA BlockPreserves ==
  ASSUME SInv, NEW r \in Threads, Runs(r),
         NEW newState \in {"suspended", "timer"}, Block(r, newState)
  PROVE  /\ active' \in Seq(Threads)
         /\ state' = [state EXCEPT ![r] = newState]
         /\ running' = NULL /\ pc' = "dispatch" /\ now' = now
         /\ QueueHoldsActive'
         /\ RunInv'
<1> USE DEF SInv, Kept
<1>1. /\ state' = [state EXCEPT ![r] = newState]
      /\ running' = NULL /\ pc' = "dispatch" /\ active' = active /\ now' = now
  BY DEF Block
<1>2. /\ state[r] = "active" /\ r \notin Elements(active) /\ running = r
  BY CallsFacts
<1>3. NULL \notin Elements(active)
  BY ThreadsAssumption DEF QueueHoldsActive
<1>4. {t \in Threads : state'[t] = "active"}
         = {t \in Threads : state[t] = "active"} \ {r}
  BY <1>1 DEF TypeOK
<1>5. QueueHoldsActive'
  BY <1>1, <1>2, <1>3, <1>4, ThreadsAssumption DEF QueueHoldsActive
<1>6. RunInv'
  BY <1>1 DEF RunInv
<1> QED BY <1>1, <1>5, <1>6 DEF TypeOK

\* The scheduler picks the next thread to run.
LEMMA SchedulePreserves ==
  ASSUME SInv, Schedule
  PROVE  Kept
<1> USE DEF SInv, Kept
<1> DEFINE expired == {t \in Threads : state[t] = "timer" /\ deadline[t] <= now}
           yielded == IF running = NULL THEN <<>> ELSE <<running>>
<1>1. PICK order \in Orders(expired) :
         /\ active \o order \o yielded # <<>>
         /\ running' = Head(active \o order \o yielded)
         /\ active' = Tail(active \o order \o yielded)
  BY DEF Schedule
<1>2. /\ state' = [t \in Threads |-> IF t \in expired THEN "active" ELSE state[t]]
      /\ pc' = "run"
      /\ UNCHANGED <<deadline, target, joiners, now>>
  BY DEF Schedule
<1>3. /\ expired \subseteq Threads /\ IsFiniteSet(expired)
      /\ \A t \in expired : state[t] = "timer"
  BY ThreadsAssumption, FS_Subset
<1> HIDE DEF expired
<1>4. /\ order \in Seq(expired) /\ order \in Seq(Threads)
      /\ Distinct(order) /\ Elements(order) = expired
  BY <1>1, <1>3, OrderElements
<1>5. /\ yielded \in Seq(Threads)
      /\ Distinct(yielded)
      /\ Elements(yielded) = {running} \ {NULL}
  BY DEF TypeOK, Distinct, Elements
<1> HIDE DEF yielded
<1>6. /\ Elements(active) \cap expired = {}
      /\ Elements(active) \cap Elements(yielded) = {}
      /\ expired \cap Elements(yielded) = {}
  <2>1. Elements(active) \cup Elements(yielded)
           = {t \in Threads : state[t] = "active"}
    BY <1>5 DEF QueueHoldsActive
  <2>2. Elements(active) \cap Elements(yielded) = {}
    BY <1>5 DEF QueueHoldsActive
  <2> QED BY <1>3, <2>1, <2>2
<1> DEFINE front == active \o order
           queue == front \o yielded
<1>7. /\ front \in Seq(Threads) /\ Distinct(front)
      /\ Elements(front) = Elements(active) \cup expired
  BY <1>4, <1>6, ConcatDisjoint DEF TypeOK, QueueHoldsActive
<1> HIDE DEF front
<1>8. /\ queue \in Seq(Threads) /\ Distinct(queue)
      /\ Elements(queue) = Elements(active) \cup expired \cup Elements(yielded)
  BY <1>5, <1>6, <1>7, ConcatDisjoint
<1>9. queue # <<>> /\ running' = Head(queue) /\ active' = Tail(queue)
  BY <1>1 DEF front
<1> HIDE DEF queue
<1>10. /\ running' \in Threads /\ active' \in Seq(Threads)
       /\ Distinct(active') /\ running' \notin Elements(active')
       /\ Elements(queue) = Elements(active') \cup {running'}
  BY <1>8, <1>9, HeadAndTail
<1>11. \A t \in Threads : state'[t] = "active" <=>
          t \in expired \/ state[t] = "active"
  BY <1>2
<1>12. running' # NULL
  BY <1>10, ThreadsAssumption
<1>13. TypeOK'
  BY <1>2, <1>10 DEF TypeOK, States, Locations
<1>14. QueueHoldsActive'
  <2>1. Elements(active') \cup ({running'} \ {NULL})
           = {t \in Threads : state'[t] = "active"}
    BY <1>3, <1>5, <1>8, <1>10, <1>11, <1>12 DEF QueueHoldsActive
  <2> QED BY <1>10, <2>1 DEF QueueHoldsActive
<1>15. RunInv'
  BY <1>2, <1>12 DEF RunInv
<1>16. JoinInv => JoinInv'
  BY <1>2, <1>3 DEF JoinInv, Alive, Waiting, TypeOK
<1> QED BY <1>13, <1>14, <1>15, <1>16

-----------------------------------------------------------------------------
\* One step of the scheduler preserves the invariant: one case per action.
LEMMA StepPreserves ==
  ASSUME SInv, [Next]_vars
  PROVE  Kept
<1> USE DEF SInv, Kept
<1>1. ASSUME NEW t \in Threads, Start(t) PROVE Kept
  BY <1>1, ActivatePreserves DEF Start
<1>2. ASSUME NEW t \in Threads, Resume(t) PROVE Kept
  BY <1>2, ActivatePreserves DEF Resume, Waiting
<1>3. ASSUME NEW t \in Threads, WatcherResumed(t) PROVE Kept
  BY <1>3, ActivatePreserves DEF WatcherResumed, Waiting
<1>4. ASSUME NEW r \in Threads, NEW t \in Threads, Kill(r, t) PROVE Kept
  BY <1>4, DiePreserves DEF Kill, Calls, Runs
<1>5. ASSUME NEW r \in Threads, Terminate(r) PROVE Kept
  <2>1. Alive(r) /\ r = running
    BY <1>5, CallsFacts DEF Terminate, Calls, Alive
  <2> QED BY <1>5, <2>1, DiePreserves DEF Terminate
<1>6. ASSUME NEW r \in Threads, Yield(r) PROVE Kept
  <2>1. pc' = "dispatch"
        /\ UNCHANGED <<state, deadline, active, running, target, joiners, now>>
    BY <1>6 DEF Yield
  <2> QED BY <2>1 DEF TypeOK, Locations, QueueHoldsActive, RunInv, JoinInv,
                     Alive, Waiting
<1>7. ASSUME NEW r \in Threads, Suspend(r) PROVE Kept
  <2>1. Runs(r) /\ target[r] = NULL /\ state[r] = "active"
    BY <1>7, CallsFacts DEF Suspend, Calls
  <2>2. /\ state' = [state EXCEPT ![r] = "suspended"]
        /\ active' \in Seq(Threads)
        /\ running' = NULL /\ pc' = "dispatch"
        /\ QueueHoldsActive' /\ RunInv'
        /\ UNCHANGED <<deadline, target, joiners, now>>
    BY <1>7, <2>1, BlockPreserves DEF Suspend
  <2>3. TypeOK'
    BY <2>2 DEF TypeOK, States, Locations
  <2>4. JoinInv => JoinInv'
    BY <2>1, <2>2 DEF JoinInv, Alive, Waiting, TypeOK
  <2> QED BY <2>2, <2>3, <2>4
<1>8. ASSUME NEW r \in Threads, NEW time \in Time, SuspendUntil(r, time)
      PROVE  Kept
  <2>1. Runs(r) /\ target[r] = NULL /\ state[r] = "active"
    BY <1>8, CallsFacts DEF SuspendUntil, Calls
  <2>2. /\ state' = [state EXCEPT ![r] = "timer"]
        /\ active' \in Seq(Threads)
        /\ running' = NULL /\ pc' = "dispatch" /\ now' = now
        /\ QueueHoldsActive' /\ RunInv'
        /\ deadline' = [deadline EXCEPT ![r] = time]
        /\ UNCHANGED <<target, joiners>>
    BY <1>8, <2>1, BlockPreserves DEF SuspendUntil
  <2>3. TypeOK'
    BY <2>2 DEF TypeOK, States, Locations
  <2>4. JoinInv => JoinInv'
    BY <2>1, <2>2 DEF JoinInv, Alive, Waiting, TypeOK
  <2> QED BY <2>2, <2>3, <2>4
<1>9. ASSUME NEW r \in Threads, NEW t \in Threads, Join(r, t) PROVE Kept
  <2>1. Runs(r) /\ target[r] = NULL /\ Alive(t) /\ state[r] = "active"
    BY <1>9, CallsFacts DEF Join, Calls
  <2>2. /\ state' = [state EXCEPT ![r] = "suspended"]
        /\ active' \in Seq(Threads)
        /\ running' = NULL /\ pc' = "dispatch" /\ now' = now
        /\ QueueHoldsActive' /\ RunInv'
        /\ target' = [target EXCEPT ![r] = t]
        /\ joiners' = [joiners EXCEPT ![t] = @ \cup {r}]
        /\ UNCHANGED deadline
    BY <1>9, <2>1, BlockPreserves DEF Join
  <2>3. TypeOK'
    BY <2>2 DEF TypeOK, States, Locations
  <2>4. JoinInv => JoinInv'
    BY <2>1, <2>2 DEF JoinInv, Alive, Waiting, TypeOK
  <2> QED BY <2>2, <2>3, <2>4
<1>10. ASSUME NEW r \in Threads, JoinAgain(r) PROVE Kept
  <2>1. /\ Runs(r) /\ target[r] # NULL /\ state[r] = "active"
        /\ UNCHANGED <<deadline, joiners>>
    BY <1>10, CallsFacts DEF JoinAgain
  <2>2. CASE state[target[r]] = "dead"
    <3>1. /\ target' = [target EXCEPT ![r] = NULL]
          /\ UNCHANGED <<state, active, running, pc, now>>
      BY <1>10, <2>2 DEF JoinAgain
    <3> QED BY <2>1, <3>1 DEF TypeOK, QueueHoldsActive, RunInv, JoinInv,
                             Alive, Waiting
  <2>3. CASE state[target[r]] # "dead"
    <3>1. /\ state' = [state EXCEPT ![r] = "suspended"]
          /\ active' \in Seq(Threads)
          /\ running' = NULL /\ pc' = "dispatch"
          /\ QueueHoldsActive' /\ RunInv'
          /\ UNCHANGED <<target, now>>
      BY <1>10, <2>1, <2>3, BlockPreserves DEF JoinAgain
    <3>2. TypeOK'
      BY <2>1, <3>1 DEF TypeOK, States, Locations
    <3>3. JoinInv => JoinInv'
      BY <2>1, <2>3, <3>1 DEF JoinInv, Alive, Waiting, TypeOK
    <3> QED BY <3>1, <3>2, <3>3
  <2> QED BY <2>2, <2>3
<1>11. ASSUME NEW r \in Threads, Shutdown(r) PROVE Kept
  <2>1. /\ state' = [t \in Threads |-> IF Alive(t) THEN "dead" ELSE state[t]]
        /\ active' = <<>> /\ running' = NULL /\ pc' = "boot"
        /\ target' = [t \in Threads |-> NULL]
        /\ joiners' = [t \in Threads |-> {}]
        /\ UNCHANGED <<deadline, now>>
    BY <1>11 DEF Shutdown
  <2>2. TypeOK'
    BY <2>1 DEF TypeOK, States, Locations
  <2>3. QueueHoldsActive'
    <3>1. \A t \in Threads : state'[t] # "active"
      BY <2>1 DEF Alive
    <3> QED BY <2>1, <3>1, EmptyQueue DEF QueueHoldsActive
  <2>4. RunInv' /\ (JoinInv => JoinInv')
    BY <2>1 DEF RunInv, JoinInv
  <2> QED BY <2>2, <2>3, <2>4
<1>12. CASE CallMain
  <2>1. pc = "boot" /\ pc' = "dispatch"
        /\ UNCHANGED <<state, deadline, active, running, target, joiners, now>>
    BY <1>12 DEF CallMain
  <2> QED BY <2>1 DEF TypeOK, Locations, QueueHoldsActive, RunInv, JoinInv,
                     Alive, Waiting
<1>13. CASE Schedule
  BY <1>13, SchedulePreserves
<1>14. CASE Tick
  <2>1. now + 1 < MaxTime /\ now' = now + 1
        /\ UNCHANGED <<state, deadline, active, running, pc, target, joiners>>
    BY <1>14 DEF Tick
  <2>2. now' \in Time
    BY <2>1, MaxTimeAssumption DEF TypeOK, Time
  <2> QED BY <2>1, <2>2 DEF TypeOK, QueueHoldsActive, RunInv, JoinInv,
                           Alive, Waiting
<1>15. ASSUME NEW t \in Threads, Collect(t) PROVE Kept
  <2>1. /\ state[t] = "dead"
        /\ \A u \in Threads : target[u] # t /\ t \notin joiners[u]
        /\ state' = [state EXCEPT ![t] = "free"]
        /\ UNCHANGED <<deadline, active, running, pc, target, joiners, now>>
    BY <1>15 DEF Collect
  <2>2. TypeOK'
    BY <2>1 DEF TypeOK, States
  <2>3. \A u \in Threads : state'[u] = "active" <=> state[u] = "active"
    BY <2>1 DEF TypeOK
  <2>4. QueueHoldsActive'
    BY <2>1, <2>3 DEF QueueHoldsActive
  <2>5. RunInv' /\ (JoinInv => JoinInv')
    BY <2>1 DEF RunInv, JoinInv, Alive, Waiting, TypeOK
  <2> QED BY <2>2, <2>4, <2>5
<1>16. CASE UNCHANGED vars
  BY <1>16 DEF vars, TypeOK, QueueHoldsActive, RunInv, JoinInv, Alive, Waiting
<1> QED
  BY <1>1, <1>2, <1>3, <1>4, <1>5, <1>6, <1>7, <1>8, <1>9, <1>10, <1>11,
     <1>12, <1>13, <1>14, <1>15, <1>16 DEF Next

-----------------------------------------------------------------------------
\* The invariant is inductive, hence holds of every behaviour.
THEOREM Invariance == Spec => []IInv
<1>1. Init => IInv
  <2> SUFFICES ASSUME Init PROVE IInv
    OBVIOUS
  <2>1. TypeOK
    BY MaxTimeAssumption DEF Init, TypeOK, States, Locations, Time
  <2>2. QueueHoldsActive
    BY EmptyQueue DEF Init, QueueHoldsActive
  <2>3. RunInv /\ JoinInv
    BY DEF Init, RunInv, JoinInv
  <2> QED BY <2>1, <2>2, <2>3 DEF IInv, SInv
<1>2. IInv /\ [Next]_vars => IInv'
  BY StepPreserves DEF IInv, Kept
<1> QED BY <1>1, <1>2, PTL DEF Spec

\* Type correctness of the scheduler, whatever the threads do.
THEOREM TypeCorrect == Spec => []TypeOK
<1>1. IInv => TypeOK
  BY DEF IInv, SInv
<1> QED BY <1>1, Invariance, PTL

\* Every active thread has exactly one place in the round-robin, for any
\* number of threads.
THEOREM QueueCorrect == Spec => []QueueHoldsActive
<1>1. IInv => QueueHoldsActive
  BY DEF IInv, SInv
<1> QED BY <1>1, Invariance, PTL

\* No thread waits in join() for something that cannot happen any more, for
\* any number of threads and joiners.
THEOREM JoinCorrect == Spec => []JoinersRegistered
<1>1. IInv => JoinersRegistered
  BY DEF IInv, JoinInv, JoinersRegistered, Waiting
<1> QED BY <1>1, Invariance, PTL

-----------------------------------------------------------------------------
(* Sequences, cut and put together. *)

\* The first element of s, or e if there is none.
First(s, e) == IF s = <<>> THEN e ELSE s[1]

LEMMA ConcatIs ==
  ASSUME NEW s \in Seq(Threads), NEW u \in Seq(Threads)
  PROVE  /\ s \o u \in Seq(Threads) /\ Len(s) \in Nat /\ Len(u) \in Nat
         /\ Len(s \o u) = Len(s) + Len(u)
         /\ DOMAIN s = 1..Len(s) /\ DOMAIN u = 1..Len(u)
         /\ DOMAIN (s \o u) = 1..(Len(s) + Len(u))
         /\ \A i \in 1..Len(s) : (s \o u)[i] = s[i] /\ i \in 1..(Len(s) + Len(u))
         /\ \A i \in 1..Len(u) : /\ (s \o u)[Len(s) + i] = u[i]
                                 /\ Len(s) + i \in 1..(Len(s) + Len(u))
         /\ \A i \in 1..(Len(s) + Len(u)) :
               i \in 1..Len(s) \/ \E j \in 1..Len(u) : i = Len(s) + j
<1>1. /\ s \o u \in Seq(Threads) /\ Len(s) \in Nat /\ Len(u) \in Nat
      /\ Len(s \o u) = Len(s) + Len(u)
      /\ \A i \in 1..Len(s) : (s \o u)[i] = s[i] /\ i \in 1..(Len(s) + Len(u))
      /\ \A i \in 1..Len(u) : /\ (s \o u)[Len(s) + i] = u[i]
                              /\ Len(s) + i \in 1..(Len(s) + Len(u))
  OBVIOUS
<1>2. DOMAIN s = 1..Len(s) /\ DOMAIN u = 1..Len(u)
  OBVIOUS
<1>3. DOMAIN (s \o u) = 1..(Len(s) + Len(u))
  BY <1>1
<1>4. ASSUME NEW i \in 1..(Len(s) + Len(u))
      PROVE  i \in 1..Len(s) \/ \E j \in 1..Len(u) : i = Len(s) + j
  <2>1. i \in 1..Len(s) \/ (i - Len(s) \in 1..Len(u) /\ i = Len(s) + (i - Len(s)))
    BY <1>1
  <2> QED BY <2>1
<1> QED BY <1>1, <1>2, <1>3, <1>4

\* The sequence of x alone.
One(x) == <<x>>

LEMMA OneIs ==
  ASSUME NEW x \in Threads
  PROVE  /\ One(x) \in Seq(Threads) /\ One(x) # <<>> /\ Len(One(x)) = 1 /\ One(x)[1] = x
         /\ DOMAIN One(x) = 1..1 /\ 1..1 = {1}
         /\ Distinct(One(x)) /\ Elements(One(x)) = {x}
         /\ \A e : First(One(x), e) = x
<1>1. /\ One(x) \in Seq(Threads) /\ One(x) # <<>> /\ Len(One(x)) = 1 /\ One(x)[1] = x
      /\ DOMAIN One(x) = 1..1 /\ 1..1 = {1}
  BY DEF One
<1> QED BY <1>1 DEF Distinct, Elements, First

LEMMA AppendIs ==
  ASSUME NEW s \in Seq(Threads), NEW x \in Threads
  PROVE  /\ Append(s, x) = s \o One(x) /\ s \o One(x) \in Seq(Threads)
         /\ s \o One(x) # <<>> /\ (s \o One(x))[Len(s \o One(x))] = x
  BY DEF One

\* The empty sequence is the unit.
LEMMA ConcatEmpty ==
  ASSUME NEW s \in Seq(Threads)
  PROVE  s \o <<>> = s /\ <<>> \o s = s /\ <<>> \in Seq(Threads)
  OBVIOUS

Regroup(s, u, v) == (s \o u) \o v = s \o (u \o v)

LEMMA ConcatThree ==
  ASSUME NEW s \in Seq(Threads), NEW u \in Seq(Threads), NEW v \in Seq(Threads)
  PROVE  Regroup(s, u, v)
  BY DEF Regroup

LEMMA FirstConcat ==
  ASSUME NEW s \in Seq(Threads), NEW u \in Seq(Threads), NEW e
  PROVE  First(s \o u, e) = First(s, First(u, e))
<1>1. CASE s = <<>>
  BY <1>1, ConcatEmpty DEF First
<1>2. CASE s # <<>>
  <2>1. 1 \in 1..Len(s)
    BY <1>2
  <2>2. (s \o u)[1] = s[1] /\ s \o u # <<>>
    BY <2>1, ConcatIs
  <2> QED BY <1>2, <2>2 DEF First
<1> QED BY <1>1, <1>2

LEMMA ElementsConcat ==
  ASSUME NEW s \in Seq(Threads), NEW u \in Seq(Threads)
  PROVE  Elements(s \o u) = Elements(s) \cup Elements(u)
<1>1. ASSUME NEW i \in DOMAIN (s \o u) PROVE (s \o u)[i] \in Elements(s) \cup Elements(u)
  <2>1. i \in 1..(Len(s) + Len(u))
    BY ConcatIs
  <2>2. CASE i \in 1..Len(s)
    BY <2>2, ConcatIs DEF Elements
  <2>3. ASSUME NEW j \in 1..Len(u), i = Len(s) + j PROVE (s \o u)[i] \in Elements(u)
    <3>1. (s \o u)[i] = u[j] /\ j \in DOMAIN u
      BY <2>3, ConcatIs
    <3> QED BY <3>1 DEF Elements
  <2>4. i \in 1..Len(s) \/ \E j \in 1..Len(u) : i = Len(s) + j
    BY <2>1, ConcatIs
  <2> QED BY <2>2, <2>3, <2>4
<1>2. ASSUME NEW i \in DOMAIN s PROVE s[i] \in Elements(s \o u)
  <2>1. i \in DOMAIN (s \o u) /\ (s \o u)[i] = s[i]
    BY ConcatIs
  <2> QED BY <2>1 DEF Elements
<1>3. ASSUME NEW i \in DOMAIN u PROVE u[i] \in Elements(s \o u)
  <2>1. Len(s) + i \in DOMAIN (s \o u) /\ (s \o u)[Len(s) + i] = u[i]
    BY ConcatIs
  <2> QED BY <2>1 DEF Elements
<1> QED BY <1>1, <1>2, <1>3 DEF Elements

\* Distinct elements, in both parts and between them.
LEMMA DistinctConcat ==
  ASSUME NEW s \in Seq(Threads), NEW u \in Seq(Threads)
  PROVE  Distinct(s \o u) <=> /\ Distinct(s) /\ Distinct(u)
                              /\ Elements(s) \cap Elements(u) = {}
  BY ConcatDisjoint, ConcatParts

\* Any cut, before and after an element, and before the last.
LEMMA Cut ==
  ASSUME NEW s \in Seq(Threads), NEW n \in 0..Len(s)
  PROVE  /\ SubSeq(s, 1, n) \in Seq(Threads) /\ SubSeq(s, n + 1, Len(s)) \in Seq(Threads)
         /\ s = SubSeq(s, 1, n) \o SubSeq(s, n + 1, Len(s))
         /\ Len(SubSeq(s, 1, n)) = n /\ \A i \in 1..n : SubSeq(s, 1, n)[i] = s[i]
         /\ Len(SubSeq(s, n + 1, Len(s))) = Len(s) - n
         /\ \A i \in 1..(Len(s) - n) : SubSeq(s, n + 1, Len(s))[i] = s[n + i]
<1> DEFINE a == SubSeq(s, 1, n)
           b == SubSeq(s, n + 1, Len(s))
<1>1. Len(s) \in Nat /\ n \in Nat /\ n <= Len(s)
  OBVIOUS
<1>2. a \in Seq(Threads) /\ Len(a) = n /\ \A i \in 1..n : a[i] = s[i]
  BY <1>1, SubSeqProperties
<1>3. b \in Seq(Threads) /\ Len(b) = Len(s) - n /\ \A i \in 1..(Len(s) - n) : b[i] = s[n + i]
  BY <1>1, SubSeqProperties
<1> HIDE DEF a, b
<1> DEFINE w == a \o b
<1>4. /\ Len(w) = Len(s) /\ w \in Seq(Threads)
      /\ \A i \in 1..n : w[i] = a[i]
      /\ \A i \in 1..(Len(s) - n) : w[n + i] = b[i]
  <2>1. /\ w \in Seq(Threads) /\ Len(w) = Len(a) + Len(b)
        /\ \A i \in 1..Len(a) : w[i] = a[i]
        /\ \A i \in 1..Len(b) : w[Len(a) + i] = b[i]
    <3>1. a \in Seq(Threads) /\ b \in Seq(Threads)
      BY <1>2, <1>3
    <3> QED BY ONLY <3>1, ConcatIs DEF w
  <2> HIDE DEF w
  <2>2. Len(a) = n /\ Len(b) = Len(s) - n /\ Len(a) + Len(b) = Len(s)
    BY <1>1, <1>2, <1>3
  <2> QED BY <2>1, <2>2
<1> HIDE DEF w
<1>5. ASSUME NEW i \in 1..Len(s) PROVE w[i] = s[i]
  <2>1. CASE i \in 1..n
    BY <1>2, <1>4, <2>1
  <2>2. CASE i \notin 1..n
    <3>1. i - n \in 1..(Len(s) - n) /\ n + (i - n) = i
      BY <1>1, <2>2
    <3>2. w[n + (i - n)] = s[n + (i - n)]
      BY <1>3, <1>4, <3>1
    <3> QED BY <3>1, <3>2
  <2> QED BY <2>1, <2>2
<1>6. w = s
  BY <1>4, <1>5
<1> QED BY <1>2, <1>3, <1>6 DEF a, b, w

LEMMA CutAt ==
  ASSUME NEW s \in Seq(Threads), NEW x \in Elements(s)
  PROVE  \E u, v \in Seq(Threads) : s = (u \o One(x)) \o v
<1>1. PICK k \in 1..Len(s) : s[k] = x
  BY DEF Elements
<1>2. k \in 0..Len(s) /\ k - 1 \in 0..Len(s) /\ Len(s) \in Nat /\ x \in Threads /\ k \in Nat
  BY <1>1
<1> DEFINE a == SubSeq(s, 1, k)
           v == SubSeq(s, k + 1, Len(s))
<1>3. /\ a \in Seq(Threads) /\ v \in Seq(Threads) /\ s = a \o v
      /\ Len(a) = k /\ \A i \in 1..k : a[i] = s[i]
  BY <1>2, Cut
<1> HIDE DEF a, v
<1>4. k - 1 \in 0..Len(a) /\ k \in 1..Len(a) /\ a[k] = x
  BY <1>1, <1>2, <1>3
<1> DEFINE u == SubSeq(a, 1, k - 1)
           w == SubSeq(a, (k - 1) + 1, Len(a))
<1>5. /\ u \in Seq(Threads) /\ w \in Seq(Threads) /\ a = u \o w
      /\ Len(w) = Len(a) - (k - 1)
      /\ \A i \in 1..(Len(a) - (k - 1)) : w[i] = a[(k - 1) + i]
  BY <1>3, <1>4, Cut
<1> HIDE DEF u, w
<1>6. Len(w) = 1 /\ w[1] = x
  <2>1. Len(a) - (k - 1) = 1 /\ (k - 1) + 1 = k
    BY <1>2, <1>3
  <2> QED BY <1>4, <1>5, <2>1
<1>7. w = One(x)
  <2>1. w \in Seq(Threads)
    BY <1>5
  <2> QED BY ONLY <1>6, <2>1 DEF One
<1> QED BY <1>3, <1>5, <1>7

LEMMA CutLast ==
  ASSUME NEW s \in Seq(Threads), s # <<>>
  PROVE  /\ s[Len(s)] \in Threads
         /\ \E u \in Seq(Threads) : s = u \o One(s[Len(s)])
<1> DEFINE n == Len(s) - 1
           u == SubSeq(s, 1, n)
           w == SubSeq(s, n + 1, Len(s))
<1>1. n \in 0..Len(s) /\ Len(s) \in 1..Len(s) /\ Len(s) - n = 1 /\ n + 1 = Len(s)
      /\ s[Len(s)] \in Threads
  OBVIOUS
<1>2. /\ u \in Seq(Threads) /\ w \in Seq(Threads) /\ s = u \o w
      /\ Len(w) = Len(s) - n
      /\ \A i \in 1..(Len(s) - n) : w[i] = s[n + i]
  BY <1>1, Cut
<1> HIDE DEF n, u, w
<1>3. Len(w) = 1 /\ w[1] = s[Len(s)]
  BY <1>1, <1>2
<1>4. w = One(s[Len(s)])
  BY <1>1, <1>2, <1>3 DEF One
<1> QED BY <1>1, <1>2, <1>4

\* The order of a sequence put together.
LEMMA PrecedesConcat ==
  ASSUME NEW s \in Seq(Threads), NEW u \in Seq(Threads), NEW x, NEW y
  PROVE  Precedes(s \o u, x, y) <=> \/ Precedes(s, x, y) \/ Precedes(u, x, y)
                                    \/ x \in Elements(s) /\ y \in Elements(u)
<1> DEFINE w == s \o u
<1>1. /\ Len(s) \in Nat /\ Len(u) \in Nat
      /\ DOMAIN s = 1..Len(s) /\ DOMAIN u = 1..Len(u)
      /\ DOMAIN w = 1..(Len(s) + Len(u))
      /\ \A i \in 1..Len(s) : w[i] = s[i] /\ i \in 1..(Len(s) + Len(u))
      /\ \A i \in 1..Len(u) : /\ w[Len(s) + i] = u[i]
                              /\ Len(s) + i \in 1..(Len(s) + Len(u))
      /\ \A i \in 1..(Len(s) + Len(u)) :
            i \in 1..Len(s) \/ \E j \in 1..Len(u) : i = Len(s) + j
  BY ConcatIs
<1> HIDE DEF w
<1>2. ASSUME Precedes(w, x, y)
      PROVE  \/ Precedes(s, x, y) \/ Precedes(u, x, y)
             \/ x \in Elements(s) /\ y \in Elements(u)
  <2>1. PICK i \in DOMAIN w, j \in DOMAIN w : i < j /\ w[i] = x /\ w[j] = y
    BY <1>2 DEF Precedes
  <2>2. CASE i \in 1..Len(s) /\ j \in 1..Len(s)
    BY <1>1, <2>1, <2>2 DEF Precedes
  <2>3. ASSUME NEW k \in 1..Len(u), j = Len(s) + k, i \in 1..Len(s)
        PROVE  x \in Elements(s) /\ y \in Elements(u)
    BY <1>1, <2>1, <2>3 DEF Elements
  <2>4. ASSUME NEW h \in 1..Len(u), i = Len(s) + h, NEW k \in 1..Len(u), j = Len(s) + k
        PROVE  Precedes(u, x, y)
    <3>1. h < k /\ u[h] = x /\ u[k] = y
      BY <1>1, <2>1, <2>4
    <3> QED BY <1>1, <3>1 DEF Precedes
  <2>5. ASSUME NEW h \in 1..Len(u), i = Len(s) + h, j \in 1..Len(s)
        PROVE  FALSE
    BY <1>1, <2>1, <2>5
  <2> QED BY <1>1, <2>1, <2>2, <2>3, <2>4, <2>5
<1>3. ASSUME Precedes(s, x, y) PROVE Precedes(w, x, y)
  BY <1>1, <1>3 DEF Precedes
<1>4. ASSUME Precedes(u, x, y) PROVE Precedes(w, x, y)
  <2>1. PICK i \in DOMAIN u, j \in DOMAIN u : i < j /\ u[i] = x /\ u[j] = y
    BY <1>4 DEF Precedes
  <2>2. /\ Len(s) + i \in DOMAIN w /\ Len(s) + j \in DOMAIN w
        /\ w[Len(s) + i] = x /\ w[Len(s) + j] = y
    BY <1>1, <2>1
  <2>3. Len(s) + i < Len(s) + j
    BY <1>1, <2>1
  <2> QED BY <2>2, <2>3 DEF Precedes
<1>5. ASSUME x \in Elements(s), y \in Elements(u) PROVE Precedes(w, x, y)
  <2>1. PICK i \in DOMAIN s : s[i] = x
    BY <1>5 DEF Elements
  <2>2. PICK j \in DOMAIN u : u[j] = y
    BY <1>5 DEF Elements
  <2>3. i < Len(s) + j /\ i \in DOMAIN w /\ Len(s) + j \in DOMAIN w
        /\ w[i] = x /\ w[Len(s) + j] = y
    BY <1>1, <2>1, <2>2
  <2> QED BY <2>3 DEF Precedes
<1> QED BY <1>2, <1>3, <1>4, <1>5 DEF w

LEMMA PrecedesElements ==
  ASSUME NEW s, NEW x, NEW y, Precedes(s, x, y)
  PROVE  x \in Elements(s) /\ y \in Elements(s)
  BY DEF Precedes, Elements

\* In a queue without repetition the order is strict.
LEMMA PrecedesStrict ==
  ASSUME NEW s \in Seq(Threads), Distinct(s), NEW x, NEW y,
         Precedes(s, x, y), Precedes(s, y, x)
  PROVE  FALSE
<1>1. PICK i \in DOMAIN s, j \in DOMAIN s : i < j /\ s[i] = x /\ s[j] = y
  BY DEF Precedes
<1>2. PICK k \in DOMAIN s, l \in DOMAIN s : k < l /\ s[k] = y /\ s[l] = x
  BY DEF Precedes
<1>3. i = l /\ j = k
  BY <1>1, <1>2 DEF Distinct
<1>4. i \in Int /\ j \in Int
  BY <1>1
<1> QED BY <1>1, <1>2, <1>3, <1>4

LEMMA PrecedesOne ==
  ASSUME NEW z \in Threads, NEW x, NEW y
  PROVE  ~Precedes(One(z), x, y)
<1>1. \A i, j \in DOMAIN One(z) : i = 1 /\ j = 1
  BY OneIs
<1> QED BY <1>1 DEF Precedes

\* Taking out the element in the middle.
LEMMA WithoutMiddle ==
  ASSUME NEW u \in Seq(Threads), NEW v \in Seq(Threads), NEW x \in Threads,
         Distinct((u \o One(x)) \o v)
  PROVE  Without((u \o One(x)) \o v, x) = u \o v
<1> DEFINE a == u \o One(x)
           s == a \o v
           k == Len(u) + 1
<1>1. /\ a \in Seq(Threads) /\ Len(a) = k /\ k \in Nat /\ a[k] = x
      /\ \A i \in 1..Len(u) : a[i] = u[i]
  <2>1. /\ One(x) \in Seq(Threads) /\ Len(One(x)) = 1 /\ One(x)[1] = x /\ 1 \in 1..1
    BY OneIs
  <2>2. /\ a \in Seq(Threads) /\ Len(u) \in Nat /\ Len(a) = Len(u) + Len(One(x))
        /\ \A i \in 1..Len(u) : a[i] = u[i]
        /\ \A i \in 1..Len(One(x)) : a[Len(u) + i] = One(x)[i]
    <3>1. u \in Seq(Threads) /\ One(x) \in Seq(Threads)
      BY <2>1
    <3> QED BY ONLY <3>1, ConcatIs DEF a
  <2> HIDE DEF a
  <2>3. a[Len(u) + 1] = x
    BY <2>1, <2>2
  <2> QED BY <2>1, <2>2, <2>3
<1> HIDE DEF a
<1>2. /\ s \in Seq(Threads) /\ Len(s) = k + Len(v) /\ DOMAIN s = 1..(k + Len(v))
      /\ \A i \in 1..k : s[i] = a[i]
      /\ \A i \in 1..Len(v) : s[k + i] = v[i]
      /\ Len(v) \in Nat
  <2>1. /\ s \in Seq(Threads) /\ Len(s) = Len(a) + Len(v) /\ DOMAIN s = 1..(Len(a) + Len(v))
        /\ \A i \in 1..Len(a) : s[i] = a[i]
        /\ \A i \in 1..Len(v) : s[Len(a) + i] = v[i]
        /\ Len(v) \in Nat
    <3>1. a \in Seq(Threads) /\ v \in Seq(Threads)
      BY <1>1
    <3> QED BY ONLY <3>1, ConcatIs DEF s
  <2> HIDE DEF s, k
  <2> QED BY <1>1, <2>1
<1>3. Distinct(s)
  BY DEF a
<1> HIDE DEF s
<1>4. /\ k - 1 = Len(u) /\ Len(u) \in Nat /\ k \in 1..k /\ k \in DOMAIN s
      /\ k \in 0..Len(s) /\ k - 1 \in 0..Len(s) /\ Len(u) \in 0..Len(s)
      /\ Len(s) - k = Len(v)
      /\ \A i \in 1..Len(u) : i \in 1..k
  BY <1>1, <1>2
<1>5. s[k] = x /\ (CHOOSE i \in DOMAIN s : s[i] = x) = k /\ x \in Elements(s)
  BY <1>1, <1>2, <1>3, <1>4 DEF Distinct, Elements
<1>6. Without(s, x) = SubSeq(s, 1, Len(u)) \o SubSeq(s, k + 1, Len(s))
  BY <1>4, <1>5 DEF Without
<1>7. SubSeq(s, 1, Len(u)) = u
  <2> DEFINE p == SubSeq(s, 1, Len(u))
  <2>1. p \in Seq(Threads) /\ Len(p) = Len(u) /\ \A i \in 1..Len(u) : p[i] = s[i]
    BY <1>2, <1>4, Cut
  <2> HIDE DEF p
  <2>2. \A i \in 1..Len(u) : p[i] = u[i]
    BY <1>1, <1>2, <1>4, <2>1
  <2>3. p = u
    BY <2>1, <2>2
  <2> QED BY <2>3 DEF p
<1>8. SubSeq(s, k + 1, Len(s)) = v
  <2> DEFINE p == SubSeq(s, k + 1, Len(s))
  <2>1. /\ p \in Seq(Threads) /\ Len(p) = Len(s) - k
        /\ \A i \in 1..(Len(s) - k) : p[i] = s[k + i]
    BY <1>2, <1>4, Cut
  <2> HIDE DEF p
  <2>2. Len(p) = Len(v) /\ \A i \in 1..Len(v) : p[i] = v[i]
    BY <1>2, <1>4, <2>1
  <2>3. p = v
    BY <2>1, <2>2
  <2> QED BY <2>3 DEF p
<1> QED BY <1>6, <1>7, <1>8 DEF s, a

LEMMA WithoutNone ==
  ASSUME NEW s, NEW x, x \notin Elements(s)
  PROVE  Without(s, x) = s
  BY DEF Without

-----------------------------------------------------------------------------
(* Chains of NEXT slots. *)

\* Each thread of s is linked to the one behind it, and the last one to e.
Seg(next, s, e) ==
    \A i \in DOMAIN s : next[s[i]] = IF i = Len(s) THEN e ELSE s[i + 1]

LEMMA SegOne ==
  ASSUME NEW next, NEW t \in Threads, NEW e
  PROVE  Seg(next, One(t), e) <=> next[t] = e
  BY OneIs DEF Seg

LEMMA SegEmpty ==
  ASSUME NEW next, NEW e
  PROVE  Seg(next, <<>>, e)
  BY DEF Seg

LEMMA SegKept ==
  ASSUME NEW next, NEW other, NEW s \in Seq(Threads), NEW e, Seg(next, s, e),
         \A t \in Elements(s) : other[t] = next[t]
  PROVE  Seg(other, s, e)
<1>1. \A i \in DOMAIN s : other[s[i]] = next[s[i]]
  BY DEF Elements
<1> QED BY <1>1 DEF Seg

\* Two chains make one when the first leads to the second.
LEMMA SegConcat ==
  ASSUME NEW next, NEW s \in Seq(Threads), NEW u \in Seq(Threads), NEW e
  PROVE  Seg(next, s \o u, e) <=> Seg(next, s, First(u, e)) /\ Seg(next, u, e)
<1> DEFINE w == s \o u
<1>1. /\ Len(s) \in Nat /\ Len(u) \in Nat /\ Len(w) = Len(s) + Len(u)
      /\ DOMAIN s = 1..Len(s) /\ DOMAIN u = 1..Len(u)
      /\ DOMAIN w = 1..(Len(s) + Len(u))
      /\ \A i \in 1..Len(s) : w[i] = s[i] /\ i \in 1..(Len(s) + Len(u))
      /\ \A i \in 1..Len(u) : /\ w[Len(s) + i] = u[i]
                              /\ Len(s) + i \in 1..(Len(s) + Len(u))
      /\ \A i \in 1..(Len(s) + Len(u)) :
            i \in 1..Len(s) \/ \E j \in 1..Len(u) : i = Len(s) + j
  BY ConcatIs
<1> HIDE DEF w
<1>0. Len(s) \in Nat /\ Len(u) \in Nat /\ Len(w) = Len(s) + Len(u)
  BY <1>1
<1> DEFINE after(i) == IF i = Len(w) THEN e ELSE w[i + 1]
<1>2. ASSUME NEW i \in 1..Len(s)
      PROVE  after(i) = IF i = Len(s) THEN First(u, e) ELSE s[i + 1]
  <2>1. CASE i # Len(s)
    <3>1. i + 1 \in 1..Len(s) /\ i # Len(w)
      BY <1>0, <2>1
    <3> QED BY <1>1, <2>1, <3>1
  <2>2. CASE i = Len(s) /\ u = <<>>
    BY <1>0, <2>2 DEF First
  <2>3. CASE i = Len(s) /\ u # <<>>
    <3>1. 1 \in 1..Len(u) /\ i # Len(w)
      <4>1. Len(u) # 0
        BY <2>3
      <4> QED BY <1>0, <2>3, <4>1
    <3>2. w[Len(s) + 1] = u[1]
      BY <1>1, <3>1
    <3> QED BY <2>3, <3>1, <3>2 DEF First
  <2> QED BY <2>1, <2>2, <2>3
<1>3. ASSUME NEW i \in 1..Len(u)
      PROVE  after(Len(s) + i) = IF i = Len(u) THEN e ELSE u[i + 1]
  <2>1. CASE i = Len(u)
    BY <1>0, <2>1
  <2>2. CASE i # Len(u)
    <3>1. i + 1 \in 1..Len(u) /\ Len(s) + i # Len(w) /\ (Len(s) + i) + 1 = Len(s) + (i + 1)
      BY <1>0, <2>2
    <3>2. w[Len(s) + (i + 1)] = u[i + 1]
      BY <1>1, <3>1
    <3> QED BY <2>2, <3>1, <3>2
  <2> QED BY <2>1, <2>2
<1>4. Seg(next, w, e) <=> \A i \in 1..(Len(s) + Len(u)) : next[w[i]] = after(i)
  BY <1>1 DEF Seg
<1> HIDE DEF after
<1>5. Seg(next, s, First(u, e)) <=> \A i \in 1..Len(s) : next[w[i]] = after(i)
  <2>1. \A i \in 1..Len(s) :
           (next[s[i]] = IF i = Len(s) THEN First(u, e) ELSE s[i + 1])
           <=> next[w[i]] = after(i)
    <3>1. TAKE i \in 1..Len(s)
    <3>2. w[i] = s[i]
      BY <1>1
    <3> QED BY <1>2, <3>2
  <2>2. DOMAIN s = 1..Len(s)
    BY <1>1
  <2> QED BY <2>1, <2>2 DEF Seg
<1>6. Seg(next, u, e) <=> \A i \in 1..Len(u) : next[w[Len(s) + i]] = after(Len(s) + i)
  <2>1. \A i \in 1..Len(u) :
           (next[u[i]] = IF i = Len(u) THEN e ELSE u[i + 1])
           <=> next[w[Len(s) + i]] = after(Len(s) + i)
    <3>1. TAKE i \in 1..Len(u)
    <3>2. w[Len(s) + i] = u[i]
      BY <1>1
    <3> QED BY <1>3, <3>2
  <2>2. DOMAIN u = 1..Len(u)
    BY <1>1
  <2> QED BY <2>1, <2>2 DEF Seg
<1>7. (\A i \in 1..(Len(s) + Len(u)) : next[w[i]] = after(i))
      <=> /\ \A i \in 1..Len(s) : next[w[i]] = after(i)
          /\ \A i \in 1..Len(u) : next[w[Len(s) + i]] = after(Len(s) + i)
  <2>1. /\ \A i \in 1..Len(s) : i \in 1..(Len(s) + Len(u))
        /\ \A i \in 1..Len(u) : Len(s) + i \in 1..(Len(s) + Len(u))
    BY <1>1
  <2>2. ASSUME \A i \in 1..Len(s) : next[w[i]] = after(i),
               \A i \in 1..Len(u) : next[w[Len(s) + i]] = after(Len(s) + i),
               NEW i \in 1..(Len(s) + Len(u))
        PROVE  next[w[i]] = after(i)
    <3>1. i \in 1..Len(s) \/ \E j \in 1..Len(u) : i = Len(s) + j
      BY <1>1
    <3> QED BY <2>2, <3>1
  <2> QED BY <2>1, <2>2
<1> QED BY <1>4, <1>5, <1>6, <1>7 DEF w

\* A queue of threads is not longer than there are threads.
LEMMA QueueLength ==
  ASSUME NEW s \in Seq(Threads), Distinct(s)
  PROVE  /\ Cardinality(Threads) \in Nat /\ Len(s) \in Nat
         /\ Len(s) <= Cardinality(Threads)
         /\ Cardinality(Elements(s)) = Len(s)
<1>1. s \in Bijection(1..Len(s), Elements(s))
  BY DEF Distinct, Elements, Bijection, Injection, Surjection, IsInjective
<1>2. ExistsBijection(1..Len(s), Elements(s))
  BY <1>1 DEF ExistsBijection
<1>3. Len(s) \in Nat
  OBVIOUS
<1>4. Cardinality(Elements(s)) = Len(s)
  BY <1>2, <1>3, FS_CountingElements
<1>5. Elements(s) \in SUBSET Threads
  BY DEF Elements
<1>6. /\ Cardinality(Elements(s)) <= Cardinality(Threads)
      /\ Cardinality(Threads) \in Nat
  BY <1>5, ThreadsAssumption, FS_Subset, FS_CardinalityType
<1> QED BY <1>3, <1>4, <1>6

LEMMA SameCardinality == ASSUME NEW S PROVE L!Cardinality(S) = Cardinality(S)
  BY DEF L!Cardinality, Cardinality

\* The walk from the first thread of a chain meets all of it.  The equation
\* that defines it has a solution, the chain followed by NULL, and only one:
\* two solutions would differ first at some step.
LEMMA WalkIs ==
  ASSUME NEW q, NEW s \in Seq(Threads), Distinct(s), Seg(q.next, s, NULL)
  PROVE  L!Walk(q, First(s, NULL)) = s
<1> DEFINE N == L!Cardinality(Threads)
           Body(f) == [i \in 0..N |-> IF i = 0 THEN First(s, NULL)
                                      ELSE IF f[i - 1] = NULL THEN NULL
                                      ELSE q.next[f[i - 1]]]
           A == [i \in 0..N |-> IF i < Len(s) THEN s[i + 1] ELSE NULL]
           at == CHOOSE f : f = Body(f)
           met == {i \in 0..N : at[i] # NULL}
<1>1. N \in Nat /\ Len(s) \in Nat /\ Len(s) <= N
  BY QueueLength, SameCardinality
<1>2. /\ First(s, NULL) = IF Len(s) = 0 THEN NULL ELSE s[1]
      /\ \A i \in 1..Len(s) : /\ s[i] # NULL
                              /\ q.next[s[i]] = IF i = Len(s) THEN NULL ELSE s[i + 1]
  BY ThreadsAssumption DEF Seg, First
<1>3. L!Walk(q, First(s, NULL)) = [i \in 1..L!Cardinality(met) |-> at[i - 1]]
  BY DEF L!Walk
<1> HIDE DEF N
<1>4. A = Body(A)
  <2>1. ASSUME NEW n \in 0..N PROVE A[n] = Body(A)[n]
    <3>1. CASE n = 0
      BY <1>1, <1>2, <3>1
    <3>2. CASE n # 0
      <4>1. n - 1 \in 0..N /\ A[n - 1] = IF n - 1 < Len(s) THEN s[n] ELSE NULL
        BY <1>1, <3>2
      <4>2. CASE n - 1 < Len(s)
        BY <1>1, <1>2, <3>2, <4>1, <4>2
      <4>3. CASE ~ (n - 1 < Len(s))
        BY <1>1, <3>2, <4>1, <4>3
      <4> QED BY <4>2, <4>3
    <3> QED BY <3>1, <3>2
  <2> QED BY <2>1
<1>5. at = Body(at)
  BY <1>4
<1> HIDE DEF at, A
<1>6. ASSUME NEW m \in 0..N, at[m] # A[m] PROVE FALSE
  <2> DEFINE T == {n \in 0..N : at[n] # A[n]}
  <2>1. T \in SUBSET Nat /\ T # {}
    BY <1>1, <1>6
  <2>2. PICK x \in T : \A y \in T : x <= y
    BY <2>1, LeastNumber
  <2>3. x \in 0..N /\ at[x] = Body(at)[x] /\ A[x] = Body(A)[x]
    BY <1>4, <1>5, <2>2
  <2>4. CASE x = 0
    BY <2>2, <2>3, <2>4
  <2>5. CASE x # 0
    <3>1. x - 1 \in 0..N /\ x - 1 \notin T
      BY <1>1, <2>2, <2>3, <2>5
    <3>2. at[x - 1] = A[x - 1]
      BY <3>1
    <3> QED BY <2>2, <2>3, <2>5, <3>2
  <2> QED BY <2>4, <2>5
<1>7. \A n \in 0..N : at[n] = IF n < Len(s) THEN s[n + 1] ELSE NULL
  BY <1>6 DEF A
<1>8. L!Cardinality(met) = Len(s)
  <2>1. met = 0..(Len(s) - 1)
    <3>1. ASSUME NEW n \in 0..N PROVE at[n] # NULL <=> n < Len(s)
      <4>1. n < Len(s) => n + 1 \in 1..Len(s)
        BY <1>1
      <4> QED BY <1>2, <1>7, <4>1
    <3> QED BY <1>1, <3>1
  <2>2. Cardinality(0..(Len(s) - 1)) = Len(s)
    <3>1. 0 \in Int /\ Len(s) - 1 \in Int
      BY <1>1
    <3>2. Cardinality(0..(Len(s) - 1))
             = IF 0 > Len(s) - 1 THEN 0 ELSE (Len(s) - 1) - 0 + 1
      BY <3>1, FS_Interval
    <3> QED BY <1>1, <3>2
  <2> QED BY <2>1, <2>2, SameCardinality
<1>9. \A i \in 1..Len(s) : at[i - 1] = s[i]
  BY <1>1, <1>7
<1>10. s = [i \in 1..Len(s) |-> s[i]]
  OBVIOUS
<1> QED BY <1>3, <1>8, <1>9, <1>10

-----------------------------------------------------------------------------
(* The two lists. *)

ListRecords == [head : Threads \cup {NULL}, tail : Threads \cup {NULL},
                timers : Threads \cup {NULL},
                next : [Threads -> Threads \cup {NULL}],
                state : [Threads -> States]]

\* The active queue of q, with the dead threads in it, is s, and its timer
\* list is m.
Is(q, s, m) ==
    /\ q \in ListRecords
    /\ s \in Seq(Threads) /\ m \in Seq(Threads)
    /\ Distinct(s \o m)
    /\ q.head = First(s, NULL) /\ Seg(q.next, s, NULL)
    /\ q.tail = IF s = <<>> THEN NULL ELSE s[Len(s)]
    /\ q.timers = First(m, NULL) /\ Seg(q.next, m, NULL)
    /\ \A t \in Threads \ (Elements(s) \cup Elements(m)) : q.next[t] = NULL

LEMMA IsParts ==
  ASSUME NEW q, NEW s, NEW m, Is(q, s, m)
  PROVE  /\ q \in ListRecords /\ s \in Seq(Threads) /\ m \in Seq(Threads)
         /\ Distinct(s) /\ Distinct(m) /\ Elements(s) \cap Elements(m) = {}
         /\ Elements(s) \subseteq Threads /\ Elements(m) \subseteq Threads
<1>1. Elements(s) \subseteq Threads /\ Elements(m) \subseteq Threads
  BY DEF Is, Elements
<1> QED BY <1>1, DistinctConcat DEF Is

\* The walks of the code find them.
LEMMA ListsAre ==
  ASSUME NEW q, NEW s, NEW m, Is(q, s, m)
  PROVE  L!ActiveQueue(q) = s /\ L!TimerList(q) = m
<1>1. /\ s \in Seq(Threads) /\ m \in Seq(Threads) /\ Distinct(s) /\ Distinct(m)
      /\ q.head = First(s, NULL) /\ Seg(q.next, s, NULL)
      /\ q.timers = First(m, NULL) /\ Seg(q.next, m, NULL)
  BY IsParts DEF Is
<1> QED BY <1>1, WalkIs DEF L!ActiveQueue, L!TimerList

\* activate() puts a thread at the end of the active queue.
LEMMA ActivateIs ==
  ASSUME NEW q, NEW s, NEW m, Is(q, s, m), NEW t \in Threads,
         t \notin Elements(s), t \notin Elements(m)
  PROVE  /\ Is(L!Activate(q, t), s \o One(t), m)
         /\ L!Activate(q, t).state = q.state
<1> DEFINE r == L!Activate(q, t)
<1>1. /\ q \in ListRecords /\ s \in Seq(Threads) /\ m \in Seq(Threads)
      /\ Distinct(s) /\ Distinct(m) /\ Elements(s) \cap Elements(m) = {}
  BY IsParts
<1>2. /\ r \in ListRecords
      /\ r.head = IF q.tail = NULL THEN t ELSE q.head
      /\ r.next = IF q.tail = NULL THEN q.next ELSE [q.next EXCEPT ![q.tail] = t]
      /\ r.tail = t
      /\ r.timers = q.timers /\ r.state = q.state
  BY <1>1 DEF L!Activate, ListRecords
<1> HIDE DEF r
<1>3. /\ q.head = First(s, NULL) /\ Seg(q.next, s, NULL)
      /\ q.tail = IF s = <<>> THEN NULL ELSE s[Len(s)]
      /\ q.timers = First(m, NULL) /\ Seg(q.next, m, NULL)
      /\ \A p \in Threads \ (Elements(s) \cup Elements(m)) : q.next[p] = NULL
      /\ q.next \in [Threads -> Threads \cup {NULL}]
  BY <1>1 DEF Is, ListRecords
<1> DEFINE one == One(t)
           w == s \o one
<1>0. /\ one \in Seq(Threads) /\ one # <<>> /\ Distinct(one) /\ Elements(one) = {t}
      /\ First(one, NULL) = t /\ \A next, e : Seg(next, one, e) <=> next[t] = e
      /\ w # <<>> /\ w[Len(w)] = t
  BY <1>1, OneIs, AppendIs, SegOne
<1> HIDE DEF one
<1>4. /\ w \in Seq(Threads)
      /\ Distinct(w) /\ Elements(w) = Elements(s) \cup {t}
      /\ First(w, NULL) = First(s, t)
  <2>1. Elements(s) \cap Elements(one) = {}
    BY <1>0
  <2>2. w \in Seq(Threads) /\ Distinct(w) /\ Elements(w) = Elements(s) \cup {t}
    BY <1>0, <1>1, <2>1, ConcatDisjoint
  <2>3. First(w, NULL) = First(s, t)
    BY <1>0, <1>1, FirstConcat
  <2> QED BY <2>2, <2>3
<1> HIDE DEF w
<1>9. /\ r \in ListRecords /\ w \in Seq(Threads) /\ m \in Seq(Threads)
      /\ r.tail = (IF w = <<>> THEN NULL ELSE w[Len(w)])
      /\ r.timers = First(m, NULL)
  BY <1>0, <1>1, <1>2, <1>3, <1>4
<1>5. Distinct(w \o m)
  <2>1. Elements(w) \cap Elements(m) = {}
    BY <1>1, <1>4
  <2> QED BY <1>1, <1>4, <2>1, DistinctConcat
<1>6. ASSUME s = <<>> PROVE Is(r, w, m)
  <2>1. r.next = q.next /\ r.head = t
    BY <1>2, <1>3, <1>6
  <2>2. w = one
    BY <1>0, <1>6, ConcatEmpty DEF w
  <2>3. Seg(r.next, w, NULL)
    BY <1>0, <1>3, <2>1, <2>2
  <2>4. r.head = First(w, NULL)
    BY <1>0, <2>1, <2>2
  <2>5. \A p \in Threads \ (Elements(w) \cup Elements(m)) : r.next[p] = NULL
    BY <1>3, <1>4, <2>1
  <2>6. Seg(r.next, m, NULL)
    BY <1>3, <2>1
  <2> QED BY ONLY <1>5, <1>9, <2>3, <2>4, <2>5, <2>6 DEF Is
<1>7. ASSUME s # <<>> PROVE Is(r, w, m)
  <2> DEFINE l == q.tail
             last == One(l)
  <2>1. /\ l \in Threads
        /\ \E f \in Seq(Threads) : s = f \o last
    <3>1. l = s[Len(s)]
      BY <1>3, <1>7
    <3> QED BY <1>1, <1>7, <3>1, CutLast
  <2>2. PICK f \in Seq(Threads) : s = f \o last
    BY <2>1
  <2> HIDE DEF l
  <2>3. /\ last \in Seq(Threads) /\ First(last, NULL) = l /\ First(last, t) = l
        /\ Elements(last) = {l} /\ \A next, e : Seg(next, last, e) <=> next[l] = e
    BY <2>1, OneIs, SegOne
  <2> HIDE DEF last
  <2>4. l \notin Elements(f) /\ Elements(s) = Elements(f) \cup {l}
    BY <1>1, <2>2, <2>3, DistinctConcat, ElementsConcat
  <2>5. l # NULL /\ r.next = [q.next EXCEPT ![l] = t] /\ r.head = q.head
    BY <1>2, <2>1, ThreadsAssumption DEF l
  <2>6. Seg(q.next, f, l) /\ Seg(q.next, last, NULL)
    BY <1>3, <2>2, <2>3, SegConcat
  <2>7. Seg(r.next, f, l)
    <3>1. \A p \in Elements(f) : r.next[p] = q.next[p]
      BY <1>3, <2>4, <2>5
    <3> QED BY <2>6, <3>1, SegKept
  <2>8. Seg(r.next, last, t)
    BY <1>3, <2>1, <2>3, <2>5
  <2>9. Seg(r.next, s, t)
    BY <2>2, <2>3, <2>7, <2>8, SegConcat
  <2>10. Seg(r.next, one, NULL)
    <3>1. t # l /\ q.next[t] = NULL
      BY <1>3, <2>4
    <3> QED BY <1>0, <1>3, <2>5, <3>1
  <2>11. Seg(r.next, w, NULL)
    BY <1>0, <1>1, <2>9, <2>10, SegConcat DEF w
  <2>12. Seg(r.next, m, NULL)
    <3>1. \A p \in Elements(m) : r.next[p] = q.next[p]
      <4>1. l \notin Elements(m) /\ Elements(m) \subseteq Threads
        BY <1>1, <2>4, IsParts
      <4> QED BY <1>3, <2>5, <4>1
    <3> QED BY <1>1, <1>3, <3>1, SegKept
  <2>13. \A p \in Threads \ (Elements(w) \cup Elements(m)) : r.next[p] = NULL
    BY <1>3, <1>4, <2>4, <2>5
  <2>14. r.head = First(w, NULL)
    BY <1>3, <1>4, <1>7, <2>5 DEF First
  <2> QED BY ONLY <1>5, <1>9, <2>11, <2>12, <2>13, <2>14 DEF Is
<1>8. r.state = q.state
  BY <1>2
<1> QED BY <1>6, <1>7, <1>8 DEF r, w, one

\* A chain with t in the middle.
LEMMA MiddleIs ==
  ASSUME NEW u \in Seq(Threads), NEW v \in Seq(Threads), NEW t \in Threads
  PROVE  /\ (u \o One(t)) \o v \in Seq(Threads) /\ u \o v \in Seq(Threads)
         /\ Elements((u \o One(t)) \o v) = Elements(u) \cup {t} \cup Elements(v)
         /\ Elements(u \o v) = Elements(u) \cup Elements(v)
         /\ Distinct((u \o One(t)) \o v)
               <=> Distinct(u \o v) /\ t \notin Elements(u) /\ t \notin Elements(v)
         /\ Distinct(u \o v) <=> /\ Distinct(u) /\ Distinct(v)
                                 /\ Elements(u) \cap Elements(v) = {}
         /\ \A next, e : Seg(next, (u \o One(t)) \o v, e)
               <=> /\ Seg(next, u, t) /\ next[t] = First(v, e)
                   /\ Seg(next, v, e)
         /\ \A e : First((u \o One(t)) \o v, e) = First(u, t)
<1> DEFINE one == One(t)
           a == u \o one
<1>1. /\ one \in Seq(Threads) /\ Distinct(one) /\ Elements(one) = {t}
      /\ \A e : First(one, e) = t
      /\ \A next, e : Seg(next, one, e) <=> next[t] = e
  BY OneIs, SegOne
<1> HIDE DEF one
<1>2. /\ a \in Seq(Threads) /\ Elements(a) = Elements(u) \cup {t}
      /\ Distinct(a) <=> Distinct(u) /\ t \notin Elements(u)
  <2>1. a \in Seq(Threads)
    BY <1>1, ConcatIs
  <2>2. Elements(a) = Elements(u) \cup {t}
    BY <1>1, ElementsConcat
  <2>3. Distinct(a) <=> Distinct(u) /\ Elements(u) \cap Elements(one) = {}
    BY <1>1, DistinctConcat
  <2> QED BY <1>1, <2>1, <2>2, <2>3
<1>3. \A next, e : Seg(next, a, e) <=> Seg(next, u, t) /\ next[t] = e
  BY <1>1, SegConcat
<1>4. \A e : First(a, e) = First(u, t)
  BY <1>1, FirstConcat
<1> HIDE DEF a
<1>5. /\ a \o v \in Seq(Threads) /\ u \o v \in Seq(Threads)
      /\ Elements(a \o v) = Elements(a) \cup Elements(v)
      /\ Elements(u \o v) = Elements(u) \cup Elements(v)
  BY <1>2, ConcatIs, ElementsConcat
<1>6. Distinct(u \o v) <=> /\ Distinct(u) /\ Distinct(v)
                           /\ Elements(u) \cap Elements(v) = {}
  BY DistinctConcat
<1>7. Distinct(a \o v) <=> /\ Distinct(a) /\ Distinct(v)
                           /\ Elements(a) \cap Elements(v) = {}
  BY <1>2, DistinctConcat
<1>8. \A next, e : Seg(next, a \o v, e) <=> /\ Seg(next, u, t) /\ next[t] = First(v, e)
                                            /\ Seg(next, v, e)
  BY <1>2, <1>3, SegConcat
<1>9. \A e : First(a \o v, e) = First(u, t)
  BY <1>2, <1>4, FirstConcat
<1>10. Distinct(a \o v) <=> Distinct(u \o v) /\ t \notin Elements(u) /\ t \notin Elements(v)
  BY <1>2, <1>6, <1>7
<1> QED BY <1>2, <1>5, <1>6, <1>8, <1>9, <1>10 DEF a, one

\* A link of a chain leads into it or to its end.
LEMMA SegStays ==
  ASSUME NEW next, NEW s \in Seq(Threads), NEW e, Seg(next, s, e), NEW p \in Elements(s)
  PROVE  next[p] \in Elements(s) \cup {e}
<1>1. PICK i \in 1..Len(s) : s[i] = p
  BY DEF Elements
<1>2. i # Len(s) => i + 1 \in DOMAIN s
  BY <1>1
<1> QED BY <1>1, <1>2 DEF Seg, Elements

LEMMA FirstIn ==
  ASSUME NEW s \in Seq(Threads), NEW e
  PROVE  /\ First(s, e) \in Elements(s) \cup {e}
         /\ s # <<>> => First(s, e) \in Elements(s)
<1>1. s # <<>> => 1 \in DOMAIN s
  OBVIOUS
<1> QED BY <1>1 DEF First, Elements

\* remove_timer() takes a thread out of the timer list, wherever it is.
LEMMA RemoveTimerIs ==
  ASSUME NEW q, NEW s, NEW m, Is(q, s, m), NEW t \in Elements(m)
  PROVE  /\ Is(L!RemoveTimer(q, t), s, Without(m, t))
         /\ L!RemoveTimer(q, t).state = q.state
<1> DEFINE r == L!RemoveTimer(q, t)
<1>1. /\ q \in ListRecords /\ s \in Seq(Threads) /\ m \in Seq(Threads)
      /\ Distinct(s) /\ Distinct(m) /\ Elements(s) \cap Elements(m) = {}
      /\ t \in Threads /\ L!TimerList(q) = m /\ Elements(m) \subseteq Threads
      /\ Elements(s) \subseteq Threads
  BY IsParts, ListsAre
<1>2. PICK u \in Seq(Threads), v \in Seq(Threads) : m = (u \o One(t)) \o v
  BY <1>1, CutAt
<1>3. /\ u \o v \in Seq(Threads) /\ Elements(u \o v) = Elements(u) \cup Elements(v)
      /\ Elements(m) = Elements(u) \cup {t} \cup Elements(v)
      /\ Distinct(u \o v) /\ t \notin Elements(u) /\ t \notin Elements(v)
      /\ Distinct(u) /\ Distinct(v) /\ Elements(u) \cap Elements(v) = {}
      /\ Without(m, t) = u \o v
  BY <1>1, <1>2, MiddleIs, WithoutMiddle
<1>4. /\ q.head = First(s, NULL) /\ Seg(q.next, s, NULL)
      /\ q.tail = IF s = <<>> THEN NULL ELSE s[Len(s)]
      /\ q.timers = First(m, NULL) /\ Seg(q.next, m, NULL)
      /\ \A p \in Threads \ (Elements(s) \cup Elements(m)) : q.next[p] = NULL
      /\ q.next \in [Threads -> Threads \cup {NULL}]
  BY <1>1 DEF Is, ListRecords
<1>5. /\ q.timers = First(u, t) /\ Seg(q.next, u, t)
      /\ q.next[t] = First(v, NULL) /\ Seg(q.next, v, NULL)
  BY <1>1, <1>2, <1>4, MiddleIs
<1>6. Distinct(s \o (u \o v))
  <2>1. Elements(s) \cap Elements(u \o v) = {}
    BY <1>1, <1>3
  <2> QED BY <1>1, <1>3, <2>1, DistinctConcat
<1>7. First(u \o v, NULL) = First(u, First(v, NULL))
  BY FirstConcat
<1>8. ASSUME u = <<>> PROVE Is(r, s, u \o v) /\ r.state = q.state
  <2>1. q.timers = t
    BY <1>5, <1>8 DEF First
  <2>2. /\ r \in ListRecords /\ r.head = q.head /\ r.tail = q.tail
        /\ r.timers = q.next[t] /\ r.next = [q.next EXCEPT ![t] = NULL]
        /\ r.state = q.state
    BY <1>1, <2>1 DEF L!RemoveTimer, ListRecords
  <2> HIDE DEF r
  <2>3. u \o v = v /\ r.timers = First(v, NULL)
    BY <1>5, <1>8, <2>2, ConcatEmpty
  <2>4. Seg(r.next, s, NULL) /\ Seg(r.next, v, NULL)
    <3>1. \A p \in Elements(s) \cup Elements(v) : r.next[p] = q.next[p]
      BY <1>1, <1>3, <1>4, <2>2
    <3>2. Seg(r.next, s, NULL)
      BY <1>1, <1>4, <3>1, SegKept
    <3>3. Seg(r.next, v, NULL)
      BY <1>5, <3>1, SegKept
    <3> QED BY <3>2, <3>3
  <2>5. \A p \in Threads \ (Elements(s) \cup Elements(u \o v)) : r.next[p] = NULL
    BY <1>3, <1>4, <2>2
  <2>6. r.head = First(s, NULL) /\ r.tail = IF s = <<>> THEN NULL ELSE s[Len(s)]
    BY <1>4, <2>2
  <2>7. s \in Seq(Threads) /\ u \o v \in Seq(Threads) /\ r \in ListRecords
    BY <1>1, <1>3, <2>2
  <2>8. Is(r, s, u \o v)
    BY ONLY <1>6, <2>3, <2>4, <2>5, <2>6, <2>7 DEF Is
  <2> QED BY <2>2, <2>8
<1>9. ASSUME u # <<>> PROVE Is(r, s, u \o v) /\ r.state = q.state
  <2> DEFINE l == u[Len(u)]
             last == One(l)
  <2>1. l \in Threads /\ \E f \in Seq(Threads) : u = f \o last
    BY <1>9, CutLast
  <2>2. PICK f \in Seq(Threads) : u = f \o last
    BY <2>1
  <2> HIDE DEF l
  <2>3. /\ last \in Seq(Threads) /\ First(last, t) = l
        /\ Elements(last) = {l} /\ \A next, e : Seg(next, last, e) <=> next[l] = e
    BY <2>1, OneIs, SegOne
  <2> HIDE DEF last
  <2>4. l \notin Elements(f) /\ Elements(u) = Elements(f) \cup {l}
    BY <1>3, <2>2, <2>3, DistinctConcat, ElementsConcat
  <2>5. Seg(q.next, f, l) /\ q.next[l] = t
    BY <1>5, <2>2, <2>3, SegConcat
  <2> DEFINE before == {p \in L!ToSet(L!TimerList(q)) : q.next[p] = t}
  <2>6. L!ToSet(L!TimerList(q)) = Elements(m)
    BY <1>1 DEF L!ToSet, Elements
  <2>7. \A p \in Elements(m) : q.next[p] = t <=> p = l
    <3>1. \A p \in Elements(f) : q.next[p] \in Elements(f) \cup {l}
      BY <2>5, SegStays
    <3>2. \A p \in Elements(v) : q.next[p] \in Elements(v) \cup {NULL}
      BY <1>5, SegStays
    <3>3. q.next[t] \in Elements(v) \cup {NULL}
      BY <1>5, FirstIn
    <3> QED BY <1>1, <1>3, <2>4, <2>5, <3>1, <3>2, <3>3, ThreadsAssumption
  <2>8. before = {l}
    BY <1>3, <2>4, <2>6, <2>7
  <2>9. q.timers # t
    BY <1>3, <1>5, <1>9, FirstIn
  <2> HIDE DEF before
  <2>10. r = [q EXCEPT !.next = [p \in Threads |->
                  IF p = l THEN q.next[t] ELSE IF p = t THEN NULL ELSE q.next[p]]]
    <3>1. r = IF before = {} THEN q
              ELSE [q EXCEPT !.next = [p \in Threads |->
                        IF p \in before THEN q.next[t]
                        ELSE IF p = t THEN NULL
                        ELSE q.next[p]]]
      BY <2>9 DEF L!RemoveTimer, before
    <3> HIDE DEF r
    <3> QED BY <2>8, <3>1
  <2> HIDE DEF r
  <2> DEFINE nx == [p \in Threads |-> IF p = l THEN q.next[t]
                                      ELSE IF p = t THEN NULL ELSE q.next[p]]
  <2>11. nx \in [Threads -> Threads \cup {NULL}]
    BY <1>1, <1>4
  <2>12. nx[l] = q.next[t] /\ nx[t] = NULL /\ \A p \in Threads \ {l, t} : nx[p] = q.next[p]
    BY <1>1, <1>3, <2>1, <2>4
  <2> HIDE DEF nx
  <2>13. /\ r \in ListRecords /\ r.head = q.head /\ r.tail = q.tail
         /\ r.timers = q.timers /\ r.next = nx /\ r.state = q.state
    <3>1. r = [q EXCEPT !.next = nx]
      BY <2>10 DEF nx
    <3> QED BY <1>1, <2>11, <3>1 DEF ListRecords
  <2>14. /\ Elements(s) \cap {l, t} = {} /\ Elements(v) \cap {l, t} = {}
         /\ Elements(f) \cap {l, t} = {} /\ Elements(f) \subseteq Threads
         /\ Elements(v) \subseteq Threads
    BY <1>1, <1>3, <2>4
  <2>15. Seg(nx, s, NULL) /\ Seg(nx, v, NULL) /\ Seg(nx, f, l)
    <3>1. \A p \in Elements(s) \cup Elements(v) \cup Elements(f) : nx[p] = q.next[p]
      BY <1>1, <2>12, <2>14
    <3>2. Seg(nx, s, NULL)
      BY <1>1, <1>4, <3>1, SegKept
    <3>3. Seg(nx, v, NULL)
      BY <1>5, <3>1, SegKept
    <3>4. Seg(nx, f, l)
      BY <2>5, <3>1, SegKept
    <3> QED BY <3>2, <3>3, <3>4
  <2>16. Seg(nx, u, First(v, NULL))
    <3>1. First(last, First(v, NULL)) = l
      BY <2>1, OneIs DEF last
    <3> QED BY <1>5, <2>2, <2>3, <2>12, <2>15, <3>1, SegConcat
  <2>17. Seg(r.next, u \o v, NULL) /\ Seg(r.next, s, NULL)
    BY <2>13, <2>15, <2>16, SegConcat
  <2>18. r.timers = First(u \o v, NULL)
    BY <1>5, <1>7, <1>9, <2>13 DEF First
  <2>19. \A p \in Threads \ (Elements(s) \cup Elements(u \o v)) : r.next[p] = NULL
    BY <1>3, <1>4, <2>4, <2>12, <2>13
  <2>20. r.head = First(s, NULL) /\ r.tail = IF s = <<>> THEN NULL ELSE s[Len(s)]
    BY <1>4, <2>13
  <2>21. s \in Seq(Threads) /\ u \o v \in Seq(Threads) /\ r \in ListRecords
    BY <1>1, <1>3, <2>13
  <2>22. Is(r, s, u \o v)
    BY ONLY <1>6, <2>17, <2>18, <2>19, <2>20, <2>21 DEF Is
  <2> QED BY <2>13, <2>22
<1> HIDE DEF r
<1>10. Is(r, s, u \o v) /\ r.state = q.state
  BY <1>8, <1>9
<1> QED BY <1>3, <1>10 DEF r

\* A timer list is sorted by the deadlines d.
SortedBy(d, m) == \A x, y \in Threads : Precedes(m, x, y) => d[x] <= d[y]

Sorted(m) == SortedBy(deadline, m)

\* The timers that are due are at the front of the list.
LEMMA DueIs ==
  ASSUME NEW m \in Seq(Threads), Sorted(m), deadline \in [Threads -> Int], now \in Int
  PROVE  LET due == {i \in DOMAIN m : \A j \in 1..i : deadline[m[j]] <= now}
             n == L!Cardinality(due)
         IN  /\ n \in 0..Len(m)
             /\ Elements(SubSeq(m, 1, n)) = {t \in Elements(m) : deadline[t] <= now}
<1> DEFINE due == {i \in DOMAIN m : \A j \in 1..i : deadline[m[j]] <= now}
           late == {i \in DOMAIN m : ~(deadline[m[i]] <= now)}
<1>1. /\ DOMAIN m = 1..Len(m) /\ Len(m) \in Nat
      /\ \A i \in 1..Len(m) : m[i] \in Threads /\ deadline[m[i]] \in Int
  OBVIOUS
<1>2. \E n \in 0..Len(m) : /\ due = 1..n
                           /\ \A i \in 1..Len(m) : deadline[m[i]] <= now <=> i <= n
  <2>1. CASE late = {}
    <3>1. \A i \in 1..Len(m) : deadline[m[i]] <= now
      BY <1>1, <2>1
    <3>2. due = 1..Len(m)
      BY <1>1, <3>1
    <3>3. Len(m) \in 0..Len(m) /\ \A i \in 1..Len(m) : i <= Len(m)
      BY <1>1
    <3> QED BY <3>1, <3>2, <3>3
  <2>2. CASE late # {}
    <3>1. late \in SUBSET Nat
      BY <1>1
    <3>2. PICK x \in late : \A y \in late : x <= y
      BY <2>2, <3>1, LeastNumber
    <3>3. x \in 1..Len(m) /\ ~(deadline[m[x]] <= now)
      BY <1>1, <3>2
    <3>4. ASSUME NEW i \in 1..Len(m) PROVE deadline[m[i]] <= now <=> i <= x - 1
      <4>1. CASE i < x
        <5>1. i \notin late
          BY <3>2, <3>3, <4>1
        <5> QED BY <1>1, <3>3, <4>1, <5>1
      <4>2. CASE i = x
        BY <3>3, <4>2
      <4>3. CASE x < i
        <5>1. Precedes(m, m[x], m[i])
          BY <1>1, <3>3, <4>3 DEF Precedes
        <5>2. deadline[m[x]] <= deadline[m[i]]
          BY <1>1, <3>3, <5>1 DEF Sorted, SortedBy
        <5>3. deadline[m[x]] \in Int /\ deadline[m[i]] \in Int
          BY <1>1, <3>3
        <5>4. ~(deadline[m[i]] <= now)
          BY ONLY <3>3, <5>2, <5>3, now \in Int
        <5> QED BY <3>3, <4>3, <5>4
      <4> QED BY <3>3, <4>1, <4>2, <4>3
    <3>5. due = 1..(x - 1)
      <4>1. ASSUME NEW i \in 1..Len(m) PROVE i \in due <=> i <= x - 1
        <5>1. CASE i <= x - 1
          <6>1. \A j \in 1..i : j \in 1..Len(m) /\ j <= x - 1
            BY <1>1, <3>3, <5>1
          <6> QED BY <1>1, <3>4, <5>1, <6>1
        <5>2. CASE ~(i <= x - 1)
          <6>1. i \in 1..i
            OBVIOUS
          <6> QED BY <3>4, <5>2, <6>1
        <5> QED BY <5>1, <5>2
      <4>2. due \subseteq 1..Len(m) /\ 1..(x - 1) \subseteq 1..Len(m)
        BY <1>1, <3>3
      <4>3. \A i \in 1..Len(m) : i \in 1..(x - 1) <=> i <= x - 1
        BY <3>3
      <4> HIDE DEF due
      <4> QED BY <4>1, <4>2, <4>3
    <3>6. x - 1 \in 0..Len(m)
      BY <1>1, <3>3
    <3> HIDE DEF due
    <3> QED BY <3>4, <3>5, <3>6
  <2> QED BY <2>1, <2>2
<1>3. PICK n \in 0..Len(m) : /\ due = 1..n
                             /\ \A i \in 1..Len(m) : deadline[m[i]] <= now <=> i <= n
  BY <1>2
<1> HIDE DEF due
<1>4. L!Cardinality(due) = n
  <2>1. n \in Int /\ 1 \in Int /\ n >= 0
    BY <1>1
  <2>2. Cardinality(1..n) = IF 1 > n THEN 0 ELSE n - 1 + 1
    BY <2>1, FS_Interval
  <2>3. Cardinality(1..n) = n
    BY <2>1, <2>2
  <2> QED BY <1>3, <2>3, SameCardinality
<1>5. Elements(SubSeq(m, 1, n)) = {t \in Elements(m) : deadline[t] <= now}
  <2> DEFINE u == SubSeq(m, 1, n)
  <2>1. u \in Seq(Threads) /\ Len(u) = n /\ \A i \in 1..n : u[i] = m[i]
    BY Cut
  <2> HIDE DEF u
  <2>2. DOMAIN u = 1..n /\ \A i \in 1..n : i \in 1..Len(m) /\ i <= n
    BY <1>1, <2>1
  <2>3. ASSUME NEW t \in Elements(u) PROVE t \in Elements(m) /\ deadline[t] <= now
    <3>1. PICK i \in 1..n : u[i] = t
      BY <2>2 DEF Elements
    <3>2. m[i] = t /\ i \in DOMAIN m /\ deadline[m[i]] <= now
      BY <1>1, <1>3, <2>1, <2>2, <3>1
    <3> QED BY <3>2 DEF Elements
  <2>4. ASSUME NEW t \in Elements(m), deadline[t] <= now PROVE t \in Elements(u)
    <3>1. PICK i \in 1..Len(m) : m[i] = t
      BY <1>1 DEF Elements
    <3>2. i \in 1..n
      BY <1>3, <2>4, <3>1
    <3> QED BY <2>1, <2>2, <3>1, <3>2 DEF Elements
  <2> QED BY <2>3, <2>4 DEF u
<1> QED BY <1>4, <1>5 DEF due

\* They, u, are spliced to the active queue, and v stays.
Spliced(q, s, m, u, v) ==
    LET r == L!ExpireTimers(q)
    IN  /\ m = u \o v
        /\ Elements(u) = {t \in Elements(m) : deadline[t] <= now}
        /\ Is(r, s \o u, v)
        /\ r.state = [t \in Threads |-> IF t \in Elements(u) THEN "active"
                                        ELSE q.state[t]]

LEMMA ExpireTimersIs ==
  ASSUME NEW q, NEW s, NEW m, Is(q, s, m), Sorted(m),
         deadline \in [Threads -> Int], now \in Int
  PROVE  \E u, v \in Seq(Threads) : Spliced(q, s, m, u, v)
<1> DEFINE due == {i \in DOMAIN m : \A j \in 1..i : deadline[m[j]] <= now}
           n == L!Cardinality(due)
           u == SubSeq(m, 1, n)
           v == SubSeq(m, n + 1, Len(m))
           r == L!ExpireTimers(q)
<1> SUFFICES \E x, y \in Seq(Threads) :
                /\ m = x \o y
                /\ Elements(x) = {t \in Elements(m) : deadline[t] <= now}
                /\ Is(r, s \o x, y)
                /\ r.state = [t \in Threads |-> IF t \in Elements(x) THEN "active"
                                                ELSE q.state[t]]
  BY DEF Spliced
<1>1. /\ q \in ListRecords /\ s \in Seq(Threads) /\ m \in Seq(Threads)
      /\ Distinct(s) /\ Distinct(m) /\ Elements(s) \cap Elements(m) = {}
      /\ L!TimerList(q) = m /\ Elements(m) \subseteq Threads
      /\ Elements(s) \subseteq Threads
  BY IsParts, ListsAre
<1>2. n \in 0..Len(m) /\ Elements(u) = {t \in Elements(m) : deadline[t] <= now}
  BY <1>1, DueIs
<1>3. r = IF u = <<>> THEN q
          ELSE [q EXCEPT
                  !.head = IF q.tail = NULL THEN q.timers ELSE @,
                  !.tail = L!Last(u),
                  !.timers = q.next[L!Last(u)],
                  !.next = [t \in Threads |->
                              IF t = L!Last(u) THEN NULL
                              ELSE IF t = q.tail THEN q.timers
                              ELSE q.next[t]],
                  !.state = [t \in Threads |->
                              IF t \in L!ToSet(u) THEN "active" ELSE q.state[t]]]
  BY <1>1 DEF L!ExpireTimers
<1> HIDE DEF n
<1>4. u \in Seq(Threads) /\ v \in Seq(Threads) /\ m = u \o v
  BY <1>1, <1>2, Cut
<1> HIDE DEF r, u, v
<1>5. L!Last(u) = u[Len(u)] /\ L!ToSet(u) = Elements(u)
  BY DEF L!Last, L!ToSet, Elements
<1>6. /\ Elements(m) = Elements(u) \cup Elements(v)
      /\ Elements(u) \cap Elements(v) = {}
      /\ Distinct(u) /\ Distinct(v)
  BY <1>1, <1>4, DistinctConcat, ElementsConcat
<1>7. /\ q.head = First(s, NULL) /\ Seg(q.next, s, NULL)
      /\ q.tail = IF s = <<>> THEN NULL ELSE s[Len(s)]
      /\ q.timers = First(m, NULL) /\ Seg(q.next, m, NULL)
      /\ \A p \in Threads \ (Elements(s) \cup Elements(m)) : q.next[p] = NULL
      /\ q.next \in [Threads -> Threads \cup {NULL}]
      /\ q.state \in [Threads -> States]
  BY <1>1 DEF Is, ListRecords
<1>8. Distinct((s \o u) \o v)
  <2>1. Distinct(s \o m)
    BY DEF Is
  <2>2. s \in Seq(Threads)
    BY DEF Is
  <2>3. Regroup(s, u, v)
    BY <1>4, <2>2, ConcatThree
  <2>4. (s \o u) \o v = s \o m
    BY ONLY <1>4, <2>3 DEF Regroup
  <2> QED BY <2>1, <2>4
<1>9. CASE u = <<>>
  <2>1. s \o u = s /\ v = m /\ r = q /\ Elements(u) = {}
    BY <1>1, <1>3, <1>4, <1>9, ConcatEmpty, EmptyQueue
  <2>2. Is(r, s \o u, v)
    BY <2>1
  <2>3. r.state = [t \in Threads |-> IF t \in Elements(u) THEN "active" ELSE q.state[t]]
    BY <1>7, <2>1
  <2> QED BY <1>2, <1>4, <2>2, <2>3 DEF r
<1>10. CASE u # <<>>
  <2> DEFINE l == u[Len(u)]
             last == One(l)
             nx == [t \in Threads |-> IF t = l THEN NULL
                                      ELSE IF t = q.tail THEN q.timers
                                      ELSE q.next[t]]
             st == [t \in Threads |-> IF t \in Elements(u) THEN "active" ELSE q.state[t]]
  <2>1. l \in Threads /\ \E f \in Seq(Threads) : u = f \o last
    BY <1>4, <1>10, CutLast
  <2>2. PICK f \in Seq(Threads) : u = f \o last
    BY <2>1
  <2>3. /\ last \in Seq(Threads) /\ \A e : First(last, e) = l
        /\ Elements(last) = {l} /\ \A next, e : Seg(next, last, e) <=> next[l] = e
    BY <2>1, OneIs, SegOne
  <2>4. r = [q EXCEPT !.head = IF q.tail = NULL THEN q.timers ELSE @,
                      !.tail = l, !.timers = q.next[l], !.next = nx, !.state = st]
    BY <1>3, <1>5, <1>10
  <2>5. st \in [Threads -> States]
    BY <1>7 DEF States
  <2>6. nx \in [Threads -> Threads \cup {NULL}]
    BY <1>1, <1>7 DEF ListRecords
  <2>7. /\ nx[l] = NULL
        /\ q.tail \in Threads \ {l} => nx[q.tail] = q.timers
        /\ \A p \in Threads \ {l, q.tail} : nx[p] = q.next[p]
    BY <2>1
  <2> HIDE DEF l, last, nx, st
  <2>8. /\ r \in ListRecords /\ r.head = (IF q.tail = NULL THEN q.timers ELSE q.head)
        /\ r.tail = l /\ r.timers = q.next[l] /\ r.next = nx /\ r.state = st
    BY <1>1, <2>1, <2>4, <2>5, <2>6 DEF ListRecords
  <2>9. l \notin Elements(f) /\ Elements(u) = Elements(f) \cup {l}
    BY <1>6, <2>2, <2>3, DistinctConcat, ElementsConcat
  <2>10. /\ Seg(q.next, u, First(v, NULL)) /\ Seg(q.next, v, NULL)
         /\ q.timers = First(u, First(v, NULL))
    BY <1>4, <1>7, SegConcat, FirstConcat
  <2>11. Seg(q.next, f, l) /\ q.next[l] = First(v, NULL)
    BY <2>2, <2>3, <2>10, SegConcat
  <2>12. q.tail = NULL \/ q.tail \in Elements(s)
    <3>1. s # <<>> => Len(s) \in DOMAIN s
      BY <1>1
    <3> QED BY <1>7, <3>1 DEF Elements
  <2>13. /\ l \notin Elements(s) /\ l \notin Elements(v)
         /\ q.tail \notin Elements(v) /\ q.tail \notin Elements(u)
         /\ Elements(u) \subseteq Threads /\ Elements(v) \subseteq Threads
    BY <1>1, <1>6, <2>9, <2>12, ThreadsAssumption
  <2>14. Seg(nx, v, NULL)
    <3>1. \A p \in Elements(v) : nx[p] = q.next[p]
      BY <2>7, <2>13
    <3> QED BY <1>4, <2>10, <3>1, SegKept
  <2>15. Seg(nx, u, NULL)
    <3>1. \A p \in Elements(f) : nx[p] = q.next[p]
      BY <2>7, <2>9, <2>13
    <3>2. Seg(nx, f, l)
      BY <2>11, <3>1, SegKept
    <3>3. Seg(nx, last, NULL) /\ First(last, NULL) = l
      BY <2>3, <2>7
    <3> QED BY <2>2, <2>3, <3>2, <3>3, SegConcat
  <2>16. Seg(nx, s, First(u, NULL)) /\ r.head = First(s \o u, NULL)
    <3>1. First(s \o u, NULL) = First(s, First(u, NULL))
      BY <1>1, <1>4, FirstConcat
    <3>2. q.timers = First(u, NULL)
      BY <1>10, <2>10 DEF First
    <3>3. CASE s = <<>>
      <4>1. Seg(nx, s, First(u, NULL))
        BY <3>3, SegEmpty
      <4>2. r.head = q.timers
        BY <1>7, <2>8, <3>3
      <4> QED BY <3>1, <3>2, <3>3, <4>1, <4>2 DEF First
    <3>4. CASE s # <<>>
      <4> DEFINE k == q.tail
                 end == One(k)
      <4>1. k \in Threads /\ \E g \in Seq(Threads) : s = g \o end
        <5>1. k = s[Len(s)]
          BY <1>7, <3>4
        <5> QED BY <1>1, <3>4, <5>1, CutLast
      <4>2. PICK g \in Seq(Threads) : s = g \o end
        BY <4>1
      <4> HIDE DEF k
      <4>3. /\ end \in Seq(Threads) /\ \A e : First(end, e) = k
            /\ Elements(end) = {k} /\ \A next, e : Seg(next, end, e) <=> next[k] = e
        BY <4>1, OneIs, SegOne
      <4> HIDE DEF end
      <4>4. k \notin Elements(g) /\ Elements(s) = Elements(g) \cup {k}
        BY <1>1, <4>2, <4>3, DistinctConcat, ElementsConcat
      <4>5. Seg(q.next, g, k)
        BY <1>7, <4>2, <4>3, SegConcat
      <4>6. Seg(nx, g, k)
        <5>1. \A p \in Elements(g) : nx[p] = q.next[p]
          BY <1>1, <2>7, <2>13, <4>4 DEF k
        <5> QED BY <4>5, <5>1, SegKept
      <4>7. nx[k] = First(u, NULL)
        <5>1. k # l
          BY <2>13, <4>4
        <5> QED BY <2>7, <3>2, <4>1, <5>1 DEF k
      <4>8. Seg(nx, s, First(u, NULL))
        <5>1. Seg(nx, end, First(u, NULL)) /\ First(end, First(u, NULL)) = k
          BY <4>3, <4>7
        <5> QED BY <4>2, <4>3, <4>6, <5>1, SegConcat
      <4>9. r.head = First(s, NULL)
        BY <1>7, <2>8, <4>1, ThreadsAssumption DEF k
      <4> QED BY <3>1, <3>4, <4>8, <4>9 DEF First
    <3> QED BY <3>3, <3>4
  <2> DEFINE w == s \o u
  <2>17. /\ w \in Seq(Threads) /\ Elements(w) = Elements(s) \cup Elements(u)
         /\ Seg(nx, w, NULL)
    BY <1>1, <1>4, <2>15, <2>16, ConcatIs, ElementsConcat, SegConcat
  <2>18. r.tail = IF w = <<>> THEN NULL ELSE w[Len(w)]
    <3>1. /\ Len(w) = Len(s) + Len(u) /\ Len(s) \in Nat /\ Len(u) \in Nat
          /\ \A i \in 1..Len(u) : w[Len(s) + i] = u[i]
      BY <1>1, <1>4, ConcatIs
    <3>2. Len(u) # 0
      BY <1>4, <1>10
    <3> HIDE DEF w
    <3>3. Len(u) \in 1..Len(u) /\ Len(w) # 0
      BY <3>1, <3>2
    <3>4. w[Len(w)] = l
      BY <3>1, <3>3 DEF l
    <3>5. w # <<>>
      BY <3>3
    <3> QED BY <2>8, <3>4, <3>5
  <2>19. \A p \in Threads \ (Elements(w) \cup Elements(v)) : nx[p] = NULL
    <3>1. TAKE p \in Threads \ (Elements(w) \cup Elements(v))
    <3>2. p \notin Elements(s) /\ p \notin Elements(m) /\ p # l
      BY <1>6, <2>9, <2>17
    <3>3. p # q.tail
      BY <2>12, <3>2, ThreadsAssumption
    <3> QED BY <1>7, <2>7, <3>2, <3>3
  <2>20. Distinct(w \o v)
    BY <1>8
  <2>21. r.head = First(w, NULL)
    BY <2>16
  <2> HIDE DEF w
  <2>22. Is(r, w, v)
    BY ONLY <1>4, <2>8, <2>11, <2>14, <2>17, <2>18, <2>19, <2>20, <2>21 DEF Is
  <2>23. r.state = [t \in Threads |-> IF t \in Elements(u) THEN "active" ELSE q.state[t]]
    BY <2>8 DEF st
  <2> QED BY <1>2, <1>4, <2>22, <2>23 DEF r, w
<1> QED BY <1>9, <1>10

\* The thread that yielded goes to the end of a queue that is not empty.
LEMMA PushYieldedIs ==
  ASSUME NEW q, NEW s, NEW m, Is(q, s, m), s # <<>>, running \in Threads
  PROVE  L!PushYielded(q) = L!Activate(q, running)
<1>1. q \in ListRecords /\ q.tail \in Threads
  BY DEF Is
<1>2. q.tail # NULL /\ running # NULL
  BY <1>1, ThreadsAssumption
<1>3. L!PushYielded(q) = [q EXCEPT !.next[q.tail] = running, !.tail = running]
  BY <1>2 DEF L!PushYielded
<1>4. L!Activate(q, running) = [q EXCEPT !.head = q.head,
                                   !.next = [q.next EXCEPT ![q.tail] = running],
                                   !.tail = running]
  BY <1>2 DEF L!Activate
<1> QED BY <1>1, <1>3, <1>4 DEF ListRecords

\* The scheduler takes the first thread that is not dead, and the dead ones
\* before it, out of a queue that is not empty.
LEMMA PopRunnableIs ==
  ASSUME NEW q, NEW s, NEW m, Is(q, s, m), s # <<>>
  PROVE  \E b, c \in Seq(Threads), x \in Threads :
            /\ s = (b \o One(x)) \o c
            /\ \A t \in Elements(b) : q.state[t] = "dead"
            /\ q.state[x] = "dead" => c = <<>>
            /\ L!PopRunnable(q).thread = IF q.state[x] = "dead" THEN NULL ELSE x
            /\ Is(L!PopRunnable(q).lists, c, m)
            /\ L!PopRunnable(q).lists.state = q.state
<1> DEFINE alive == {i \in DOMAIN s : q.state[s[i]] # "dead"}
           count == IF alive = {} THEN Len(s) ELSE L!Min(alive)
           popped == {s[i] : i \in 1..count}
           rest == q.next[s[count]]
           r == [q EXCEPT
                   !.head = rest,
                   !.tail = IF rest = NULL THEN NULL ELSE @,
                   !.next = [t \in Threads |-> IF t \in popped THEN NULL ELSE @[t]]]
<1>1. /\ q \in ListRecords /\ s \in Seq(Threads) /\ m \in Seq(Threads)
      /\ Distinct(s) /\ Distinct(m) /\ Elements(s) \cap Elements(m) = {}
      /\ L!ActiveQueue(q) = s /\ Elements(s) \subseteq Threads
      /\ Elements(m) \subseteq Threads
  BY IsParts, ListsAre
<1>2. /\ L!PopRunnable(q).thread = (IF alive = {} THEN NULL ELSE s[count])
      /\ L!PopRunnable(q).lists = r
  BY <1>1 DEF L!PopRunnable
<1>3. /\ count \in 1..Len(s) /\ Len(s) \in Nat
      /\ \A i \in 1..(count - 1) : q.state[s[i]] = "dead"
      /\ alive = {} <=> q.state[s[count]] = "dead"
      /\ q.state[s[count]] = "dead" => count = Len(s)
  <2>1. Len(s) \in Nat /\ Len(s) # 0 /\ DOMAIN s = 1..Len(s)
    BY <1>1
  <2>2. CASE alive = {}
    BY <2>1, <2>2
  <2>3. CASE alive # {}
    <3>1. alive \in SUBSET Nat
      BY <2>1
    <3>2. \E y \in alive : \A z \in alive : y <= z
      BY <2>3, <3>1, LeastNumber
    <3>3. L!Min(alive) = CHOOSE y \in alive : \A z \in alive : y <= z
      BY DEF L!Min
    <3>4. count \in alive /\ \A z \in alive : count <= z
      BY <2>3, <3>2, <3>3
    <3> HIDE DEF count
    <3>5. /\ count \in 1..Len(s) /\ q.state[s[count]] # "dead"
      BY <2>1, <3>4
    <3>6. \A i \in 1..(count - 1) : i \in DOMAIN s /\ ~(count <= i)
      BY <2>1, <3>5
    <3>7. \A i \in 1..(count - 1) : q.state[s[i]] = "dead"
      BY <3>4, <3>6
    <3> QED BY <2>1, <2>3, <3>5, <3>7
  <2> QED BY <2>2, <2>3
<1> DEFINE a == SubSeq(s, 1, count)
           c == SubSeq(s, count + 1, Len(s))
<1> HIDE DEF count
<1>4. /\ a \in Seq(Threads) /\ c \in Seq(Threads) /\ s = a \o c
      /\ Len(a) = count /\ \A i \in 1..count : a[i] = s[i]
      /\ Len(c) = Len(s) - count
  BY <1>1, <1>3, Cut
<1> HIDE DEF a, c
<1> DEFINE x == s[count]
<1>5. x \in Threads /\ \E b \in Seq(Threads) : a = b \o One(x)
  <2>1. a # <<>> /\ a[Len(a)] = x /\ x \in Threads
    BY <1>1, <1>3, <1>4
  <2> QED BY <1>4, <2>1, CutLast
<1>6. PICK b \in Seq(Threads) : a = b \o One(x)
  BY <1>5
<1>7. popped = Elements(a)
  <2>1. DOMAIN a = 1..count /\ \A i \in 1..count : a[i] = s[i]
    BY <1>4
  <2> QED BY <2>1 DEF Elements
<1>8. \A t \in Elements(b) : q.state[t] = "dead"
  <2>1. Len(a) = Len(b) + 1 /\ Len(b) \in Nat /\ DOMAIN b = 1..Len(b)
        /\ \A i \in 1..Len(b) : a[i] = b[i]
    <3>1. One(x) \in Seq(Threads) /\ Len(One(x)) = 1
      BY <1>5, OneIs
    <3>2. /\ Len(a) = Len(b) + Len(One(x)) /\ Len(b) \in Nat /\ DOMAIN b = 1..Len(b)
          /\ \A i \in 1..Len(b) : a[i] = b[i]
      BY <1>6, <3>1, ConcatIs
    <3> QED BY <3>1, <3>2
  <2>2. ASSUME NEW i \in 1..Len(b) PROVE q.state[b[i]] = "dead"
    <3>1. i \in 1..(count - 1) /\ i \in 1..count
      BY <1>3, <1>4, <2>1
    <3> QED BY <1>3, <1>4, <2>1, <3>1
  <2> QED BY <2>1, <2>2 DEF Elements
<1>9. q.state[x] = "dead" => c = <<>>
  BY <1>3, <1>4
<1>10. /\ Elements(s) = Elements(a) \cup Elements(c)
       /\ Elements(a) \cap Elements(c) = {} /\ Distinct(c)
  BY <1>1, <1>4, DistinctConcat, ElementsConcat
<1>11. /\ q.head = First(s, NULL) /\ Seg(q.next, s, NULL)
       /\ q.tail = IF s = <<>> THEN NULL ELSE s[Len(s)]
       /\ q.timers = First(m, NULL) /\ Seg(q.next, m, NULL)
       /\ \A p \in Threads \ (Elements(s) \cup Elements(m)) : q.next[p] = NULL
       /\ q.next \in [Threads -> Threads \cup {NULL}]
  BY <1>1 DEF Is, ListRecords
<1>12. rest = First(c, NULL) /\ Seg(q.next, c, NULL)
  <2>1. s = (b \o One(x)) \o c
    BY <1>4, <1>6
  <2> HIDE DEF x
  <2>2. b \in Seq(Threads) /\ c \in Seq(Threads) /\ x \in Threads
    BY <1>4, <1>5
  <2>3. q.next[x] = First(c, NULL) /\ Seg(q.next, c, NULL)
    <3>1. Seg(q.next, (b \o One(x)) \o c, NULL)
      BY <1>11, <2>1
    <3> QED BY ONLY <2>2, <3>1, MiddleIs
  <2> QED BY <2>3 DEF x
<1> DEFINE nx == [t \in Threads |-> IF t \in popped THEN NULL ELSE q.next[t]]
<1>13. /\ nx \in [Threads -> Threads \cup {NULL}]
       /\ \A t \in Threads : nx[t] = IF t \in Elements(a) THEN NULL ELSE q.next[t]
  BY <1>7, <1>11
<1>14. r = [q EXCEPT !.head = rest, !.tail = IF rest = NULL THEN NULL ELSE q.tail,
                     !.next = nx]
  OBVIOUS
<1> HIDE DEF rest, nx, popped, r
<1>15. /\ r \in ListRecords /\ r.head = rest
       /\ r.tail = (IF rest = NULL THEN NULL ELSE q.tail)
       /\ r.next = nx /\ r.timers = q.timers /\ r.state = q.state
  <2>1. rest \in Threads \cup {NULL}
    BY <1>1, <1>3, <1>11 DEF rest
  <2> QED BY <1>1, <1>13, <1>14, <2>1 DEF ListRecords
<1>16. Seg(nx, c, NULL)
  <2>1. \A p \in Elements(c) : nx[p] = q.next[p]
    BY <1>1, <1>10, <1>13
  <2> QED BY <1>4, <1>12, <2>1, SegKept
<1>17. Seg(nx, m, NULL)
  <2>1. \A p \in Elements(m) : nx[p] = q.next[p]
    BY <1>1, <1>10, <1>13
  <2> QED BY <1>1, <1>11, <2>1, SegKept
<1>18. r.tail = IF c = <<>> THEN NULL ELSE c[Len(c)]
  <2>1. CASE c = <<>>
    BY <1>12, <1>15, <2>1 DEF First
  <2>2. CASE c # <<>>
    <3>1. rest # NULL
      BY <1>1, <1>4, <1>10, <1>12, <2>2, FirstIn, ThreadsAssumption
    <3>2. Len(c) \in 1..Len(c) /\ count + Len(c) = Len(s)
      <4>1. Len(c) \in Nat /\ Len(c) # 0
        BY <1>4, <2>2
      <4>2. count \in Int /\ Len(s) \in Int /\ Len(c) = Len(s) - count
        BY <1>3, <1>4
      <4> QED BY <4>1, <4>2
    <3>3. \A i \in 1..Len(c) : s[Len(a) + i] = c[i]
      BY <1>4, ConcatIs
    <3>4. s[Len(s)] = c[Len(c)]
      BY <1>4, <3>2, <3>3
    <3> QED BY <1>11, <1>15, <2>2, <3>1, <3>4
  <2> QED BY <2>1, <2>2
<1>19. Distinct(c \o m)
  <2>1. Elements(c) \cap Elements(m) = {}
    BY <1>1, <1>10
  <2> QED BY <1>1, <1>4, <1>10, <2>1, DistinctConcat
<1>20. \A p \in Threads \ (Elements(c) \cup Elements(m)) : nx[p] = NULL
  BY <1>10, <1>11, <1>13
<1>21. r.head = First(c, NULL) /\ r.timers = First(m, NULL)
  BY <1>11, <1>12, <1>15
<1>22. m \in Seq(Threads)
  BY <1>1
<1>23. Is(r, c, m)
  BY ONLY <1>4, <1>15, <1>16, <1>17, <1>18, <1>19, <1>20, <1>21, <1>22 DEF Is
<1>24. L!PopRunnable(q).thread = IF q.state[x] = "dead" THEN NULL ELSE x
  BY <1>2, <1>3
<1>25. s = (b \o One(x)) \o c
  BY <1>4, <1>6
<1>26. L!PopRunnable(q).lists = r
  BY <1>2
<1> HIDE DEF x
<1> QED BY <1>4, <1>5, <1>8, <1>9, <1>15, <1>23, <1>24, <1>25, <1>26

\* Two parts of a sorted list.
LEMMA SortedConcat ==
  ASSUME NEW d, NEW u \in Seq(Threads), NEW v \in Seq(Threads)
  PROVE  SortedBy(d, u \o v) <=> /\ SortedBy(d, u) /\ SortedBy(d, v)
                            /\ \A x \in Elements(u), y \in Elements(v) :
                                  d[x] <= d[y]
<1>1. /\ \A x \in Elements(u) : x \in Threads
      /\ \A x \in Elements(v) : x \in Threads
  BY DEF Elements
<1>2. \A x, y : Precedes(u \o v, x, y)
                   <=> \/ Precedes(u, x, y) \/ Precedes(v, x, y)
                       \/ x \in Elements(u) /\ y \in Elements(v)
  BY PrecedesConcat
<1> QED BY <1>1, <1>2 DEF SortedBy

LEMMA SortedOne == ASSUME NEW d, NEW t \in Threads PROVE SortedBy(d, One(t))
  BY PrecedesOne DEF SortedBy

LEMMA SortedFirst ==
  ASSUME NEW v \in Seq(Threads), Sorted(v), deadline \in [Threads -> Int],
         NEW x \in Elements(v)
  PROVE  /\ First(v, NULL) \in Threads
         /\ deadline[First(v, NULL)] <= deadline[x]
<1>1. PICK i \in 1..Len(v) : v[i] = x
  BY DEF Elements
<1>2. v # <<>> /\ 1 \in DOMAIN v /\ v[1] \in Threads /\ First(v, NULL) = v[1]
  BY <1>1 DEF First
<1>3. CASE i = 1
  BY <1>1, <1>2, <1>3
<1>4. CASE i # 1
  <2>1. Precedes(v, v[1], x)
    BY <1>1, <1>2, <1>4 DEF Precedes
  <2>2. x \in Threads
    BY <1>1
  <2> QED BY <1>2, <2>1, <2>2 DEF Sorted, SortedBy
<1> QED BY <1>3, <1>4

\* t is in the timer list between those that wait no longer and the others.
Inserted(q, s, m, t, time) ==
    LET r == L!InsertTimer(q, t, time)
    IN  \E u, v \in Seq(Threads) :
            /\ m = u \o v
            /\ Is(r, s, (u \o One(t)) \o v)
            /\ r.state = q.state
            /\ \A x \in Elements(u) : deadline[x] <= time
            /\ \A x \in Elements(v) : time <= deadline[x]

\* A thread that waits for a time goes on the timer list, behind those that
\* wait for the same time.
LEMMA InsertTimerIs ==
  ASSUME NEW q, NEW s, NEW m, Is(q, s, m), Sorted(m), deadline \in [Threads -> Int],
         NEW t \in Threads, t \notin Elements(s), t \notin Elements(m), NEW time \in Int
  PROVE  Inserted(q, s, m, t, time)
<1> DEFINE later(x) == x = NULL \/ time < deadline[x]
           behind == {i \in DOMAIN m : later(q.next[m[i]])}
           l == m[L!Min(behind)]
           r == L!InsertTimer(q, t, time)
<1> SUFFICES \E u, v \in Seq(Threads) :
                /\ m = u \o v
                /\ Is(r, s, (u \o One(t)) \o v)
                /\ r.state = q.state
                /\ \A x \in Elements(u) : deadline[x] <= time
                /\ \A x \in Elements(v) : time <= deadline[x]
  BY DEF Inserted
<1>1. /\ q \in ListRecords /\ s \in Seq(Threads) /\ m \in Seq(Threads)
      /\ Distinct(s) /\ Distinct(m) /\ Elements(s) \cap Elements(m) = {}
      /\ L!TimerList(q) = m /\ Elements(s) \subseteq Threads
      /\ Elements(m) \subseteq Threads
  BY IsParts, ListsAre
<1>2. r = IF later(q.timers) THEN [q EXCEPT !.next[t] = q.timers, !.timers = t]
          ELSE [q EXCEPT !.next = [@ EXCEPT ![t] = q.next[l], ![l] = t]]
  BY <1>1 DEF L!InsertTimer
<1>3. /\ q.head = First(s, NULL) /\ Seg(q.next, s, NULL)
      /\ q.tail = IF s = <<>> THEN NULL ELSE s[Len(s)]
      /\ q.timers = First(m, NULL) /\ Seg(q.next, m, NULL)
      /\ \A p \in Threads \ (Elements(s) \cup Elements(m)) : q.next[p] = NULL
      /\ q.next \in [Threads -> Threads \cup {NULL}]
      /\ q.timers \in Threads \cup {NULL}
  BY <1>1 DEF Is, ListRecords
<1>4. \A x \in Threads : ~(time < deadline[x]) => deadline[x] <= time
  OBVIOUS
<1>5. CASE later(q.timers)
  <2> DEFINE w == One(t) \o m
  <2>1. /\ One(t) \in Seq(Threads) /\ Elements(One(t)) = {t}
        /\ \A e : First(One(t), e) = t
        /\ \A next, e : Seg(next, One(t), e) <=> next[t] = e
        /\ Distinct(One(t))
    BY OneIs, SegOne
  <2>2. (<<>> \o One(t)) \o m = w /\ <<>> \o m = m /\ <<>> \in Seq(Threads)
        /\ Elements(<<>>) = {}
    BY <1>1, <2>1, ConcatEmpty, EmptyQueue
  <2>3. /\ r \in ListRecords /\ r.head = q.head /\ r.tail = q.tail
        /\ r.next = [q.next EXCEPT ![t] = q.timers] /\ r.timers = t
        /\ r.state = q.state
    <3>1. r = [q EXCEPT !.next[t] = q.timers, !.timers = t]
      BY <1>2, <1>5
    <3> HIDE DEF r
    <3> QED BY <1>1, <1>3, <3>1 DEF ListRecords
  <2> HIDE DEF r
  <2>4. r.next[t] = q.timers /\ \A p \in Threads \ {t} : r.next[p] = q.next[p]
    BY <1>3, <2>3
  <2>5. Seg(r.next, s, NULL)
    <3>1. \A p \in Elements(s) : r.next[p] = q.next[p]
      BY <1>1, <2>4
    <3> QED BY <1>1, <1>3, <3>1, SegKept
  <2>6. Seg(r.next, m, NULL)
    <3>1. \A p \in Elements(m) : r.next[p] = q.next[p]
      BY <1>1, <2>4
    <3> QED BY <1>1, <1>3, <3>1, SegKept
  <2>7. w \in Seq(Threads) /\ Elements(w) = {t} \cup Elements(m) /\ First(w, NULL) = t
    BY <1>1, <2>1, ConcatIs, ElementsConcat, FirstConcat
  <2>8. Seg(r.next, w, NULL)
    <3>1. Seg(r.next, One(t), First(m, NULL))
      BY <1>3, <2>1, <2>4
    <3> QED BY <1>1, <2>1, <2>6, <3>1, SegConcat
  <2>9. Distinct(s \o w)
    <3>1. Distinct(w)
      <4>1. Elements(One(t)) \cap Elements(m) = {}
        BY <2>1
      <4> QED BY <1>1, <2>1, <4>1, DistinctConcat
    <3>2. Elements(s) \cap Elements(w) = {}
      BY <1>1, <2>7
    <3> HIDE DEF w
    <3> QED BY <1>1, <2>7, <3>1, <3>2, DistinctConcat
  <2>10. \A p \in Threads \ (Elements(s) \cup Elements(w)) : r.next[p] = NULL
    BY <1>3, <2>4, <2>7
  <2>11. r.head = First(s, NULL) /\ r.tail = (IF s = <<>> THEN NULL ELSE s[Len(s)])
         /\ r.timers = First(w, NULL) /\ s \in Seq(Threads)
    BY <1>1, <1>3, <2>3, <2>7
  <2>12. Is(r, s, w)
    BY ONLY <2>3, <2>5, <2>7, <2>8, <2>9, <2>10, <2>11 DEF Is
  <2>13. \A x \in Elements(m) : time <= deadline[x]
    <3>1. TAKE x \in Elements(m)
    <3>2. /\ First(m, NULL) \in Threads
          /\ deadline[First(m, NULL)] <= deadline[x]
      BY <1>1, SortedFirst
    <3>3. time < deadline[First(m, NULL)]
      BY <1>3, <1>5, <3>2, ThreadsAssumption
    <3>4. deadline[First(m, NULL)] \in Int /\ deadline[x] \in Int
      BY <1>1, <3>2
    <3> QED BY ONLY <3>2, <3>3, <3>4, time \in Int
  <2> HIDE DEF w
  <2> QED BY <1>1, <2>2, <2>3, <2>12, <2>13 DEF r
<1>6. CASE ~later(q.timers)
  <2> DEFINE k == L!Min(behind)
  <2>1. m # <<>> /\ Len(m) \in Nat /\ Len(m) # 0 /\ DOMAIN m = 1..Len(m)
    <3>1. m # <<>>
      BY <1>3, <1>6 DEF First
    <3> QED BY <1>1, <3>1
  <2>2. /\ k \in 1..Len(m) /\ later(q.next[m[k]])
        /\ \A i \in 1..(k - 1) : ~later(q.next[m[i]])
    <3>1. Len(m) \in behind
      BY <1>3, <2>1 DEF Seg
    <3>2. behind \in SUBSET Nat
      BY <2>1
    <3>3. \E y \in behind : \A z \in behind : y <= z
      BY <3>1, <3>2, LeastNumber
    <3>4. k = CHOOSE y \in behind : \A z \in behind : y <= z
      BY DEF L!Min
    <3>5. k \in behind /\ \A z \in behind : k <= z
      BY <3>3, <3>4
    <3> HIDE DEF k
    <3>6. k \in 1..Len(m) /\ later(q.next[m[k]])
      BY <2>1, <3>5
    <3>7. \A i \in 1..(k - 1) : i \in DOMAIN m /\ ~(k <= i)
      BY <2>1, <3>6
    <3>8. \A i \in 1..(k - 1) : ~later(q.next[m[i]])
      BY <3>5, <3>7
    <3> QED BY <3>6, <3>8
  <2>3. l = m[k]
    OBVIOUS
  <2> HIDE DEF k, l
  <2> DEFINE u == SubSeq(m, 1, k)
             v == SubSeq(m, k + 1, Len(m))
  <2>4. /\ u \in Seq(Threads) /\ v \in Seq(Threads) /\ m = u \o v
        /\ Len(u) = k /\ \A i \in 1..k : u[i] = m[i]
    <3>1. k \in 0..Len(m)
      BY <1>1, <2>2
    <3>2. m \in Seq(Threads)
      BY <1>1
    <3> QED BY ONLY <3>1, <3>2, Cut DEF u, v
  <2> HIDE DEF u, v
  <2>5. l \in Threads /\ \E f \in Seq(Threads) : u = f \o One(l)
    <3>1. u # <<>> /\ u[Len(u)] = l
      BY <2>2, <2>3, <2>4
    <3> QED BY <2>4, <3>1, CutLast
  <2>6. PICK f \in Seq(Threads) : u = f \o One(l)
    BY <2>5
  <2>7. \A x \in Elements(u) : deadline[x] <= time
    <3>1. TAKE x \in Elements(u)
    <3>2. PICK i \in 1..k : m[i] = x /\ i \in 1..Len(m)
      <4>1. DOMAIN u = 1..k
        BY <2>2, <2>4
      <4> QED BY <2>1, <2>2, <2>4, <4>1 DEF Elements
    <3>3. x \in Threads
      BY <1>1, <3>2
    <3>4. CASE i = 1
      <4>1. x = q.timers
        BY <1>3, <2>1, <3>2, <3>4 DEF First
      <4> QED BY <1>4, <1>6, <3>3, <4>1
    <3>5. CASE i # 1
      <4>1. /\ i - 1 \in 1..(k - 1) /\ i - 1 \in DOMAIN m /\ i - 1 # Len(m)
            /\ (i - 1) + 1 = i
        BY <2>1, <2>2, <3>2, <3>5
      <4>2. q.next[m[i - 1]] = m[i]
        BY <1>3, <4>1 DEF Seg
      <4> QED BY <1>4, <2>2, <3>2, <3>3, <4>1, <4>2
    <3> QED BY <3>4, <3>5
  <2> DEFINE w == (u \o One(t)) \o v
  <2>8. /\ One(l) \in Seq(Threads) /\ Elements(One(l)) = {l}
        /\ \A e : First(One(l), e) = l
        /\ \A next, e : Seg(next, One(l), e) <=> next[l] = e
    BY <2>5, OneIs, SegOne
  <2>9. /\ Elements(m) = Elements(u) \cup Elements(v)
        /\ Elements(u) \cap Elements(v) = {} /\ Distinct(u)
        /\ Elements(u) = Elements(f) \cup {l} /\ l \notin Elements(f)
    <3>1. /\ Elements(m) = Elements(u) \cup Elements(v)
          /\ Elements(u) \cap Elements(v) = {} /\ Distinct(u)
      BY <1>1, <2>4, DistinctConcat, ElementsConcat
    <3> QED BY <2>6, <2>8, <3>1, DistinctConcat, ElementsConcat
  <2>10. /\ q.next[l] = First(v, NULL) /\ Seg(q.next, v, NULL) /\ Seg(q.next, f, l)
         /\ q.timers = First(u, First(v, NULL))
    <3>1. /\ Seg(q.next, u, First(v, NULL)) /\ Seg(q.next, v, NULL)
          /\ q.timers = First(u, First(v, NULL))
      BY <1>3, <2>4, SegConcat, FirstConcat
    <3> QED BY <2>6, <2>8, <3>1, SegConcat
  <2>11. \A x \in Elements(v) : time <= deadline[x]
    <3>1. TAKE x \in Elements(v)
    <3>2. Sorted(v)
      BY <2>4, SortedConcat DEF Sorted
    <3>3. /\ First(v, NULL) \in Threads
          /\ deadline[First(v, NULL)] <= deadline[x]
      BY <2>4, <3>2, SortedFirst
    <3>4. time < deadline[First(v, NULL)]
      BY <2>2, <2>3, <2>10, <3>3, ThreadsAssumption
    <3>5. deadline[First(v, NULL)] \in Int /\ deadline[x] \in Int
      <4>1. x \in Threads
        BY <1>1, <2>9
      <4> QED BY <3>3, <4>1
    <3> QED BY ONLY <3>3, <3>4, <3>5, time \in Int
  <2> DEFINE nx == [[q.next EXCEPT ![t] = q.next[l]] EXCEPT ![l] = t]
  <2>12. t # l
    BY <1>1, <2>9
  <2>13. /\ nx \in [Threads -> Threads \cup {NULL}]
         /\ nx[l] = t /\ nx[t] = First(v, NULL)
         /\ \A p \in Threads \ {l, t} : nx[p] = q.next[p]
    BY <1>3, <2>5, <2>10, <2>12
  <2> HIDE DEF nx
  <2>14. /\ r \in ListRecords /\ r.head = q.head /\ r.tail = q.tail
         /\ r.next = nx /\ r.timers = q.timers /\ r.state = q.state
    <3>1. r = [q EXCEPT !.next = nx]
      BY <1>2, <1>6 DEF nx
    <3> HIDE DEF r
    <3> QED BY <1>1, <2>13, <3>1 DEF ListRecords
  <2> HIDE DEF r
  <2>15. Seg(nx, s, NULL)
    <3>1. \A p \in Elements(s) : nx[p] = q.next[p]
      BY <1>1, <2>9, <2>13
    <3> QED BY <1>1, <1>3, <3>1, SegKept
  <2>16. Seg(nx, v, NULL)
    <3>1. \A p \in Elements(v) : nx[p] = q.next[p]
      BY <1>1, <2>9, <2>13
    <3> QED BY <2>4, <2>10, <3>1, SegKept
  <2>17. Seg(nx, u, t)
    <3>1. \A p \in Elements(f) : nx[p] = q.next[p]
      BY <1>1, <2>9, <2>13
    <3>2. Seg(nx, f, l)
      BY <2>10, <3>1, SegKept
    <3>3. Seg(nx, One(l), t)
      BY <2>8, <2>13
    <3> QED BY <2>6, <2>8, <3>2, <3>3, SegConcat
  <2>18. /\ w \in Seq(Threads) /\ Elements(w) = Elements(m) \cup {t}
         /\ Distinct(w) /\ Seg(nx, w, NULL) /\ First(w, NULL) = First(u, t)
    <3>1. Distinct(u \o v) /\ t \notin Elements(u) /\ t \notin Elements(v)
      BY <1>1, <2>4, <2>9
    <3> QED BY <2>4, <2>9, <2>13, <2>16, <2>17, <3>1, MiddleIs
  <2>19. q.timers = First(w, NULL)
    <3>1. u # <<>>
      BY <2>2, <2>4
    <3> QED BY <2>10, <2>18, <3>1 DEF First
  <2> HIDE DEF w
  <2>20. Distinct(s \o w)
    <3>1. Elements(s) \cap Elements(w) = {}
      BY <1>1, <2>18
    <3> QED BY <1>1, <2>18, <3>1, DistinctConcat
  <2>21. \A p \in Threads \ (Elements(s) \cup Elements(w)) : r.next[p] = NULL
    BY <1>3, <2>9, <2>13, <2>14, <2>18
  <2>22. r.head = First(s, NULL) /\ r.tail = (IF s = <<>> THEN NULL ELSE s[Len(s)])
         /\ r.timers = First(w, NULL) /\ s \in Seq(Threads)
         /\ Seg(r.next, s, NULL) /\ Seg(r.next, w, NULL)
    BY <1>1, <1>3, <2>14, <2>15, <2>18, <2>19
  <2>23. Is(r, s, w)
    BY ONLY <2>14, <2>18, <2>20, <2>21, <2>22 DEF Is
  <2> QED BY <2>4, <2>7, <2>11, <2>14, <2>23 DEF r, w
<1> QED BY <1>5, <1>6

-----------------------------------------------------------------------------
(* The queue without its dead threads. *)

\* Taking an element out does not change the order of the others.
LEMMA PrecedesWithout ==
  ASSUME NEW s \in Seq(Threads), Distinct(s), NEW t, NEW x, NEW y,
         Precedes(Without(s, t), x, y)
  PROVE  Precedes(s, x, y)
<1>1. CASE t \notin Elements(s)
  BY <1>1, WithoutNone
<1>2. CASE t \in Elements(s)
  <2>1. t \in Threads
    BY <1>2 DEF Elements
  <2>2. PICK u \in Seq(Threads), v \in Seq(Threads) : s = (u \o One(t)) \o v
    BY <1>2, CutAt
  <2>3. Without(s, t) = u \o v
    BY <2>1, <2>2, WithoutMiddle
  <2>4. /\ One(t) \in Seq(Threads) /\ u \o One(t) \in Seq(Threads)
        /\ Elements(u) \subseteq Elements(u \o One(t))
    BY <2>1, OneIs, ConcatIs, ElementsConcat
  <2>5. Precedes(u, x, y) \/ Precedes(v, x, y) \/ (x \in Elements(u) /\ y \in Elements(v))
    BY <2>3, PrecedesConcat
  <2>6. Precedes(u, x, y) => Precedes(u \o One(t), x, y)
    BY <2>4, PrecedesConcat
  <2>7. x \in Elements(u) => x \in Elements(u \o One(t))
    BY <2>4
  <2> HIDE DEF One
  <2> QED BY <2>2, <2>4, <2>5, <2>6, <2>7, PrecedesConcat
<1> QED BY <1>1, <1>2

\* a is the queue s without the threads that are dead in st.
Live(st, s, a) ==
    /\ a \in Seq(Threads)
    /\ Distinct(a)
    /\ Elements(a) = {t \in Elements(s) : st[t] # "dead"}
    /\ \A x, y : Precedes(a, x, y) => Precedes(s, x, y)

\* There is only one: two of them would differ first at some place, and have
\* the elements of that place in opposite orders.
LEMMA LiveUnique ==
  ASSUME NEW st, NEW s \in Seq(Threads), Distinct(s), NEW a, NEW b,
         Live(st, s, a), Live(st, s, b)
  PROVE  a = b
<1>1. /\ a \in Seq(Threads) /\ Distinct(a) /\ b \in Seq(Threads) /\ Distinct(b)
      /\ Elements(a) = Elements(b)
      /\ \A x, y : Precedes(a, x, y) => Precedes(s, x, y)
      /\ \A x, y : Precedes(b, x, y) => Precedes(s, x, y)
  BY DEF Live
<1>2. Len(a) = Len(b) /\ Len(a) \in Nat /\ DOMAIN a = 1..Len(a) /\ DOMAIN b = 1..Len(a)
  <2>1. Len(a) = Len(b)
    BY <1>1, QueueLength
  <2> QED BY <1>1, <2>1
<1>3. ASSUME NEW n \in 1..Len(a), a[n] # b[n] PROVE FALSE
  <2> DEFINE T == {k \in 1..Len(a) : a[k] # b[k]}
  <2>1. T \in SUBSET Nat /\ T # {}
    BY <1>2, <1>3
  <2>2. PICK i \in T : \A k \in T : i <= k
    BY <2>1, LeastNumber
  <2>3. i \in 1..Len(a) /\ a[i] # b[i] /\ a[i] \in Elements(b) /\ b[i] \in Elements(a)
    BY <1>1, <1>2, <2>2 DEF Elements
  <2>4. PICK j \in 1..Len(a) : a[j] = b[i]
    BY <1>2, <2>3 DEF Elements
  <2>5. PICK k \in 1..Len(a) : b[k] = a[i]
    BY <1>2, <2>3 DEF Elements
  <2>6. i < j
    <3>1. j # i
      BY <2>3, <2>4
    <3>2. ~ (j < i)
      <4> SUFFICES ASSUME j < i PROVE FALSE
        OBVIOUS
      <4>1. ~ (i <= j)
        BY <1>2, <2>3, <2>4
      <4>2. j \notin T
        BY <2>2, <4>1
      <4>3. b[j] = b[i]
        BY <2>4, <4>2
      <4> QED BY <1>1, <1>2, <2>3, <2>4, <3>1, <4>3 DEF Distinct
    <3> QED BY <1>2, <2>3, <2>4, <3>1, <3>2
  <2>7. i < k
    <3>1. k # i
      BY <2>3, <2>5
    <3>2. ~ (k < i)
      <4> SUFFICES ASSUME k < i PROVE FALSE
        OBVIOUS
      <4>1. ~ (i <= k)
        BY <1>2, <2>3, <2>5
      <4>2. k \notin T
        BY <2>2, <4>1
      <4>3. a[k] = a[i]
        BY <2>5, <4>2
      <4> QED BY <1>1, <1>2, <2>3, <2>5, <3>1, <4>3 DEF Distinct
    <3> QED BY <1>2, <2>3, <2>5, <3>1, <3>2
  <2>8. Precedes(a, a[i], b[i])
    BY <1>2, <2>3, <2>4, <2>6 DEF Precedes
  <2>9. Precedes(b, b[i], a[i])
    BY <1>2, <2>3, <2>5, <2>7 DEF Precedes
  <2> QED BY <1>1, <2>8, <2>9, PrecedesStrict
<1>4. \A n \in 1..Len(a) : a[n] = b[n]
  BY <1>3
<1> QED BY <1>1, <1>2, <1>4

\* A queue without repetition is one of the orders of its elements.
LEMMA OrdersOf ==
  ASSUME NEW s \in Seq(Threads), Distinct(s)
  PROVE  s \in Orders(Elements(s)) /\ IsFiniteSet(Elements(s))
<1>1. Cardinality(Elements(s)) = Len(s)
  BY QueueLength
<1>2. s \in [1..Len(s) -> Elements(s)]
  BY DEF Elements
<1>3. IsFiniteSet(Elements(s))
  <2>1. Elements(s) \subseteq Threads
    BY DEF Elements
  <2> QED BY <2>1, ThreadsAssumption, FS_Subset
<1> QED BY <1>1, <1>2, <1>3 DEF Orders

\* The refinement mapping computes it.
LEMMA LiveIs ==
  ASSUME NEW q, NEW s, NEW m, NEW a, Is(q, s, m), Live(q.state, s, a)
  PROVE  ActiveIn(q) = a
<1> DEFINE D == {t \in Elements(s) : q.state[t] # "dead"}
           Fits(c) == \A i, j \in DOMAIN c : i < j => Precedes(s, c[i], c[j])
           c == CHOOSE e \in Orders(D) : Fits(e)
<1>1. s \in Seq(Threads) /\ Distinct(s) /\ L!ActiveQueue(q) = s
  BY IsParts, ListsAre
<1>2. ActiveIn(q) = c
  BY <1>1 DEF ActiveIn
<1>3. /\ a \in Seq(Threads) /\ Distinct(a) /\ Elements(a) = D
      /\ \A x, y : Precedes(a, x, y) => Precedes(s, x, y)
  BY DEF Live
<1>4. a \in Orders(D) /\ IsFiniteSet(D)
  BY <1>3, OrdersOf
<1>5. Fits(a)
  <2> SUFFICES ASSUME NEW i \in DOMAIN a, NEW j \in DOMAIN a, i < j
               PROVE  Precedes(s, a[i], a[j])
    OBVIOUS
  <2>1. Precedes(a, a[i], a[j])
    BY DEF Precedes
  <2> QED BY <1>3, <2>1
<1>6. c \in Orders(D) /\ Fits(c)
  BY <1>4, <1>5
<1> HIDE DEF c
<1>7. c \in Seq(D) /\ Distinct(c) /\ Elements(c) = D
  BY <1>4, <1>6, OrderElements
<1>8. c \in Seq(Threads)
  <2>1. D \subseteq Threads
    BY <1>1, IsParts
  <2> QED BY <1>7, <2>1
<1>9. \A x, y : Precedes(c, x, y) => Precedes(s, x, y)
  BY <1>6 DEF Precedes
<1>10. Live(q.state, s, c)
  BY <1>7, <1>8, <1>9 DEF Live
<1> QED BY <1>1, <1>2, <1>10, LiveUnique

\* Threads that are not dead join the queue.
LEMMA LiveConcat ==
  ASSUME NEW st, NEW s \in Seq(Threads), NEW a, Live(st, s, a),
         NEW u \in Seq(Threads), Distinct(s \o u), \A t \in Elements(u) : st[t] # "dead"
  PROVE  Live(st, s \o u, a \o u)
<1>1. /\ a \in Seq(Threads) /\ Distinct(a)
      /\ Elements(a) = {t \in Elements(s) : st[t] # "dead"}
      /\ \A x, y : Precedes(a, x, y) => Precedes(s, x, y)
  BY DEF Live
<1>2. Elements(s) \cap Elements(u) = {} /\ Distinct(u)
  BY DistinctConcat
<1>3. Elements(a \o u) = Elements(a) \cup Elements(u) /\ a \o u \in Seq(Threads)
  BY <1>1, ElementsConcat, ConcatIs
<1>4. Distinct(a \o u)
  <2>1. Elements(a) \cap Elements(u) = {}
    BY <1>1, <1>2
  <2> QED BY <1>1, <1>2, <2>1, DistinctConcat
<1>5. Elements(a \o u) = {t \in Elements(s \o u) : st[t] # "dead"}
  <2>1. Elements(s \o u) = Elements(s) \cup Elements(u)
    BY ElementsConcat
  <2> QED BY <1>1, <1>3, <2>1
<1>6. ASSUME NEW x, NEW y, Precedes(a \o u, x, y) PROVE Precedes(s \o u, x, y)
  <2>1. \/ Precedes(a, x, y) \/ Precedes(u, x, y)
        \/ x \in Elements(a) /\ y \in Elements(u)
    BY <1>1, <1>6, PrecedesConcat
  <2>2. \/ Precedes(s, x, y) \/ Precedes(u, x, y)
        \/ x \in Elements(s) /\ y \in Elements(u)
    BY <1>1, <2>1
  <2> QED BY <2>2, PrecedesConcat
<1> QED BY <1>3, <1>4, <1>5, <1>6 DEF Live

\* Only which threads of the queue are dead matters.
LEMMA LiveState ==
  ASSUME NEW st, NEW other, NEW s, NEW a, Live(st, s, a),
         \A t \in Elements(s) : other[t] = "dead" <=> st[t] = "dead"
  PROVE  Live(other, s, a)
<1>1. {t \in Elements(s) : other[t] # "dead"} = {t \in Elements(s) : st[t] # "dead"}
  OBVIOUS
<1> QED BY <1>1 DEF Live

\* A thread dies.
LEMMA LiveWithout ==
  ASSUME NEW st, NEW other, NEW s, NEW a, Live(st, s, a), NEW t,
         other[t] = "dead",
         \A u \in Elements(s) \ {t} : other[u] = "dead" <=> st[u] = "dead"
  PROVE  Live(other, s, Without(a, t))
<1>1. /\ a \in Seq(Threads) /\ Distinct(a)
      /\ Elements(a) = {u \in Elements(s) : st[u] # "dead"}
      /\ \A x, y : Precedes(a, x, y) => Precedes(s, x, y)
  BY DEF Live
<1>2. /\ Without(a, t) \in Seq(Threads) /\ Distinct(Without(a, t))
      /\ Elements(Without(a, t)) = Elements(a) \ {t}
  BY <1>1, WithoutElement
<1>3. \A x, y : Precedes(Without(a, t), x, y) => Precedes(s, x, y)
  BY <1>1, PrecedesWithout
<1>4. Elements(a) \ {t} = {u \in Elements(s) : other[u] # "dead"}
  BY <1>1
<1> QED BY <1>2, <1>3, <1>4 DEF Live

\* Every thread of the queue is dead.
LEMMA LiveNone ==
  ASSUME NEW st, NEW s, NEW a, Live(st, s, a), \A t \in Elements(s) : st[t] = "dead"
  PROVE  a = <<>>
<1>1. a \in Seq(Threads) /\ Elements(a) = {}
  BY DEF Live
<1>2. 1 \notin DOMAIN a
  BY <1>1 DEF Elements
<1> QED BY <1>1, <1>2

\* The dead threads at the front and the first one that is not are taken out.
LEMMA LivePop ==
  ASSUME NEW st, NEW b \in Seq(Threads), NEW x \in Threads, NEW c \in Seq(Threads),
         Distinct((b \o One(x)) \o c),
         \A t \in Elements(b) : st[t] = "dead", st[x] # "dead",
         NEW a, Live(st, (b \o One(x)) \o c, a)
  PROVE  a # <<>> /\ Head(a) = x /\ Live(st, c, Tail(a))
<1> DEFINE f == b \o One(x)
           s == f \o c
<1>1. /\ a \in Seq(Threads) /\ Distinct(a)
      /\ Elements(a) = {t \in Elements(s) : st[t] # "dead"}
      /\ \A y, z : Precedes(a, y, z) => Precedes(s, y, z)
  BY DEF Live
<1>2. /\ f \in Seq(Threads) /\ Elements(f) = Elements(b) \cup {x}
      /\ One(x) \in Seq(Threads)
  BY OneIs, ElementsConcat, ConcatIs
<1> HIDE DEF f
<1>3. /\ s \in Seq(Threads) /\ Elements(s) = Elements(f) \cup Elements(c)
      /\ Distinct(s) /\ Distinct(c) /\ Elements(f) \cap Elements(c) = {}
  <2>1. Distinct(s)
    BY DEF f
  <2> QED BY <1>2, <2>1, ConcatIs, ElementsConcat, DistinctConcat
<1>4. \A y, z : Precedes(s, y, z) <=> \/ Precedes(f, y, z) \/ Precedes(c, y, z)
                                      \/ y \in Elements(f) /\ z \in Elements(c)
  BY <1>2, PrecedesConcat
<1> HIDE DEF s
<1>5. x \in Elements(a)
  BY <1>1, <1>2, <1>3
<1>6. PICK u \in Seq(Threads), v \in Seq(Threads) : a = (u \o One(x)) \o v
  BY <1>1, <1>5, CutAt
<1> DEFINE w == u \o One(x)
<1>7. /\ w \in Seq(Threads) /\ Elements(w) = Elements(u) \cup {x}
      /\ \A y : y \in Elements(u) => Precedes(w, y, x)
  <2>1. w \in Seq(Threads) /\ Elements(w) = Elements(u) \cup {x}
    BY <1>2, OneIs, ElementsConcat, ConcatIs
  <2>2. \A y : y \in Elements(u) => Precedes(w, y, x)
    BY <1>2, OneIs, PrecedesConcat
  <2> QED BY <2>1, <2>2
<1> HIDE DEF w
<1>8. /\ a = w \o v /\ Elements(a) = Elements(w) \cup Elements(v)
      /\ Elements(w) \cap Elements(v) = {} /\ Distinct(v) /\ Distinct(w)
      /\ \A y, z : Precedes(w, y, z) \/ Precedes(v, y, z) => Precedes(a, y, z)
  <2>1. a = w \o v
    BY <1>6 DEF w
  <2>2. /\ Elements(a) = Elements(w) \cup Elements(v)
        /\ Elements(w) \cap Elements(v) = {} /\ Distinct(v) /\ Distinct(w)
    BY <1>1, <1>7, <2>1, ElementsConcat, DistinctConcat
  <2>3. \A y, z : Precedes(w, y, z) \/ Precedes(v, y, z) => Precedes(a, y, z)
    BY <1>7, <2>1, PrecedesConcat
  <2> QED BY <2>1, <2>2, <2>3
<1>9. x \notin Elements(u)
  <2>1. Elements(u) \cap Elements(One(x)) = {}
    BY <1>2, <1>8, DistinctConcat DEF w
  <2> QED BY <2>1, OneIs
<1>10. ASSUME NEW y \in Elements(u) PROVE FALSE
  <2>1. Precedes(s, y, x)
    BY <1>1, <1>7, <1>8
  <2>2. y \in Elements(s) /\ st[y] # "dead" /\ y # x
    BY <1>1, <1>7, <1>8, <1>9
  <2>3. y \in Elements(c)
    BY <1>2, <1>3, <2>2
  <2>4. Precedes(s, x, y)
    BY <1>2, <1>4, <2>3
  <2> QED BY <1>3, <2>1, <2>4, PrecedesStrict
<1>11. u = <<>>
  <2>1. 1 \notin DOMAIN u
    BY <1>10 DEF Elements
  <2> QED BY <2>1
<1>12. w = One(x)
  BY <1>2, <1>11, ConcatEmpty DEF w
<1>13. a # <<>> /\ Head(a) = x /\ Tail(a) = v
  <2>1. a = <<x>> \o v
    BY <1>8, <1>12 DEF One
  <2> QED BY <2>1
<1>14. Elements(v) = {t \in Elements(c) : st[t] # "dead"}
  <2>1. Elements(w) = {x}
    BY <1>12, OneIs
  <2>2. Elements(v) = Elements(a) \ {x}
    BY <1>8, <2>1
  <2> QED BY <1>1, <1>2, <1>3, <2>2
<1>15. ASSUME NEW y, NEW z, Precedes(v, y, z) PROVE Precedes(c, y, z)
  <2>1. Precedes(s, y, z)
    BY <1>1, <1>8, <1>15
  <2>2. y \in Elements(c) /\ z \in Elements(c)
    BY <1>14, <1>15, PrecedesElements
  <2>3. ~ Precedes(f, y, z)
    BY <1>3, <2>2, PrecedesElements
  <2> QED BY <1>3, <1>4, <2>1, <2>2, <2>3
<1>16. Live(st, c, v)
  BY <1>8, <1>14, <1>15 DEF Live
<1> QED BY <1>13, <1>16

-----------------------------------------------------------------------------
(* The lists that stand for a queue a and for the timers. *)

\* The lists of q are s and m, a is what is alive of s, m holds the threads
\* that wait for a deadline and is sorted by d.
Good(d, q, s, m, a) ==
    /\ Is(q, s, m)
    /\ Live(q.state, s, a)
    /\ SortedBy(d, m)
    /\ Elements(m) = {t \in Threads : q.state[t] = "timer"}
    /\ \A t \in Elements(s) : q.state[t] \in {"active", "dead"}

LEMMA GoodParts ==
  ASSUME NEW d, NEW q, NEW s, NEW m, NEW a, Good(d, q, s, m, a)
  PROVE  /\ q \in ListRecords /\ q.state \in [Threads -> States]
         /\ s \in Seq(Threads) /\ m \in Seq(Threads) /\ a \in Seq(Threads)
         /\ \A t \in Elements(s) \cup Elements(m) :
               t \in Threads /\ q.state[t] \in {"active", "dead", "timer"}
         /\ \A t \in Threads :
               q.state[t] \in {"free", "suspended"}
                  => t \notin Elements(s) /\ t \notin Elements(m) /\ q.next[t] = NULL
  BY IsParts DEF Good, Is, Live, ListRecords

\* The lists do not depend on the states of threads.
LEMMA IsState ==
  ASSUME NEW q, NEW s, NEW m, Is(q, s, m), NEW t \in Threads, NEW new \in States
  PROVE  /\ Is([q EXCEPT !.state[t] = new], s, m)
         /\ [q EXCEPT !.state[t] = new].state = [q.state EXCEPT ![t] = new]
<1> DEFINE r == [q EXCEPT !.state[t] = new]
<1>1. q \in ListRecords
  BY DEF Is
<1>2. /\ r \in ListRecords /\ r.head = q.head /\ r.tail = q.tail
      /\ r.timers = q.timers /\ r.next = q.next
      /\ r.state = [q.state EXCEPT ![t] = new]
  BY <1>1 DEF ListRecords
<1> HIDE DEF r
<1>3. Is(r, s, m)
  BY <1>2 DEF Is
<1> QED BY <1>2, <1>3 DEF r

\* A thread that is in no list becomes active.
Activated(q, t) == L!Activate([q EXCEPT !.state[t] = "active"], t)

\* r is q after t became active, behind the threads of s.
Activates(d, q, r, s, m, a, t) ==
    /\ Good(d, r, s \o One(t), m, Append(a, t))
    /\ r.state = [q.state EXCEPT ![t] = "active"]

LEMMA ActivateGood ==
  ASSUME NEW d, NEW q, NEW s, NEW m, NEW a,
         Is(q, s, m), Live(q.state, s, a), SortedBy(d, m),
         NEW t \in Threads, t \notin Elements(s), t \notin Elements(m),
         Elements(m) = {u \in Threads : q.state[u] = "timer"} \ {t},
         \A u \in Elements(s) : q.state[u] \in {"active", "dead"}
  PROVE  Activates(d, q, Activated(q, t), s, m, a, t)
<1> DEFINE p == [q EXCEPT !.state[t] = "active"]
           r == L!Activate(p, t)
<1>1. "active" \in States /\ "dead" \in States /\ "timer" \in States
  BY DEF States
<1>2. Is(p, s, m) /\ p.state = [q.state EXCEPT ![t] = "active"]
  BY <1>1, IsState
<1> HIDE DEF p
<1>3. Is(r, s \o One(t), m) /\ r.state = p.state
  BY <1>2, ActivateIs
<1> HIDE DEF r
<1>4. /\ s \in Seq(Threads) /\ a \in Seq(Threads) /\ One(t) \in Seq(Threads)
      /\ Elements(One(t)) = {t} /\ Append(a, t) = a \o One(t)
      /\ q.state \in [Threads -> States] /\ Elements(s) \subseteq Threads
  BY OneIs, AppendIs, IsParts DEF Is, Live, ListRecords
<1>5. r.state = [q.state EXCEPT ![t] = "active"]
  BY <1>2, <1>3
<1>6. Distinct(s \o One(t)) /\ Elements(s \o One(t)) = Elements(s) \cup {t}
  BY <1>3, <1>4, IsParts, ElementsConcat
<1>7. Live(r.state, s \o One(t), a \o One(t))
  <2>1. \A u \in Elements(s) : r.state[u] = "dead" <=> q.state[u] = "dead"
    BY <1>4, <1>5
  <2>2. Live(r.state, s, a)
    BY <2>1, LiveState
  <2>3. r.state[t] # "dead"
    BY <1>4, <1>5
  <2> QED BY <1>4, <1>6, <2>2, <2>3, LiveConcat
<1>8. Elements(m) = {u \in Threads : r.state[u] = "timer"}
  BY <1>4, <1>5
<1>9. \A u \in Elements(s \o One(t)) : r.state[u] \in {"active", "dead"}
  BY <1>4, <1>5, <1>6
<1>10. Good(d, r, s \o One(t), m, Append(a, t))
  BY <1>3, <1>4, <1>7, <1>8, <1>9 DEF Good
<1> QED BY <1>5, <1>10 DEF r, p, Activated, Activates

\* The timer list without one of its threads, if it is there.
LEMMA SortedWithout ==
  ASSUME NEW d, NEW m \in Seq(Threads), Distinct(m), SortedBy(d, m), NEW t
  PROVE  SortedBy(d, Without(m, t))
<1>1. \A x, y : Precedes(Without(m, t), x, y) => Precedes(m, x, y)
  BY PrecedesWithout
<1> QED BY <1>1 DEF SortedBy

\* A thread is taken out of the timer list, if its state says that it is there.
LEMMA RemovedIs ==
  ASSUME NEW d, NEW q, NEW s, NEW m, NEW a, Good(d, q, s, m, a), NEW t \in Threads
  PROVE  LET removed == IF q.state[t] = "timer" THEN L!RemoveTimer(q, t) ELSE q
             n == Without(m, t)
         IN  /\ Is(removed, s, n) /\ removed.state = q.state /\ SortedBy(d, n)
             /\ Elements(n) = {u \in Threads : q.state[u] = "timer"} \ {t}
             /\ t \notin Elements(n)
<1> DEFINE removed == IF q.state[t] = "timer" THEN L!RemoveTimer(q, t) ELSE q
           n == Without(m, t)
<1>1. /\ Is(q, s, m) /\ SortedBy(d, m)
      /\ Elements(m) = {u \in Threads : q.state[u] = "timer"}
      /\ m \in Seq(Threads) /\ Distinct(m)
  BY IsParts DEF Good
<1>2. SortedBy(d, n) /\ Elements(n) = Elements(m) \ {t}
  BY <1>1, SortedWithout, WithoutElement
<1>3. CASE q.state[t] = "timer"
  <2>1. t \in Elements(m)
    BY <1>1, <1>3
  <2>2. Is(L!RemoveTimer(q, t), s, n) /\ L!RemoveTimer(q, t).state = q.state
    BY <1>1, <2>1, RemoveTimerIs
  <2> QED BY <1>1, <1>2, <1>3, <2>2
<1>4. CASE q.state[t] # "timer"
  <2>1. n = m
    BY <1>1, <1>4, WithoutNone
  <2> QED BY <1>1, <1>2, <1>4, <2>1
<1> QED BY <1>3, <1>4

\* resume() of a thread that waits, and of one that does not.
LEMMA ResumeIs ==
  ASSUME NEW d, NEW q, NEW s, NEW m, NEW a, Good(d, q, s, m, a), NEW t \in Threads,
         q.state[t] \in {"suspended", "timer"}
  PROVE  Activates(d, q, L!ResumeThread(q, t), s, Without(m, t), a, t)
<1> DEFINE removed == IF q.state[t] = "timer" THEN L!RemoveTimer(q, t) ELSE q
           n == Without(m, t)
           r == Activated(removed, t)
<1>1. L!ResumeThread(q, t) = r
  BY DEF L!ResumeThread, Activated
<1>2. /\ Is(removed, s, n) /\ removed.state = q.state /\ SortedBy(d, n)
      /\ Elements(n) = {u \in Threads : q.state[u] = "timer"} \ {t}
      /\ t \notin Elements(n)
  BY RemovedIs
<1>3. /\ t \notin Elements(s) /\ Live(q.state, s, a)
      /\ \A u \in Elements(s) : q.state[u] \in {"active", "dead"}
  BY DEF Good
<1> HIDE DEF removed, n
<1>4. Activates(d, removed, r, s, n, a, t)
  BY <1>2, <1>3, ActivateGood
<1> QED BY <1>1, <1>2, <1>4 DEF n, Activates

LEMMA ResumeNot ==
  ASSUME NEW q, NEW t, q.state[t] \notin {"suspended", "timer"}
  PROVE  L!ResumeThread(q, t) = q
  BY DEF L!ResumeThread

\* f[i] is what the lists are after resume() of i of the threads.
Iterates(f, q, order, n) ==
    f = [i \in 0..n |-> IF i = 0 THEN q ELSE L!ResumeThread(f[i - 1], order[i])]

\* The function that resume() is iterated with exists, and has one value for
\* each number of iterations.
LEMMA IterationIs ==
  ASSUME NEW q, NEW order, NEW N \in Nat
  PROVE  \E f : Iterates(f, q, order, N)
<1> DEFINE Body(f, n) == [i \in 0..n |-> IF i = 0 THEN q
                                         ELSE L!ResumeThread(f[i - 1], order[i])]
           T == {n \in Nat : ~ \E f : f = Body(f, n)}
<1>1. SUFFICES ASSUME T # {} PROVE FALSE
  BY DEF Iterates
<1>2. T \in SUBSET Nat
  OBVIOUS
<1>3. PICK n \in T : \A k \in T : n <= k
  BY <1>1, <1>2, LeastNumber
<1>4. n \in Nat /\ ~ \E f : f = Body(f, n)
  BY <1>3
<1>5. CASE n = 0
  <2> DEFINE f == [i \in 0..0 |-> q]
  <2>1. \A i \in 0..0 : i = 0
    OBVIOUS
  <2>2. f = Body(f, 0)
    BY <2>1
  <2> QED BY <1>4, <1>5, <2>2
<1>6. CASE n # 0
  <2>1. n - 1 \in Nat /\ ~ (n <= n - 1)
    BY <1>4, <1>6
  <2>2. n - 1 \notin T
    BY <1>3, <2>1
  <2>3. PICK f : f = Body(f, n - 1)
    BY <2>1, <2>2
  <2> DEFINE g == [i \in 0..n |-> IF i = n THEN L!ResumeThread(f[n - 1], order[n])
                                            ELSE f[i]]
  <2>4. ASSUME NEW i \in 0..n PROVE g[i] = Body(g, n)[i]
    <3>1. CASE i = 0
      <4>1. 0 \in 0..(n - 1) /\ i # n
        BY <1>4, <1>6, <3>1
      <4>2. f[0] = q
        BY <2>3, <4>1
      <4> QED BY <3>1, <4>1, <4>2
    <3>2. CASE i # 0
      <4>1. i - 1 \in 0..n /\ i - 1 # n /\ i - 1 \in 0..(n - 1)
        BY <1>4, <3>2
      <4>2. g[i - 1] = f[i - 1]
        BY <4>1
      <4>3. CASE i = n
        BY <3>2, <4>2, <4>3
      <4>4. CASE i # n
        <5>1. i \in 0..(n - 1)
          BY <1>4, <4>4
        <5>2. f[i] = L!ResumeThread(f[i - 1], order[i])
          BY <2>3, <3>2, <5>1
        <5> QED BY <3>2, <4>2, <4>4, <5>2
      <4> QED BY <4>3, <4>4
    <3> QED BY <3>1, <3>2
  <2>5. g = Body(g, n)
    BY <2>4
  <2> QED BY <1>4, <2>5
<1> QED BY <1>5, <1>6

\* The joiners that wait are resumed, in the order in which they are met.
ResumedAll(d, q, s, a, order) ==
    LET r == L!ResumeAll(q, order)
    IN  \E o, n \in Seq(Threads) :
            /\ Distinct(o)
            /\ Elements(o) = {t \in Elements(order) : q.state[t] \in {"suspended", "timer"}}
            /\ Good(d, r, s \o o, n, a \o o)
            /\ r.state = [t \in Threads |-> IF t \in Elements(o) THEN "active"
                                            ELSE q.state[t]]

LEMMA ResumeAllIs ==
  ASSUME NEW d, NEW q, NEW s, NEW m, NEW a, Good(d, q, s, m, a),
         NEW order \in Seq(Threads)
  PROVE  ResumedAll(d, q, s, a, order)
<1> DEFINE N == Len(order)
           Body(f) == [i \in 0..N |-> IF i = 0 THEN q
                                      ELSE L!ResumeThread(f[i - 1], order[i])]
           resumed == CHOOSE f : f = Body(f)
           Waits(t) == q.state[t] \in {"suspended", "timer"}
           Met(k) == {order[i] : i \in 1..k}
           Done(k) == \E o, n \in Seq(Threads) :
                         /\ Distinct(o)
                         /\ Elements(o) = {t \in Met(k) : Waits(t)}
                         /\ Good(d, resumed[k], s \o o, n, a \o o)
                         /\ resumed[k].state
                               = [t \in Threads |-> IF t \in Elements(o) THEN "active"
                                                    ELSE q.state[t]]
<1>1. N \in Nat /\ DOMAIN order = 1..N /\ \A i \in 1..N : order[i] \in Threads
  OBVIOUS
<1>2. L!ResumeAll(q, order) = resumed[N]
  BY DEF L!ResumeAll
<1> HIDE DEF N
<1>3. \E f : f = Body(f)
  <2>1. \E f : Iterates(f, q, order, N)
    BY <1>1, IterationIs
  <2> QED BY <2>1 DEF Iterates
<1>4. resumed = Body(resumed)
  BY <1>3
<1>5. q.state \in [Threads -> States] /\ s \in Seq(Threads) /\ a \in Seq(Threads)
  BY GoodParts
<1> HIDE DEF resumed
<1>6. Done(0)
  <2>1. resumed[0] = q
    BY <1>1, <1>4
  <2>2. s \o <<>> = s /\ a \o <<>> = a /\ <<>> \in Seq(Threads)
    BY <1>5, ConcatEmpty
  <2>3. Met(0) = {}
    OBVIOUS
  <2>4. Distinct(<<>>) /\ Elements(<<>>) = {t \in Met(0) : Waits(t)}
    BY <2>3, EmptyQueue
  <2>5. q.state = [t \in Threads |-> IF t \in Elements(<<>>) THEN "active" ELSE q.state[t]]
    BY <1>5, EmptyQueue
  <2>6. Good(d, resumed[0], s \o <<>>, m, a \o <<>>)
    BY <2>1, <2>2
  <2>7. resumed[0].state
           = [t \in Threads |-> IF t \in Elements(<<>>) THEN "active" ELSE q.state[t]]
    BY ONLY <2>1, <2>5
  <2>8. m \in Seq(Threads)
    BY GoodParts
  <2> HIDE DEF Met, Waits
  <2> QED BY ONLY <2>2, <2>4, <2>6, <2>7, <2>8
<1>7. ASSUME NEW k \in 1..N, Done(k - 1) PROVE Done(k)
  <2> DEFINE t == order[k]
             p == resumed[k - 1]
             r == resumed[k]
  <2>1. t \in Threads
    BY <1>1
  <2>2. r = L!ResumeThread(p, t)
    <3>1. k \in 0..N /\ k # 0
      BY <1>1
    <3> QED BY <1>4, <3>1
  <2>3. Met(k) = Met(k - 1) \cup {t}
    <3>1. \A i \in 1..k : i = k \/ i \in 1..(k - 1)
      BY <1>1
    <3>2. \A i \in 1..(k - 1) : i \in 1..k
      BY <1>1
    <3>3. k \in 1..k
      BY <1>1
    <3> QED BY <3>1, <3>2, <3>3
  <2>4. PICK o \in Seq(Threads), n \in Seq(Threads) :
           /\ Distinct(o)
           /\ Elements(o) = {u \in Met(k - 1) : Waits(u)}
           /\ Good(d, p, s \o o, n, a \o o)
           /\ p.state = [u \in Threads |-> IF u \in Elements(o) THEN "active"
                                           ELSE q.state[u]]
    BY <1>7
  <2> HIDE DEF t, p, r, Met
  <2>5. p.state[t] = IF t \in Elements(o) THEN "active" ELSE q.state[t]
    BY <2>1, <2>4
  <2>6. CASE p.state[t] \notin {"suspended", "timer"}
    <3>1. r = p
      BY <2>2, <2>6, ResumeNot
    <3>2. Elements(o) = {u \in Met(k) : Waits(u)}
      BY <2>3, <2>4, <2>5, <2>6
    <3> QED BY <2>4, <3>1, <3>2 DEF p, r
  <2>7. CASE p.state[t] \in {"suspended", "timer"}
    <3> DEFINE w == o \o One(t)
    <3>1. t \notin Elements(o) /\ Waits(t)
      BY <2>5, <2>7
    <3>2. /\ Good(d, r, (s \o o) \o One(t), Without(n, t), Append(a \o o, t))
          /\ r.state = [p.state EXCEPT ![t] = "active"]
      <4>1. Activates(d, p, L!ResumeThread(p, t), s \o o, Without(n, t), a \o o, t)
        BY <2>1, <2>4, <2>7, ResumeIs
      <4> QED BY ONLY <2>2, <4>1 DEF Activates
    <3>3. /\ One(t) \in Seq(Threads) /\ Elements(One(t)) = {t} /\ Distinct(One(t))
          /\ a \o o \in Seq(Threads)
      BY <1>5, <2>1, <2>4, OneIs, ConcatIs
    <3>4. /\ w \in Seq(Threads) /\ Elements(w) = Elements(o) \cup {t} /\ Distinct(w)
      BY <2>4, <3>1, <3>3, ConcatIs, ElementsConcat, DistinctConcat
    <3>5. (s \o o) \o One(t) = s \o w /\ (a \o o) \o One(t) = a \o w
      <4> DEFINE last == One(t)
      <4>1. /\ s \in Seq(Threads) /\ a \in Seq(Threads) /\ o \in Seq(Threads)
            /\ last \in Seq(Threads)
        BY <1>5, <3>3
      <4> HIDE DEF last
      <4>2. (s \o o) \o last = s \o (o \o last) /\ (a \o o) \o last = a \o (o \o last)
        <5>1. Regroup(s, o, last) /\ Regroup(a, o, last)
          BY <4>1, ConcatThree
        <5> QED BY ONLY <5>1 DEF Regroup
      <4> QED BY <4>2 DEF last
    <3>6. Append(a \o o, t) = a \o w
      <4>1. Append(a \o o, t) = (a \o o) \o One(t)
        BY <2>1, <3>3, AppendIs
      <4> QED BY <3>5, <4>1
    <3> HIDE DEF w
    <3>7. Elements(w) = {u \in Met(k) : Waits(u)}
      BY <2>3, <2>4, <3>1, <3>4
    <3>8. r.state = [u \in Threads |-> IF u \in Elements(w) THEN "active" ELSE q.state[u]]
      BY <2>4, <3>2, <3>4
    <3>9. Good(d, r, s \o w, Without(n, t), a \o w)
      BY <3>2, <3>5, <3>6
    <3>11. Without(n, t) \in Seq(Threads)
      BY <3>9, GoodParts
    <3> QED BY <3>4, <3>7, <3>8, <3>9, <3>11 DEF r
  <2> QED BY <2>6, <2>7
<1>8. ASSUME NEW k \in 0..N, ~ Done(k) PROVE FALSE
  <2> DEFINE T == {i \in 0..N : ~ Done(i)}
  <2> HIDE DEF Done
  <2>1. T \in SUBSET Nat /\ T # {}
    BY <1>1, <1>8
  <2>2. PICK i \in T : \A j \in T : i <= j
    BY <2>1, LeastNumber
  <2>3. i \in 0..N /\ ~ Done(i)
    BY <2>2
  <2>4. i # 0
    BY <1>6, <2>3
  <2>5. i \in 1..N /\ i - 1 \in 0..N /\ ~ (i <= i - 1)
    BY <1>1, <2>3, <2>4
  <2>6. Done(i - 1)
    BY <2>2, <2>5
  <2> QED BY <1>7, <2>3, <2>5, <2>6
<1>9. Done(N)
  <2>1. N \in 0..N
    BY <1>1
  <2> QED BY <1>8, <2>1
<1>10. Met(N) = Elements(order)
  BY <1>1 DEF Elements
<1> HIDE DEF Met
<1> QED BY <1>2, <1>9, <1>10 DEF ResumedAll

\* A thread that is in no list has no link to clear.
Unlinked(q, t, new) == [q EXCEPT !.state[t] = new, !.next[t] = NULL]

LEMMA UnlinkedIs ==
  ASSUME NEW q, NEW s, NEW m, Is(q, s, m), NEW t \in Threads,
         t \notin Elements(s), t \notin Elements(m), NEW new \in States
  PROVE  /\ [q EXCEPT !.next[t] = NULL] = q
         /\ Unlinked(q, t, new) = [q EXCEPT !.state[t] = new]
<1>1. /\ q \in ListRecords /\ q.next \in [Threads -> Threads \cup {NULL}]
      /\ q.next[t] = NULL
  BY DEF Is, ListRecords
<1>2. [q.next EXCEPT ![t] = NULL] = q.next
  BY <1>1
<1>3. [q EXCEPT !.next = q.next] = q
  BY <1>1 DEF ListRecords
<1>4. [q EXCEPT !.next[t] = NULL] = q
  BY <1>2, <1>3
<1>5. [q EXCEPT !.state[t] = new, !.next[t] = NULL] = [q EXCEPT !.state[t] = new]
  <2> DEFINE p == [q EXCEPT !.state[t] = new]
  <2>1. p \in ListRecords /\ p.next = q.next
    BY <1>1 DEF ListRecords
  <2>2. [q EXCEPT !.state[t] = new, !.next[t] = NULL]
           = [p EXCEPT !.next = [q.next EXCEPT ![t] = NULL]]
    BY <1>1 DEF ListRecords
  <2> HIDE DEF p
  <2>3. [p EXCEPT !.next = p.next] = p
    BY <2>1 DEF ListRecords
  <2> QED BY <1>2, <2>1, <2>2, <2>3 DEF p
<1> QED BY <1>4, <1>5 DEF Unlinked

\* A thread dies: it leaves the timer list, and keeps its place in the other.
LEMMA DeadIs ==
  ASSUME NEW d, NEW q, NEW s, NEW m, NEW a, Good(d, q, s, m, a), NEW t \in Threads
  PROVE  LET removed == IF q.state[t] = "timer" THEN L!RemoveTimer(q, t) ELSE q
             r == [removed EXCEPT !.state[t] = "dead"]
         IN  /\ Good(d, r, s, Without(m, t), Without(a, t))
             /\ r.state = [q.state EXCEPT ![t] = "dead"]
<1> DEFINE removed == IF q.state[t] = "timer" THEN L!RemoveTimer(q, t) ELSE q
           n == Without(m, t)
           r == [removed EXCEPT !.state[t] = "dead"]
<1>1. /\ Is(removed, s, n) /\ removed.state = q.state /\ SortedBy(d, n)
      /\ Elements(n) = {u \in Threads : q.state[u] = "timer"} \ {t}
  BY RemovedIs
<1>2. /\ Live(q.state, s, a) /\ q.state \in [Threads -> States]
      /\ \A u \in Elements(s) : u \in Threads /\ q.state[u] \in {"active", "dead"}
  BY GoodParts DEF Good
<1> HIDE DEF removed, n
<1>3. Is(r, s, n) /\ r.state = [q.state EXCEPT ![t] = "dead"]
  <2>1. "dead" \in States
    BY DEF States
  <2> QED BY <1>1, <2>1, IsState
<1> HIDE DEF r
<1>4. Live(r.state, s, Without(a, t))
  <2>1. \A u \in Elements(s) \ {t} : r.state[u] = "dead" <=> q.state[u] = "dead"
    BY <1>2, <1>3
  <2>2. r.state[t] = "dead"
    BY <1>2, <1>3
  <2> QED BY <1>2, <2>1, <2>2, LiveWithout
<1>5. Elements(n) = {u \in Threads : r.state[u] = "timer"}
  BY <1>1, <1>2, <1>3
<1>6. \A u \in Elements(s) : r.state[u] \in {"active", "dead"}
  BY <1>2, <1>3
<1>7. Good(d, r, s, n, Without(a, t))
  BY <1>1, <1>3, <1>4, <1>5, <1>6 DEF Good
<1> QED BY <1>3, <1>7 DEF r, removed, n

\* The running thread waits, without a time.
LEMMA SuspendedIs ==
  ASSUME NEW d, NEW q, NEW s, NEW m, NEW a, Good(d, q, s, m, a), NEW t \in Threads,
         t \notin Elements(s), t \notin Elements(m)
  PROVE  /\ Good(d, Unlinked(q, t, "suspended"), s, m, a)
         /\ Unlinked(q, t, "suspended").state = [q.state EXCEPT ![t] = "suspended"]
<1> DEFINE r == [q EXCEPT !.state[t] = "suspended"]
<1>1. "suspended" \in States
  BY DEF States
<1>2. /\ Is(q, s, m) /\ Live(q.state, s, a) /\ SortedBy(d, m)
      /\ Elements(m) = {u \in Threads : q.state[u] = "timer"}
      /\ q.state \in [Threads -> States]
      /\ \A u \in Elements(s) : u \in Threads /\ q.state[u] \in {"active", "dead"}
  BY GoodParts DEF Good
<1>3. Unlinked(q, t, "suspended") = r
  <2> DEFINE new == "suspended"
  <2>1. new \in States
    BY <1>1
  <2> HIDE DEF new
  <2>2. Unlinked(q, t, new) = [q EXCEPT !.state[t] = new]
    BY <1>2, <2>1, UnlinkedIs
  <2> QED BY <2>2 DEF new
<1>4. Is(r, s, m) /\ r.state = [q.state EXCEPT ![t] = "suspended"]
  BY <1>1, <1>2, IsState
<1> HIDE DEF r
<1>5. Live(r.state, s, a)
  <2>1. \A u \in Elements(s) : r.state[u] = "dead" <=> q.state[u] = "dead"
    BY <1>2, <1>4
  <2> QED BY <1>2, <2>1, LiveState
<1>6. Elements(m) = {u \in Threads : r.state[u] = "timer"}
  BY <1>2, <1>4
<1>7. \A u \in Elements(s) : r.state[u] \in {"active", "dead"}
  BY <1>2, <1>4
<1>8. Good(d, r, s, m, a)
  BY <1>2, <1>4, <1>5, <1>6, <1>7 DEF Good
<1> QED BY <1>3, <1>4, <1>8

\* The running thread waits for a time.
Timed(q, t, time) == L!InsertTimer([q EXCEPT !.state[t] = "timer"], t, time)

TimedGood(q, s, a, t, time) ==
    /\ \E n : Good([deadline EXCEPT ![t] = time], Timed(q, t, time), s, n, a)
    /\ Timed(q, t, time).state = [q.state EXCEPT ![t] = "timer"]

LEMMA TimerIs ==
  ASSUME NEW q, NEW s, NEW m, NEW a, Good(deadline, q, s, m, a),
         deadline \in [Threads -> Int], NEW t \in Threads,
         t \notin Elements(s), t \notin Elements(m), NEW time \in Int
  PROVE  TimedGood(q, s, a, t, time)
<1> DEFINE p == [q EXCEPT !.state[t] = "timer"]
           r == L!InsertTimer(p, t, time)
           d == [deadline EXCEPT ![t] = time]
<1>1. "timer" \in States
  BY DEF States
<1>2. /\ Is(q, s, m) /\ Live(q.state, s, a) /\ SortedBy(deadline, m)
      /\ Elements(m) = {u \in Threads : q.state[u] = "timer"}
      /\ q.state \in [Threads -> States]
      /\ \A u \in Elements(s) : u \in Threads /\ q.state[u] \in {"active", "dead"}
  BY GoodParts DEF Good
<1>3. Is(p, s, m) /\ p.state = [q.state EXCEPT ![t] = "timer"]
  BY <1>1, <1>2, IsState
<1> HIDE DEF p
<1>4. PICK u \in Seq(Threads), v \in Seq(Threads) :
         /\ m = u \o v
         /\ Is(r, s, (u \o One(t)) \o v)
         /\ r.state = p.state
         /\ \A x \in Elements(u) : deadline[x] <= time
         /\ \A x \in Elements(v) : time <= deadline[x]
  <2>1. Sorted(m) /\ Is(p, s, m)
    BY <1>2, <1>3 DEF Sorted
  <2>2. Inserted(p, s, m, t, time)
    BY <2>1, InsertTimerIs
  <2> QED BY <2>2 DEF Inserted
<1> DEFINE w == u \o One(t)
           n == w \o v
<1> HIDE DEF r
<1>5. /\ One(t) \in Seq(Threads) /\ Elements(One(t)) = {t} /\ w \in Seq(Threads)
      /\ Elements(w) = Elements(u) \cup {t}
      /\ Elements(m) = Elements(u) \cup Elements(v)
      /\ Elements(u) \subseteq Threads /\ Elements(v) \subseteq Threads
  <2>1. /\ One(t) \in Seq(Threads) /\ Elements(One(t)) = {t}
        /\ u \in Seq(Threads) /\ v \in Seq(Threads) /\ m = u \o v
    BY <1>4, OneIs
  <2>2. w \in Seq(Threads) /\ Elements(w) = Elements(u) \cup Elements(One(t))
    BY ONLY <2>1, ConcatIs, ElementsConcat DEF w
  <2>3. Elements(m) = Elements(u) \cup Elements(v)
    BY ONLY <2>1, ElementsConcat
  <2>4. Elements(m) \subseteq Threads
    BY <1>2, IsParts
  <2> QED BY <2>1, <2>2, <2>3, <2>4
<1>6. \A x \in Elements(u) \cup Elements(v) : x # t /\ d[x] = deadline[x]
  BY <1>5
<1>7. d[t] = time
  OBVIOUS
<1> HIDE DEF d
<1>8. SortedBy(d, u) /\ SortedBy(d, v) /\ \A x \in Elements(u), y \in Elements(v) : d[x] <= d[y]
  <2>1. /\ SortedBy(deadline, u) /\ SortedBy(deadline, v)
        /\ \A x \in Elements(u), y \in Elements(v) : deadline[x] <= deadline[y]
    BY <1>2, <1>4, SortedConcat
  <2>2. \A x, y : Precedes(u, x, y) => x \in Elements(u) /\ y \in Elements(u)
    BY PrecedesElements
  <2>3. \A x, y : Precedes(v, x, y) => x \in Elements(v) /\ y \in Elements(v)
    BY PrecedesElements
  <2>4. SortedBy(d, u)
    BY <1>6, <2>1, <2>2 DEF SortedBy
  <2>5. SortedBy(d, v)
    BY <1>6, <2>1, <2>3 DEF SortedBy
  <2> QED BY <1>6, <2>1, <2>4, <2>5
<1>9. SortedBy(d, w)
  <2>1. \A x \in Elements(u), y \in Elements(One(t)) : d[x] <= d[y]
    BY <1>4, <1>5, <1>6, <1>7
  <2>2. SortedBy(d, One(t))
    BY SortedOne
  <2> QED BY <1>5, <1>8, <2>1, <2>2, SortedConcat
<1>10. SortedBy(d, n)
  <2>1. \A x \in Elements(w), y \in Elements(v) : d[x] <= d[y]
    <3>1. \A y \in Elements(v) : d[t] <= d[y]
      BY <1>4, <1>6, <1>7
    <3> QED BY <1>5, <1>8, <3>1
  <2> QED BY <1>5, <1>8, <1>9, <2>1, SortedConcat
<1>11. Elements(n) = Elements(m) \cup {t} /\ Is(r, s, n)
  <2>1. Elements(n) = Elements(w) \cup Elements(v)
    BY <1>5, ElementsConcat
  <2> QED BY <1>4, <1>5, <2>1
<1> HIDE DEF n
<1>12. r.state = [q.state EXCEPT ![t] = "timer"]
  BY <1>3, <1>4
<1>13. Live(r.state, s, a)
  <2>1. \A x \in Elements(s) : r.state[x] = "dead" <=> q.state[x] = "dead"
    BY <1>2, <1>12
  <2> QED BY <1>2, <2>1, LiveState
<1>14. Elements(n) = {x \in Threads : r.state[x] = "timer"}
  BY <1>2, <1>11, <1>12
<1>15. \A x \in Elements(s) : r.state[x] \in {"active", "dead"}
  BY <1>2, <1>12
<1>16. Good(d, r, s, n, a)
  BY <1>10, <1>11, <1>13, <1>14, <1>15 DEF Good
<1> QED BY <1>12, <1>16 DEF r, p, d, Timed, TimedGood

\* The orders in which lua_next() can meet the joiners of a thread.
LEMMA JoinerOrders ==
  ASSUME NEW S \in SUBSET Threads, NEW order \in L!SetToSeqs(S)
  PROVE  order \in Seq(Threads) /\ Elements(order) = S
<1>1. IsFiniteSet(S) /\ L!Cardinality(S) = Cardinality(S) /\ Cardinality(S) \in Nat
  BY ThreadsAssumption, FS_Subset, FS_CardinalityType, SameCardinality
<1>2. /\ order \in [1..Cardinality(S) -> S]
      /\ \A i, j \in 1..Cardinality(S) : i # j => order[i] # order[j]
  BY <1>1 DEF L!SetToSeqs
<1>3. order \in Orders(S)
  BY <1>2 DEF Orders, Distinct
<1>4. order \in Seq(S) /\ Elements(order) = S
  BY <1>1, <1>3, OrderElements
<1> QED BY <1>4

-----------------------------------------------------------------------------
(* The invariant, and the steps other than those of the scheduler. *)

\* The lists stand for the queue of the image.  Before main() is called, no
\* dead thread is in the queue.
ListInv ==
    \E s, m \in Seq(Threads) :
        Good(deadline, lists, s, m, active) /\ (pc = "boot" => active = s)

ThreadsInv == threads = {t \in Threads : Alive(t)}

CInv == SInv /\ state = lists.state /\ ListInv /\ ThreadsInv

\* What the refinement mapping says of the next state.
Image == state' = lists'.state /\ active' = ActiveIn(lists')


LEMMA GoodIs ==
  ASSUME NEW d, NEW q, NEW s, NEW m, NEW a, Good(d, q, s, m, a)
  PROVE  ActiveIn(q) = a
  BY LiveIs DEF Good

\* The running thread is in no list.
LEMMA RunningIs ==
  ASSUME SInv, NEW s, NEW m, Good(deadline, lists, s, m, active), state = lists.state,
         running # NULL
  PROVE  /\ running \in Threads /\ state[running] = "active"
         /\ running \notin Elements(s) /\ running \notin Elements(m)
<1>1. running \in Threads /\ state[running] = "active" /\ running \notin Elements(active)
  BY DEF SInv, TypeOK, QueueHoldsActive
<1>2. Elements(active) = {t \in Elements(s) : state[t] # "dead"}
  BY DEF Good, Live
<1>3. Elements(m) = {t \in Threads : state[t] = "timer"}
  BY DEF Good
<1> QED BY <1>1, <1>2, <1>3

\* start()
LEMMA StartStep ==
  ASSUME CInv, Image, NEW t \in Threads, L!Start(t)
  PROVE  Start(t) /\ ListInv' /\ ThreadsInv'
<1>1. PICK s \in Seq(Threads), m \in Seq(Threads) :
         Good(deadline, lists, s, m, active) /\ (pc = "boot" => active = s)
  BY DEF CInv, ListInv
<1>2. /\ state = lists.state /\ state \in [Threads -> States] /\ active \in Seq(Threads)
      /\ threads = {u \in Threads : Alive(u)}
  BY DEF CInv, SInv, TypeOK, ThreadsInv
<1>3. /\ pc = "boot" \/ \E r \in Threads : Calls(r)
      /\ state[t] = "free"
      /\ threads' = threads \cup {t}
      /\ lists' = L!Activate([lists EXCEPT !.state[t] = "active"], t)
      /\ UNCHANGED <<deadline, joiners, target, running, pc, now>>
  BY <1>2 DEF L!Start, L!State, L!Calls, L!Runs, Calls, Runs
<1>4. /\ Is(lists, s, m) /\ Live(lists.state, s, active) /\ SortedBy(deadline, m)
      /\ t \notin Elements(s) /\ t \notin Elements(m)
      /\ Elements(m) = {u \in Threads : lists.state[u] = "timer"} \ {t}
      /\ \A u \in Elements(s) : lists.state[u] \in {"active", "dead"}
  BY <1>1, <1>2, <1>3, GoodParts DEF Good
<1>5. /\ Good(deadline, lists', s \o One(t), m, Append(active, t))
      /\ lists'.state = [state EXCEPT ![t] = "active"]
  <2>1. lists' = Activated(lists, t)
    BY <1>3 DEF Activated
  <2>2. Activates(deadline, lists, Activated(lists, t), s, m, active, t)
    BY <1>4, ActivateGood
  <2> QED BY <1>2, <2>1, <2>2 DEF Activates
<1>6. /\ active' = Append(active, t) /\ state' = [state EXCEPT ![t] = "active"]
  BY <1>5, GoodIs DEF Image
<1>7. Start(t)
  BY <1>3, <1>6 DEF Start
<1>8. ListInv'
  <2>1. s \o One(t) \in Seq(Threads) /\ m \in Seq(Threads)
    BY <1>5, GoodParts
  <2>2. Append(active, t) = active \o One(t)
    BY <1>2, AppendIs
  <2>3. pc' = "boot" => active' = s \o One(t)
    BY <1>1, <1>3, <1>6, <2>2
  <2>4. Good(deadline', lists', s \o One(t), m, active')
    BY <1>3, <1>5, <1>6
  <2> QED BY <2>1, <2>3, <2>4 DEF ListInv
<1>9. ThreadsInv'
  BY <1>2, <1>3, <1>6 DEF ThreadsInv, Alive, Waiting
<1> QED BY <1>7, <1>8, <1>9

\* A thread that waits is resumed: Thread.resume(), or by an event.
LEMMA ResumeStep ==
  ASSUME CInv, Image, NEW t \in Threads, Waiting(t), pc # "boot",
         lists' = L!ResumeThread(lists, t),
         UNCHANGED <<deadline, threads, joiners, target, running, pc, now>>
  PROVE  /\ state' = [state EXCEPT ![t] = "active"]
         /\ active' = Append(active, t)
         /\ ListInv' /\ ThreadsInv'
<1>1. PICK s \in Seq(Threads), m \in Seq(Threads) :
         Good(deadline, lists, s, m, active)
  BY DEF CInv, ListInv
<1>2. /\ state = lists.state /\ state \in [Threads -> States] /\ active \in Seq(Threads)
      /\ threads = {u \in Threads : Alive(u)}
  BY DEF CInv, SInv, TypeOK, ThreadsInv
<1>3. lists.state[t] \in {"suspended", "timer"}
  BY <1>2 DEF Waiting
<1>4. /\ Good(deadline, lists', s \o One(t), Without(m, t), Append(active, t))
      /\ lists'.state = [state EXCEPT ![t] = "active"]
  <2>1. Activates(deadline, lists, L!ResumeThread(lists, t), s, Without(m, t), active, t)
    BY <1>1, <1>3, ResumeIs
  <2> QED BY <1>2, <2>1 DEF Activates
<1>5. /\ active' = Append(active, t) /\ state' = [state EXCEPT ![t] = "active"]
  BY <1>4, GoodIs DEF Image
<1>6. ListInv'
  <2>1. s \o One(t) \in Seq(Threads) /\ Without(m, t) \in Seq(Threads)
    BY <1>4, GoodParts
  <2>2. Good(deadline', lists', s \o One(t), Without(m, t), active')
    BY <1>4, <1>5
  <2> QED BY <2>1, <2>2 DEF ListInv
<1>7. ThreadsInv'
  BY <1>2, <1>5 DEF ThreadsInv, Alive, Waiting
<1> QED BY <1>5, <1>6, <1>7

\* A thread that died is buried: its joiners are resumed.
LEMMA BuryStep ==
  ASSUME CInv, Image, NEW t \in Threads, NEW q, NEW s, NEW m,
         Good(deadline, q, s, m, Without(active, t)),
         q.state = [state EXCEPT ![t] = "dead"], L!Bury(q, t), pc' # "boot"
  PROVE  Die(t) /\ ListInv' /\ ThreadsInv'
<1>1. /\ state \in [Threads -> States] /\ active \in Seq(Threads)
      /\ threads = {u \in Threads : Alive(u)} /\ joiners \in [Threads -> SUBSET Threads]
  BY DEF CInv, SInv, TypeOK, ThreadsInv
<1>2. PICK order \in L!SetToSeqs(joiners[t]) : lists' = L!ResumeAll(q, order)
  BY DEF L!Bury
<1>3. /\ joiners' = [joiners EXCEPT ![t] = {}]
      /\ target' = [target EXCEPT ![t] = NULL]
      /\ threads' = threads \ {t}
      /\ UNCHANGED <<deadline, now>>
  BY DEF L!Bury
<1>4. order \in Seq(Threads) /\ Elements(order) = joiners[t]
  BY <1>1, JoinerOrders
<1>5. PICK o \in Seq(Threads), n \in Seq(Threads) :
         /\ Distinct(o)
         /\ Elements(o) = {u \in joiners[t] : q.state[u] \in {"suspended", "timer"}}
         /\ Good(deadline, lists', s \o o, n, Without(active, t) \o o)
         /\ lists'.state = [u \in Threads |-> IF u \in Elements(o) THEN "active"
                                              ELSE q.state[u]]
  <2>1. ResumedAll(deadline, q, s, Without(active, t), order)
    BY <1>4, ResumeAllIs
  <2> QED BY <1>2, <1>4, <2>1 DEF ResumedAll
<1> DEFINE woken == {j \in joiners[t] : Waiting(j) /\ j # t}
<1>6. Elements(o) = woken
  <2>1. \A j \in joiners[t] : j \in Threads
    BY <1>1
  <2> QED BY <1>1, <1>5, <2>1 DEF Waiting
<1>7. o \in Orders(woken)
  BY <1>5, <1>6, OrdersOf
<1> HIDE DEF woken
<1>8. active' = Without(active, t) \o o
  BY <1>5, GoodIs DEF Image
<1>9. state' = [u \in Threads |-> IF u = t THEN "dead"
                                  ELSE IF u \in woken THEN "active"
                                  ELSE state[u]]
  <2>1. t \notin woken
    BY DEF woken
  <2> QED BY <1>1, <1>5, <1>6, <2>1 DEF Image
<1>10. Die(t)
  BY <1>3, <1>7, <1>8, <1>9 DEF Die, woken
<1>11. ListInv'
  <2>1. s \o o \in Seq(Threads)
    BY <1>5, GoodParts
  <2>2. Good(deadline', lists', s \o o, n, active')
    BY <1>3, <1>5, <1>8
  <2> QED BY <2>1, <2>2 DEF ListInv
<1>12. ThreadsInv'
  <2>1. \A u \in woken : Waiting(u)
    BY DEF woken
  <2> QED BY <1>1, <1>3, <1>9, <2>1 DEF ThreadsInv, Alive, Waiting
<1> QED BY <1>10, <1>11, <1>12

\* Thread.kill()
LEMMA KillStep ==
  ASSUME CInv, Image, NEW r \in Threads, NEW t \in Threads, L!Kill(r, t)
  PROVE  Kill(r, t) /\ ListInv' /\ ThreadsInv'
<1> DEFINE removed == IF lists.state[t] = "timer" THEN L!RemoveTimer(lists, t) ELSE lists
           q == [removed EXCEPT !.state[t] = "dead"]
<1>1. PICK s \in Seq(Threads), m \in Seq(Threads) :
         Good(deadline, lists, s, m, active)
  BY DEF CInv, ListInv
<1>2. state = lists.state
  BY DEF CInv
<1>3. /\ Calls(r) /\ t # r /\ Alive(t)
      /\ L!Bury(q, t)
      /\ UNCHANGED <<running, pc>>
  BY <1>2 DEF L!Kill, L!State, L!Calls, L!Runs, Calls, Runs, L!Alive, L!Waiting,
              Alive, Waiting
<1>4. /\ Good(deadline, q, s, Without(m, t), Without(active, t))
      /\ q.state = [state EXCEPT ![t] = "dead"]
  BY <1>1, <1>2, DeadIs
<1> HIDE DEF q
<1>5. pc' # "boot"
  BY <1>3 DEF Calls, Runs
<1>6. Die(t) /\ ListInv' /\ ThreadsInv'
  BY <1>3, <1>4, <1>5, BuryStep
<1> QED BY <1>3, <1>6 DEF Kill

\* The function of the running thread returns.
LEMMA TerminateStep ==
  ASSUME CInv, Image, NEW r \in Threads, L!Terminate(r)
  PROVE  Terminate(r) /\ ListInv' /\ ThreadsInv'
<1> DEFINE p == [lists EXCEPT !.state[r] = "dead"]
           q == [lists EXCEPT !.state[r] = "dead", !.next[r] = NULL]
<1>1. PICK s \in Seq(Threads), m \in Seq(Threads) :
         Good(deadline, lists, s, m, active)
  BY DEF CInv, ListInv
<1>2. state = lists.state
  BY DEF CInv
<1>3. /\ Calls(r) /\ running' = NULL /\ pc' = "dispatch"
      /\ L!Bury(q, r)
  BY DEF L!Terminate, L!Calls, L!Runs, Calls, Runs
<1>4. running = r /\ r # NULL
  BY <1>3, ThreadsAssumption DEF Calls, Runs
<1>5. state[r] = "active" /\ r \notin Elements(s) /\ r \notin Elements(m)
  BY <1>1, <1>2, <1>4, RunningIs DEF CInv
<1>6. q = p
  <2> DEFINE new == "dead"
  <2>1. new \in States
    BY DEF States
  <2> HIDE DEF new
  <2>2. Unlinked(lists, r, new) = [lists EXCEPT !.state[r] = new]
    BY <1>1, <1>5, <2>1, UnlinkedIs DEF Good
  <2> QED BY <2>2 DEF new, Unlinked
<1>7. /\ Good(deadline, p, s, Without(m, r), Without(active, r))
      /\ p.state = [state EXCEPT ![r] = "dead"]
  BY <1>1, <1>2, <1>5, DeadIs
<1> HIDE DEF p, q
<1>8. Die(r) /\ ListInv' /\ ThreadsInv'
  BY <1>3, <1>6, <1>7, BuryStep
<1> QED BY <1>3, <1>8 DEF Terminate

\* yield()
LEMMA YieldStep ==
  ASSUME CInv, Image, NEW r \in Threads, L!Yield(r)
  PROVE  Yield(r) /\ ListInv' /\ ThreadsInv'
<1>1. PICK s \in Seq(Threads), m \in Seq(Threads) :
         Good(deadline, lists, s, m, active)
  BY DEF CInv, ListInv
<1>2. state = lists.state /\ threads = {u \in Threads : Alive(u)}
  BY DEF CInv, ThreadsInv
<1>3. /\ Calls(r) /\ pc' = "dispatch" /\ lists' = [lists EXCEPT !.next[r] = NULL]
      /\ UNCHANGED <<deadline, threads, joiners, target, running, now>>
  BY DEF L!Yield, L!Calls, L!Runs, Calls, Runs
<1>4. r \notin Elements(s) /\ r \notin Elements(m)
  BY <1>1, <1>2, <1>3, RunningIs, ThreadsAssumption DEF CInv, Calls, Runs
<1>5. lists' = lists
  <2>1. "dead" \in States
    BY DEF States
  <2>2. [lists EXCEPT !.next[r] = NULL] = lists
    BY <1>1, <1>4, <2>1, UnlinkedIs DEF Good
  <2> QED BY <1>3, <2>2
<1>6. state' = state /\ active' = active
  BY <1>1, <1>2, <1>5, GoodIs DEF Image
<1>7. ListInv'
  BY <1>1, <1>3, <1>5, <1>6 DEF ListInv
<1>8. ThreadsInv'
  BY <1>2, <1>3, <1>6 DEF ThreadsInv, Alive, Waiting
<1> QED BY <1>3, <1>6, <1>7, <1>8 DEF Yield

\* The running thread waits, in suspend() or join().
LEMMA SuspendRunningStep ==
  ASSUME CInv, Image, NEW r \in Threads, L!Runs(r), L!SuspendRunning(r)
  PROVE  Runs(r) /\ Block(r, "suspended") /\ deadline' = deadline
         /\ ListInv' /\ ThreadsInv'
<1>1. PICK s \in Seq(Threads), m \in Seq(Threads) :
         Good(deadline, lists, s, m, active)
  BY DEF CInv, ListInv
<1>2. /\ state = lists.state /\ threads = {u \in Threads : Alive(u)}
      /\ state \in [Threads -> States]
  BY DEF CInv, ThreadsInv, SInv, TypeOK
<1>3. /\ Runs(r) /\ running' = NULL /\ pc' = "dispatch"
      /\ lists' = [lists EXCEPT !.state[r] = "suspended", !.next[r] = NULL]
      /\ UNCHANGED <<deadline, threads, now>>
  BY DEF L!SuspendRunning, L!Runs, Runs
<1>4. r \notin Elements(s) /\ r \notin Elements(m) /\ state[r] = "active"
  BY <1>1, <1>2, <1>3, RunningIs, ThreadsAssumption DEF CInv, Runs
<1> DEFINE q == Unlinked(lists, r, "suspended")
<1>5. lists' = q
  BY <1>3 DEF Unlinked
<1>6. Good(deadline, q, s, m, active) /\ q.state = [state EXCEPT ![r] = "suspended"]
  BY <1>1, <1>2, <1>4, SuspendedIs
<1> HIDE DEF q
<1>7. active' = active /\ state' = [state EXCEPT ![r] = "suspended"]
  BY <1>5, <1>6, GoodIs DEF Image
<1>8. Block(r, "suspended")
  BY <1>3, <1>7 DEF Block
<1>9. ListInv'
  BY <1>1, <1>3, <1>5, <1>6, <1>7 DEF ListInv
<1>10. ThreadsInv'
  BY <1>2, <1>3, <1>4, <1>7 DEF ThreadsInv, Alive, Waiting
<1> QED BY <1>3, <1>8, <1>9, <1>10

\* suspend() without a time
LEMMA SuspendStep ==
  ASSUME CInv, Image, NEW r \in Threads, L!Suspend(r)
  PROVE  Suspend(r) /\ ListInv' /\ ThreadsInv'
<1>1. /\ Calls(r) /\ L!Runs(r) /\ L!SuspendRunning(r)
      /\ UNCHANGED <<joiners, target>>
  BY DEF L!Suspend, L!Calls, L!Runs, Calls, Runs
<1>2. Block(r, "suspended") /\ deadline' = deadline /\ ListInv' /\ ThreadsInv'
  BY <1>1, SuspendRunningStep
<1> QED BY <1>1, <1>2 DEF Suspend

\* suspend(time)
LEMMA SuspendUntilStep ==
  ASSUME CInv, Image, NEW r \in Threads, NEW time \in Time, L!SuspendUntil(r, time)
  PROVE  SuspendUntil(r, time) /\ ListInv' /\ ThreadsInv'
<1> DEFINE q == Timed(lists, r, time)
<1>1. PICK s \in Seq(Threads), m \in Seq(Threads) :
         Good(deadline, lists, s, m, active)
  BY DEF CInv, ListInv
<1>2. /\ state = lists.state /\ threads = {u \in Threads : Alive(u)}
      /\ state \in [Threads -> States] /\ deadline \in [Threads -> Int] /\ time \in Int
  BY DEF CInv, ThreadsInv, SInv, TypeOK, Time
<1>3. /\ Calls(r) /\ running' = NULL /\ pc' = "dispatch" /\ lists' = q
      /\ deadline' = [deadline EXCEPT ![r] = time]
      /\ UNCHANGED <<threads, joiners, target, now>>
  BY DEF L!SuspendUntil, L!Calls, L!Runs, Calls, Runs, Timed
<1>4. r \notin Elements(s) /\ r \notin Elements(m) /\ state[r] = "active"
  BY <1>1, <1>2, <1>3, RunningIs, ThreadsAssumption DEF CInv, Calls, Runs
<1>5. /\ \E n : Good([deadline EXCEPT ![r] = time], q, s, n, active)
      /\ q.state = [state EXCEPT ![r] = "timer"]
  <2>1. TimedGood(lists, s, active, r, time)
    <3>1. deadline \in [Threads -> Int] /\ time \in Int
      BY <1>2
    <3>2. r \notin Elements(s) /\ r \notin Elements(m)
      BY <1>4
    <3> QED BY <1>1, <3>1, <3>2, TimerIs
  <2> QED BY <1>2, <2>1 DEF TimedGood
<1> HIDE DEF q
<1>6. PICK n : Good([deadline EXCEPT ![r] = time], q, s, n, active)
  BY <1>5
<1>7. active' = active /\ state' = [state EXCEPT ![r] = "timer"]
  BY <1>3, <1>5, <1>6, GoodIs DEF Image
<1>8. SuspendUntil(r, time)
  BY <1>3, <1>7 DEF SuspendUntil, Block
<1>9. ListInv'
  <2>1. n \in Seq(Threads)
    BY <1>6, GoodParts
  <2>2. Good(deadline', lists', s, n, active')
    BY <1>3, <1>6, <1>7
  <2> QED BY <1>3, <2>1, <2>2 DEF ListInv
<1>10. ThreadsInv'
  BY <1>2, <1>3, <1>4, <1>7 DEF ThreadsInv, Alive, Waiting
<1> QED BY <1>8, <1>9, <1>10

\* Thread.join(): the thread is registered as it should be unless two are.
LEMMA JoinStep ==
  ASSUME CInv, Image, NEW r \in Threads, NEW t \in Threads, L!Join(r, t)
  PROVE  /\ SInv' /\ ListInv' /\ ThreadsInv'
         /\ MaxJoiners \in 0..2 => Join(r, t)
<1>1. /\ Calls(r) /\ L!Runs(r) /\ L!SuspendRunning(r) /\ Alive(t)
      /\ L!Cardinality(joiners[t]) < MaxJoiners
      /\ joiners' = [joiners EXCEPT ![t] = joiners[t] \cup
                        {IF L!Cardinality(joiners[t]) < 2 THEN r ELSE t}]
      /\ target' = [target EXCEPT ![r] = t]
  BY DEF L!Join, L!Calls, L!Runs, Calls, Runs, L!Alive, L!Waiting, L!State, Alive,
         Waiting, CInv
<1>2. /\ Runs(r) /\ Block(r, "suspended") /\ deadline' = deadline
      /\ ListInv' /\ ThreadsInv'
  BY <1>1, SuspendRunningStep
<1>3. SInv /\ joiners \in [Threads -> SUBSET Threads] /\ TypeOK
  BY DEF CInv, SInv, TypeOK
<1>4. /\ active' \in Seq(Threads)
      /\ state' = [state EXCEPT ![r] = "suspended"]
      /\ running' = NULL /\ pc' = "dispatch" /\ now' = now
      /\ QueueHoldsActive' /\ RunInv'
  BY <1>2, <1>3, BlockPreserves
<1>5. SInv'
  <2>1. joiners' \in [Threads -> SUBSET Threads] /\ target' \in [Threads -> Threads \cup {NULL}]
    BY <1>1, <1>3 DEF TypeOK
  <2>2. TypeOK'
    BY <1>2, <1>3, <1>4, <2>1 DEF TypeOK, States, Locations
  <2> QED BY <1>4, <2>2 DEF SInv
<1>6. ASSUME MaxJoiners \in 0..2 PROVE Join(r, t)
  <2>1. L!Cardinality(joiners[t]) < 2
    <3>1. L!Cardinality(joiners[t]) \in Nat
      <4>1. IsFiniteSet(joiners[t])
        BY <1>3, ThreadsAssumption, FS_Subset
      <4> QED BY <4>1, FS_CardinalityType, SameCardinality
    <3> QED BY <1>1, <1>6, <3>1
  <2>2. joiners' = [joiners EXCEPT ![t] = @ \cup {r}]
    BY <1>1, <2>1
  <2> QED BY <1>1, <1>2, <2>2 DEF Join
<1> QED BY <1>2, <1>5, <1>6

\* A thread in join() looks again.
LEMMA JoinAgainStep ==
  ASSUME CInv, Image, NEW r \in Threads, L!JoinAgain(r)
  PROVE  JoinAgain(r) /\ ListInv' /\ ThreadsInv'
<1>1. PICK s \in Seq(Threads), m \in Seq(Threads) :
         Good(deadline, lists, s, m, active) /\ (pc = "boot" => active = s)
  BY DEF CInv, ListInv
<1>2. /\ state = lists.state /\ threads = {u \in Threads : Alive(u)}
  BY DEF CInv, ThreadsInv
<1>3. Runs(r) /\ L!Runs(r) /\ target[r] # NULL /\ joiners' = joiners
  BY DEF L!JoinAgain, L!Runs, Runs
<1>4. CASE state[target[r]] = "dead"
  <2>1. /\ target' = [target EXCEPT ![r] = NULL]
        /\ UNCHANGED <<lists, deadline, threads, running, pc, now>>
    BY <1>2, <1>4 DEF L!JoinAgain, L!State
  <2>2. state' = state /\ active' = active
    BY <1>1, <1>2, <2>1, GoodIs DEF Image
  <2>3. ListInv'
    BY <1>1, <2>1, <2>2 DEF ListInv
  <2>4. ThreadsInv'
    BY <1>2, <2>1, <2>2 DEF ThreadsInv, Alive, Waiting
  <2> QED BY <1>3, <1>4, <2>1, <2>2, <2>3, <2>4 DEF JoinAgain
<1>5. CASE state[target[r]] # "dead"
  <2>1. L!SuspendRunning(r) /\ target' = target
    BY <1>2, <1>5 DEF L!JoinAgain, L!State
  <2>2. Block(r, "suspended") /\ deadline' = deadline /\ ListInv' /\ ThreadsInv'
    BY <1>3, <2>1, SuspendRunningStep
  <2> QED BY <1>3, <1>5, <2>1, <2>2 DEF JoinAgain
<1> QED BY <1>4, <1>5

\* Two empty lists.
LEMMA NoneGood ==
  ASSUME NEW d, NEW q, q \in ListRecords, q.head = NULL, q.tail = NULL,
         q.timers = NULL, q.next = [t \in Threads |-> NULL],
         \A t \in Threads : q.state[t] # "timer"
  PROVE  Good(d, q, <<>>, <<>>, <<>>)
<1>1. /\ <<>> \in Seq(Threads) /\ Elements(<<>>) = {} /\ Distinct(<<>>)
      /\ <<>> \o <<>> = <<>> /\ \A e : First(<<>>, e) = e
      /\ \A x, y : ~ Precedes(<<>>, x, y)
  BY EmptyQueue DEF First, Precedes
<1>2. Is(q, <<>>, <<>>)
  BY <1>1, SegEmpty DEF Is
<1>3. Live(q.state, <<>>, <<>>) /\ SortedBy(d, <<>>)
  BY <1>1 DEF Live, SortedBy
<1> QED BY <1>1, <1>2, <1>3 DEF Good

\* shutdown()
LEMMA ShutdownStep ==
  ASSUME CInv, Image, NEW r \in Threads, L!Shutdown(r)
  PROVE  Shutdown(r) /\ ListInv' /\ ThreadsInv'
<1>1. /\ state = lists.state /\ threads = {u \in Threads : Alive(u)}
      /\ state \in [Threads -> States]
  BY DEF CInv, ThreadsInv, SInv, TypeOK
<1>2. /\ Calls(r) /\ threads' = {} /\ running' = NULL /\ pc' = "boot"
      /\ joiners' = [t \in Threads |-> {}]
      /\ target' = [t \in Threads |-> NULL]
      /\ UNCHANGED <<deadline, now>>
  BY DEF L!Shutdown, L!Calls, L!Runs, Calls, Runs
<1>3. lists' = [head |-> NULL, tail |-> NULL, timers |-> NULL,
                next |-> [t \in Threads |-> NULL],
                state |-> [t \in Threads |-> IF t \in threads THEN "dead"
                                             ELSE lists.state[t]]]
  BY DEF L!Shutdown, L!State
<1>4. /\ lists' \in ListRecords /\ lists'.head = NULL /\ lists'.tail = NULL
      /\ lists'.timers = NULL /\ lists'.next = [t \in Threads |-> NULL]
      /\ lists'.state = [t \in Threads |-> IF Alive(t) THEN "dead" ELSE state[t]]
  <2>1. [t \in Threads |-> IF t \in threads THEN "dead" ELSE lists.state[t]]
           = [t \in Threads |-> IF Alive(t) THEN "dead" ELSE state[t]]
    BY <1>1
  <2>2. [t \in Threads |-> IF Alive(t) THEN "dead" ELSE state[t]] \in [Threads -> States]
    BY <1>1 DEF States
  <2> QED BY <1>3, <2>1, <2>2 DEF ListRecords
<1>5. \A t \in Threads : lists'.state[t] # "timer" /\ ~Alive(t)'
  BY <1>4 DEF Alive, Waiting, Image
<1>6. Good(deadline, lists', <<>>, <<>>, <<>>)
  BY <1>4, <1>5, NoneGood
<1>7. /\ active' = <<>>
      /\ state' = [t \in Threads |-> IF Alive(t) THEN "dead" ELSE state[t]]
  BY <1>4, <1>6, GoodIs DEF Image
<1>8. ListInv'
  <2>1. <<>> \in Seq(Threads)
    OBVIOUS
  <2> QED BY <1>2, <1>6, <1>7, <2>1 DEF ListInv
<1>9. ThreadsInv'
  BY <1>2, <1>5 DEF ThreadsInv
<1> QED BY <1>2, <1>7, <1>8, <1>9 DEF Shutdown

\* main() is called when a thread was started.
LEMMA CallMainStep ==
  ASSUME CInv, Image, L!CallMain
  PROVE  CallMain /\ ListInv' /\ ThreadsInv'
<1>1. PICK s \in Seq(Threads), m \in Seq(Threads) :
         Good(deadline, lists, s, m, active) /\ (pc = "boot" => active = s)
  BY DEF CInv, ListInv
<1>2. state = lists.state /\ threads = {u \in Threads : Alive(u)}
  BY DEF CInv, ThreadsInv
<1>3. /\ pc = "boot" /\ lists.tail # NULL /\ pc' = "dispatch"
      /\ UNCHANGED <<lists, deadline, threads, joiners, target, running, now>>
  BY DEF L!CallMain
<1>4. active # <<>>
  BY <1>1, <1>3 DEF Good, Is
<1>5. state' = state /\ active' = active
  BY <1>1, <1>2, <1>3, GoodIs DEF Image
<1>6. ListInv'
  BY <1>1, <1>3, <1>5 DEF ListInv
<1>7. ThreadsInv'
  BY <1>2, <1>3, <1>5 DEF ThreadsInv, Alive, Waiting
<1> QED BY <1>3, <1>4, <1>5, <1>6, <1>7 DEF CallMain

LEMMA TickStep ==
  ASSUME CInv, Image, L!Tick
  PROVE  Tick /\ ListInv' /\ ThreadsInv'
<1>1. PICK s \in Seq(Threads), m \in Seq(Threads) :
         Good(deadline, lists, s, m, active) /\ (pc = "boot" => active = s)
  BY DEF CInv, ListInv
<1>2. state = lists.state /\ threads = {u \in Threads : Alive(u)}
  BY DEF CInv, ThreadsInv
<1>3. /\ now + 1 < MaxTime /\ now' = now + 1
      /\ UNCHANGED <<lists, deadline, threads, joiners, target, running, pc>>
  BY DEF L!Tick
<1>4. state' = state /\ active' = active
  BY <1>1, <1>2, <1>3, GoodIs DEF Image
<1>5. ListInv'
  BY <1>1, <1>3, <1>4 DEF ListInv
<1>6. ThreadsInv'
  BY <1>2, <1>3, <1>4 DEF ThreadsInv, Alive, Waiting
<1> QED BY <1>3, <1>4, <1>5, <1>6 DEF Tick

\* A dead thread is collected: the lists do not lead to it.
LEMMA CollectStep ==
  ASSUME CInv, Image, NEW t \in Threads, L!Collect(t)
  PROVE  Collect(t) /\ ListInv' /\ ThreadsInv'
<1> DEFINE q == [lists EXCEPT !.state[t] = "free"]
<1>1. PICK s \in Seq(Threads), m \in Seq(Threads) :
         Good(deadline, lists, s, m, active) /\ (pc = "boot" => active = s)
  BY DEF CInv, ListInv
<1>2. /\ state = lists.state /\ threads = {u \in Threads : Alive(u)}
      /\ state \in [Threads -> States]
  BY DEF CInv, ThreadsInv, SInv, TypeOK
<1>3. /\ state[t] = "dead"
      /\ \A u \in Threads : target[u] # t /\ t \notin joiners[u]
      /\ lists' = q
      /\ UNCHANGED <<deadline, threads, joiners, target, running, pc, now>>
  BY <1>2 DEF L!Collect, L!State
<1>4. t \notin Elements(s)
  <2>1. L!ActiveQueue(lists) = s
    BY <1>1, ListsAre DEF Good
  <2>2. t \notin L!ToSet(L!ActiveQueue(lists))
    BY DEF L!Collect
  <2> QED BY <2>1, <2>2 DEF L!ToSet, Elements
<1>5. /\ Is(lists, s, m) /\ Live(lists.state, s, active) /\ SortedBy(deadline, m)
      /\ Elements(m) = {u \in Threads : state[u] = "timer"}
      /\ \A u \in Elements(s) : u \in Threads /\ state[u] \in {"active", "dead"}
  BY <1>1, <1>2, GoodParts DEF Good
<1>6. Is(q, s, m) /\ q.state = [state EXCEPT ![t] = "free"]
  <2> DEFINE new == "free"
  <2>1. new \in States
    BY DEF States
  <2> HIDE DEF new
  <2>2. /\ Is([lists EXCEPT !.state[t] = new], s, m)
        /\ [lists EXCEPT !.state[t] = new].state = [lists.state EXCEPT ![t] = new]
    BY <1>5, <2>1, IsState
  <2> QED BY <1>2, <2>2 DEF new
<1> HIDE DEF q
<1>7. Live(q.state, s, active)
  <2>1. \A u \in Elements(s) : q.state[u] = "dead" <=> lists.state[u] = "dead"
    BY <1>2, <1>4, <1>5, <1>6
  <2> QED BY <1>5, <2>1, LiveState
<1>8. Elements(m) = {u \in Threads : q.state[u] = "timer"}
  BY <1>2, <1>3, <1>5, <1>6
<1>9. \A u \in Elements(s) : q.state[u] \in {"active", "dead"}
  BY <1>2, <1>4, <1>5, <1>6
<1>10. Good(deadline, q, s, m, active)
  BY <1>5, <1>6, <1>7, <1>8, <1>9 DEF Good
<1>11. active' = active /\ state' = [state EXCEPT ![t] = "free"]
  BY <1>3, <1>6, <1>10, GoodIs DEF Image
<1>12. Collect(t)
  BY <1>3, <1>11 DEF Collect
<1>13. ListInv'
  BY <1>1, <1>3, <1>10, <1>11 DEF ListInv
<1>14. ThreadsInv'
  BY <1>2, <1>3, <1>11 DEF ThreadsInv, Alive, Waiting
<1> QED BY <1>12, <1>13, <1>14

-----------------------------------------------------------------------------
(* The scheduler. *)

\* The timers that are due, u, follow the queue s.
ExpiredTo(q, s, a, u) ==
    LET r == L!ExpireTimers(q)
    IN  /\ Elements(u) = {t \in Threads : q.state[t] = "timer" /\ deadline[t] <= now}
        /\ SortedBy(deadline, u)
        /\ \E v \in Seq(Threads) : Good(deadline, r, s \o u, v, a \o u)
        /\ r.state = [t \in Threads |-> IF t \in Elements(u) THEN "active" ELSE q.state[t]]

LEMMA ExpireGood ==
  ASSUME NEW q, NEW s, NEW m, NEW a, Good(deadline, q, s, m, a),
         deadline \in [Threads -> Int], now \in Int
  PROVE  \E u \in Seq(Threads) : ExpiredTo(q, s, a, u)
<1> DEFINE r == L!ExpireTimers(q)
<1>1. /\ Is(q, s, m) /\ Live(q.state, s, a) /\ SortedBy(deadline, m) /\ Sorted(m)
      /\ Elements(m) = {t \in Threads : q.state[t] = "timer"}
      /\ q.state \in [Threads -> States] /\ s \in Seq(Threads)
      /\ \A t \in Elements(s) : t \in Threads /\ q.state[t] \in {"active", "dead"}
  BY GoodParts DEF Good, Sorted
<1>2. PICK u \in Seq(Threads), v \in Seq(Threads) :
         /\ m = u \o v
         /\ Elements(u) = {t \in Elements(m) : deadline[t] <= now}
         /\ Is(r, s \o u, v)
         /\ r.state = [t \in Threads |-> IF t \in Elements(u) THEN "active"
                                         ELSE q.state[t]]
  <2>1. \E u, v \in Seq(Threads) : Spliced(q, s, m, u, v)
    BY <1>1, ExpireTimersIs
  <2>2. PICK u \in Seq(Threads), v \in Seq(Threads) : Spliced(q, s, m, u, v)
    BY <2>1
  <2> QED BY <2>2 DEF Spliced
<1> HIDE DEF r
<1>3. /\ SortedBy(deadline, u) /\ SortedBy(deadline, v)
      /\ Elements(m) = Elements(u) \cup Elements(v)
      /\ Elements(u) \cap Elements(v) = {}
      /\ Elements(s \o u) = Elements(s) \cup Elements(u) /\ Distinct(s \o u)
      /\ Elements(u) \subseteq Threads
  <2>1. Distinct(m) /\ Distinct(s \o u)
    BY <1>1, <1>2, IsParts
  <2>2. SortedBy(deadline, u) /\ SortedBy(deadline, v)
    BY <1>1, <1>2, SortedConcat
  <2>3. /\ Elements(m) = Elements(u) \cup Elements(v)
        /\ Elements(u) \cap Elements(v) = {}
    BY <1>2, <2>1, ElementsConcat, DistinctConcat
  <2>4. Elements(s \o u) = Elements(s) \cup Elements(u)
    BY <1>1, <1>2, ElementsConcat
  <2> QED BY <1>1, <2>1, <2>2, <2>3, <2>4
<1>4. Live(r.state, s \o u, a \o u)
  <2>1. \A t \in Elements(s) : r.state[t] = "dead" <=> q.state[t] = "dead"
    BY <1>1, <1>2
  <2>2. Live(r.state, s, a)
    BY <1>1, <2>1, LiveState
  <2>3. \A t \in Elements(u) : r.state[t] # "dead"
    BY <1>2, <1>3
  <2> QED BY <1>1, <1>2, <1>3, <2>2, <2>3, LiveConcat
<1>5. Elements(v) = {t \in Threads : r.state[t] = "timer"}
  BY <1>1, <1>2, <1>3
<1>6. \A t \in Elements(s \o u) : r.state[t] \in {"active", "dead"}
  BY <1>1, <1>2, <1>3
<1>7. Good(deadline, r, s \o u, v, a \o u)
  BY <1>2, <1>3, <1>4, <1>5, <1>6 DEF Good
<1>8. Elements(u) = {t \in Threads : q.state[t] = "timer" /\ deadline[t] <= now}
  BY <1>1, <1>2
<1> QED BY <1>2, <1>3, <1>7, <1>8 DEF ExpiredTo, r

\* The thread that yielded follows, if there is one.
Yielded == IF running = NULL THEN <<>> ELSE One(running)

LEMMA PushGood ==
  ASSUME NEW d, NEW q, NEW s, NEW m, NEW a, Good(d, q, s, m, a), s # <<>>,
         running \in Threads \cup {NULL},
         running # NULL => /\ running \notin Elements(s) /\ running \notin Elements(m)
                           /\ q.state[running] = "active"
  PROVE  /\ Good(d, L!PushYielded(q), s \o Yielded, m, a \o Yielded)
         /\ L!PushYielded(q).state = q.state
         /\ s \o Yielded # <<>> /\ L!PushYielded(q).tail # NULL
<1> DEFINE r == L!PushYielded(q)
<1>1. /\ Is(q, s, m) /\ Live(q.state, s, a) /\ SortedBy(d, m)
      /\ Elements(m) = {t \in Threads : q.state[t] = "timer"}
      /\ s \in Seq(Threads) /\ a \in Seq(Threads)
      /\ \A t \in Elements(s) : t \in Threads /\ q.state[t] \in {"active", "dead"}
  BY GoodParts DEF Good
<1>2. CASE running = NULL
  <2>1. r = q /\ Yielded = <<>>
    BY <1>2 DEF L!PushYielded, Yielded
  <2>2. s \o <<>> = s /\ a \o <<>> = a
    BY <1>1, ConcatEmpty
  <2>3. q.tail # NULL
    <3>1. s[Len(s)] \in Threads
      BY <1>1
    <3> QED BY <1>1, <3>1, ThreadsAssumption DEF Is
  <2> QED BY <2>1, <2>2, <2>3
<1>3. CASE running # NULL
  <2> DEFINE y == One(running)
  <2>1. running \in Threads /\ Yielded = y
    BY <1>3 DEF Yielded
  <2>2. r = L!Activate(q, running)
    BY <1>1, <2>1, PushYieldedIs
  <2>3. Is(r, s \o y, m) /\ r.state = q.state
    BY <1>1, <1>3, <2>1, <2>2, ActivateIs
  <2> HIDE DEF r
  <2>4. /\ y \in Seq(Threads) /\ Elements(y) = {running} /\ s \o y # <<>>
        /\ (s \o y)[Len(s \o y)] = running
    BY <1>1, <2>1, OneIs, AppendIs
  <2> HIDE DEF y
  <2>5. r.tail = running
    BY <2>3, <2>4 DEF Is
  <2>6. Elements(s \o y) = Elements(s) \cup {running} /\ Distinct(s \o y)
    BY <1>1, <2>3, <2>4, ElementsConcat, IsParts
  <2>7. Live(q.state, s \o y, a \o y)
    BY <1>1, <1>3, <2>4, <2>6, LiveConcat
  <2>8. \A t \in Elements(s \o y) : q.state[t] \in {"active", "dead"}
    BY <1>1, <1>3, <2>6
  <2>9. Good(d, r, s \o y, m, a \o y)
    BY <1>1, <2>3, <2>7, <2>8 DEF Good
  <2> QED BY <1>3, <2>1, <2>3, <2>4, <2>5, <2>9 DEF r
<1> QED BY <1>2, <1>3

\* The first thread that is not dead, if any, leaves the queue.
PoppedFrom(d, q, m, a) ==
    LET p == L!PopRunnable(q)
    IN  /\ p.thread = IF a = <<>> THEN NULL ELSE Head(a)
        /\ p.lists.state = q.state
        /\ \E c \in Seq(Threads) :
              Good(d, p.lists, c, m, IF a = <<>> THEN <<>> ELSE Tail(a))

LEMMA PopGood ==
  ASSUME NEW d, NEW q, NEW s, NEW m, NEW a, Good(d, q, s, m, a), s # <<>>
  PROVE  PoppedFrom(d, q, m, a)
<1> DEFINE p == L!PopRunnable(q)
<1>1. /\ Is(q, s, m) /\ Live(q.state, s, a) /\ SortedBy(d, m)
      /\ Elements(m) = {t \in Threads : q.state[t] = "timer"}
      /\ s \in Seq(Threads) /\ Distinct(s)
      /\ \A t \in Elements(s) : t \in Threads /\ q.state[t] \in {"active", "dead"}
  BY GoodParts, IsParts DEF Good
<1>2. PICK b \in Seq(Threads), c \in Seq(Threads), x \in Threads :
         /\ s = (b \o One(x)) \o c
         /\ \A t \in Elements(b) : q.state[t] = "dead"
         /\ q.state[x] = "dead" => c = <<>>
         /\ p.thread = IF q.state[x] = "dead" THEN NULL ELSE x
         /\ Is(p.lists, c, m)
         /\ p.lists.state = q.state
  BY <1>1, PopRunnableIs
<1> HIDE DEF p
<1>3. Elements(s) = Elements(b) \cup {x} \cup Elements(c)
  BY <1>2, MiddleIs
<1>4. \A t \in Elements(c) : p.lists.state[t] \in {"active", "dead"}
  BY <1>1, <1>2, <1>3
<1>5. CASE q.state[x] = "dead"
  <2>1. c = <<>> /\ Elements(c) = {}
    BY <1>2, <1>5, EmptyQueue
  <2>2. \A t \in Elements(s) : q.state[t] = "dead"
    BY <1>2, <1>3, <1>5, <2>1
  <2>3. a = <<>>
    BY <1>1, <2>2, LiveNone
  <2>4. Live(p.lists.state, c, <<>>)
    <3>1. /\ <<>> \in Seq(Threads) /\ Distinct(<<>>) /\ Elements(<<>>) = {}
          /\ \A y, z : ~ Precedes(<<>>, y, z)
      BY EmptyQueue DEF Precedes
    <3> QED BY <2>1, <3>1 DEF Live
  <2>5. Good(d, p.lists, c, m, <<>>)
    BY <1>1, <1>2, <1>4, <2>4 DEF Good
  <2> QED BY <1>2, <1>5, <2>3, <2>5 DEF PoppedFrom, p
<1>6. CASE q.state[x] # "dead"
  <2>1. a # <<>> /\ Head(a) = x /\ Live(q.state, c, Tail(a))
    BY <1>1, <1>2, <1>6, LivePop
  <2>2. Good(d, p.lists, c, m, Tail(a))
    BY <1>1, <1>2, <1>4, <2>1 DEF Good
  <2> QED BY <1>2, <1>6, <2>1, <2>2 DEF PoppedFrom, p
<1> QED BY <1>5, <1>6
\* The queue that ThreadScheduler takes its next thread from, for an order u
\* of the timers that are due.
LEMMA ScheduleFrom ==
  ASSUME TypeOK, pc = "dispatch", NEW u \in Seq(Threads), Distinct(u),
         Elements(u) = {t \in Threads : state[t] = "timer" /\ deadline[t] <= now},
         SortedBy(deadline, u),
         NEW w, w = (active \o u) \o Yielded, w # <<>>,
         running' = Head(w), active' = Tail(w),
         state' = [t \in Threads |-> IF t \in Elements(u) THEN "active" ELSE state[t]],
         pc' = "run", UNCHANGED <<deadline, target, joiners, now>>
  PROVE  Schedule
<1> DEFINE expired == {t \in Threads : state[t] = "timer" /\ deadline[t] <= now}
           yielded == IF running = NULL THEN <<>> ELSE <<running>>
<1>1. u \in Orders(expired)
  BY OrdersOf
<1>2. \A i, j \in DOMAIN u : i < j => deadline[u[i]] <= deadline[u[j]]
  <2> SUFFICES ASSUME NEW i \in DOMAIN u, NEW j \in DOMAIN u, i < j
               PROVE  deadline[u[i]] <= deadline[u[j]]
    OBVIOUS
  <2>1. Precedes(u, u[i], u[j]) /\ u[i] \in Threads /\ u[j] \in Threads
    BY DEF Precedes
  <2> QED BY <2>1 DEF SortedBy
<1>3. w = active \o u \o yielded
  BY DEF Yielded, One
<1>4. state' = [t \in Threads |-> IF t \in expired THEN "active" ELSE state[t]]
  OBVIOUS
<1> HIDE DEF expired, yielded
<1>5. \E order \in Orders(expired) :
         /\ \A i, j \in DOMAIN order :
               i < j => deadline[order[i]] <= deadline[order[j]]
         /\ /\ active \o order \o yielded # <<>>
            /\ running' = Head(active \o order \o yielded)
            /\ active' = Tail(active \o order \o yielded)
  BY <1>1, <1>2, <1>3
<1> QED BY <1>4, <1>5 DEF Schedule, expired, yielded

\* mod_main(), from one dispatch of events to the next or to a thread.  If all
\* that was in the queue had died, nothing happens to the image.
LEMMA ScheduleStep ==
  ASSUME CInv, Image, L!Schedule
  PROVE  (Schedule \/ UNCHANGED vars) /\ ListInv' /\ ThreadsInv'
<1> DEFINE e == L!ExpireTimers(lists)
           q == L!PushYielded(e)
<1>1. PICK s \in Seq(Threads), m \in Seq(Threads) :
         Good(deadline, lists, s, m, active)
  BY DEF CInv, ListInv
<1>2. /\ state = lists.state /\ threads = {u \in Threads : Alive(u)}
      /\ state \in [Threads -> States] /\ deadline \in [Threads -> Int]
      /\ now \in Int /\ running \in Threads \cup {NULL} /\ active \in Seq(Threads)
      /\ TypeOK
  BY MaxTimeAssumption DEF CInv, ThreadsInv, SInv, TypeOK, Time
<1>3. /\ pc = "dispatch"
      /\ \/ running # NULL \/ lists.tail # NULL
         \/ lists.timers # NULL /\ deadline[lists.timers] <= now
      /\ q.tail = NULL => lists' = q /\ running' = running
      /\ q.tail # NULL => /\ lists' = L!PopRunnable(q).lists
                          /\ running' = L!PopRunnable(q).thread
      /\ pc' = IF running' = NULL THEN "dispatch" ELSE "run"
      /\ UNCHANGED <<deadline, threads, joiners, target, now>>
  BY DEF L!Schedule, L!DispatchReturns
<1>4. PICK u \in Seq(Threads) : ExpiredTo(lists, s, active, u)
  BY <1>1, <1>2, ExpireGood
<1>5. /\ Elements(u) = {t \in Threads : state[t] = "timer" /\ deadline[t] <= now}
      /\ SortedBy(deadline, u)
      /\ e.state = [t \in Threads |-> IF t \in Elements(u) THEN "active" ELSE state[t]]
  BY <1>2, <1>4 DEF ExpiredTo
<1>6. PICK v \in Seq(Threads) : Good(deadline, e, s \o u, v, active \o u)
  BY <1>4 DEF ExpiredTo
<1> HIDE DEF e
<1>7. /\ s \o u \in Seq(Threads) /\ active \o u \in Seq(Threads) /\ Distinct(u)
      /\ Elements(s \o u) = Elements(s) \cup Elements(u)
      /\ Elements(v) = {t \in Threads : e.state[t] = "timer"}
  <2>1. s \o u \in Seq(Threads) /\ active \o u \in Seq(Threads)
    BY <1>6, GoodParts
  <2>2. Distinct(s \o u)
    BY <1>6, IsParts DEF Good
  <2>3. Elements(v) = {t \in Threads : e.state[t] = "timer"}
    BY <1>6 DEF Good
  <2> QED BY <2>1, <2>2, <2>3, DistinctConcat, ElementsConcat
<1>8. running # NULL => /\ running \notin Elements(s \o u) /\ running \notin Elements(v)
                        /\ e.state[running] = "active"
  <2> SUFFICES ASSUME running # NULL
               PROVE  /\ running \notin Elements(s \o u) /\ running \notin Elements(v)
                      /\ e.state[running] = "active"
    OBVIOUS
  <2>1. running \in Threads /\ state[running] = "active" /\ running \notin Elements(s)
    BY <1>1, <1>2, RunningIs DEF CInv
  <2> QED BY <1>5, <1>7, <2>1
<1>9. ASSUME state' = e.state PROVE ThreadsInv'
  BY <1>2, <1>3, <1>5, <1>9 DEF ThreadsInv, Alive, Waiting
<1>10. CASE s \o u = <<>>
  <2>1. s = <<>> /\ u = <<>> /\ Elements(u) = {} /\ Elements(s) = {}
    <3>1. Elements(s \o u) = {}
      BY <1>10, EmptyQueue
    <3>2. Elements(s) = {} /\ Elements(u) = {}
      BY <1>7, <3>1
    <3>3. 1 \notin DOMAIN s /\ 1 \notin DOMAIN u
      BY <3>2 DEF Elements
    <3>4. s \in Seq(Threads) /\ u \in Seq(Threads)
      OBVIOUS
    <3> QED BY ONLY <3>2, <3>3, <3>4
  <2>2. active = <<>>
    BY <1>1, <2>1, LiveNone DEF Good
  <2>3. e.state = state
    BY <1>2, <1>5, <2>1
  <2>4. e.tail = NULL
    BY <1>6, <1>10 DEF Good, Is
  <2>5. q = e
    BY <2>4 DEF L!PushYielded
  <2>6. lists' = e /\ running' = running
    BY <1>3, <2>4, <2>5
  <2>7. running # NULL
    <3>1. lists.tail = NULL
      BY <1>1, <2>1 DEF Good, Is
    <3>2. ASSUME lists.timers # NULL, deadline[lists.timers] <= now PROVE FALSE
      <4>1. m # <<>> /\ lists.timers = First(m, NULL)
        BY <1>1, <3>2 DEF Good, Is, First
      <4>2. lists.timers \in Elements(m)
        BY <4>1, FirstIn
      <4>3. lists.timers \in Threads /\ state[lists.timers] = "timer"
        BY <1>1, <1>2, <4>2 DEF Good
      <4> QED BY <1>5, <2>1, <3>2, <4>3
    <3> QED BY <1>3, <3>1, <3>2
  <2>8. state' = state /\ active' = <<>>
    <3>1. active \o u = <<>>
      BY <2>1, <2>2
    <3> QED BY <1>6, <2>3, <2>6, <3>1, GoodIs DEF Image
  <2>9. Schedule
    <3> DEFINE w == (active \o u) \o Yielded
    <3>1. w = <<running>>
      BY <1>2, <2>1, <2>2, <2>7 DEF Yielded, One
    <3>2. w # <<>> /\ running' = Head(w) /\ active' = Tail(w)
      BY <2>6, <2>8, <3>1
    <3> HIDE DEF w
    <3>3. pc' = "run"
      BY <1>3, <2>6, <2>7
    <3>4. state' = [t \in Threads |-> IF t \in Elements(u) THEN "active" ELSE state[t]]
      BY <1>5, <2>3, <2>8
    <3> QED BY <1>2, <1>3, <1>5, <1>7, <3>2, <3>3, <3>4, ScheduleFrom DEF w
  <2>10. ListInv'
    <3>1. Good(deadline', lists', s \o u, v, active')
      BY <1>3, <1>6, <2>1, <2>2, <2>6, <2>8
    <3>2. pc' # "boot"
      BY <1>3
    <3> QED BY <1>7, <3>1, <3>2 DEF ListInv
  <2> QED BY <1>9, <2>3, <2>8, <2>9, <2>10
<1>11. CASE s \o u # <<>>
  <2> DEFINE w == (active \o u) \o Yielded
             y == (s \o u) \o Yielded
  <2>1. /\ Good(deadline, q, y, v, w) /\ q.state = e.state
        /\ y # <<>> /\ q.tail # NULL
    BY <1>2, <1>6, <1>8, <1>11, PushGood
  <2> HIDE DEF q, w, y
  <2>2. PoppedFrom(deadline, q, v, w)
    BY <2>1, PopGood
  <2> DEFINE rest == IF w = <<>> THEN <<>> ELSE Tail(w)
  <2>3. PICK c \in Seq(Threads) : Good(deadline, L!PopRunnable(q).lists, c, v, rest)
    BY <2>2 DEF PoppedFrom
  <2>4. /\ lists' = L!PopRunnable(q).lists
        /\ running' = IF w = <<>> THEN NULL ELSE Head(w)
        /\ lists'.state = e.state
    BY <1>3, <2>1, <2>2 DEF PoppedFrom
  <2>5. active' = rest /\ state' = e.state
    BY <2>3, <2>4, GoodIs DEF Image
  <2>6. ListInv'
    <3>1. pc' # "boot"
      BY <1>3
    <3>2. Good(deadline', lists', c, v, active')
      BY <1>3, <2>3, <2>4, <2>5
    <3> QED BY <3>1, <3>2 DEF ListInv
  <2>7. ASSUME w = <<>> PROVE UNCHANGED vars
    <3>1. /\ active = <<>> /\ u = <<>> /\ running = NULL
      <4>1. Yielded \in Seq(Threads) /\ (Yielded = <<>> => running = NULL)
        BY <1>2, ConcatEmpty, OneIs DEF Yielded
      <4>2. active \o u = <<>> /\ Yielded = <<>>
        BY ONLY <1>7, <2>7, <4>1 DEF w
      <4>3. active = <<>> /\ u = <<>>
        BY ONLY <1>2, <1>7, <4>2, u \in Seq(Threads)
      <4> QED BY <4>1, <4>2, <4>3
    <3>2. running' = NULL /\ active' = <<>> /\ pc' = "dispatch"
      BY <1>3, <2>4, <2>5, <2>7
    <3>3. state' = state
      <4>1. Elements(u) = {}
        BY <3>1, EmptyQueue
      <4> QED BY <1>2, <1>5, <2>5, <4>1
    <3> QED BY <1>3, <3>1, <3>2, <3>3 DEF vars
  <2>8. ASSUME w # <<>> PROVE Schedule
    <3>1. running' = Head(w) /\ active' = Tail(w)
      BY <2>4, <2>5, <2>8
    <3>2. pc' = "run"
      <4>1. w \in Seq(Threads)
        BY <2>1, GoodParts
      <4>2. running' \in Threads
        BY <2>8, <3>1, <4>1
      <4> QED BY <1>3, <4>2, ThreadsAssumption
    <3>3. state' = [t \in Threads |-> IF t \in Elements(u) THEN "active" ELSE state[t]]
      BY <1>5, <2>5
    <3>4. w = (active \o u) \o Yielded
      BY DEF w
    <3> QED BY <1>2, <1>3, <1>5, <1>7, <2>8, <3>1, <3>2, <3>3, <3>4, ScheduleFrom
  <2> QED BY <1>9, <2>5, <2>6, <2>7, <2>8
<1> QED BY <1>10, <1>11

-----------------------------------------------------------------------------
(* The theorems. *)

\* One step of the code keeps the invariant, and is a step of ThreadScheduler
\* or changes nothing of the image: one case per action.
LEMMA StepImplements ==
  ASSUME CInv, [NextAll]_all
  PROVE  CInv' /\ (MaxJoiners \in 0..2 => [Next]_vars)
<1>1. SInv
  BY DEF CInv
<1>2. ASSUME Image, [Next]_vars, ListInv', ThreadsInv' PROVE CInv'
  <2>1. SInv'
    BY <1>1, <1>2, StepPreserves DEF Kept
  <2> QED BY <1>2, <2>1 DEF CInv, Image
<1>3. CASE UNCHANGED all
  <2>1. UNCHANGED <<state, deadline, active, running, pc, target, joiners, now,
                    lists, threads>>
    BY <1>3 DEF all, vars
  <2>2. UNCHANGED vars
    BY <2>1 DEF vars
  <2>3. Image
    <3>1. PICK s \in Seq(Threads), m \in Seq(Threads) : Good(deadline, lists, s, m, active)
      BY DEF CInv, ListInv
    <3>2. active = ActiveIn(lists)
      BY <3>1, GoodIs
    <3> QED BY <2>1, <3>2 DEF Image, CInv
  <2>4. ListInv' /\ ThreadsInv'
    BY <2>1 DEF CInv, ListInv, ThreadsInv, Alive, Waiting
  <2> QED BY <1>2, <2>2, <2>3, <2>4
<1>4. CASE NextAll
  <2>1. Image /\ L!Next
    BY <1>4 DEF NextAll, Image
  <2> USE <2>1
  <2>2. ASSUME NEW t \in Threads, L!Start(t) PROVE Next /\ ListInv' /\ ThreadsInv'
    BY <2>2, StartStep DEF Next
  <2>3. ASSUME NEW t \in Threads, L!Resume(t) PROVE Next /\ ListInv' /\ ThreadsInv'
    <3>1. /\ \E r \in Threads : Calls(r)
          /\ Waiting(t) /\ lists' = L!ResumeThread(lists, t)
          /\ UNCHANGED <<deadline, threads, joiners, target, running, pc, now>>
      BY <2>3 DEF L!Resume, L!Calls, L!Runs, Calls, Runs, L!Waiting, L!State, Waiting, CInv
    <3>2. pc # "boot"
      BY <3>1 DEF Calls, Runs
    <3>3. /\ state' = [state EXCEPT ![t] = "active"] /\ active' = Append(active, t)
          /\ ListInv' /\ ThreadsInv'
      BY <3>1, <3>2, ResumeStep
    <3>4. Resume(t)
      BY <3>1, <3>3 DEF Resume
    <3> QED BY <3>3, <3>4 DEF Next
  <2>4. ASSUME NEW t \in Threads, L!WatcherResumed(t)
        PROVE  Next /\ ListInv' /\ ThreadsInv'
    <3>1. /\ pc = "dispatch"
          /\ Waiting(t) /\ lists' = L!ResumeThread(lists, t)
          /\ UNCHANGED <<deadline, threads, joiners, target, running, pc, now>>
      BY <2>4 DEF L!WatcherResumed, L!Waiting, L!State, Waiting, CInv
    <3>2. /\ state' = [state EXCEPT ![t] = "active"] /\ active' = Append(active, t)
          /\ ListInv' /\ ThreadsInv'
      BY <3>1, ResumeStep
    <3>3. WatcherResumed(t)
      BY <3>1, <3>2 DEF WatcherResumed
    <3> QED BY <3>2, <3>3 DEF Next
  <2>5. ASSUME NEW t \in Threads, L!Terminate(t) PROVE Next /\ ListInv' /\ ThreadsInv'
    BY <2>5, TerminateStep DEF Next
  <2>6. ASSUME NEW t \in Threads, L!Yield(t) PROVE Next /\ ListInv' /\ ThreadsInv'
    BY <2>6, YieldStep DEF Next
  <2>7. ASSUME NEW t \in Threads, L!Suspend(t) PROVE Next /\ ListInv' /\ ThreadsInv'
    BY <2>7, SuspendStep DEF Next
  <2>8. ASSUME NEW t \in Threads, NEW time \in L!Time, L!SuspendUntil(t, time)
        PROVE  Next /\ ListInv' /\ ThreadsInv'
    <3>1. time \in Time
      BY DEF L!Time, Time
    <3>2. SuspendUntil(t, time) /\ ListInv' /\ ThreadsInv'
      BY <2>8, <3>1, SuspendUntilStep
    <3> QED BY <3>1, <3>2 DEF Next
  <2>9. ASSUME NEW t \in Threads, NEW u \in Threads, L!Kill(t, u)
        PROVE  Next /\ ListInv' /\ ThreadsInv'
    BY <2>9, KillStep DEF Next
  <2>10. ASSUME NEW t \in Threads, NEW u \in Threads, L!Join(t, u)
         PROVE  CInv' /\ (MaxJoiners \in 0..2 => Next)
    <3>1. /\ SInv' /\ ListInv' /\ ThreadsInv'
          /\ MaxJoiners \in 0..2 => Join(t, u)
      BY <2>10, JoinStep
    <3>2. MaxJoiners \in 0..2 => Next
      BY <3>1 DEF Next
    <3> QED BY <3>1, <3>2 DEF CInv, Image
  <2>11. ASSUME NEW t \in Threads, L!JoinAgain(t) PROVE Next /\ ListInv' /\ ThreadsInv'
    BY <2>11, JoinAgainStep DEF Next
  <2>12. ASSUME NEW t \in Threads, L!Shutdown(t) PROVE Next /\ ListInv' /\ ThreadsInv'
    BY <2>12, ShutdownStep DEF Next
  <2>13. ASSUME NEW t \in Threads, L!Collect(t) PROVE Next /\ ListInv' /\ ThreadsInv'
    BY <2>13, CollectStep DEF Next
  <2>14. ASSUME L!CallMain PROVE Next /\ ListInv' /\ ThreadsInv'
    BY <2>14, CallMainStep DEF Next
  <2>15. ASSUME L!Schedule PROVE [Next]_vars /\ ListInv' /\ ThreadsInv'
    BY <2>15, ScheduleStep DEF Next
  <2>16. ASSUME L!Tick PROVE Next /\ ListInv' /\ ThreadsInv'
    BY <2>16, TickStep DEF Next
  <2> QED
    BY <1>2, <2>2, <2>3, <2>4, <2>5, <2>6, <2>7, <2>8, <2>9, <2>10, <2>11, <2>12,
       <2>13, <2>14, <2>15, <2>16 DEF L!Next
<1> QED BY <1>3, <1>4

LEMMA InitImplements ==
  ASSUME InitAll
  PROVE  CInv /\ JoinInv /\ Init
<1>1. /\ lists = [head |-> NULL, tail |-> NULL, timers |-> NULL,
                  next |-> [t \in Threads |-> NULL],
                  state |-> [t \in Threads |-> "free"]]
      /\ deadline = [t \in Threads |-> 0]
      /\ threads = {} /\ joiners = [t \in Threads |-> {}]
      /\ target = [t \in Threads |-> NULL]
      /\ running = NULL /\ pc = "boot" /\ now = 0
      /\ state = lists.state /\ active = ActiveIn(lists)
  BY DEF InitAll, L!Init
<1>2. /\ lists \in ListRecords /\ lists.head = NULL /\ lists.tail = NULL
      /\ lists.timers = NULL /\ lists.next = [t \in Threads |-> NULL]
      /\ state = [t \in Threads |-> "free"] /\ state = lists.state
      /\ \A t \in Threads : lists.state[t] # "timer"
  BY <1>1 DEF ListRecords, States
<1>3. Good(deadline, lists, <<>>, <<>>, <<>>)
  BY <1>2, NoneGood
<1>4. active = <<>>
  BY <1>1, <1>3, GoodIs
<1>5. Init
  BY <1>1, <1>2, <1>4 DEF Init
<1>6. SInv /\ JoinInv
  <2>1. TypeOK
    BY <1>5, MaxTimeAssumption DEF Init, TypeOK, States, Locations, Time
  <2>2. QueueHoldsActive
    BY <1>5, EmptyQueue DEF Init, QueueHoldsActive
  <2>3. RunInv /\ JoinInv
    BY <1>5 DEF Init, RunInv, JoinInv
  <2> QED BY <2>1, <2>2, <2>3 DEF SInv
<1>7. ListInv
  <2>1. <<>> \in Seq(Threads)
    OBVIOUS
  <2> QED BY <1>3, <1>4, <2>1 DEF ListInv
<1>8. ThreadsInv
  BY <1>1, <1>2 DEF ThreadsInv, Alive, Waiting
<1> QED BY <1>2, <1>5, <1>6, <1>7, <1>8 DEF CInv

LEMMA ListInvariance == SpecAll => []CInv
<1>1. InitAll => CInv
  BY InitImplements
<1>2. CInv /\ [NextAll]_all => CInv'
  BY StepImplements
<1> QED BY <1>1, <1>2, PTL DEF SpecAll

\* What CInv says of the lists, in the words of ThreadLists.
LEMMA ListsFromInv == ASSUME CInv PROVE ListsWellFormed
<1>1. PICK s \in Seq(Threads), m \in Seq(Threads) : Good(deadline, lists, s, m, active)
  BY DEF CInv, ListInv
<1>2. /\ Is(lists, s, m) /\ SortedBy(deadline, m) /\ lists \in ListRecords
      /\ Elements(m) = {t \in Threads : lists.state[t] = "timer"}
      /\ L!ActiveQueue(lists) = s /\ L!TimerList(lists) = m
      /\ Distinct(s \o m)
      /\ lists.tail = IF s = <<>> THEN NULL ELSE s[Len(s)]
      /\ \A t \in Threads \ (Elements(s) \cup Elements(m)) : lists.next[t] = NULL
      /\ Elements(s \o m) = Elements(s) \cup Elements(m)
  BY <1>1, IsParts, ListsAre, ElementsConcat DEF Good, Is
<1>3. L!TypeOK
  <2>1. TypeOK /\ threads \subseteq Threads
    BY DEF CInv, SInv, ThreadsInv
  <2> QED BY <1>2, <2>1 DEF L!TypeOK, TypeOK, ListRecords, States, Locations, L!Time, Time
<1>4. L!ListsWellFormed
  <2>1. L!IsInjective(s \o m)
    BY <1>2 DEF L!IsInjective, Distinct
  <2>2. lists.tail = IF s = <<>> THEN NULL ELSE L!Last(s)
    BY <1>2 DEF L!Last
  <2>3. L!ToSet(m) = {t \in Threads : L!State(t) = "timer"}
    BY <1>2 DEF L!ToSet, Elements, L!State
  <2>4. \A i, j \in DOMAIN m : i < j => deadline[m[i]] <= deadline[m[j]]
    <3> SUFFICES ASSUME NEW i \in DOMAIN m, NEW j \in DOMAIN m, i < j
                 PROVE  deadline[m[i]] <= deadline[m[j]]
      OBVIOUS
    <3>1. Precedes(m, m[i], m[j]) /\ m[i] \in Threads /\ m[j] \in Threads
      BY DEF Precedes
    <3> QED BY <1>2, <3>1 DEF SortedBy
  <2>5. \A t \in Threads \ L!ToSet(s \o m) : lists.next[t] = NULL
    <3>1. L!ToSet(s \o m) = Elements(s \o m)
      BY DEF L!ToSet, Elements
    <3> QED BY <1>2, <3>1
  <2> QED BY <1>2, <2>1, <2>2, <2>3, <2>4, <2>5 DEF L!ListsWellFormed
<1>5. L!ThreadsAreAlive
  BY DEF CInv, ThreadsInv, L!ThreadsAreAlive, L!Alive, Alive, L!Waiting, Waiting, L!State
<1> QED BY <1>3, <1>4, <1>5 DEF ListsWellFormed

\* The linked lists are never corrupted, whatever the threads do: no thread is
\* lost, duplicated or in both lists, TAIL and the links agree, and THREADS
\* has the live threads.  This is so for any number of threads and joiners.
THEOREM ListsCorrect == SpecAll => []ListsWellFormed
<1>1. CInv => ListsWellFormed
  BY ListsFromInv
<1> QED BY <1>1, ListInvariance, PTL

\* Every active thread has one place in the linked active queue.
THEOREM LinkedQueueCorrect == SpecAll => []QueueHoldsActive
<1>1. CInv => QueueHoldsActive
  BY DEF CInv, SInv
<1> QED BY <1>1, ListInvariance, PTL

\* The linked lists implement the queue and the timers that the documentation
\* describes, if at most two threads join the same thread.
THEOREM SchedulerRefined ==
  ASSUME MaxJoiners \in 0..2
  PROVE  SpecAll => ImplementsScheduler
<1>1. InitAll => Init
  BY InitImplements
<1>2. CInv /\ [NextAll]_all => [Next]_vars
  BY StepImplements
<1> QED BY <1>1, <1>2, ListInvariance, PTL DEF SpecAll, ImplementsScheduler

\* Then every thread that waits in join() is registered with a thread that can
\* still die.
THEOREM LinkedJoinCorrect ==
  ASSUME MaxJoiners \in 0..2
  PROVE  SpecAll => []JoinersRegistered
<1>1. InitAll => JoinInv
  BY InitImplements
<1>2. CInv /\ JoinInv /\ [NextAll]_all => JoinInv'
  BY StepImplements, StepPreserves DEF CInv, Kept
<1>3. JoinInv => JoinersRegistered
  BY DEF JoinInv, JoinersRegistered, Waiting
<1> QED BY <1>1, <1>2, <1>3, ListInvariance, PTL DEF SpecAll
=============================================================================
