-------------------------- MODULE ThreadScheduler ---------------------------
(***************************************************************************)
(* What the thread scheduler of lib/common/mlua.thread.c promises, as      *)
(* docs/mlua.md describes it, without linked lists: an active queue that   *)
(* is run round-robin, threads that wait for a resume() or a deadline, and *)
(* join().  ThreadLists is the scheduler as it is coded, and implements    *)
(* this one.                                                               *)
(*                                                                         *)
(* Threads are coroutines: exactly one runs at a time, and only gives up   *)
(* the core in a call that yields.  What happens between two yields is a   *)
(* sequence of actions of that thread, atomic with respect to others.      *)
(***************************************************************************)
EXTENDS Integers, FiniteSets, Sequences, QueueOps

CONSTANTS
    Threads,     \* the coroutine objects
    NULL,        \* no thread
    MaxTime      \* bound on deadlines; it stands for times that never come

ASSUME ThreadsAssumption == IsFiniteSet(Threads) /\ NULL \notin Threads
ASSUME MaxTimeAssumption == MaxTime \in Nat

VARIABLES
    state,       \* state[t]: is t unused, or active, suspended...
    deadline,    \* deadline[t]: when t gets resumed, if state[t] = "timer"
    active,      \* the active queue, without the running thread
    running,     \* the running thread, or the one that ran last
    pc,          \* "boot", before main(); "dispatch"; "run"
    target,      \* target[t]: the thread that t joins, or NULL
    joiners,     \* joiners[t]: the threads that asked to join t
    now          \* mlua_ticks64()

vars == <<state, deadline, active, running, pc, target, joiners, now>>

States == {"free", "active", "suspended", "timer", "dead"}
Locations == {"boot", "dispatch", "run"}
Time == 0..MaxTime

Waiting(t) == state[t] \in {"suspended", "timer"}
Alive(t) == Waiting(t) \/ state[t] = "active"

Init ==
    /\ state = [t \in Threads |-> "free"]
    /\ deadline = [t \in Threads |-> 0]
    /\ active = <<>>
    /\ running = NULL
    /\ pc = "boot"
    /\ target = [t \in Threads |-> NULL]
    /\ joiners = [t \in Threads |-> {}]
    /\ now = 0

-----------------------------------------------------------------------------
(* The running thread. *)

Runs(t) == pc = "run" /\ running = t

\* A thread whose join() is not over only looks again, see JoinAgain.
Calls(t) == Runs(t) /\ target[t] = NULL

\* start(), also called before main() to start the main function.
Start(t) ==
    /\ pc = "boot" \/ \E r \in Threads : Calls(r)
    /\ state[t] = "free"
    /\ state' = [state EXCEPT ![t] = "active"]
    /\ active' = Append(active, t)
    /\ UNCHANGED <<deadline, running, pc, target, joiners, now>>

\* Thread.resume()
Resume(t) ==
    /\ \E r \in Threads : Calls(r)
    /\ Waiting(t)
    /\ state' = [state EXCEPT ![t] = "active"]
    /\ active' = Append(active, t)
    /\ UNCHANGED <<deadline, running, pc, target, joiners, now>>

\* Thread t dies: it leaves the active queue, and the threads that wait to
\* join it are resumed, in any order.
Die(t) ==
    LET woken == {j \in joiners[t] : Waiting(j) /\ j # t}
    IN  /\ state' = [u \in Threads |-> IF u = t THEN "dead"
                                       ELSE IF u \in woken THEN "active"
                                       ELSE state[u]]
        /\ \E order \in Orders(woken) :
              active' = Without(active, t) \o order
        /\ joiners' = [joiners EXCEPT ![t] = {}]
        /\ target' = [target EXCEPT ![t] = NULL]
        /\ UNCHANGED <<deadline, now>>

\* Thread.kill()
Kill(r, t) ==
    /\ Calls(r)
    /\ t # r
    /\ Alive(t)
    /\ Die(t)
    /\ UNCHANGED <<running, pc>>

\* The function of the running thread returns or raises an error.
Terminate(r) ==
    /\ Calls(r)
    /\ Die(r)
    /\ running' = NULL
    /\ pc' = "dispatch"

\* yield()
Yield(r) ==
    /\ Calls(r)
    /\ pc' = "dispatch"
    /\ UNCHANGED <<state, deadline, active, running, target, joiners, now>>

\* The running thread waits; nothing that is active moves.
Block(r, newState) ==
    /\ state' = [state EXCEPT ![r] = newState]
    /\ running' = NULL
    /\ pc' = "dispatch"
    /\ UNCHANGED <<active, now>>

\* suspend() without a time
Suspend(r) ==
    /\ Calls(r)
    /\ Block(r, "suspended")
    /\ UNCHANGED <<deadline, target, joiners>>

\* suspend(time)
SuspendUntil(r, time) ==
    /\ Calls(r)
    /\ Block(r, "timer")
    /\ deadline' = [deadline EXCEPT ![r] = time]
    /\ UNCHANGED <<target, joiners>>

\* Thread.join() of a thread that is alive; joining a dead one returns.
Join(r, t) ==
    /\ Calls(r)
    /\ Alive(t)
    /\ Block(r, "suspended")
    /\ target' = [target EXCEPT ![r] = t]
    /\ joiners' = [joiners EXCEPT ![t] = @ \cup {r}]
    /\ UNCHANGED deadline

\* A thread resumed within join() returns if the joined thread is dead, and
\* waits again otherwise.
JoinAgain(r) ==
    /\ Runs(r)
    /\ target[r] # NULL
    /\ IF state[target[r]] = "dead"
       THEN /\ target' = [target EXCEPT ![r] = NULL]
            /\ UNCHANGED <<state, active, running, pc, now>>
       ELSE /\ Block(r, "suspended")
            /\ UNCHANGED target
    /\ UNCHANGED <<deadline, joiners>>

\* shutdown(): main() kills every thread and returns.
Shutdown(r) ==
    /\ Calls(r)
    /\ state' = [t \in Threads |-> IF Alive(t) THEN "dead" ELSE state[t]]
    /\ active' = <<>>
    /\ running' = NULL
    /\ pc' = "boot"
    /\ target' = [t \in Threads |-> NULL]
    /\ joiners' = [t \in Threads |-> {}]
    /\ UNCHANGED <<deadline, now>>

-----------------------------------------------------------------------------
(* The scheduler and its environment. *)

\* main() is called, after the main function was started.
CallMain ==
    /\ pc = "boot"
    /\ active # <<>>
    /\ pc' = "dispatch"
    /\ UNCHANGED <<state, deadline, active, running, target, joiners, now>>

\* An event is dispatched, and resumes the thread that watches it.
WatcherResumed(t) ==
    /\ pc = "dispatch"
    /\ Waiting(t)
    /\ state' = [state EXCEPT ![t] = "active"]
    /\ active' = Append(active, t)
    /\ UNCHANGED <<deadline, running, pc, target, joiners, now>>

\* Threads whose deadline has elapsed go to the active queue, by deadline,
\* then the thread that just yielded, if any; then the first one is run.
Schedule ==
    LET expired == {t \in Threads : state[t] = "timer" /\ deadline[t] <= now}
        yielded == IF running = NULL THEN <<>> ELSE <<running>>
    IN  /\ pc = "dispatch"
        /\ \E order \in Orders(expired) :
             /\ \A i, j \in DOMAIN order :
                   i < j => deadline[order[i]] <= deadline[order[j]]
             /\ LET queue == active \o order \o yielded
                IN  /\ queue # <<>>
                    /\ running' = Head(queue)
                    /\ active' = Tail(queue)
        /\ state' = [t \in Threads |->
                        IF t \in expired THEN "active" ELSE state[t]]
        /\ pc' = "run"
        /\ UNCHANGED <<deadline, target, joiners, now>>

Tick ==
    /\ now + 1 < MaxTime
    /\ now' = now + 1
    /\ UNCHANGED <<state, deadline, active, running, pc, target, joiners>>

\* Garbage collection of a dead thread that nothing refers to; it stands for
\* the creation of a thread under the same name later.
Collect(t) ==
    /\ state[t] = "dead"
    /\ \A u \in Threads : target[u] # t /\ t \notin joiners[u]
    /\ state' = [state EXCEPT ![t] = "free"]
    /\ UNCHANGED <<deadline, active, running, pc, target, joiners, now>>

Next ==
    \/ \E t \in Threads :
          \/ Start(t)
          \/ Resume(t)
          \/ Terminate(t)
          \/ Yield(t)
          \/ Suspend(t)
          \/ \E time \in Time : SuspendUntil(t, time)
          \/ \E u \in Threads : Kill(t, u) \/ Join(t, u)
          \/ JoinAgain(t)
          \/ Shutdown(t)
          \/ WatcherResumed(t)
          \/ Collect(t)
    \/ CallMain
    \/ Schedule
    \/ Tick

Spec == Init /\ [][Next]_vars

-----------------------------------------------------------------------------
(* Properties. *)

\* Every variable has its type.
TypeOK ==
    /\ state \in [Threads -> States]
    /\ deadline \in [Threads -> Time]
    /\ active \in Seq(Threads)
    /\ running \in Threads \cup {NULL}
    /\ pc \in Locations
    /\ target \in [Threads -> Threads \cup {NULL}]
    /\ joiners \in [Threads -> SUBSET Threads]
    /\ now \in Time

\* docs/mlua.md, mlua.thread: every active thread is the running one or has
\* exactly one place in the active queue, and no other thread is there, so a
\* round of the queue runs each active thread once.
QueueHoldsActive ==
    /\ Distinct(active)
    /\ running \notin Elements(active)
    /\ Elements(active) \cup ({running} \ {NULL})
          = {t \in Threads : state[t] = "active"}

\* Thread.join(): a thread that waits in join() is registered with a thread
\* that can still die.  What killed, resumed or shut down the threads in
\* between, its wait can end.
JoinersRegistered ==
    \A t \in Threads :
        target[t] # NULL /\ Waiting(t)
            => Alive(target[t]) /\ t \in joiners[target[t]]
=============================================================================
