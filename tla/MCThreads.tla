------------------------------ MODULE MCThreads -------------------------------
(***************************************************************************)
(* ThreadLists, the scheduler as it is coded, and its image under the      *)
(* refinement mapping to ThreadScheduler, for TLC: state and active are    *)
(* functions of the lists, and the other variables are shared.  So the     *)
(* properties of ThreadScheduler are checked on what the code does.        *)
(***************************************************************************)
EXTENDS ThreadScheduler

CONSTANT MaxJoiners

VARIABLES lists, threads
L == INSTANCE ThreadLists
all == <<lists, threads, vars>>

\* x comes before y in the sequence s.
Precedes(s, x, y) == \E i, j \in DOMAIN s : i < j /\ s[i] = x /\ s[j] = y

\* The queue of the lists q, without the dead threads that it still holds.
ActiveIn(q) ==
    LET queue == L!ActiveQueue(q)
    IN  CHOOSE s \in Orders({t \in Elements(queue) : q.state[t] # "dead"}) :
            \A i, j \in DOMAIN s : i < j => Precedes(queue, s[i], s[j])

InitAll == L!Init /\ state = lists.state /\ active = ActiveIn(lists)
NextAll == L!Next /\ state' = lists'.state /\ active' = ActiveIn(lists')

\* The fairness of ThreadLists.
SpecAll ==
    /\ InitAll
    /\ [][NextAll]_all
    /\ L!Cooperative
    /\ L!MainCalled
    /\ L!SchedulerRuns
    /\ WF_now(L!Tick)

-----------------------------------------------------------------------------
(* Properties: those of ThreadScheduler, on the image, and these. *)

\* The linked lists of the code are well formed, and THREADS, which
\* main_done() goes through, has exactly the live threads (ThreadLists).
ListsWellFormed == L!TypeOK /\ L!ListsWellFormed /\ L!ThreadsAreAlive

\* What the lists do is what the documentation says of the scheduler:
\* mlua.thread.c implements ThreadScheduler.
ImplementsScheduler == Init /\ [][Next]_vars

\* docs/mlua.md, mlua.thread: an active thread runs ("round-robin"), a thread
\* that waits for a time that comes is resumed, and the joiner of a thread
\* that has died returns, unless the thread is killed first.  Threads are
\* interchangeable, so that this is checked for one of them.
ThreadsProgress ==
    LET t == CHOOSE u \in Threads : TRUE IN
        /\ L!State(t) = "active" ~> (running = t \/ ~L!Alive(t))
        /\ L!State(t) = "timer" /\ deadline[t] < MaxTime
              ~> ~(L!State(t) = "timer" /\ deadline[t] < MaxTime)
        /\ L!JoinedIsDead(t) ~> ~L!JoinedIsDead(t)
=============================================================================
