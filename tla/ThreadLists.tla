---------------------------- MODULE ThreadLists -----------------------------
(***************************************************************************)
(* The thread scheduler of lib/common/mlua.thread.c as it is coded: the    *)
(* active queue and the timer list are singly-linked lists threaded        *)
(* through the NEXT slot at the top of each waiting coroutine's stack,     *)
(* with HEAD, TAIL and TIMERS in upvalues of main().  Dead threads stay in *)
(* the active queue until the scheduler meets them.                        *)
(*                                                                         *)
(* Close handlers (__close) that run while a thread is killed do not call  *)
(* the scheduler here.  The "blocking" flag, names and statistics are left *)
(* out: they do not affect the lists.                                      *)
(***************************************************************************)
EXTENDS Integers, FiniteSets, Sequences, SequencesExt

CONSTANTS
    Threads,     \* the coroutine objects
    NULL,        \* nil
    MaxTime,     \* bound on deadlines; it stands for times that never come
    MaxJoiners   \* how many threads may join the same thread

VARIABLES
    lists,       \* HEAD, TAIL, TIMERS, and per thread NEXT and ThreadExtra.state
    deadline,    \* ThreadExtra.deadline
    threads,     \* THREADS
    joiners,     \* JOINERS[t]: nil is {}, one thread t is {t}, a table its keys
    target,      \* target[t]: the thread that t is in a join() of, or NULL
    running,     \* the local variable of mod_main()
    pc,          \* "boot", before main(); "dispatch"; "run"
    now          \* mlua_ticks64()

vars == <<lists, deadline, threads, joiners, target, running, pc, now>>

State(t) == lists.state[t]
Waiting(t) == State(t) \in {"suspended", "timer"}
Alive(t) == Waiting(t) \/ State(t) = "active"
Time == 0..MaxTime

Init ==
    /\ lists = [head |-> NULL, tail |-> NULL, timers |-> NULL,
                next |-> [t \in Threads |-> NULL],
                state |-> [t \in Threads |-> "free"]]
    /\ deadline = [t \in Threads |-> 0]
    /\ threads = {}
    /\ joiners = [t \in Threads |-> {}]
    /\ target = [t \in Threads |-> NULL]
    /\ running = NULL
    /\ pc = "boot"
    /\ now = 0

-----------------------------------------------------------------------------
(* Operations on the lists q. *)

\* The threads met from first along NEXT; longer than the number of threads
\* if the links make a cycle.
Walk(q, first) ==
    LET N == Cardinality(Threads)
        at[i \in 0..N] == IF i = 0 THEN first
                          ELSE IF at[i - 1] = NULL THEN NULL
                          ELSE q.next[at[i - 1]]
        met == {i \in 0..N : at[i] # NULL}
    IN  [i \in 1..Cardinality(met) |-> at[i - 1]]

ActiveQueue(q) == Walk(q, q.head)
TimerList(q) == Walk(q, q.timers)

\* Mutant: the first timer is not a special case.
M_RemoveTimer(q, t) ==
    LET before == {p \in ToSet(TimerList(q)) : q.next[p] = t}
    IN  [q EXCEPT !.next = [p \in Threads |->
             IF p \in before THEN q.next[t] ELSE IF p = t THEN NULL ELSE @[p]]]

\* remove_timer()
RemoveTimer(q, t) ==
    IF q.timers = t
    THEN [q EXCEPT !.timers = q.next[t], !.next[t] = NULL]
    ELSE LET before == {p \in ToSet(TimerList(q)) : q.next[p] = t}
         IN  IF before = {} THEN q
             ELSE [q EXCEPT !.next = [p \in Threads |->
                        IF p \in before THEN q.next[t]
                        ELSE IF p = t THEN NULL
                        ELSE q.next[p]]]

\* activate()
Activate(q, t) ==
    [q EXCEPT !.head = IF q.tail = NULL THEN t ELSE @,
              !.next = IF q.tail = NULL THEN @ ELSE [@ EXCEPT ![q.tail] = t],
              !.tail = t]

\* resume()
ResumeThread(q, t) ==
    IF q.state[t] \notin {"suspended", "timer"} THEN q
    ELSE LET removed == IF q.state[t] = "timer" THEN RemoveTimer(q, t) ELSE q
         IN  Activate([removed EXCEPT !.state[t] = "active"], t)

\* Mutant: lua_next() is called once.
M_ResumeAll(q, order) ==
    IF order = <<>> THEN q ELSE ResumeThread(q, Head(order))

\* The joiners are resumed in the order of lua_next(), which is arbitrary.
ResumeAll(q, order) ==
    LET resumed[i \in 0..Len(order)] ==
            IF i = 0 THEN q ELSE ResumeThread(resumed[i - 1], order[i])
    IN  resumed[Len(order)]

\* Mutant: a deadline that is just reached has not elapsed.
M_ExpireTimers(q) ==
    LET list == TimerList(q)
        due == {i \in DOMAIN list : \A j \in 1..i : deadline[list[j]] < now}
        expired == SubSeq(list, 1, Cardinality(due))
    IN  IF expired = <<>> THEN q
        ELSE [q EXCEPT
                !.head = IF q.tail = NULL THEN q.timers ELSE @,
                !.tail = Last(expired),
                !.timers = q.next[Last(expired)],
                !.next = [t \in Threads |->
                            IF t = Last(expired) THEN NULL
                            ELSE IF t = q.tail THEN q.timers
                            ELSE q.next[t]],
                !.state = [t \in Threads |->
                            IF t \in ToSet(expired) THEN "active"
                            ELSE q.state[t]]]

\* mod_main(): the threads at the front of the timer list whose deadline has
\* elapsed are spliced to the active queue.
ExpireTimers(q) ==
    LET list == TimerList(q)
        due == {i \in DOMAIN list :
                    \A j \in 1..i : deadline[list[j]] <= now}
        expired == SubSeq(list, 1, Cardinality(due))
    IN  IF expired = <<>> THEN q
        ELSE [q EXCEPT
                !.head = IF q.tail = NULL THEN q.timers ELSE @,
                !.tail = Last(expired),
                !.timers = q.next[Last(expired)],
                !.next = [t \in Threads |->
                            IF t = Last(expired) THEN NULL
                            ELSE IF t = q.tail THEN q.timers
                            ELSE q.next[t]],
                !.state = [t \in Threads |->
                            IF t \in ToSet(expired) THEN "active"
                            ELSE q.state[t]]]

\* Mutant: TAIL stays where it was.
M_PushYielded(q) ==
    IF q.tail = NULL \/ running = NULL THEN q
    ELSE [q EXCEPT !.next[q.tail] = running]

\* mod_main(): the thread that yielded, if any, is pushed to the tail of the
\* active queue.  If the queue is empty it just keeps running.
PushYielded(q) ==
    IF q.tail = NULL \/ running = NULL THEN q
    ELSE [q EXCEPT !.next[q.tail] = running, !.tail = running]

\* mod_main(): the first thread of the active queue that is not dead, or
\* NULL, and the lists with everything up to it taken out.
PopRunnable(q) ==
    LET queue == ActiveQueue(q)
        alive == {i \in DOMAIN queue : q.state[queue[i]] # "dead"}
        count == IF alive = {} THEN Len(queue) ELSE Min(alive)
        popped == {queue[i] : i \in 1..count}
        rest == q.next[queue[count]]
    IN  [thread |-> IF alive = {} THEN NULL ELSE queue[count],
         lists  |-> [q EXCEPT
                       !.head = rest,
                       !.tail = IF rest = NULL THEN NULL ELSE @,
                       !.next = [t \in Threads |->
                                   IF t \in popped THEN NULL ELSE @[t]]]]

\* mod_main(): running goes on the timer list, after the threads that have
\* the same deadline.
InsertTimer(q, t, time) ==
    LET list == TimerList(q)
        later(u) == u = NULL \/ time < deadline[u]
        before == list[Min({i \in DOMAIN list : later(q.next[list[i]])})]
    IN  IF later(q.timers)
        THEN [q EXCEPT !.next[t] = q.timers, !.timers = t]
        ELSE [q EXCEPT !.next = [@ EXCEPT ![t] = q.next[before],
                                          ![before] = t]]

-----------------------------------------------------------------------------
(* Calls by the running thread. *)

Runs(t) == pc = "run" /\ running = t

\* A thread whose join() is not over only looks again, see JoinAgain.
Calls(t) == Runs(t) /\ target[t] = NULL

\* Mutant: ThreadExtra.state is left uninitialized.
M_Start(t) ==
    /\ pc = "boot" \/ \E r \in Threads : Calls(r)
    /\ State(t) = "free"
    /\ threads' = threads \cup {t}
    /\ lists' = Activate([lists EXCEPT !.state[t] = NULL], t)
    /\ UNCHANGED <<deadline, joiners, target, running, pc, now>>

\* mod_start(), also before main().
Start(t) ==
    /\ pc = "boot" \/ \E r \in Threads : Calls(r)
    /\ State(t) = "free"
    /\ threads' = threads \cup {t}
    /\ lists' = Activate([lists EXCEPT !.state[t] = "active"], t)
    /\ UNCHANGED <<deadline, joiners, target, running, pc, now>>

\* Thread_resume(), when it returns true.
Resume(t) ==
    /\ \E r \in Threads : Calls(r)
    /\ Waiting(t)
    /\ lists' = ResumeThread(lists, t)
    /\ UNCHANGED <<deadline, threads, joiners, target, running, pc, now>>

\* What happens to a thread that died, whose state is set in q.
Bury(q, t) ==
    /\ \E order \in SetToSeqs(joiners[t]) : lists' = ResumeAll(q, order)
    /\ joiners' = [joiners EXCEPT ![t] = {}]
    /\ target' = [target EXCEPT ![t] = NULL]
    /\ threads' = threads \ {t}
    /\ UNCHANGED <<deadline, now>>

\* Thread_kill(): a thread of the active queue keeps its place and its NEXT.
Kill(r, t) ==
    /\ Calls(r)
    /\ t # r
    /\ Alive(t)
    /\ LET removed == IF State(t) = "timer" THEN RemoveTimer(lists, t)
                                            ELSE lists
       IN  Bury([removed EXCEPT !.state[t] = "dead"], t)
    /\ UNCHANGED <<running, pc>>

\* lua_resume() returned something else than LUA_YIELD to mod_main().
Terminate(r) ==
    /\ Calls(r)
    /\ Bury([lists EXCEPT !.state[r] = "dead", !.next[r] = NULL], r)
    /\ running' = NULL
    /\ pc' = "dispatch"

\* mod_yield()
Yield(r) ==
    /\ Calls(r)
    /\ lists' = [lists EXCEPT !.next[r] = NULL]
    /\ pc' = "dispatch"
    /\ UNCHANGED <<deadline, threads, joiners, target, running, now>>

\* mod_main() gets nil from a thread that yields.
SuspendRunning(r) ==
    /\ lists' = [lists EXCEPT !.state[r] = "suspended", !.next[r] = NULL]
    /\ running' = NULL
    /\ pc' = "dispatch"
    /\ UNCHANGED <<deadline, threads, now>>

\* mod_suspend() without an argument
Suspend(r) ==
    /\ Calls(r)
    /\ SuspendRunning(r)
    /\ UNCHANGED <<joiners, target>>

\* mod_suspend() with a time
SuspendUntil(r, time) ==
    /\ Calls(r)
    /\ deadline' = [deadline EXCEPT ![r] = time]
    /\ lists' = InsertTimer([lists EXCEPT !.state[r] = "timer"], r, time)
    /\ running' = NULL
    /\ pc' = "dispatch"
    /\ UNCHANGED <<threads, joiners, target, now>>

\* Mutant: a joiner replaces the one before it.
M_Join(r, t) ==
    /\ Calls(r)
    /\ Alive(t)
    /\ Cardinality({u \in Threads : target[u] = t}) < MaxJoiners
    /\ joiners' = [joiners EXCEPT ![t] = {r}]
    /\ target' = [target EXCEPT ![r] = t]
    /\ SuspendRunning(r)

\* Thread_join() of a thread that is not dead.  From the third joiner on,
\* the code adds the joined thread itself to the table instead of running.
Join(r, t) ==
    /\ Calls(r)
    /\ Alive(t)
    /\ Cardinality({u \in Threads : target[u] = t}) < MaxJoiners
    /\ Cardinality(joiners[t]) < MaxJoiners
    /\ joiners' = [joiners EXCEPT
                     ![t] = @ \cup {IF Cardinality(@) < 2 THEN r ELSE t}]
    /\ target' = [target EXCEPT ![r] = t]
    /\ SuspendRunning(r)

\* Thread_join_1()
JoinAgain(r) ==
    /\ Runs(r)
    /\ target[r] # NULL
    /\ IF State(target[r]) = "dead"
       THEN /\ target' = [target EXCEPT ![r] = NULL]
            /\ UNCHANGED <<lists, deadline, threads, running, pc, now>>
       ELSE /\ SuspendRunning(r)
            /\ UNCHANGED target
    /\ UNCHANGED joiners

\* mod_shutdown(), then main_done()
Shutdown(r) ==
    /\ Calls(r)
    /\ lists' = [head |-> NULL, tail |-> NULL, timers |-> NULL,
                 next |-> [t \in Threads |-> NULL],
                 state |-> [t \in Threads |->
                              IF t \in threads THEN "dead" ELSE State(t)]]
    /\ threads' = {}
    /\ joiners' = [t \in Threads |-> {}]
    /\ target' = [t \in Threads |-> NULL]
    /\ running' = NULL
    /\ pc' = "boot"
    /\ UNCHANGED <<deadline, now>>

-----------------------------------------------------------------------------
(* The scheduler and its environment. *)

CallMain ==
    /\ pc = "boot"
    /\ lists.tail # NULL
    /\ pc' = "dispatch"
    /\ UNCHANGED <<lists, deadline, threads, joiners, target, running, now>>

\* mlua_event_resume_watcher() during mlua_event_dispatch().  Any thread can
\* be the watcher, also one that waits for something else by now.
WatcherResumed(t) ==
    /\ pc = "dispatch"
    /\ Waiting(t)
    /\ lists' = ResumeThread(lists, t)
    /\ UNCHANGED <<deadline, threads, joiners, target, running, pc, now>>

\* mlua_event_dispatch() polls when a thread can run, and otherwise returns
\* when the first timer elapses or a watcher was resumed.
DispatchReturns ==
    \/ running # NULL
    \/ lists.tail # NULL
    \/ lists.timers # NULL /\ deadline[lists.timers] <= now

\* mod_main(), from the return of mlua_event_dispatch() to lua_resume() or
\* back to it.
Schedule ==
    /\ pc = "dispatch"
    /\ DispatchReturns
    /\ LET queued == PushYielded(ExpireTimers(lists))
       IN  IF queued.tail = NULL
           THEN /\ lists' = queued
                /\ UNCHANGED running
           ELSE /\ lists' = PopRunnable(queued).lists
                /\ running' = PopRunnable(queued).thread
    /\ pc' = IF running' = NULL THEN "dispatch" ELSE "run"
    /\ UNCHANGED <<deadline, threads, joiners, target, now>>

Tick ==
    /\ now + 1 < MaxTime
    /\ now' = now + 1
    /\ UNCHANGED <<lists, deadline, threads, joiners, target, running, pc>>

\* Garbage collection of a dead thread that nothing refers to; it stands for
\* the creation of a thread under the same name later.
Collect(t) ==
    /\ State(t) = "dead"
    /\ t \notin ToSet(ActiveQueue(lists))
    /\ \A u \in Threads : target[u] # t /\ t \notin joiners[u]
    /\ lists' = [lists EXCEPT !.state[t] = "free"]
    /\ UNCHANGED <<deadline, threads, joiners, target, running, pc, now>>

Next ==
    \/ \E t \in Threads :
          \/ Start(t)
          \/ Resume(t)
          \/ Terminate(t)
          \/ Yield(t)
          \/ Suspend(t)
          \/ \E time \in Time : SuspendUntil(t, time)
          \/ \E u \in Threads : Kill(t, u) \/ Join(t, u)
          \/ JoinAgain(t)
          \/ Shutdown(t)
          \/ WatcherResumed(t)
          \/ Collect(t)
    \/ CallMain
    \/ Schedule
    \/ Tick

Spec == Init /\ [][Next]_vars

\* Threads are cooperative: the running thread eventually yields, waits or
\* ends, main() is called, and the scheduler loop and the clock go on.
\* Nothing makes a thread resume or kill another one, and no event has to
\* come.  (In each case some step is enabled that makes the state formula
\* true, until one is taken: this is weak fairness, in a form that TLC
\* evaluates faster than ENABLED of steps on lists.)
Cooperative == []<>(pc # "run")
MainCalled == []<>~(pc = "boot" /\ lists.tail # NULL)
SchedulerRuns == []<>~(pc = "dispatch" /\ DispatchReturns)

-----------------------------------------------------------------------------
(* Properties. *)

\* Every variable has its type.
TypeOK ==
    /\ lists \in [head : Threads \cup {NULL}, tail : Threads \cup {NULL},
                  timers : Threads \cup {NULL},
                  next : [Threads -> Threads \cup {NULL}],
                  state : [Threads -> {"free", "active", "suspended",
                                       "timer", "dead"}]]
    /\ deadline \in [Threads -> Time]
    /\ threads \subseteq Threads
    /\ joiners \in [Threads -> SUBSET Threads]
    /\ target \in [Threads -> Threads \cup {NULL}]
    /\ running \in Threads \cup {NULL}
    /\ pc \in {"boot", "dispatch", "run"}
    /\ now \in Time

\* Both lists are well formed: no thread is twice in one, or in both; TAIL
\* is the end of the active queue; the timer list holds the threads that
\* wait for a deadline, sorted; every other NEXT is nil.
ListsWellFormed ==
    LET queue == ActiveQueue(lists)
        timers == TimerList(lists)
    IN  /\ IsInjective(queue \o timers)
        /\ lists.tail = IF queue = <<>> THEN NULL ELSE Last(queue)
        /\ ToSet(timers) = {t \in Threads : State(t) = "timer"}
        /\ \A i, j \in DOMAIN timers :
              i < j => deadline[timers[i]] <= deadline[timers[j]]
        /\ \A t \in Threads \ ToSet(queue \o timers) : lists.next[t] = NULL

\* THREADS, which main_done() goes through, has exactly the live threads.
ThreadsAreAlive == threads = {t \in Threads : Alive(t)}

\* A thread that waits in join() is registered with a thread that can still
\* die, whatever resumed or killed the threads in between: its wait can end.
JoinersRegistered ==
    \A t \in Threads :
        target[t] # NULL /\ Waiting(t)
            => Alive(target[t]) /\ t \in joiners[target[t]]

\* The thread that t waits to join has died.
JoinedIsDead(t) == target[t] # NULL /\ State(target[t]) = "dead"

=============================================================================
