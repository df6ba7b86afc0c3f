----------------------------- MODULE DnsLookups ------------------------------
(***************************************************************************)
(* lwip.dns.gethostbyname() (lib/pico/lwip.dns.c): threads take a slot for *)
(* the answer of lwIP, and give it back when they return, time out or are  *)
(* killed.  lwIP cannot be told to forget a request, so a slot whose       *)
(* request has not been answered is abandoned, and the handler frees it.   *)
(***************************************************************************)
EXTENDS Naturals, FiniteSets

CONSTANTS
    Threads,   \* the threads that look up names
    NoThread,
    Requests   \* the size of ghbn_state, MLUA_MAX_DNS_REQUESTS

Slots == 1..Requests

VARIABLES
    slot,      \* slot[s]: state of the event, status, and the name that addr
               \* is the address of
    asked,     \* asked[s]: the name whose address lwIP will store in s, of
               \* which the thread that asked stands for; or NoThread
    looker     \* looker[t]: t's pc, slot, whether its deadline is reached,
               \* and what gethostbyname() is about to return: the thread
               \* whose name the address is of, or another result

vars == <<slot, asked, looker>>

Lua == [pc |-> "lua", slot |-> 0, late |-> FALSE, res |-> "none"]

Init ==
    /\ slot = [s \in Slots |-> [event |-> "disabled", status |-> "NOT_FOUND",
                                addr |-> NoThread]]
    /\ asked = [s \in Slots |-> NoThread]
    /\ looker = [t \in Threads |-> Lua]

\* No thread runs C code that another thread or the scheduler waits for.
Idle == \A t \in Threads : looker[t].pc \in {"lua", "suspended", "ready"}

\* mlua_event_disable_abandoned()
Forgotten(s, found) == slot[s].event = "abandoned"

\* Mutant: the event is not set.
M_Set(e) == e

Set(e) == IF e = "enabled" THEN "pending" ELSE e

\* handle_dns_found(), under the lwIP lock.
handle_dns_found(s, found) ==
    /\ asked[s] # NoThread
    /\ asked' = [asked EXCEPT ![s] = NoThread]
    /\ slot' = [slot EXCEPT ![s] =
                  IF Forgotten(s, found) THEN [@ EXCEPT !.event = "disabled"]
                  ELSE [event |-> Set(@.event),
                        status |-> IF found THEN "FOUND" ELSE "NOT_FOUND",
                        addr |-> IF found THEN asked[s] ELSE @.addr]]
    /\ UNCHANGED looker

\* gethostbyname() takes the first slot that is free, and asks lwIP, which
\* knows the address, will find out, or refuses.
mod_gethostbyname(t) ==
    /\ Idle /\ looker[t].pc = "lua"
    /\ LET free == {s \in Slots : slot[s].event = "disabled"}
       IN IF free = {}
          THEN UNCHANGED vars     \* it returns ERR_MEM
          ELSE LET s == CHOOSE s \in free : \A r \in free : s <= r
                   Enabled(status, addr) ==
                     slot' = [slot EXCEPT ![s] = [event |-> "enabled",
                                status |-> status, addr |-> addr]]
                   At(pc, res) ==
                     looker' = [looker EXCEPT ![t] = [pc |-> pc, slot |-> s,
                                                      late |-> FALSE, res |-> res]]
               IN \/ Enabled("FOUND", t) /\ At("done", t) /\ UNCHANGED asked
                  \/ Enabled("NOT_FOUND", slot[s].addr) /\ At("done", "error")
                     /\ UNCHANGED asked
                  \/ Enabled("WAITING", slot[s].addr) /\ At("loop", "none")
                     /\ asked' = [asked EXCEPT ![s] = t]

\* gethostbyname_loop() reads status under the lock.
gethostbyname_loop(t) ==
    /\ looker[t].pc = "loop"
    /\ LET s == slot[looker[t].slot]
           To(pc, res) == [looker EXCEPT ![t].pc = pc, ![t].res = res]
       IN looker' = IF s.status = "FOUND" THEN To("done", s.addr)
                    ELSE IF s.status = "NOT_FOUND" THEN To("done", "false")
                    ELSE IF looker[t].late THEN To("done", "timeout")
                    ELSE To("suspended", "none")
    /\ UNCHANGED <<slot, asked>>

\* Mutants: the slot is always freed; or never, once it is answered.
M_GiveBack(s) == "disabled"

GiveBack(s) == IF s.status = "WAITING" THEN "abandoned" ELSE "disabled"

\* gethostbyname_done(), under the lwIP lock, when the call ends.
gethostbyname_done(t) ==
    /\ looker[t].pc = "done"
    /\ slot' = [slot EXCEPT ![looker[t].slot].event =
                                GiveBack(slot[looker[t].slot])]
    /\ looker' = [looker EXCEPT ![t] = Lua]
    /\ UNCHANGED asked

\* Another thread kills t, which closes its to-be-closed variable.
Kill(t) ==
    /\ Idle /\ looker[t].pc \in {"suspended", "ready"}
    /\ looker' = [looker EXCEPT ![t].pc = "done", ![t].res = "killed"]
    /\ UNCHANGED <<slot, asked>>

Dispatch(t) ==
    /\ Idle /\ looker[t].pc \in {"suspended", "ready"}
    /\ slot[looker[t].slot].event = "pending"
    /\ slot' = [slot EXCEPT ![looker[t].slot].event = "enabled"]
    /\ looker' = [looker EXCEPT ![t].pc = "ready"]
    /\ UNCHANGED asked

\* The deadline is reached.
Timer(t) ==
    /\ Idle /\ looker[t].pc \in {"suspended", "ready"} /\ ~looker[t].late
    /\ looker' = [looker EXCEPT ![t].pc = "ready", ![t].late = TRUE]
    /\ UNCHANGED <<slot, asked>>

Resumed(t) ==
    /\ Idle /\ looker[t].pc = "ready"
    /\ looker' = [looker EXCEPT ![t].pc = "loop"]
    /\ UNCHANGED <<slot, asked>>

Next ==
    \/ \E s \in Slots, found \in BOOLEAN : handle_dns_found(s, found)
    \/ \E t \in Threads :
          \/ mod_gethostbyname(t)
          \/ gethostbyname_loop(t)
          \/ gethostbyname_done(t)
          \/ Kill(t)
          \/ Dispatch(t)
          \/ Timer(t)
          \/ Resumed(t)

Spec == Init /\ [][Next]_vars

\* lwIP answers every request, with a failure after its own timeouts; events
\* are dispatched and threads run.
Fairness ==
    /\ \A s \in Slots : WF_vars(\E found \in BOOLEAN : handle_dns_found(s, found))
    /\ \A t \in Threads :
          /\ WF_vars(gethostbyname_loop(t)) /\ WF_vars(gethostbyname_done(t))
          /\ SF_vars(Dispatch(t)) /\ SF_vars(Resumed(t))

-----------------------------------------------------------------------------
(* Properties. *)

\* A slot that lwIP will write to is not free: nobody else can take it.
AskedSlotIsTaken ==
    \A s \in Slots : asked[s] # NoThread =>
        /\ slot[s].event # "disabled"
        /\ slot[s].event # "abandoned" => slot[s].status = "WAITING"
        /\ \A t \in Threads : looker[t].slot = s => asked[s] = t

\* gethostbyname() returns the address of the name it was asked for, not one
\* that an earlier user of the slot has asked for and not waited for.
AnswerIsMine ==
    \A t \in Threads : looker[t].res \in Threads => looker[t].res = t

\* No slot is lost: one that no thread uses is free, or abandoned until the
\* answer arrives.
SlotsAreReturned ==
    \A s \in Slots : (slot[s].event = "abandoned") ~> (slot[s].event # "abandoned")

SlotsAreUsed ==
    \A s \in Slots :
        slot[s].event \in {"disabled", "abandoned"}
            <=> \A t \in Threads : looker[t].slot # s
=============================================================================
