-------------------------- MODULE EventQueueProofs --------------------------
(* Proofs of invariants of EventQueue, for any number of events and cores. *)
EXTENDS EventQueue, QueueOpsProofs

\* NoLostWakeup speaks of a core at WFE.  Already when the core has released
\* the lock, before it has looked at wake and at the deadline, a pending event
\* must have set its event register.
WakeInv ==
    \A c \in Cores : pc[c] \in {"check", "wfe"} /\ head[c] # NULL => evreg[c]

\* RemovePending keeps the types.
LEMMA RemovePendingType ==
  ASSUME TypeOK, NEW c \in Cores, NEW e \in Events, RemovePending(c, e)
  PROVE  /\ head' \in [Cores -> Events \cup {NULL}]
         /\ link' \in [Events -> Events \cup {NULL}]
         /\ \A d \in Cores : d # c => head'[d] = head[d]
<1>1. link[e] \in Events \cup {NULL}
  BY DEF TypeOK
<1>2. head' \in [Cores -> Events \cup {NULL}]
      /\ \A d \in Cores : d # c => head'[d] = head[d]
  BY <1>1 DEF RemovePending, TypeOK
<1>3. link' = [p \in Events |->
                  IF p = e THEN NULL
                  ELSE IF head[c] # e /\ link[p] = e /\ OnChain(c, p)
                       THEN link[e]
                       ELSE link[p]]
  BY DEF RemovePending
<1>4. link' \in [Events -> Events \cup {NULL}]
  BY <1>1, <1>3 DEF TypeOK
<1> QED BY <1>2, <1>4

\* What disabling or abandoning an event changes.
LEMMA DisableFacts ==
  ASSUME TypeOK, NEW c \in Cores, NEW e \in Events, NEW newTag \in Tags,
         DisableTo(c, e, newTag)
  PROVE  /\ TypeOK'
         /\ pc[c] = "run"
         /\ \A d \in Cores : d # c => head'[d] = head[d]
         /\ UNCHANGED loopVars
<1>1. /\ pc[c] = "run"
      /\ tag' = [tag EXCEPT ![e] = newTag]
      /\ UNCHANGED <<owner, tail, loopVars>>
      /\ RemovePending(c, e) \/ UNCHANGED <<head, link>>
  BY DEF DisableTo, MayDisable
<1>2. /\ head' \in [Cores -> Events \cup {NULL}]
      /\ link' \in [Events -> Events \cup {NULL}]
      /\ \A d \in Cores : d # c => head'[d] = head[d]
  BY <1>1, RemovePendingType DEF TypeOK
<1>3. TypeOK'
  BY <1>1, <1>2 DEF TypeOK, loopVars
<1> QED BY <1>1, <1>2, <1>3

\* Every step keeps the types and the wake-up invariant.
LEMMA StepPreserves ==
  ASSUME TypeOK, WakeInv, [Next]_vars
  PROVE  TypeOK' /\ WakeInv'
<1>1. ASSUME NEW c \in Cores, NEW e \in Events, Enable(c, e)
      PROVE  TypeOK' /\ WakeInv'
  BY <1>1 DEF Enable, TypeOK, WakeInv, Tags, loopVars
<1>2. ASSUME NEW c \in Cores, NEW e \in Events, Disable(c, e) \/ Abandon(c, e)
      PROVE  TypeOK' /\ WakeInv'
  <2>1. /\ TypeOK'
        /\ pc[c] = "run"
        /\ \A d \in Cores : d # c => head'[d] = head[d]
        /\ UNCHANGED loopVars
    <3>1. "disabled" \in Tags /\ "abandoned" \in Tags
      BY DEF Tags
    <3> QED BY <1>2, <3>1, DisableFacts DEF Disable, Abandon
  <2>2. WakeInv'
    BY <2>1 DEF WakeInv, loopVars
  <2> QED BY <2>1, <2>2
<1>3. ASSUME NEW e \in Events, Set(e)
      PROVE  TypeOK' /\ WakeInv'
  <2>1. owner[e] \in Cores /\ tail[owner[e]] \in Events \cup {NULL}
    BY DEF TypeOK
  <2>2. /\ evreg' = [c \in Cores |-> TRUE]
        /\ UNCHANGED <<pc, wake, owner>>
        /\ tail' = [tail EXCEPT ![owner[e]] = e]
    BY <1>3 DEF Set, SendEvent, Enqueue
  <2>3. /\ tag' \in [Events -> Tags]
        /\ link' \in [Events -> Events \cup {NULL}]
        /\ head' \in [Cores -> Events \cup {NULL}]
    BY <1>3, <2>1 DEF Set, Enqueue, TypeOK, Tags
  <2>4. TypeOK'
    BY <2>1, <2>2, <2>3 DEF TypeOK
  <2> QED BY <2>2, <2>4 DEF WakeInv
<1>4. ASSUME NEW e \in Events, DisableAbandoned(e)
      PROVE  TypeOK' /\ WakeInv'
  BY <1>4 DEF DisableAbandoned, TypeOK, WakeInv, Tags, loopVars
<1>5. ASSUME NEW c \in Cores, DispatchEnter(c)
      PROVE  TypeOK' /\ WakeInv'
  BY <1>5 DEF DispatchEnter, TypeOK, WakeInv, Locations, queueVars
<1>6. ASSUME NEW c \in Cores, Pop(c)
      PROVE  TypeOK' /\ WakeInv'
  <2>1. head[c] \in Events /\ link[head[c]] \in Events \cup {NULL}
    BY <1>6 DEF Pop, TypeOK
  <2>2. PICK resumed \in BOOLEAN :
          wake' = [wake EXCEPT ![c] = wake[c] \/ resumed]
    BY <1>6 DEF Pop
  <2>3. wake' \in [Cores -> BOOLEAN]
    BY <2>2 DEF TypeOK
  <2>4. /\ head' = [head EXCEPT ![c] = link[head[c]]]
        /\ tag' = [tag EXCEPT ![head[c]] = "idle"]
        /\ link' = [link EXCEPT ![head[c]] = NULL]
        /\ owner' = [owner EXCEPT ![head[c]] = c]
        /\ pc[c] = "pop" /\ UNCHANGED <<tail, pc, evreg>>
    BY <1>6 DEF Pop
  <2>5. TypeOK'
    BY <2>1, <2>3, <2>4 DEF TypeOK, Tags
  <2> QED BY <2>4, <2>5 DEF WakeInv, TypeOK
<1>7. ASSUME NEW c \in Cores, PopEmpty(c)
      PROVE  TypeOK' /\ WakeInv'
  BY <1>7 DEF PopEmpty, TypeOK, WakeInv, Locations, queueVars
<1>8. ASSUME NEW c \in Cores, DispatchReturn(c)
      PROVE  TypeOK' /\ WakeInv'
  BY <1>8 DEF DispatchReturn, TypeOK, WakeInv, Locations, queueVars
<1>9. ASSUME NEW c \in Cores, EnterWait(c)
      PROVE  TypeOK' /\ WakeInv'
  BY <1>9 DEF EnterWait, TypeOK, WakeInv, Locations, queueVars
<1>10. ASSUME NEW c \in Cores, WaitEvent(c)
       PROVE  TypeOK' /\ WakeInv'
  BY <1>10 DEF WaitEvent, TypeOK, WakeInv, Locations, queueVars
<1>11. ASSUME NEW c \in Cores, WaitTimeout(c)
       PROVE  TypeOK' /\ WakeInv'
  BY <1>11 DEF WaitTimeout, TypeOK, WakeInv, Locations, queueVars
<1>12. CASE UNCHANGED vars
  BY <1>12 DEF vars, TypeOK, WakeInv
<1> QED
  BY <1>1, <1>2, <1>3, <1>4, <1>5, <1>6, <1>7, <1>8, <1>9, <1>10, <1>11, <1>12
     DEF Next

\* TypeOK and WakeInv hold of every behaviour.
THEOREM Invariance == Spec => [](TypeOK /\ WakeInv)
<1>1. Init => TypeOK /\ WakeInv
  BY DEF Init, TypeOK, WakeInv, Tags, Locations
<1>2. TypeOK /\ WakeInv /\ [Next]_vars => (TypeOK /\ WakeInv)'
  BY StepPreserves
<1> QED BY <1>1, <1>2, PTL DEF Spec

\* Type correctness, whatever is set, disabled and dispatched where.
THEOREM TypeCorrect == Spec => []TypeOK
BY Invariance, PTL

\* No core sleeps while an event is pending in its queue, whenever the event
\* was set between the last look at the queue and WFE, and on whichever core.
THEOREM WakeupCorrect == Spec => []NoLostWakeup
<1>1. WakeInv => NoLostWakeup
  BY DEF WakeInv, NoLostWakeup
<1> QED BY <1>1, Invariance, PTL
-----------------------------------------------------------------------------
(* The linked lists.  From here on no event is disabled while it is pending *)
(* and last in its queue behind others: TailRemoval is FALSE.               *)

\* The queue of core c is the sequence s.
Is(c, s) == Distinct(s) /\ Represents(c, s)

\* QueueWellFormed says which sequence it is, in terms of the walk along the
\* links.  That there is one is all that a step needs.
ListInv == \A c \in Cores : \E s \in Seq(Events) : Is(c, s)

\* A queue is as long as there are pending events.
LEMMA QueueLength ==
  ASSUME NEW c \in Cores, NEW s \in Seq(Events), Is(c, s)
  PROVE  /\ Cardinality(PendingOf(c)) = Len(s)
         /\ Cardinality(Events) \in Nat
         /\ Len(s) <= Cardinality(Events)
<1>1. s \in Bijection(1..Len(s), Elements(s))
  BY DEF Is, Distinct, Elements, Bijection, Injection, Surjection, IsInjective
<1>2. ExistsBijection(1..Len(s), Elements(s))
  BY <1>1 DEF ExistsBijection
<1>3. Len(s) \in Nat
  OBVIOUS
<1>4. Cardinality(Elements(s)) = Len(s)
  BY <1>2, <1>3, FS_CountingElements
<1>5. Elements(s) = PendingOf(c) /\ PendingOf(c) \in SUBSET Events
  BY DEF Is, Represents, PendingOf
<1>6. /\ Cardinality(PendingOf(c)) <= Cardinality(Events)
      /\ Cardinality(Events) \in Nat
  BY <1>5, EventsAssumption, FS_Subset, FS_CardinalityType
<1> QED BY <1>4, <1>5, <1>6

\* The walk from the head passes the events of the queue, and then stays at
\* the null pointer.  The equation that defines it has a solution, the queue
\* itself, and only one: two solutions would differ first at some step.
LEMMA WalkPassesQueue ==
  ASSUME TypeOK, NEW c \in Cores, NEW s \in Seq(Events), Is(c, s)
  PROVE  \A n \in 0..Cardinality(Events) :
            Walk(c)[n] = IF n < Len(s) THEN s[n + 1] ELSE NULL
<1> DEFINE N == Cardinality(Events)
           Body(f) == [n \in 0..N |-> IF n = 0 THEN head[c]
                                      ELSE IF f[n - 1] = NULL THEN NULL
                                      ELSE link[f[n - 1]]]
           W == [n \in 0..N |-> IF n < Len(s) THEN s[n + 1] ELSE NULL]
           w == CHOOSE f : f = Body(f)
<1>1. N \in Nat /\ Len(s) \in Nat
  BY QueueLength
<1>2. /\ head[c] = IF s = <<>> THEN NULL ELSE s[1]
      /\ \A i \in 1..Len(s) : /\ s[i] \in Events /\ s[i] # NULL
                              /\ link[s[i]] = IF i = Len(s) THEN NULL ELSE s[i + 1]
  BY EventsAssumption DEF Is, Represents
<1> HIDE DEF N
<1>3. W = Body(W)
  <2>1. ASSUME NEW n \in 0..N PROVE W[n] = Body(W)[n]
    <3>1. CASE n = 0
      BY <1>1, <1>2, <3>1
    <3>2. CASE n # 0
      <4>1. n - 1 \in 0..N /\ W[n - 1] = IF n - 1 < Len(s) THEN s[n] ELSE NULL
        BY <1>1, <3>2
      <4>2. CASE n - 1 < Len(s)
        BY <1>1, <1>2, <3>2, <4>1, <4>2
      <4>3. CASE ~ (n - 1 < Len(s))
        BY <1>1, <3>2, <4>1, <4>3
      <4> QED BY <4>2, <4>3
    <3> QED BY <3>1, <3>2
  <2> QED BY <2>1
<1>4. w = Body(w)
  BY <1>3
<1>5. Walk(c) = w
  BY DEF Walk, N
<1> HIDE DEF w, W
<1>6. ASSUME NEW m \in 0..N, w[m] # W[m] PROVE FALSE
  <2> DEFINE T == {n \in 0..N : w[n] # W[n]}
  <2>1. T \in SUBSET Nat /\ T # {}
    BY <1>1, <1>6
  <2>2. PICK x \in T : \A y \in T : x <= y
    BY <2>1, LeastNumber
  <2>3. x \in 0..N /\ w[x] = Body(w)[x] /\ W[x] = Body(W)[x]
    BY <1>3, <1>4, <2>2
  <2>4. CASE x = 0
    BY <2>2, <2>3, <2>4
  <2>5. CASE x # 0
    <3>1. x - 1 \in 0..N /\ x - 1 \notin T
      BY <1>1, <2>2, <2>3, <2>5
    <3>2. w[x - 1] = W[x - 1]
      BY <3>1
    <3> QED BY <2>2, <2>3, <2>5, <3>2
  <2> QED BY <2>4, <2>5
<1> QED BY <1>5, <1>6 DEF W, N

\* So the sequence is QueueOf, and what is on the chain is in it.
LEMMA QueueIs ==
  TypeOK => \A c \in Cores, s \in Seq(Events) : Is(c, s) =>
              /\ QueueOf(c) = s
              /\ \A p \in Events : OnChain(c, p) <=> p \in Elements(s)
<1> SUFFICES ASSUME TypeOK, NEW c \in Cores, NEW s \in Seq(Events), Is(c, s)
             PROVE  /\ QueueOf(c) = s
                    /\ \A p \in Events : OnChain(c, p) <=> p \in Elements(s)
  OBVIOUS
<1> DEFINE N == Cardinality(Events)
<1>1. /\ Cardinality(PendingOf(c)) = Len(s) /\ N \in Nat /\ Len(s) <= N
      /\ Len(s) \in Nat
  BY QueueLength
<1>2. \A n \in 0..N : Walk(c)[n] = IF n < Len(s) THEN s[n + 1] ELSE NULL
  BY WalkPassesQueue
<1>3. QueueOf(c) = s
  <2>1. \A i \in 1..Len(s) : Walk(c)[i - 1] = s[i]
    BY <1>1, <1>2
  <2> QED BY <1>1, <2>1 DEF QueueOf
<1>4. ASSUME NEW p \in Events PROVE OnChain(c, p) <=> p \in Elements(s)
  <2>1. ASSUME NEW n \in 0..N, Walk(c)[n] = p PROVE p \in Elements(s)
    <3>1. n < Len(s) /\ s[n + 1] = p
      BY <1>2, <2>1, EventsAssumption
    <3>2. n + 1 \in DOMAIN s
      BY <1>1, <3>1
    <3> QED BY <3>1, <3>2 DEF Elements
  <2>2. ASSUME NEW i \in DOMAIN s, s[i] = p PROVE \E n \in 0..N : Walk(c)[n] = p
    <3>1. i - 1 \in 0..N /\ i - 1 < Len(s)
      BY <1>1
    <3> QED BY <1>2, <2>2, <3>1
  <2> QED BY <2>1, <2>2 DEF OnChain, Elements
<1> QED BY <1>3, <1>4

\* A step that leaves a queue alone.
LEMMA QueueKept ==
  ASSUME NEW c \in Cores, NEW s \in Seq(Events), Is(c, s),
         head'[c] = head[c], tail'[c] = tail[c], PendingOf(c)' = PendingOf(c),
         \A p \in Elements(s) : link'[p] = link[p]
  PROVE  Is(c, s)'
<1>1. \A i \in DOMAIN s : link'[s[i]] = link[s[i]]
  BY DEF Elements
<1> QED BY <1>1 DEF Is, Represents

\* The head of a queue is null when the queue is empty, and else its first.
LEMMA HeadIs ==
  ASSUME NEW c \in Cores, NEW s \in Seq(Events), Is(c, s)
  PROVE  /\ head[c] = NULL <=> s = <<>>
         /\ s # <<>> => /\ head[c] = s[1] /\ tail[c] = s[Len(s)]
                        /\ s[1] \in Elements(s) /\ s[Len(s)] \in Elements(s)
         /\ \A e \in Events : e \in Elements(s) <=> tag[e] = "pending" /\ owner[e] = c
<1>1. s # <<>> => 1 \in DOMAIN s /\ Len(s) \in DOMAIN s /\ s[1] \in Events
  OBVIOUS
<1>2. s # <<>> => s[1] \in Elements(s) /\ s[Len(s)] \in Elements(s)
  BY <1>1 DEF Elements
<1> QED BY <1>1, <1>2, EventsAssumption DEF Is, Represents, PendingOf

\* Dispatching takes the first event off.
LEMMA PopQueue ==
  ASSUME TypeOK, NEW c \in Cores, NEW s \in Seq(Events), Is(c, s), Pop(c)
  PROVE  /\ s # <<>> /\ Is(c, Tail(s))'
         /\ head[c] = s[1]
         /\ \A d \in Cores \ {c} : \A t \in Seq(Events) : Is(d, t) => Is(d, t)'
<1> DEFINE e == head[c]
<1>1. /\ e # NULL
      /\ head' = [head EXCEPT ![c] = link[e]] /\ tag' = [tag EXCEPT ![e] = "idle"]
      /\ link' = [link EXCEPT ![e] = NULL] /\ owner' = [owner EXCEPT ![e] = c]
      /\ UNCHANGED tail
  BY DEF Pop
<1>2. s # <<>> /\ e = s[1] /\ e \in Events /\ tag[e] = "pending" /\ owner[e] = c
  BY <1>1, HeadIs DEF TypeOK
<1> HIDE DEF e
<1>3. owner' = owner
  BY <1>1, <1>2 DEF TypeOK
<1>4. \A d \in Cores : PendingOf(d)' = PendingOf(d) \ {e}
  BY <1>1, <1>2, <1>3 DEF PendingOf, TypeOK
<1>5. Is(c, Tail(s))'
  <2> DEFINE t == Tail(s)
  <2>1. /\ t \in Seq(Events) /\ Distinct(t) /\ e \notin Elements(t)
        /\ Elements(s) = Elements(t) \cup {e}
    BY <1>2, HeadAndTail DEF Is
  <2>3. Len(t) = Len(s) - 1 /\ \A i \in 1..Len(t) : t[i] = s[i + 1]
    BY <1>2, HeadTailProperties
  <2>4. /\ \A i \in DOMAIN s : link[s[i]] = IF i = Len(s) THEN NULL ELSE s[i + 1]
        /\ tail[c] = s[Len(s)]
    BY <1>2 DEF Is, Represents
  <2> HIDE DEF t
  <2>2. Elements(t) = PendingOf(c)'
    <3>1. Elements(s) = PendingOf(c)
      BY DEF Is, Represents
    <3>2. PendingOf(c)' = PendingOf(c) \ {e}
      BY <1>4
    <3>3. Elements(t) = Elements(s) \ {e}
      BY <2>1
    <3> QED BY <3>1, <3>2, <3>3
  <2>5. head'[c] = IF t = <<>> THEN NULL ELSE t[1]
    <3>1. head'[c] = link[s[1]]
      BY <1>1, <1>2 DEF TypeOK
    <3> QED BY <1>2, <2>1, <2>3, <2>4, <3>1
  <2>6. t # <<>> => tail'[c] = t[Len(t)]
    BY <1>1, <1>2, <2>1, <2>3, <2>4
  <2>7. ASSUME NEW i \in DOMAIN t
        PROVE  link'[t[i]] = IF i = Len(t) THEN NULL ELSE t[i + 1]
    <3>1. t[i] # e /\ t[i] \in Events
      BY <2>1 DEF Elements
    <3>2. /\ i \in 1..Len(t) /\ Len(t) \in Nat
          /\ i + 1 \in 1..Len(s) /\ Len(s) = Len(t) + 1
          /\ t[i] = s[i + 1]
      BY <2>1, <2>3
    <3>3. link'[t[i]] = link[s[i + 1]]
      BY <1>1, <3>1, <3>2 DEF TypeOK
    <3>4. link[s[i + 1]] = IF i + 1 = Len(s) THEN NULL ELSE s[i + 1 + 1]
      BY <2>4, <3>2
    <3>5. CASE i = Len(t)
      BY <3>2, <3>3, <3>4, <3>5
    <3>6. CASE i # Len(t)
      <4>1. t[i + 1] = s[i + 1 + 1] /\ i + 1 # Len(s)
        BY <2>3, <3>2, <3>6
      <4> QED BY <3>3, <3>4, <3>6, <4>1
    <3> QED BY <3>5, <3>6
  <2>8. Represents(c, t)'
    BY <2>2, <2>5, <2>6, <2>7 DEF Represents
  <2> QED BY <2>1, <2>8 DEF Is, t
<1>6. ASSUME NEW d \in Cores \ {c}, NEW t \in Seq(Events), Is(d, t) PROVE Is(d, t)'
  <2>1. e \notin Elements(t)
    BY <1>2, <1>6, HeadIs
  <2>2. PendingOf(d)' = PendingOf(d)
    BY <1>2, <1>4 DEF PendingOf
  <2>3. \A p \in Elements(t) : link'[p] = link[p]
    BY <1>1, <2>1, <1>6 DEF TypeOK, Is, Represents, PendingOf
  <2>4. head'[d] = head[d] /\ tail'[d] = tail[d]
    BY <1>1, <1>6 DEF TypeOK
  <2> QED BY <1>6, <2>2, <2>3, <2>4, QueueKept
<1> QED BY <1>2, <1>5, <1>6 DEF e

\* Setting an idle event appends it.
LEMMA SetQueue ==
  ASSUME TypeOK, NEW e \in Events, Set(e), NEW q \in Cores, q = owner[e],
         NEW s \in Seq(Events), Is(q, s)
  PROVE  /\ Is(q, Append(s, e))' /\ e \notin Elements(s)
         /\ \A d \in Cores \ {q} : \A t \in Seq(Events) :
               Is(d, t) => Is(d, t)' /\ e \notin Elements(t)
<1>2. /\ tag[e] = "idle" /\ tail' = [tail EXCEPT ![q] = e] /\ UNCHANGED owner
      /\ e \notin Elements(s)
  BY HeadIs DEF Set, Enqueue
<1>3. /\ \A d \in Cores : head'[d] = IF d = q /\ s = <<>> THEN e ELSE head[d]
      /\ tag'[e] = "pending" /\ \A p \in Events \ {e} : tag'[p] = tag[p]
      /\ link'[e] = NULL
      /\ \A p \in Events \ {e} :
            link'[p] = IF s # <<>> /\ p = s[Len(s)] THEN e ELSE link[p]
  <2>1. CASE s = <<>>
    <3>1. /\ head' = [head EXCEPT ![q] = e] /\ tag' = [tag EXCEPT ![e] = "pending"]
          /\ link' = [link EXCEPT ![e] = NULL]
      BY <2>1, HeadIs DEF Set, Enqueue
    <3> QED BY <2>1, <3>1 DEF TypeOK
  <2>2. CASE s # <<>>
    <3>1. /\ tail[q] = s[Len(s)] /\ s[Len(s)] \in Events /\ tag[s[Len(s)]] = "pending"
      BY <2>2, HeadIs
    <3>2. /\ tag' = [tag EXCEPT ![e] = "pending", ![s[Len(s)]] = "pending"]
          /\ link' = [link EXCEPT ![e] = NULL, ![s[Len(s)]] = e]
          /\ UNCHANGED head
      BY <2>2, <3>1, HeadIs DEF Set, Enqueue
    <3>3. s[Len(s)] # e
      BY <1>2, <3>1
    <3> QED BY <2>2, <3>1, <3>2, <3>3 DEF TypeOK
  <2> QED BY <2>1, <2>2
<1>4. \A d \in Cores : PendingOf(d)' = IF d = q THEN PendingOf(d) \cup {e} ELSE PendingOf(d)
  BY <1>2, <1>3 DEF PendingOf, TypeOK
<1>5. Is(q, Append(s, e))'
  <2> DEFINE t == Append(s, e)
  <2>1. /\ t \in Seq(Events) /\ Distinct(t) /\ Elements(t) = Elements(s) \cup {e}
        /\ Len(t) = Len(s) + 1 /\ t[Len(t)] = e /\ t # <<>>
        /\ \A i \in 1..Len(s) : t[i] = s[i]
    BY <1>2, AppendNew DEF Is
  <2>2. /\ \A i \in DOMAIN s : link[s[i]] = IF i = Len(s) THEN NULL ELSE s[i + 1]
        /\ head[q] = IF s = <<>> THEN NULL ELSE s[1]
        /\ Elements(s) = PendingOf(q)
        /\ Distinct(s)
    BY DEF Is, Represents
  <2> HIDE DEF t
  <2>3. Elements(t) = PendingOf(q)'
    BY <1>4, <2>1, <2>2
  <2>4. head'[q] = t[1]
    BY <1>3, <2>1, <2>2
  <2>5. tail'[q] = t[Len(t)]
    BY <1>2, <2>1 DEF TypeOK
  <2>6. ASSUME NEW i \in DOMAIN t
        PROVE  link'[t[i]] = IF i = Len(t) THEN NULL ELSE t[i + 1]
    <3>1. CASE i = Len(t)
      BY <1>3, <2>1, <3>1
    <3>2. CASE i # Len(t)
      <4>1. i \in DOMAIN s /\ t[i] = s[i] /\ s[i] \in Events \ {e}
        BY <1>2, <2>1, <3>2 DEF Elements
      <4>2. Len(s) \in DOMAIN s
        BY <4>1
      <4>3. s[i] = s[Len(s)] <=> i = Len(s)
        BY <2>2, <4>1, <4>2 DEF Distinct
      <4> QED BY <1>3, <2>1, <2>2, <3>2, <4>1, <4>2, <4>3
    <3> QED BY <3>1, <3>2
  <2>7. Represents(q, t)'
    BY <2>1, <2>3, <2>4, <2>5, <2>6 DEF Represents
  <2> QED BY <2>1, <2>7 DEF Is, t
<1>6. ASSUME NEW d \in Cores \ {q}, NEW t \in Seq(Events), Is(d, t)
      PROVE  Is(d, t)' /\ e \notin Elements(t)
  <2>1. ASSUME NEW p \in Elements(t) PROVE link'[p] = link[p]
    <3>1. p \in Events /\ tag[p] = "pending" /\ owner[p] = d
      BY <1>6 DEF Is, Represents, PendingOf
    <3>2. s # <<>> => p # s[Len(s)]
      BY <3>1, HeadIs
    <3> QED BY <1>2, <1>3, <3>1, <3>2
  <2>2. head'[d] = head[d] /\ tail'[d] = tail[d] /\ PendingOf(d)' = PendingOf(d)
    BY <1>2, <1>3, <1>4 DEF TypeOK
  <2>3. e \notin Elements(t)
    BY <1>2, <1>6, HeadIs
  <2> QED BY <1>6, <2>1, <2>2, <2>3, QueueKept
<1> QED BY <1>2, <1>5, <1>6

\* Disabling a pending event takes it out, unless it is the last of several.
LEMMA RemoveQueue ==
  ASSUME TypeOK, NEW c \in Cores, NEW s \in Seq(Events), Is(c, s),
         NEW e \in Elements(s), NEW newTag \in {"disabled", "abandoned"},
         tail[c] = e => head[c] = e, DisableTo(c, e, newTag)
  PROVE  /\ Is(c, Without(s, e))'
         /\ \A d \in Cores \ {c} : \A t \in Seq(Events) : Is(d, t) => Is(d, t)'
<1>1. /\ e \in Events /\ tag[e] = "pending" /\ owner[e] = c /\ s # <<>>
      /\ head[c] = s[1] /\ tail[c] = s[Len(s)]
  <2>1. s # <<>>
    BY DEF Elements
  <2>2. Elements(s) \subseteq Events
    BY DEF Elements
  <2> QED BY <2>1, <2>2, HeadIs
<1>2. /\ RemovePending(c, e) /\ tag' = [tag EXCEPT ![e] = newTag] /\ UNCHANGED <<owner, tail>>
  BY <1>1 DEF DisableTo
<1>3. PICK k \in DOMAIN s : s[k] = e
  BY DEF Elements
<1>4. /\ \A i \in DOMAIN s : link[s[i]] = IF i = Len(s) THEN NULL ELSE s[i + 1]
      /\ \A i, j \in DOMAIN s : s[i] = s[j] => i = j
      /\ \A i \in DOMAIN s : s[i] \in Events /\ s[i] # NULL
      /\ Elements(s) = PendingOf(c)
  BY EventsAssumption DEF Is, Represents, Distinct
<1>5. /\ \A d \in Cores : head'[d] = IF d = c /\ k = 1 THEN link[e] ELSE head[d]
      /\ link'[e] = NULL
      /\ \A p \in Events \ {e} :
            link'[p] = IF k > 1 /\ p = s[k - 1] THEN link[e] ELSE link[p]
  <2>1. head[c] = e <=> k = 1
    BY <1>1, <1>3, <1>4
  <2>2. \A p \in Events : OnChain(c, p) <=> p \in Elements(s)
    BY QueueIs
  <2>3. ASSUME NEW p \in Events \ {e}
        PROVE  link[p] = e /\ OnChain(c, p) <=> k > 1 /\ p = s[k - 1]
    <3>1. ASSUME link[p] = e, OnChain(c, p) PROVE k > 1 /\ p = s[k - 1]
      <4>1. PICK i \in DOMAIN s : s[i] = p
        BY <2>2, <3>1 DEF Elements
      <4>2. i # Len(s) /\ s[i + 1] = e /\ i + 1 \in DOMAIN s
        BY <1>1, <1>3, <1>4, <3>1, <4>1, EventsAssumption
      <4>3. i + 1 = k
        BY <1>3, <1>4, <4>2
      <4> QED BY <4>1, <4>3
    <3>2. ASSUME k > 1, p = s[k - 1] PROVE link[p] = e /\ OnChain(c, p)
      <4>1. k - 1 \in DOMAIN s /\ k - 1 # Len(s)
        BY <1>3, <3>2
      <4> QED BY <1>3, <1>4, <2>2, <3>2, <4>1 DEF Elements
    <3> QED BY <3>1, <3>2
  <2>4. /\ head' = IF k = 1 THEN [head EXCEPT ![c] = link[e]] ELSE head
        /\ link' = [p \in Events |->
                      IF p = e THEN NULL
                      ELSE IF head[c] # e /\ link[p] = e /\ OnChain(c, p)
                           THEN link[e] ELSE link[p]]
    BY <1>2, <2>1 DEF RemovePending
  <2>5. k > 1 <=> k # 1
    BY <1>3
  <2>6. \A d \in Cores : head'[d] = IF d = c /\ k = 1 THEN link[e] ELSE head[d]
    BY <2>4 DEF TypeOK
  <2>7. link'[e] = NULL /\ \A p \in Events \ {e} :
            link'[p] = IF k > 1 /\ p = s[k - 1] THEN link[e] ELSE link[p]
    BY <1>1, <2>1, <2>3, <2>4, <2>5
  <2> QED BY <2>6, <2>7
<1>6. \A d \in Cores : PendingOf(d)' = PendingOf(d) \ {e}
  BY <1>1, <1>2 DEF PendingOf, TypeOK
<1>7. k = Len(s) => k = 1
  BY <1>1, <1>3, <1>4
<1>8. Is(c, Without(s, e))'
  <2> DEFINE t == Without(s, e)
  <2>1. t \in Seq(Events) /\ Distinct(t) /\ Elements(t) = Elements(s) \ {e}
    BY WithoutElement DEF Is
  <2>2. /\ Len(t) = Len(s) - 1
        /\ \A i \in 1..Len(t) : t[i] = IF i < k THEN s[i] ELSE s[i + 1]
    <3>1. s \in Seq(Events) /\ Distinct(s) /\ k \in DOMAIN s /\ s[k] = e
      BY <1>3, <1>4 DEF Is
    <3> QED BY <3>1, WithoutIs
  <2> HIDE DEF t
  <2>3. Elements(t) = PendingOf(c)'
    BY <1>4, <1>6, <2>1
  <2>4. head'[c] = IF t = <<>> THEN NULL ELSE t[1]
    BY <1>1, <1>3, <1>4, <1>5, <2>1, <2>2
  <2>5. t # <<>> => tail'[c] = t[Len(t)]
    BY <1>1, <1>2, <1>3, <1>7, <2>1, <2>2
  <2>6. ASSUME NEW i \in DOMAIN t
        PROVE  link'[t[i]] = IF i = Len(t) THEN NULL ELSE t[i + 1]
    <3>1. i \in 1..Len(t) /\ t[i] \in Events \ {e} /\ k \in 1..Len(s) /\ Len(s) \in Nat
      <4>1. t[i] \in Elements(t) /\ i \in 1..Len(t)
        BY <2>1 DEF Elements
      <4>2. t[i] \in Events \ {e}
        BY <1>4, <2>1, <4>1 DEF PendingOf
      <4> QED BY <1>3, <4>1, <4>2
    <3>2. CASE i >= k
      <4>1. t[i] = s[i + 1] /\ i + 1 \in DOMAIN s
        BY <2>2, <3>1, <3>2
      <4>2. ~ (k > 1 /\ s[i + 1] = s[k - 1])
        <5>1. k > 1 => k - 1 \in DOMAIN s /\ k - 1 # i + 1
          BY <3>1, <3>2
        <5> QED BY <1>4, <4>1, <5>1
      <4>3. link'[t[i]] = link[s[i + 1]]
        BY <1>5, <3>1, <4>1, <4>2
      <4>4. i # Len(t) => t[i + 1] = s[(i + 1) + 1]
        BY <2>2, <3>1, <3>2
      <4>5. i = Len(t) <=> i + 1 = Len(s)
        BY <2>2, <3>1
      <4> QED BY <1>4, <4>1, <4>3, <4>4, <4>5
    <3>3. CASE i = k - 1
      <4>1. t[i] = s[k - 1] /\ k > 1 /\ k # Len(s)
        BY <1>7, <2>2, <3>1, <3>3
      <4>2. link'[t[i]] = s[k + 1]
        BY <1>3, <1>4, <1>5, <3>1, <4>1
      <4>3. i # Len(t) /\ t[i + 1] = s[k + 1]
        BY <2>2, <3>1, <3>3, <4>1
      <4> QED BY <4>2, <4>3
    <3>4. CASE i < k - 1
      <4>1. t[i] = s[i] /\ i \in DOMAIN s /\ k - 1 \in DOMAIN s
        BY <2>2, <3>1, <3>4
      <4>2. s[i] # s[k - 1]
        BY <1>4, <3>4, <4>1
      <4>3. link'[t[i]] = link[s[i]]
        BY <1>5, <3>1, <4>1, <4>2
      <4>4. i # Len(t) /\ i # Len(s) /\ t[i + 1] = s[i + 1]
        BY <2>2, <3>1, <3>4
      <4> QED BY <1>4, <4>1, <4>3, <4>4
    <3> QED BY <3>1, <3>2, <3>3, <3>4
  <2>7. Represents(c, t)'
    BY <2>3, <2>4, <2>5, <2>6 DEF Represents
  <2> QED BY <2>1, <2>7 DEF Is, t
<1>9. ASSUME NEW d \in Cores \ {c}, NEW t \in Seq(Events), Is(d, t) PROVE Is(d, t)'
  <2>1. ASSUME NEW p \in Elements(t) PROVE link'[p] = link[p]
    <3>1. p \in Events /\ owner[p] = d
      BY <1>9 DEF Is, Represents, PendingOf
    <3>2. k > 1 => owner[s[k - 1]] = c
      <4>1. k > 1 => k - 1 \in DOMAIN s
        BY <1>3
      <4> QED BY <1>4, <4>1 DEF Elements, PendingOf
    <3> QED BY <1>1, <1>5, <3>1, <3>2
  <2>2. PendingOf(d)' = PendingOf(d)
    BY <1>1, <1>6 DEF PendingOf
  <2>3. head'[d] = head[d] /\ tail'[d] = tail[d]
    BY <1>2, <1>5
  <2> QED BY <1>9, <2>1, <2>2, <2>3, QueueKept
<1> QED BY <1>8, <1>9

-----------------------------------------------------------------------------
(* Steps on the queues, and the refinement. *)

\* What EventFifo allows the queues to become.
FifoStep(q, Q) ==
    \/ Q = q
    \/ \E c \in Cores :
          \/ q[c] # <<>> /\ Q = [q EXCEPT ![c] = Tail(q[c])]
          \/ \E e \in Events :
                \/ /\ ~ \E d \in Cores : e \in Elements(q[d])
                   /\ Q = [q EXCEPT ![c] = Append(q[c], e)]
                \/ /\ e \in Elements(q[c])
                   /\ Q = [q EXCEPT ![c] = Without(q[c], e)]

\* A step that leaves the lists alone.
LEMMA ListsKept ==
  ASSUME NEW q \in [Cores -> Seq(Events)], \A c \in Cores : Is(c, q[c]),
         UNCHANGED <<head, tail, link>>, \A c \in Cores : PendingOf(c)' = PendingOf(c)
  PROVE  \A c \in Cores : Is(c, q[c])'
<1> SUFFICES ASSUME NEW c \in Cores PROVE Is(c, q[c])'
  OBVIOUS
<1>1. q[c] \in Seq(Events) /\ Is(c, q[c])
  OBVIOUS
<1> QED BY <1>1, QueueKept

\* Every step is one of EventFifo, or changes no queue.
LEMMA StepOnQueues ==
  ASSUME TypeOK, TailRemoval = FALSE, [Next]_vars,
         NEW q \in [Cores -> Seq(Events)], \A c \in Cores : Is(c, q[c])
  PROVE  \E Q \in [Cores -> Seq(Events)] :
            FifoStep(q, Q) /\ \A c \in Cores : Is(c, Q[c])'
<1>1. ASSUME UNCHANGED <<head, tail, link>>,
             \A c \in Cores : PendingOf(c)' = PendingOf(c)
      PROVE  \E Q \in [Cores -> Seq(Events)] :
                FifoStep(q, Q) /\ \A c \in Cores : Is(c, Q[c])'
  BY <1>1, ListsKept DEF FifoStep
\* The queue of one core becomes s.
<1>2. ASSUME NEW c \in Cores, NEW s \in Seq(Events), Is(c, s)',
             \A d \in Cores \ {c} : Is(d, q[d])', FifoStep(q, [q EXCEPT ![c] = s])
      PROVE  \E Q \in [Cores -> Seq(Events)] :
                FifoStep(q, Q) /\ \A d \in Cores : Is(d, Q[d])'
  <2> DEFINE Q == [q EXCEPT ![c] = s]
  <2>1. Q \in [Cores -> Seq(Events)] /\ Q[c] = s /\ \A d \in Cores \ {c} : Q[d] = q[d]
    OBVIOUS
  <2>2. ASSUME NEW d \in Cores PROVE Is(d, Q[d])'
    <3> HIDE DEF Q
    <3>1. CASE d = c
      BY <1>2, <2>1, <3>1
    <3>2. CASE d # c
      <4>1. Q[d] = q[d] /\ Is(d, q[d])'
        BY <1>2, <2>1, <3>2
      <4> QED BY <4>1
    <3> QED BY <3>1, <3>2
  <2> QED BY <1>2, <2>1, <2>2
<1>3. ASSUME UNCHANGED queueVars
      PROVE  /\ UNCHANGED <<head, tail, link>>
             /\ \A c \in Cores : PendingOf(c)' = PendingOf(c)
  BY <1>3 DEF queueVars, PendingOf
<1>4. ASSUME NEW c \in Cores, NEW e \in Events, Enable(c, e)
      PROVE  /\ UNCHANGED <<head, tail, link>>
             /\ \A d \in Cores : PendingOf(d)' = PendingOf(d)
  BY <1>4 DEF Enable, PendingOf, TypeOK
<1>5. ASSUME NEW e \in Events, DisableAbandoned(e)
      PROVE  /\ UNCHANGED <<head, tail, link>>
             /\ \A c \in Cores : PendingOf(c)' = PendingOf(c)
  BY <1>5 DEF DisableAbandoned, PendingOf, TypeOK
<1>6. ASSUME NEW c \in Cores, NEW e \in Events, NEW newTag \in {"disabled", "abandoned"},
             DisableTo(c, e, newTag)
      PROVE  \E Q \in [Cores -> Seq(Events)] :
                FifoStep(q, Q) /\ \A d \in Cores : Is(d, Q[d])'
  <2>1. CASE tag[e] = "pending"
    <3>1. e \in Elements(q[c]) /\ q[c] \in Seq(Events)
      BY <1>6, <2>1, HeadIs DEF DisableTo, MayDisable
    <3>2. tail[c] = e => head[c] = e
      BY <1>6, <2>1 DEF DisableTo, MayDisable
    <3>3. /\ Is(c, Without(q[c], e))'
          /\ \A d \in Cores \ {c} : \A t \in Seq(Events) : Is(d, t) => Is(d, t)'
      BY <1>6, <3>1, <3>2, RemoveQueue
    <3>4. Without(q[c], e) \in Seq(Events)
      BY <3>1, WithoutElement DEF Is
    <3>5. FifoStep(q, [q EXCEPT ![c] = Without(q[c], e)])
      BY <3>1 DEF FifoStep
    <3> QED BY <1>2, <3>3, <3>4, <3>5
  <2>2. CASE tag[e] # "pending"
    <3>1. UNCHANGED <<head, tail, link>> /\ \A d \in Cores : PendingOf(d)' = PendingOf(d)
      BY <1>6, <2>2 DEF DisableTo, PendingOf, TypeOK
    <3> QED BY <1>1, <3>1
  <2> QED BY <2>1, <2>2
<1>7. ASSUME NEW e \in Events, Set(e)
      PROVE  \E Q \in [Cores -> Seq(Events)] :
                FifoStep(q, Q) /\ \A d \in Cores : Is(d, Q[d])'
  <2>1. PICK c \in Cores : c = owner[e]
    BY DEF TypeOK
  <2>2. q[c] \in Seq(Events) /\ Append(q[c], e) \in Seq(Events)
    OBVIOUS
  <2>3. /\ Is(c, Append(q[c], e))' /\ e \notin Elements(q[c])
        /\ \A d \in Cores \ {c} : \A t \in Seq(Events) :
              Is(d, t) => Is(d, t)' /\ e \notin Elements(t)
    BY <1>7, <2>1, <2>2, SetQueue
  <2>4. ~ \E d \in Cores : e \in Elements(q[d])
    BY <2>3
  <2>5. FifoStep(q, [q EXCEPT ![c] = Append(q[c], e)])
    BY <2>4 DEF FifoStep
  <2> QED BY <1>2, <2>2, <2>3, <2>5
<1>8. ASSUME NEW c \in Cores, Pop(c)
      PROVE  \E Q \in [Cores -> Seq(Events)] :
                FifoStep(q, Q) /\ \A d \in Cores : Is(d, Q[d])'
  <2>1. q[c] \in Seq(Events)
    OBVIOUS
  <2>2. /\ q[c] # <<>> /\ Is(c, Tail(q[c]))'
        /\ \A d \in Cores \ {c} : \A t \in Seq(Events) : Is(d, t) => Is(d, t)'
    BY <1>8, <2>1, PopQueue
  <2>3. Tail(q[c]) \in Seq(Events)
    BY <2>1, <2>2
  <2>4. FifoStep(q, [q EXCEPT ![c] = Tail(q[c])])
    BY <2>2 DEF FifoStep
  <2> QED BY <1>2, <2>2, <2>3, <2>4
<1>9. CASE UNCHANGED vars
  BY <1>1, <1>3, <1>9 DEF vars, queueVars
<1>10. ASSUME NEW c \in Cores,
              \/ DispatchEnter(c) \/ PopEmpty(c) \/ DispatchReturn(c) \/ EnterWait(c)
              \/ WaitEvent(c) \/ WaitTimeout(c)
       PROVE  \E Q \in [Cores -> Seq(Events)] :
                FifoStep(q, Q) /\ \A d \in Cores : Is(d, Q[d])'
  <2>1. UNCHANGED queueVars
    BY <1>10 DEF DispatchEnter, PopEmpty, DispatchReturn, EnterWait, WaitEvent, WaitTimeout
  <2> QED BY <1>1, <1>3, <2>1
<1>11. ASSUME NEW c \in Cores, NEW e \in Events, Disable(c, e) \/ Abandon(c, e)
       PROVE  \E Q \in [Cores -> Seq(Events)] :
                FifoStep(q, Q) /\ \A d \in Cores : Is(d, Q[d])'
  BY <1>6, <1>11 DEF Disable, Abandon
<1>12. CASE Next
  BY <1>1, <1>4, <1>5, <1>7, <1>8, <1>10, <1>11, <1>12 DEF Next
<1> QED BY <1>9, <1>12

Queues == [c \in Cores |-> QueueOf(c)]

\* Queues is the function from cores to the sequences that their lists are.
LEMMA QueuesAre ==
  TypeOK => \A q \in [Cores -> Seq(Events)] :
              (\A c \in Cores : Is(c, q[c])) => Queues = q
<1> SUFFICES ASSUME TypeOK, NEW q \in [Cores -> Seq(Events)], \A c \in Cores : Is(c, q[c])
             PROVE  Queues = q
  OBVIOUS
<1>1. \A c \in Cores : QueueOf(c) = q[c]
  BY QueueIs
<1> QED BY <1>1 DEF Queues

\* The same of the next state.
LEMMA QueuesAreNext ==
  (TypeOK => \A q \in [Cores -> Seq(Events)] :
               (\A c \in Cores : Is(c, q[c])) => Queues = q)'
BY QueuesAre, PTL

\* The queues of the current state, when the lists are well formed.
LEMMA QueuesFromInv ==
  ASSUME TypeOK, ListInv
  PROVE  Queues \in [Cores -> Seq(Events)] /\ \A c \in Cores : Is(c, Queues[c])
<1>1. ASSUME NEW c \in Cores PROVE QueueOf(c) \in Seq(Events) /\ Is(c, QueueOf(c))
  <2>1. PICK s \in Seq(Events) : Is(c, s)
    BY DEF ListInv
  <2>2. QueueOf(c) = s
    BY <2>1, QueueIs
  <2> QED BY <2>1, <2>2
<1> QED BY <1>1 DEF Queues

\* One step: the lists stay well formed, and EventFifo allows it.
LEMMA ListStep ==
  TypeOK /\ TypeOK' /\ ListInv /\ TailRemoval = FALSE /\ [Next]_vars
    => ListInv' /\ FifoStep(Queues, Queues')
<1> SUFFICES ASSUME TypeOK, TypeOK', ListInv, TailRemoval = FALSE, [Next]_vars
             PROVE  ListInv' /\ FifoStep(Queues, Queues')
  OBVIOUS
<1>1. PICK q \in [Cores -> Seq(Events)] : q = Queues /\ \A c \in Cores : Is(c, q[c])
  BY QueuesFromInv
<1>2. PICK Q \in [Cores -> Seq(Events)] : FifoStep(q, Q) /\ \A c \in Cores : Is(c, Q[c])'
  BY <1>1, StepOnQueues
<1>3. ListInv'
  <2>1. \A c \in Cores : Q[c] \in Seq(Events) /\ Is(c, Q[c])'
    BY <1>2
  <2> QED BY <2>1 DEF ListInv
<1>4. Queues' = Q
  BY <1>2, QueuesAreNext
<1> QED BY <1>1, <1>2, <1>3, <1>4

LEMMA ListInit == Init => ListInv /\ Queues = [c \in Cores |-> <<>>]
<1> SUFFICES ASSUME Init PROVE ListInv /\ Queues = [c \in Cores |-> <<>>]
  OBVIOUS
<1> DEFINE q == [c \in Cores |-> <<>>]
<1>1. TypeOK
  BY DEF Init, TypeOK, Tags, Locations
<1>2. q \in [Cores -> Seq(Events)]
  OBVIOUS
<1>3. ASSUME NEW c \in Cores PROVE Is(c, <<>>)
  BY EmptyQueue DEF Is, Represents, PendingOf, Init
<1>4. ListInv
  <2>1. <<>> \in Seq(Events)
    OBVIOUS
  <2> QED BY <1>3, <2>1 DEF ListInv
<1>5. Queues = q
  BY <1>1, <1>2, <1>3, QueuesAre
<1> QED BY <1>4, <1>5

THEOREM ListInvariance ==
  ASSUME TailRemoval = FALSE PROVE Spec => []ListInv
<1>1. Init => ListInv
  BY ListInit
<1>2. TypeOK /\ TypeOK' /\ ListInv /\ [Next]_vars => ListInv'
  BY ListStep
<1> QED BY <1>1, <1>2, Invariance, PTL DEF Spec

\* The linked list of each core holds its pending events and nothing else,
\* through any interleaving of calls, interrupts and dispatching, as long as
\* the last of several pending events is not disabled.
THEOREM ListCorrect ==
  ASSUME TailRemoval = FALSE PROVE Spec => []QueueWellFormed
<1>1. TypeOK /\ ListInv => QueueWellFormed
  <2> SUFFICES ASSUME TypeOK, ListInv, NEW c \in Cores PROVE Represents(c, QueueOf(c))
    BY DEF QueueWellFormed
  <2>1. Is(c, QueueOf(c))
    BY QueuesFromInv DEF Queues
  <2> QED BY <2>1 DEF Is
<1> QED BY <1>1, ListInvariance, Invariance, PTL

\* The linked lists implement the sequences of EventFifo: events are
\* dispatched in the order in which they were set.
THEOREM FifoCorrect ==
  ASSUME TailRemoval = FALSE PROVE Spec => ImplementsFifo
<1>1. Init => Fifo!Init
  BY ListInit DEF Fifo!Init, Queues
<1>2. TypeOK /\ TypeOK' /\ ListInv /\ [Next]_vars => [Fifo!Next]_Queues
  <2> SUFFICES ASSUME TypeOK, TypeOK', ListInv, [Next]_vars PROVE [Fifo!Next]_Queues
    OBVIOUS
  <2>1. FifoStep(Queues, Queues')
    BY ListStep
  <2>2. ASSUME NEW c \in Cores, Queues[c] # <<>>,
               Queues' = [Queues EXCEPT ![c] = Tail(Queues[c])]
        PROVE  Fifo!Pop(c)
    BY <2>2 DEF Fifo!Pop, Queues
  <2>3. ASSUME NEW c \in Cores, NEW e \in Events,
               ~ \E d \in Cores : e \in Elements(Queues[d]),
               Queues' = [Queues EXCEPT ![c] = Append(Queues[c], e)]
        PROVE  Fifo!Set(c, e)
    BY <2>3 DEF Fifo!Set, Fifo!Queued, Queues, Fifo!Elements, Elements
  <2>4. ASSUME NEW c \in Cores, NEW e \in Events, e \in Elements(Queues[c]),
               Queues' = [Queues EXCEPT ![c] = Without(Queues[c], e)]
        PROVE  Fifo!Unlink(c, e)
    BY <2>4 DEF Fifo!Unlink, Queues, Fifo!Elements, Elements, Fifo!Without, Without
  <2> QED BY <2>1, <2>2, <2>3, <2>4 DEF FifoStep, Fifo!Next
<1>3. Queues = [c \in Cores |-> QueueOf(c)]
  BY DEF Queues
<1> QED
  BY <1>1, <1>2, ListInvariance, Invariance, PTL DEF Spec, ImplementsFifo, Fifo!Spec, Queues

\* An abandoned event stays so until the callback releases it.  It needs the
\* well-formed lists: the events that setting and dispatching write to, the
\* last and the first of a queue, are pending.
THEOREM AbandonCorrect ==
  ASSUME TailRemoval = FALSE PROVE Spec => AbandonedUntilReleased
<1> DEFINE Kept == \A e \in Events : tag[e] = "abandoned" /\ tag'[e] # "abandoned"
                                       => tag'[e] = "disabled"
<1>1. TypeOK /\ ListInv /\ [Next]_vars => [Kept]_vars
  <2> SUFFICES ASSUME TypeOK, ListInv, Next PROVE Kept
    OBVIOUS
  <2>1. ASSUME NEW e \in Events, Set(e) PROVE Kept
    <3>1. PICK s \in Seq(Events) : Is(owner[e], s)
      BY DEF ListInv, TypeOK
    <3>2. owner[e] \in Cores /\ tag[e] = "idle"
      BY <2>1 DEF TypeOK, Set
    <3>3. head[owner[e]] # NULL => /\ tail[owner[e]] \in Events
                                   /\ tag[tail[owner[e]]] = "pending"
      BY <3>1, <3>2, HeadIs
    <3> QED BY <2>1, <3>2, <3>3 DEF Set, Enqueue, TypeOK
  <2>2. ASSUME NEW c \in Cores, Pop(c) PROVE Kept
    <3>1. PICK s \in Seq(Events) : Is(c, s)
      BY DEF ListInv
    <3>2. head[c] \in Events /\ tag[head[c]] = "pending"
      BY <2>2, <3>1, HeadIs DEF Pop
    <3> QED BY <2>2, <3>2 DEF Pop, TypeOK
  <2>3. ASSUME NEW c \in Cores, NEW e \in Events,
               Enable(c, e) \/ Disable(c, e) \/ Abandon(c, e) \/ DisableAbandoned(e)
        PROVE  Kept
    BY <2>3 DEF Enable, Disable, Abandon, DisableTo, DisableAbandoned, TypeOK
  <2>4. ASSUME NEW c \in Cores,
               \/ DispatchEnter(c) \/ PopEmpty(c) \/ DispatchReturn(c) \/ EnterWait(c)
               \/ WaitEvent(c) \/ WaitTimeout(c)
        PROVE  Kept
    BY <2>4 DEF DispatchEnter, PopEmpty, DispatchReturn, EnterWait, WaitEvent, WaitTimeout,
                queueVars
  <2> QED BY <2>1, <2>2, <2>3, <2>4, CoresAssumption DEF Next
<1> QED BY <1>1, ListInvariance, Invariance, PTL DEF Spec, AbandonedUntilReleased
=============================================================================
