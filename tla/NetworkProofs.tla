---------------------------- MODULE NetworkProofs -----------------------------
(***************************************************************************)
(* Proofs about the network modules, for every value of their constants.   *)
(* Each part of MCNetwork moves as its own module says, so an invariant of *)
(* a module holds in every behaviour of MCNetwork.                         *)
(***************************************************************************)
EXTENDS MCNetwork, QueueOpsProofs

-----------------------------------------------------------------------------
(* DnsLookups. *)

DnsResults == {"none", "error", "false", "timeout", "killed"}

\* Threads and the other values are told apart.
DnsApart ==
    /\ Requests \in Nat
    /\ NoThread \notin Threads
    /\ Threads \cap DnsResults = {}

DnsTypeInv ==
    /\ slot \in [D!Slots -> [event : {"disabled", "enabled", "pending", "abandoned"},
                           status : {"FOUND", "NOT_FOUND", "WAITING"},
                           addr : Threads \cup {NoThread}]]
    /\ asked \in [D!Slots -> Threads \cup {NoThread}]
    /\ looker \in [Threads -> [pc : {"lua", "loop", "suspended", "ready", "done"},
                               slot : D!Slots \cup {0}, late : BOOLEAN,
                               res : Threads \cup {NoThread} \cup DnsResults]]

\* A call has a slot, which is in use and not that of another call.
DnsOwnSlot ==
    \A t \in Threads :
        /\ looker[t].pc # "lua" <=> looker[t].slot \in D!Slots
        /\ looker[t].slot \in D!Slots =>
              /\ slot[looker[t].slot].event \in {"enabled", "pending"}
              /\ \A u \in Threads : looker[u].slot = looker[t].slot => u = t

\* What a slot says has been found is the address that its thread asked for.
DnsOwnAddress ==
    \A t \in Threads :
        looker[t].slot \in D!Slots /\ slot[looker[t].slot].status = "FOUND"
            => slot[looker[t].slot].addr = t

\* AnswerIsMine, and AskedSlotIsTaken from which it follows that the answer
\* of lwIP is for the thread that has the slot, if one has.
DnsIInv == /\ DnsTypeInv /\ DnsOwnSlot /\ DnsOwnAddress
           /\ D!AskedSlotIsTaken /\ D!AnswerIsMine /\ D!SlotsAreUsed

LEMMA DnsIsApart == DnsApart
  BY NetworkAssumption DEF DnsApart, DnsResults

LEMMA DnsInitInv == DnsApart /\ D!Init => DnsIInv
<1> SUFFICES ASSUME DnsApart, D!Init PROVE DnsIInv
  OBVIOUS
<1>1. 0 \notin D!Slots
  BY DEF D!Slots, DnsApart
<1>2. DnsTypeInv
  BY DEF D!Init, DnsTypeInv, D!Lua, DnsResults
<1>3. DnsOwnSlot /\ DnsOwnAddress /\ D!AskedSlotIsTaken
  BY <1>1 DEF D!Init, DnsOwnSlot, DnsOwnAddress, D!AskedSlotIsTaken, D!Lua
<1>4. D!AnswerIsMine /\ D!SlotsAreUsed
  BY <1>1 DEF D!Init, D!AnswerIsMine, D!SlotsAreUsed, D!Lua, DnsApart, DnsResults
<1> QED BY <1>2, <1>3, <1>4 DEF DnsIInv

\* The answer of lwIP.
LEMMA DnsAnswerInv ==
    ASSUME DnsApart, DnsIInv, NEW s \in D!Slots, NEW found \in BOOLEAN, D!handle_dns_found(s, found)
    PROVE  DnsIInv'
<1>1. /\ asked[s] # NoThread /\ asked' = [asked EXCEPT ![s] = NoThread]
      /\ UNCHANGED looker
  BY DEF D!handle_dns_found
<1>2. /\ \A r \in D!Slots \ {s} : slot'[r] = slot[r]
      /\ slot'[s] = IF slot[s].event = "abandoned"
                    THEN [slot[s] EXCEPT !.event = "disabled"]
                    ELSE [event |-> D!Set(slot[s].event),
                          status |-> IF found THEN "FOUND" ELSE "NOT_FOUND",
                          addr |-> IF found THEN asked[s] ELSE slot[s].addr]
  BY DEF D!handle_dns_found, D!Forgotten, DnsIInv, DnsTypeInv
<1>3. DnsTypeInv'
  BY <1>1, <1>2 DEF D!handle_dns_found, D!Forgotten, D!Set, DnsIInv, DnsTypeInv
<1>4. DnsOwnSlot'
  BY <1>1, <1>2 DEF DnsIInv, DnsOwnSlot, DnsTypeInv, D!Set
<1>5. DnsOwnAddress'
  BY <1>1, <1>2 DEF DnsIInv, DnsOwnSlot, DnsOwnAddress, D!AskedSlotIsTaken, DnsTypeInv
<1>6. D!AskedSlotIsTaken' /\ D!AnswerIsMine'
  BY <1>1, <1>2 DEF DnsIInv, D!AskedSlotIsTaken, D!AnswerIsMine, DnsTypeInv
<1>7. D!SlotsAreUsed'
  BY <1>1, <1>2 DEF DnsIInv, D!SlotsAreUsed, DnsTypeInv, D!Set
<1> QED BY <1>3, <1>4, <1>5, <1>6, <1>7 DEF DnsIInv

\* A call takes a slot that no other call has and that lwIP has answered.
LEMMA DnsStartInv ==
    ASSUME DnsApart, DnsIInv, NEW t \in Threads, D!mod_gethostbyname(t)
    PROVE  DnsIInv'
<1> DEFINE free == {s \in D!Slots : slot[s].event = "disabled"}
           s == CHOOSE s \in free : \A r \in free : s <= r
<1>1. CASE free = {}
  BY <1>1 DEF D!mod_gethostbyname, D!vars, DnsIInv, DnsTypeInv, DnsOwnSlot, DnsOwnAddress,
              D!AskedSlotIsTaken, D!AnswerIsMine, D!SlotsAreUsed
<1>2. CASE free # {}
  <2>1. free \in SUBSET Nat
    BY DEF D!Slots, DnsApart
  <2>2. s \in D!Slots /\ slot[s].event = "disabled"
    BY <1>2, <2>1, LeastNumber
  <2> DEFINE call(pc, res) == [pc |-> pc, slot |-> s, late |-> FALSE, res |-> res]
  <2>3. \/ /\ slot' = [slot EXCEPT ![s] = [event |-> "enabled", status |-> "FOUND", addr |-> t]]
           /\ looker' = [looker EXCEPT ![t] = call("done", t)]
           /\ UNCHANGED asked
        \/ /\ slot' = [slot EXCEPT ![s] = [event |-> "enabled", status |-> "NOT_FOUND",
                                           addr |-> slot[s].addr]]
           /\ looker' = [looker EXCEPT ![t] = call("done", "error")]
           /\ UNCHANGED asked
        \/ /\ slot' = [slot EXCEPT ![s] = [event |-> "enabled", status |-> "WAITING",
                                           addr |-> slot[s].addr]]
           /\ looker' = [looker EXCEPT ![t] = call("loop", "none")]
           /\ asked' = [asked EXCEPT ![s] = t]
    BY <1>2 DEF D!mod_gethostbyname
  <2> HIDE DEF s, free
  <2>4. /\ looker[t].slot \notin D!Slots
        /\ \A u \in Threads : looker[u].slot # s
        /\ asked[s] = NoThread
    BY <2>2 DEF DnsIInv, DnsOwnSlot, D!AskedSlotIsTaken, D!mod_gethostbyname
  <2>5. /\ \A u \in Threads \ {t} : looker'[u] = looker[u]
        /\ \A r \in D!Slots \ {s} : slot'[r] = slot[r] /\ asked'[r] = asked[r]
        /\ looker'[t].slot = s /\ looker'[t].pc # "lua" /\ slot'[s].event = "enabled"
    BY <2>2, <2>3 DEF DnsIInv, DnsTypeInv
  <2>6. DnsTypeInv'
    <3>1. \E pc \in {"done", "loop"}, res \in Threads \cup DnsResults :
             looker' = [looker EXCEPT ![t] = call(pc, res)]
      BY <2>3 DEF DnsResults
    <3>2. \E st \in {"FOUND", "NOT_FOUND", "WAITING"}, addr \in Threads \cup {NoThread} :
             slot' = [slot EXCEPT ![s] = [event |-> "enabled", status |-> st, addr |-> addr]]
      BY <2>2, <2>3 DEF DnsIInv, DnsTypeInv
    <3>3. asked' \in [D!Slots -> Threads \cup {NoThread}]
      BY <2>2, <2>3 DEF DnsIInv, DnsTypeInv
    <3>4. looker' \in [Threads -> [pc : {"lua", "loop", "suspended", "ready", "done"},
                                   slot : D!Slots \cup {0}, late : BOOLEAN,
                                   res : Threads \cup {NoThread} \cup DnsResults]]
      <4>1. PICK pc \in {"done", "loop"}, res \in Threads \cup DnsResults :
              looker' = [looker EXCEPT ![t] = call(pc, res)]
        BY <3>1
      <4>2. call(pc, res) \in [pc : {"lua", "loop", "suspended", "ready", "done"},
                               slot : D!Slots \cup {0}, late : BOOLEAN,
                               res : Threads \cup {NoThread} \cup DnsResults]
        BY <2>2
      <4> QED BY <4>1, <4>2 DEF DnsIInv, DnsTypeInv
    <3>5. slot' \in [D!Slots -> [event : {"disabled", "enabled", "pending", "abandoned"},
                               status : {"FOUND", "NOT_FOUND", "WAITING"},
                               addr : Threads \cup {NoThread}]]
      <4>1. PICK st \in {"FOUND", "NOT_FOUND", "WAITING"}, addr \in Threads \cup {NoThread} :
              slot' = [slot EXCEPT ![s] = [event |-> "enabled", status |-> st, addr |-> addr]]
        BY <3>2
      <4>2. [event |-> "enabled", status |-> st, addr |-> addr]
              \in [event : {"disabled", "enabled", "pending", "abandoned"},
                   status : {"FOUND", "NOT_FOUND", "WAITING"},
                   addr : Threads \cup {NoThread}]
        BY <4>1
      <4> QED BY <4>1, <4>2 DEF DnsIInv, DnsTypeInv
    <3> QED BY <3>3, <3>4, <3>5 DEF DnsTypeInv
  <2>7. DnsOwnSlot'
    BY <2>2, <2>4, <2>5 DEF DnsIInv, DnsOwnSlot
  <2>8. DnsOwnAddress'
    <3>1. slot'[s].status = "FOUND" => slot'[s].addr = t
      BY <2>2, <2>3 DEF DnsIInv, DnsTypeInv
    <3> QED BY <2>4, <2>5, <3>1 DEF DnsIInv, DnsOwnAddress
  <2>9. D!AskedSlotIsTaken'
    <3>1. asked'[s] = NoThread \/ (asked'[s] = t /\ slot'[s].status = "WAITING")
      BY <2>2, <2>3, <2>4 DEF DnsIInv, DnsTypeInv
    <3> QED BY <2>2, <2>4, <2>5, <3>1 DEF DnsIInv, D!AskedSlotIsTaken
  <2>10. D!AnswerIsMine'
    <3>1. looker'[t].res \in Threads => looker'[t].res = t
      BY <2>3 DEF DnsIInv, DnsTypeInv, DnsApart, DnsResults
    <3> QED BY <2>5, <3>1 DEF DnsIInv, D!AnswerIsMine
  <2>11. D!SlotsAreUsed'
    BY <2>2, <2>4, <2>5 DEF DnsIInv, D!SlotsAreUsed
  <2> QED BY <2>6, <2>7, <2>8, <2>9, <2>10, <2>11 DEF DnsIInv
<1> QED BY <1>1, <1>2

\* Steps of a call that keep its slot: the loop function, a kill, its event,
\* its deadline and its resumption.
LEMMA DnsCallInv ==
    ASSUME DnsApart, DnsIInv, NEW t \in Threads,
           D!gethostbyname_loop(t) \/ D!Kill(t) \/ D!Dispatch(t) \/ D!Timer(t) \/ D!Resumed(t)
    PROVE  DnsIInv'
<1>1. looker[t].pc # "lua" /\ looker[t].slot \in D!Slots
  BY DEF DnsIInv, DnsOwnSlot, D!gethostbyname_loop, D!Kill, D!Dispatch, D!Timer, D!Resumed
<1>2. /\ \A u \in Threads \ {t} : looker'[u] = looker[u]
      /\ looker'[t].slot = looker[t].slot /\ looker'[t].pc # "lua"
      /\ UNCHANGED asked
  BY DEF DnsIInv, DnsTypeInv, D!gethostbyname_loop, D!Kill, D!Dispatch, D!Timer, D!Resumed
<1>3. \A s \in D!Slots : /\ slot'[s].status = slot[s].status
                       /\ slot'[s].addr = slot[s].addr
                       /\ \/ slot'[s].event = slot[s].event
                          \/ slot[s].event = "pending" /\ slot'[s].event = "enabled"
  BY <1>1 DEF DnsIInv, DnsTypeInv, D!gethostbyname_loop, D!Kill, D!Dispatch, D!Timer, D!Resumed
<1>4. DnsTypeInv'
  <2>1. CASE D!gethostbyname_loop(t)
    <3>1. PICK pc \in {"done", "suspended"}, res \in Threads \cup {NoThread} \cup DnsResults :
            looker' = [looker EXCEPT ![t].pc = pc, ![t].res = res]
      BY <1>1, <2>1 DEF DnsIInv, DnsTypeInv, D!gethostbyname_loop, DnsResults
    <3>2. UNCHANGED <<slot, asked>>
      BY <2>1 DEF D!gethostbyname_loop
    <3> DEFINE m == [looker[t] EXCEPT !.pc = pc, !.res = res]
    <3>3. m \in [pc : {"lua", "loop", "suspended", "ready", "done"},
                 slot : D!Slots \cup {0}, late : BOOLEAN,
                 res : Threads \cup {NoThread} \cup DnsResults]
      BY DEF DnsIInv, DnsTypeInv
    <3>4. looker' = [looker EXCEPT ![t] = m]
      BY <3>1 DEF DnsIInv, DnsTypeInv
    <3> HIDE DEF m
    <3> QED BY <3>2, <3>3, <3>4 DEF DnsIInv, DnsTypeInv
  <2>2. CASE D!Kill(t) \/ D!Timer(t) \/ D!Resumed(t)
    BY <1>1, <2>2 DEF DnsIInv, DnsTypeInv, D!Kill, D!Timer, D!Resumed, DnsResults
  <2>3. CASE D!Dispatch(t)
    BY <1>1, <2>3 DEF DnsIInv, DnsTypeInv, D!Dispatch
  <2> QED BY <2>1, <2>2, <2>3
<1>5. looker'[t].res \in {looker[t].res, slot[looker[t].slot].addr} \cup DnsResults
      /\ (looker'[t].res = looker[t].res \/ looker'[t].res \in DnsResults
          \/ slot[looker[t].slot].status = "FOUND")
  <2>1. CASE D!gethostbyname_loop(t)
    <3>1. PICK pc \in {"done", "suspended"}, res \in Threads \cup {NoThread} \cup DnsResults :
            looker' = [looker EXCEPT ![t].pc = pc, ![t].res = res]
      BY <1>1, <2>1 DEF DnsIInv, DnsTypeInv, D!gethostbyname_loop, DnsResults
    <3>2. UNCHANGED <<slot, asked>>
      BY <2>1 DEF D!gethostbyname_loop
    <3> QED BY <3>1, <3>2 DEF DnsIInv, DnsTypeInv
  <2>2. CASE D!Kill(t) \/ D!Timer(t) \/ D!Resumed(t)
    BY <1>1, <2>2 DEF DnsIInv, DnsTypeInv, D!Kill, D!Timer, D!Resumed, DnsResults
  <2>3. CASE D!Dispatch(t)
    BY <1>1, <2>3 DEF DnsIInv, DnsTypeInv, D!Dispatch
  <2> QED BY <2>1, <2>2, <2>3
<1>6. DnsOwnSlot' /\ DnsOwnAddress'
  BY <1>1, <1>2, <1>3 DEF DnsIInv, DnsOwnSlot, DnsOwnAddress
<1>7. D!AskedSlotIsTaken'
  BY <1>2, <1>3 DEF DnsIInv, D!AskedSlotIsTaken
<1>8. D!AnswerIsMine'
  <2>1. looker'[t].res \in Threads => looker'[t].res = t
    BY <1>1, <1>5 DEF DnsIInv, D!AnswerIsMine, DnsOwnAddress, DnsApart
  <2> QED BY <1>2, <2>1 DEF DnsIInv, D!AnswerIsMine
<1>9. D!SlotsAreUsed'
  BY <1>1, <1>2, <1>3 DEF DnsIInv, D!SlotsAreUsed
<1> QED BY <1>4, <1>6, <1>7, <1>8, <1>9 DEF DnsIInv

\* A call that ends abandons its slot if lwIP will still write to it.
LEMMA DnsEndInv ==
    ASSUME DnsApart, DnsIInv, NEW t \in Threads, D!gethostbyname_done(t)
    PROVE  DnsIInv'
<1> DEFINE s == looker[t].slot
<1>1. s \in D!Slots /\ \A u \in Threads \ {t} : looker[u].slot # s
  BY DEF D!gethostbyname_done, DnsIInv, DnsOwnSlot
<1>2. /\ \A u \in Threads \ {t} : looker'[u] = looker[u]
      /\ looker'[t] = D!Lua /\ UNCHANGED asked
      /\ \A r \in D!Slots \ {s} : slot'[r] = slot[r]
      /\ slot'[s].status = slot[s].status /\ slot'[s].event = D!GiveBack(slot[s])
  BY <1>1 DEF D!gethostbyname_done, DnsIInv, DnsTypeInv
<1>3. DnsTypeInv'
  BY <1>1 DEF D!gethostbyname_done, DnsIInv, DnsTypeInv, D!Lua, D!GiveBack, DnsResults
<1>4. D!Lua.slot \notin D!Slots /\ D!Lua.pc = "lua" /\ D!Lua.res \notin Threads
  BY DEF D!Lua, D!Slots, DnsApart, DnsResults
<1> HIDE DEF s
<1>5. DnsOwnSlot' /\ DnsOwnAddress'
  BY <1>1, <1>2, <1>4 DEF DnsIInv, DnsOwnSlot, DnsOwnAddress
<1>6. D!AskedSlotIsTaken'
  <2>1. asked[s] # NoThread => slot'[s].event = "abandoned"
    BY <1>1, <1>2 DEF DnsIInv, D!AskedSlotIsTaken, DnsOwnSlot, D!GiveBack, s
  <2> QED BY <1>1, <1>2, <1>4, <2>1 DEF DnsIInv, D!AskedSlotIsTaken
<1>7. D!AnswerIsMine'
  BY <1>2, <1>4 DEF DnsIInv, D!AnswerIsMine
<1>8. D!SlotsAreUsed'
  <2>1. slot'[s].event \in {"disabled", "abandoned"}
    BY <1>2 DEF D!GiveBack
  <2> QED BY <1>1, <1>2, <1>4, <2>1 DEF DnsIInv, D!SlotsAreUsed, s
<1> QED BY <1>3, <1>5, <1>6, <1>7, <1>8 DEF DnsIInv

LEMMA DnsStepInv == DnsApart /\ DnsIInv /\ [D!Next]_D!vars => DnsIInv'
<1> SUFFICES ASSUME DnsApart, DnsIInv, [D!Next]_D!vars PROVE DnsIInv'
  OBVIOUS
<1>1. CASE UNCHANGED D!vars
  BY <1>1 DEF D!vars, DnsIInv, DnsTypeInv, DnsOwnSlot, DnsOwnAddress,
              D!AskedSlotIsTaken, D!AnswerIsMine, D!SlotsAreUsed
<1>2. CASE D!Next
  BY <1>2, DnsAnswerInv, DnsStartInv, DnsCallInv, DnsEndInv DEF D!Next
<1> QED BY <1>1, <1>2

LEMMA DnsMoves == [NextAll]_all => [D!Next]_D!vars
  BY DEF NextAll, all, Step, Unmoved, dns, D!vars

THEOREM DnsInvariance == SpecAll => []DnsIInv
<1>1. InitAll => DnsIInv
  BY DnsInitInv, DnsIsApart DEF InitAll
<1>2. DnsIInv /\ [NextAll]_all => DnsIInv'
  BY DnsStepInv, DnsIsApart, DnsMoves
<1> QED BY <1>1, <1>2, PTL DEF SpecAll

\* gethostbyname() returns the address of the name it was asked for, although
\* a slot outlives its call, is taken again and is written to by lwIP; a slot
\* is in use by a call, or waits for an answer, or is free.
THEOREM AnswersCorrect == SpecAll => []AnswersAreMine
<1>1. DnsIInv => AnswersAreMine
  BY DEF DnsIInv, AnswersAreMine
<1> QED BY <1>1, DnsInvariance, PTL

LEMMA NetworkConstants ==
    /\ Cap \in Nat \ {0} /\ MaxPackets \in Nat /\ MaxResults \in Nat /\ Wrap \in Nat \ {0}
    /\ MaxUnits \in Nat \ {0} /\ MaxPbuf \in Nat \ {0} /\ Window \in Nat \ {0}
    /\ SndBuf \in Nat \ {0} /\ Strings \in Nat
  BY NetworkAssumption

-----------------------------------------------------------------------------
(* PacketRing: the ring is a queue. *)

\* The queue s with p after it.
LEMMA IsAppend ==
    ASSUME NEW S, NEW s \in Seq(S), NEW t \in Seq(S), NEW p \in S, Len(t) = Len(s) + 1,
           \A i \in 1..(Len(s) + 1) : t[i] = IF i = Len(s) + 1 THEN p ELSE s[i]
    PROVE  t = Append(s, p)
<1>1. /\ Append(s, p) \in Seq(S) /\ Len(Append(s, p)) = Len(s) + 1
      /\ \A i \in 1..(Len(s) + 1) : Append(s, p)[i] = IF i = Len(s) + 1 THEN p ELSE s[i]
  BY AppendProperties
<1>2. \A i \in 1..Len(t) : t[i] = Append(s, p)[i]
  BY <1>1
<1> QED BY <1>1, <1>2, SeqEqual

LEMMA AppendToConcat ==
    ASSUME NEW S, NEW s \in Seq(S), NEW t \in Seq(S), NEW a \in S
    PROVE  s \o Append(t, a) = Append(s \o t, a)
<1>1. /\ <<a>> \in Seq(S) /\ s \o t \in Seq(S)
      /\ Append(t, a) = t \o <<a>> /\ Append(s \o t, a) = (s \o t) \o <<a>>
  BY AppendIsConcat
<1>2. s \o (t \o <<a>>) = (s \o t) \o <<a>>
  BY <1>1, ConcatAssociative
<1> QED BY <1>1, <1>2

\* The first element of t moves to the end of s.
LEMMA MoveFirst ==
    ASSUME NEW S, NEW s \in Seq(S), NEW t \in Seq(S), t # <<>>
    PROVE  Append(s, t[1]) \o Tail(t) = s \o t /\ t[1] \in S
<1>1. t = <<t[1]>> \o Tail(t) /\ t[1] \in S /\ Tail(t) \in Seq(S) /\ <<t[1]>> \in Seq(S)
  OBVIOUS
<1>2. s \o (<<t[1]>> \o Tail(t)) = (s \o <<t[1]>>) \o Tail(t)
  BY <1>1, ConcatAssociative
<1>3. Append(s, t[1]) = s \o <<t[1]>>
  BY <1>1, AppendIsConcat
<1> QED BY <1>1, <1>2, <1>3

\* A ring with two fields changed, field by field.
LEMMA RingUpdate ==
    ASSUME NEW r, NEW h, NEW n, NEW m,
           r = [head |-> r.head, len |-> r.len, items |-> r.items]
    PROVE  /\ [r EXCEPT !.len = n, !.items = m] = [head |-> r.head, len |-> n, items |-> m]
           /\ [r EXCEPT !.head = h, !.len = n] = [head |-> h, len |-> n, items |-> r.items]
<1>1. [r EXCEPT !.len = n] = [head |-> r.head, len |-> n, items |-> r.items]
  OBVIOUS
<1>2. [r EXCEPT !.head = h] = [head |-> h, len |-> r.len, items |-> r.items]
  OBVIOUS
<1>3. /\ [r EXCEPT !.len = n, !.items = m] = [[r EXCEPT !.len = n] EXCEPT !.items = m]
      /\ [r EXCEPT !.head = h, !.len = n] = [[r EXCEPT !.head = h] EXCEPT !.len = n]
  OBVIOUS
<1>4. /\ [[head |-> r.head, len |-> n, items |-> r.items] EXCEPT !.items = m]
            = [head |-> r.head, len |-> n, items |-> m]
      /\ [[head |-> h, len |-> r.len, items |-> r.items] EXCEPT !.len = n]
            = [head |-> h, len |-> n, items |-> r.items]
  OBVIOUS
<1> QED BY <1>1, <1>2, <1>3, <1>4

LEMMA RingContents ==
    ASSUME NEW S, NEW r \in U!Rings(S)
    PROVE  /\ U!Contents(r) \in Seq(S)
           /\ Len(U!Contents(r)) = r.len
           /\ r.len \in 0..Cap /\ Cap \in Nat \ {0} /\ r.head \in 0..(Cap - 1)
           /\ \A i \in 0..Cap : U!Slot(r, i) \in U!Places
           /\ \A i \in 1..r.len : U!Contents(r)[i] = r.items[U!Slot(r, i - 1)]
<1>1. r.len \in 0..Cap /\ Cap \in Nat \ {0} /\ r.head \in 0..(Cap - 1)
  BY NetworkConstants DEF U!Rings, U!Places
<1>2. \A i \in 0..Cap : U!Slot(r, i) \in U!Places
  BY <1>1 DEF U!Slot, U!Places
<1>3. \A i \in 1..r.len : r.items[U!Slot(r, i - 1)] \in S
  BY <1>1, <1>2 DEF U!Rings
<1> QED BY <1>1, <1>2, <1>3 DEF U!Contents

\* An item that is put into the ring is the last of the queue.
LEMMA PutLast ==
    ASSUME NEW S, NEW r \in U!Rings(S), NEW p \in S, r.len < Cap
    PROVE  /\ U!PutItem(r, p) \in U!Rings(S)
           /\ U!PutItem(r, p).len = r.len + 1
           /\ U!Contents(U!PutItem(r, p)) = Append(U!Contents(r), p)
           /\ r.len > 0 => U!FirstItem(U!PutItem(r, p)) = U!FirstItem(r)
<1> DEFINE q == U!PutItem(r, p)
           last == U!Slot(r, r.len)
<1>1. /\ r.len \in 0..Cap /\ Cap \in Nat \ {0} /\ r.head \in 0..(Cap - 1)
      /\ last \in U!Places
  BY RingContents
<1>2. /\ q.head = r.head /\ q.len = r.len + 1 /\ q.items = [r.items EXCEPT ![last] = p]
      /\ r.items \in [U!Places -> S]
      /\ q = [head |-> q.head, len |-> q.len, items |-> q.items]
  <2>1. r = [head |-> r.head, len |-> r.len, items |-> r.items]
        /\ r.items \in [U!Places -> S]
    BY DEF U!Rings
  <2> DEFINE n == r.len + 1
             m == [r.items EXCEPT ![last] = p]
  <2>2. [r EXCEPT !.len = n, !.items = m] = [head |-> r.head, len |-> n, items |-> m]
    <3> HIDE DEF n, m
    <3> QED BY <2>1, RingUpdate
  <2>3. q = [head |-> r.head, len |-> n, items |-> m]
    BY <2>2 DEF U!PutItem
  <2> QED BY <2>1, <2>3
<1>3. q \in U!Rings(S)
  BY <1>1, <1>2 DEF U!Rings, U!Places
<1>4. \A i \in 0..(r.len - 1) : U!Slot(r, i) \in U!Places /\ U!Slot(r, i) # last
  BY <1>1 DEF U!Slot, U!Places
<1>5. \A i \in 0..r.len : U!Slot(q, i) = U!Slot(r, i)
  BY <1>2 DEF U!Slot
<1> HIDE DEF q, last
<1>q. /\ U!Contents(q) \in Seq(S) /\ Len(U!Contents(q)) = q.len
      /\ \A i \in 1..q.len : U!Contents(q)[i] = q.items[U!Slot(q, i - 1)]
  BY <1>3, RingContents
<1>r. /\ U!Contents(r) \in Seq(S) /\ Len(U!Contents(r)) = r.len
      /\ \A i \in 1..r.len : U!Contents(r)[i] = r.items[U!Slot(r, i - 1)]
  BY RingContents
<1>6. \A i \in 1..(r.len + 1) :
        U!Contents(q)[i] = IF i = r.len + 1 THEN p ELSE U!Contents(r)[i]
  <2>1. TAKE i \in 1..(r.len + 1)
  <2>2. U!Contents(q)[i] = q.items[U!Slot(r, i - 1)]
    <3>1. r.len \in Nat /\ q.len = r.len + 1
      BY <1>1, <1>2
    <3>2. i \in 1..q.len /\ i - 1 \in 0..r.len
      BY <3>1
    <3> QED BY <1>5, <1>q, <3>2
  <2>3. CASE i = r.len + 1
    BY <1>1, <1>2, <2>2, <2>3 DEF last
  <2>4. CASE i # r.len + 1
    <3>1. U!Contents(r)[i] = r.items[U!Slot(r, i - 1)] /\ i - 1 \in 0..(r.len - 1)
      BY <1>1, <2>4, <1>r
    <3> QED BY <1>1, <1>2, <1>4, <2>2, <2>4, <3>1
  <2> QED BY <2>3, <2>4
<1>7. U!Contents(q) = Append(U!Contents(r), p)
  BY <1>1, <1>2, <1>6, <1>q, <1>r, IsAppend
<1>8. r.len > 0 => U!FirstItem(q) = U!FirstItem(r)
  <2>1. U!Slot(r, 0) = r.head
    BY <1>1 DEF U!Slot
  <2> QED BY <1>1, <1>2, <1>4, <2>1 DEF U!FirstItem
<1> QED BY <1>2, <1>3, <1>7, <1>8 DEF q

\* The item that is taken is the first of the queue.
LEMMA TakeFirst ==
    ASSUME NEW S, NEW r \in U!Rings(S), r.len > 0
    PROVE  /\ U!TakeItem(r) \in U!Rings(S)
           /\ U!TakeItem(r).len = r.len - 1
           /\ U!Contents(r) # <<>>
           /\ U!Contents(U!TakeItem(r)) = Tail(U!Contents(r))
           /\ U!FirstItem(r) = U!Contents(r)[1]
<1> DEFINE q == U!TakeItem(r)
<1>1. r.len \in 1..Cap /\ Cap \in Nat \ {0} /\ r.head \in 0..(Cap - 1)
  BY RingContents
<1>2. /\ q.head = IF r.head + 1 = Cap THEN 0 ELSE r.head + 1
      /\ q.len = r.len - 1 /\ q.items = r.items
      /\ q = [head |-> q.head, len |-> q.len, items |-> q.items]
      /\ r.items \in [U!Places -> S]
  <2>1. r = [head |-> r.head, len |-> r.len, items |-> r.items]
        /\ r.items \in [U!Places -> S]
    BY DEF U!Rings
  <2> DEFINE h == IF r.head + 1 = Cap THEN 0 ELSE r.head + 1
             n == r.len - 1
  <2>2. [r EXCEPT !.head = h, !.len = n] = [head |-> h, len |-> n, items |-> r.items]
    <3> HIDE DEF h, n
    <3> QED BY <2>1, RingUpdate
  <2>3. q = [head |-> h, len |-> n, items |-> r.items]
    BY <2>2 DEF U!TakeItem
  <2> QED BY <2>1, <2>3
<1>3. q \in U!Rings(S)
  BY <1>1, <1>2 DEF U!Rings, U!Places
<1>4. \A i \in 0..(r.len - 2) : U!Slot(q, i) = U!Slot(r, i + 1)
  BY <1>1, <1>2 DEF U!Slot
<1>5. U!Slot(r, 0) = r.head
  BY <1>1 DEF U!Slot
<1> HIDE DEF q
<1>q. /\ U!Contents(q) \in Seq(S) /\ Len(U!Contents(q)) = q.len
      /\ \A i \in 1..q.len : U!Contents(q)[i] = q.items[U!Slot(q, i - 1)]
  BY <1>3, RingContents
<1>r. /\ U!Contents(r) \in Seq(S) /\ Len(U!Contents(r)) = r.len
      /\ \A i \in 1..r.len : U!Contents(r)[i] = r.items[U!Slot(r, i - 1)]
  BY RingContents
<1>6. \A i \in 1..(r.len - 1) : U!Contents(q)[i] = U!Contents(r)[i + 1]
  <2>1. TAKE i \in 1..(r.len - 1)
  <2>2. U!Contents(q)[i] = r.items[U!Slot(q, i - 1)]
    BY <1>1, <1>2, <1>q
  <2>3. U!Contents(r)[i + 1] = r.items[U!Slot(r, i)]
    BY <1>1, <1>r
  <2>4. U!Slot(q, i - 1) = U!Slot(r, i)
    BY <1>1, <1>4
  <2> QED BY <2>2, <2>3, <2>4
<1>7. U!Contents(q) = Tail(U!Contents(r)) /\ U!Contents(r) # <<>>
  BY <1>1, <1>2, <1>6, <1>q, <1>r
<1>8. U!FirstItem(r) = U!Contents(r)[1]
  BY <1>1, <1>5, <1>r DEF U!FirstItem
<1> QED BY <1>2, <1>3, <1>7, <1>8 DEF q

-----------------------------------------------------------------------------
(* UdpSocket. *)

UdpItems == U!Packets \cup {0}

\* The packets that were returned and those that are in the queue.
Seen == given \o U!Contents(ring)

UdpTypeInv ==
    /\ open \in BOOLEAN /\ timed \in BOOLEAN /\ late \in BOOLEAN
    /\ arrived \in 0..MaxPackets
    /\ ring \in U!Rings(UdpItems)
    /\ event \in {"disabled", "enabled", "pending"}
    /\ upc \in {"lua", "copy", "advance", "empty", "suspended", "ready"}
    /\ kept \in Seq(UdpItems) /\ given \in Seq(UdpItems)

\* The queue of a socket that is open ends with the packet kept last.
UdpQueueInv ==
    /\ Seen = SubSeq(kept, 1, Len(Seen))
    /\ open => Seen = kept
    /\ ~open => ring.len = 0
    /\ Distinct(Seen)
    /\ Elements(Seen) \cup freed = 1..arrived
    /\ Elements(Seen) \cap freed = {}

\* The packet that recv_loop() has seen is still there when it copies it, and
\* the same when it takes it; one that it has not seen has set the event.
UdpWaitInv ==
    /\ event = "disabled" <=> ~open
    /\ upc \in {"copy", "advance"} => ring.len > 0
    /\ upc = "advance" => packet = U!FirstItem(ring)
    /\ upc \in {"empty", "suspended"} /\ ring.len > 0 => event = "pending"

UdpIInv == UdpTypeInv /\ UdpQueueInv /\ UdpWaitInv

LEMMA SameCardinality == ASSUME NEW S PROVE U!Cardinality(S) = Cardinality(S)
  BY DEF U!Cardinality, Cardinality

LEMMA DisjointCardinality ==
    ASSUME NEW A, NEW B, IsFiniteSet(A), IsFiniteSet(B), A \cap B = {}
    PROVE  Cardinality(A \cup B) = Cardinality(A) + Cardinality(B)
<1>1. Cardinality(A \cup B) = Cardinality(A) + Cardinality(B) - Cardinality(A \cap B)
  BY FS_Union
<1>3. Cardinality(A) \in Nat /\ Cardinality(B) \in Nat
  BY FS_CardinalityType
<1>2. Cardinality({}) = 0
  BY FS_EmptySet
<1>4. Cardinality(A \cap B) = 0
  BY <1>2
<1> QED BY <1>1, <1>3, <1>4

LEMMA UdpQueueLength ==
    ASSUME UdpTypeInv
    PROVE  /\ U!Contents(ring) \in Seq(UdpItems)
           /\ Len(U!Contents(ring)) = ring.len /\ ring.len \in 0..Cap
           /\ Seen \in Seq(UdpItems) /\ Len(Seen) = Len(given) + ring.len
<1>1. /\ U!Contents(ring) \in Seq(UdpItems)
      /\ Len(U!Contents(ring)) = ring.len /\ ring.len \in 0..Cap
  BY RingContents DEF UdpTypeInv
<1>2. given \in Seq(UdpItems)
  BY DEF UdpTypeInv
<1> QED BY <1>1, <1>2 DEF Seen

LEMMA UdpInitInv == U!Init => UdpIInv
<1> SUFFICES ASSUME U!Init PROVE UdpIInv
  OBVIOUS
<1>1. Cap \in Nat \ {0} /\ MaxPackets \in Nat
  BY NetworkConstants
<1>2. UdpTypeInv
  <2>1. ring \in U!Rings(UdpItems)
    BY <1>1 DEF U!Init, U!Rings, U!Places, U!NoItems, UdpItems
  <2>2. kept \in Seq(UdpItems) /\ given \in Seq(UdpItems)
    BY DEF U!Init
  <2>3. arrived \in 0..MaxPackets
    BY <1>1 DEF U!Init
  <2> QED BY <2>1, <2>2, <2>3 DEF U!Init, UdpTypeInv
<1>3. U!Contents(ring) = <<>>
  BY DEF U!Init, U!Contents
<1>4. Seen = <<>> /\ kept = <<>> /\ ring.len = 0 /\ freed = {} /\ arrived = 0
  BY <1>3 DEF Seen, U!Init
<1>5. UdpQueueInv
  BY <1>4, EmptyQueue DEF UdpQueueInv
<1>6. UdpWaitInv
  BY <1>4 DEF U!Init, UdpWaitInv
<1> QED BY <1>2, <1>5, <1>6 DEF UdpIInv

\* A packet arrives: it is kept, or freed when the queue is full.
LEMMA UdpArrivalInv == ASSUME UdpIInv, U!handle_recv PROVE UdpIInv'
<1> DEFINE a == arrived + 1
<1>1. /\ arrived \in 0..MaxPackets /\ MaxPackets \in Nat /\ a \in U!Packets
      /\ arrived' = a /\ a \notin 1..arrived /\ 1..a = (1..arrived) \cup {a}
      /\ open /\ Seen = kept /\ Elements(Seen) \subseteq 1..arrived
      /\ UNCHANGED <<open, upc, timed, late, packet, given>>
  <2>1. MaxPackets \in Nat /\ arrived \in 0..MaxPackets /\ arrived < MaxPackets
    BY NetworkConstants DEF U!handle_recv, UdpIInv, UdpTypeInv
  <2>2. /\ arrived' = a /\ open
        /\ UNCHANGED <<open, upc, timed, late, packet, given>>
    BY DEF U!handle_recv, U!udpThread
  <2>3. open => Seen = kept /\ Elements(Seen) \subseteq 1..arrived
    BY DEF UdpIInv, UdpQueueInv
  <2>4. a \in U!Packets /\ a \notin 1..arrived /\ 1..a = (1..arrived) \cup {a}
    BY <2>1 DEF U!Packets
  <2> QED BY <2>1, <2>2, <2>3, <2>4
<1>2. CASE U!Full(ring)
  <2>1. freed' = freed \cup {a} /\ UNCHANGED <<ring, event, kept>>
    BY <1>1, <1>2 DEF U!handle_recv
  <2>2. UNCHANGED Seen
    BY <1>1, <2>1 DEF Seen
  <2>3. UdpTypeInv' /\ UdpWaitInv'
    BY <1>1, <2>1 DEF UdpIInv, UdpTypeInv, UdpWaitInv, U!Packets
  <2>4. UdpQueueInv'
    BY <1>1, <2>1, <2>2 DEF UdpIInv, UdpQueueInv
  <2> QED BY <2>3, <2>4 DEF UdpIInv
<1>3. CASE ~U!Full(ring)
  <2>1. /\ ring' = U!PutItem(ring, a) /\ kept' = Append(kept, a) /\ freed' = freed
        /\ event' = IF event = "disabled" THEN event ELSE "pending"
    BY <1>1, <1>3 DEF U!handle_recv, U!Set
  <2>2. ring \in U!Rings(UdpItems) /\ ring.len < Cap /\ a \in UdpItems
        /\ Cap \in Nat \ {0} /\ ring.len \in 0..Cap
    BY <1>1, <1>3, UdpQueueLength, NetworkConstants DEF UdpIInv, UdpTypeInv, U!Full, UdpItems
  <2>3. /\ ring' \in U!Rings(UdpItems)
        /\ ring'.len = ring.len + 1
        /\ U!Contents(ring)' = Append(U!Contents(ring), a)
        /\ ring.len > 0 => U!FirstItem(ring)' = U!FirstItem(ring)
    BY <2>1, <2>2, PutLast
  <2>4. UdpTypeInv'
    <3>1. kept' \in Seq(UdpItems)
      BY <2>1, <2>2 DEF UdpIInv, UdpTypeInv
    <3>2. arrived' \in 0..MaxPackets
      BY <1>1 DEF U!Packets
    <3> QED BY <1>1, <2>1, <2>3, <3>1, <3>2 DEF UdpIInv, UdpTypeInv
  <2>5. Seen' = Append(Seen, a)
    <3>1. given \o Append(U!Contents(ring), a) = Append(given \o U!Contents(ring), a)
      <4> DEFINE c == U!Contents(ring)
      <4>1. c \in Seq(UdpItems) /\ given \in Seq(UdpItems) /\ a \in UdpItems
        BY <2>2, UdpQueueLength DEF UdpIInv, UdpTypeInv
      <4> HIDE DEF c, a
      <4> QED BY <4>1, AppendToConcat DEF c
    <3> QED BY <1>1, <2>3, <3>1 DEF Seen
  <2>6. /\ Seen' \in Seq(UdpItems) /\ Distinct(Seen')
        /\ Elements(Seen') = Elements(Seen) \cup {a}
    <3>1. a \notin Elements(Seen) /\ Seen \in Seq(UdpItems)
      BY <1>1, UdpQueueLength DEF UdpIInv
    <3> QED BY <2>2, <2>5, <3>1, AppendNew DEF UdpIInv, UdpQueueInv
  <2>7. Seen' = kept'
    BY <1>1, <2>1, <2>5
  <2>8. kept' = SubSeq(kept', 1, Len(kept'))
    BY <1>1, <2>6, <2>7, SubSeqFull
  <2>9. UdpQueueInv'
    BY <1>1, <2>1, <2>6, <2>7, <2>8 DEF UdpIInv, UdpQueueInv
  <2>10. UdpWaitInv'
    BY <1>1, <2>1, <2>2, <2>3, UdpQueueLength DEF UdpIInv, UdpWaitInv
  <2> QED BY <2>4, <2>9, <2>10 DEF UdpIInv
<1> QED BY <1>2, <1>3

\* A packet is taken: the first of the queue, which has been copied.
LEMMA UdpTakeInv ==
    ASSUME UdpIInv, U!Advance
    PROVE  UdpIInv' /\ U!Contents(ring) # <<>> /\ U!Contents(ring)' = Tail(U!Contents(ring))
<1>1. /\ upc = "advance" /\ upc' = "lua" /\ ring' = U!TakeItem(ring)
      /\ given' = Append(given, packet)
      /\ UNCHANGED <<open, event, timed, late, arrived, kept, freed>>
  BY DEF U!Advance
<1>2. ring \in U!Rings(UdpItems) /\ ring.len > 0 /\ packet = U!FirstItem(ring)
  BY <1>1 DEF UdpIInv, UdpTypeInv, UdpWaitInv
<1>3. /\ ring' \in U!Rings(UdpItems)
      /\ ring'.len = ring.len - 1
      /\ U!Contents(ring) # <<>>
      /\ U!Contents(ring)' = Tail(U!Contents(ring))
      /\ packet = U!Contents(ring)[1]
  BY <1>1, <1>2, TakeFirst
<1> DEFINE q == U!Contents(ring)
<1>4. /\ q \in Seq(UdpItems) /\ given \in Seq(UdpItems)
      /\ q # <<>> /\ Len(Seen) = Len(given) + Len(q) /\ Len(q) > 0
  BY <1>2, <1>3, UdpQueueLength DEF UdpIInv, UdpTypeInv
<1> HIDE DEF q
<1>5. Append(given, q[1]) \o Tail(q) = given \o q
  BY <1>4, MoveFirst
<1>6. Seen' = Seen
  BY <1>1, <1>3, <1>5 DEF Seen, q
<1>7. packet \in UdpItems
  BY <1>3, <1>4 DEF q
<1>8. UdpTypeInv'
  BY <1>1, <1>3, <1>7 DEF UdpIInv, UdpTypeInv
<1>9. UdpQueueInv' /\ UdpWaitInv'
  BY <1>1, <1>2, <1>3, <1>6 DEF UdpIInv, UdpQueueInv, UdpWaitInv
<1> QED BY <1>3, <1>8, <1>9 DEF UdpIInv

\* close() frees what is in the queue.
LEMMA UdpCloseInv ==
    ASSUME UdpIInv, U!UDP_close
    PROVE  UdpIInv' /\ U!Contents(ring)' = <<>>
<1> DEFINE q == U!Contents(ring)
<1>1. /\ open /\ upc \in {"lua", "suspended", "ready"}
      /\ open' = FALSE /\ event' = "disabled"
      /\ freed' = freed \cup {q[i] : i \in 1..ring.len}
      /\ UNCHANGED <<upc, timed, late, packet, arrived, kept, given>>
  BY DEF U!UDP_close, U!Freed, U!udpThread
<1>2. ring' \in U!Rings(UdpItems) /\ ring'.len = 0
  <2>1. ring \in U!Rings(UdpItems) /\ U!Slot(ring, ring.len) \in U!Places /\ 0 \in 0..Cap
    BY RingContents DEF UdpIInv, UdpTypeInv
  <2>2. ring = [head |-> ring.head, len |-> ring.len, items |-> ring.items]
        /\ ring.items \in [U!Places -> UdpItems]
    BY <2>1 DEF U!Rings
  <2>3. ring' = [head |-> U!Slot(ring, ring.len), len |-> 0, items |-> ring.items]
    BY <2>2, RingUpdate DEF U!UDP_close
  <2> QED BY <2>1, <2>2, <2>3 DEF U!Rings
<1>3. U!Contents(ring)' = <<>>
  BY <1>2 DEF U!Contents
<1>4. /\ q \in Seq(UdpItems) /\ given \in Seq(UdpItems)
      /\ Len(q) = ring.len /\ Len(Seen) = Len(given) + Len(q)
  BY UdpQueueLength DEF UdpIInv, UdpTypeInv
<1>5. Elements(q) = {q[i] : i \in 1..ring.len}
  BY <1>4 DEF Elements
<1> HIDE DEF q
<1>6. Seen' = given
  BY <1>1, <1>3, <1>4 DEF Seen
<1>7. /\ Distinct(given) /\ Elements(given) \cap Elements(q) = {}
      /\ Elements(Seen) = Elements(given) \cup Elements(q)
  BY <1>4, ConcatParts DEF UdpIInv, UdpQueueInv, Seen, q
<1>8. given = SubSeq(kept, 1, Len(given))
  <2>1. Seen = kept /\ kept = given \o q
    BY <1>1 DEF UdpIInv, UdpQueueInv, Seen, q
  <2> QED BY <1>4, <2>1, SubSeqOfConcat1, SubSeqFull
<1>10. UdpTypeInv'
  BY <1>1, <1>2 DEF UdpIInv, UdpTypeInv
<1>11. UdpQueueInv'
  BY <1>1, <1>2, <1>4, <1>5, <1>6, <1>7, <1>8 DEF UdpIInv, UdpQueueInv, q
<1>12. UdpWaitInv'
  BY <1>1, <1>2 DEF UdpIInv, UdpWaitInv
<1> QED BY <1>3, <1>10, <1>11, <1>12 DEF UdpIInv

\* The other steps leave the queue and the packets alone.
LEMMA UdpCallInv ==
    ASSUME UdpIInv,
           U!UDP_recv \/ U!Suspend \/ U!Again \/ U!Copy \/ U!Dispatch \/ U!Timer
    PROVE  UdpIInv' /\ UNCHANGED U!Contents(ring)
<1>1. UNCHANGED <<open, ring, arrived, kept, given, freed>>
  BY DEF U!UDP_recv, U!Suspend, U!Again, U!Copy, U!Dispatch, U!Timer, U!Test
<1>2. UNCHANGED <<Seen, U!Contents(ring)>>
  BY <1>1 DEF Seen
<1>3. UdpTypeInv'
  BY <1>1 DEF UdpIInv, UdpTypeInv, U!UDP_recv, U!Suspend, U!Again, U!Copy, U!Dispatch,
              U!Timer, U!Test
<1>4. UdpQueueInv'
  BY <1>1, <1>2 DEF UdpIInv, UdpQueueInv
<1>5. UdpWaitInv'
  BY <1>1, UdpQueueLength DEF UdpIInv, UdpTypeInv, UdpWaitInv, U!UDP_recv, U!Suspend, U!Again, U!Copy,
              U!Dispatch, U!Timer, U!Test
<1> QED BY <1>2, <1>3, <1>4, <1>5 DEF UdpIInv

LEMMA UdpMoves == [NextAll]_all => [U!Next]_U!vars
  BY DEF NextAll, all, Step, Unmoved, udp, U!vars, U!udpThread

LEMMA UdpStepInv == UdpIInv /\ [U!Next]_U!vars => UdpIInv'
<1> SUFFICES ASSUME UdpIInv, [U!Next]_U!vars PROVE UdpIInv'
  OBVIOUS
<1>1. CASE UNCHANGED U!vars
  BY <1>1 DEF U!vars, U!udpThread, UdpIInv, UdpTypeInv, UdpQueueInv, UdpWaitInv, Seen
<1>2. CASE U!Next
  BY <1>2, UdpArrivalInv, UdpTakeInv, UdpCloseInv, UdpCallInv DEF U!Next
<1> QED BY <1>1, <1>2

THEOREM UdpInvariance == SpecAll => []UdpIInv
<1>1. InitAll => UdpIInv
  BY UdpInitInv DEF InitAll
<1>2. UdpIInv /\ [NextAll]_all => UdpIInv'
  BY UdpStepInv, UdpMoves
<1> QED BY <1>1, <1>2, PTL DEF SpecAll

\* Each datagram that arrives is returned to Lua, in order, or is in the
\* queue, or was freed, and only one of these; and the receiver is told of
\* those in the queue: for every capacity and any number of datagrams.
THEOREM UdpCorrect == SpecAll => []UdpPackets
<1>1. ASSUME UdpIInv PROVE UdpPackets
  <2> DEFINE q == U!Contents(ring)
             inLua == {given[i] : i \in DOMAIN given}
             queued == {q[i] : i \in 1..ring.len}
  <2>1. /\ q \in Seq(UdpItems) /\ given \in Seq(UdpItems)
        /\ Len(q) = ring.len /\ Len(Seen) = Len(given) + Len(q)
    BY <1>1, UdpQueueLength DEF UdpIInv, UdpTypeInv
  <2>2. inLua = Elements(given) /\ queued = Elements(q)
    BY <2>1 DEF Elements
  <2> HIDE DEF q
  <2>3. /\ inLua \cap queued = {}
        /\ Elements(Seen) = inLua \cup queued
    BY <1>1, <2>1, <2>2, ConcatParts DEF UdpIInv, UdpQueueInv, Seen, q
  <2>4. inLua \cup queued \cup freed = 1..arrived
    BY <1>1, <2>3 DEF UdpIInv, UdpQueueInv
  <2>5. IsFiniteSet(1..arrived) /\ Cardinality(1..arrived) = arrived
    BY <1>1, FS_Interval, NetworkConstants DEF UdpIInv, UdpTypeInv
  <2> HIDE DEF inLua, queued
  <2>6. IsFiniteSet(inLua) /\ IsFiniteSet(queued) /\ IsFiniteSet(freed)
    BY <2>4, <2>5, FS_Subset
  <2>7. Cardinality(inLua \cup queued) = Cardinality(inLua) + Cardinality(queued)
    BY <2>3, <2>6, DisjointCardinality
  <2>8. Cardinality((inLua \cup queued) \cup freed)
           = Cardinality(inLua \cup queued) + Cardinality(freed)
    <3>1. (inLua \cup queued) \cap freed = {} /\ IsFiniteSet(inLua \cup queued)
      BY <1>1, <2>3, <2>6, FS_Union DEF UdpIInv, UdpQueueInv
    <3> QED BY <2>6, <3>1, DisjointCardinality
  <2>9. Cardinality(inLua) + Cardinality(queued) + Cardinality(freed) = arrived
    BY <2>4, <2>5, <2>7, <2>8
  <2>10. U!EachPacketOnce
    BY <2>4, <2>9, SameCardinality DEF U!EachPacketOnce, inLua, queued, q
  <2>11. U!ReceivedInOrder
    BY <1>1, <2>1 DEF UdpIInv, UdpQueueInv, Seen, U!ReceivedInOrder, q
  <2>12. U!ReceiverIsTold
    BY <1>1 DEF UdpIInv, UdpWaitInv, U!ReceiverIsTold
  <2> QED BY <2>10, <2>11, <2>12 DEF UdpPackets
<1> QED BY <1>1, UdpInvariance, PTL

\* The ring of a UDP socket is a bounded FIFO that keeps the oldest packets.
THEOREM UdpRefinesFifo == SpecAll => UdpImplementsFifo
<1>1. InitAll => U!Fifo!Init
  <2> SUFFICES ASSUME InitAll PROVE U!Fifo!Init
    OBVIOUS
  <2>1. ring.len = 0
    BY DEF InitAll, U!Init
  <2> QED BY <2>1 DEF U!Fifo!Init, U!Contents
<1>2. UdpIInv /\ [NextAll]_all => [U!Fifo!Next]_(U!Contents(ring))
  <2> SUFFICES ASSUME UdpIInv, [U!Next]_U!vars
               PROVE  [U!Fifo!Next]_(U!Contents(ring))
    BY UdpMoves
  <2>1. CASE UNCHANGED U!vars
    BY <2>1 DEF U!vars
  <2>2. CASE U!handle_recv
    <3>1. CASE U!Full(ring)
      BY <2>2, <3>1 DEF U!handle_recv
    <3>2. CASE ~U!Full(ring)
      <4>1. /\ ring' = U!PutItem(ring, arrived + 1) /\ arrived + 1 \in U!Packets
            /\ arrived + 1 \in UdpItems
            /\ ring \in U!Rings(UdpItems) /\ ring.len < Cap
            /\ Len(U!Contents(ring)) = ring.len
        BY <2>2, <3>2, UdpQueueLength, NetworkConstants
        DEF U!handle_recv, U!Full, U!Packets, UdpItems, UdpIInv, UdpTypeInv
      <4>2. U!Contents(ring)' = Append(U!Contents(ring), arrived + 1)
        BY <4>1, PutLast
      <4> QED BY <4>1, <4>2 DEF U!Fifo!Next, U!Fifo!Put
    <3> QED BY <3>1, <3>2
  <2>3. CASE U!Advance
    BY <2>3, UdpTakeInv DEF U!Fifo!Next, U!Fifo!Take
  <2>4. CASE U!UDP_close
    BY <2>4, UdpCloseInv DEF U!Fifo!Next, U!Fifo!Clear
  <2>5. CASE U!UDP_recv \/ U!Suspend \/ U!Again \/ U!Copy \/ U!Dispatch \/ U!Timer
    BY <2>5, UdpCallInv
  <2> QED BY <2>1, <2>2, <2>3, <2>4, <2>5 DEF U!Next
<1> QED BY <1>1, <1>2, UdpInvariance, PTL DEF SpecAll, UdpImplementsFifo, U!ImplementsFifo, U!Fifo!Spec

-----------------------------------------------------------------------------
(* WifiScan. *)

\* The ring of a scan is that of a socket.
LEMMA SameRing ==
    /\ \A S : W!Rings(S) = U!Rings(S)
    /\ \A r : W!Contents(r) = U!Contents(r) /\ W!FirstItem(r) = U!FirstItem(r)
    /\ \A r : W!TakeItem(r) = U!TakeItem(r) /\ (W!Full(r) <=> U!Full(r))
    /\ \A r, p : W!PutItem(r, p) = U!PutItem(r, p)
<1>1. \A r, i : W!Slot(r, i) = U!Slot(r, i)
  BY DEF W!Slot, U!Slot
<1>2. \A S : W!Rings(S) = U!Rings(S)
  BY DEF W!Rings, U!Rings, W!Places, U!Places
<1>3. \A r : W!Contents(r) = U!Contents(r)
  BY <1>1 DEF W!Contents, U!Contents
<1>4. \A r : /\ W!FirstItem(r) = U!FirstItem(r) /\ W!TakeItem(r) = U!TakeItem(r)
             /\ W!Full(r) <=> U!Full(r)
  BY DEF W!FirstItem, U!FirstItem, W!TakeItem, U!TakeItem, W!Full, U!Full
<1>5. \A r, p : W!PutItem(r, p) = U!PutItem(r, p)
  BY <1>1 DEF W!PutItem, U!PutItem
<1> QED BY <1>2, <1>3, <1>4, <1>5

LEMMA SubtractModulus ==
    ASSUME NEW w \in Nat \ {0}, NEW a \in Int
    PROVE  (a - w) % w = a % w
<1> DEFINE k == a \div w
           r == a % w
<1>1. k \in Int /\ r \in 0..(w - 1) /\ a = (w * k) + r
  OBVIOUS
<1> HIDE DEF k, r
<1>2. a - w = (w * (k - 1)) + r /\ k - 1 \in Int
  BY <1>1
<1>3. ASSUME NEW b \in Int, NEW j \in Int, NEW q \in 0..(w - 1), b = (w * j) + q
      PROVE  b % w = q
  BY <1>3
<1>4. (a - w) % w = r
  BY <1>1, <1>2, <1>3
<1> QED BY <1>4 DEF r

LEMMA CountUp ==
    ASSUME NEW w \in Nat \ {0}, NEW d \in 0..(w - 1)
    PROVE  (d + 1) % w = IF d + 1 = w THEN 0 ELSE d + 1
  OBVIOUS

ScanTypeInv ==
    /\ scan_queue \in BOOLEAN /\ live \in BOOLEAN /\ active \in BOOLEAN
    /\ squeue \in U!Rings(Nat)
    /\ dropped \in 0..(Wrap - 1) /\ lost \in Nat /\ results \in Nat
    /\ returned \in Seq(Nat)

\* The iterator keeps the queue until it is closed or dropped.
ScanLiveInv ==
    /\ active => scan_queue
    /\ scan_queue => live \/ iter \in {"dropped", "failed"}
    /\ iter = "none" => ~scan_queue /\ ~active
    /\ iter \in {"lua", "loop", "suspended", "ready"} => scan_queue /\ live

\* The results that were returned and those that are in the queue.
ScanSeen == returned \o U!Contents(squeue)

\* Between two scans, too, what was dropped is counted.
ScanCountInv ==
    /\ \A i \in DOMAIN ScanSeen : ScanSeen[i] <= results
    /\ \A i, j \in DOMAIN ScanSeen : i < j => ScanSeen[i] < ScanSeen[j]
    /\ (Len(ScanSeen) + dropped + lost - results) % Wrap = 0

ScanIInv == ScanTypeInv /\ ScanLiveInv /\ ScanCountInv

LEMMA ScanSequences ==
    ASSUME ScanTypeInv
    PROVE  /\ U!Contents(squeue) \in Seq(Nat) /\ Len(U!Contents(squeue)) = squeue.len
           /\ squeue.len \in 0..Cap
           /\ ScanSeen \in Seq(Nat) /\ Len(ScanSeen) = Len(returned) + squeue.len
<1>1. /\ U!Contents(squeue) \in Seq(Nat)
      /\ Len(U!Contents(squeue)) = squeue.len /\ squeue.len \in 0..Cap
  BY RingContents DEF ScanTypeInv
<1>2. returned \in Seq(Nat)
  BY DEF ScanTypeInv
<1>3. /\ ScanSeen \in Seq(Nat)
      /\ Len(ScanSeen) = Len(returned) + Len(U!Contents(squeue))
  BY <1>1, <1>2, ConcatProperties DEF ScanSeen
<1> QED BY <1>1, <1>3

LEMMA ScanEmpty ==
    /\ W!Empty \in U!Rings(Nat) /\ U!Contents(W!Empty) = <<>> /\ 0 % Wrap = 0
    /\ Wrap \in Nat \ {0}
<1>1. Cap \in Nat \ {0} /\ Wrap \in Nat \ {0}
  BY NetworkConstants
<1>2. W!Empty \in U!Rings(Nat) /\ W!Empty.len = 0
  BY <1>1 DEF W!Empty, W!NoItems, W!Places, U!Rings, U!Places
<1>3. U!Contents(W!Empty) = <<>>
  BY <1>2 DEF U!Contents
<1>4. 0 % Wrap = 0
  BY <1>1
<1> QED BY <1>1, <1>2, <1>3, <1>4

LEMMA ScanInitInv == W!Init => ScanIInv
<1> SUFFICES ASSUME W!Init PROVE ScanIInv
  OBVIOUS
<1>1. ScanTypeInv /\ ScanSeen = <<>>
  <2>1. /\ squeue = W!Empty /\ dropped = 0 /\ results = 0 /\ returned = <<>>
        /\ lost = 0 /\ scan_queue \in BOOLEAN /\ live \in BOOLEAN /\ active \in BOOLEAN
    BY DEF W!Init
  <2> QED BY <2>1, ScanEmpty DEF ScanTypeInv, ScanSeen
<1> QED BY <1>1, ScanEmpty DEF W!Init, ScanIInv, ScanLiveInv, ScanCountInv

\* mod_scan() makes a new queue, and has nothing to count.
LEMMA ScanOpenInv == ASSUME ScanIInv, W!mod_scan PROVE ScanIInv'
<1>1. /\ squeue' = W!Empty /\ dropped' = 0 /\ results' = 0 /\ returned' = <<>>
      /\ lost' = 0 /\ scan_queue' \in BOOLEAN /\ live' \in BOOLEAN /\ active' \in BOOLEAN
  BY DEF W!mod_scan, ScanIInv, ScanTypeInv
<1>2. ScanTypeInv' /\ ScanSeen' = <<>>
  BY <1>1, ScanEmpty DEF ScanTypeInv, ScanSeen
<1>3. ScanCountInv'
  BY <1>1, <1>2, ScanEmpty DEF ScanCountInv
<1>4. ScanLiveInv'
  BY DEF W!mod_scan, ScanIInv, ScanLiveInv
<1> QED BY <1>2, <1>3, <1>4 DEF ScanIInv

\* A result is put into the queue, or counted when the queue is full.
LEMMA ScanResultInv == ASSUME ScanIInv, W!handle_scan_result PROVE ScanIInv'
<1>1. /\ active /\ scan_queue /\ results' = results + 1
      /\ UNCHANGED <<scan_queue, live, active, iter, returned, lost>>
  BY DEF W!handle_scan_result, ScanIInv, ScanLiveInv
<1>2. /\ Wrap \in Nat \ {0} /\ dropped \in 0..(Wrap - 1) /\ lost \in Nat /\ results \in Nat
      /\ ScanSeen \in Seq(Nat) /\ Cap \in Nat \ {0} /\ squeue.len \in 0..Cap
      /\ returned \in Seq(Nat) /\ squeue \in U!Rings(Nat)
      /\ (Len(ScanSeen) + dropped + lost - results) % Wrap = 0
      /\ DOMAIN ScanSeen = 1..Len(ScanSeen)
  BY NetworkConstants, ScanSequences DEF ScanIInv, ScanTypeInv, ScanCountInv
<1>3. ScanLiveInv'
  BY <1>1 DEF ScanIInv, ScanLiveInv
<1>4. CASE U!Full(squeue)
  <2>1. dropped' = (dropped + 1) % Wrap /\ squeue' = squeue
    BY <1>1, <1>4, SameRing DEF W!handle_scan_result
  <2>2. ScanSeen' = ScanSeen
    BY <1>1, <2>1 DEF ScanSeen
  <2>3. dropped' = IF dropped + 1 = Wrap THEN 0 ELSE dropped + 1
    <3>1. dropped \in 0..(Wrap - 1) /\ Wrap \in Nat \ {0}
      BY <1>2
    <3>2. (dropped + 1) % Wrap = IF dropped + 1 = Wrap THEN 0 ELSE dropped + 1
      BY <3>1, CountUp
    <3> QED BY <2>1, <3>2
  <2>4. ScanTypeInv'
    BY <1>1, <1>2, <2>1, <2>3 DEF ScanIInv, ScanTypeInv
  <2> DEFINE n == Len(ScanSeen) + dropped + lost - results
             m == Len(ScanSeen) + dropped' + lost - results'
  <2>5. n \in Int /\ m \in {n, n - Wrap}
    BY <1>1, <1>2, <2>3
  <2>6. m % Wrap = 0
    <3>1. n % Wrap = 0
      BY <1>2
    <3> HIDE DEF n, m
    <3>2. (n - Wrap) % Wrap = n % Wrap
      BY <1>2, <2>5, SubtractModulus
    <3> QED BY <2>5, <3>1, <3>2
  <2>7. (Len(ScanSeen) + dropped + lost - results)' % Wrap = 0
    BY <1>1, <2>2, <2>6
  <2>8. \A i \in DOMAIN ScanSeen : ScanSeen[i] <= results + 1
    BY <1>2 DEF ScanIInv, ScanCountInv
  <2>9. ScanCountInv'
    BY <1>1, <2>2, <2>7, <2>8 DEF ScanIInv, ScanCountInv
  <2> QED BY <1>3, <2>4, <2>9 DEF ScanIInv
<1>5. CASE ~U!Full(squeue)
  <2>1. dropped' = dropped /\ squeue' = U!PutItem(squeue, results + 1)
    BY <1>1, <1>5, SameRing DEF W!handle_scan_result
  <2>2. squeue.len < Cap
    BY <1>2, <1>5 DEF U!Full
  <2>3. /\ squeue' \in U!Rings(Nat)
        /\ U!Contents(squeue)' = Append(U!Contents(squeue), results + 1)
    BY <1>2, <2>1, <2>2, PutLast
  <2>4. ScanTypeInv'
    BY <1>1, <1>2, <2>1, <2>3 DEF ScanIInv, ScanTypeInv
  <2>5. ScanSeen' = Append(ScanSeen, results + 1)
    <3> DEFINE c == U!Contents(squeue)
               a == results + 1
    <3>1. c \in Seq(Nat) /\ a \in Nat /\ returned \in Seq(Nat)
      BY <1>2, ScanSequences DEF ScanIInv
    <3> HIDE DEF c, a
    <3>2. returned \o Append(c, a) = Append(returned \o c, a)
      BY <3>1, AppendToConcat
    <3> QED BY <1>1, <2>3, <3>2 DEF ScanSeen, c, a
  <2>6. /\ Len(ScanSeen') = Len(ScanSeen) + 1
        /\ DOMAIN ScanSeen' = 1..(Len(ScanSeen) + 1)
        /\ \A i \in 1..Len(ScanSeen) : ScanSeen'[i] = ScanSeen[i]
        /\ ScanSeen'[Len(ScanSeen) + 1] = results + 1
    BY <1>2, <2>5
  <2>7. \A i \in 1..Len(ScanSeen) : ScanSeen[i] \in Nat /\ ScanSeen[i] <= results
    BY <1>2 DEF ScanIInv, ScanCountInv
  <2>8. \A i \in DOMAIN ScanSeen' : ScanSeen'[i] <= results'
    <3>1. results \in Nat /\ results' = results + 1 /\ Len(ScanSeen) \in Nat
      BY <1>1, <1>2
    <3>2. TAKE i \in DOMAIN ScanSeen'
    <3>3. CASE i \in 1..Len(ScanSeen)
      BY <2>6, <2>7, <3>1, <3>3
    <3>4. CASE i = Len(ScanSeen) + 1
      BY <2>6, <3>1, <3>4
    <3>5. i \in 1..(Len(ScanSeen) + 1)
      BY <2>6
    <3> QED BY <3>1, <3>3, <3>4, <3>5
  <2>9. \A i, j \in DOMAIN ScanSeen' : i < j => ScanSeen'[i] < ScanSeen'[j]
    <3>1. \A i, j \in 1..Len(ScanSeen) : i < j => ScanSeen[i] < ScanSeen[j]
      BY <1>2 DEF ScanIInv, ScanCountInv
    <3>2. Len(ScanSeen) \in Nat
      BY <1>2
    <3>3. TAKE i, j \in DOMAIN ScanSeen'
    <3>4. HAVE i < j
    <3>5. i \in 1..Len(ScanSeen) /\ ScanSeen'[i] = ScanSeen[i]
      BY <2>6, <3>2, <3>4
    <3>6. CASE j \in 1..Len(ScanSeen)
      BY <2>6, <3>1, <3>4, <3>5, <3>6
    <3>7. CASE j = Len(ScanSeen) + 1
      BY <1>2, <2>6, <2>7, <3>5, <3>7
    <3> QED BY <2>6, <3>2, <3>6, <3>7
  <2>10. (Len(ScanSeen') + dropped' + lost' - results')
            = Len(ScanSeen) + dropped + lost - results
    BY <1>1, <1>2, <2>1, <2>6
  <2>11. ScanCountInv'
    BY <1>2, <2>8, <2>9, <2>10 DEF ScanCountInv
  <2> QED BY <1>3, <2>4, <2>11 DEF ScanIInv
<1> QED BY <1>4, <1>5

\* A result that is returned comes with the number of those dropped before.
LEMMA ScanReturnInv == ASSUME ScanIInv, W!Return PROVE ScanIInv'
<1>1. /\ squeue.len > 0 /\ squeue' = U!TakeItem(squeue)
      /\ returned' = Append(returned, U!FirstItem(squeue))
      /\ lost' = lost + dropped /\ dropped' = 0
      /\ iter = "loop" /\ iter' = "lua" /\ UNCHANGED <<scan_queue, live, active, results>>
  BY SameRing DEF W!Return, W!Reset
<1>2. /\ Wrap \in Nat \ {0} /\ dropped \in 0..(Wrap - 1) /\ lost \in Nat /\ results \in Nat
      /\ ScanSeen \in Seq(Nat) /\ squeue \in U!Rings(Nat)
  BY NetworkConstants, ScanSequences DEF ScanIInv, ScanTypeInv
<1>3. /\ squeue' \in U!Rings(Nat)
      /\ U!Contents(squeue) # <<>>
      /\ U!Contents(squeue)' = Tail(U!Contents(squeue))
      /\ U!FirstItem(squeue) = U!Contents(squeue)[1]
  BY <1>1, <1>2, TakeFirst
<1> DEFINE q == U!Contents(squeue)
<1>4. q \in Seq(Nat) /\ q # <<>> /\ returned \in Seq(Nat)
  BY <1>3, ScanSequences DEF ScanIInv, ScanTypeInv
<1> HIDE DEF q
<1>5. Append(returned, q[1]) \o Tail(q) = returned \o q /\ q[1] \in Nat
  BY <1>4, MoveFirst
<1>6. ScanSeen' = ScanSeen
  BY <1>1, <1>3, <1>5 DEF ScanSeen, q
<1>7. ScanTypeInv'
  BY <1>1, <1>2, <1>3, <1>4, <1>5 DEF ScanIInv, ScanTypeInv, q
<1>8. Len(ScanSeen') + dropped' + lost' - results' = Len(ScanSeen) + dropped + lost - results
  BY <1>1, <1>2, <1>6
<1>9. ScanCountInv'
  BY <1>1, <1>6, <1>8 DEF ScanIInv, ScanCountInv
<1>10. ScanLiveInv'
  BY <1>1 DEF ScanIInv, ScanLiveInv
<1> QED BY <1>7, <1>9, <1>10 DEF ScanIInv

\* The other steps do not touch the results; the end of the loop stops the
\* driver.
LEMMA ScanOtherInv ==
    ASSUME ScanIInv,
           \/ W!ScanEnds \/ W!scan_next \/ W!Wait \/ W!scan_done \/ W!Drop
           \/ W!Dispatch \/ W!Timer \/ W!Resumed
    PROVE  ScanIInv'
<1>1. UNCHANGED <<squeue, dropped, lost, results, returned>>
  BY DEF W!ScanEnds, W!scan_next, W!Wait, W!scan_done, W!Done, W!Drop, W!Dispatch, W!Timer,
         W!Resumed
<1>2. ScanSeen' = ScanSeen
  BY <1>1 DEF ScanSeen
<1>3. ScanTypeInv'
  BY <1>1 DEF ScanIInv, ScanTypeInv, W!ScanEnds, W!scan_next, W!Wait, W!scan_done, W!Done,
              W!Drop, W!Dispatch, W!Timer, W!Resumed
<1>4. ScanCountInv'
  BY <1>1, <1>2 DEF ScanIInv, ScanCountInv
<1>5. ScanLiveInv'
  BY DEF ScanIInv, ScanLiveInv, W!ScanEnds, W!scan_next, W!Wait, W!scan_done, W!Done,
         W!Drop, W!Dispatch, W!Timer, W!Resumed
<1> QED BY <1>3, <1>4, <1>5 DEF ScanIInv

LEMMA ScanMoves == [NextAll]_all => [W!Next]_W!vars
  BY DEF NextAll, all, Step, Unmoved, scan, W!vars

LEMMA ScanStepInv == ScanIInv /\ [W!Next]_W!vars => ScanIInv'
<1> SUFFICES ASSUME ScanIInv, [W!Next]_W!vars PROVE ScanIInv'
  OBVIOUS
<1>1. CASE UNCHANGED W!vars
  BY <1>1 DEF W!vars, ScanIInv, ScanTypeInv, ScanLiveInv, ScanCountInv, ScanSeen
<1>2. CASE W!Next
  BY <1>2, ScanOpenInv, ScanResultInv, ScanReturnInv, ScanOtherInv DEF W!Next
<1> QED BY <1>1, <1>2

\* The results of a scan come in the order in which the driver has found them,
\* and their number with that of those reported as dropped is the number of
\* results, modulo the width of the counter.  The queue that the driver is given
\* is kept until the iterator is closed, which stops the driver, but for an
\* iterator that was dropped without that, and for a scan that did not start.
THEOREM ScanCorrect == SpecAll => []ScanIsCounted
<1>1. InitAll => ScanIInv
  BY ScanInitInv DEF InitAll
<1>2. ScanIInv /\ [NextAll]_all => ScanIInv'
  BY ScanStepInv, ScanMoves
<1>3. ScanIInv => ScanIsCounted
  BY SameRing DEF ScanIInv, ScanLiveInv, ScanCountInv, ScanSeen, ScanIsCounted,
                  W!ResultsAreCounted, W!QueueIsLive
<1> QED BY <1>1, <1>2, <1>3, PTL DEF SpecAll

-----------------------------------------------------------------------------
(* TcpSocket. *)

Chains == Seq([unit : Nat, last : BOOLEAN])

TcpThreads == [pc : {"lua", "loop", "suspended", "ready"},
               call : {"none", "accept", "connect", "recv", "send"},
               res : {"none", "eof", "ok"}, timed : BOOLEAN, late : BOOLEAN,
               len : Nat, msg : Seq(Nat), index : Nat \ {0}, offset : Nat]

TcpListenerInv ==
    /\ listener \in [err : {"OK", "CLSD"}, queue : Seq({"this", "other"}), ev : T!Events]
    /\ pcb \in T!PcbStates
    /\ recv_event \in T!Events /\ send_event \in T!Events

TcpSocketInv ==
    tcp \in [err : {"OK", "RST", "CLSD"}, connected : BOOLEAN, rx_closed : BOOLEAN,
             recv_head : Chains, recv_off : Nat]

TcpPeerInv ==
    peer \in [sent : Nat, told : Nat, fin : {"no", "sent", "lost"}, wnd : Int,
              room : Int, rx : BOOLEAN, tx : BOOLEAN]

TcpThreadsInv == {acceptor, receiver, sender} \subseteq TcpThreads

TcpTypeInv == TcpListenerInv /\ TcpSocketInv /\ TcpPeerInv /\ TcpThreadsInv

LEMMA NoListenerType ==
    T!NoListener \in [err : {"OK", "CLSD"}, queue : Seq({"this", "other"}), ev : T!Events]
<1>1. <<>> \in Seq({"this", "other"})
  OBVIOUS
<1> QED BY <1>1 DEF T!NoListener, T!Events

LEMMA TcpInitType == T!Init => TcpTypeInv
<1> SUFFICES ASSUME T!Init PROVE TcpTypeInv
  OBVIOUS
<1>1. TcpListenerInv
  <2>1. \/ listener = T!NoListener
        \/ listener = [T!NoListener EXCEPT !.err = "OK", !.ev = "enabled"]
    BY DEF T!Init
  <2>2. listener \in [err : {"OK", "CLSD"}, queue : Seq({"this", "other"}), ev : T!Events]
    BY <2>1, NoListenerType DEF T!Events
  <2> QED BY <2>2 DEF T!Init, TcpListenerInv, T!Events, T!PcbStates
<1>2. TcpSocketInv
  BY DEF T!Init, TcpSocketInv, Chains
<1>3. TcpPeerInv
  BY NetworkConstants DEF T!Init, TcpPeerInv
<1>4. TcpThreadsInv
  BY DEF T!Init, T!Lua, TcpThreadsInv, TcpThreads
<1> QED BY <1>1, <1>2, <1>3, <1>4 DEF TcpTypeInv

LEMMA ListenerTypeInv == TcpTypeInv /\ T!Next => TcpListenerInv'
<1> SUFFICES ASSUME TcpTypeInv, T!Next PROVE TcpListenerInv'
  OBVIOUS
<1> USE DEF TcpTypeInv, TcpListenerInv, T!Events, T!PcbStates, T!Set, T!events, T!threads
<1>1. CASE \E c \in {"this", "other"} : T!handle_accept(c)
  <2>0. PICK c \in {"this", "other"} : T!handle_accept(c)
    BY <1>1
  <2>1. PICK q \in Seq({"this", "other"}), ev \in T!Events :
          listener' = [listener EXCEPT !.queue = q, !.ev = ev]
    <3>1. Append(listener.queue, c) \in Seq({"this", "other"}) /\ T!Set(listener.ev) \in T!Events
      OBVIOUS
    <3>2. listener' = [listener EXCEPT !.queue = Append(listener.queue, c),
                                       !.ev = T!Set(listener.ev)]
      BY <2>0 DEF T!handle_accept
    <3> QED BY <3>1, <3>2
  <2>2. listener' \in [err : {"OK", "CLSD"}, queue : Seq({"this", "other"}), ev : T!Events]
    BY <2>1
  <2> QED BY <1>1, <2>2 DEF T!handle_accept
<1>2. CASE T!handle_connected \/ T!handle_recv_fin \/ T!handle_poll \/ T!handle_err
           \/ T!PeerCloses \/ T!send_loop \/ T!Timer \/ T!RunSender \/ T!TCP_send
  BY <1>2 DEF T!handle_connected, T!handle_recv_fin, T!handle_poll, T!handle_err,
       T!TellSender, T!PeerCloses, T!send_loop, T!Timer, T!RunSender, T!TCP_send
<1>3. CASE \/ \E n \in 1..MaxUnits : T!PeerSends(n)
           \/ \E n \in 1..MaxPbuf : T!handle_recv(n)
           \/ \E n \in 1..SndBuf : T!handle_sent(n)
  BY <1>3 DEF T!PeerSends, T!handle_recv, T!handle_sent
<1>4. CASE T!TCP_accept \/ T!RunAcceptor
  <2>1. PICK t : T!accept_loop(t)
    BY <1>4 DEF T!TCP_accept, T!RunAcceptor
  <2>2. CASE UNCHANGED <<listener, pcb, arg, tcp, T!events>>
    BY <2>2
  <2>3. CASE /\ listener.queue # <<>>
             /\ \/ pcb' \in {"open", "freed"} /\ recv_event' = "enabled" /\ send_event' = "enabled"
                   /\ listener' = T!NoListener
                \/ listener' = [listener EXCEPT !.queue = Tail(@)]
                   /\ UNCHANGED <<pcb, T!events>>
    <3>1. Tail(listener.queue) \in Seq({"this", "other"})
      BY <2>3
    <3> QED BY <2>3, <3>1, NoListenerType
  <2> QED BY <2>1, <2>2, <2>3 DEF T!accept_loop
<1>5. CASE T!TCP_connect
  BY <1>5 DEF T!TCP_connect
<1>6. CASE T!TCP_recv \/ T!RunReceiver
  BY <1>6 DEF T!TCP_recv, T!RunReceiver, T!recv_loop, T!connect_loop
<1>7. CASE \/ \E rx, tx \in BOOLEAN : T!TCP_shutdown(rx, tx)
           \/ T!TCP_close \/ T!TCP_close_listener
  BY <1>7, NoListenerType DEF T!TCP_shutdown, T!TCP_close, T!TCP_close_listener
<1>8. CASE T!DispatchAccept \/ T!DispatchRecv \/ T!DispatchSend
  BY <1>8 DEF T!DispatchAccept, T!DispatchRecv, T!DispatchSend
<1> QED BY <1>1, <1>2, <1>3, <1>4, <1>5, <1>6, <1>7, <1>8 DEF T!Next

LEMMA MaxOfBounded ==
    ASSUME NEW n \in Nat, NEW S \in SUBSET (0..n), S # {}
    PROVE  T!Max(S) \in S
<1> DEFINE R == {n - x : x \in S}
<1>1. R \in SUBSET Nat /\ R # {}
  <2>1. \A x \in S : n - x \in Nat
    OBVIOUS
  <2> QED BY <2>1
<1>2. PICK r \in R : \A y \in R : r <= y
  BY <1>1, LeastNumber
<1>3. PICK x \in S : r = n - x
  BY <1>2
<1>4. \A y \in S : x >= y
  BY <1>2, <1>3
<1> QED BY <1>3, <1>4 DEF T!Max

TcpRecords ==
    [err : {"OK", "RST", "CLSD"}, connected : BOOLEAN, rx_closed : BOOLEAN,
     recv_head : Chains, recv_off : Nat]

UnreadIn(s) == [i \in 1..(Len(s.recv_head) - s.recv_off) |-> s.recv_head[s.recv_off + i].unit]

LEMMA UnreadOf ==
    ASSUME NEW s \in TcpRecords, NEW u, u = UnreadIn(s)
    PROVE  /\ u \in Seq(Nat)
           /\ Len(u) = IF s.recv_off <= Len(s.recv_head) THEN Len(s.recv_head) - s.recv_off ELSE 0
           /\ \A i \in 1..Len(u) :
                 /\ u[i] = s.recv_head[s.recv_off + i].unit
                 /\ s.recv_off + i \in 1..Len(s.recv_head)
           /\ s.recv_head \in Chains /\ s.recv_off \in Nat
<1> DEFINE h == s.recv_head
           o == s.recv_off
           m == Len(h) - o
<1>1. h \in Seq([unit : Nat, last : BOOLEAN]) /\ o \in Nat
  BY DEF TcpRecords, Chains
<1>2. Len(h) \in Nat /\ m \in Int /\ (o <= Len(h) <=> m >= 0)
  BY <1>1
<1>3. u = [i \in 1..m |-> h[o + i].unit]
  BY DEF UnreadIn
<1> HIDE DEF h
<1>4. \A i \in 1..m : o + i \in 1..Len(h) /\ h[o + i].unit \in Nat
  <2>1. TAKE i \in 1..m
  <2>2. o + i \in 1..Len(h)
    BY <1>1, <1>2
  <2>3. h[o + i] \in [unit : Nat, last : BOOLEAN]
    BY <1>1, <2>2, ElementOfSeq
  <2> QED BY <2>2, <2>3
<1> HIDE DEF m
<1>5. CASE m >= 0
  <2>1. u \in [1..m -> Nat] /\ m \in Nat
    BY <1>2, <1>3, <1>4, <1>5
  <2>2. Len(u) = m /\ u \in Seq(Nat)
    BY <2>1
  <2> QED BY <1>1, <1>2, <1>3, <1>4, <1>5, <2>2 DEF h, m, Chains
<1>6. CASE m < 0
  <2>1. 1..m = {} /\ 1..m = 1..0
    BY <1>2, <1>6
  <2>2. u = <<>>
    BY <1>3, <2>1
  <2> QED BY <1>1, <1>2, <1>6, <2>2 DEF h, m, Chains
<1> QED BY <1>2, <1>5, <1>6 DEF m, h

LEMMA UnreadIs ==
    ASSUME TcpTypeInv
    PROVE  /\ T!Unread \in Seq(Nat)
           /\ Len(T!Unread) = IF tcp.recv_off <= Len(tcp.recv_head)
                              THEN Len(tcp.recv_head) - tcp.recv_off ELSE 0
           /\ \A i \in 1..Len(T!Unread) :
                 /\ T!Unread[i] = tcp.recv_head[tcp.recv_off + i].unit
                 /\ tcp.recv_off + i \in 1..Len(tcp.recv_head)
           /\ tcp.recv_head \in Chains /\ tcp.recv_off \in Nat
<1>1. tcp \in TcpRecords
  BY DEF TcpTypeInv, TcpSocketInv, TcpRecords
<1> QED BY <1>1, UnreadOf DEF T!Unread, UnreadIn

LEMMA UnreadNext ==
    ASSUME TcpTypeInv'
    PROVE  /\ T!Unread' \in Seq(Nat)
           /\ Len(T!Unread') = IF tcp'.recv_off <= Len(tcp'.recv_head)
                               THEN Len(tcp'.recv_head) - tcp'.recv_off ELSE 0
           /\ \A i \in 1..Len(T!Unread') :
                 /\ T!Unread'[i] = tcp'.recv_head[tcp'.recv_off + i].unit
                 /\ tcp'.recv_off + i \in 1..Len(tcp'.recv_head)
           /\ tcp'.recv_head \in Chains /\ tcp'.recv_off \in Nat
<1>1. tcp' \in TcpRecords
  BY DEF TcpTypeInv, TcpSocketInv, TcpRecords
<1> QED BY <1>1, UnreadOf DEF T!Unread, UnreadIn

\* The state after recv_loop() has read n units.
LEMMA ReadingIs ==
    ASSUME TcpTypeInv, NEW n \in Nat, n <= Len(T!Unread), NEW a, a = T!AfterReading(n)
    PROVE  /\ a \in [err : {"OK", "RST", "CLSD"}, connected : BOOLEAN, rx_closed : BOOLEAN,
                     recv_head : Chains, recv_off : Nat]
           /\ a.err = tcp.err /\ a.connected = tcp.connected /\ a.rx_closed = tcp.rx_closed
           /\ \E k \in 0..Len(tcp.recv_head) :
                 /\ k <= tcp.recv_off + n
                 /\ a.recv_head = SubSeq(tcp.recv_head, k + 1, Len(tcp.recv_head))
                 /\ a.recv_off = (tcp.recv_off + n) - k
<1> DEFINE h == tcp.recv_head
           end == tcp.recv_off + n
           S == {k \in DOMAIN h : k <= end /\ h[k].last} \cup {0}
<1>1. h \in Seq([unit : Nat, last : BOOLEAN]) /\ tcp.recv_off \in Nat
  BY DEF TcpTypeInv, TcpSocketInv, Chains
<1>2. S \in SUBSET (0..Len(h)) /\ S # {} /\ Len(h) \in Nat
  BY <1>1
<1> DEFINE x == T!Max(S)
<1>3. x \in S
  BY <1>2, MaxOfBounded
<1>4. x \in 0..Len(h) /\ x <= end
  <2> HIDE DEF x
  <2> QED BY <1>1, <1>2, <1>3
<1> DEFINE rest == SubSeq(h, x + 1, Len(h))
           off == end - x
<1>5. a = [tcp EXCEPT !.recv_head = rest, !.recv_off = off]
  BY DEF T!AfterReading
<1> HIDE DEF x, S
<1>6. rest \in Chains /\ off \in Nat
  <2>1. x + 1 \in 1..(Len(h) + 1) /\ off \in Nat
    BY <1>1, <1>2, <1>4
  <2> HIDE DEF h
  <2>2. rest \in Seq([unit : Nat, last : BOOLEAN])
    <3>1. \A i \in (x + 1)..Len(h) : h[i] \in [unit : Nat, last : BOOLEAN]
      <4>1. TAKE i \in (x + 1)..Len(h)
      <4>2. i \in 1..Len(h)
        BY <1>1, <2>1
      <4> QED BY <1>1, <4>2, ElementOfSeq
    <3> QED BY <1>1, <2>1, <3>1, SubSeqProperties DEF rest
  <2> QED BY <2>1, <2>2 DEF Chains
<1> HIDE DEF rest, off
<1>7. /\ a \in [err : {"OK", "RST", "CLSD"}, connected : BOOLEAN, rx_closed : BOOLEAN,
                recv_head : Chains, recv_off : Nat]
      /\ a.err = tcp.err /\ a.connected = tcp.connected /\ a.rx_closed = tcp.rx_closed
      /\ a.recv_head = rest /\ a.recv_off = off
  BY <1>5, <1>6 DEF TcpTypeInv, TcpSocketInv
<1>9. \E k \in 0..Len(tcp.recv_head) :
         /\ k <= tcp.recv_off + n
         /\ a.recv_head = SubSeq(tcp.recv_head, k + 1, Len(tcp.recv_head))
         /\ a.recv_off = (tcp.recv_off + n) - k
  <2>1. /\ x \in 0..Len(tcp.recv_head) /\ x <= tcp.recv_off + n
        /\ a.recv_head = SubSeq(tcp.recv_head, x + 1, Len(tcp.recv_head))
        /\ a.recv_off = (tcp.recv_off + n) - x
    BY <1>4, <1>7 DEF rest, off
  <2> QED BY <2>1
<1>10. /\ a \in [err : {"OK", "RST", "CLSD"}, connected : BOOLEAN, rx_closed : BOOLEAN,
                recv_head : Chains, recv_off : Nat]
      /\ a.err = tcp.err /\ a.connected = tcp.connected /\ a.rx_closed = tcp.rx_closed
  BY <1>7
<1> QED BY <1>9, <1>10


-----------------------------------------------------------------------------
(* The operators on threads. *)

LEMMA LuaIs ==
    /\ T!Lua \in TcpThreads
    /\ T!Lua.pc = "lua" /\ T!Lua.call = "none" /\ T!Lua.res = "none" /\ T!Lua.msg = <<>>
    /\ T!Lua.late = FALSE /\ T!Lua.index = 1 /\ T!Lua.offset = 0
BY DEF T!Lua, TcpThreads

LEMMA CallsAre ==
    ASSUME NEW d \in BOOLEAN
    PROVE  /\ LET t == [T!Lua EXCEPT !.call = "accept", !.timed = d]
              IN t \in TcpThreads /\ t.late = FALSE
           /\ LET t == [T!Lua EXCEPT !.call = "connect", !.timed = d, !.pc = "suspended"]
              IN t \in TcpThreads /\ t.pc = "suspended" /\ t.late = FALSE /\ t.call = "connect"
                 /\ t.res = "none"
<1> DEFINE a == [T!Lua EXCEPT !.call = "accept", !.timed = d]
           c == [T!Lua EXCEPT !.call = "connect", !.timed = d, !.pc = "suspended"]
<1>1. /\ T!Lua \in TcpThreads /\ T!Lua.late = FALSE /\ T!Lua.res = "none"
  BY LuaIs
<1>2. a \in TcpThreads /\ a.late = T!Lua.late
  BY <1>1 DEF TcpThreads
<1>3. c \in TcpThreads /\ c.pc = "suspended" /\ c.late = T!Lua.late /\ c.call = "connect"
      /\ c.res = T!Lua.res
  BY <1>1 DEF TcpThreads
<1> QED BY <1>1, <1>2, <1>3

LEMMA MessagesAre ==
    ASSUME NEW msg \in {[k \in 1..Strings |-> k]}
    PROVE  msg \in Seq(Nat)
<1>1. Strings \in Nat /\ msg = [k \in 1..Strings |-> k]
  BY NetworkConstants
<1>2. msg \in [1..Strings -> Nat]
  BY <1>1
<1> QED BY <1>1, <1>2

LEMMA SuspendIs ==
    ASSUME NEW t \in TcpThreads
    PROVE  /\ T!Suspend(t) \in TcpThreads /\ T!Suspend(t).pc = "suspended"
           /\ T!Suspend(t).call = t.call /\ T!Suspend(t).late = t.late
           /\ T!Suspend(t).len = t.len /\ T!Suspend(t).res = t.res
           /\ T!Suspend(t).msg = t.msg /\ T!Suspend(t).index = t.index
           /\ T!Suspend(t).offset = t.offset
BY DEF T!Suspend, TcpThreads

LEMMA ReadyIs ==
    ASSUME NEW t \in TcpThreads
    PROVE  /\ T!Ready(t) \in TcpThreads
           /\ T!Ready(t).pc = IF t.pc = "suspended" THEN "ready" ELSE t.pc
           /\ T!Ready(t).call = t.call /\ T!Ready(t).late = t.late
           /\ T!Ready(t).len = t.len /\ T!Ready(t).res = t.res
           /\ T!Ready(t).msg = t.msg /\ T!Ready(t).index = t.index
           /\ T!Ready(t).offset = t.offset
BY DEF T!Ready, TcpThreads

LEMMA ExpiresIs ==
    ASSUME NEW t \in TcpThreads, NEW u, T!Expires(t, u)
    PROVE  /\ u \in TcpThreads /\ u.pc = "ready" /\ t.pc \in {"suspended", "ready"}
           /\ u.call = t.call /\ u.len = t.len /\ u.res = t.res /\ u.late
           /\ u.msg = t.msg /\ u.index = t.index /\ u.offset = t.offset
<1>1. u = [T!Ready(t) EXCEPT !.late = TRUE] /\ t.pc \in {"suspended", "ready"}
  BY DEF T!Expires
<1>2. T!Ready(t).pc = "ready"
  BY <1>1, ReadyIs
<1> DEFINE r == T!Ready(t)
<1>3. /\ r \in TcpThreads /\ r.pc = "ready" /\ r.call = t.call /\ r.len = t.len
      /\ r.res = t.res /\ r.msg = t.msg /\ r.index = t.index /\ r.offset = t.offset
      /\ u = [r EXCEPT !.late = TRUE]
  BY <1>1, <1>2, ReadyIs
<1> HIDE DEF r
<1>4. /\ u \in TcpThreads /\ u.pc = r.pc /\ u.call = r.call /\ u.len = r.len /\ u.res = r.res
      /\ u.late = TRUE /\ u.msg = r.msg /\ u.index = r.index /\ u.offset = r.offset
  BY <1>3 DEF TcpThreads
<1> QED BY <1>1, <1>3, <1>4

LEMMA NothingIs ==
    ASSUME NEW t \in TcpThreads
    PROVE  \/ T!NothingThere(t) = T!Lua /\ t.late
           \/ T!NothingThere(t) = T!Suspend(t) /\ ~t.late
BY DEF T!NothingThere

LEMMA ReturnIs ==
    ASSUME NEW t \in TcpThreads, NEW res \in {"none", "ok"}
    PROVE  /\ T!Return(t, res) \in TcpThreads /\ T!Return(t, res).pc = "lua"
           /\ T!Return(t, res).msg = t.msg /\ T!Return(t, res).res = res
<1>1. T!Lua \in TcpThreads /\ T!Lua.pc = "lua" /\ t.msg \in Seq(Nat)
  BY LuaIs DEF TcpThreads
<1> DEFINE m == t.msg
           u == [T!Lua EXCEPT !.msg = m, !.res = res]
<1>2. m \in Seq(Nat)
  BY <1>1
<1> HIDE DEF m
<1>3. u \in TcpThreads /\ u.pc = T!Lua.pc /\ u.msg = m /\ u.res = res
  BY <1>1, <1>2 DEF TcpThreads
<1>4. T!Return(t, res) = u
  BY DEF T!Return, m
<1> QED BY <1>1, <1>3, <1>4 DEF m

LEMMA AdvanceIs ==
    ASSUME NEW t \in TcpThreads, NEW n \in Nat
    PROVE  /\ T!Advance(t, n) \in TcpThreads /\ T!Advance(t, n).pc = t.pc
           /\ T!Advance(t, n).res = t.res /\ T!Advance(t, n).msg = t.msg /\ T!Advance(t, n).index = t.index
           /\ T!Advance(t, n).offset = t.offset + n
<1>1. t.offset + n \in Nat
  BY DEF TcpThreads
<1> DEFINE o == t.offset + n
<1>2. T!Advance(t, n) = [t EXCEPT !.offset = o]
  BY DEF T!Advance
<1> HIDE DEF o
<1>3. o \in Nat
  BY <1>1 DEF o
<1>4. /\ T!Advance(t, n) \in TcpThreads /\ T!Advance(t, n).pc = t.pc
      /\ T!Advance(t, n).res = t.res /\ T!Advance(t, n).msg = t.msg /\ T!Advance(t, n).index = t.index
      /\ T!Advance(t, n).offset = o
  BY <1>2, <1>3 DEF TcpThreads
<1> QED BY <1>4 DEF o

\* A turn of recv(): it reads n units of t.len that it was asked for.
LEMMA RecvLoopIs ==
    ASSUME TcpTypeInv, NEW t \in TcpThreads, T!recv_loop(t)
    PROVE  \E n \in Nat :
              /\ n <= Len(T!Unread) /\ n = IF t.len < Len(T!Unread) THEN t.len ELSE Len(T!Unread)
              /\ got' = got \o SubSeq(T!Unread, 1, n)
              /\ tcp' = T!AfterReading(n)
              /\ send_event' = send_event \/ send_event' = T!Set(send_event)
              /\ peer' = IF ~T!Gone THEN T!Recved(n) ELSE peer
              /\ receiver' = T!Outcome(t, n)
              /\ UNCHANGED <<listener, pcb, arg, acceptor, sender, written>>
<1> DEFINE n == IF t.len < Len(T!Unread) THEN t.len ELSE Len(T!Unread)
<1>1. n \in Nat /\ n <= Len(T!Unread)
  BY UnreadIs DEF TcpThreads
<1>2. /\ got' = got \o SubSeq(T!Unread, 1, n)
      /\ tcp' = T!AfterReading(n)
      /\ send_event' = send_event \/ send_event' = T!Set(send_event)
      /\ peer' = IF ~T!Gone THEN T!Recved(n) ELSE peer
      /\ receiver' = T!Outcome(t, n)
      /\ UNCHANGED <<listener, pcb, arg, acceptor, sender, written>>
  BY DEF T!recv_loop
<1> QED BY <1>1, <1>2

\* The two ways into a turn of recv(), and that into one of connect().
RecvStep ==
    /\ \E t \in TcpThreads :
          /\ T!recv_loop(t) /\ t.call = "recv"
          /\ \/ receiver.pc = "lua" /\ t.len > 0 /\ t.res = "none"
                /\ pcb \notin {"none", "queued", "reset"}
             \/ receiver.pc = "ready" /\ t = receiver
    /\ recv_event' = recv_event

ConnectStep ==
    /\ T!connect_loop(receiver) /\ receiver.call = "connect" /\ receiver.pc = "ready"
    /\ recv_event' = recv_event

LEMMA RecvIs ==
    ASSUME TcpTypeInv, T!TCP_recv \/ T!RunReceiver
    PROVE  RecvStep \/ ConnectStep
<1> USE DEF RecvStep
<1>1. CASE T!TCP_recv
  <2>1. PICK len \in 1..MaxUnits, d \in BOOLEAN :
          T!recv_loop([T!Lua EXCEPT !.call = "recv", !.len = len, !.timed = d])
    BY <1>1 DEF T!TCP_recv
  <2>2. len \in Nat /\ len > 0
    BY NetworkConstants
  <2> DEFINE v == [T!Lua EXCEPT !.call = "recv", !.len = len, !.timed = d]
  <2>4. PICK t : t = v /\ T!recv_loop(t)
    BY <2>1
  <2>6. len \in Nat /\ t = [T!Lua EXCEPT !.call = "recv", !.len = len, !.timed = d]
    BY <2>2, <2>4
  <2>7. T!Lua \in TcpThreads /\ T!Lua.res = "none"
    BY LuaIs
  <2>3. t \in TcpThreads /\ t.len = len /\ t.call = "recv" /\ t.res = T!Lua.res
    BY <2>6, <2>7 DEF TcpThreads
  <2> HIDE DEF v
  <2>5. receiver.pc = "lua" /\ pcb \notin {"none", "queued", "reset"} /\ recv_event' = recv_event
    BY <1>1 DEF T!TCP_recv
  <2> QED BY <2>2, <2>3, <2>4, <2>5, <2>7
<1>2. CASE T!RunReceiver
  BY <1>2 DEF T!RunReceiver, TcpTypeInv, TcpThreadsInv, ConnectStep
<1> QED BY <1>1, <1>2

LEMMA OutcomeIs ==
    ASSUME TcpTypeInv, NEW t \in TcpThreads, NEW n \in Nat
    PROVE  \/ /\ T!Outcome(t, n) = [T!Lua EXCEPT !.res = "eof"]
              /\ n = 0 /\ tcp.rx_closed
              /\ T!Outcome(t, n) \in TcpThreads /\ T!Outcome(t, n).pc = "lua"
              /\ T!Outcome(t, n).late = FALSE /\ T!Outcome(t, n).call = "none"
           \/ T!Outcome(t, n) = T!Lua
           \/ /\ T!Outcome(t, n) = T!Suspend(t) /\ ~t.late
              /\ n = 0 /\ ~tcp.rx_closed /\ tcp.err = "OK"
<1>1. LET u == [T!Lua EXCEPT !.res = "eof"]
      IN u \in TcpThreads /\ u.pc = "lua" /\ u.late = FALSE /\ u.call = "none"
  <2> DEFINE u == [T!Lua EXCEPT !.res = "eof"]
  <2>1. /\ T!Lua \in TcpThreads /\ T!Lua.pc = "lua" /\ T!Lua.late = FALSE /\ T!Lua.call = "none"
    BY LuaIs
  <2>2. u \in TcpThreads /\ u.pc = T!Lua.pc /\ u.late = T!Lua.late /\ u.call = T!Lua.call
    BY <2>1 DEF TcpThreads
  <2> QED BY <2>1, <2>2
<1> QED BY <1>1, NothingIs DEF T!Outcome

-----------------------------------------------------------------------------
(* TcpSocket: the types of the other variables. *)

LEMMA SocketTypeInv == TcpTypeInv /\ T!Next => TcpSocketInv'
<1> SUFFICES ASSUME TcpTypeInv, T!Next PROVE TcpSocketInv'
  OBVIOUS
<1> USE DEF TcpTypeInv, TcpSocketInv
<1> DEFINE R == [err : {"OK", "RST", "CLSD"}, connected : BOOLEAN, rx_closed : BOOLEAN,
                 recv_head : Chains, recv_off : Nat]
<1>0. tcp \in R
  OBVIOUS
<1>1. CASE UNCHANGED tcp
  BY <1>1
<1>2. CASE \E n \in 1..MaxPbuf : T!handle_recv(n)
  <2>0. PICK n \in 1..MaxPbuf : T!handle_recv(n)
    BY <1>2
  <2>1. n \in Nat /\ peer.told \in Nat
    BY NetworkConstants DEF TcpPeerInv
  <2>2. \A i \in 1..n : [unit |-> peer.told + i, last |-> i = n] \in [unit : Nat, last : BOOLEAN]
    BY <2>1
  <2>3. T!Pbuf(n) \in Seq([unit : Nat, last : BOOLEAN])
    <3> DEFINE S == [unit : Nat, last : BOOLEAN]
               b == T!Pbuf(n)
    <3>1. b \in [1..n -> S]
      BY <2>2 DEF T!Pbuf
    <3> HIDE DEF S, b
    <3>2. b \in Seq(S)
      BY <2>1, <3>1
    <3> QED BY <3>2 DEF S, b
  <2>4. tcp.recv_head \in Seq([unit : Nat, last : BOOLEAN])
    BY DEF Chains
  <2> DEFINE h == tcp.recv_head \o T!Pbuf(n)
  <2>5. h \in Chains
    BY <2>3, <2>4, ConcatProperties DEF Chains
  <2>6. tcp' = [tcp EXCEPT !.recv_head = h]
    BY <2>0 DEF T!handle_recv
  <2> HIDE DEF h
  <2> QED BY <2>5, <2>6
<1>3. CASE T!handle_connected \/ T!handle_recv_fin \/ T!handle_err
  BY <1>3 DEF T!handle_connected, T!handle_recv_fin, T!handle_err
<1>4. CASE T!TCP_accept \/ T!RunAcceptor
  <2>1. PICK t : T!accept_loop(t)
    BY <1>4 DEF T!TCP_accept, T!RunAcceptor
  <2>2. UNCHANGED tcp \/ tcp' = [tcp EXCEPT !.connected = TRUE]
    BY <2>1 DEF T!accept_loop
  <2> QED BY <2>2
<1>5. CASE RecvStep
  <2>1. PICK t \in TcpThreads : T!recv_loop(t)
    BY <1>5 DEF RecvStep
  <2>2. PICK n \in Nat : n <= Len(T!Unread) /\ tcp' = T!AfterReading(n)
    BY <2>1, RecvLoopIs
  <2> QED BY <2>2, ReadingIs
<1>6. CASE \/ \E rx, tx \in BOOLEAN : T!TCP_shutdown(rx, tx)
  BY <1>6 DEF T!TCP_shutdown
<1>7. CASE T!TCP_close
  <2>1. T!Err \in {"OK", "RST", "CLSD"} /\ <<>> \in Chains
    <3>1. <<>> \in Seq([unit : Nat, last : BOOLEAN])
      OBVIOUS
    <3> QED BY <3>1 DEF T!Err, T!UsesPcb, Chains
  <2>2. tcp' = [tcp EXCEPT !.err = T!Err, !.recv_head = <<>>]
    BY <1>7 DEF T!TCP_close
  <2> DEFINE e == T!Err
             h == <<>>
  <2>3. e \in {"OK", "RST", "CLSD"} /\ h \in Chains /\ tcp' = [tcp EXCEPT !.err = e, !.recv_head = h]
    BY <2>1, <2>2
  <2> HIDE DEF e, h
  <2> QED BY <2>3
<1>8. CASE ConnectStep
  BY <1>8 DEF ConnectStep, T!connect_loop
<1>9. T!Next => \/ UNCHANGED tcp \/ (\E n \in 1..MaxPbuf : T!handle_recv(n))
                \/ T!handle_connected \/ T!handle_recv_fin \/ T!handle_err
                \/ T!TCP_accept \/ T!RunAcceptor \/ T!TCP_recv \/ T!RunReceiver
                \/ (\E rx, tx \in BOOLEAN : T!TCP_shutdown(rx, tx)) \/ T!TCP_close
  BY DEF T!Next, T!handle_accept, T!PeerSends, T!PeerCloses, T!handle_sent, T!handle_poll,
     T!send_loop, T!TCP_connect, T!TCP_send, T!TCP_close_listener, T!DispatchAccept,
     T!DispatchRecv, T!DispatchSend, T!Timer, T!RunSender
<1> QED BY <1>1, <1>2, <1>3, <1>4, <1>5, <1>6, <1>7, <1>8, <1>9, RecvIs

PeerRecords == [sent : Nat, told : Nat, fin : {"no", "sent", "lost"}, wnd : Int,
                room : Int, rx : BOOLEAN, tx : BOOLEAN]

LEMMA RecvedIs ==
    ASSUME NEW n \in Nat, peer \in PeerRecords
    PROVE  /\ T!Recved(n) \in PeerRecords
           /\ T!Recved(n).sent = peer.sent /\ T!Recved(n).told = peer.told
           /\ T!Recved(n).fin = peer.fin /\ T!Recved(n).wnd = peer.wnd + n
<1> DEFINE b == peer.wnd + n
           q == [peer EXCEPT !.wnd = b]
<1>1. b \in Int
  BY DEF PeerRecords
<1> HIDE DEF b
<1>2. q \in PeerRecords /\ q.sent = peer.sent /\ q.told = peer.told /\ q.fin = peer.fin /\ q.wnd = b
  BY <1>1 DEF PeerRecords
<1>3. T!Recved(n) = q
  BY DEF T!Recved, b
<1> QED BY <1>2, <1>3 DEF b

\* What the actions do to the peer: what it sends and is told, and the window.
PeerStep ==
    \/ UNCHANGED peer
    \/ /\ peer'.sent = peer.sent /\ peer'.told = peer.told /\ peer'.fin = peer.fin
       /\ peer'.wnd = peer.wnd
    \/ \E n \in 1..MaxUnits : T!PeerSends(n) /\ n \in Nat /\ n <= peer.wnd
          /\ peer'.sent = peer.sent + n /\ peer'.told = peer.told
          /\ peer'.fin = peer.fin /\ peer'.wnd = peer.wnd - n
    \/ \E n \in 1..MaxPbuf : T!handle_recv(n) /\ n \in Nat
          /\ peer'.sent = peer.sent /\ peer'.told = peer.told + n
          /\ peer'.fin = peer.fin /\ peer'.wnd = peer.wnd
    \/ T!PeerCloses /\ peer'.sent = peer.sent /\ peer'.told = peer.told
          /\ peer'.wnd = peer.wnd
    \/ RecvStep

LEMMA PeerIs == TcpTypeInv /\ T!Next => peer' \in PeerRecords /\ PeerStep
<1> SUFFICES ASSUME TcpTypeInv, T!Next PROVE peer' \in PeerRecords /\ PeerStep
  OBVIOUS
<1>0. peer \in PeerRecords
  BY DEF TcpTypeInv, TcpPeerInv, PeerRecords
<1>t. /\ peer.sent \in Nat /\ peer.told \in Nat /\ peer.wnd \in Int /\ peer.room \in Int
      /\ peer.rx \in BOOLEAN /\ peer.tx \in BOOLEAN
  BY <1>0 DEF PeerRecords
<1>1. CASE UNCHANGED peer
  BY <1>0, <1>1 DEF PeerStep
<1>2. CASE \E n \in 1..MaxUnits : T!PeerSends(n)
  <2>0. PICK n \in 1..MaxUnits : T!PeerSends(n)
    BY <1>2
  <2>1. n \in Nat /\ n <= peer.wnd /\ peer' = [peer EXCEPT !.sent = peer.sent + n, !.wnd = peer.wnd - n]
    BY <2>0, NetworkConstants DEF T!PeerSends
  <2> DEFINE a == peer.sent + n
             b == peer.wnd - n
  <2>2. a \in Nat /\ b \in Int /\ peer' = [peer EXCEPT !.sent = a, !.wnd = b]
    BY <1>t, <2>1
  <2> HIDE DEF a, b
  <2>3. peer' \in PeerRecords /\ peer'.sent = a /\ peer'.told = peer.told /\ peer'.fin = peer.fin /\ peer'.wnd = b
    BY <1>0, <2>2 DEF PeerRecords
  <2> QED BY <2>0, <2>1, <2>3 DEF a, b, PeerStep
<1>3. CASE \E n \in 1..MaxPbuf : T!handle_recv(n)
  <2>0. PICK n \in 1..MaxPbuf : T!handle_recv(n)
    BY <1>3
  <2>1. n \in Nat /\ peer' = [peer EXCEPT !.told = peer.told + n]
    BY <2>0, NetworkConstants DEF T!handle_recv
  <2> DEFINE a == peer.told + n
  <2>2. a \in Nat /\ peer' = [peer EXCEPT !.told = a]
    BY <1>t, <2>1
  <2> HIDE DEF a
  <2>3. peer' \in PeerRecords /\ peer'.sent = peer.sent /\ peer'.told = a /\ peer'.fin = peer.fin /\ peer'.wnd = peer.wnd
    BY <1>0, <2>2 DEF PeerRecords
  <2> QED BY <2>0, <2>1, <2>3 DEF a, PeerStep
<1>4. CASE T!PeerCloses
  <2>1. PICK f \in {"no", "sent", "lost"} : peer' = [peer EXCEPT !.fin = f]
    BY <1>4 DEF T!PeerCloses
  <2>3. peer' \in PeerRecords /\ peer'.sent = peer.sent /\ peer'.told = peer.told /\ peer'.wnd = peer.wnd
    BY <1>0, <2>1 DEF PeerRecords
  <2> QED BY <1>4, <2>3 DEF PeerStep
<1>5. CASE (\E n \in 1..SndBuf : T!handle_sent(n)) \/ T!send_loop
  <2>1. PICK b \in Int : UNCHANGED peer \/ peer' = [peer EXCEPT !.room = b]
    <3>1. CASE UNCHANGED peer
      BY <3>1
    <3>2. CASE \E n \in 1..SndBuf : T!handle_sent(n)
      <4>1. PICK n \in 1..SndBuf : T!handle_sent(n)
        BY <3>2
      <4>2. peer' = [peer EXCEPT !.room = peer.room + n] /\ peer.room + n \in Int
        BY <1>t, <4>1, NetworkConstants DEF T!handle_sent
      <4> QED BY <4>2
    <3>3. CASE T!send_loop /\ ~(UNCHANGED peer)
      <4>0. T!Write(sender)
        BY <3>3 DEF T!send_loop
      <4>1. sender.index \in 1..Len(sender.msg) /\ sender.msg \in Seq(Nat)
        BY <3>3 DEF T!send_loop, TcpTypeInv, TcpThreadsInv, TcpThreads
      <4> DEFINE size == sender.msg[sender.index]
                 sz == IF peer.room < size THEN peer.room ELSE size
      <4>2. size \in Nat
        BY <4>1, ElementOfSeq
      <4>3. peer' = [peer EXCEPT !.room = peer.room - sz]
        BY <3>3, <4>0 DEF T!Write
      <4> HIDE DEF size
      <4>4. peer.room - sz \in Int
        BY <1>t, <4>2
      <4> QED BY <4>3, <4>4
    <3> QED BY <1>5, <3>1, <3>2, <3>3
  <2>3. CASE UNCHANGED peer
    BY <1>0, <2>3 DEF PeerStep
  <2>4. CASE peer' = [peer EXCEPT !.room = b]
    BY <1>0, <2>4 DEF PeerRecords, PeerStep
  <2> QED BY <2>1, <2>3, <2>4
<1>6. CASE \E rx, tx \in BOOLEAN : T!TCP_shutdown(rx, tx)
  <2>1. PICK rx \in BOOLEAN, tx \in BOOLEAN : T!TCP_shutdown(rx, tx)
    BY <1>6
  <2> DEFINE c == peer.rx /\ ~rx
             d == peer.tx /\ ~(tx /\ pcb = "open")
  <2>2. c \in BOOLEAN /\ d \in BOOLEAN
    BY <1>t
  <2>3. UNCHANGED peer \/ peer' = [peer EXCEPT !.rx = c, !.tx = d]
    BY <2>1 DEF T!TCP_shutdown
  <2> HIDE DEF c, d
  <2>4. CASE UNCHANGED peer
    BY <1>0, <2>4 DEF PeerStep
  <2>5. CASE peer' = [peer EXCEPT !.rx = c, !.tx = d]
    BY <1>0, <2>2, <2>5 DEF PeerRecords, PeerStep
  <2> QED BY <2>3, <2>4, <2>5
<1>7. CASE RecvStep
  <2>1. PICK t \in TcpThreads : T!recv_loop(t)
    BY <1>7 DEF RecvStep
  <2>2. PICK n \in Nat : peer' = IF ~T!Gone THEN T!Recved(n) ELSE peer
    BY <2>1, RecvLoopIs
  <2>3. peer' \in PeerRecords
    BY <1>0, <2>2, RecvedIs
  <2> QED BY <1>7, <2>3 DEF PeerStep
<1>8. CASE ConnectStep
  BY <1>8, <1>1 DEF ConnectStep, T!connect_loop
<1>9. \/ UNCHANGED peer
      \/ \E n \in 1..MaxUnits : T!PeerSends(n)
      \/ \E n \in 1..MaxPbuf : T!handle_recv(n)
      \/ T!PeerCloses
      \/ \E n \in 1..SndBuf : T!handle_sent(n)
      \/ T!send_loop
      \/ \E rx, tx \in BOOLEAN : T!TCP_shutdown(rx, tx)
      \/ T!TCP_recv \/ T!RunReceiver
  <2> USE DEF T!handle_accept, T!handle_connected, T!handle_recv_fin, T!handle_poll,
     T!handle_err, T!TCP_connect, T!TCP_send, T!TCP_close, T!TCP_close_listener, T!DispatchAccept,
     T!DispatchRecv, T!DispatchSend, T!Timer, T!RunSender, T!TCP_accept, T!RunAcceptor, T!accept_loop
  <2> QED BY DEF T!Next
<1> QED BY <1>1, <1>2, <1>3, <1>4, <1>5, <1>6, <1>7, <1>8, <1>9, RecvIs

LEMMA SocketPeerInv == TcpTypeInv /\ T!Next => TcpPeerInv'
BY PeerIs DEF TcpPeerInv, PeerRecords

\* The steps of the threads.
AcceptorStep ==
    \/ UNCHANGED acceptor
    \/ acceptor' = T!Lua
    \/ acceptor' = T!Ready(acceptor)
    \/ T!Expires(acceptor, acceptor') /\ UNCHANGED listener
    \/ /\ listener.queue = <<>> /\ UNCHANGED listener
       /\ \E t \in TcpThreads : acceptor' = T!Suspend(t) /\ ~t.late

LEMMA AcceptorIs == TcpTypeInv /\ T!Next => AcceptorStep
<1> SUFFICES ASSUME TcpTypeInv, T!Next PROVE AcceptorStep
  OBVIOUS
<1> USE DEF AcceptorStep
<1>1. CASE T!TCP_accept \/ T!RunAcceptor
  <2>1. PICK t \in TcpThreads : T!accept_loop(t)
    <3>1. CASE T!TCP_accept
      <4>1. PICK d \in BOOLEAN : T!accept_loop([T!Lua EXCEPT !.call = "accept", !.timed = d])
        BY <3>1 DEF T!TCP_accept
      <4>2. [T!Lua EXCEPT !.call = "accept", !.timed = d] \in TcpThreads
        BY CallsAre
      <4> QED BY <4>1, <4>2
    <3>2. CASE T!RunAcceptor
      BY <3>2 DEF T!RunAcceptor, TcpTypeInv, TcpThreadsInv
    <3> QED BY <1>1, <3>1, <3>2
  <2>2. \/ acceptor' = T!Lua
        \/ listener.queue = <<>> /\ UNCHANGED listener /\ acceptor' = T!NothingThere(t)
    BY <2>1 DEF T!accept_loop
  <2>3. T!NothingThere(t) = T!Lua \/ (T!NothingThere(t) = T!Suspend(t) /\ ~t.late)
    BY <2>1, NothingIs
  <2> QED BY <2>2, <2>3
<1>2. CASE T!DispatchAccept
  BY <1>2 DEF T!DispatchAccept
<1>3. CASE T!Timer
  BY <1>3 DEF T!Timer
<1>4. \/ T!TCP_accept \/ T!RunAcceptor \/ T!DispatchAccept \/ T!Timer
      \/ UNCHANGED acceptor
  <2> USE DEF T!handle_accept, T!handle_connected, T!handle_recv_fin, T!handle_poll, T!threads,
     T!handle_err, T!TCP_connect, T!TCP_send, T!TCP_close, T!TCP_close_listener,
     T!DispatchRecv, T!DispatchSend, T!RunSender, T!PeerSends, T!handle_recv, T!PeerCloses,
     T!handle_sent, T!send_loop, T!TCP_shutdown, T!TCP_recv, T!RunReceiver, T!recv_loop, T!connect_loop
  <2> QED BY DEF T!Next
<1> QED BY <1>1, <1>2, <1>3, <1>4

ReceiverStep ==
    \/ UNCHANGED receiver
    \/ receiver' = T!Lua
    \/ receiver' = T!Ready(receiver)
    \/ T!Expires(receiver, receiver')
    \/ /\ receiver' \in TcpThreads /\ receiver'.pc = "suspended" /\ receiver'.late = FALSE
       /\ receiver'.call = "connect" /\ receiver'.res = "none"
       /\ T!TCP_connect /\ pcb = "new" /\ pcb' = "connecting" /\ tcp.err = "OK"
       /\ UNCHANGED tcp
    \/ /\ receiver' = T!Suspend(receiver) /\ ~receiver.late /\ receiver.pc = "ready"
       /\ ConnectStep /\ tcp.err = "OK" /\ ~tcp.connected /\ receiver.call = "connect"
       /\ UNCHANGED tcp
    \/ RecvStep

LEMMA ReceiverIs == TcpTypeInv /\ T!Next => ReceiverStep
<1> SUFFICES ASSUME TcpTypeInv, T!Next PROVE ReceiverStep
  OBVIOUS
<1> USE DEF ReceiverStep
<1>1. CASE T!TCP_connect
  <2>1. \/ receiver' = T!Lua
        \/ /\ tcp.err = "OK" /\ pcb = "new" /\ pcb' = "connecting" /\ UNCHANGED tcp
           /\ \E d \in BOOLEAN :
                receiver' = [T!Lua EXCEPT !.call = "connect", !.timed = d, !.pc = "suspended"]
    BY <1>1 DEF T!TCP_connect
  <2> QED BY <1>1, <2>1, CallsAre
<1>2. CASE ConnectStep
  <2>1. receiver \in TcpThreads
    BY DEF TcpTypeInv, TcpThreadsInv
  <2>2. /\ receiver' = IF tcp.err # "OK" THEN T!Lua
                      ELSE IF tcp.connected THEN T!Lua ELSE T!NothingThere(receiver)
        /\ UNCHANGED tcp
    BY <1>2 DEF ConnectStep, T!connect_loop
  <2>3. receiver.pc = "ready" /\ receiver.call = "connect"
    BY <1>2 DEF ConnectStep
  <2> QED BY <1>2, <2>1, <2>2, <2>3, NothingIs
<1>3. CASE T!DispatchRecv
  BY <1>3 DEF T!DispatchRecv
<1>4. CASE T!Timer
  BY <1>4 DEF T!Timer
<1>5. \/ T!TCP_connect \/ T!TCP_recv \/ T!RunReceiver \/ T!DispatchRecv \/ T!Timer
      \/ UNCHANGED receiver
  <2> USE DEF T!handle_accept, T!handle_connected, T!handle_recv_fin, T!handle_poll, T!threads,
     T!handle_err, T!TCP_send, T!TCP_close, T!TCP_close_listener, T!TCP_accept, T!RunAcceptor,
     T!DispatchAccept, T!DispatchSend, T!RunSender, T!PeerSends, T!handle_recv, T!PeerCloses,
     T!handle_sent, T!send_loop, T!TCP_shutdown, T!accept_loop
  <2> QED BY DEF T!Next
<1> QED BY <1>1, <1>2, <1>3, <1>4, <1>5, RecvIs

\* A turn of send_loop(): it returns, or goes to the next string, or
\* suspends, or writes.
SendReturns ==
    \E res \in {"none", "ok"} :
       /\ sender' = T!Return(sender, res) /\ UNCHANGED written
       /\ res = "ok" => sender.index > Len(sender.msg)

SendGoesOn ==
    /\ sender.index <= Len(sender.msg) /\ sender.offset >= sender.msg[sender.index]
    /\ sender' \in TcpThreads /\ sender'.pc = "loop" /\ sender'.msg = sender.msg
    /\ sender'.res = sender.res /\ sender'.index = sender.index + 1 /\ sender'.offset = 0 /\ UNCHANGED written

SendSuspends ==
    /\ sender.index <= Len(sender.msg) /\ sender' = T!Suspend(sender) /\ tcp.err = "OK"
    /\ UNCHANGED <<written, tcp>>

SendWrites ==
    \E n \in Nat :
       /\ sender.index <= Len(sender.msg) /\ sender' = T!Advance(sender, n)
       /\ written' = written \o [i \in 1..n |-> <<sender.index, sender.offset + i>>]

SendTurn == SendReturns \/ SendGoesOn \/ SendSuspends \/ SendWrites

LEMMA SendTurnIs ==
    ASSUME TcpTypeInv, T!send_loop
    PROVE  SendTurn /\ sender.pc = "loop" /\ UNCHANGED <<listener, pcb, arg, tcp, T!events, acceptor, receiver, got>>
<1>0. sender \in TcpThreads /\ sender.pc = "loop"
  BY DEF TcpTypeInv, TcpThreadsInv, T!send_loop
<1>1. /\ sender.index \in Nat \ {0} /\ sender.offset \in Nat /\ sender.msg \in Seq(Nat)
  BY <1>0 DEF TcpThreads
<1>2. ASSUME sender.index > Len(sender.msg) PROVE SendTurn
  <2>1. \/ sender' = T!Return(sender, "none") /\ UNCHANGED written
        \/ sender' = T!Return(sender, "ok") /\ UNCHANGED written
    BY <1>2 DEF T!send_loop
  <2>2. SendReturns
    BY <1>2, <2>1 DEF SendReturns
  <2> QED BY <2>2 DEF SendTurn
<1>3. ASSUME sender.index <= Len(sender.msg), ~(sender.offset < sender.msg[sender.index])
      PROVE  SendTurn
  <2>1. sender.msg[sender.index] \in Nat
    BY <1>1, <1>3, ElementOfSeq
  <2>2. sender' = [sender EXCEPT !.index = sender.index + 1, !.offset = 0] /\ UNCHANGED written
    BY <1>1, <1>3 DEF T!send_loop
  <2> DEFINE x == sender.index + 1
             z == 0
  <2>3. x \in Nat \ {0} /\ z \in Nat /\ sender' = [sender EXCEPT !.index = x, !.offset = z]
    BY <1>1, <2>2
  <2> HIDE DEF x, z
  <2>4. sender' \in TcpThreads /\ sender'.pc = sender.pc /\ sender'.msg = sender.msg
        /\ sender'.res = sender.res /\ sender'.index = x /\ sender'.offset = z
    BY <1>0, <2>3 DEF TcpThreads
  <2>5. sender.offset >= sender.msg[sender.index]
    BY <1>1, <1>3, <2>1
  <2>6. SendGoesOn
    BY <1>0, <1>3, <2>2, <2>4, <2>5 DEF SendGoesOn, x, z
  <2> QED BY <2>6 DEF SendTurn
<1>4. ASSUME sender.index <= Len(sender.msg), sender.offset < sender.msg[sender.index]
      PROVE  SendTurn
  <2>0. T!Write(sender)
    BY <1>1, <1>4 DEF T!send_loop
  <2>1. sender.msg[sender.index] \in Nat /\ peer.room \in Int
    BY <1>1, <1>4, ElementOfSeq DEF TcpTypeInv, TcpPeerInv
  <2> DEFINE size == sender.msg[sender.index]
             sz == IF peer.room < size THEN peer.room ELSE size
  <2>2. \/ sender' = T!Return(sender, "none") /\ UNCHANGED written
        \/ sender' = T!Suspend(sender) /\ UNCHANGED written /\ tcp.err = "OK"
        \/ /\ sz > 0 /\ sender' = T!Advance(sender, sz)
           /\ written' = written \o [i \in 1..sz |-> <<sender.index, sender.offset + i>>]
    BY <2>0 DEF T!Write
  <2>3. sz > 0 => sz \in Nat
    BY <2>1
  <2> HIDE DEF sz
  <2>4. CASE sender' = T!Return(sender, "none") /\ UNCHANGED written
    <3>1. SendReturns
      BY <2>4 DEF SendReturns
    <3> QED BY <3>1 DEF SendTurn
  <2>5. CASE sender' = T!Suspend(sender) /\ UNCHANGED written /\ tcp.err = "OK"
    <3>1. SendSuspends
      BY <1>4, <2>5 DEF SendSuspends, T!send_loop
    <3> QED BY <3>1 DEF SendTurn
  <2>6. CASE /\ sz > 0 /\ sender' = T!Advance(sender, sz)
             /\ written' = written \o [i \in 1..sz |-> <<sender.index, sender.offset + i>>]
    <3>1. SendWrites
      BY <1>4, <2>3, <2>6 DEF SendWrites
    <3> QED BY <3>1 DEF SendTurn
  <2> QED BY <2>2, <2>4, <2>5, <2>6
<1>5. UNCHANGED <<listener, pcb, arg, tcp, T!events, acceptor, receiver, got>>
  BY DEF T!send_loop
<1> QED BY <1>0, <1>1, <1>2, <1>3, <1>4, <1>5

\* The sender is resumed, or its deadline is reached, or it runs.
SenderRuns ==
    /\ sender' \in TcpThreads /\ sender'.msg = sender.msg /\ sender'.res = sender.res
    /\ sender'.index = sender.index /\ sender'.offset = sender.offset
    /\ sender.pc = "lua" <=> sender'.pc = "lua"
    /\ sender'.pc # "suspended"
    /\ UNCHANGED written

SenderCalls ==
    /\ sender' \in TcpThreads /\ sender'.pc = "loop" /\ sender'.res = "none"
    /\ sender'.index = 1 /\ sender'.offset = 0 /\ written' = <<>>

SenderStep ==
    \/ UNCHANGED <<sender, written>>
    \/ SenderRuns
    \/ SenderCalls
    \/ SendTurn /\ sender.pc = "loop"

LEMMA SenderIs == TcpTypeInv /\ T!Next => SenderStep
<1> SUFFICES ASSUME TcpTypeInv, T!Next PROVE SenderStep
  OBVIOUS
<1>0. sender \in TcpThreads
  BY DEF TcpTypeInv, TcpThreadsInv
<1>1. CASE T!send_loop
  BY <1>1, SendTurnIs DEF SenderStep
<1>2. CASE T!TCP_send
  <2>1. PICK msg \in {[k \in 1..Strings |-> k]}, d \in BOOLEAN :
          sender' = [T!Lua EXCEPT !.pc = "loop", !.call = "send", !.msg = msg, !.timed = d]
    BY <1>2 DEF T!TCP_send
  <2>2. msg \in Seq(Nat)
    BY MessagesAre
  <2>3. T!Lua \in TcpThreads /\ T!Lua.index = 1 /\ T!Lua.offset = 0
        /\ T!Lua.res = "none"
    BY LuaIs
  <2>4. /\ sender' \in TcpThreads /\ sender'.pc = "loop"
        /\ sender'.res = T!Lua.res /\ sender'.index = T!Lua.index /\ sender'.offset = T!Lua.offset
    BY <2>1, <2>2, <2>3 DEF TcpThreads
  <2>5. SenderCalls
    BY <1>2, <2>3, <2>4 DEF SenderCalls, T!TCP_send
  <2> QED BY <2>5 DEF SenderStep
<1>3. CASE sender' = T!Ready(sender) /\ UNCHANGED written
  <2>1. SenderRuns
    BY <1>0, <1>3, ReadyIs DEF SenderRuns
  <2> QED BY <2>1 DEF SenderStep
<1>4. CASE T!Expires(sender, sender') /\ UNCHANGED written
  <2>1. SenderRuns
    BY <1>0, <1>4, ExpiresIs DEF SenderRuns
  <2> QED BY <2>1 DEF SenderStep
<1>5. CASE T!RunSender
  <2>1. sender' = [sender EXCEPT !.pc = "loop"] /\ sender.pc = "ready" /\ UNCHANGED written
    BY <1>5 DEF T!RunSender
  <2>2. SenderRuns
    BY <1>0, <2>1 DEF SenderRuns, TcpThreads
  <2> QED BY <2>2 DEF SenderStep
<1>6. CASE T!DispatchSend \/ T!Timer
  <2>1. \/ sender' = T!Ready(sender) /\ UNCHANGED written
        \/ T!Expires(sender, sender') /\ UNCHANGED written
        \/ UNCHANGED <<sender, written>>
    BY <1>6 DEF T!DispatchSend, T!Timer
  <2> QED BY <1>3, <1>4, <2>1 DEF SenderStep
<1>7. \/ T!send_loop \/ T!TCP_send \/ T!RunSender \/ T!DispatchSend \/ T!Timer
      \/ UNCHANGED <<sender, written>>
  <2> USE DEF T!handle_accept, T!handle_connected, T!handle_recv_fin, T!handle_poll, T!threads,
     T!handle_err, T!TCP_close, T!TCP_close_listener, T!TCP_accept, T!RunAcceptor,
     T!DispatchAccept, T!DispatchRecv, T!PeerSends, T!handle_recv, T!PeerCloses,
     T!handle_sent, T!TCP_shutdown, T!accept_loop, T!TCP_connect, T!TCP_recv, T!RunReceiver,
     T!recv_loop, T!connect_loop
  <2> QED BY DEF T!Next
<1> QED BY <1>1, <1>2, <1>5, <1>6, <1>7 DEF SenderStep

LEMMA ThreadsTypeInv == TcpTypeInv /\ T!Next => TcpThreadsInv'
<1> SUFFICES ASSUME TcpTypeInv, T!Next PROVE TcpThreadsInv'
  OBVIOUS
<1>0. acceptor \in TcpThreads /\ receiver \in TcpThreads /\ sender \in TcpThreads
  BY DEF TcpTypeInv, TcpThreadsInv
<1>1. acceptor' \in TcpThreads
  BY <1>0, AcceptorIs, LuaIs, ReadyIs, ExpiresIs, SuspendIs DEF AcceptorStep
<1>2. receiver' \in TcpThreads
  <2>1. CASE RecvStep
    <3>1. PICK t \in TcpThreads : T!recv_loop(t)
      BY <2>1 DEF RecvStep
    <3>2. PICK n \in Nat : receiver' = T!Outcome(t, n)
      BY <3>1, RecvLoopIs
    <3> QED BY <3>2, OutcomeIs, LuaIs, SuspendIs
  <2> QED BY <1>0, <2>1, ReceiverIs, LuaIs, ReadyIs, ExpiresIs, SuspendIs DEF ReceiverStep
<1>3. sender' \in TcpThreads
  <2>1. CASE SendTurn
    <3>1. CASE SendReturns
      BY <1>0, <3>1, ReturnIs DEF SendReturns
    <3>2. CASE SendWrites
      BY <1>0, <3>2, AdvanceIs DEF SendWrites
    <3> QED BY <1>0, <2>1, <3>1, <3>2, SuspendIs DEF SendTurn, SendGoesOn, SendSuspends
  <2> QED BY <1>0, <2>1, SenderIs DEF SenderStep, SenderRuns, SenderCalls
<1> QED BY <1>1, <1>2, <1>3 DEF TcpThreadsInv

LEMMA TcpTypePreserved == TcpTypeInv /\ [T!Next]_T!vars => TcpTypeInv'
<1> SUFFICES ASSUME TcpTypeInv, [T!Next]_T!vars PROVE TcpTypeInv'
  OBVIOUS
<1>1. CASE T!Next
  BY <1>1, ListenerTypeInv, SocketTypeInv, SocketPeerInv, ThreadsTypeInv DEF TcpTypeInv
<1>2. CASE UNCHANGED T!vars
  BY <1>2 DEF T!vars, T!events, T!threads, TcpTypeInv, TcpListenerInv, TcpSocketInv, TcpPeerInv, TcpThreadsInv
<1> QED BY <1>1, <1>2

-----------------------------------------------------------------------------
(* TcpSocket: who is told. *)

\* A socket has a PCB as long as it has no error.
TcpOkInv == tcp.err = "OK" <=> ~T!Gone

\* The connection that is followed is in the accept queue only before it is
\* accepted, and a listener that is open has an event.
TcpQueueInv ==
    /\ \A i \in 1..Len(listener.queue) : listener.queue[i] = "this" => pcb \in {"queued", "reset"}
    /\ listener.err = "OK" => listener.ev # "disabled"

\* A connection has its events, and nobody waits for one that is not accepted.
TcpEventsInv ==
    /\ pcb \in {"none", "queued", "reset", "new", "connecting"} => tcp.connected = FALSE
    /\ pcb \in {"none", "queued", "reset"} => receiver.pc = "lua"
    /\ pcb \in {"connecting", "open"} => recv_event # "disabled" /\ send_event # "disabled"

TcpPcbInv == TcpOkInv /\ TcpQueueInv /\ TcpEventsInv

LEMMA ReadKeeps ==
    ASSUME TcpTypeInv, RecvStep
    PROVE  /\ tcp'.err = tcp.err /\ tcp'.connected = tcp.connected /\ tcp'.rx_closed = tcp.rx_closed
           /\ send_event' = send_event \/ send_event' = T!Set(send_event)
           /\ UNCHANGED <<listener, pcb, arg, recv_event, acceptor, sender, written>>
           /\ pcb \in {"none", "queued", "reset"} => receiver.pc = "ready"
<1>1. PICK t \in TcpThreads : /\ T!recv_loop(t)
                              /\ pcb \in {"none", "queued", "reset"} => receiver.pc = "ready"
  BY DEF RecvStep
<1>2. PICK n \in Nat :
         /\ n <= Len(T!Unread)
         /\ tcp' = T!AfterReading(n)
         /\ send_event' = send_event \/ send_event' = T!Set(send_event)
         /\ UNCHANGED <<listener, pcb, arg, acceptor, sender, written>>
  BY <1>1, RecvLoopIs
<1>3. tcp'.err = tcp.err /\ tcp'.connected = tcp.connected /\ tcp'.rx_closed = tcp.rx_closed
  BY <1>2, ReadingIs
<1> QED BY <1>1, <1>2, <1>3 DEF RecvStep

LEMMA PcbInit == T!Init => TcpPcbInv
<1> SUFFICES ASSUME T!Init PROVE TcpPcbInv
  OBVIOUS
<1>1. listener.queue = <<>> /\ (listener.err = "OK" => listener.ev # "disabled")
  <2>1. /\ T!NoListener.queue = <<>> /\ T!NoListener.err = "CLSD"
        /\ [T!NoListener EXCEPT !.err = "OK", !.ev = "enabled"].queue = <<>>
        /\ [T!NoListener EXCEPT !.err = "OK", !.ev = "enabled"].ev = "enabled"
    BY DEF T!NoListener
  <2>2. \/ listener = T!NoListener
        \/ listener = [T!NoListener EXCEPT !.err = "OK", !.ev = "enabled"]
    BY DEF T!Init
  <2> QED BY <2>1, <2>2
<1>2. TcpQueueInv
  BY <1>1 DEF TcpQueueInv
<1>3. tcp.err = "OK" /\ tcp.connected = FALSE /\ pcb \in {"new", "none"} /\ receiver.pc = "lua"
  BY LuaIs DEF T!Init
<1> QED BY <1>2, <1>3 DEF TcpPcbInv, TcpOkInv, TcpEventsInv, T!Gone

LEMMA PcbInvPreserved == TcpTypeInv /\ TcpPcbInv /\ [T!Next]_T!vars => TcpPcbInv'
<1> SUFFICES ASSUME TcpTypeInv, TcpPcbInv, [T!Next]_T!vars PROVE TcpPcbInv'
  OBVIOUS
<1> USE DEF TcpPcbInv
<1>t. /\ listener \in [err : {"OK", "CLSD"}, queue : Seq({"this", "other"}), ev : T!Events]
      /\ tcp \in [err : {"OK", "RST", "CLSD"}, connected : BOOLEAN, rx_closed : BOOLEAN,
                  recv_head : Chains, recv_off : Nat]
      /\ receiver \in TcpThreads
  BY DEF TcpTypeInv, TcpListenerInv, TcpSocketInv, TcpThreadsInv
<1>1. CASE \E c \in {"this", "other"} : T!handle_accept(c)
  <2>0. PICK c \in {"this", "other"} : T!handle_accept(c)
    BY <1>1
  <2>1. /\ listener' = [listener EXCEPT !.queue = Append(listener.queue, c), !.ev = T!Set(listener.ev)]
        /\ c = "this" => pcb = "none" /\ pcb' = "queued"
        /\ c = "other" => pcb' = pcb
        /\ UNCHANGED <<tcp, T!events, T!threads>>
    BY <2>0 DEF T!handle_accept
  <2>2. listener'.queue = Append(listener.queue, c) /\ listener'.err = listener.err
        /\ listener'.ev = T!Set(listener.ev)
    BY <1>t, <2>1
  <2>3. TcpQueueInv'
    <3>1. \A i \in 1..Len(listener'.queue) :
             listener'.queue[i] = "this" => pcb' \in {"queued", "reset"}
      <4>1. TAKE i \in 1..Len(listener'.queue)
      <4>2. listener.queue \in Seq({"this", "other"})
        BY <1>t
      <4> DEFINE q == listener.queue
      <4>3. \/ i \in 1..Len(q) /\ Append(q, c)[i] = q[i]
            \/ i = Len(q) + 1 /\ Append(q, c)[i] = c
        BY <2>2, <4>1, <4>2, AppendProperties
      <4> HIDE DEF q
      <4>4. i \in 1..Len(q) /\ q[i] = "this" => pcb \in {"queued", "reset"}
        BY DEF TcpQueueInv, q
      <4> QED BY <2>1, <2>2, <4>3, <4>4 DEF q
    <3>2. listener'.err = "OK" => listener'.ev # "disabled"
      BY <2>2 DEF TcpQueueInv, T!Set
    <3> QED BY <3>1, <3>2 DEF TcpQueueInv
  <2> QED BY <2>1, <2>3 DEF TcpOkInv, TcpEventsInv, T!Gone, T!events, T!threads
<1>12. CASE T!handle_err /\ pcb = "queued"
  <2>1. /\ pcb' = "reset" /\ UNCHANGED <<listener, receiver, tcp, recv_event, send_event>>
    BY <1>12 DEF T!handle_err, T!threads, T!events
  <2> QED BY <1>12, <2>1 DEF TcpOkInv, TcpQueueInv, TcpEventsInv, T!Gone
<1>2. CASE \/ T!handle_connected \/ T!handle_recv_fin
           \/ T!handle_err /\ pcb # "queued"
  <2>1. /\ UNCHANGED <<listener, receiver>>
        /\ recv_event' = T!Set(recv_event) /\ (UNCHANGED send_event \/ send_event' = T!Set(send_event))
    BY <1>2 DEF T!handle_connected, T!handle_recv_fin, T!handle_err, T!TellSender, T!threads
  <2>2. \/ /\ pcb = "connecting" /\ pcb' = "open" /\ tcp'.err = tcp.err
        \/ /\ pcb = "open" /\ pcb' = "open" /\ tcp'.err = tcp.err
        \/ /\ pcb \in {"connecting", "open"} /\ pcb' = "gone" /\ tcp'.err = "RST"
    BY <1>2, <1>t DEF T!handle_connected, T!handle_recv_fin, T!handle_err
  <2>3. TcpEventsInv'
    BY <2>1, <2>2 DEF TcpEventsInv, T!Set
  <2>4. TcpOkInv' /\ TcpQueueInv'
    BY <2>1, <2>2 DEF TcpOkInv, TcpQueueInv, T!Gone
  <2> QED BY <2>3, <2>4
<1>3. CASE \E n \in 1..MaxPbuf : T!handle_recv(n)
  <2>0. PICK n \in 1..MaxPbuf : T!handle_recv(n)
    BY <1>3
  <2>1. /\ tcp'.err = tcp.err /\ pcb = "open" /\ recv_event' = T!Set(recv_event)
        /\ UNCHANGED <<listener, pcb, send_event, receiver>>
    <3>1. \E h : tcp' = [tcp EXCEPT !.recv_head = h]
      BY <2>0 DEF T!handle_recv
    <3> QED BY <1>t, <2>0, <3>1 DEF T!handle_recv, T!threads
  <2> QED BY <2>1 DEF TcpOkInv, TcpQueueInv, TcpEventsInv, T!Gone, T!Set
<1>4. CASE T!TCP_accept \/ T!RunAcceptor
  <2>1. PICK t : T!accept_loop(t)
    BY <1>4 DEF T!TCP_accept, T!RunAcceptor
  <2>2. CASE UNCHANGED <<listener, pcb, arg, tcp, T!events>>
    BY <2>1, <2>2 DEF T!accept_loop, TcpOkInv, TcpQueueInv, TcpEventsInv, T!Gone, T!events
  <2>3. CASE /\ listener.queue # <<>> /\ Head(listener.queue) = "this"
             /\ pcb' \in {"open", "freed"} /\ recv_event' = "enabled" /\ send_event' = "enabled"
             /\ tcp' = [tcp EXCEPT !.connected = TRUE]
             /\ listener' = T!NoListener
    <3>1. pcb \in {"queued", "reset"}
      BY <1>t, <2>3 DEF TcpQueueInv
    <3>2. tcp'.err = tcp.err
      BY <1>t, <2>3
    <3>3. listener'.queue = <<>> /\ listener'.err # "OK"
      BY <2>3 DEF T!NoListener
    <3>4. TcpQueueInv'
      BY <3>3 DEF TcpQueueInv
    <3> QED BY <2>3, <3>1, <3>2, <3>4 DEF TcpOkInv, TcpEventsInv, T!Gone
  <2>4. CASE /\ listener.queue # <<>>
             /\ listener' = [listener EXCEPT !.queue = Tail(@)]
             /\ UNCHANGED <<pcb, arg, tcp, T!events>>
    <3>1. listener'.queue = Tail(listener.queue) /\ listener'.err = listener.err /\ listener'.ev = listener.ev
      BY <1>t, <2>4
    <3> DEFINE q == listener.queue
    <3>2. q \in Seq({"this", "other"}) /\ q # <<>>
      BY <1>t, <2>4
    <3>3. \A i \in 1..Len(q) : q[i] = "this" => pcb \in {"queued", "reset"}
      BY DEF TcpQueueInv
    <3> HIDE DEF q
    <3>4. \A i \in 1..Len(Tail(q)) : i + 1 \in 1..Len(q) /\ Tail(q)[i] = q[i + 1]
      BY <3>2
    <3>5. \A i \in 1..Len(Tail(q)) : Tail(q)[i] = "this" => pcb \in {"queued", "reset"}
      BY <3>3, <3>4
    <3>6. TcpQueueInv'
      BY <2>4, <3>1, <3>5 DEF TcpQueueInv, q
    <3>7. receiver' = receiver
      BY <2>1 DEF T!accept_loop
    <3> QED BY <2>4, <3>6, <3>7 DEF TcpOkInv, TcpEventsInv, T!Gone, T!events
  <2> QED BY <2>1, <2>2, <2>3, <2>4 DEF T!accept_loop
<1>5. CASE T!TCP_connect
  <2>1. /\ UNCHANGED <<listener, tcp>>
        /\ \/ receiver' = T!Lua /\ UNCHANGED <<pcb, T!events>>
           \/ /\ receiver' = T!Lua /\ recv_event' = "enabled" /\ send_event' = "enabled" /\ UNCHANGED pcb
           \/ /\ pcb = "new" /\ pcb' = "connecting" /\ recv_event' = "enabled" /\ send_event' = "enabled"
    BY <1>5 DEF T!TCP_connect
  <2>2. TcpOkInv' /\ TcpQueueInv'
    BY <2>1 DEF TcpOkInv, TcpQueueInv, T!Gone
  <2>3. TcpEventsInv'
    BY <2>1, LuaIs DEF TcpEventsInv, T!events
  <2> QED BY <2>2, <2>3
<1>6. CASE RecvStep
  <2>1. /\ tcp'.err = tcp.err /\ tcp'.connected = tcp.connected
        /\ send_event' = send_event \/ send_event' = T!Set(send_event)
        /\ UNCHANGED <<listener, pcb, recv_event>>
        /\ pcb \notin {"none", "queued", "reset"}
    BY <1>6, ReadKeeps DEF TcpEventsInv
  <2> QED BY <2>1 DEF TcpOkInv, TcpQueueInv, TcpEventsInv, T!Gone, T!Set
<1>7. CASE ConnectStep
  <2>1. UNCHANGED <<listener, pcb, tcp, recv_event, send_event>> /\ receiver.pc = "ready"
    BY <1>7 DEF ConnectStep, T!connect_loop
  <2> QED BY <2>1 DEF TcpOkInv, TcpQueueInv, TcpEventsInv, T!Gone
<1>8. CASE (\E rx, tx \in BOOLEAN : T!TCP_shutdown(rx, tx)) \/ T!TCP_close
  <2>1. /\ pcb \notin {"none", "queued", "reset"}
        /\ UNCHANGED <<listener, receiver>>
        /\ \/ pcb' = "gone" /\ tcp'.err = "CLSD"
           \/ UNCHANGED <<pcb, tcp, T!events>>
           \/ pcb' = "closed" /\ tcp'.err # "OK"
    <3>1. CASE \E rx, tx \in BOOLEAN : T!TCP_shutdown(rx, tx)
      BY <1>t, <3>1 DEF T!TCP_shutdown, T!threads
    <3>2. CASE T!TCP_close
      <4>1. T!Err # "OK" /\ \E h : tcp' = [tcp EXCEPT !.err = T!Err, !.recv_head = h]
        BY <3>2 DEF T!TCP_close, T!Err, T!UsesPcb
      <4> QED BY <1>t, <3>2, <4>1 DEF T!TCP_close, T!threads
    <3> QED BY <1>8, <3>1, <3>2
  <2> QED BY <2>1 DEF TcpOkInv, TcpQueueInv, TcpEventsInv, T!Gone, T!events
<1>9. CASE T!TCP_close_listener
  <2>1. /\ listener'.queue = <<>> /\ listener'.err # "OK"
        /\ \/ pcb \in {"queued", "reset"} /\ pcb' = "none"
           \/ pcb \notin {"queued", "reset"} /\ pcb' = pcb
        /\ UNCHANGED <<tcp, T!events, T!threads>>
    BY <1>9 DEF T!TCP_close_listener, T!NoListener
  <2>2. TcpQueueInv'
    BY <2>1 DEF TcpQueueInv
  <2> QED BY <2>1, <2>2 DEF TcpOkInv, TcpEventsInv, T!Gone, T!events, T!threads
<1>10. CASE T!DispatchAccept \/ T!DispatchRecv \/ T!DispatchSend \/ T!Timer
  <2>1. /\ listener'.queue = listener.queue /\ listener'.err = listener.err
        /\ UNCHANGED listener \/ listener'.ev = "enabled"
        /\ UNCHANGED <<pcb, tcp>>
        /\ UNCHANGED recv_event \/ recv_event' = "enabled"
        /\ UNCHANGED send_event \/ send_event' = "enabled"
    BY <1>10, <1>t DEF T!DispatchAccept, T!DispatchRecv, T!DispatchSend, T!Timer, T!events
  <2>2. receiver.pc = "lua" => receiver'.pc = "lua"
    <3>1. UNCHANGED receiver \/ receiver' = T!Ready(receiver) \/ T!Expires(receiver, receiver')
      BY <1>10 DEF T!DispatchAccept, T!DispatchRecv, T!DispatchSend, T!Timer
    <3> QED BY <1>t, <3>1, ReadyIs, ExpiresIs
  <2> QED BY <2>1, <2>2 DEF TcpOkInv, TcpQueueInv, TcpEventsInv, T!Gone
<1>11. CASE \/ UNCHANGED T!vars
            \/ \E n \in 1..MaxUnits : T!PeerSends(n)
            \/ T!PeerCloses
            \/ \E n \in 1..SndBuf : T!handle_sent(n)
            \/ T!handle_poll \/ T!send_loop \/ T!TCP_send \/ T!RunSender
  <2>1. /\ UNCHANGED <<listener, pcb, tcp, recv_event, receiver>>
        /\ UNCHANGED send_event \/ send_event' = T!Set(send_event)
    <3> USE DEF T!events, T!threads
    <3> QED BY <1>11 DEF T!vars, T!PeerSends, T!PeerCloses, T!handle_sent,
               T!handle_poll, T!send_loop, T!TCP_send, T!RunSender
  <2> QED BY <2>1 DEF TcpOkInv, TcpQueueInv, TcpEventsInv, T!Gone, T!Set
<1> QED BY <1>1, <1>2, <1>3, <1>4, <1>5, <1>6, <1>7, <1>8, <1>9, <1>10, <1>11, <1>12, RecvIs DEF T!Next

\* The length that recv() asks for is positive.
TcpLenInv == receiver.call = "recv" => receiver.len > 0

TcpToldInv == TcpLenInv /\ T!WaitersAreTold /\ T!DeadlinesHold

\* What is there for the receiver, and not yet told to it.
ThereIs ==
    \/ tcp.err = "RST"
    \/ receiver.call = "recv" /\ (T!Unread # <<>> \/ tcp.rx_closed)
    \/ receiver.call = "connect" /\ tcp.connected

ReceiverIsTold == receiver.pc = "suspended" /\ pcb # "closed" /\ ThereIs => recv_event = "pending"
SenderIsTold == sender.pc = "suspended" /\ pcb # "closed" /\ tcp.err = "RST" => send_event = "pending"
AcceptorIsTold == acceptor.pc = "suspended" /\ listener.queue # <<>> => listener.ev = "pending"

LEMMA ToldAre ==
    T!WaitersAreTold <=> AcceptorIsTold /\ ReceiverIsTold /\ SenderIsTold
BY DEF T!WaitersAreTold, AcceptorIsTold, ReceiverIsTold, SenderIsTold, ThereIs

\* What is left after reading is what was there but what was read.
LEMMA ReadLeaves ==
    ASSUME TcpTypeInv, TcpTypeInv', NEW n \in Nat, n <= Len(T!Unread), tcp' = T!AfterReading(n)
    PROVE  /\ Len(T!Unread') = Len(T!Unread) - n
           /\ \A i \in 1..Len(T!Unread') : i + n \in 1..Len(T!Unread) /\ T!Unread'[i] = T!Unread[i + n]
           /\ tcp.recv_off <= Len(tcp.recv_head) => tcp'.recv_off <= Len(tcp'.recv_head)
<1> DEFINE h == tcp.recv_head
           o == tcp.recv_off
           u == T!Unread
           v == T!Unread'
           g == tcp'.recv_head
           p == tcp'.recv_off
<1>1. PICK k \in 0..Len(h) : k <= o + n /\ g = SubSeq(h, k + 1, Len(h)) /\ p = (o + n) - k
  BY ReadingIs
<1>2. /\ u \in Seq(Nat) /\ Len(u) = IF o <= Len(h) THEN Len(h) - o ELSE 0
      /\ \A i \in 1..Len(u) : u[i] = h[o + i].unit /\ o + i \in 1..Len(h)
      /\ h \in Seq([unit : Nat, last : BOOLEAN]) /\ o \in Nat
  BY UnreadIs DEF Chains
<1>3. /\ v \in Seq(Nat) /\ Len(v) = IF p <= Len(g) THEN Len(g) - p ELSE 0
      /\ \A i \in 1..Len(v) : v[i] = g[p + i].unit /\ p + i \in 1..Len(g)
  BY UnreadNext
<1> HIDE DEF h, o, u, v, g, p
<1>4. Len(h) \in Nat /\ Len(g) = Len(h) - k /\ \A i \in 1..Len(g) : g[i] = h[k + i]
  <2>1. g = SubSeq(h, k + 1, Len(h)) /\ k \in 0..Len(h) /\ Len(h) \in Nat
    BY <1>1, <1>2
  <2>2. Len(SubSeq(h, k + 1, Len(h))) = Len(h) - k
    BY <1>2, <2>1
  <2>3. \A i \in 1..(Len(h) - k) : SubSeq(h, k + 1, Len(h))[i] = h[k + i]
    BY <1>2, <2>1
  <2> QED BY <2>1, <2>2, <2>3
<1>5. Len(v) = Len(u) - n
  BY <1>1, <1>2, <1>3, <1>4, n <= Len(u) DEF u
<1>6. \A i \in 1..Len(v) : i + n \in 1..Len(u) /\ v[i] = u[i + n]
  <2>1. TAKE i \in 1..Len(v)
  <2>2. i \in Nat /\ i + n \in 1..Len(u) /\ p + i \in 1..Len(g) /\ v[i] = g[p + i].unit
    BY <1>2, <1>3, <1>5
  <2>3. p \in Nat /\ k + (p + i) = o + (i + n)
    <3>1. p = (o + n) - k /\ k \in Nat /\ o \in Nat /\ k <= o + n
      BY <1>1, <1>2
    <3>2. i \in Nat
      BY <2>2
    <3> QED BY ONLY <3>1, <3>2, n \in Nat
  <2>4. g[p + i] = h[o + (i + n)]
    BY <1>4, <2>2, <2>3
  <2> QED BY <1>2, <2>2, <2>4
<1>7. o <= Len(h) => p <= Len(g)
  BY <1>1, <1>2, <1>4, n <= Len(u) DEF u
<1> QED BY <1>5, <1>6, <1>7 DEF h, o, u, v, g, p

\* While the receiver stays suspended, it is told of news.
LEMMA ReceiverNews ==
    ASSUME TcpTypeInv, TcpPcbInv, T!Next,
           receiver' = receiver, receiver.pc = "suspended", pcb' # "closed"
    PROVE  \/ recv_event' = "pending"
           \/ /\ pcb # "closed" /\ (ThereIs' => ThereIs)
              /\ recv_event = "pending" => recv_event' = "pending"
<1>t. /\ tcp \in TcpRecords /\ receiver \in TcpThreads
  BY DEF TcpTypeInv, TcpSocketInv, TcpRecords, TcpThreadsInv
<1>n. pcb \notin {"none", "queued", "reset"}
  BY DEF TcpPcbInv, TcpEventsInv
<1>s. ASSUME tcp'.err = tcp.err \/ tcp'.err = "CLSD", tcp'.connected = tcp.connected,
             tcp'.rx_closed = tcp.rx_closed, tcp'.recv_head = tcp.recv_head,
             tcp'.recv_off = tcp.recv_off
      PROVE  ThereIs' => ThereIs
  <2>1. T!Unread' = T!Unread
    BY <1>s DEF T!Unread
  <2> QED BY <1>s, <2>1 DEF ThereIs
<1>u. tcp' = tcp => (ThereIs' => ThereIs)
  BY <1>s
<1>1. CASE \/ T!handle_connected \/ T!handle_recv_fin \/ T!handle_err
           \/ \E n \in 1..MaxPbuf : T!handle_recv(n)
  <2>1. recv_event' = T!Set(recv_event) /\ pcb \in {"connecting", "open"}
    BY <1>1, <1>n DEF T!handle_connected, T!handle_recv_fin, T!handle_err, T!handle_recv
  <2> QED BY <2>1 DEF TcpPcbInv, TcpEventsInv, T!Set
<1>2. CASE T!TCP_accept \/ T!RunAcceptor
  <2>1. PICK t : T!accept_loop(t)
    BY <1>2 DEF T!TCP_accept, T!RunAcceptor
  <2>2. CASE UNCHANGED <<pcb, tcp, T!events>>
    BY <1>u, <2>2 DEF T!events
  <2>3. CASE listener.queue # <<>> /\ Head(listener.queue) = "this"
    <3>1. listener.queue \in Seq({"this", "other"})
      BY DEF TcpTypeInv, TcpListenerInv
    <3>2. pcb \in {"queued", "reset"}
      BY <2>3, <3>1 DEF TcpPcbInv, TcpQueueInv
    <3> QED BY <1>n, <3>2
  <2> QED BY <2>1, <2>2, <2>3 DEF T!accept_loop
<1>3. CASE T!TCP_connect \/ T!TCP_recv \/ T!RunReceiver
  BY <1>3 DEF T!TCP_connect, T!TCP_recv, T!RunReceiver
<1>4. CASE \E rx, tx \in BOOLEAN : T!TCP_shutdown(rx, tx)
  <2>1. /\ pcb # "closed" /\ recv_event' = recv_event
        /\ tcp' = tcp \/ tcp' = [tcp EXCEPT !.err = "CLSD"]
    BY <1>4 DEF T!TCP_shutdown, TcpPcbInv, TcpOkInv, T!UsesPcb, T!Gone, T!events
  <2>2. CASE tcp' = tcp
    BY <1>u, <2>1, <2>2
  <2>3. CASE tcp' = [tcp EXCEPT !.err = "CLSD"]
    <3>1. /\ tcp'.err = "CLSD" /\ tcp'.connected = tcp.connected /\ tcp'.rx_closed = tcp.rx_closed
          /\ tcp'.recv_head = tcp.recv_head /\ tcp'.recv_off = tcp.recv_off
      BY <1>t, <2>3 DEF TcpRecords
    <3> QED BY <1>s, <2>1, <3>1
  <2> QED BY <2>1, <2>2, <2>3
<1>5. CASE T!TCP_close
  BY <1>5 DEF T!TCP_close
<1>6. CASE T!DispatchRecv
  <2>1. receiver' = T!Ready(receiver)
    BY <1>6 DEF T!DispatchRecv
  <2> QED BY <1>t, <2>1, ReadyIs
<1>7. CASE \/ \E c \in {"this", "other"} : T!handle_accept(c)
           \/ \E n \in 1..MaxUnits : T!PeerSends(n)
           \/ T!PeerCloses
           \/ \E n \in 1..SndBuf : T!handle_sent(n)
           \/ T!handle_poll \/ T!send_loop \/ T!TCP_send \/ T!RunSender
           \/ T!DispatchAccept \/ T!DispatchSend \/ T!Timer \/ T!TCP_close_listener
  <2>1. UNCHANGED <<tcp, recv_event>>
    BY <1>7 DEF T!handle_accept, T!PeerSends, T!PeerCloses, T!handle_sent, T!handle_poll, T!send_loop,
       T!TCP_send, T!RunSender, T!DispatchAccept, T!DispatchSend, T!Timer, T!TCP_close_listener, T!events
  <2>2. pcb # "closed"
    BY <1>7, <1>n DEF T!handle_accept, T!PeerSends, T!PeerCloses, T!handle_sent, T!handle_poll, T!send_loop,
       T!TCP_send, T!RunSender, T!DispatchAccept, T!DispatchSend, T!Timer, T!TCP_close_listener
  <2> QED BY <1>u, <2>1, <2>2
<1> QED BY <1>1, <1>2, <1>3, <1>4, <1>5, <1>6, <1>7 DEF T!Next

\* While the sender stays suspended, it is told of an error.
LEMMA SenderNews ==
    ASSUME TcpTypeInv, TcpPcbInv, T!Next,
           sender' = sender, sender.pc = "suspended", pcb' # "closed", tcp'.err = "RST",
           SenderIsTold
    PROVE  send_event' = "pending"
<1>t. /\ tcp \in TcpRecords /\ sender \in TcpThreads
  BY DEF TcpTypeInv, TcpSocketInv, TcpRecords, TcpThreadsInv
<1>1. CASE T!handle_err
  <2>1. pcb # "queued"
    BY <1>1 DEF T!handle_err, TcpPcbInv, TcpOkInv, T!Gone
  <2> QED BY <1>1, <2>1 DEF T!handle_err, T!TellSender, TcpPcbInv, TcpEventsInv, T!Set
<1>2. ASSUME tcp.err = "RST", pcb # "closed",
             send_event' = send_event \/ send_event' = T!Set(send_event)
      PROVE  send_event' = "pending"
  BY <1>2 DEF SenderIsTold, T!Set
<1>3. CASE T!handle_connected \/ T!handle_recv_fin \/ (\E n \in 1..MaxPbuf : T!handle_recv(n))
  <2>1. tcp'.err = tcp.err
    <3>1. CASE T!handle_connected \/ T!handle_recv_fin
      BY <1>t, <3>1 DEF T!handle_connected, T!handle_recv_fin, TcpRecords
    <3>2. CASE \E n \in 1..MaxPbuf : T!handle_recv(n)
      <4>1. \E h : tcp' = [tcp EXCEPT !.recv_head = h]
        BY <3>2 DEF T!handle_recv
      <4> QED BY <1>t, <4>1 DEF TcpRecords
    <3> QED BY <1>3, <3>1, <3>2
  <2>2. pcb # "closed" /\ send_event' = send_event
    BY <1>3 DEF T!handle_connected, T!handle_recv_fin, T!handle_recv
  <2> QED BY <1>2, <2>1, <2>2
<1>4. CASE T!TCP_accept \/ T!RunAcceptor
  <2>1. PICK t : T!accept_loop(t)
    BY <1>4 DEF T!TCP_accept, T!RunAcceptor
  <2>2. CASE UNCHANGED <<pcb, tcp, T!events>>
    BY <1>2, <2>2 DEF T!events
  <2>3. CASE listener.queue # <<>> /\ Head(listener.queue) = "this" /\ tcp' = [tcp EXCEPT !.connected = TRUE]
    <3>1. listener.queue \in Seq({"this", "other"})
      BY DEF TcpTypeInv, TcpListenerInv
    <3>2. pcb \in {"queued", "reset"}
      BY <2>3, <3>1 DEF TcpPcbInv, TcpQueueInv
    <3>3. tcp'.err = tcp.err
      BY <1>t, <2>3 DEF TcpRecords
    <3> QED BY <3>2, <3>3 DEF TcpPcbInv, TcpOkInv, T!Gone
  <2> QED BY <2>1, <2>2, <2>3 DEF T!accept_loop
<1>5. CASE T!TCP_connect
  <2>1. tcp' = tcp
    BY <1>5 DEF T!TCP_connect
  <2>2. CASE pcb = "closed"
    BY <1>5, <2>2 DEF T!TCP_connect
  <2>3. CASE pcb # "closed"
    <3>1. send_event = "pending"
      BY <2>1, <2>3 DEF SenderIsTold
    <3>2. {recv_event, send_event} # {"disabled"}
      BY <3>1
    <3>3. UNCHANGED T!events
      BY <1>5, <3>2 DEF T!TCP_connect
    <3> QED BY <3>1, <3>3 DEF T!events
  <2> QED BY <2>2, <2>3
<1>6. CASE RecvStep
  BY <1>2, <1>6, ReadKeeps
<1>7. CASE ConnectStep
  BY <1>2, <1>7 DEF ConnectStep, T!connect_loop
<1>8. CASE \E rx, tx \in BOOLEAN : T!TCP_shutdown(rx, tx)
  <2>1. /\ pcb # "closed" /\ send_event' = send_event /\ tcp.err = "OK"
        /\ tcp' = tcp \/ tcp' = [tcp EXCEPT !.err = "CLSD"]
    BY <1>8 DEF T!TCP_shutdown, TcpPcbInv, TcpOkInv, T!UsesPcb, T!Gone, T!events
  <2> QED BY <1>t, <2>1 DEF TcpRecords
<1>9. CASE T!TCP_close
  BY <1>9 DEF T!TCP_close
<1>10. CASE T!DispatchSend
  <2>1. sender' = T!Ready(sender)
    BY <1>10 DEF T!DispatchSend
  <2> QED BY <1>t, <2>1, ReadyIs
<1>11. CASE \/ \E c \in {"this", "other"} : T!handle_accept(c)
            \/ \E n \in 1..MaxUnits : T!PeerSends(n)
            \/ T!PeerCloses
            \/ \E n \in 1..SndBuf : T!handle_sent(n)
            \/ T!handle_poll \/ T!send_loop \/ T!TCP_send \/ T!RunSender
            \/ T!DispatchAccept \/ T!DispatchRecv \/ T!Timer \/ T!TCP_close_listener
  <2>1. tcp' = tcp /\ (send_event' = send_event \/ send_event' = T!Set(send_event))
    BY <1>11 DEF T!handle_accept, T!PeerSends, T!PeerCloses, T!handle_sent, T!handle_poll, T!send_loop,
       T!TCP_send, T!RunSender, T!DispatchAccept, T!DispatchRecv, T!Timer, T!TCP_close_listener, T!events
  <2>2. pcb # "closed"
    <3>1. tcp.err # "OK"
      BY <2>1
    <3>2. T!Gone
      BY <3>1 DEF TcpPcbInv, TcpOkInv
    <3> QED BY <1>11, <3>2 DEF T!Gone, T!handle_accept, T!PeerSends, T!PeerCloses, T!handle_sent, T!handle_poll, T!send_loop,
       T!TCP_send, T!RunSender, T!DispatchAccept, T!DispatchRecv, T!Timer, T!TCP_close_listener
  <2> QED BY <1>2, <2>1, <2>2
<1> QED BY <1>1, <1>3, <1>4, <1>5, <1>6, <1>7, <1>8, <1>9, <1>10, <1>11, RecvIs DEF T!Next

LEMMA AcceptorToldInv ==
    ASSUME TcpTypeInv, TcpPcbInv, AcceptorIsTold, T!Next
    PROVE  AcceptorIsTold'
<1> SUFFICES ASSUME acceptor'.pc = "suspended", listener'.queue # <<>>
             PROVE  listener'.ev = "pending"
  BY DEF AcceptorIsTold
<1>t. /\ listener \in [err : {"OK", "CLSD"}, queue : Seq({"this", "other"}), ev : T!Events]
      /\ acceptor \in TcpThreads
  BY DEF TcpTypeInv, TcpListenerInv, TcpThreadsInv
<1>1. CASE T!DispatchAccept \/ T!TCP_accept \/ T!RunAcceptor \/ T!Timer
  <2>1. CASE T!DispatchAccept
    BY <1>t, <2>1, ReadyIs DEF T!DispatchAccept
  <2>2. CASE T!TCP_accept \/ T!RunAcceptor
    <3>1. PICK t : T!accept_loop(t)
      BY <2>2 DEF T!TCP_accept, T!RunAcceptor
    <3>2. acceptor' # T!Lua
      BY LuaIs
    <3>3. listener.queue = <<>> /\ UNCHANGED listener
      BY <3>1, <3>2 DEF T!accept_loop
    <3> QED BY <3>3
  <2>3. CASE T!Timer
    <3>1. UNCHANGED listener /\ (UNCHANGED acceptor \/ T!Expires(acceptor, acceptor'))
      BY <2>3 DEF T!Timer
    <3>2. UNCHANGED acceptor
      BY <1>t, <3>1, ExpiresIs
    <3> QED BY <3>1, <3>2 DEF AcceptorIsTold
  <2> QED BY <1>1, <2>1, <2>2, <2>3
<1>2. CASE \E c \in {"this", "other"} : T!handle_accept(c)
  <2>0. PICK c \in {"this", "other"} : T!handle_accept(c)
    BY <1>2
  <2>1. listener' = [listener EXCEPT !.queue = Append(listener.queue, c), !.ev = T!Set(listener.ev)]
        /\ listener.err = "OK"
    BY <2>0 DEF T!handle_accept
  <2> DEFINE q == Append(listener.queue, c)
             e == T!Set(listener.ev)
  <2>2. listener' = [listener EXCEPT !.queue = q, !.ev = e] /\ e = "pending"
    BY <2>1 DEF TcpPcbInv, TcpQueueInv, T!Set
  <2> HIDE DEF q, e
  <2> QED BY <1>t, <2>2
<1>3. CASE T!TCP_close_listener
  BY <1>3 DEF T!TCP_close_listener, T!NoListener
<1>4. CASE UNCHANGED <<listener, acceptor>>
  BY <1>4 DEF AcceptorIsTold
<1>5. \/ T!DispatchAccept \/ T!TCP_accept \/ T!RunAcceptor \/ T!Timer \/ T!TCP_close_listener
      \/ \E c \in {"this", "other"} : T!handle_accept(c)
      \/ UNCHANGED <<listener, acceptor>>
  <2> USE DEF T!handle_connected, T!handle_recv_fin, T!handle_poll, T!threads,
     T!handle_err, T!TCP_connect, T!TCP_send, T!TCP_close,
     T!DispatchRecv, T!DispatchSend, T!RunSender, T!PeerSends, T!handle_recv, T!PeerCloses,
     T!handle_sent, T!send_loop, T!TCP_shutdown, T!TCP_recv, T!RunReceiver, T!recv_loop, T!connect_loop
  <2> QED BY DEF T!Next
<1> QED BY <1>1, <1>2, <1>3, <1>4, <1>5

\* A turn of recv() ends, or suspends with nothing there.
LEMMA RecvWaits ==
    ASSUME TcpTypeInv, TcpTypeInv', TcpLenInv, RecvStep
    PROVE  /\ receiver'.call = "recv" => receiver'.len > 0
           /\ receiver'.late => receiver'.pc # "suspended"
           /\ receiver'.pc = "suspended" => ~ThereIs'
<1>1. PICK t \in TcpThreads :
          /\ T!recv_loop(t) /\ t.call = "recv"
          /\ \/ receiver.pc = "lua" /\ t.len > 0 /\ t.res = "none"
                /\ pcb \notin {"none", "queued", "reset"}
             \/ receiver.pc = "ready" /\ t = receiver
  BY DEF RecvStep
<1>2. t.len \in Nat /\ t.len > 0
  BY <1>1 DEF TcpLenInv, TcpThreads
<1>3. PICK n \in Nat :
              /\ n <= Len(T!Unread) /\ n = IF t.len < Len(T!Unread) THEN t.len ELSE Len(T!Unread)
              /\ tcp' = T!AfterReading(n)
              /\ receiver' = T!Outcome(t, n)
  BY <1>1, RecvLoopIs
<1>4. CASE receiver' = T!Suspend(t) /\ ~t.late /\ n = 0 /\ ~tcp.rx_closed /\ tcp.err = "OK"
  <2>1. /\ receiver'.call = "recv" /\ receiver'.len > 0 /\ ~receiver'.late
    BY <1>1, <1>2, <1>4, SuspendIs
  <2>2. Len(T!Unread) = 0
    BY <1>2, <1>3, <1>4, UnreadIs
  <2>3. Len(T!Unread') = 0 /\ T!Unread' \in Seq(Nat)
    BY <1>3, <1>4, <2>2, ReadLeaves, UnreadNext
  <2>4. T!Unread' = <<>>
    BY <2>3
  <2>5. tcp'.err = "OK" /\ ~tcp'.rx_closed
    BY <1>4, ReadKeeps
  <2> QED BY <2>1, <2>4, <2>5 DEF ThereIs
<1>5. CASE receiver'.pc = "lua" /\ receiver'.call = "none"
  BY <1>5
<1> QED BY <1>3, <1>4, <1>5, OutcomeIs, LuaIs

LEMMA ToldInvPreserved ==
    ASSUME TcpTypeInv, TcpTypeInv', TcpPcbInv, TcpToldInv, [T!Next]_T!vars
    PROVE  TcpToldInv'
<1>t. receiver \in TcpThreads /\ sender \in TcpThreads /\ acceptor \in TcpThreads
  BY DEF TcpTypeInv, TcpThreadsInv
<1>i. AcceptorIsTold /\ ReceiverIsTold /\ SenderIsTold /\ TcpLenInv /\ T!DeadlinesHold
  BY ToldAre DEF TcpToldInv
<1>1. CASE UNCHANGED T!vars
  <2> USE <1>1 DEF T!vars, T!threads, T!events
  <2>1. ThereIs' = ThereIs
    BY DEF ThereIs, T!Unread
  <2>2. AcceptorIsTold' /\ ReceiverIsTold' /\ SenderIsTold' /\ TcpLenInv' /\ T!DeadlinesHold'
    BY <1>i, <2>1 DEF AcceptorIsTold, ReceiverIsTold, SenderIsTold, TcpLenInv, T!DeadlinesHold
  <2> QED BY <2>2 DEF TcpToldInv, T!WaitersAreTold, AcceptorIsTold, ReceiverIsTold, SenderIsTold, ThereIs
<1>2. CASE T!Next
  <2>1. AcceptorIsTold'
    BY <1>2, <1>i, AcceptorToldInv
  <2>2. TcpLenInv' /\ (receiver'.late => receiver'.pc # "suspended") /\ ReceiverIsTold'
    <3>1. CASE RecvStep
      BY <1>i, <3>1, RecvWaits DEF TcpLenInv, ReceiverIsTold
    <3>2. CASE receiver' = receiver /\ ~RecvStep
      <4>1. TcpLenInv' /\ (receiver'.late => receiver'.pc # "suspended")
        BY <1>i, <3>2 DEF TcpLenInv, T!DeadlinesHold
      <4>2. ASSUME receiver'.pc = "suspended", pcb' # "closed", ThereIs' PROVE recv_event' = "pending"
        BY <1>2, <1>i, <3>2, <4>2, ReceiverNews DEF ReceiverIsTold
      <4> QED BY <4>1, <4>2 DEF ReceiverIsTold
    <3>3. CASE receiver' = T!Lua \/ receiver' = T!Ready(receiver) \/ T!Expires(receiver, receiver')
      <4>1. receiver'.pc # "suspended" /\ (receiver'.call = "recv" => receiver'.len > 0)
        BY <1>t, <1>i, <3>3, LuaIs, ReadyIs, ExpiresIs DEF TcpLenInv
      <4> QED BY <4>1 DEF TcpLenInv, ReceiverIsTold
    <3>4. CASE /\ receiver'.late = FALSE
               /\ receiver'.call = "connect" /\ pcb = "new" /\ tcp.err = "OK"
               /\ UNCHANGED tcp
      BY <3>4 DEF TcpLenInv, ReceiverIsTold, ThereIs, TcpPcbInv, TcpEventsInv
    <3>5. CASE /\ receiver' = T!Suspend(receiver) /\ ~receiver.late
               /\ tcp.err = "OK" /\ ~tcp.connected /\ receiver.call = "connect"
               /\ UNCHANGED tcp
      <4>1. receiver'.call = "connect" /\ ~receiver'.late
        BY <1>t, <3>5, SuspendIs
      <4> QED BY <3>5, <4>1 DEF TcpLenInv, ReceiverIsTold, ThereIs
    <3> QED BY <1>2, <3>1, <3>2, <3>3, <3>4, <3>5, ReceiverIs DEF ReceiverStep
  <2>3. SenderIsTold'
    <3>1. CASE sender' = sender
      BY <1>2, <1>i, <3>1, SenderNews DEF SenderIsTold
    <3>2. CASE SenderRuns \/ SenderCalls
      BY <3>2 DEF SenderRuns, SenderCalls, SenderIsTold
    <3>3. CASE SendTurn /\ sender.pc = "loop"
      <4>1. CASE SendSuspends
        <5>1. UNCHANGED tcp /\ tcp.err = "OK"
          BY <4>1 DEF SendSuspends
        <5> QED BY <5>1 DEF SenderIsTold
      <4>2. CASE SendReturns \/ SendGoesOn \/ SendWrites
        <5>1. sender'.pc # "suspended"
          <6>1. CASE SendReturns
            BY <1>t, <6>1, ReturnIs DEF SendReturns
          <6>2. CASE SendWrites
            <7>1. PICK n \in Nat : sender' = T!Advance(sender, n)
              BY <6>2 DEF SendWrites
            <7>2. sender'.pc = sender.pc
              BY <1>t, <7>1, AdvanceIs
            <7> QED BY <3>3, <7>2
          <6> QED BY <4>2, <6>1, <6>2 DEF SendGoesOn
        <5> QED BY <5>1 DEF SenderIsTold
      <4> QED BY <3>3, <4>1, <4>2 DEF SendTurn
    <3> QED BY <1>2, <3>1, <3>2, <3>3, SenderIs DEF SenderStep
  <2>4. acceptor'.late => acceptor'.pc # "suspended"
    BY <1>2, <1>t, <1>i, AcceptorIs, LuaIs, ReadyIs, ExpiresIs, SuspendIs DEF AcceptorStep, T!DeadlinesHold
  <2>5. T!DeadlinesHold'
    BY <2>2, <2>4 DEF T!DeadlinesHold
  <2>6. T!WaitersAreTold'
    BY <2>1, <2>2, <2>3 DEF T!WaitersAreTold, AcceptorIsTold, ReceiverIsTold, SenderIsTold, ThereIs
  <2> QED BY <2>2, <2>5, <2>6 DEF TcpToldInv
<1> QED BY <1>1, <1>2

LEMMA ToldInit == T!Init => TcpToldInv
BY LuaIs DEF T!Init, TcpToldInv, TcpLenInv, T!WaitersAreTold, T!DeadlinesHold

TcpIInv == TcpTypeInv /\ TcpPcbInv /\ TcpToldInv

LEMMA TcpMoves == [NextAll]_all => [T!Next]_T!vars
BY DEF NextAll, all, Step, Unmoved, tcpVars, T!vars, T!events, T!threads

LEMMA TcpInvariance == SpecAll => []TcpIInv
<1>1. InitAll => TcpIInv
  BY TcpInitType, PcbInit, ToldInit DEF InitAll, TcpIInv
<1>2. TcpIInv /\ [NextAll]_all => TcpIInv'
  BY TcpMoves, TcpTypePreserved, PcbInvPreserved, ToldInvPreserved DEF TcpIInv
<1> QED BY <1>1, <1>2, PTL DEF SpecAll

-----------------------------------------------------------------------------
(* TcpSocket: recv() returns what arrived. *)

\* What recv() has returned, and what it has still to return.
GotInv ==
    /\ got \in Seq(Nat) /\ \A i \in 1..Len(got) : got[i] = i
    /\ \A i \in 1..Len(T!Unread) : T!Unread[i] = Len(got) + i
    /\ pcb # "closed" => /\ tcp.recv_off <= Len(tcp.recv_head)
                         /\ Len(got) + Len(T!Unread) = peer.told
    /\ pcb = "closed" => tcp.recv_head = <<>>

\* Where the units are that the peer may send, and the end of the stream.
WindowInv ==
    /\ peer.told <= peer.sent
    /\ ~T!Gone => peer.wnd + (peer.sent - peer.told) + Len(T!Unread) = Window
    /\ tcp.rx_closed => peer.fin = "sent" /\ peer.told = peer.sent
    /\ receiver.res = "eof" /\ pcb # "closed" => tcp.rx_closed /\ Len(got) = peer.told

TcpRecvInv == GotInv /\ WindowInv

\* A step that moves no data.
QuietStep ==
    /\ got' = got /\ tcp'.rx_closed = tcp.rx_closed
    /\ tcp'.recv_head = tcp.recv_head /\ tcp'.recv_off = tcp.recv_off
    /\ peer'.sent = peer.sent /\ peer'.told = peer.told /\ peer'.fin = peer.fin
    /\ peer'.wnd = peer.wnd
    /\ pcb' = "closed" <=> pcb = "closed"
    /\ ~T!Gone' => ~T!Gone
    /\ receiver'.res = "eof" => receiver.res = "eof"

DataStep ==
    \/ RecvStep
    \/ \E n \in 1..MaxPbuf : T!handle_recv(n)
    \/ \E n \in 1..MaxUnits : T!PeerSends(n)
    \/ T!PeerCloses \/ T!handle_recv_fin \/ T!TCP_close

LEMMA ResIs ==
    ASSUME TcpTypeInv, T!Next, ~RecvStep
    PROVE  receiver'.res = "eof" => receiver.res = "eof"
<1>t. receiver \in TcpThreads
  BY DEF TcpTypeInv, TcpThreadsInv
<1> QED BY <1>t, ReceiverIs, LuaIs, ReadyIs, ExpiresIs, SuspendIs DEF ReceiverStep

LEMMA QuietIs ==
    ASSUME TcpTypeInv, TcpPcbInv, T!Next, ~DataStep
    PROVE  QuietStep
<1>t. tcp \in TcpRecords
  BY DEF TcpTypeInv, TcpSocketInv, TcpRecords
<1>1. receiver'.res = "eof" => receiver.res = "eof"
  BY ResIs DEF DataStep
<1>2. /\ peer'.sent = peer.sent /\ peer'.told = peer.told /\ peer'.fin = peer.fin
      /\ peer'.wnd = peer.wnd
  BY PeerIs DEF PeerStep, DataStep
<1>3. ASSUME UNCHANGED tcp
      PROVE  /\ tcp'.rx_closed = tcp.rx_closed
             /\ tcp'.recv_head = tcp.recv_head /\ tcp'.recv_off = tcp.recv_off
  BY <1>3
<1>4. CASE \E rx, tx \in BOOLEAN : T!TCP_shutdown(rx, tx)
  <2>1. /\ UNCHANGED <<got, tcp>> \/ tcp' = [tcp EXCEPT !.err = "CLSD"]
        /\ UNCHANGED got /\ tcp.err = "OK" /\ (pcb' = pcb \/ pcb' = "gone")
    BY <1>4 DEF T!TCP_shutdown, T!UsesPcb
  <2>2. /\ tcp'.rx_closed = tcp.rx_closed
        /\ tcp'.recv_head = tcp.recv_head /\ tcp'.recv_off = tcp.recv_off
    BY <1>t, <2>1 DEF TcpRecords
  <2> QED BY <1>1, <1>2, <2>1, <2>2 DEF QuietStep, TcpPcbInv, TcpOkInv, T!Gone
<1>5. CASE T!handle_connected \/ T!handle_err
  <2>1. /\ tcp'.rx_closed = tcp.rx_closed
        /\ tcp'.recv_head = tcp.recv_head /\ tcp'.recv_off = tcp.recv_off
    BY <1>t, <1>5 DEF T!handle_connected, T!handle_err, TcpRecords
  <2> QED BY <1>1, <1>2, <1>5, <2>1 DEF QuietStep, T!Gone, T!handle_connected, T!handle_err
<1>6. CASE T!TCP_accept \/ T!RunAcceptor
  <2>1. PICK t : T!accept_loop(t)
    BY <1>6 DEF T!TCP_accept, T!RunAcceptor
  <2>2. CASE UNCHANGED <<pcb, tcp>>
    BY <1>1, <1>2, <2>1, <2>2 DEF QuietStep, T!Gone, T!accept_loop
  <2>3. CASE /\ listener.queue # <<>> /\ Head(listener.queue) = "this" /\ pcb' \in {"open", "freed"}
             /\ tcp' = [tcp EXCEPT !.connected = TRUE]
    <3>1. listener.queue \in Seq({"this", "other"})
      BY DEF TcpTypeInv, TcpListenerInv
    <3>2. pcb \in {"queued", "reset"}
      BY <2>3, <3>1 DEF TcpPcbInv, TcpQueueInv
    <3>3. /\ tcp'.rx_closed = tcp.rx_closed
          /\ tcp'.recv_head = tcp.recv_head /\ tcp'.recv_off = tcp.recv_off
      BY <1>t, <2>3 DEF TcpRecords
    <3> QED BY <1>1, <1>2, <2>1, <2>3, <3>2, <3>3 DEF QuietStep, T!Gone, T!accept_loop
  <2> QED BY <2>1, <2>2, <2>3 DEF T!accept_loop
<1>7. CASE ConnectStep
  BY <1>1, <1>2, <1>3, <1>7 DEF ConnectStep, T!connect_loop, QuietStep, T!Gone
<1>8. CASE \/ T!TCP_connect \/ \E c \in {"this", "other"} : T!handle_accept(c)
  BY <1>1, <1>2, <1>3, <1>8 DEF T!TCP_connect, T!handle_accept, QuietStep, T!Gone
<1>9. CASE T!TCP_close_listener
  BY <1>1, <1>2, <1>3, <1>9 DEF T!TCP_close_listener, QuietStep, T!Gone, T!threads
<1>10. CASE \/ \E n \in 1..SndBuf : T!handle_sent(n)
            \/ T!handle_poll \/ T!send_loop \/ T!TCP_send \/ T!RunSender
            \/ T!DispatchAccept \/ T!DispatchRecv \/ T!DispatchSend \/ T!Timer
  <2>1. UNCHANGED <<pcb, tcp, got>>
    BY <1>10 DEF T!handle_sent, T!handle_poll, T!send_loop, T!TCP_send, T!RunSender,
       T!DispatchAccept, T!DispatchRecv, T!DispatchSend, T!Timer
  <2> QED BY <1>1, <1>2, <1>3, <2>1 DEF QuietStep, T!Gone
<1> QED BY <1>4, <1>5, <1>6, <1>7, <1>8, <1>9, <1>10, RecvIs DEF T!Next, DataStep

\* lwIP has handed nothing to a connection that is not accepted yet, nor to one
\* that was reset before that.
NotOpen == pcb \in {"none", "queued", "reset", "freed"}

TcpFreedInv == NotOpen => ~tcp.rx_closed /\ peer.told = 0

LEMMA FreedInvPreserved ==
    ASSUME TcpTypeInv, TcpPcbInv, TcpFreedInv, [T!Next]_T!vars
    PROVE  TcpFreedInv'
<1>1. CASE UNCHANGED T!vars
  BY <1>1 DEF T!vars, TcpFreedInv, NotOpen
<1> SUFFICES ASSUME T!Next, NotOpen' PROVE ~tcp'.rx_closed /\ peer'.told = 0
  BY <1>1 DEF TcpFreedInv
<1>2. NotOpen
  <2>1. CASE T!TCP_accept \/ T!RunAcceptor
    <3>1. PICK t : T!accept_loop(t)
      BY <2>1 DEF T!TCP_accept, T!RunAcceptor
    <3>2. CASE pcb' = pcb
      BY <3>2 DEF NotOpen
    <3>3. CASE listener.queue # <<>> /\ Head(listener.queue) = "this"
      <4>1. listener.queue \in Seq({"this", "other"})
        BY DEF TcpTypeInv, TcpListenerInv
      <4> QED BY <3>3, <4>1 DEF NotOpen, TcpPcbInv, TcpQueueInv
    <3> QED BY <3>1, <3>2, <3>3 DEF T!accept_loop
  <2>2. CASE \/ T!handle_connected \/ T!handle_err \/ T!TCP_connect \/ T!TCP_close
             \/ \E c \in {"this", "other"} : T!handle_accept(c)
             \/ \E rx, tx \in BOOLEAN : T!TCP_shutdown(rx, tx)
             \/ T!TCP_close_listener
    BY <2>2 DEF NotOpen, T!handle_connected, T!handle_err, T!TCP_connect, T!TCP_close,
                T!handle_accept, T!TCP_shutdown, T!TCP_close_listener
  <2>3. CASE RecvStep \/ ConnectStep
    BY <2>3, ReadKeeps DEF NotOpen, ConnectStep, T!connect_loop
  <2>4. CASE \/ \E n \in 1..MaxUnits : T!PeerSends(n)
             \/ \E n \in 1..MaxPbuf : T!handle_recv(n)
             \/ \E n \in 1..SndBuf : T!handle_sent(n)
             \/ T!PeerCloses \/ T!handle_recv_fin \/ T!handle_poll
             \/ T!send_loop \/ T!TCP_send \/ T!RunSender
             \/ T!DispatchAccept \/ T!DispatchRecv \/ T!DispatchSend \/ T!Timer
    <3>1. pcb' = pcb
      BY <2>4 DEF T!PeerSends, T!handle_recv, T!handle_sent, T!PeerCloses, T!handle_recv_fin,
         T!handle_poll, T!send_loop, T!TCP_send, T!RunSender, T!DispatchAccept,
         T!DispatchRecv, T!DispatchSend, T!Timer
    <3> QED BY <3>1 DEF NotOpen
  <2> QED BY <2>1, <2>2, <2>3, <2>4, RecvIs DEF T!Next
<1>3. ~tcp.rx_closed /\ peer.told = 0
  BY <1>2 DEF TcpFreedInv
<1>4. CASE ~DataStep
  BY <1>3, <1>4, QuietIs DEF QuietStep
<1>5. CASE RecvStep
  <2>1. tcp'.rx_closed = tcp.rx_closed
    BY <1>5, ReadKeeps
  <2>2. PICK t \in TcpThreads : T!recv_loop(t)
    BY <1>5 DEF RecvStep
  <2>3. PICK n \in Nat : peer' = IF ~T!Gone THEN T!Recved(n) ELSE peer
    BY <2>2, RecvLoopIs
  <2>4. peer \in PeerRecords
    BY DEF TcpTypeInv, TcpPeerInv, PeerRecords
  <2>5. peer'.told = peer.told
    BY <2>3, <2>4, RecvedIs
  <2> QED BY <1>3, <2>1, <2>5
<1>6. CASE (\E n \in 1..MaxUnits : T!PeerSends(n)) \/ T!PeerCloses
  <2>1. tcp' = tcp /\ pcb \in {"queued", "open"}
    BY <1>6 DEF T!PeerSends, T!PeerCloses
  <2>2. ~RecvStep /\ ~(\E n \in 1..MaxPbuf : T!handle_recv(n))
    <3>1. ~(\E n \in 1..MaxPbuf : T!handle_recv(n))
      BY <1>2 DEF NotOpen, T!handle_recv
    <3>2. ASSUME RecvStep PROVE FALSE
      <4>1. pcb = "queued" /\ receiver.pc = "lua"
        BY <1>2, <2>1 DEF NotOpen, TcpPcbInv, TcpEventsInv
      <4> QED BY <3>2, <4>1, ReadKeeps
    <3> QED BY <3>1, <3>2
  <2>3. peer'.told = peer.told
    BY <2>2, PeerIs DEF PeerStep
  <2> QED BY <1>3, <2>1, <2>3
<1>7. CASE (\E n \in 1..MaxPbuf : T!handle_recv(n)) \/ T!handle_recv_fin \/ T!TCP_close
  BY <1>2, <1>7 DEF NotOpen, T!handle_recv, T!handle_recv_fin, T!TCP_close
<1> QED BY <1>4, <1>5, <1>6, <1>7 DEF DataStep

LEMMA TcpFreedInvariance == SpecAll => []TcpFreedInv
<1>1. InitAll => TcpFreedInv
  <2> SUFFICES ASSUME T!Init PROVE ~tcp.rx_closed /\ peer.told = 0
    BY DEF InitAll, TcpFreedInv
  <2>1. tcp.rx_closed = FALSE
    BY DEF T!Init
  <2>2. peer.told = 0
    BY DEF T!Init
  <2> QED BY <2>1, <2>2
<1>2. TcpIInv /\ TcpFreedInv /\ [NextAll]_all => TcpFreedInv'
  BY TcpMoves, FreedInvPreserved DEF TcpIInv
<1> QED BY <1>1, <1>2, TcpInvariance, PTL DEF SpecAll

\* No thread of a socket is suspended while what it waits for is there and
\* nothing is going to tell it, and none suspends in accept(), connect() or
\* recv() after its deadline.  A socket that the calls take for usable has a
\* PCB of lwIP, but for one whose connection was reset while it was in the
\* accept queue: its PCB, which lwIP has freed, is used from there and by the
\* socket that accept() makes of it, and nothing has been read from it.
THEOREM TcpWaitersCorrect == SpecAll => []TcpWaitersAreTold
<1>1. TcpIInv /\ TcpFreedInv => TcpWaitersAreTold
  <2> SUFFICES ASSUME TcpIInv, TcpFreedInv PROVE TcpWaitersAreTold
    OBVIOUS
  <2>1. pcb \in T!PcbStates /\ (tcp.err = "OK" <=> pcb \notin {"gone", "closed"})
    BY DEF TcpIInv, TcpTypeInv, TcpListenerInv, TcpPcbInv, TcpOkInv, T!Gone
  <2>2. T!PcbMatchesErr
    BY <2>1 DEF TcpFreedInv, NotOpen, T!PcbMatchesErr, T!UsesPcb, T!PcbStates
  <2> QED BY <2>2 DEF TcpIInv, TcpToldInv, TcpWaitersAreTold
<1> QED BY <1>1, TcpInvariance, TcpFreedInvariance, PTL

\* A pbuf is added to what there is to read.
LEMMA ArriveIs ==
    ASSUME TcpTypeInv, TcpTypeInv', NEW n \in Nat, T!handle_recv(n),
           tcp.recv_off <= Len(tcp.recv_head)
    PROVE  /\ tcp'.recv_off <= Len(tcp'.recv_head)
           /\ Len(T!Unread') = Len(T!Unread) + n
           /\ \A i \in 1..Len(T!Unread') :
                 T!Unread'[i] = IF i <= Len(T!Unread) THEN T!Unread[i]
                                ELSE peer.told + (i - Len(T!Unread))
<1> DEFINE h == tcp.recv_head
           o == tcp.recv_off
           u == T!Unread
           v == T!Unread'
           g == tcp'.recv_head
           p == tcp'.recv_off
           b == T!Pbuf(n)
           S == [unit : Nat, last : BOOLEAN]
<1>1. tcp \in TcpRecords /\ peer.told \in Nat
  BY DEF TcpTypeInv, TcpSocketInv, TcpRecords, TcpPeerInv
<1>2. g = h \o b /\ p = o
  <2>1. PICK x : x = h \o b /\ tcp' = [tcp EXCEPT !.recv_head = x]
    BY DEF T!handle_recv
  <2> QED BY <1>1, <2>1 DEF TcpRecords
<1>3. /\ u \in Seq(Nat) /\ Len(u) = IF o <= Len(h) THEN Len(h) - o ELSE 0
      /\ \A i \in 1..Len(u) : u[i] = h[o + i].unit /\ o + i \in 1..Len(h)
      /\ h \in Seq(S) /\ o \in Nat
  BY UnreadIs DEF Chains
<1>4. /\ v \in Seq(Nat) /\ Len(v) = IF p <= Len(g) THEN Len(g) - p ELSE 0
      /\ \A i \in 1..Len(v) : v[i] = g[p + i].unit /\ p + i \in 1..Len(g)
  BY UnreadNext
<1>5. b \in Seq(S) /\ Len(b) = n /\ \A i \in 1..n : b[i].unit = peer.told + i
  <2>1. b = [i \in 1..n |-> [unit |-> peer.told + i, last |-> i = n]]
    BY DEF T!Pbuf
  <2>2. \A i \in 1..n : [unit |-> peer.told + i, last |-> i = n] \in S
    BY <1>1
  <2>3. b \in [1..n -> S] /\ \A i \in 1..n : b[i].unit = peer.told + i
    BY <2>1, <2>2
  <2> HIDE DEF b, S
  <2>4. b \in Seq(S) /\ Len(b) = n
    BY <2>3
  <2> QED BY <2>3, <2>4
<1> HIDE DEF h, o, u, v, g, p, b, S
<1>6. /\ Len(g) = Len(h) + n /\ Len(h) \in Nat
      /\ \A i \in 1..(Len(h) + n) : g[i] = IF i <= Len(h) THEN h[i] ELSE b[i - Len(h)]
  <2>1. h \in Seq(S) /\ b \in Seq(S)
    BY <1>3, <1>5
  <2>2. /\ Len(h \o b) = Len(h) + Len(b) /\ Len(h) \in Nat
        /\ \A i \in 1..(Len(h) + Len(b)) : (h \o b)[i] = IF i <= Len(h) THEN h[i] ELSE b[i - Len(h)]
    BY ONLY <2>1, ConcatProperties
  <2> QED BY <1>2, <1>5, <2>2
<1>p. p = o
  BY <1>2
<1>7. o <= Len(h)
  BY DEF o, h
<1>8. p <= Len(g) /\ Len(v) = Len(u) + n
  BY <1>2, <1>3, <1>4, <1>6, <1>7
<1>9. ASSUME NEW i \in 1..Len(v)
      PROVE  v[i] = IF i <= Len(u) THEN u[i] ELSE peer.told + (i - Len(u))
  <2>1. i \in Nat /\ v[i] = g[o + i].unit /\ o + i \in 1..(Len(h) + n)
    <3>1. v[i] = g[p + i].unit /\ p + i \in 1..Len(g)
      BY <1>4
    <3>2. i \in Nat
      BY <1>4
    <3> QED BY <1>p, <1>6, <3>1, <3>2
  <2>2. CASE i <= Len(u)
    <3>1. i \in 1..Len(u) /\ o + i <= Len(h)
      BY <1>3, <1>7, <2>1, <2>2
    <3>2. g[o + i] = h[o + i]
      BY <1>6, <2>1, <3>1
    <3> QED BY <1>3, <2>1, <2>2, <3>1, <3>2
  <2>3. CASE ~(i <= Len(u))
    <3>1. ~(o + i <= Len(h)) /\ (o + i) - Len(h) = i - Len(u) /\ i - Len(u) \in 1..n
      BY <1>3, <1>6, <1>7, <1>8, <2>1, <2>3
    <3>2. g[o + i] = b[i - Len(u)]
      BY <1>6, <2>1, <3>1
    <3>3. b[i - Len(u)].unit = peer.told + (i - Len(u))
      BY <1>5, <3>1
    <3> QED BY <2>1, <2>3, <3>2, <3>3
  <2> QED BY <2>2, <2>3
<1> QED BY <1>8, <1>9 DEF h, o, u, v, g, p

LEMMA RecvInit == T!Init => TcpRecvInv
<1> SUFFICES ASSUME T!Init PROVE TcpRecvInv
  OBVIOUS
<1>1. /\ tcp.recv_head = <<>> /\ tcp.recv_off = 0 /\ tcp.rx_closed = FALSE /\ got = <<>>
      /\ peer.sent = 0 /\ peer.told = 0 /\ peer.wnd = Window /\ pcb # "closed"
      /\ receiver.res = "none"
  BY LuaIs DEF T!Init
<1>2. Len(T!Unread) = 0 /\ 0 \in Int
  BY <1>1, TcpInitType, UnreadIs
<1>3. GotInv
  BY <1>1, <1>2 DEF GotInv
<1>4. WindowInv
  BY <1>1, <1>2, NetworkConstants DEF WindowInv
<1> QED BY <1>3, <1>4 DEF TcpRecvInv

\* The counters that the arithmetic below is about.
LEMMA CountersAre ==
    ASSUME TcpTypeInv, GotInv
    PROVE  /\ peer.sent \in Nat /\ peer.told \in Nat /\ peer.wnd \in Int
           /\ Len(got) \in Nat /\ Len(T!Unread) \in Nat /\ Window \in Nat
  BY UnreadIs, NetworkConstants DEF TcpTypeInv, TcpPeerInv, GotInv

LEMMA RecvReads ==
    ASSUME TcpTypeInv, TcpTypeInv', TcpLenInv, TcpRecvInv, RecvStep
    PROVE  TcpRecvInv'
<1>1. PICK t \in TcpThreads :
          /\ T!recv_loop(t) /\ t.call = "recv"
          /\ \/ t.len > 0 /\ t.res = "none"
             \/ receiver.pc = "ready" /\ t = receiver
  BY DEF RecvStep
<1>2. t.len \in Nat /\ t.len > 0
  BY <1>1 DEF TcpLenInv, TcpThreads
<1>3. PICK n \in Nat :
         /\ n <= Len(T!Unread) /\ n = IF t.len < Len(T!Unread) THEN t.len ELSE Len(T!Unread)
         /\ got' = got \o SubSeq(T!Unread, 1, n)
         /\ tcp' = T!AfterReading(n)
         /\ peer' = IF ~T!Gone THEN T!Recved(n) ELSE peer
         /\ receiver' = T!Outcome(t, n)
         /\ UNCHANGED pcb
  BY <1>1, RecvLoopIs
<1>4. /\ Len(T!Unread') = Len(T!Unread) - n
      /\ \A i \in 1..Len(T!Unread') : i + n \in 1..Len(T!Unread) /\ T!Unread'[i] = T!Unread[i + n]
      /\ tcp.recv_off <= Len(tcp.recv_head) => tcp'.recv_off <= Len(tcp'.recv_head)
      /\ tcp'.rx_closed = tcp.rx_closed
  BY <1>3, ReadLeaves, ReadKeeps
<1>5. /\ peer.sent \in Nat /\ peer.told \in Nat /\ peer.wnd \in Int
      /\ Len(got) \in Nat /\ Len(T!Unread) \in Nat /\ Window \in Nat
  BY CountersAre DEF TcpRecvInv
<1>6. /\ peer'.sent = peer.sent /\ peer'.told = peer.told /\ peer'.fin = peer.fin
      /\ ~T!Gone => peer'.wnd = peer.wnd + n
  BY <1>3, RecvedIs DEF TcpTypeInv, TcpPeerInv, PeerRecords
<1>7. /\ got' \in Seq(Nat) /\ Len(got') = Len(got) + n
      /\ \A i \in 1..Len(got') : got'[i] = i
  <2> DEFINE u == T!Unread
             r == SubSeq(u, 1, n)
  <2>1. u \in Seq(Nat) /\ got \in Seq(Nat) /\ n <= Len(u)
    BY <1>3, UnreadIs DEF TcpRecvInv, GotInv
  <2>2. /\ \A i \in 1..Len(got) : got[i] = i
        /\ \A i \in 1..Len(u) : u[i] = Len(got) + i
    BY DEF TcpRecvInv, GotInv
  <2> HIDE DEF u
  <2>3. r \in Seq(Nat) /\ Len(r) = n /\ \A i \in 1..n : r[i] = u[i]
    BY <2>1
  <2> HIDE DEF r
  <2>4. /\ got \o r \in Seq(Nat) /\ Len(got \o r) = Len(got) + Len(r)
        /\ \A i \in 1..(Len(got) + Len(r)) : (got \o r)[i] = IF i <= Len(got) THEN got[i] ELSE r[i - Len(got)]
    BY ONLY <2>1, <2>3, ConcatProperties
  <2>5. ASSUME NEW i \in 1..(Len(got) + n) PROVE (got \o r)[i] = i
    <3>1. CASE i <= Len(got)
      BY <1>5, <2>2, <2>3, <2>4, <3>1
    <3>2. CASE ~(i <= Len(got))
      <4>1. i - Len(got) \in 1..n /\ i - Len(got) \in 1..Len(u)
        BY <1>5, <2>1, <3>2
      <4>2. (got \o r)[i] = u[i - Len(got)]
        BY <2>3, <2>4, <3>2, <4>1
      <4>3. u[i - Len(got)] = Len(got) + (i - Len(got))
        BY <2>2, <4>1
      <4> QED BY <1>5, <4>2, <4>3
    <3> QED BY <3>1, <3>2
  <2>6. got' = got \o r
    BY <1>3 DEF r, u
  <2> QED BY <2>3, <2>4, <2>5, <2>6
<1>8. \A i \in 1..Len(T!Unread') : T!Unread'[i] = Len(got') + i
  <2>1. TAKE i \in 1..Len(T!Unread')
  <2>2. T!Unread'[i] = Len(got) + (i + n)
    BY <1>4 DEF TcpRecvInv, GotInv
  <2>3. i \in Nat
    BY <1>3, <1>4, <1>5
  <2> QED BY <1>5, <1>7, <2>2, <2>3
<1>9. pcb' # "closed" => /\ tcp'.recv_off <= Len(tcp'.recv_head)
                         /\ Len(got') + Len(T!Unread') = peer'.told
  <2>1. pcb # "closed" => /\ tcp.recv_off <= Len(tcp.recv_head)
                          /\ Len(got) + Len(T!Unread) = peer.told
    BY DEF TcpRecvInv, GotInv
  <2> QED BY <1>3, <1>4, <1>5, <1>6, <1>7, <2>1
<1>10. pcb' = "closed" => tcp'.recv_head = <<>>
  <2> SUFFICES ASSUME pcb = "closed" PROVE tcp'.recv_head = <<>>
    BY <1>3
  <2>1. tcp.recv_head = <<>>
    BY DEF TcpRecvInv, GotInv
  <2>2. PICK k \in 0..Len(tcp.recv_head) : tcp'.recv_head = SubSeq(tcp.recv_head, k + 1, Len(tcp.recv_head))
    BY <1>3, ReadingIs
  <2>3. k = 0
    BY <2>1
  <2> QED BY <2>1, <2>2, <2>3
<1>11. GotInv'
  BY <1>7, <1>8, <1>9, <1>10 DEF GotInv
<1>12. ~T!Gone' => peer'.wnd + (peer'.sent - peer'.told) + Len(T!Unread') = Window
  <2>1. ~T!Gone' => ~T!Gone
    BY <1>3 DEF T!Gone
  <2>2. ~T!Gone => peer.wnd + (peer.sent - peer.told) + Len(T!Unread) = Window
    BY DEF TcpRecvInv, WindowInv
  <2> QED BY <1>4, <1>5, <1>6, <2>1, <2>2
<1>13. receiver'.res = "eof" /\ pcb' # "closed" => tcp'.rx_closed /\ Len(got') = peer'.told
  <2> SUFFICES ASSUME receiver'.res = "eof", pcb # "closed"
               PROVE  tcp.rx_closed /\ Len(got') = peer.told
    BY <1>3, <1>4, <1>6
  <2>1. CASE n = 0 /\ tcp.rx_closed
    <3>1. Len(T!Unread) = 0
      BY <1>2, <1>3, <1>5, <2>1
    <3> QED BY <1>5, <1>7, <2>1, <3>1 DEF TcpRecvInv, GotInv
  <2>2. CASE receiver' = T!Suspend(t) /\ ~tcp.rx_closed
    <3>1. t.res = "eof"
      BY <2>2, SuspendIs
    <3>2. receiver.res = "eof"
      BY <1>1, <3>1
    <3> QED BY <2>2, <3>2 DEF TcpRecvInv, WindowInv
  <2> QED BY <1>3, <2>1, <2>2, OutcomeIs, LuaIs
<1>14. WindowInv'
  BY <1>4, <1>6, <1>12, <1>13 DEF TcpRecvInv, WindowInv
<1> QED BY <1>11, <1>14 DEF TcpRecvInv

LEMMA RecvArrives ==
    ASSUME TcpTypeInv, TcpTypeInv', TcpRecvInv, NEW n \in Nat \ {0}, T!handle_recv(n),
           peer'.sent = peer.sent, peer'.told = peer.told + n, peer'.fin = peer.fin,
           peer'.wnd = peer.wnd
    PROVE  TcpRecvInv'
<1>1. /\ pcb = "open" /\ UNCHANGED <<pcb, receiver, got>> /\ peer.told + n <= peer.sent
  BY DEF T!handle_recv, T!threads
<1>2. /\ peer.sent \in Nat /\ peer.told \in Nat /\ peer.wnd \in Int
      /\ Len(got) \in Nat /\ Len(T!Unread) \in Nat /\ Window \in Nat
  BY CountersAre DEF TcpRecvInv
<1>3. /\ got \in Seq(Nat) /\ \A i \in 1..Len(got) : got[i] = i
      /\ \A i \in 1..Len(T!Unread) : T!Unread[i] = Len(got) + i
      /\ tcp.recv_off <= Len(tcp.recv_head)
      /\ Len(got) + Len(T!Unread) = peer.told
  BY <1>1 DEF TcpRecvInv, GotInv
<1>4. /\ tcp'.recv_off <= Len(tcp'.recv_head)
      /\ Len(T!Unread') = Len(T!Unread) + n
      /\ \A i \in 1..Len(T!Unread') :
            T!Unread'[i] = IF i <= Len(T!Unread) THEN T!Unread[i]
                           ELSE peer.told + (i - Len(T!Unread))
  BY <1>3, ArriveIs
<1>5. \A i \in 1..Len(T!Unread') : T!Unread'[i] = Len(got) + i
  <2>1. TAKE i \in 1..Len(T!Unread')
  <2>2. i \in Nat /\ i >= 1
    BY <1>2, <1>4
  <2>3. CASE i <= Len(T!Unread)
    <3>1. i \in 1..Len(T!Unread) /\ T!Unread'[i] = T!Unread[i]
      BY <1>2, <1>4, <2>2, <2>3
    <3> QED BY <1>3, <3>1
  <2>4. CASE ~(i <= Len(T!Unread))
    <3>1. T!Unread'[i] = peer.told + (i - Len(T!Unread))
      BY <1>4, <2>4
    <3> QED BY <1>2, <1>3, <2>2, <3>1
  <2> QED BY <2>3, <2>4
<1>6. Len(got) + Len(T!Unread') = peer'.told
  BY <1>2, <1>3, <1>4
<1>7. GotInv'
  BY <1>1, <1>3, <1>4, <1>5, <1>6 DEF GotInv
<1>8. ~tcp.rx_closed /\ ~(receiver.res = "eof")
  BY <1>1, <1>2 DEF TcpRecvInv, WindowInv
<1>9. ~tcp'.rx_closed
  <2>1. tcp \in TcpRecords
    BY DEF TcpTypeInv, TcpSocketInv, TcpRecords
  <2>2. \E x : tcp' = [tcp EXCEPT !.recv_head = x]
    BY DEF T!handle_recv
  <2> QED BY <1>8, <2>1, <2>2 DEF TcpRecords
<1>10. peer'.told <= peer'.sent /\ peer'.wnd + (peer'.sent - peer'.told) + Len(T!Unread') = Window
  <2>1. peer.wnd + (peer.sent - peer.told) + Len(T!Unread) = Window
    BY <1>1 DEF TcpRecvInv, WindowInv, T!Gone
  <2> QED BY <1>1, <1>2, <1>4, <2>1
<1>11. WindowInv'
  BY <1>1, <1>8, <1>9, <1>10 DEF WindowInv
<1> QED BY <1>7, <1>11 DEF TcpRecvInv

LEMMA RecvInvPreserved ==
    ASSUME TcpTypeInv, TcpTypeInv', TcpPcbInv, TcpLenInv, TcpRecvInv, [T!Next]_T!vars
    PROVE  TcpRecvInv'
<1>t. tcp \in TcpRecords
  BY DEF TcpTypeInv, TcpSocketInv, TcpRecords
<1>n. /\ peer.sent \in Nat /\ peer.told \in Nat /\ peer.wnd \in Int
      /\ Len(got) \in Nat /\ Len(T!Unread) \in Nat /\ Window \in Nat
  BY CountersAre DEF TcpRecvInv
<1>u. ASSUME tcp'.recv_head = tcp.recv_head, tcp'.recv_off = tcp.recv_off
      PROVE  T!Unread' = T!Unread
  BY <1>u DEF T!Unread
<1>1. CASE RecvStep
  BY <1>1, RecvReads
<1>2. CASE QuietStep
  <2>1. T!Unread' = T!Unread
    BY <1>2, <1>u DEF QuietStep
  <2>2. GotInv'
    BY <1>2, <2>1 DEF QuietStep, GotInv, TcpRecvInv
  <2>3. WindowInv'
    BY <1>2, <2>1 DEF QuietStep, WindowInv, TcpRecvInv
  <2> QED BY <2>2, <2>3 DEF TcpRecvInv
<1>3. CASE T!Next /\ ~RecvStep /\ \E n \in 1..MaxPbuf : T!handle_recv(n)
  <2>1. PICK n \in 1..MaxPbuf :
          /\ T!handle_recv(n) /\ n \in Nat
          /\ peer'.sent = peer.sent /\ peer'.told = peer.told + n
          /\ peer'.fin = peer.fin /\ peer'.wnd = peer.wnd
    <3>1. PICK n \in 1..MaxPbuf : T!handle_recv(n)
      BY <1>3
    <3>2. n \in Nat /\ peer' = [peer EXCEPT !.told = peer.told + n]
      BY <3>1, NetworkConstants DEF T!handle_recv
    <3> DEFINE a == peer.told + n
    <3>3. a \in Nat /\ peer' = [peer EXCEPT !.told = a] /\ peer \in PeerRecords
      BY <1>n, <3>2 DEF TcpTypeInv, TcpPeerInv, PeerRecords
    <3> HIDE DEF a
    <3>4. peer'.sent = peer.sent /\ peer'.told = a /\ peer'.fin = peer.fin /\ peer'.wnd = peer.wnd
      BY <3>3 DEF PeerRecords
    <3> QED BY <3>1, <3>2, <3>4 DEF a
  <2>2. n \in Nat \ {0}
    BY <2>1
  <2> QED BY <2>1, <2>2, RecvArrives
<1>4. CASE \E n \in 1..MaxUnits : T!PeerSends(n)
  <2>1. PICK n \in 1..MaxUnits : T!PeerSends(n)
    BY <1>4
  <2>2. /\ n \in Nat /\ peer' = [peer EXCEPT !.sent = peer.sent + n, !.wnd = peer.wnd - n]
        /\ peer.fin = "no" /\ UNCHANGED <<tcp, got, pcb, receiver>> /\ n <= peer.wnd
    BY <2>1, NetworkConstants DEF T!PeerSends, T!threads
  <2> DEFINE a == peer.sent + n
             b == peer.wnd - n
  <2>3. /\ a \in Nat /\ b \in Int /\ peer' = [peer EXCEPT !.sent = a, !.wnd = b]
        /\ peer \in PeerRecords
    BY <1>n, <2>2 DEF TcpTypeInv, TcpPeerInv, PeerRecords
  <2> HIDE DEF a, b
  <2>4. peer'.sent = a /\ peer'.told = peer.told /\ peer'.fin = peer.fin /\ peer'.wnd = b
    BY <2>3 DEF PeerRecords
  <2>5. T!Unread' = T!Unread
    BY <2>2, <1>u
  <2>6. GotInv'
    BY <2>2, <2>4, <2>5 DEF GotInv, TcpRecvInv
  <2>7. ~tcp.rx_closed
    BY <2>2 DEF TcpRecvInv, WindowInv
  <2>8. peer'.told <= peer'.sent
    BY <1>n, <2>2, <2>4 DEF a, TcpRecvInv, WindowInv
  <2>9. ~T!Gone' => peer'.wnd + (peer'.sent - peer'.told) + Len(T!Unread') = Window
    <3>1. ~T!Gone' => ~T!Gone
      BY <2>2 DEF T!Gone
    <3>2. ~T!Gone => peer.wnd + (peer.sent - peer.told) + Len(T!Unread) = Window
      BY DEF TcpRecvInv, WindowInv
    <3> QED BY <1>n, <2>2, <2>4, <2>5, <3>1, <3>2 DEF a, b
  <2>10. WindowInv'
    BY <2>2, <2>7, <2>8, <2>9 DEF TcpRecvInv, WindowInv
  <2> QED BY <2>6, <2>10 DEF TcpRecvInv
<1>5. CASE T!PeerCloses
  <2>1. PICK f \in {"no", "sent", "lost"} : peer' = [peer EXCEPT !.fin = f]
    BY <1>5 DEF T!PeerCloses
  <2>2. peer.fin = "no" /\ UNCHANGED <<tcp, got, pcb, receiver>> /\ peer \in PeerRecords
    BY <1>5 DEF T!PeerCloses, T!threads, TcpTypeInv, TcpPeerInv, PeerRecords
  <2>3. peer'.sent = peer.sent /\ peer'.told = peer.told /\ peer'.wnd = peer.wnd
    BY <2>1, <2>2 DEF PeerRecords
  <2>4. T!Unread' = T!Unread
    BY <2>2, <1>u
  <2>5. ~tcp.rx_closed
    BY <2>2 DEF TcpRecvInv, WindowInv
  <2>6. GotInv' /\ WindowInv'
    BY <2>2, <2>3, <2>4, <2>5 DEF TcpRecvInv, GotInv, WindowInv, T!Gone
  <2> QED BY <2>6 DEF TcpRecvInv
<1>6. CASE T!handle_recv_fin
  <2>1. /\ tcp'.recv_head = tcp.recv_head /\ tcp'.recv_off = tcp.recv_off
        /\ UNCHANGED <<peer, got, pcb, receiver>> /\ peer.fin = "sent" /\ peer.told = peer.sent
        /\ ~tcp.rx_closed
    BY <1>t, <1>6 DEF T!handle_recv_fin, T!threads, TcpRecords
  <2>2. T!Unread' = T!Unread
    BY <2>1, <1>u
  <2>3. GotInv' /\ WindowInv'
    BY <2>1, <2>2 DEF TcpRecvInv, GotInv, WindowInv, T!Gone
  <2> QED BY <2>3 DEF TcpRecvInv
<1>7. CASE T!TCP_close
  <2>1. PICK e : tcp' = [tcp EXCEPT !.err = e, !.recv_head = <<>>]
    BY <1>7 DEF T!TCP_close
  <2>2. /\ tcp'.recv_head = <<>> /\ tcp'.rx_closed = tcp.rx_closed
        /\ UNCHANGED <<peer, got, receiver>> /\ pcb' = "closed"
    BY <1>t, <1>7, <2>1 DEF T!TCP_close, T!threads, TcpRecords
  <2>3. Len(T!Unread') = 0
    <3>1. Len(tcp'.recv_head) = 0 /\ tcp'.recv_off \in Nat
      BY <2>2, UnreadNext
    <3> QED BY <3>1, UnreadNext
  <2>4. GotInv' /\ WindowInv'
    BY <2>2, <2>3 DEF TcpRecvInv, GotInv, WindowInv, T!Gone
  <2> QED BY <2>4 DEF TcpRecvInv
<1>8. CASE UNCHANGED T!vars
  <2>1. QuietStep
    BY <1>8 DEF T!vars, T!threads, T!events, QuietStep, T!Gone
  <2> QED BY <2>1, <1>2
<1> QED BY <1>1, <1>2, <1>3, <1>4, <1>5, <1>6, <1>7, <1>8, QuietIs DEF DataStep

-----------------------------------------------------------------------------
(* TcpSocket: send() writes its strings. *)

IsIn(w, u) == \E i \in DOMAIN w : w[i] = u

\* The units written are of the strings, in order.
WrittenInv ==
    /\ written \in Seq(Nat \X Nat)
    /\ \A i, j \in 1..Len(written) : i < j => T!Before(written[i], written[j])
    /\ \A i \in 1..Len(written) : written[i][1] \in 1..Len(sender.msg)

\* During the call, they are those before the place that it has reached.
PlaceInv ==
    sender.pc # "lua" =>
       /\ sender.res # "ok"
       /\ sender.index <= Len(sender.msg) + 1
       /\ sender.index > Len(sender.msg) => sender.offset = 0
       /\ \A i \in 1..Len(written) :
             \/ written[i][1] < sender.index
             \/ written[i][1] = sender.index /\ written[i][2] <= sender.offset
       /\ \A k \in 1..(sender.index - 1) : \A n \in 1..sender.msg[k] : IsIn(written, <<k, n>>)
       /\ \A n \in 1..sender.offset : IsIn(written, <<sender.index, n>>)

\* After it, they are a prefix of the strings, and all of them if it returned
\* true.
ReturnedInv ==
    sender.pc = "lua" =>
       \A k \in 1..Len(sender.msg) : \A n \in 1..sender.msg[k] :
          \/ IsIn(written, <<k, n>>)
          \/ sender.res # "ok" /\ \A i \in 1..Len(written) : T!Before(written[i], <<k, n>>)

TcpSendInv == WrittenInv /\ PlaceInv /\ ReturnedInv

\* Each unit of the strings is before the place, or after all that is written.
LEMMA PlaceMeans ==
    ASSUME TcpTypeInv, TcpSendInv, sender.pc # "lua",
           NEW k \in 1..Len(sender.msg), NEW n \in 1..sender.msg[k]
    PROVE  \/ IsIn(written, <<k, n>>)
           \/ /\ ~(sender.index > Len(sender.msg))
              /\ \A i \in 1..Len(written) : T!Before(written[i], <<k, n>>)
<1>t. /\ sender.msg \in Seq(Nat) /\ Len(sender.msg) \in Nat
      /\ sender.index \in Nat \ {0} /\ sender.offset \in Nat
  BY DEF TcpTypeInv, TcpThreadsInv, TcpThreads
<1>w. \A i \in 1..Len(written) : written[i] \in Nat \X Nat
  BY ElementOfSeq DEF TcpSendInv, WrittenInv
<1>0. k \in Nat /\ sender.msg[k] \in Nat /\ n \in Nat
  BY <1>t, ElementOfSeq
<1>p. /\ \A i \in 1..Len(written) :
           \/ written[i][1] < sender.index
           \/ written[i][1] = sender.index /\ written[i][2] <= sender.offset
      /\ \A l \in 1..(sender.index - 1) : \A m \in 1..sender.msg[l] : IsIn(written, <<l, m>>)
      /\ \A m \in 1..sender.offset : IsIn(written, <<sender.index, m>>)
  BY DEF TcpSendInv, PlaceInv
<1>1. CASE k < sender.index
  <2>1. k \in 1..(sender.index - 1)
    BY <1>t, <1>0, <1>1
  <2> QED BY <1>p, <2>1
<1>2. CASE k = sender.index /\ n <= sender.offset
  <2>1. n \in 1..sender.offset
    BY <1>t, <1>0, <1>2
  <2> QED BY <1>p, <1>2, <2>1
<1>3. CASE k > sender.index \/ (k = sender.index /\ n > sender.offset)
  <2>1. ~(sender.index > Len(sender.msg))
    BY <1>t, <1>0, <1>3
  <2>2. \A i \in 1..Len(written) : T!Before(written[i], <<k, n>>)
    <3>1. TAKE i \in 1..Len(written)
    <3>2. written[i] \in Nat \X Nat
      BY <1>w
    <3>3. \/ written[i][1] < sender.index
          \/ written[i][1] = sender.index /\ written[i][2] <= sender.offset
      BY <1>p
    <3> QED BY <1>t, <1>0, <1>3, <3>2, <3>3 DEF T!Before
  <2> QED BY <2>1, <2>2
<1>4. \/ k < sender.index \/ (k = sender.index /\ n <= sender.offset)
      \/ k > sender.index \/ (k = sender.index /\ n > sender.offset)
  BY <1>t, <1>0
<1> QED BY <1>1, <1>2, <1>3, <1>4

LEMMA SendInit == T!Init => TcpSendInv
<1> SUFFICES ASSUME T!Init PROVE TcpSendInv
  OBVIOUS
<1>1. written = <<>> /\ sender.pc = "lua" /\ sender.msg = <<>>
  BY LuaIs DEF T!Init
<1> QED BY <1>1 DEF TcpSendInv, WrittenInv, PlaceInv, ReturnedInv

LEMMA SendInvPreserved ==
    ASSUME TcpTypeInv, TcpSendInv, [T!Next]_T!vars
    PROVE  TcpSendInv'
<1>t. /\ sender \in TcpThreads /\ sender.msg \in Seq(Nat) /\ Len(sender.msg) \in Nat
      /\ sender.index \in Nat \ {0} /\ sender.offset \in Nat
  BY DEF TcpTypeInv, TcpThreadsInv, TcpThreads
<1>w. /\ written \in Seq(Nat \X Nat) /\ Len(written) \in Nat
      /\ \A i, j \in 1..Len(written) : i < j => T!Before(written[i], written[j])
      /\ \A i \in 1..Len(written) : written[i][1] \in 1..Len(sender.msg)
      /\ \A i \in 1..Len(written) : written[i] \in Nat \X Nat
  BY ElementOfSeq DEF TcpSendInv, WrittenInv
<1>1. CASE UNCHANGED <<sender, written>>
  BY <1>1 DEF TcpSendInv, WrittenInv, PlaceInv, ReturnedInv, IsIn
<1>2. CASE SenderRuns
  <2>1. /\ UNCHANGED written /\ sender'.msg = sender.msg /\ sender'.index = sender.index
        /\ sender'.offset = sender.offset /\ sender'.res = sender.res
        /\ sender.pc = "lua" <=> sender'.pc = "lua"
    BY <1>2 DEF SenderRuns
  <2> QED BY <2>1 DEF TcpSendInv, WrittenInv, PlaceInv, ReturnedInv, IsIn
<1>3. CASE SenderCalls
  <2>1. /\ written' = <<>> /\ sender'.pc = "loop" /\ sender'.index = 1 /\ sender'.offset = 0
        /\ sender'.msg \in Seq(Nat) /\ sender'.res = "none"
    BY <1>3 DEF SenderCalls, TcpThreads
  <2>2. WrittenInv'
    BY <2>1 DEF WrittenInv
  <2>3. PlaceInv'
    <3>1. Len(sender'.msg) \in Nat
      BY <2>1
    <3>2. 1..(sender'.index - 1) = {} /\ 1..sender'.offset = {}
      BY <2>1
    <3>3. 1 <= Len(sender'.msg) + 1
      BY <3>1
    <3> QED BY <2>1, <3>2, <3>3 DEF PlaceInv
  <2> QED BY <2>1, <2>2, <2>3 DEF TcpSendInv, ReturnedInv
<1>4. CASE sender.pc = "loop" /\ SendReturns
  <2>1. PICK res \in {"none", "ok"} :
          /\ sender' = T!Return(sender, res) /\ UNCHANGED written
          /\ res = "ok" => sender.index > Len(sender.msg)
    BY <1>4 DEF SendReturns
  <2>2. sender'.pc = "lua" /\ sender'.msg = sender.msg /\ sender'.res = res
    BY <1>t, <2>1, ReturnIs
  <2>3. WrittenInv'
    BY <2>1, <2>2 DEF TcpSendInv, WrittenInv
  <2>4. PlaceInv'
    BY <2>2 DEF PlaceInv
  <2>5. ASSUME NEW k \in 1..Len(sender.msg), NEW n \in 1..sender.msg[k]
        PROVE  \/ IsIn(written, <<k, n>>)
               \/ res # "ok" /\ \A i \in 1..Len(written) : T!Before(written[i], <<k, n>>)
    BY <1>4, <2>1, PlaceMeans
  <2>6. ReturnedInv'
    BY <2>1, <2>2, <2>5 DEF ReturnedInv, IsIn
  <2> QED BY <2>3, <2>4, <2>6 DEF TcpSendInv
<1>5. CASE sender.pc = "loop" /\ SendGoesOn
  <2>1. /\ sender.index <= Len(sender.msg) /\ sender.offset >= sender.msg[sender.index]
        /\ sender'.pc = "loop" /\ sender'.msg = sender.msg /\ sender'.res = sender.res
        /\ sender'.index = sender.index + 1 /\ sender'.offset = 0 /\ UNCHANGED written
    BY <1>5 DEF SendGoesOn
  <2>p. /\ sender.res # "ok"
        /\ \A i \in 1..Len(written) :
             \/ written[i][1] < sender.index
             \/ written[i][1] = sender.index /\ written[i][2] <= sender.offset
        /\ \A l \in 1..(sender.index - 1) : \A m \in 1..sender.msg[l] : IsIn(written, <<l, m>>)
        /\ \A m \in 1..sender.offset : IsIn(written, <<sender.index, m>>)
    BY <1>5 DEF TcpSendInv, PlaceInv
  <2>2. WrittenInv'
    BY <2>1 DEF TcpSendInv, WrittenInv
  <2>3. sender'.index <= Len(sender'.msg) + 1
    BY <1>t, <2>1
  <2>4. \A i \in 1..Len(written) : written[i][1] < sender'.index
    <3>1. TAKE i \in 1..Len(written)
    <3>2. written[i][1] \in Nat
      BY <1>w
    <3>3. written[i][1] < sender.index \/ written[i][1] = sender.index
      BY <2>p
    <3>4. sender'.index = sender.index + 1
      BY <2>1
    <3> QED BY <1>t, <3>2, <3>3, <3>4
  <2>5. ASSUME NEW k \in 1..(sender'.index - 1), NEW n \in 1..sender.msg[k]
        PROVE  IsIn(written, <<k, n>>)
    <3>1. k \in 1..sender.index /\ sender.msg[k] \in Nat
      <4>1. k \in 1..sender.index /\ k \in 1..Len(sender.msg)
        BY <1>t, <2>1
      <4> QED BY <1>t, <4>1, ElementOfSeq
    <3>2. CASE k = sender.index
      <4>1. n \in 1..sender.offset
        BY <1>t, <2>1, <3>1, <3>2
      <4> QED BY <2>p, <3>2, <4>1
    <3>3. CASE k # sender.index
      <4>1. k \in 1..(sender.index - 1)
        BY <1>t, <3>1, <3>3
      <4> QED BY <2>p, <4>1
    <3> QED BY <3>2, <3>3
  <2>6. 1..sender'.offset = {}
    BY <2>1
  <2>7. PlaceInv'
    <3>1. /\ sender'.res # "ok"
          /\ sender'.offset = 0
          /\ \A n \in 1..sender'.offset : IsIn(written', <<sender'.index, n>>)
      BY <2>1, <2>6, <2>p
    <3>2. \A i \in 1..Len(written') : written'[i][1] < sender'.index
      BY <2>1, <2>4
    <3>3. \A k \in 1..(sender'.index - 1) : \A n \in 1..sender'.msg[k] : IsIn(written', <<k, n>>)
      BY <2>1, <2>5
    <3> QED BY <2>3, <3>1, <3>2, <3>3 DEF PlaceInv
  <2> QED BY <2>1, <2>2, <2>7 DEF TcpSendInv, ReturnedInv
<1>6. CASE sender.pc = "loop" /\ SendSuspends
  <2>1. /\ sender'.pc = "suspended" /\ sender'.msg = sender.msg /\ sender'.index = sender.index
        /\ sender'.offset = sender.offset /\ sender'.res = sender.res /\ UNCHANGED written
    BY <1>t, <1>6, SuspendIs DEF SendSuspends
  <2> QED BY <1>6, <2>1 DEF TcpSendInv, WrittenInv, PlaceInv, ReturnedInv, IsIn
<1>7. CASE sender.pc = "loop" /\ SendWrites
  <2>1. PICK n \in Nat :
          /\ sender.index <= Len(sender.msg) /\ sender' = T!Advance(sender, n)
          /\ written' = written \o [i \in 1..n |-> <<sender.index, sender.offset + i>>]
    BY <1>7 DEF SendWrites
  <2>2. /\ sender'.pc = "loop" /\ sender'.msg = sender.msg /\ sender'.index = sender.index
        /\ sender'.offset = sender.offset + n
        /\ sender'.res = sender.res
    BY <1>t, <1>7, <2>1, AdvanceIs
  <2>p. /\ sender.res # "ok"
        /\ \A i \in 1..Len(written) :
             \/ written[i][1] < sender.index
             \/ written[i][1] = sender.index /\ written[i][2] <= sender.offset
        /\ \A l \in 1..(sender.index - 1) : \A m \in 1..sender.msg[l] : IsIn(written, <<l, m>>)
        /\ \A m \in 1..sender.offset : IsIn(written, <<sender.index, m>>)
        /\ sender.index <= Len(sender.msg) + 1
    BY <1>7 DEF TcpSendInv, PlaceInv
  <2> DEFINE b == [i \in 1..n |-> <<sender.index, sender.offset + i>>]
             S == Nat \X Nat
             L == Len(written)
  <2>3. b \in Seq(S) /\ Len(b) = n /\ \A i \in 1..n : b[i] = <<sender.index, sender.offset + i>>
    <3>1. \A i \in 1..n : <<sender.index, sender.offset + i>> \in S
      BY <1>t
    <3>2. b \in [1..n -> S] /\ \A i \in 1..n : b[i] = <<sender.index, sender.offset + i>>
      BY <3>1
    <3> HIDE DEF b, S
    <3>3. b \in Seq(S) /\ Len(b) = n
      BY <3>2
    <3> QED BY <3>2, <3>3
  <2>4. /\ written' \in Seq(S) /\ Len(written') = L + n
        /\ \A i \in 1..(L + n) : written'[i] = IF i <= L THEN written[i]
                                               ELSE <<sender.index, sender.offset + (i - L)>>
    <3> HIDE DEF b, S
    <3>1. written \in Seq(S) /\ b \in Seq(S)
      BY <1>w, <2>3 DEF S
    <3>2. /\ written \o b \in Seq(S) /\ Len(written \o b) = Len(written) + Len(b)
          /\ \A i \in 1..(Len(written) + Len(b)) :
                (written \o b)[i] = IF i <= Len(written) THEN written[i] ELSE b[i - Len(written)]
      BY ONLY <3>1, ConcatProperties
    <3>3. written' = written \o b
      BY <2>1 DEF b
    <3>4. \A i \in 1..(L + n) : ~(i <= L) => i - L \in 1..n
      BY <1>w
    <3> QED BY <2>3, <3>2, <3>3, <3>4
  <2> HIDE DEF b, S
  <2>5. L \in Nat
    BY <1>w
  <2>6. ASSUME NEW i \in 1..(L + n)
        PROVE  /\ written'[i] \in Nat \X Nat
               /\ written'[i][1] \in 1..Len(sender.msg)
               /\ \/ written'[i][1] < sender.index
                  \/ written'[i][1] = sender.index /\ written'[i][2] <= sender.offset + n
    <3>1. CASE i <= L
      <4>1. i \in 1..Len(written) /\ written'[i] = written[i]
        BY <2>4, <2>5, <3>1
      <4>2. written[i] \in Nat \X Nat /\ written[i][1] \in 1..Len(sender.msg)
        BY <1>w, <4>1
      <4> QED BY <1>t, <2>1, <2>p, <4>1, <4>2
    <3>2. CASE ~(i <= L)
      <4>1. written'[i] = <<sender.index, sender.offset + (i - L)>> /\ i - L \in 1..n
        BY <2>4, <2>5, <3>2
      <4>2. sender.offset + (i - L) \in Nat /\ sender.index \in Nat /\ i - L <= n
        BY <1>t, <4>1
      <4>3. sender.offset + (i - L) <= sender.offset + n
        BY <1>t, <4>1
      <4>4. /\ written'[i][1] = sender.index /\ written'[i][2] = sender.offset + (i - L)
            /\ written'[i] \in Nat \X Nat
        BY <4>1, <4>2
      <4>5. sender.index \in 1..Len(sender.msg)
        BY <1>t, <2>1
      <4> QED BY <4>3, <4>4, <4>5
    <3> QED BY <3>1, <3>2
  <2>7. ASSUME NEW i \in 1..(L + n), NEW j \in 1..(L + n), i < j
        PROVE  T!Before(written'[i], written'[j])
    <3>1. CASE j <= L
      <4>1. /\ i \in 1..Len(written) /\ j \in 1..Len(written)
            /\ written'[i] = written[i] /\ written'[j] = written[j]
        BY <2>4, <2>5, <2>7, <3>1
      <4> QED BY <1>w, <2>7, <4>1
    <3>2. CASE ~(j <= L)
      <4>1. written'[j] = <<sender.index, sender.offset + (j - L)>> /\ j - L \in 1..n
        BY <2>4, <2>5, <3>2
      <4>2. CASE i <= L
        <5>1. i \in 1..Len(written) /\ written'[i] = written[i]
          BY <2>4, <2>5, <4>2
        <5>2. written[i] \in Nat \X Nat
          BY <1>w, <5>1
        <5> QED BY <1>t, <2>p, <4>1, <5>1, <5>2 DEF T!Before
      <4>3. CASE ~(i <= L)
        <5>1. written'[i] = <<sender.index, sender.offset + (i - L)>> /\ i - L \in 1..n
          BY <2>4, <2>5, <4>3
        <5>2. i - L < j - L
          BY <2>5, <2>7
        <5> QED BY <1>t, <2>5, <4>1, <5>1, <5>2 DEF T!Before
      <4> QED BY <4>2, <4>3
    <3> QED BY <3>1, <3>2
  <2>8. WrittenInv'
    BY <2>2, <2>4, <2>6, <2>7 DEF WrittenInv, S
  <2>9. ASSUME NEW u, IsIn(written, u) PROVE IsIn(written', u)
    <3>1. PICK i \in 1..L : written[i] = u
      BY <1>w, <2>9 DEF IsIn
    <3>2. i \in 1..(L + n) /\ written'[i] = u
      BY <2>4, <2>5, <3>1
    <3>3. i \in DOMAIN written'
      BY <2>4, <3>2
    <3> QED BY <3>2, <3>3 DEF IsIn
  <2>10. ASSUME NEW m \in 1..(sender.offset + n) PROVE IsIn(written', <<sender.index, m>>)
    <3>1. CASE m <= sender.offset
      <4>1. m \in 1..sender.offset
        BY <1>t, <3>1
      <4> QED BY <2>p, <2>9, <4>1
    <3>2. CASE ~(m <= sender.offset)
      <4> DEFINE i == L + (m - sender.offset)
      <4>1. i \in 1..(L + n) /\ ~(i <= L) /\ i - L = m - sender.offset /\ m \in Nat
        BY <1>t, <2>5, <3>2
      <4>2. written'[i] = <<sender.index, sender.offset + (i - L)>>
        BY <2>4, <4>1
      <4>3. sender.offset + (i - L) = m
        BY <1>t, <4>1
      <4>4. i \in DOMAIN written'
        BY <2>4, <4>1
      <4> HIDE DEF i
      <4> QED BY <4>2, <4>3, <4>4 DEF IsIn
    <3> QED BY <3>1, <3>2
  <2>11. PlaceInv'
    <3>1. \A i \in 1..Len(written') :
             \/ written'[i][1] < sender'.index
             \/ written'[i][1] = sender'.index /\ written'[i][2] <= sender'.offset
      BY <2>2, <2>4, <2>6
    <3>2. \A k \in 1..(sender'.index - 1) : \A m \in 1..sender'.msg[k] : IsIn(written', <<k, m>>)
      BY <2>2, <2>p, <2>9
    <3>3. ~(sender'.index > Len(sender'.msg)) /\ sender'.index <= Len(sender'.msg) + 1
      BY <1>t, <2>1, <2>2
    <3>4. \A m \in 1..sender'.offset : IsIn(written', <<sender'.index, m>>)
      BY <2>2, <2>10
    <3>5. sender'.res # "ok"
      BY <2>2, <2>p
    <3> QED BY <3>1, <3>2, <3>3, <3>4, <3>5 DEF PlaceInv
  <2> QED BY <2>2, <2>8, <2>11 DEF TcpSendInv, ReturnedInv
<1>8. CASE UNCHANGED T!vars
  BY <1>1, <1>8 DEF T!vars, T!threads
<1> QED BY <1>1, <1>2, <1>3, <1>4, <1>5, <1>6, <1>7, <1>8, SenderIs DEF SenderStep, SendTurn

TcpDataInv == TcpIInv /\ TcpRecvInv /\ TcpSendInv

LEMMA TcpDataInvariance == SpecAll => []TcpDataInv
<1>1. InitAll => TcpDataInv
  BY TcpInitType, PcbInit, ToldInit, RecvInit, SendInit DEF InitAll, TcpIInv, TcpDataInv
<1>2. TcpDataInv /\ [NextAll]_all => TcpDataInv'
  <2> SUFFICES ASSUME TcpDataInv, [NextAll]_all PROVE TcpDataInv'
    OBVIOUS
  <2>1. [T!Next]_T!vars
    BY TcpMoves
  <2>2. TcpTypeInv' /\ TcpPcbInv' /\ TcpToldInv'
    BY <2>1, TcpTypePreserved, PcbInvPreserved, ToldInvPreserved DEF TcpDataInv, TcpIInv
  <2>3. TcpRecvInv'
    BY <2>1, <2>2, RecvInvPreserved DEF TcpDataInv, TcpIInv, TcpToldInv
  <2>4. TcpSendInv'
    BY <2>1, SendInvPreserved DEF TcpDataInv, TcpIInv
  <2> QED BY <2>2, <2>3, <2>4 DEF TcpDataInv, TcpIInv
<1> QED BY <1>1, <1>2, PTL DEF SpecAll

LEMMA RecvInvMeans == TcpTypeInv /\ TcpRecvInv => T!RecvInOrder /\ T!WindowReturned /\ T!EofIsTheEnd
<1> SUFFICES ASSUME TcpTypeInv, TcpRecvInv
             PROVE  T!RecvInOrder /\ T!WindowReturned /\ T!EofIsTheEnd
  OBVIOUS
<1>1. /\ got \in Seq(Nat) /\ \A i \in 1..Len(got) : got[i] = i
      /\ \A i \in 1..Len(T!Unread) : T!Unread[i] = Len(got) + i
      /\ pcb # "closed" => Len(got) + Len(T!Unread) = peer.told
      /\ T!Unread \in Seq(Nat)
  BY UnreadIs DEF TcpRecvInv, GotInv
<1> DEFINE u == T!Unread
           s == got \o u
<1>2. u \in Seq(Nat) /\ \A i \in 1..Len(u) : u[i] = Len(got) + i
  BY <1>1
<1> HIDE DEF u
<1>3. /\ s \in Seq(Nat) /\ Len(s) = Len(got) + Len(u)
      /\ \A i \in 1..(Len(got) + Len(u)) : s[i] = IF i <= Len(got) THEN got[i] ELSE u[i - Len(got)]
  BY <1>1, <1>2, ConcatProperties
<1> HIDE DEF s
<1>4. \A i \in 1..Len(s) : s[i] = i
  <2>1. TAKE i \in 1..Len(s)
  <2>2. i \in 1..(Len(got) + Len(u)) /\ Len(got) \in Nat /\ Len(u) \in Nat
    BY <1>1, <1>2, <1>3
  <2>3. CASE i <= Len(got)
    <3>1. i \in 1..Len(got)
      BY <2>2, <2>3
    <3> QED BY <1>1, <1>3, <2>2, <2>3, <3>1
  <2>4. CASE ~(i <= Len(got))
    <3>1. i - Len(got) \in 1..Len(u)
      BY <2>2, <2>4
    <3>2. s[i] = u[i - Len(got)] /\ u[i - Len(got)] = Len(got) + (i - Len(got))
      BY <1>2, <1>3, <2>2, <2>4, <3>1
    <3> QED BY <2>2, <3>2
  <2> QED BY <2>3, <2>4
<1>5. s = [i \in 1..Len(s) |-> i]
  BY <1>3, <1>4
<1>6. T!RecvInOrder
  BY <1>1, <1>3, <1>5 DEF T!RecvInOrder, s, u
<1>7. T!WindowReturned /\ T!EofIsTheEnd
  BY DEF TcpRecvInv, WindowInv, T!WindowReturned, T!EofIsTheEnd, T!Gone
<1> QED BY <1>6, <1>7

LEMMA SendInvMeans == TcpTypeInv /\ TcpSendInv => T!SendInOrder
<1> SUFFICES ASSUME TcpTypeInv, TcpSendInv PROVE T!SendInOrder
  OBVIOUS
<1>t. /\ sender \in TcpThreads /\ sender.msg \in Seq(Nat) /\ Len(sender.msg) \in Nat
      /\ sender.index \in Nat \ {0} /\ sender.offset \in Nat
  BY DEF TcpTypeInv, TcpThreadsInv, TcpThreads
<1>w. /\ written \in Seq(Nat \X Nat) /\ DOMAIN written = 1..Len(written)
      /\ DOMAIN sender.msg = 1..Len(sender.msg)
  BY <1>t DEF TcpSendInv, WrittenInv
<1>1. ASSUME NEW u \in T!UnitsOf(sender.msg)
      PROVE  \/ \E i \in DOMAIN written : written[i] = u
             \/ /\ sender.res # "ok"
                /\ \A i \in DOMAIN written : T!Before(written[i], u)
  <2>1. PICK k \in 1..Len(sender.msg) : u \in {k} \X (1..sender.msg[k])
    BY <1>w DEF T!UnitsOf
  <2>2. PICK n \in 1..sender.msg[k] : u = <<k, n>>
    BY <2>1
  <2>3. \/ IsIn(written, u)
        \/ /\ sender.res # "ok"
           /\ \A i \in 1..Len(written) : T!Before(written[i], u)
    <3>1. CASE sender.pc = "lua"
      BY <2>2, <3>1 DEF TcpSendInv, ReturnedInv
    <3>2. CASE sender.pc # "lua"
      <4>1. sender.res # "ok"
        BY <3>2 DEF TcpSendInv, PlaceInv
      <4> QED BY <2>2, <3>2, <4>1, PlaceMeans
    <3> QED BY <3>1, <3>2
  <2> QED BY <1>w, <2>3 DEF IsIn
<1> QED BY <1>w, <1>1 DEF TcpSendInv, WrittenInv, T!SendInOrder

\* recv() returns the units that the peer sent, in order, each once, and its
\* end after all of them; each unit read goes back to the window; send()
\* writes the units of its strings in order, each once, and all of them when
\* it returns true: for any sizes of windows, buffers and pbufs.
THEOREM TcpDataCorrect == SpecAll => []TcpDataInOrder
<1>1. TcpDataInv => TcpDataInOrder
  BY RecvInvMeans, SendInvMeans DEF TcpDataInv, TcpIInv, TcpDataInOrder
<1> QED BY <1>1, TcpDataInvariance, PTL
=============================================================================
