------------------------------ MODULE QueueOps ------------------------------
(* Operators on the sequences that stand for queues without repetition.    *)
EXTENDS Naturals, Sequences, FiniteSets

Elements(s) == {s[i] : i \in DOMAIN s}

Distinct(s) == \A i, j \in DOMAIN s : s[i] = s[j] => i = j

\* The queue s, in which e is at most once, without e.
Without(s, e) ==
    IF e \in Elements(s)
    THEN LET i == CHOOSE i \in DOMAIN s : s[i] = e
         IN  SubSeq(s, 1, i - 1) \o SubSeq(s, i + 1, Len(s))
    ELSE s

\* The sequences that list each element of the finite set S once.
Orders(S) == {s \in [1..Cardinality(S) -> S] : Distinct(s)}
=============================================================================
