------------------------------ MODULE NgramCounts ------------------------------
(***************************************************************************)
(* What the anomaly models of a gate promise (sg_anomaly.h): two tables of *)
(* n-gram counts.  A sample enters both tables or neither; decay and prune *)
(* act on one table at a time; every failure changes nothing.              *)
(***************************************************************************)
EXTENDS Integers, Sequences, FiniteSets

CONSTANTS Which, Samples, Scales, MinCounts, MaxOrder

VARIABLES counts,   \* per model: n-gram -> its positive count
          unseen    \* per model: stages that were new when they were learned

vars == <<counts, unseen>>

Shorter(a, b) == IF a < b THEN a ELSE b

Occurrences(items, gram) ==
    Cardinality({i \in Len(gram)..Len(items) :
                    SubSeq(items, i - Len(gram) + 1, i) = gram})

Grams(items) ==
    UNION {{SubSeq(items, i - k + 1, i) : k \in 1..Shorter(i, MaxOrder)} :
              i \in 1..Len(items)}

Count(table, gram) == IF gram \in DOMAIN table THEN table[gram] ELSE 0

Learnt(table, items) ==
    [gram \in DOMAIN table \cup Grams(items) |->
        Count(table, gram) + Occurrences(items, gram)]

New(table, items) ==
    Cardinality({gram \in Grams(items) \ DOMAIN table : Len(gram) = 1})

Keep(table, f(_), min) ==
    [gram \in {g \in DOMAIN table : f(table[g]) >= min} |-> f(table[gram])]

Init == /\ counts = [w \in Which |-> <<>>]
        /\ unseen = [w \in Which |-> 0]

Learn(sample) ==
    /\ counts' = [w \in Which |-> Learnt(counts[w], sample[w])]
    /\ unseen' = [w \in Which |-> unseen[w] + New(counts[w], sample[w])]

Decay(w, scale) ==
    LET Scaled(n) == (n * scale[1]) \div scale[2] IN
    /\ counts' = [counts EXCEPT ![w] = Keep(@, Scaled, 1)]
    /\ unseen' = [unseen EXCEPT ![w] = Scaled(@)]

Prune(w, min) ==
    LET Same(n) == n IN
    /\ counts' = [counts EXCEPT ![w] = Keep(@, Same, min)]
    /\ UNCHANGED unseen

Reset(w) ==
    /\ counts' = [counts EXCEPT ![w] = <<>>]
    /\ unseen' = [unseen EXCEPT ![w] = 0]

Next ==
    \/ \E sample \in Samples : Learn(sample)
    \/ \E w \in Which :
           \/ \E scale \in Scales : Decay(w, scale)
           \/ \E min \in MinCounts : Prune(w, min)
           \/ Reset(w)

Spec == Init /\ [][Next]_vars
===============================================================================
