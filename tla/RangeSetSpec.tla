---------------------------- MODULE RangeSetSpec ----------------------------
(***************************************************************************)
(* What a range set is for its callers: a set of sequence numbers whose    *)
(* operations also return what they really added or removed.               *)
(***************************************************************************)
EXTENDS Integers

CONSTANT MaxSeq

VARIABLES set, ret

Seqs == 1..MaxSeq

Init == set = {} /\ ret = {}

Union(Q) == set' = set \cup Q /\ ret' = Q \ set

Subtract(Q) == set' = set \ Q /\ ret' = set \cap Q

UnionRangeSet == set' = set \cup ret /\ ret' = ret

Clear == set' = {} /\ ret' = {}

Next ==
    \/ \E a, b \in Seqs : a <= b /\ (Union(a..b) \/ Subtract(a..b))
    \/ UnionRangeSet
    \/ Clear

Spec == Init /\ [][Next]_<<set, ret>>
=============================================================================
