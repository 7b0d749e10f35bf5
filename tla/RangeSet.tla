------------------------------ MODULE RangeSet ------------------------------
(***************************************************************************)
(* sequence.RangeSet: a set of sequence numbers kept as a linked list of   *)
(* ranges, changed in place by loops that extend, merge, shrink, split and *)
(* unlink nodes.  The list is a sequence of [from, to] records; a loop     *)
(* that walks to the first node with a property is the index of that node. *)
(***************************************************************************)
EXTENDS Integers, Sequences, FiniteSetsExt

CONSTANT MaxSeq \* bound: the largest sequence number of the instance

VARIABLES
    nodes, \* the list that starts at RangeSet.first
    ret    \* the list of the range set the last operation returned

vars == <<nodes, ret>>

Seqs == 1..MaxSeq

RangeInclusive(from, to) == [from |-> from, to |-> to]

Ranges == {r \in [from : Seqs, to : Seqs] : r.from <= r.to}

(* q reaches node n from below, from above: it overlaps or touches it.     *)
ReachesUpExact(n, q) == q.to >= n.from \* mutant

ReachesUp(n, q) == q.to >= n.from - 1

ReachesDown(n, q) == q.from <= n.to + 1

(* The index of the first node q reaches from above, one past the end if   *)
(* there is none.                                                          *)
FirstReached(rs, q) == Min({k \in DOMAIN rs : ReachesDown(rs[k], q)} \cup {Len(rs) + 1})

(* The last of the nodes that one node k absorbs: those q reaches, when it *)
(* ends above node k.                                                      *)
LastAbsorbed(rs, k, q) ==
    IF q.to <= rs[k].to THEN k
    ELSE Max({m \in k..Len(rs) : \A j \in (k + 1)..m : ReachesUp(rs[j], q)})

(* The list with nodes k..m replaced by those of mid.                      *)
Splice(rs, k, m, mid) == SubSeq(rs, 1, k - 1) \o mid \o SubSeq(rs, m + 1, Len(rs))

(* The list after union. *)
UnionNodes(rs, q) ==
    LET k == FirstReached(rs, q)
    IN IF k > Len(rs) \/ ~ReachesUp(rs[k], q) THEN Splice(rs, k, k - 1, <<q>>)
       ELSE LET m == LastAbsorbed(rs, k, q)
                merged == RangeInclusive(Min({q.from, rs[k].from}), Max({q.to, rs[m].to}))
            IN Splice(rs, k, m, <<merged>>)

(* The pieces union adds: below node k, between the absorbed nodes, above  *)
(* the last of them.                                                       *)
UnionPieces(rs, q) ==
    LET k == FirstReached(rs, q)
    IN IF k > Len(rs) \/ ~ReachesUp(rs[k], q) THEN <<q>>
       ELSE LET m == LastAbsorbed(rs, k, q)
                lower == IF q.from < rs[k].from
                         THEN <<RangeInclusive(q.from, rs[k].from - 1)>> ELSE << >>
                mid == [j \in 1..(m - k) |->
                          RangeInclusive(rs[k + j - 1].to + 1, rs[k + j].from - 1)]
                upper == IF q.to > rs[m].to
                         THEN <<RangeInclusive(rs[m].to + 1, q.to)>> ELSE << >>
            IN lower \o mid \o upper

(* result.union, once per piece. *)
UnionAll(rs, pieces) ==
    LET after[n \in 0..Len(pieces)] ==
            IF n = 0 THEN rs ELSE UnionNodes(after[n - 1], pieces[n])
    IN after[Len(pieces)]

(* The nodes subtract changes; as the list is sorted, they are neighbours. *)
Overlaps(n, q) == q.from <= n.to /\ n.from <= q.to

Overlapped(rs, q) == {k \in DOMAIN rs : Overlaps(rs[k], q)}

(* What subtract leaves of the first of them, below q, and of the last,    *)
(* above q: a node that holds q in its middle is split in two.             *)
RemainLower(n, q) ==
    IF q.from > n.from THEN <<RangeInclusive(n.from, q.from - 1)>> ELSE << >>

RemainUpperUnsplit(n, q) == \* mutant: the split forgets its second node
    IF q.to < n.to /\ q.from <= n.from THEN <<RangeInclusive(q.to + 1, n.to)>> ELSE << >>

RemainUpper(n, q) ==
    IF q.to < n.to THEN <<RangeInclusive(q.to + 1, n.to)>> ELSE << >>

SubtractNodes(rs, q) ==
    LET K == Overlapped(rs, q)
    IN IF K = {} THEN rs
       ELSE Splice(rs, Min(K), Max(K), RemainLower(rs[Min(K)], q) \o RemainUpper(rs[Max(K)], q))

(* The part of each that subtract takes out. *)
SubtractPieces(rs, q) ==
    LET K == Overlapped(rs, q)
    IN IF K = {} THEN << >>
       ELSE [j \in 1..(Max(K) - Min(K) + 1) |->
               LET n == rs[Min(K) + j - 1]
               IN RangeInclusive(Max({q.from, n.from}), Min({q.to, n.to}))]

(* Contains looks for one node that covers q. *)
Contains(rs, q) == \E k \in DOMAIN rs : rs[k].from <= q.from /\ q.to <= rs[k].to
-----------------------------------------------------------------------------
Init == nodes = << >> /\ ret = << >>

Union(q) ==
    /\ nodes' = UnionNodes(nodes, q)
    /\ ret' = UnionAll(<< >>, UnionPieces(nodes, q))

(* Add returns whether union added anything. *)
Add(seq) == Union(RangeInclusive(seq, seq))

Subtract(q) ==
    /\ nodes' = SubtractNodes(nodes, q)
    /\ ret' = UnionAll(<< >>, SubtractPieces(nodes, q))

(* Remove shrinks, splits or unlinks the one node that holds seq, and      *)
(* returns whether there is one.                                           *)
Remove(seq) ==
    LET k == Min({j \in DOMAIN nodes : seq <= nodes[j].to} \cup {Len(nodes) + 1})
        q == RangeInclusive(seq, seq)
    IN IF k > Len(nodes) \/ seq < nodes[k].from
       THEN nodes' = nodes /\ ret' = << >>
       ELSE /\ nodes' = Splice(nodes, k, k, RemainLower(nodes[k], q) \o RemainUpper(nodes[k], q))
            /\ ret' = <<q>>

(* The argument is the range set an earlier operation returned, as in      *)
(* Engine's newlyMissing.                                                  *)
UnionRangeSet ==
    /\ nodes' = UnionAll(nodes, ret)
    /\ ret' = ret

Clear == nodes' = << >> /\ ret' = << >>

Next ==
    \/ \E q \in Ranges : Union(q)
    \/ \E q \in Ranges : Subtract(q)
    \/ \E s \in Seqs : Add(s)
    \/ \E s \in Seqs : Remove(s)
    \/ UnionRangeSet
    \/ Clear

Spec == Init /\ [][Next]_vars
-----------------------------------------------------------------------------
Denotes(rs) == UNION {rs[k].from..rs[k].to : k \in DOMAIN rs}

IsCanonical(rs) ==
    /\ \A k \in DOMAIN rs : rs[k].from <= rs[k].to
    /\ \A j, k \in DOMAIN rs : j < k => rs[j].to + 1 < rs[k].from

(* The list of every range set is sorted, its nodes are not empty and no   *)
(* two of them overlap or touch.  Every loop of range.go relies on it, and *)
(* so does Contains, which looks at one node at a time.                    *)
Canonical ==
    /\ IsCanonical(nodes) /\ IsCanonical(ret)
    /\ \A q \in Ranges : Contains(nodes, q) <=> q.from..q.to \subseteq Denotes(nodes)

(* Every operation has the effect on the set, and returns the difference,  *)
(* that set union and set difference have.                                 *)
Abstract == INSTANCE RangeSetSpec WITH set <- Denotes(nodes), ret <- Denotes(ret)

Refinement == Abstract!Spec
=============================================================================
