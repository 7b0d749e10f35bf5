------------------------------ MODULE History ------------------------------
(***************************************************************************)
(* sequence.History: the entries of a story in a linked list of nodes of   *)
(* fixed size, pushed at the tail and popped at the head, with running     *)
(* totals for the limits.  A node is the entries written to it and the     *)
(* index of the first one that was not popped; the list is a sequence.     *)
(***************************************************************************)
EXTENDS Integers, Sequences, FiniteSetsExt

LOCAL SeqExt == INSTANCE SequencesExt

CONSTANTS
    NodeSize, \* historyNodeSize
    MaxSeq,   \* bound: the largest sequence number
    Delays,   \* the delays of entries
    Sizes,    \* the payload sizes of entries
    Limits    \* the options: records of count, delay and bytes, 0 for none

VARIABLES
    h,     \* the History structure
    limits \* maxEntryCount, maxTotalDelay and maxTotalByteSize

vars == <<h, limits>>

Entries == [seq : 1..MaxSeq, delay : Delays, bytes : Sizes]

NewNode == [data |-> << >>, headIdx |-> 1]

NewHistory == [nodes |-> << >>, lastSeq |-> 0, count |-> 0, delay |-> 0, bytes |-> 0]

(* The entries of a node, and of the list. *)
NodeEntries(n) == SubSeq(n.data, n.headIdx, Len(n.data))

Iterate(q) == SeqExt!FlattenSeq([k \in DOMAIN q.nodes |-> NodeEntries(q.nodes[k])])

Tailed(nodes) ==
    IF nodes = << >> \/ Len(SeqExt!Last(nodes).data) >= NodeSize
    THEN Append(nodes, NewNode) ELSE nodes

(* push *)
Pushed(q, e) ==
    LET nodes == Tailed(q.nodes)
    IN IF e.seq <= q.lastSeq THEN q
       ELSE [nodes |-> [nodes EXCEPT ![Len(nodes)].data = Append(@, e)],
             lastSeq |-> e.seq, count |-> q.count + 1,
             delay |-> q.delay + e.delay, bytes |-> q.bytes + e.bytes]

(* A node whose last entry was popped leaves the list. *)
Unlink(nodes) == IF NodeEntries(Head(nodes)) = << >> THEN Tail(nodes) ELSE nodes

(* Pop *)
Popped(q) ==
    LET e == Head(NodeEntries(Head(q.nodes)))
    IN IF q.nodes = << >> THEN q
       ELSE [q EXCEPT !.nodes = Unlink([q.nodes EXCEPT ![1].headIdx = @ + 1]),
                      !.count = @ - 1, !.delay = @ - e.delay, !.bytes = @ - e.bytes]

(* mutant: a version with an if in place of the loop. *)
TrimmedOnce(q, field, max) == IF max # 0 /\ q[field] > max THEN Popped(q) ELSE q

(* Push's loops: entries are popped until the total is within the limit.   *)
(* Every iteration pops one, so count of them always suffice.              *)
Trimmed(q, field, max) ==
    SeqExt!FoldLeft(LAMBDA p, k : IF max # 0 /\ p[field] > max THEN Popped(p) ELSE p,
                    q, [k \in 1..q.count |-> k])
-----------------------------------------------------------------------------
Init == h = NewHistory /\ limits \in Limits

Push(e) ==
    LET q == Pushed(h, e)
        byCount == IF limits.count # 0 /\ q.count > limits.count THEN Popped(q) ELSE q
    IN  /\ h' = Trimmed(Trimmed(byCount, "delay", limits.delay), "bytes", limits.bytes)
        /\ UNCHANGED limits

Pop == h' = Popped(h) /\ UNCHANGED limits

Next == Pop \/ \E e \in Entries : Push(e)

Spec == Init /\ [][Next]_vars
-----------------------------------------------------------------------------
Abstract == INSTANCE HistorySpec WITH story <- Iterate(h), lastSeq <- h.lastSeq

(* mutant: a version that takes the index of the search for one of the node. *)
TakenUnshifted(n, from, to) ==
    LET es == NodeEntries(n)
        start == Min({k \in DOMAIN es : es[k].seq >= from} \cup {Len(es) + 1})
        stop == Min({k \in start..Len(n.data) : n.data[k].seq > to} \cup {Len(n.data) + 1})
    IN SubSeq(n.data, start, stop - 1)

(* What IterateRange takes of one node: from the entry the binary search   *)
(* finds on, as long as the numbers are in the range.                      *)
Taken(n, from, to) ==
    LET es == NodeEntries(n)
        start == Min({k \in DOMAIN es : es[k].seq >= from} \cup {Len(es) + 1})
        stop == Min({k \in start..Len(es) : es[k].seq > to} \cup {Len(es) + 1})
    IN SubSeq(es, start, stop - 1)

(* It passes over nodes that end below the range and stops at the first    *)
(* one that begins above it.                                               *)
IterateRange(q, from, to) ==
    LET beyond == {k \in DOMAIN q.nodes : Head(NodeEntries(q.nodes[k])).seq > to}
        last == Min({k - 1 : k \in beyond} \cup {Len(q.nodes)})
    IN SeqExt!FlattenSeq([k \in 1..last |->
         IF SeqExt!Last(q.nodes[k].data).seq < from THEN << >> ELSE Taken(q.nodes[k], from, to)])

(* RecentX walks back over the nodes and their entries until a limit would *)
(* be exceeded, and reverses what it has collected.                        *)
Backwards(q) ==
    SeqExt!FlattenSeq([k \in DOMAIN q.nodes |->
        SeqExt!Reverse(NodeEntries(q.nodes[Len(q.nodes) + 1 - k]))])

Within(value, limit) == limit = 0 \/ value <= limit

RecentX(q, limitEntries, limitDur, limitSize) ==
    LET step(acc, e) ==
          IF acc.stop \/ ~Within(acc.dur + e.delay, limitDur)
                      \/ ~Within(acc.size + e.bytes, limitSize)
          THEN [acc EXCEPT !.stop = TRUE]
          ELSE [out |-> Append(acc.out, e), dur |-> acc.dur + e.delay,
                size |-> acc.size + e.bytes, stop |-> Len(acc.out) + 1 = limitEntries]
        none == [out |-> << >>, dur |-> 0, size |-> 0, stop |-> FALSE]
    IN SeqExt!Reverse(SeqExt!FoldLeft(step, none, Backwards(q)).out)

EndOf(s, n) == SubSeq(s, Len(s) + 1 - n, Len(s))

Fits(s, l) ==
    /\ Within(Len(s), l.count)
    /\ Within(Abstract!Total(s, "delay"), l.delay)
    /\ Within(Abstract!Total(s, "bytes"), l.bytes)

(* A range of the story is replayed from the nodes, with their binary      *)
(* searches and early ends, exactly as far as it is still kept: nothing is *)
(* left out at a node's end and nothing repeated; the empty nodes that     *)
(* IterateRange could not stand do not occur.  What RecentX sends along    *)
(* with a new entry is the longest end of the story within its limits.     *)
ReplaysExactly ==
    /\ \A k \in DOMAIN h.nodes : NodeEntries(h.nodes[k]) # << >>
    /\ \A from, to \in 1..MaxSeq : from <= to =>
         IterateRange(h, from, to)
           = SelectSeq(Iterate(h), LAMBDA e : from <= e.seq /\ e.seq <= to)
    /\ \A l \in Limits :
         LET all == Iterate(h)
             fits == {n \in 0..Len(all) : Fits(EndOf(all, n), l)}
         IN RecentX(h, l.count, l.delay, l.bytes) = EndOf(all, Max(fits))

(* The list of nodes with its running totals is the bounded history.       *)
Refinement == Abstract!Spec
=============================================================================
