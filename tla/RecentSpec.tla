----------------------------- MODULE RecentSpec -----------------------------
(***************************************************************************)
(* What Recent is for the action service: a queue of entries that is given *)
(* up from its old end only, and only when Cap newer entries were pushed.  *)
(* Entries are numbered as they are pushed, so the queue is a set.         *)
(***************************************************************************)
EXTENDS Integers, FiniteSets

CONSTANTS Cap, MaxSeq, Delays, Sizes

VARIABLES queue, lastPushed

Entries == [seq : 1..MaxSeq, delay : Delays, bytes : Sizes]

Init == queue = {} /\ lastPushed = 0

Oldest(o) == o \in queue /\ \A e \in queue : o.seq <= e.seq

Push(e) ==
    /\ lastPushed' = lastPushed + 1
    /\ e.seq = lastPushed + 1
    /\ \/ Cardinality(queue) < Cap /\ queue' = queue \cup {e}
       \/ \E o \in queue : /\ Oldest(o)
                           /\ o.seq + Cap <= e.seq
                           /\ queue' = (queue \ {o}) \cup {e}

RemoveFrom(S) ==
    /\ queue' = {e \in queue : e.seq \notin S}
    /\ UNCHANGED lastPushed

Pop ==
    /\ \E o \in queue : Oldest(o) /\ queue' = queue \ {o}
    /\ UNCHANGED lastPushed

Next ==
    \/ \E e \in Entries : Push(e)
    \/ \E S \in SUBSET (1..MaxSeq) : RemoveFrom(S)
    \/ Pop

Spec == Init /\ [][Next]_<<queue, lastPushed>>
=============================================================================
