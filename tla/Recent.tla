------------------------------- MODULE Recent -------------------------------
(***************************************************************************)
(* sequence.Recent: the ring buffer in which the client's action service   *)
(* keeps the actions the server has not confirmed.  The window is the last *)
(* `size` slots up to `head`; a removed entry leaves a hole, an entry with *)
(* Seq = SequenceNone, and `holes` counts them.                            *)
(***************************************************************************)
EXTENDS StreamOps, Sequences, FiniteSetsExt

CONSTANTS
    Cap,      \* the capacity given to NewRecent
    MaxSeq,   \* bound: how many entries are pushed
    Delays,   \* the delays of pushed entries
    Sizes,    \* the payload sizes of pushed entries
    MaxDelay, \* maxRecentTotalDelay, 0 for none
    MaxBytes  \* maxRecentTotalByteSize, 0 for none

VARIABLES
    r,          \* the Recent structure
    lastPushed, \* number of the last entry pushed (Enumerator.lastSeq)
    elapsed,    \* history: the sum of all delays pushed
    pushedAt    \* history: elapsed when a number was pushed

vars == <<r, lastPushed, elapsed, pushedAt>>

Seqs == 1..MaxSeq

Hole == [seq |-> SequenceNone, delay |-> 0, bytes |-> 0, cumulativeDelay |-> 0]

(* The slot n places before index idx of the ring. *)
Before(idx, n) == (idx + Cap - n) % Cap

(* The slots of the window, newest first, and the numbers of the places    *)
(* that hold an entry.                                                     *)
Slot(q, n) == q.entries[Before(q.head, n)]

Live(q) == {n \in 0..(q.size - 1) : Slot(q, n).seq # SequenceNone}

(* A set of places as a list, oldest first. *)
OldestFirst(S) == [k \in 1..Cardinality(S) |-> Sorted(S)[Cardinality(S) + 1 - k]]

NewRecent == [head |-> 0, size |-> 0, holes |-> 0,
              entries |-> [idx \in 0..(Cap - 1) |-> Hole]]

(* trimHead gives up the holes at the new end, trimTail those at the old   *)
(* end, unless no hole is counted.                                         *)
TrimHead(q) ==
    LET n == Min(Live(q) \cup {q.size})
    IN [q EXCEPT !.head = Before(@, n), !.size = @ - n, !.holes = @ - n]

TrimTail(q) ==
    LET n == q.size - Max({k + 1 : k \in Live(q)} \cup {0})
    IN IF q.holes = 0 THEN q ELSE [q EXCEPT !.size = @ - n, !.holes = @ - n]

IncNewestOnly(q, d) == \* mutant
    [q EXCEPT !.entries = [idx \in DOMAIN q.entries |->
        IF \E n \in Live(q) : n = 0 /\ idx = Before(q.head, n)
        THEN [q.entries[idx] EXCEPT !.cumulativeDelay = @ + d]
        ELSE q.entries[idx]]]

IncCumulativeDelay(q, d) ==
    [q EXCEPT !.entries = [idx \in DOMAIN q.entries |->
        IF \E n \in Live(q) : idx = Before(q.head, n)
        THEN [q.entries[idx] EXCEPT !.cumulativeDelay = @ + d]
        ELSE q.entries[idx]]]

(* The holes that removing the entries at places S of the window leaves.   *)
MakeHoles(q, S) ==
    [q EXCEPT !.holes = @ + Cardinality(S),
              !.entries = [idx \in DOMAIN q.entries |->
        IF \E n \in S : idx = Before(q.head, n) THEN Hole ELSE q.entries[idx]]]

(* The payload of the entries at places S. *)
Bytes(q, S) == MapThenSumSet(LAMBDA k : Slot(q, k).bytes, S)

(* The places of the list Recent returns: back from the newest entry until *)
(* a limit is exceeded, then reversed.                                     *)
Taken(q, n) ==
    /\ MaxDelay > 0 => Slot(q, n).cumulativeDelay <= MaxDelay
    /\ MaxBytes > 0 => Bytes(q, {k \in Live(q) : k <= n}) <= MaxBytes

RecentEntries(q) ==
    LET stop == Min({n \in Live(q) : ~Taken(q, n)} \cup {q.size})
    IN OldestFirst({n \in Live(q) : n < stop})

LenLive(q) == IF q.holes = 0 THEN q.size ELSE Cardinality(Live(q))
-----------------------------------------------------------------------------
Init ==
    /\ r = NewRecent
    /\ lastPushed = 0
    /\ elapsed = 0
    /\ pushedAt = [s \in Seqs |-> 0]

(* The slot that takes a new entry. *)
PlaceFull(q, e) == \* mutant: off by one at the capacity
    LET head == (q.head + 1) % Cap
    IN [q EXCEPT !.size = IF @ + 1 < Cap THEN @ + 1 ELSE @,
                 !.head = head, !.entries[head] = e]

PlaceNew(q, e) ==
    LET head == (q.head + 1) % Cap
    IN [q EXCEPT !.size = Min({@ + 1, Cap}), !.head = head, !.entries[head] = e]

Push(d, b) ==
    /\ lastPushed < MaxSeq
    /\ LET e == [seq |-> lastPushed + 1, delay |-> d, bytes |-> b, cumulativeDelay |-> 0]
       IN r' = TrimTail(PlaceNew(IncCumulativeDelay(r, d), e))
    /\ lastPushed' = lastPushed + 1
    /\ elapsed' = elapsed + d
    /\ pushedAt' = [pushedAt EXCEPT ![lastPushed + 1] = elapsed + d]

Pop ==
    /\ r.size > 0
    /\ r' = TrimTail([r EXCEPT !.size = @ - 1])
    /\ UNCHANGED <<lastPushed, elapsed, pushedAt>>

Remove(s) ==
    /\ \E n \in Live(r) : Slot(r, n).seq = s /\ r' = TrimTail(TrimHead(MakeHoles(r, {n})))
    /\ UNCHANGED <<lastPushed, elapsed, pushedAt>>

(* RemoveFn with a confirmation: everything up to s goes.  It trims only   *)
(* when no hole is counted, that is, when there is nothing to trim.        *)
RemoveFn(s) ==
    /\ LET gone == {n \in Live(r) : Slot(r, n).seq <= s}
           q == MakeHoles(r, gone)
       IN r' = IF q.holes > 0 THEN q ELSE TrimTail(TrimHead(q))
    /\ UNCHANGED <<lastPushed, elapsed, pushedAt>>

Clear ==
    /\ r' = [r EXCEPT !.size = 0, !.holes = 0]
    /\ UNCHANGED <<lastPushed, elapsed, pushedAt>>

Next ==
    \/ \E d \in Delays, b \in Sizes : Push(d, b)
    \/ Pop
    \/ \E s \in Seqs : Remove(s)
    \/ \E s \in Seqs : RemoveFn(s)
    \/ Clear

Spec == Init /\ [][Next]_vars
-----------------------------------------------------------------------------
(* What Recent returns is a run of the newest entries, in the order they   *)
(* were pushed, that respects both limits, by the time since they were     *)
(* pushed, and the next older entry would exceed one of them.  Len, which  *)
(* trusts the counter of holes, is the number of entries: the holes of the *)
(* window are never more than counted (the counter may be too high: a hole *)
(* that is overwritten or popped is not subtracted).                       *)
Fits(S) ==
    /\ MaxBytes > 0 => Bytes(r, S) <= MaxBytes
    /\ MaxDelay > 0 => \A k \in S : elapsed - pushedAt[Slot(r, k).seq] <= MaxDelay

AnswersExact ==
    LET list == RecentEntries(r)
        got == {list[i] : i \in DOMAIN list}
        older == Live(r) \ got
    IN /\ got \subseteq Live(r)
       /\ \A k \in got, m \in older : k < m
       /\ \A i, j \in DOMAIN list : i < j => Slot(r, list[i]).seq < Slot(r, list[j]).seq
       /\ Fits(got)
       /\ older # {} => ~Fits(got \cup {Min(older)})
       /\ LenLive(r) = Cardinality(Live(r))
       /\ r.size - Cardinality(Live(r)) <= r.holes

EntryAt(n) ==
    [seq |-> Slot(r, n).seq, delay |-> Slot(r, n).delay, bytes |-> Slot(r, n).bytes]

(* The ring with its holes is the bounded queue the action service needs:  *)
(* an unconfirmed action is given up only after Cap newer ones.            *)
Abstract == INSTANCE RecentSpec WITH queue <- {EntryAt(n) : n \in Live(r)}

Refinement == Abstract!Spec
=============================================================================
