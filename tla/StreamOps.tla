------------------------------ MODULE StreamOps ------------------------------
(***************************************************************************)
(* What one call of sequence.Engine promises, in closed form: from the     *)
(* position of the stream, the numbers waiting ahead of it and the feed,   *)
(* the new position, the numbers left waiting and the gaps.  StreamSpec    *)
(* and the channel modules use these operators; Stream, the loop-by-loop   *)
(* model of the code, is shown to compute them.                            *)
(***************************************************************************)
EXTENDS Integers, FiniteSets

SequenceNone == 0

SequenceFirst == 1

(* The entries of feed f that push looks at: a number smaller than an      *)
(* earlier one of the same feed is passed over, and so is one that the     *)
(* stream has already passed.                                              *)
Accepted(last, f) ==
    {f[i] : i \in {k \in DOMAIN f :
                     /\ f[k] > last
                     /\ \A j \in DOMAIN f : j < k => f[j] <= f[k]}}

(* Where delivery resumes: an expired stream jumps to the first accepted   *)
(* entry, whatever is missing before it.                                   *)
ResumeAt(last, accepted, expired) ==
    IF expired /\ accepted # {}
    THEN CHOOSE s \in accepted : \A t \in accepted : s <= t
    ELSE last

(* The last number of the run of S that starts right after from.           *)
RunEnd(from, S) ==
    CHOOSE n \in {from} \cup S :
        /\ n >= from
        /\ (from + 1)..n \subseteq S
        /\ n + 1 \notin S

(* The stream's position after push. *)
PushLast(last, ahead, f, expired) ==
    LET acc == Accepted(last, f)
    IN  RunEnd(ResumeAt(last, acc, expired), ahead \cup acc)

(* The numbers that wait ahead of the stream after push. *)
PushAhead(last, ahead, f, expired) ==
    {s \in ahead \cup Accepted(last, f) : s > PushLast(last, ahead, f, expired)}

PushOutAgain(last, ahead, f, expired) == \* mutant: the last number is repeated
    ResumeAt(last, Accepted(last, f), expired)..PushLast(last, ahead, f, expired) \ {0}

(* The numbers push returns, to be read in increasing order. *)
PushOut(last, ahead, f, expired) ==
    LET acc == Accepted(last, f)
        res == ResumeAt(last, acc, expired)
        end == PushLast(last, ahead, f, expired)
    IN  (IF res > last THEN {res} ELSE {}) \cup (res + 1)..end

(* A set of numbers as an increasing list. *)
Sorted(S) ==
    [k \in 1..Cardinality(S) |-> CHOOSE s \in S : Cardinality({t \in S : t <= s}) = k]

(* The numbers that are known to exist and have not arrived. *)
GetMissing(last, ahead) ==
    {s \in UNION {(last + 1)..t : t \in ahead} : s \notin ahead}
=============================================================================
