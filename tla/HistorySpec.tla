---------------------------- MODULE HistorySpec ----------------------------
(***************************************************************************)
(* What History is for the session: the entries of a story in increasing   *)
(* order, given up from the old end only, and only while a limit of the    *)
(* history is exceeded or one is popped.                                   *)
(***************************************************************************)
EXTENDS Integers, Sequences, FiniteSetsExt

CONSTANTS MaxSeq, Delays, Sizes

VARIABLES story, lastSeq, limits

Entries == [seq : 1..MaxSeq, delay : Delays, bytes : Sizes]

Total(s, field) == MapThenSumSet(LAMBDA k : s[k][field], DOMAIN s)

Exceeds(s) ==
    \/ limits.count # 0 /\ Len(s) > limits.count
    \/ limits.delay # 0 /\ Total(s, "delay") > limits.delay
    \/ limits.bytes # 0 /\ Total(s, "bytes") > limits.bytes

From(s, k) == SubSeq(s, k, Len(s))

Init == story = << >> /\ lastSeq = 0

(* The longest end of the story that exceeds no limit remains. *)
Push(e) ==
    /\ e.seq > lastSeq
    /\ lastSeq' = e.seq
    /\ LET s == Append(story, e)
           first == Min({k \in 1..(Len(s) + 1) : ~Exceeds(From(s, k))})
       IN story' = From(s, first)

Pop ==
    /\ story # << >>
    /\ story' = Tail(story)
    /\ UNCHANGED lastSeq

Next == UNCHANGED limits /\ (Pop \/ \E e \in Entries : Push(e))

Spec == Init /\ [][Next]_<<story, lastSeq, limits>>
=============================================================================
