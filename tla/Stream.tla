------------------------------- MODULE Stream -------------------------------
(***************************************************************************)
(* sequence.Stream and sequence.Engine: the receiving end of a numbered    *)
(* stream whose chunks arrive over UDP.  One call of Engine is modelled    *)
(* loop iteration by loop iteration: BeginPush, one step per feed entry,   *)
(* one step per node taken off the ahead list, and the update of the set   *)
(* of missing numbers that ends the call.  Calls do not overlap: the       *)
(* server holds remoteActorData.mx around Engine and the client calls it   *)
(* from one goroutine.                                                     *)
(*                                                                         *)
(* The ahead list (sorted, without duplicates) is the set of its numbers,  *)
(* and a range set is the set it denotes (module RangeSet).                *)
(***************************************************************************)
EXTENDS StreamOps, Sequences

CONSTANTS
    MaxSeq,      \* bound: the largest sequence number of the instance
    MaxFeed,     \* bound: the largest number of entries of one feed
    MaxTime,     \* bound: the last instant of the clock
    MaxWaits,    \* WithMaxWait's arguments, 0 for no such option
    InitialSeq   \* WithInitialSeq's argument, SequenceFirst by default

ASSUME StreamConstants ==
    /\ MaxSeq \in Nat
    /\ MaxFeed \in Nat
    /\ MaxTime \in Nat
    /\ MaxWaits \subseteq Nat
    /\ InitialSeq \in Nat \ {SequenceNone}

VARIABLES
    maxWait,      \* Stream.maxWaitTime, fixed when the stream is made
    now,          \* the wall clock; instants start at 1, 0 is the zero time.Time
    lastSeq,      \* Stream.lastSeq
    lastTime,     \* Stream.lastTime
    ahead,        \* Stream.ahead, as the set of its numbers
    nodeTime,     \* node.time of the numbers that were put in the ahead list
    missing,      \* the receiver's RangeSet of missing numbers
    newlyMissing, \* what the last call of Engine returned as newly missing
    pc,           \* where the current call is
    feed,         \* the entries of the current call (their numbers)
    i,            \* index of the feed loop
    seqPrev,      \* local of push
    expired,      \* local of push
    pushed,       \* len(r) > 0
    log,          \* history: every number delivered, in order of delivery
    heard,        \* history: every number that arrived in the order of its feed
    base          \* history: position, ahead and lastTime when the call began

vars == <<maxWait, now, lastSeq, lastTime, ahead, nodeTime, missing, newlyMissing, pc,
          feed, i, seqPrev, expired, pushed, log, heard, base>>

streamVars == <<lastSeq, lastTime, ahead, nodeTime, missing, newlyMissing>>

callVars == <<pc, feed, i, seqPrev, expired, pushed>>

Seqs == 1..MaxSeq

Feeds == UNION {[1..n -> Seqs] : n \in 0..MaxFeed}

Gaps == GetMissing(lastSeq, ahead)

NoBase == [last |-> SequenceNone, ahead |-> {}, time |-> 0]

(* WithInitialSeq: the stream waits for InitialSeq. *)
StartSeq == InitialSeq - 1

Init ==
    /\ maxWait \in MaxWaits
    /\ now = 1
    /\ lastSeq = StartSeq
    /\ lastTime = 0
    /\ ahead = {}
    /\ nodeTime = [s \in Seqs |-> 0]
    /\ missing = {}
    /\ newlyMissing = {}
    /\ pc = "idle"
    /\ feed = << >>
    /\ i = 1
    /\ seqPrev = SequenceNone
    /\ expired = FALSE
    /\ pushed = FALSE
    /\ log = << >>
    /\ heard = {}
    /\ base = NoBase

(* Time passes between calls. *)
Tick ==
    /\ pc = "idle"
    /\ now < MaxTime
    /\ now' = now + 1
    /\ UNCHANGED <<streamVars, callVars, log, heard, base>>

(* Whether the stream has waited too long for its next number since start. *)
LateOrEqual(start) == maxWait # 0 /\ now - start >= maxWait \* mutant

Late(start) == maxWait # 0 /\ now - start > maxWait

(* Engine is called: push reads the clock and decides whether the stream   *)
(* has expired before it looks at the first entry.                         *)
BeginPush ==
    /\ pc = "idle"
    /\ \E f \in Feeds :
         LET start == IF lastTime = 0 THEN now ELSE lastTime
         IN /\ lastTime' = start
            /\ feed' = f
            /\ expired' = Late(start)
    /\ base' = [last |-> lastSeq, ahead |-> ahead, time |-> lastTime]
    /\ newlyMissing' = {}
    /\ pc' = "feed"
    /\ i' = 1
    /\ seqPrev' = SequenceNone
    /\ pushed' = FALSE
    /\ UNCHANGED <<now, lastSeq, ahead, nodeTime, missing, log, heard>>

(* The head of the feed loop, shared by its branches. *)
FeedLoop ==
    /\ pc = "feed"
    /\ i \in DOMAIN feed
    /\ i' = i + 1
    /\ UNCHANGED <<now, lastTime, missing, newlyMissing, pc, feed, base>>

(* The tests of the feed loop, in the order the code makes them. *)
IsDecreasing == feed[i] < seqPrev

IsOld == feed[i] <= lastSeq

IsNextLoose == feed[i] >= lastSeq + 1 \* mutant

IsNext == feed[i] = lastSeq + 1 \/ expired

(* An entry in the feed's own order moves seqPrev. *)
InFeedOrder ==
    /\ FeedLoop
    /\ ~IsDecreasing
    /\ seqPrev' = feed[i]
    /\ heard' = heard \cup {feed[i]}

(* An entry out of the feed's own order is passed over. *)
PassDecreasing ==
    /\ FeedLoop
    /\ IsDecreasing
    /\ UNCHANGED <<lastSeq, ahead, nodeTime, seqPrev, expired, pushed, log, heard>>

(* An entry that was delivered or skipped before. *)
PassOld ==
    /\ InFeedOrder
    /\ IsOld
    /\ UNCHANGED <<lastSeq, ahead, nodeTime, expired, pushed, log>>

(* The next entry, or the first one of an expired stream. *)
Deliver ==
    /\ InFeedOrder
    /\ ~IsOld
    /\ IsNext
    /\ log' = Append(log, feed[i])
    /\ lastSeq' = feed[i]
    /\ expired' = FALSE
    /\ pushed' = TRUE
    /\ UNCHANGED <<ahead, nodeTime>>

(* pushAhead: the entry waits; a second copy of it changes nothing. *)
KeepAhead ==
    /\ InFeedOrder
    /\ ~IsOld
    /\ ~IsNext
    /\ ahead' = ahead \cup {feed[i]}
    /\ nodeTime' = IF feed[i] \in ahead THEN nodeTime
                   ELSE [nodeTime EXCEPT ![feed[i]] = now]
    /\ UNCHANGED <<lastSeq, expired, pushed, log>>

(* A call that delivered something restarts the wait. *)
TimeOfAnyCall == now \* mutant

TimeAfterFeed == IF pushed THEN now ELSE lastTime

EndFeed ==
    /\ pc = "feed"
    /\ i \notin DOMAIN feed
    /\ lastTime' = TimeAfterFeed
    /\ pc' = "drain"
    /\ UNCHANGED <<now, lastSeq, ahead, nodeTime, missing, newlyMissing, feed, i,
                   seqPrev, expired, pushed, log, heard, base>>

IsFirstAhead(c) == c \in ahead /\ \A d \in ahead : c <= d

(* The loop over the ahead list goes on with node c. *)
Drains(c) == c <= lastSeq + 1

(* One iteration over the ahead list: its first node is delivered, or      *)
(* dropped when the stream has passed it.                                  *)
DrainAhead ==
    /\ pc = "drain"
    /\ \E c \in ahead :
         /\ IsFirstAhead(c)
         /\ Drains(c)
         /\ ahead' = ahead \ {c}
         /\ nodeTime' = [nodeTime EXCEPT ![c] = 0]
         /\ lastSeq' = IF c = lastSeq + 1 THEN c ELSE lastSeq
         /\ log' = IF c = lastSeq + 1 THEN Append(log, c) ELSE log
    /\ UNCHANGED <<now, lastTime, missing, newlyMissing, callVars, heard, base>>

(* The numbers of the feed, which Engine removes from the missing ones. *)
ArrivedNone == {} \* mutant

Arrived == {feed[k] : k \in DOMAIN feed}

(* The rest of Engine: the numbers the stream has passed and those of the  *)
(* feed are no longer missing, every gap is.                               *)
EndEngine ==
    /\ pc = "drain"
    /\ \A c \in ahead : ~Drains(c)
    /\ LET passed == IF lastSeq > SequenceFirst THEN SequenceFirst..lastSeq ELSE {}
           still == (missing \ passed) \ Arrived
       IN /\ missing' = still \cup Gaps
          /\ newlyMissing' = Gaps \ still
    /\ pc' = "idle"
    /\ feed' = << >>
    /\ i' = 1
    /\ seqPrev' = SequenceNone
    /\ expired' = FALSE
    /\ pushed' = FALSE
    /\ base' = NoBase
    /\ UNCHANGED <<now, lastSeq, lastTime, ahead, nodeTime, log, heard>>

FeedStep == PassDecreasing \/ PassOld \/ Deliver \/ KeepAhead

Next ==
    /\ Tick \/ BeginPush \/ FeedStep \/ EndFeed \/ DrainAhead \/ EndEngine
    /\ UNCHANGED maxWait

Spec == Init /\ [][Next]_vars
-----------------------------------------------------------------------------
(* Type invariant. *)
TypeOK ==
    /\ maxWait \in Nat
    /\ now \in Nat \ {0}
    /\ lastSeq \in Nat
    /\ lastTime \in Nat
    /\ ahead \subseteq Seqs
    /\ nodeTime \in [Seqs -> Nat]
    /\ missing \subseteq Seqs
    /\ newlyMissing \subseteq Seqs
    /\ pc \in {"idle", "feed", "drain"}
    /\ feed \in Seq(Seqs)
    /\ i \in Nat \ {0}
    /\ seqPrev \in Nat
    /\ expired \in BOOLEAN
    /\ pushed \in BOOLEAN
    /\ log \in Seq(Nat)
    /\ heard \subseteq Seqs
    /\ base \in [last : Nat, ahead : SUBSET Seqs, time : Nat]

(* What push hands out is strictly increasing over the whole life of the   *)
(* stream, whatever the feeds repeat or reorder: no chunk is delivered     *)
(* twice and none after a newer one.                                       *)
InOrder ==
    \A j, k \in DOMAIN log : j < k => log[j] < log[k]

(* Without a maximal waiting time nothing is skipped: the stream has       *)
(* delivered exactly the numbers from its first one to lastSeq.            *)
NoGap ==
    maxWait = 0 => \A j \in DOMAIN log : log[j] = InitialSeq + j - 1

(* Without a maximal waiting time nothing that arrived in the order of its *)
(* feed is lost: it has been handed out or it waits ahead.  (An expired    *)
(* stream does lose chunks that wait ahead, see DrainAhead.)               *)
NothingLost ==
    maxWait = 0 =>
        \A s \in heard :
            \/ s < InitialSeq
            \/ s \in ahead
            \/ \E j \in DOMAIN log : log[j] = s

(* Between calls the set of missing numbers that Engine maintains step by  *)
(* step is exactly the set of gaps of the stream: the sender is never      *)
(* asked for something that arrived and never left unasked.                *)
MissingExact ==
    pc = "idle" => missing = Gaps

(* What push does: the stream jumps over missing chunks only when nothing  *)
(* was delivered for longer than maxWaitTime, and at most once per call.   *)
SkipOnlyExpired ==
    [][lastSeq' > lastSeq + 1 =>
        /\ maxWait # 0
        /\ now - lastTime > maxWait
        /\ lastSeq = base.last]_vars

(* What Stream's comment says: "some streamed chunks can be skipped [...]  *)
(* if other chunks with a newer sequence number have already arrived and   *)
(* waited in the ahead queue for more than the provided time."             *)
SkipOnlyAfterAhead ==
    [][lastSeq' > lastSeq + 1 =>
        \E s \in ahead : s > lastSeq + 1 /\ now - nodeTime[s] > maxWait]_vars

(* What the stream hands out: always increasing numbers, and without a     *)
(* maximal waiting time everything that arrived, without a gap.            *)
DeliversAll == InOrder /\ NoGap /\ NothingLost

(* Each call of Engine has the effect of the one abstract step, at the     *)
(* moment the call ends.                                                   *)
Idle == pc = "idle"

Abstract == INSTANCE StreamSpec WITH
    lastSeq  <- IF Idle THEN lastSeq ELSE base.last,
    lastTime <- IF Idle THEN lastTime ELSE base.time,
    ahead    <- IF Idle THEN ahead ELSE base.ahead,
    missing  <- missing

Refinement == Abstract!Spec
=============================================================================
