------------------------- MODULE StoryChannelProofs -------------------------
(***************************************************************************)
(* What StoryChannel guarantees for a story of any length and for every    *)
(* limit on packs, ranges and packets in flight.                           *)
(***************************************************************************)
EXTENDS StoryChannel, StreamOpsProofs

(* Type invariant. *)
TypeOK ==
    /\ storySeq \in 0..MaxEntries
    /\ known \in BOOLEAN
    /\ storyPacks \subseteq Seq(Seqs)
    /\ storyConfirms \subseteq [last : 0..MaxEntries, missing : SUBSET Seqs]
    /\ clientLast \in 0..MaxEntries
    /\ clientAhead \subseteq Seqs
    /\ missing \subseteq Seqs
    /\ storyChannel \in Seq(Seqs)

Story == 1..storySeq

(* Nothing is under way or waits that the story does not have. *)
OnlyTheStory ==
    /\ storyPacks \subseteq Seq(Story)
    /\ storyConfirms \subseteq [last : 0..storySeq, missing : SUBSET Story]
    /\ clientAhead \subseteq Story

(* The server sends nothing to a client it has not heard from. *)
SilentUntilKnown == ~known => storyPacks = {}

(* The inductive invariant: the properties hold step after step because    *)
(* the packets in flight carry nothing but entries of the story.           *)
IInv ==
    /\ storySeq \in 0..MaxEntries
    /\ known \in BOOLEAN
    /\ clientLast \in Nat
    /\ OnlyTheStory
    /\ SilentUntilKnown
    /\ PrefixOfStory
    /\ AsksForGaps

LEMMA InitInv == Init => IInv
<1> SUFFICES ASSUME Init PROVE IInv
  OBVIOUS
<1>1. GetMissing(0, {}) = {}
  BY DEF GetMissing
<1>2. storyChannel = [k \in 1..clientLast |-> k]
  BY DEF Init
<1>3. PrefixOfStory /\ AsksForGaps
  BY <1>1, <1>2 DEF Init, PrefixOfStory, AsksForGaps
<1>4. OnlyTheStory /\ SilentUntilKnown
  BY DEF Init, OnlyTheStory, SilentUntilKnown
<1>5. storySeq \in 0..MaxEntries /\ clientLast \in Nat
  BY StoryConstants DEF Init
<1>6. known \in BOOLEAN
  BY DEF Init
<1>7. QED
  BY <1>3, <1>4, <1>5, <1>6 DEF IInv

(* What is sent was there before or is one of the messages. *)
LEMMA SentIs ==
    ASSUME NEW net, NEW ms, NEW n \in Sent(net, ms)
    PROVE  n \subseteq net \cup ms
  BY DEF Sent

(* What a pack makes of the stream.  No stream of stories expires. *)
LEMMA PushIs ==
    ASSUME NEW n \in Nat, NEW last \in 0..n, NEW a \in SUBSET (1..n), NEW f \in Seq(1..n)
    PROVE  /\ PushLast(last, a, f, FALSE) \in last..n
           /\ PushAhead(last, a, f, FALSE) \subseteq 1..n
           /\ PushOut(last, a, f, FALSE) = (last + 1)..PushLast(last, a, f, FALSE)
           /\ \A s \in a : s > PushLast(last, a, f, FALSE) => s \in PushAhead(last, a, f, FALSE)
           /\ \A s \in PushAhead(last, a, f, FALSE) : s \in a \/ s \in ToSet(f)
<1> DEFINE acc == Accepted(last, f)
           end == PushLast(last, a, f, FALSE)
<1>1. acc \subseteq 1..n /\ acc \subseteq ToSet(f)
  <2>1. \A k \in DOMAIN f : f[k] \in 1..n
    BY ElementOfSeq, LenProperties
  <2>2. QED
    BY <2>1 DEF Accepted, ToSet
<1>2. end = RunEnd(last, a \cup acc)
  BY DEF PushLast, ResumeAt
<1> HIDE DEF acc, end
<1>3. a \cup acc \in SUBSET (1..n)
  BY <1>1
<1>4. end \in {last} \cup (a \cup acc) /\ end >= last
  <2>1. a \cup acc \in SUBSET Nat /\ \A s \in a \cup acc : s <= n
    BY <1>3
  <2>2. last \in Nat
    OBVIOUS
  <2>3. QED
    BY <1>2, <2>1, <2>2, RunEndIs
<1>5. end \in last..n
  BY <1>3, <1>4
<1>6. PushAhead(last, a, f, FALSE) = {s \in a \cup acc : s > end}
  BY DEF PushAhead, acc, end
<1>7. PushOut(last, a, f, FALSE) = (last + 1)..end
  <2>1. ResumeAt(last, acc, FALSE) = last
    BY DEF ResumeAt
  <2>2. PushOut(last, a, f, FALSE) = (IF last > last THEN {last} ELSE {}) \cup (last + 1)..end
    BY <2>1 DEF PushOut, acc, end
  <2>3. ~(last > last)
    OBVIOUS
  <2>4. QED
    BY <2>2, <2>3
<1>8. QED
  BY <1>1, <1>5, <1>6, <1>7 DEF end

(* A pack of an answer lists entries of the answer. *)
LEMMA ChunksAre ==
    ASSUME NEW S, NEW s \in Seq(S), NEW k \in DOMAIN Chunks(s)
    PROVE  Chunks(s)[k] \in Seq(S)
<1> DEFINE lo == (k - 1) * PackSize
           hi == IF k * PackSize < Len(s) THEN k * PackSize ELSE Len(s)
<1>1. PackSize \in Nat \ {0} /\ Len(s) \in Nat
  BY StoryConstants, LenProperties
<1>2. k \in Nat \ {0}
  BY <1>1 DEF Chunks
<1>3. lo \in Nat /\ k * PackSize \in Nat
  BY <1>1, <1>2
<1>4. hi \in Nat /\ hi <= Len(s)
  BY <1>1, <1>3
<1>5. Chunks(s)[k] = SubSeq(s, lo + 1, hi)
  BY DEF Chunks
<1> HIDE DEF lo, hi
<1>6. \A j \in (lo + 1)..hi : s[j] \in S
  <2>1. SUFFICES ASSUME NEW j \in (lo + 1)..hi PROVE s[j] \in S
    OBVIOUS
  <2>2. j \in 1..Len(s)
    BY <1>1, <1>3, <1>4
  <2>3. QED
    BY <2>2, ElementOfSeq
<1>7. QED
  BY <1>3, <1>4, <1>5, <1>6, SubSeqProperties

(* Overwriting puts entries of the answer in the place of others. *)
LEMMA OverwrittenIs ==
    ASSUME NEW S \in SUBSET Seqs, NEW chunks, \A k \in DOMAIN chunks : chunks[k] \in Seq(S),
           NEW k \in DOMAIN chunks, NEW p \in Overwritten(chunks, k)
    PROVE  p \in Seq(S)
<1>1. /\ p \in [DOMAIN chunks[k] -> Seqs]
      /\ \A j \in DOMAIN p : \E m \in DOMAIN chunks : j \in DOMAIN chunks[m] /\ p[j] = chunks[m][j]
  BY DEF Overwritten
<1>2. \A m \in DOMAIN chunks : \A j \in DOMAIN chunks[m] : chunks[m][j] \in S
  BY ElementOfSeq, LenProperties
<1>3. p \in [1..Len(chunks[k]) -> S] /\ Len(chunks[k]) \in Nat
  <2>1. DOMAIN chunks[k] = 1..Len(chunks[k]) /\ Len(chunks[k]) \in Nat
    BY LenProperties
  <2>2. \A j \in DOMAIN p : p[j] \in S
    BY <1>1, <1>2
  <2>3. QED
    BY <1>1, <2>1, <2>2
<1>4. QED
  BY <1>3, SeqDef

LEMMA SerialisedIs ==
    ASSUME NEW S \in SUBSET Seqs, NEW chunks, \A k \in DOMAIN chunks : chunks[k] \in Seq(S),
           NEW ms \in Serialised(chunks)
    PROVE  ms \subseteq Seq(S)
<1>1. PICK ps : \E K \in SUBSET DOMAIN chunks :
         /\ ms = Range(ps)
         /\ DOMAIN ps = K
         /\ \A k \in K : ps[k] \in Overwritten(chunks, k)
  BY DEF Serialised
<1>2. \A k \in DOMAIN ps : ps[k] \in Seq(S)
  BY <1>1, OverwrittenIs
<1>3. QED
  BY <1>1, <1>2 DEF Range

(* A request names the client's position and some of what is asked for. *)
LEMMA ConfirmsAre ==
    ASSUME NEW last, NEW S, NEW c \in ConfirmMessages(last, S)
    PROVE  c \in [last : {last}, missing : SUBSET S]
  BY DEF ConfirmMessages

LEMMA StoryEntryStep == IInv /\ StoryEntry => IInv'
<1> SUFFICES ASSUME IInv, StoryEntry PROVE IInv'
  OBVIOUS
<1> USE DEF IInv
<1>1. /\ storySeq \in Nat /\ storySeq' = storySeq + 1 /\ storySeq' \in 0..MaxEntries
      /\ UNCHANGED <<known, storyConfirms, clientLast, clientAhead, missing, storyChannel>>
  BY StoryConstants DEF StoryEntry, clientVars
<1>2. Story \subseteq Story' /\ Seq(Story) \subseteq Seq(Story')
      /\ 0..storySeq \subseteq 0..storySeq'
  <2>1. Story \subseteq Story' /\ 0..storySeq \subseteq 0..storySeq'
    BY <1>1 DEF Story
  <2>2. QED
    BY <2>1, SeqSubset
<1>3. storyPacks' \subseteq Seq(Story') /\ SilentUntilKnown'
  <2> DEFINE newest == {s \in 1..storySeq' : s > storySeq' - PackSize}
  <2>1. newest \in SUBSET Nat /\ newest \subseteq Story' /\ IsFiniteSet(newest)
    <3>1. newest \in SUBSET (1..storySeq') /\ storySeq' \in Int
      BY <1>1
    <3>2. IsFiniteSet(1..storySeq')
      BY <3>1, FS_Interval
    <3>3. IsFiniteSet(newest)
      BY <3>1, <3>2, FS_Subset
    <3>4. QED
      BY <3>1, <3>3 DEF Story
  <2>2. Sorted(newest) \in Seq(Story')
    <3>1. Sorted(newest) \in Seq(newest)
      BY <2>1, SortedLists
    <3>2. Seq(newest) \subseteq Seq(Story')
      BY <2>1, SeqSubset
    <3>3. QED
      BY <3>1, <3>2
  <2>3. storyPacks' = storyPacks \/ (known /\ storyPacks' \in Sent(storyPacks, {Sorted(newest)}))
    BY DEF StoryEntry
  <2>4. storyPacks' \subseteq storyPacks \cup {Sorted(newest)}
    BY <2>3, SentIs
  <2>5. storyPacks' \subseteq Seq(Story')
    BY <1>2, <2>2, <2>4 DEF OnlyTheStory
  <2>6. SilentUntilKnown'
    BY <1>1, <2>3 DEF SilentUntilKnown
  <2>7. QED
    BY <2>5, <2>6
<1>4. OnlyTheStory'
  <2>1. clientAhead' \subseteq Story'
    BY <1>1, <1>2 DEF OnlyTheStory
  <2>2. storyConfirms' \subseteq [last : 0..storySeq', missing : SUBSET Story']
    BY <1>1, <1>2 DEF OnlyTheStory
  <2>3. QED
    BY <1>3, <2>1, <2>2 DEF OnlyTheStory
<1>5. PrefixOfStory' /\ AsksForGaps'
  BY <1>1 DEF PrefixOfStory, AsksForGaps
<1>6. QED
  BY <1>1, <1>3, <1>4, <1>5

LEMMA ConfirmStep ==
    ASSUME IInv, NEW c \in storyConfirms, HandleStoryConfirm(c)
    PROVE  IInv'
<1> USE DEF IInv
<1>1. /\ known' = TRUE /\ storyConfirms' \subseteq storyConfirms
      /\ UNCHANGED <<storySeq, clientLast, clientAhead, missing, storyChannel>>
  BY DEF HandleStoryConfirm, Taken, clientVars
<1>2. Answer(c) \in SUBSET Story /\ Answer(c) \in SUBSET Nat /\ IsFiniteSet(Answer(c))
  <2>1. c.missing \subseteq 1..storySeq /\ storySeq \in Int
    BY DEF OnlyTheStory, Story
  <2>2. Answer(c) \in SUBSET (1..storySeq)
    BY <2>1 DEF Answer
  <2>3. IsFiniteSet(1..storySeq)
    <3> HIDE DEF IInv
    <3>1. storySeq \in Int /\ 1 \in Int
      BY <2>1
    <3>2. QED
      BY <3>1, FS_Interval
  <2>4. QED
    BY <2>2, <2>3, FS_Subset DEF Story
<1>3. Story \in SUBSET Seqs
  BY StoryConstants DEF Story, Seqs
<1>4. storyPacks' \subseteq Seq(Story)
  <2> DEFINE chunks == Chunks(Sorted(Answer(c)))
  <2>1. Sorted(Answer(c)) \in Seq(Answer(c))
    BY <1>2, SortedLists
  <2>2. \A k \in DOMAIN chunks : chunks[k] \in Seq(Answer(c))
    BY <2>1, ChunksAre
  <2>3. Answer(c) \in SUBSET Seqs
    BY <1>2, <1>3
  <2>4. Seq(Answer(c)) \subseteq Seq(Story)
    BY <1>2, SeqSubset
  <2>5. storyPacks' = storyPacks \/ \E ms \in Serialised(chunks) : storyPacks' \in Sent(storyPacks, ms)
    BY DEF HandleStoryConfirm
  <2> HIDE DEF chunks
  <2>6. \A ms \in Serialised(chunks) : ms \subseteq Seq(Answer(c))
    BY <2>2, <2>3, SerialisedIs
  <2>7. QED
    BY <2>4, <2>5, <2>6, SentIs DEF OnlyTheStory
<1>5. OnlyTheStory'
  BY <1>1, <1>4 DEF OnlyTheStory, Story
<1>6. SilentUntilKnown' /\ PrefixOfStory' /\ AsksForGaps'
  BY <1>1 DEF SilentUntilKnown, PrefixOfStory, AsksForGaps
<1>7. QED
  BY <1>1, <1>5, <1>6

(* The request for what is missing names nothing else. *)
LEMMA RequestIs ==
    ASSUME NEW n \in Nat, NEW last \in 0..n, NEW S \in SUBSET (1..n), NEW net,
           net \subseteq [last : 0..n, missing : SUBSET (1..n)],
           NEW new \in Sent(net, ConfirmMessages(last, S))
    PROVE  new \subseteq [last : 0..n, missing : SUBSET (1..n)]
<1>1. new \subseteq net \cup ConfirmMessages(last, S)
  BY SentIs
<1>2. \A c \in ConfirmMessages(last, S) : c \in [last : {last}, missing : SUBSET S]
  BY ConfirmsAre
<1>3. [last : {last}, missing : SUBSET S] \subseteq [last : 0..n, missing : SUBSET (1..n)]
  OBVIOUS
<1>4. QED
  BY <1>1, <1>2, <1>3

LEMMA TimerStep == IInv /\ RequestTimer => IInv'
<1> SUFFICES ASSUME IInv, RequestTimer PROVE IInv'
  OBVIOUS
<1> USE DEF IInv
<1>1. UNCHANGED <<storySeq, known, storyPacks, clientLast, clientAhead, missing, storyChannel>>
  BY DEF RequestTimer, clientVars
<1>2. storySeq \in Nat /\ clientLast \in 0..storySeq
  BY DEF PrefixOfStory
<1>3. storyConfirms' \subseteq [last : 0..storySeq, missing : SUBSET (1..storySeq)]
  BY <1>2, RequestIs DEF RequestTimer, OnlyTheStory, AsksForGaps, Story
<1>4. OnlyTheStory'
  BY <1>1, <1>3 DEF OnlyTheStory, Story
<1>5. SilentUntilKnown' /\ PrefixOfStory' /\ AsksForGaps'
  BY <1>1 DEF SilentUntilKnown, PrefixOfStory, AsksForGaps
<1>6. QED
  BY <1>1, <1>4, <1>5

(* A number in a gap before a pack is in a gap after it unless it came     *)
(* with the pack or the stream has passed it.                              *)
LEMMA GapsAfter ==
    ASSUME NEW n \in Nat, NEW last \in 0..n, NEW a \in SUBSET (1..n), NEW f \in Seq(1..n)
    PROVE  LET last2 == PushLast(last, a, f, FALSE)
               a2 == PushAhead(last, a, f, FALSE)
           IN  /\ (GetMissing(last, a) \ (1..last2)) \ ToSet(f) \subseteq GetMissing(last2, a2)
               /\ GetMissing(last2, a2) \subseteq 1..n
<1> DEFINE last2 == PushLast(last, a, f, FALSE)
           a2 == PushAhead(last, a, f, FALSE)
<1>1. /\ last2 \in last..n
      /\ a2 \subseteq 1..n
      /\ \A s \in a : s > last2 => s \in a2
      /\ \A s \in a2 : s \in a \/ s \in ToSet(f)
  BY PushIs
<1> HIDE DEF last2, a2
<1>2. ASSUME NEW s \in GetMissing(last, a), s \notin 1..last2, s \notin ToSet(f)
      PROVE  s \in GetMissing(last2, a2)
  <2>1. PICK t \in a : s \in (last + 1)..t /\ s \notin a
    BY DEF GetMissing
  <2>2. s \in Nat /\ t \in Nat /\ s > last2 /\ s <= t
    BY <1>1, <1>2, <2>1
  <2>3. t > last2
    BY <1>1, <2>2
  <2>4. t \in a2 /\ s \notin a2 /\ s \in (last2 + 1)..t
    BY <1>1, <1>2, <2>1, <2>2, <2>3
  <2>5. QED
    BY <2>4 DEF GetMissing
<1>3. ASSUME NEW s \in GetMissing(last2, a2) PROVE s \in 1..n
  <2>1. PICK t \in a2 : s \in (last2 + 1)..t
    BY <1>3 DEF GetMissing
  <2>2. QED
    BY <1>1, <2>1
<1>4. QED
  BY <1>2, <1>3 DEF last2, a2

(* The numbers up to a, followed by those from a + 1 to b.                 *)
LEMMA PrefixExtends ==
    ASSUME NEW a \in Nat, NEW b \in Nat, a <= b
    PROVE  [k \in 1..a |-> k] \o Sorted((a + 1)..b) = [k \in 1..b |-> k]
<1> DEFINE old == [k \in 1..a |-> k]
           new == [k \in 1..(b - a) |-> a + k]
<1>1. old \in Seq(Nat) /\ Len(old) = a /\ \A k \in 1..a : old[k] = k
  <2>1. old \in [1..a -> Nat]
    OBVIOUS
  <2>2. QED
    BY <2>1, SeqDef, LenProperties
<1>2. new \in Seq(Nat) /\ Len(new) = b - a /\ \A k \in 1..(b - a) : new[k] = a + k
  <2>1. b - a \in Nat
    OBVIOUS
  <2>2. \A k \in 1..(b - a) : a + k \in Nat
    OBVIOUS
  <2>3. new \in [1..(b - a) -> Nat]
    BY <2>2
  <2>4. new \in Seq(Nat)
    BY <2>1, <2>3, SeqDef
  <2>5. QED
    BY <2>1, <2>3, <2>4, LenProperties
<1>3. Sorted((a + 1)..b) = new
  BY SortedInterval
<1> HIDE DEF old, new
<1>4. /\ old \o new \in Seq(Nat)
      /\ Len(old \o new) = a + (b - a)
      /\ \A k \in 1..(a + (b - a)) : (old \o new)[k] = IF k <= a THEN old[k] ELSE new[k - a]
  BY <1>1, <1>2, ConcatProperties
<1>5. a + (b - a) = b
  OBVIOUS
<1>6. \A k \in 1..b : (old \o new)[k] = k
  <2>1. SUFFICES ASSUME NEW k \in 1..b PROVE (old \o new)[k] = k
    OBVIOUS
  <2>2. CASE k <= a
    BY <1>1, <1>4, <1>5, <2>2
  <2>3. CASE ~(k <= a)
    <3>1. k - a \in 1..(b - a) /\ a + (k - a) = k
      BY <2>3
    <3>2. QED
      BY <1>2, <1>4, <1>5, <2>3, <3>1
  <2>4. QED
    BY <2>2, <2>3
<1>7. DOMAIN (old \o new) = 1..b /\ old \o new = [k \in DOMAIN (old \o new) |-> (old \o new)[k]]
  BY <1>4, <1>5, LenProperties
<1>8. old \o new = [k \in 1..b |-> k]
  BY <1>6, <1>7
<1>9. QED
  BY <1>3, <1>8 DEF old

LEMMA PackStep ==
    ASSUME IInv, NEW p \in storyPacks, HandlePack(p)
    PROVE  IInv'
<1> USE DEF IInv
<1>1. UNCHANGED <<storySeq, known>> /\ storyPacks' \subseteq storyPacks
  BY DEF HandlePack, Taken
<1>2. storySeq \in Nat /\ clientLast \in 0..storySeq
      /\ clientAhead \in SUBSET (1..storySeq) /\ p \in Seq(1..storySeq)
  BY DEF PrefixOfStory, OnlyTheStory, Story
<1>3. clientLast' \in clientLast..storySeq /\ clientAhead' \subseteq 1..storySeq
      /\ PushOut(clientLast, clientAhead, p, FALSE) = (clientLast + 1)..clientLast'
  BY <1>2, PushIs DEF HandlePack
<1>4. missing' = GetMissing(clientLast', clientAhead') /\ missing' \subseteq 1..storySeq
  <2>1. missing' = ((missing \ (1..clientLast')) \ ToSet(p)) \cup GetMissing(clientLast', clientAhead')
    BY DEF HandlePack, MissingAfter
  <2>2. /\ (GetMissing(clientLast, clientAhead) \ (1..clientLast')) \ ToSet(p)
             \subseteq GetMissing(clientLast', clientAhead')
        /\ GetMissing(clientLast', clientAhead') \subseteq 1..storySeq
    BY <1>2, GapsAfter DEF HandlePack
  <2>3. QED
    BY <2>1, <2>2 DEF AsksForGaps
<1>5. storyChannel' = [k \in 1..clientLast' |-> k]
  <2>1. clientLast \in Nat /\ clientLast' \in Nat /\ clientLast <= clientLast'
    BY <1>2, <1>3
  <2>2. storyChannel' = storyChannel \o Sorted((clientLast + 1)..clientLast')
    BY <1>3 DEF HandlePack
  <2>3. storyChannel = [k \in 1..clientLast |-> k]
    BY DEF PrefixOfStory
  <2>4. QED
    BY <2>1, <2>2, <2>3, PrefixExtends
<1>6. storyConfirms' \subseteq [last : 0..storySeq, missing : SUBSET (1..storySeq)]
  <2> DEFINE newly == missing' \ (missing \ ToSet(p))
  <2>1. newly \in SUBSET (1..storySeq) /\ clientLast' \in 0..storySeq
    BY <1>2, <1>3, <1>4
  <2>2. storyConfirms' \in Sent(storyConfirms, ConfirmMessages(clientLast', newly))
    BY DEF HandlePack
  <2>3. storyConfirms \subseteq [last : 0..storySeq, missing : SUBSET (1..storySeq)]
    BY DEF OnlyTheStory, Story
  <2> HIDE DEF newly
  <2>4. QED
    BY <1>2, <2>1, <2>2, <2>3, RequestIs
<1>7. OnlyTheStory'
  BY <1>1, <1>3, <1>6 DEF OnlyTheStory, Story
<1>8. PrefixOfStory' /\ AsksForGaps'
  BY <1>1, <1>2, <1>3, <1>4, <1>5 DEF PrefixOfStory, AsksForGaps
<1>9. SilentUntilKnown' /\ clientLast' \in Nat
  BY <1>1, <1>2, <1>3 DEF SilentUntilKnown
<1>10. QED
  BY <1>1, <1>7, <1>8, <1>9

(* Losing a packet, and doing nothing. *)
LEMMA QuietStep ==
    ASSUME IInv, storyPacks' \subseteq storyPacks, storyConfirms' \subseteq storyConfirms,
           UNCHANGED <<storySeq, known, clientLast, clientAhead, missing, storyChannel>>
    PROVE  IInv'
  BY DEF IInv, OnlyTheStory, Story, SilentUntilKnown, PrefixOfStory, AsksForGaps

LEMMA InvStep == IInv /\ [Next]_vars => IInv'
<1> SUFFICES ASSUME IInv, [Next]_vars PROVE IInv'
  OBVIOUS
<1>1. CASE StoryEntry
  BY <1>1, StoryEntryStep
<1>2. CASE ReceiveConfirm
  BY <1>2, ConfirmStep DEF ReceiveConfirm
<1>3. CASE RequestTimer
  BY <1>3, TimerStep
<1>4. CASE ReceivePack
  BY <1>4, PackStep DEF ReceivePack
<1>5. CASE \E p \in storyPacks : LosePack(p)
  BY <1>5, QuietStep DEF LosePack, clientVars
<1>6. CASE \E c \in storyConfirms : LoseConfirm(c)
  BY <1>6, QuietStep DEF LoseConfirm, clientVars
<1>7. CASE UNCHANGED vars
  BY <1>7, QuietStep DEF vars
<1>8. QED
  BY <1>1, <1>2, <1>3, <1>4, <1>5, <1>6, <1>7 DEF Next

LEMMA InvCorrect == Spec => []IInv
  BY InitInv, InvStep, PTL DEF Spec

(* Every variable keeps its type; with it, every number the two sides name *)
(* to each other is one of the story.                                      *)
THEOREM TypeCorrect == Spec => []TypeOK
<1>1. IInv => TypeOK
  <2> SUFFICES ASSUME IInv PROVE TypeOK
    OBVIOUS
  <2> USE DEF IInv
  <2>1. storySeq \in Nat /\ MaxEntries \in Nat /\ storySeq <= MaxEntries
        /\ clientLast \in 0..storySeq
    BY StoryConstants DEF PrefixOfStory
  <2>2. Story \subseteq Seqs /\ 0..storySeq \subseteq 0..MaxEntries /\ clientLast \in 0..MaxEntries
    BY <2>1 DEF Story, Seqs
  <2>3. storyPacks \subseteq Seq(Seqs)
    BY <2>2, SeqSubset DEF OnlyTheStory
  <2>4. storyConfirms \subseteq [last : 0..MaxEntries, missing : SUBSET Seqs]
    BY <2>2 DEF OnlyTheStory
  <2>5. clientAhead \subseteq Seqs /\ missing \subseteq Seqs
    BY <2>2 DEF OnlyTheStory, AsksForGaps, Story
  <2>6. storyChannel \in Seq(Seqs)
    <3>1. storyChannel \in [1..clientLast -> Seqs] /\ clientLast \in Nat
      BY <2>1 DEF PrefixOfStory, Seqs
    <3>2. QED
      BY <3>1, SeqDef
  <2>7. QED
    BY <2>2, <2>3, <2>4, <2>5, <2>6 DEF TypeOK
<1>2. QED
  BY <1>1, InvCorrect, PTL

(* The client's channel carries a prefix of the story, every entry once    *)
(* and in order, however the network loses, repeats and reorders packs and *)
(* however the packs of an answer overwrite each other.                    *)
THEOREM DeliversPrefix == Spec => []PrefixOfStory
<1>1. IInv => PrefixOfStory
  BY DEF IInv
<1>2. QED
  BY <1>1, InvCorrect, PTL

(* storyStream.missing is exactly the gaps of the stream, and the client   *)
(* asks for no entry that it has or that does not exist.                   *)
THEOREM AsksExactly == Spec => []AsksForGaps
<1>1. IInv => AsksForGaps
  BY DEF IInv
<1>2. QED
  BY <1>1, InvCorrect, PTL

(* Nothing on the network names an entry the story does not have, and      *)
(* there are no packs for a client the server has not heard from.          *)
THEOREM NothingForeign == Spec => [](OnlyTheStory /\ SilentUntilKnown)
<1>1. IInv => OnlyTheStory /\ SilentUntilKnown
  BY DEF IInv
<1>2. QED
  BY <1>1, InvCorrect, PTL
=============================================================================
