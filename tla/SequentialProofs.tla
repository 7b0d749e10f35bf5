-------------------------- MODULE SequentialProofs --------------------------
(***************************************************************************)
(* What is proved of the sequential parts of package sequence and of the   *)
(* client's list of lobbies: Stream (for every bound, feed length, waiting *)
(* time and initial number), and then, for every value of the constants,   *)
(* the range set, the ring and the list of lobbies of Structures.          *)
(***************************************************************************)
EXTENDS Stream, Structures, StreamOpsProofs

(* A feed is a sequence of numbers. *)
LEMMA FeedsAreSeqs == Feeds \subseteq Seq(Seqs)
<1>1. SUFFICES ASSUME NEW n \in 0..MaxFeed, NEW f \in [1..n -> Seqs]
               PROVE  f \in Seq(Seqs)
  BY DEF Feeds
<1>2. n \in Nat
  BY StreamConstants
<1>3. QED
  BY <1>2, SeqDef

(* An appended sequence, index by index. *)
LEMMA AppendIndex ==
    ASSUME NEW s \in Seq(Nat), NEW e \in Nat
    PROVE  /\ Append(s, e) \in Seq(Nat)
           /\ Len(Append(s, e)) = Len(s) + 1
           /\ DOMAIN Append(s, e) = 1..(Len(s) + 1)
           /\ DOMAIN s = 1..Len(s)
           /\ Len(s) \in Nat
           /\ \A k \in 1..Len(s) : Append(s, e)[k] = s[k]
           /\ Append(s, e)[Len(s) + 1] = e
  BY AppendProperties, LenProperties

(* Type correctness is inductive. *)
LEMMA TypeInit == Init => TypeOK
<1> SUFFICES ASSUME Init PROVE TypeOK
  OBVIOUS
<1>1. lastSeq \in Nat /\ now \in Nat \ {0} /\ lastTime \in Nat
      /\ i \in Nat \ {0} /\ seqPrev \in Nat
  BY StreamConstants DEF Init, StartSeq, SequenceNone
<1>2. nodeTime \in [Seqs -> Nat]
  BY DEF Init
<1>3. base \in [last : Nat, ahead : SUBSET Seqs, time : Nat]
  BY DEF Init, NoBase, SequenceNone
<1>4. feed \in Seq(Seqs) /\ log \in Seq(Nat)
  BY EmptySeq DEF Init
<1>5. QED
  BY <1>1, <1>2, <1>3, <1>4, StreamConstants DEF Init, TypeOK

LEMMA TypeStep == TypeOK /\ [Next]_vars => TypeOK'
<1> SUFFICES ASSUME TypeOK, [Next]_vars PROVE TypeOK'
  OBVIOUS
<1> maxWait' = maxWait
  BY DEF Next, vars
<1>1. CASE Tick
  BY <1>1 DEF TypeOK, Tick, streamVars, callVars
<1>2. CASE BeginPush
  <2>1. feed' \in Seq(Seqs)
    BY <1>2, FeedsAreSeqs DEF BeginPush
  <2>2. expired' \in BOOLEAN /\ lastTime' \in Nat
    <3>1. \A t \in Nat : Late(t) \in BOOLEAN
      BY DEF Late
    <3>2. QED
      BY <1>2, <3>1 DEF BeginPush, TypeOK
  <2>3. base' \in [last : Nat, ahead : SUBSET Seqs, time : Nat]
    BY <1>2 DEF BeginPush, TypeOK
  <2>4. /\ newlyMissing' = {} /\ pc' = "feed" /\ i' \in Nat \ {0} /\ seqPrev' \in Nat
        /\ UNCHANGED <<now, lastSeq, ahead, nodeTime, missing, log, heard>>
    BY <1>2 DEF BeginPush, SequenceNone
  <2>5. pushed' \in BOOLEAN
    BY <1>2, Zenon DEF BeginPush
  <2>6. QED
    BY <2>1, <2>2, <2>3, <2>4, <2>5 DEF TypeOK
<1>3. CASE FeedStep
  <2>1. /\ pc = "feed" /\ feed[i] \in Seqs /\ feed[i] \in Nat
        /\ i' \in Nat \ {0} /\ UNCHANGED <<now, lastTime, missing, newlyMissing, pc, feed, base>>
    <3>1. FeedLoop
      BY <1>3 DEF FeedStep, PassDecreasing, PassOld, Deliver, KeepAhead, InFeedOrder
    <3>2. feed[i] \in Seqs
      BY <3>1, ElementOfSeq, LenProperties DEF FeedLoop, TypeOK
    <3>3. QED
      BY <3>1, <3>2, StreamConstants DEF FeedLoop, TypeOK, Seqs
  <2>2. CASE PassDecreasing
    BY <2>1, <2>2 DEF PassDecreasing, TypeOK
  <2>3. CASE PassOld
    BY <2>1, <2>3 DEF PassOld, InFeedOrder, TypeOK
  <2>4. CASE Deliver
    <3>1. log' \in Seq(Nat)
      BY <2>1, <2>4, AppendIndex DEF Deliver, TypeOK
    <3>2. QED
      BY <2>1, <2>4, <3>1 DEF Deliver, InFeedOrder, TypeOK
  <2>5. CASE KeepAhead
    <3>1. nodeTime' \in [Seqs -> Nat]
      BY <2>1, <2>5 DEF KeepAhead, TypeOK
    <3>2. QED
      BY <2>1, <2>5, <3>1 DEF KeepAhead, InFeedOrder, TypeOK
  <2>6. QED
    BY <1>3, <2>2, <2>3, <2>4, <2>5 DEF FeedStep
<1>4. CASE EndFeed
  BY <1>4 DEF TypeOK, EndFeed, TimeAfterFeed
<1>5. CASE DrainAhead
  <2>1. PICK c \in ahead :
          /\ ahead' = ahead \ {c}
          /\ nodeTime' = [nodeTime EXCEPT ![c] = 0]
          /\ lastSeq' = IF c = lastSeq + 1 THEN c ELSE lastSeq
          /\ log' = IF c = lastSeq + 1 THEN Append(log, c) ELSE log
    BY <1>5 DEF DrainAhead
  <2>2. c \in Nat /\ c \in Seqs
    BY StreamConstants DEF TypeOK, Seqs
  <2>3. log' \in Seq(Nat)
    BY <2>1, <2>2, AppendIndex DEF TypeOK
  <2>4. lastSeq' \in Nat /\ ahead' \subseteq Seqs /\ nodeTime' \in [Seqs -> Nat]
    BY <2>1, <2>2 DEF TypeOK
  <2>5. QED
    BY <1>5, <2>3, <2>4 DEF TypeOK, DrainAhead, callVars
<1>6. CASE EndEngine
  <2>1. Gaps \subseteq Seqs
    <3>1. ASSUME NEW s \in Gaps PROVE s \in Seqs
      <4>1. PICK t \in ahead : s \in (lastSeq + 1)..t
        BY <3>1 DEF Gaps, GetMissing
      <4>2. QED
        BY <4>1, StreamConstants DEF TypeOK, Seqs
    <3>2. QED
      BY <3>1
  <2>2. missing' \subseteq Seqs /\ newlyMissing' \subseteq Seqs
    BY <1>6, <2>1 DEF EndEngine, TypeOK
  <2>3. feed' \in Seq(Seqs)
    BY <1>6, EmptySeq DEF EndEngine
  <2>4. base' \in [last : Nat, ahead : SUBSET Seqs, time : Nat]
    BY <1>6 DEF EndEngine, NoBase, SequenceNone
  <2>5. /\ pc' = "idle" /\ i' \in Nat \ {0} /\ seqPrev' \in Nat
        /\ UNCHANGED <<now, lastSeq, lastTime, ahead, nodeTime, log, heard>>
    BY <1>6 DEF EndEngine, SequenceNone
  <2>6. pushed' \in BOOLEAN /\ expired' \in BOOLEAN
    BY <1>6, Zenon DEF EndEngine
  <2>7. QED
    BY <2>2, <2>3, <2>4, <2>5, <2>6 DEF TypeOK
<1>7. CASE UNCHANGED vars
  BY <1>7 DEF TypeOK, vars
<1>8. QED
  BY <1>1, <1>2, <1>3, <1>4, <1>5, <1>6, <1>7 DEF Next

(* Every variable keeps its type, in particular lastSeq never falls below  *)
(* zero whatever WithInitialSeq is given.                                  *)
THEOREM TypeCorrect == Spec => []TypeOK
  BY TypeInit, TypeStep, PTL DEF Spec
-----------------------------------------------------------------------------
(* The only way the position of the stream and the log move: together, by  *)
(* one number, which is the next one unless the stream has expired.        *)
Delivers(e) ==
    /\ log' = Append(log, e)
    /\ lastSeq' = e
    /\ e > lastSeq
    /\ e = lastSeq + 1 \/ (pc = "feed" /\ expired)

LEMMA DeliveryStep ==
    TypeOK /\ [Next]_vars => UNCHANGED <<log, lastSeq>> \/ \E e \in Nat : Delivers(e)
<1> SUFFICES ASSUME TypeOK, [Next]_vars
             PROVE  UNCHANGED <<log, lastSeq>> \/ \E e \in Nat : Delivers(e)
  OBVIOUS
<1>1. CASE Deliver
  <2>1. feed[i] \in Nat
    BY <1>1, ElementOfSeq, LenProperties, StreamConstants
    DEF Deliver, InFeedOrder, FeedLoop, TypeOK, Seqs
  <2>2. Delivers(feed[i])
    BY <1>1, <2>1 DEF Deliver, InFeedOrder, FeedLoop, Delivers, IsOld, IsNext, TypeOK
  <2>3. QED
    BY <2>1, <2>2
<1>2. CASE DrainAhead
  <2>1. PICK c \in ahead :
          /\ lastSeq' = IF c = lastSeq + 1 THEN c ELSE lastSeq
          /\ log' = IF c = lastSeq + 1 THEN Append(log, c) ELSE log
    BY <1>2 DEF DrainAhead
  <2>2. c \in Nat
    BY StreamConstants DEF TypeOK, Seqs
  <2>3. c = lastSeq + 1 => Delivers(c)
    BY <2>1, <2>2 DEF Delivers, TypeOK
  <2>4. QED
    BY <2>1, <2>2, <2>3
<1>3. CASE UNCHANGED <<log, lastSeq>>
  BY <1>3
<1>4. QED
  <2>1. CASE Tick
    BY <2>1, <1>3 DEF Tick, streamVars
  <2>2. CASE BeginPush \/ EndFeed \/ EndEngine
    BY <2>2, <1>3 DEF BeginPush, EndFeed, EndEngine
  <2>3. CASE PassDecreasing \/ PassOld \/ KeepAhead
    BY <2>3, <1>3 DEF PassDecreasing, PassOld, KeepAhead
  <2>4. CASE UNCHANGED vars
    BY <2>4, <1>3 DEF vars
  <2>5. QED
    BY <1>1, <1>2, <2>1, <2>2, <2>3, <2>4 DEF Next, FeedStep

(* InOrder is inductive together with the bound of the log by lastSeq.     *)
OrderInv ==
    /\ \A k \in DOMAIN log : log[k] <= lastSeq
    /\ InOrder

(* No chunk is handed out twice and none after a newer one.                *)
THEOREM DeliveredInOrder == Spec => []InOrder
<1>1. Init => OrderInv
  BY EmptySeq DEF Init, OrderInv, InOrder
<1>2. TypeOK /\ OrderInv /\ [Next]_vars => OrderInv'
  <2> SUFFICES ASSUME TypeOK, OrderInv, [Next]_vars PROVE OrderInv'
    OBVIOUS
  <2>1. CASE UNCHANGED <<log, lastSeq>>
    BY <2>1 DEF OrderInv, InOrder
  <2>2. ASSUME NEW e \in Nat, Delivers(e) PROVE OrderInv'
    <3>1. /\ DOMAIN log' = 1..(Len(log) + 1) /\ DOMAIN log = 1..Len(log)
          /\ Len(log) \in Nat
          /\ \A k \in 1..Len(log) : log'[k] = log[k] /\ log[k] \in Nat
          /\ log'[Len(log) + 1] = e
      BY <2>2, AppendIndex, ElementOfSeq DEF Delivers, TypeOK
    <3>2. \A k \in 1..Len(log) : log'[k] < e
      <4>1. \A k \in 1..Len(log) : log[k] <= lastSeq
        BY <3>1 DEF OrderInv
      <4>2. lastSeq \in Nat /\ lastSeq < e
        BY <2>2 DEF Delivers, TypeOK
      <4>3. QED
        BY <3>1, <4>1, <4>2
    <3>3. \A k \in DOMAIN log' : log'[k] <= lastSeq'
      BY <2>2, <3>1, <3>2 DEF Delivers
    <3>4. InOrder'
      <4> SUFFICES ASSUME NEW j \in DOMAIN log', NEW k \in DOMAIN log', j < k
                   PROVE  log'[j] < log'[k]
        BY DEF InOrder
      <4>1. CASE k = Len(log) + 1
        BY <3>1, <3>2, <4>1
      <4>2. CASE k \in 1..Len(log)
        BY <3>1, <4>2 DEF OrderInv, InOrder
      <4>3. QED
        BY <3>1, <4>1, <4>2
    <3>5. QED
      BY <3>3, <3>4 DEF OrderInv
  <2>3. QED
    BY <2>1, <2>2, DeliveryStep
<1>3. OrderInv => InOrder
  BY DEF OrderInv
<1>4. QED
  BY <1>1, <1>2, <1>3, TypeCorrect, PTL DEF Spec
-----------------------------------------------------------------------------
(* While the feed loop has not used the expiry yet, the wait really was    *)
(* too long and the stream has not moved since the call began.             *)
ExpiredInv ==
    pc = "feed" /\ expired =>
        /\ maxWait # 0
        /\ now - lastTime > maxWait
        /\ lastSeq = base.last

LEMMA ExpiredStep == TypeOK /\ ExpiredInv /\ [Next]_vars => ExpiredInv'
<1> SUFFICES ASSUME TypeOK, ExpiredInv, [Next]_vars, (pc = "feed" /\ expired)'
             PROVE  (maxWait # 0 /\ now - lastTime > maxWait /\ lastSeq = base.last)'
  BY DEF ExpiredInv
<1> maxWait' = maxWait
  BY DEF Next, vars
<1>1. CASE BeginPush
  <2>1. PICK start \in Nat : lastTime' = start /\ expired' = Late(start)
    BY <1>1 DEF BeginPush, TypeOK
  <2>2. Late(start)
    BY <2>1
  <2>3. QED
    BY <1>1, <2>1, <2>2 DEF BeginPush, Late
<1>2. CASE PassDecreasing \/ PassOld \/ KeepAhead
  BY <1>2 DEF PassDecreasing, PassOld, KeepAhead, InFeedOrder, FeedLoop, ExpiredInv
<1>3. CASE Deliver
  BY <1>3 DEF Deliver
<1>4. CASE Tick \/ EndFeed \/ EndEngine \/ DrainAhead
  BY <1>4 DEF Tick, EndFeed, EndEngine, DrainAhead, callVars
<1>5. CASE UNCHANGED vars
  BY <1>5 DEF vars, ExpiredInv
<1>6. QED
  BY <1>1, <1>2, <1>3, <1>4, <1>5 DEF Next, FeedStep

LEMMA ExpiredCorrect == Spec => []ExpiredInv
<1>1. Init => ExpiredInv
  BY DEF Init, ExpiredInv
<1>2. QED
  BY <1>1, ExpiredStep, TypeCorrect, PTL DEF Spec

(* A chunk is skipped only after a wait longer than maxWaitTime, by the    *)
(* first number a call delivers.                                           *)
THEOREM SkipsOnlyWhenExpired == Spec => SkipOnlyExpired
<1>1. TypeOK /\ ExpiredInv /\ [Next]_vars =>
        [lastSeq' > lastSeq + 1 =>
            maxWait # 0 /\ now - lastTime > maxWait /\ lastSeq = base.last]_vars
  <2> SUFFICES ASSUME TypeOK, ExpiredInv, [Next]_vars, lastSeq' > lastSeq + 1
               PROVE  maxWait # 0 /\ now - lastTime > maxWait /\ lastSeq = base.last
    OBVIOUS
  <2>1. pc = "feed" /\ expired
    BY DeliveryStep DEF Delivers, TypeOK
  <2>2. QED
    BY <2>1 DEF ExpiredInv
<1>2. QED
  BY <1>1, ExpiredCorrect, TypeCorrect, PTL DEF Spec, SkipOnlyExpired
-----------------------------------------------------------------------------
(* Without a waiting time the log is the run of numbers up to lastSeq.     *)
RunInv ==
    maxWait = 0 => NoGap /\ lastSeq = InitialSeq - 1 + Len(log)

LEMMA RunStep == TypeOK /\ ExpiredInv /\ RunInv /\ [Next]_vars => RunInv'
<1>0. [Next]_vars => maxWait' = maxWait
  BY DEF Next, vars
<1> SUFFICES ASSUME TypeOK, ExpiredInv, RunInv, [Next]_vars, maxWait = 0, maxWait' = 0
             PROVE  NoGap' /\ lastSeq' = InitialSeq - 1 + Len(log')
  BY <1>0 DEF RunInv
<1>1. CASE UNCHANGED <<log, lastSeq>>
  BY <1>1 DEF RunInv, NoGap
<1>2. ASSUME NEW e \in Nat, Delivers(e)
      PROVE  NoGap' /\ lastSeq' = InitialSeq - 1 + Len(log')
  <2>1. e = lastSeq + 1 /\ lastSeq' = e
    BY <1>2 DEF Delivers, ExpiredInv
  <2>2. /\ DOMAIN log' = 1..(Len(log) + 1) /\ DOMAIN log = 1..Len(log)
        /\ Len(log) \in Nat /\ Len(log') = Len(log) + 1
        /\ \A k \in 1..Len(log) : log'[k] = log[k]
        /\ log'[Len(log) + 1] = e
    BY <1>2, AppendIndex DEF Delivers, TypeOK
  <2>3. InitialSeq \in Nat /\ lastSeq = InitialSeq - 1 + Len(log)
    BY StreamConstants DEF RunInv
  <2>4. NoGap'
    <3>1. \A k \in 1..Len(log) : log[k] = InitialSeq + k - 1
      BY <2>2 DEF RunInv, NoGap
    <3>2. e = InitialSeq + (Len(log) + 1) - 1
      BY <2>1, <2>2, <2>3
    <3>3. QED
      BY <2>2, <3>1, <3>2 DEF NoGap
  <2>5. QED
    BY <2>1, <2>2, <2>3, <2>4
<1>3. QED
  BY <1>1, <1>2, DeliveryStep

LEMMA RunCorrect == Spec => []RunInv
<1>1. Init => RunInv
  BY EmptySeq, StreamConstants DEF Init, RunInv, NoGap, StartSeq
<1>2. QED
  BY <1>1, RunStep, ExpiredCorrect, TypeCorrect, PTL DEF Spec

(* With maxWaitTime 0, as in the client's story streams, the numbers that  *)
(* are handed out are consecutive from the first one on.                   *)
THEOREM DeliveredWithoutGap == Spec => []NoGap
<1>1. RunInv => NoGap
  BY DEF RunInv, NoGap
<1>2. QED
  BY <1>1, RunCorrect, PTL
-----------------------------------------------------------------------------
(* What arrived in the order of its feed has been passed or waits ahead.   *)
KeptInv == \A s \in heard : s <= lastSeq \/ s \in ahead

LEMMA KeptStep == TypeOK /\ KeptInv /\ [Next]_vars => KeptInv'
<1> SUFFICES ASSUME TypeOK, KeptInv, [Next]_vars PROVE KeptInv'
  OBVIOUS
<1>0. \A s \in heard \cup ahead : s \in Nat
  BY StreamConstants DEF TypeOK, Seqs
<1>1. CASE PassOld
  BY <1>1 DEF PassOld, InFeedOrder, IsOld, KeptInv
<1>2. CASE Deliver
  <2>1. feed[i] \in Nat /\ feed[i] > lastSeq
    BY <1>2, ElementOfSeq, LenProperties, StreamConstants
    DEF Deliver, InFeedOrder, FeedLoop, TypeOK, Seqs, IsOld
  <2>2. heard' = heard \cup {feed[i]} /\ lastSeq' = feed[i] /\ ahead' = ahead
    BY <1>2 DEF Deliver, InFeedOrder
  <2>3. QED
    BY <1>0, <2>1, <2>2 DEF KeptInv, TypeOK
<1>3. CASE KeepAhead
  BY <1>3 DEF KeepAhead, InFeedOrder, KeptInv
<1>4. CASE DrainAhead
  <2>1. PICK c \in ahead :
          /\ Drains(c)
          /\ ahead' = ahead \ {c}
          /\ lastSeq' = IF c = lastSeq + 1 THEN c ELSE lastSeq
    BY <1>4 DEF DrainAhead
  <2>2. lastSeq' >= lastSeq /\ c <= lastSeq' /\ lastSeq' \in Nat
    BY <1>0, <2>1 DEF Drains, TypeOK
  <2>3. heard' = heard
    BY <1>4 DEF DrainAhead
  <2>4. ASSUME NEW s \in heard, s \notin ahead' PROVE s <= lastSeq'
    <3>1. CASE s = c
      BY <2>2, <3>1
    <3>2. CASE s # c
      BY <1>0, <2>1, <2>2, <2>4, <3>2 DEF KeptInv, TypeOK
    <3>3. QED
      BY <3>1, <3>2
  <2>5. QED
    BY <2>3, <2>4 DEF KeptInv
<1>5. CASE UNCHANGED <<heard, lastSeq, ahead>>
  BY <1>5 DEF KeptInv
<1>6. QED
  <2>1. CASE Tick \/ BeginPush \/ EndFeed \/ EndEngine
    BY <2>1, <1>5 DEF Tick, BeginPush, EndFeed, EndEngine, streamVars
  <2>2. CASE PassDecreasing
    BY <2>2, <1>5 DEF PassDecreasing
  <2>3. CASE UNCHANGED vars
    BY <2>3, <1>5 DEF vars
  <2>4. QED
    BY <1>1, <1>2, <1>3, <1>4, <2>1, <2>2, <2>3 DEF Next, FeedStep

(* With maxWaitTime 0 a chunk that arrived once never has to arrive again. *)
THEOREM ArrivedIsKept == Spec => []NothingLost
<1>1. Init => KeptInv
  BY DEF Init, KeptInv
<1>2. TypeOK /\ KeptInv /\ RunInv => NothingLost
  <2> SUFFICES ASSUME TypeOK, KeptInv, RunInv, maxWait = 0,
                      NEW s \in heard, ~(s < InitialSeq), s \notin ahead
               PROVE  \E j \in DOMAIN log : log[j] = s
    BY DEF NothingLost
  <2>1. s \in Nat /\ s <= lastSeq /\ InitialSeq \in Nat /\ s >= InitialSeq
    BY StreamConstants DEF KeptInv, TypeOK, Seqs
  <2>2. Len(log) \in Nat /\ DOMAIN log = 1..Len(log)
        /\ lastSeq = InitialSeq - 1 + Len(log)
    BY LenProperties DEF TypeOK, RunInv
  <2>3. s - InitialSeq + 1 \in DOMAIN log
    BY <2>1, <2>2
  <2>4. log[s - InitialSeq + 1] = s
    BY <2>1, <2>3 DEF RunInv, NoGap
  <2>5. QED
    BY <2>3, <2>4
<1>3. QED
  BY <1>1, <1>2, KeptStep, RunCorrect, TypeCorrect, PTL DEF Spec

(* DeliversAll: what Stream.push hands out, for any feeds and any waiting   *)
(* time.                                                                   *)
THEOREM StreamDelivers == Spec => []DeliversAll
<1>1. InOrder /\ NoGap /\ NothingLost => DeliversAll
  BY DEF DeliversAll
<1> QED
  BY <1>1, DeliveredInOrder, DeliveredWithoutGap, ArrivedIsKept, PTL
-----------------------------------------------------------------------------
(* Membership in GetMissing, without its union of intervals. *)
LEMMA MissingMember ==
    ASSUME NEW l \in Nat, NEW A \in SUBSET Nat, NEW s
    PROVE  s \in GetMissing(l, A) <=>
             s \in Nat /\ s > l /\ s \notin A /\ \E t \in A : s <= t
<1>1. ASSUME s \in GetMissing(l, A)
      PROVE  s \in Nat /\ s > l /\ s \notin A /\ \E t \in A : s <= t
  <2>1. PICK t \in A : s \in (l + 1)..t
    BY <1>1 DEF GetMissing
  <2>2. s \notin A
    BY <1>1 DEF GetMissing
  <2>3. QED
    BY <2>1, <2>2
<1>2. ASSUME s \in Nat, s > l, s \notin A, NEW t \in A, s <= t
      PROVE  s \in GetMissing(l, A)
  <2>1. s \in (l + 1)..t
    BY <1>2
  <2>2. QED
    BY <1>2, <2>1 DEF GetMissing
<1>3. QED
  BY <1>1, <1>2

(* What relates a call in progress to the state it began in: nothing of    *)
(* the ahead list is forgotten before the stream has passed it, and what   *)
(* joined the list, or moved the stream, came from the feed.               *)
CallInv ==
    IF pc = "idle" THEN missing = Gaps ELSE
        /\ missing = GetMissing(base.last, base.ahead)
        /\ base.last <= lastSeq
        /\ ahead \subseteq base.ahead \cup Arrived
        /\ \A t \in base.ahead : t \in ahead \/ t <= lastSeq
        /\ lastSeq \in {base.last} \cup base.ahead \cup Arrived

LEMMA CallStep == TypeOK /\ CallInv /\ [Next]_vars => CallInv'
<1> SUFFICES ASSUME TypeOK, CallInv, [Next]_vars PROVE CallInv'
  OBVIOUS
<1>0. /\ ahead \subseteq Nat /\ base.ahead \subseteq Nat /\ base.last \in Nat
      /\ Arrived \subseteq Nat /\ lastSeq \in Nat
  <2>1. Seqs \subseteq Nat
    BY StreamConstants DEF Seqs
  <2>2. \A k \in DOMAIN feed : feed[k] \in Seqs
    BY ElementOfSeq, LenProperties DEF TypeOK
  <2>3. QED
    BY <2>1, <2>2 DEF TypeOK, Arrived
<1>1. CASE Tick
  BY <1>1 DEF Tick, streamVars, callVars, CallInv, Gaps
<1>2. CASE BeginPush
  <2>1. /\ base'.last = lastSeq /\ base'.ahead = ahead /\ pc = "idle" /\ pc' = "feed"
        /\ UNCHANGED <<lastSeq, ahead, missing>>
    BY <1>2 DEF BeginPush
  <2>2. missing = GetMissing(lastSeq, ahead)
    BY <2>1 DEF CallInv, Gaps
  <2>3. QED
    BY <1>0, <2>1, <2>2 DEF CallInv
<1>3. CASE FeedStep
  <2>1. /\ pc = "feed" /\ pc' = "feed" /\ UNCHANGED <<missing, feed, base>>
        /\ i \in DOMAIN feed
    BY <1>3 DEF FeedStep, PassDecreasing, PassOld, Deliver, KeepAhead,
                InFeedOrder, FeedLoop
  <2>2. Arrived' = Arrived /\ feed[i] \in Arrived
    BY <2>1 DEF Arrived
  <2>3. CASE PassDecreasing \/ PassOld
    BY <2>1, <2>2, <2>3 DEF PassDecreasing, PassOld, CallInv
  <2>4. CASE Deliver
    <3>1. lastSeq' = feed[i] /\ feed[i] \in Nat /\ ~(feed[i] <= lastSeq)
          /\ ahead' = ahead
      BY <1>0, <2>2, <2>4 DEF Deliver, IsOld
    <3>2. lastSeq < lastSeq'
      BY <1>0, <3>1
    <3>3. \A t \in base.ahead : t \in ahead' \/ t <= lastSeq'
      BY <1>0, <2>1, <3>1, <3>2 DEF CallInv
    <3>4. base.last <= lastSeq'
      BY <1>0, <2>1, <3>1, <3>2 DEF CallInv
    <3>5. QED
      BY <2>1, <2>2, <3>1, <3>3, <3>4 DEF CallInv
  <2>5. CASE KeepAhead
    BY <2>1, <2>2, <2>5 DEF KeepAhead, CallInv
  <2>6. QED
    BY <1>3, <2>3, <2>4, <2>5 DEF FeedStep
<1>4. CASE EndFeed
  BY <1>4 DEF EndFeed, CallInv, Arrived
<1>5. CASE DrainAhead
  <2>1. PICK c \in ahead :
          /\ Drains(c)
          /\ ahead' = ahead \ {c}
          /\ lastSeq' = IF c = lastSeq + 1 THEN c ELSE lastSeq
    BY <1>5 DEF DrainAhead
  <2>2. pc = "drain" /\ pc' = "drain" /\ UNCHANGED <<missing, feed, base>>
    BY <1>5 DEF DrainAhead, callVars
  <2>3. c <= lastSeq' /\ lastSeq <= lastSeq' /\ lastSeq' \in {lastSeq, c}
    BY <1>0, <2>1 DEF Drains
  <2>4. Arrived' = Arrived
    BY <2>2 DEF Arrived
  <2>5. \A t \in base.ahead : t \in ahead' \/ t <= lastSeq'
    BY <1>0, <2>1, <2>2, <2>3 DEF CallInv
  <2>6. base.last <= lastSeq' /\ ahead' \subseteq base.ahead \cup Arrived
        /\ lastSeq' \in {base.last} \cup base.ahead \cup Arrived
    BY <1>0, <2>1, <2>2, <2>3 DEF CallInv
  <2>7. QED
    BY <2>2, <2>4, <2>5, <2>6 DEF CallInv
<1>6. CASE EndEngine
  <2> DEFINE passed == IF lastSeq > SequenceFirst THEN SequenceFirst..lastSeq ELSE {}
             still == (missing \ passed) \ Arrived
  <2>1. /\ pc = "drain" /\ pc' = "idle" /\ missing' = still \cup Gaps
        /\ UNCHANGED <<lastSeq, ahead>>
    BY <1>6 DEF EndEngine
  <2>2. Gaps' = Gaps
    BY <2>1 DEF Gaps
  <2>3. ASSUME NEW s \in still PROVE s \in Gaps
    <3>1. /\ s \in Nat /\ s > base.last /\ s \notin base.ahead
          /\ \E t \in base.ahead : s <= t
      BY <1>0, <2>1, <2>3, MissingMember DEF CallInv
    <3>2. s \notin Arrived /\ s \notin passed
      BY <2>3
    <3>3. s > lastSeq
      <4>1. CASE lastSeq > SequenceFirst
        BY <1>0, <3>1, <3>2, <4>1 DEF SequenceFirst
      <4>2. CASE lastSeq <= SequenceFirst
        <5>1. s # lastSeq
          BY <1>0, <2>1, <3>1, <3>2 DEF CallInv
        <5>2. QED
          BY <1>0, <3>1, <4>2, <5>1 DEF SequenceFirst
      <4>3. QED
        BY <1>0, <4>1, <4>2 DEF SequenceFirst
    <3>4. s \notin ahead
      BY <2>1, <3>1, <3>2 DEF CallInv
    <3>5. \E t \in ahead : s <= t
      BY <1>0, <2>1, <3>1, <3>3 DEF CallInv
    <3>6. QED
      BY <1>0, <3>1, <3>3, <3>4, <3>5, MissingMember DEF Gaps
  <2>4. missing' = Gaps
    BY <2>1, <2>3
  <2>5. QED
    BY <2>1, <2>2, <2>4 DEF CallInv
<1>7. CASE UNCHANGED vars
  BY <1>7 DEF vars, CallInv, Gaps, Arrived
<1>8. QED
  BY <1>1, <1>2, <1>3, <1>4, <1>5, <1>6, <1>7 DEF Next

(* Between calls the set of missing numbers is exactly the gaps, although  *)
(* Engine never computes it from scratch.                                  *)
THEOREM MissingIsExact == Spec => []MissingExact
<1>1. Init => CallInv
  <2>1. GetMissing(lastSeq, {}) = {}
    BY DEF GetMissing
  <2>2. QED
    BY <2>1 DEF Init, CallInv, Gaps
<1>2. CallInv => MissingExact
  BY DEF CallInv, MissingExact
<1>3. QED
  BY <1>1, <1>2, CallStep, TypeCorrect, PTL DEF Spec
-----------------------------------------------------------------------------
(* The rest shows that a call of Engine, entry by entry and node by node,  *)
(* computes the closed form of StreamOps: Stream implements StreamSpec.    *)

(* The entries among the first k - 1 of the feed that push looks at.       *)
AcceptedBefore(k) ==
    {feed[m] : m \in {n \in DOMAIN feed :
                        /\ n < k
                        /\ feed[n] > base.last
                        /\ \A j \in DOMAIN feed : j < n => feed[j] <= feed[n]}}

StartTime == IF base.time = 0 THEN now ELSE base.time

WasLate == Late(StartTime)

Res(A) == ResumeAt(base.last, A, WasLate)

(* Between calls the next number is not waiting. *)
NextIsAbsent == \A c \in ahead : c > lastSeq + 1

(* While the feed loop runs: seqPrev is the largest entry so far, what was *)
(* accepted has been delivered without a hole or waits, and expired says   *)
(* that the stream was late and has not delivered anything in this call.   *)
FeedInv ==
    LET A == AcceptedBefore(i)
    IN  /\ feed \in Feeds
        /\ i \in 1..(Len(feed) + 1)
        /\ lastTime = StartTime
        /\ \A j \in DOMAIN feed : j < i => feed[j] <= seqPrev
        /\ seqPrev = 0 \/ \E j \in DOMAIN feed : j < i /\ feed[j] = seqPrev
        /\ expired <=> (WasLate /\ A = {})
        /\ pushed <=> (lastSeq > base.last)
        /\ Res(A) \in base.last..lastSeq
        /\ (Res(A) + 1)..lastSeq \subseteq A
        /\ WasLate /\ A # {} => Res(A) \in A /\ \A t \in A : Res(A) <= t
        /\ \A s \in A : s > lastSeq => s > lastSeq + 1
        /\ ahead = base.ahead \cup {s \in A : s > lastSeq}
        /\ \A c \in base.ahead : c > base.last + 1

(* While the ahead list is drained: the position has gone on without a     *)
(* hole, and what lies beyond it still waits.                              *)
DrainInv ==
    LET A == Accepted(base.last, feed)
        S == base.ahead \cup A
    IN  /\ feed \in Feeds
        /\ lastTime = IF lastSeq > base.last THEN now ELSE StartTime
        /\ Res(A) \in base.last..lastSeq
        /\ (Res(A) + 1)..lastSeq \subseteq S
        /\ ahead \subseteq S
        /\ \A s \in S : s > lastSeq => s \in ahead
        /\ lastSeq = base.last => NextIsAbsent

EngineInv ==
    /\ pc = "idle" => NextIsAbsent
    /\ pc = "feed" => FeedInv
    /\ pc = "drain" => DrainInv
-----------------------------------------------------------------------------
LEMMA FeedType ==
    ASSUME TypeOK
    PROVE  /\ DOMAIN feed = 1..Len(feed) /\ Len(feed) \in Nat
           /\ \A k \in DOMAIN feed : feed[k] \in Seqs /\ feed[k] \in Nat /\ feed[k] >= 1
           /\ base.last \in Nat /\ base.ahead \subseteq Seqs /\ base.time \in Nat
           /\ Seqs \subseteq Nat
<1>1. Seqs \subseteq Nat /\ \A s \in Seqs : s >= 1
  BY StreamConstants DEF Seqs
<1>2. DOMAIN feed = 1..Len(feed) /\ Len(feed) \in Nat /\ \A k \in DOMAIN feed : feed[k] \in Seqs
  BY ElementOfSeq, LenProperties DEF TypeOK
<1>3. QED
  BY <1>1, <1>2 DEF TypeOK

LEMMA AcceptedType ==
    ASSUME TypeOK, NEW k
    PROVE  /\ AcceptedBefore(k) \in SUBSET Nat
           /\ \A s \in AcceptedBefore(k) : s > base.last
           /\ \A s \in AcceptedBefore(k) : \E j \in DOMAIN feed : j < k /\ feed[j] = s
  BY FeedType DEF AcceptedBefore

(* The feed loop accepts an entry or passes it over. *)
LEMMA AcceptedNot ==
    ASSUME TypeOK, i \in DOMAIN feed,
           feed[i] <= base.last \/ \E j \in DOMAIN feed : j < i /\ feed[j] > feed[i]
    PROVE  AcceptedBefore(i + 1) = AcceptedBefore(i)
<1>1. \A n \in DOMAIN feed : n < i + 1 <=> n < i \/ n = i
  BY FeedType
<1>2. ~(feed[i] > base.last /\ \A j \in DOMAIN feed : j < i => feed[j] <= feed[i])
  BY FeedType
<1>3. QED
  BY <1>1, <1>2 DEF AcceptedBefore

LEMMA AcceptedAlso ==
    ASSUME TypeOK, i \in DOMAIN feed,
           feed[i] > base.last, \A j \in DOMAIN feed : j < i => feed[j] <= feed[i]
    PROVE  AcceptedBefore(i + 1) = AcceptedBefore(i) \cup {feed[i]}
<1>1. \A n \in DOMAIN feed : n < i + 1 <=> n < i \/ n = i
  BY FeedType
<1>2. QED
  BY <1>1 DEF AcceptedBefore

LEMMA AcceptedAll ==
    ASSUME TypeOK, i \in 1..(Len(feed) + 1), i \notin DOMAIN feed
    PROVE  AcceptedBefore(i) = Accepted(base.last, feed)
<1>1. \A n \in DOMAIN feed : n < i
  BY FeedType
<1>2. QED
  BY <1>1 DEF AcceptedBefore, Accepted

LEMMA ResumesAtPosition ==
    ASSUME NEW l, NEW A, NEW late, ~(late /\ A # {})
    PROVE  ResumeAt(l, A, late) = l
  BY DEF ResumeAt

LEMMA ResumesAtFirst ==
    ASSUME NEW l, NEW A \in SUBSET Nat, NEW late, late, NEW x \in A, \A t \in A : x <= t
    PROVE  ResumeAt(l, A, late) = x
<1>1. ResumeAt(l, A, late) = CHOOSE s \in A : \A t \in A : s <= t
  BY DEF ResumeAt
<1>2. \A y \in A : (\A t \in A : y <= t) => y = x
  BY x \in Nat
<1>3. QED
  BY <1>1, <1>2

(* There is only one end of a run. *)
LEMMA RunEndUnique ==
    ASSUME NEW S \in SUBSET Nat, NEW from \in Nat, NEW n \in Nat, n >= from,
           (from + 1)..n \subseteq S, n + 1 \notin S
    PROVE  RunEnd(from, S) = n
<1>1. n \in {from} \cup S
  BY n = from \/ n \in (from + 1)..n
<1>2. ASSUME NEW m \in {from} \cup S, m >= from, (from + 1)..m \subseteq S, m + 1 \notin S
      PROVE  m = n
  <2>1. m \in Nat
    OBVIOUS
  <2>2. ~(m < n)
    <3>1. m < n => m + 1 \in (from + 1)..n
      BY <1>2, <2>1
    <3>2. QED
      BY <1>2, <3>1
  <2>3. ~(n < m)
    <3>1. n < m => n + 1 \in (from + 1)..m
      BY <1>2, <2>1
    <3>2. QED
      BY <1>2, <3>1
  <2>4. QED
    BY <2>1, <2>2, <2>3
<1>3. QED
  BY <1>1, <1>2 DEF RunEnd

(* When an entry that is not smaller than the earlier ones is accepted     *)
(* too, delivery resumes where it did before, unless it is the first one.  *)
LEMMA ResumeKept ==
    ASSUME NEW l \in Nat, NEW A \in SUBSET Nat, NEW late \in BOOLEAN, NEW v \in Nat,
           \A s \in A : s <= v, ~(late /\ A = {}),
           late /\ A # {} => ResumeAt(l, A, late) \in A /\ \A t \in A : ResumeAt(l, A, late) <= t
    PROVE  ResumeAt(l, A \cup {v}, late) = ResumeAt(l, A, late)
<1>1. CASE ~late
  BY <1>1, ResumesAtPosition
<1>2. CASE late
  <2> DEFINE x == ResumeAt(l, A, late)
  <2>1. x \in A /\ \A t \in A : x <= t
    BY <1>2
  <2> HIDE DEF x
  <2>2. x \in A \cup {v} /\ \A t \in A \cup {v} : x <= t
    BY <2>1
  <2>3. ResumeAt(l, A \cup {v}, late) = x
    BY <1>2, <2>2, ResumesAtFirst
  <2>4. QED
    BY <2>3 DEF x
<1>3. QED
  BY <1>1, <1>2

(* One iteration of the feed loop. *)
LEMMA FeedKeeps == TypeOK /\ pc = "feed" /\ FeedInv /\ UNCHANGED maxWait /\ FeedStep => FeedInv'
<1> SUFFICES ASSUME TypeOK, pc = "feed", FeedInv, UNCHANGED maxWait, FeedStep PROVE FeedInv'
  OBVIOUS
<1> DEFINE A == AcceptedBefore(i)
           A2 == AcceptedBefore(i + 1)
           v == feed[i]
           res == Res(A)
           r2 == ResumeAt(base.last, A2, WasLate)
<1>1. /\ i \in DOMAIN feed /\ i' = i + 1
      /\ UNCHANGED <<now, lastTime, feed, base>>
  BY DEF FeedStep, PassDecreasing, PassOld, Deliver, KeepAhead, InFeedOrder, FeedLoop
<1>2. /\ AcceptedBefore(i)' = A2 /\ StartTime' = StartTime /\ (WasLate' <=> WasLate)
      /\ Res(AcceptedBefore(i))' = r2
  BY <1>1 DEF AcceptedBefore, StartTime, WasLate, Late, Res
<1>3. /\ A \in SUBSET Nat /\ (\A s \in A : s > base.last)
      /\ \A s \in A : \E j \in DOMAIN feed : j < i /\ feed[j] = s
  BY AcceptedType
<1>4. /\ v \in Nat /\ v >= 1 /\ base.last \in Nat /\ seqPrev \in Nat /\ lastSeq \in Nat
      /\ i \in Nat /\ Len(feed) \in Nat /\ DOMAIN feed = 1..Len(feed)
      /\ base.ahead \subseteq Nat /\ WasLate \in BOOLEAN
      /\ \A j \in DOMAIN feed : feed[j] \in Nat
  BY <1>1, FeedType DEF TypeOK, WasLate, Late
<1>5. /\ feed \in Feeds /\ lastTime = StartTime
      /\ \A j \in DOMAIN feed : j < i => feed[j] <= seqPrev
      /\ seqPrev = 0 \/ \E j \in DOMAIN feed : j < i /\ feed[j] = seqPrev
      /\ expired <=> (WasLate /\ A = {})
      /\ pushed <=> (lastSeq > base.last)
      /\ res \in base.last..lastSeq
      /\ (res + 1)..lastSeq \subseteq A
      /\ WasLate /\ A # {} => res \in A /\ \A t \in A : res <= t
      /\ \A s \in A : s > lastSeq => s > lastSeq + 1
      /\ ahead = base.ahead \cup {s \in A : s > lastSeq}
      /\ \A c \in base.ahead : c > base.last + 1
  BY DEF FeedInv
<1>6. \A s \in A : s <= seqPrev
  BY <1>3, <1>5
<1>7. res = ResumeAt(base.last, A, WasLate)
  BY DEF Res
<1>8. /\ feed' \in Feeds /\ i' \in 1..(Len(feed') + 1) /\ lastTime' = StartTime'
      /\ \A c \in base'.ahead : c > base'.last + 1
  BY <1>1, <1>2, <1>4, <1>5
<1>9. \A j \in DOMAIN feed : j < i + 1 <=> j < i \/ j = i
  BY <1>1, <1>4
(* What is left to show, once the new values are known. *)
<1>10. ASSUME \A j \in DOMAIN feed : j < i + 1 => feed[j] <= seqPrev',
              seqPrev' = 0 \/ \E j \in DOMAIN feed : j < i + 1 /\ feed[j] = seqPrev',
              expired' <=> (WasLate /\ A2 = {}),
              pushed' <=> (lastSeq' > base.last),
              r2 \in base.last..lastSeq',
              (r2 + 1)..lastSeq' \subseteq A2,
              WasLate /\ A2 # {} => r2 \in A2 /\ \A t \in A2 : r2 <= t,
              \A s \in A2 : s > lastSeq' => s > lastSeq' + 1,
              ahead' = base.ahead \cup {s \in A2 : s > lastSeq'}
       PROVE  FeedInv'
  <2> HIDE DEF A2, r2
  <2> QED
    BY <1>1, <1>2, <1>8, <1>10 DEF FeedInv
<1>11. CASE PassDecreasing
  <2>1. v < seqPrev /\ UNCHANGED <<lastSeq, ahead, seqPrev, expired, pushed>>
    BY <1>11 DEF PassDecreasing, IsDecreasing
  <2>2. \E j \in DOMAIN feed : j < i /\ feed[j] > v
    BY <1>4, <1>5, <2>1
  <2>3. A2 = A /\ r2 = res
    BY <1>1, <1>7, <2>2, AcceptedNot
  <2>4. \A j \in DOMAIN feed : j < i + 1 => feed[j] <= seqPrev
    BY <1>4, <1>5, <1>9, <2>1
  <2> HIDE DEF A, A2, res, r2, v
  <2>5. QED
    BY <1>5, <1>9, <1>10, <2>1, <2>3, <2>4
<1>12. CASE InFeedOrder /\ (PassOld \/ Deliver \/ KeepAhead)
  <2>1. v >= seqPrev /\ seqPrev' = v
    BY <1>4, <1>12 DEF InFeedOrder, IsDecreasing
  <2>2. \A j \in DOMAIN feed : j < i => feed[j] <= v
    BY <1>4, <1>5, <2>1
  <2>3. /\ \A j \in DOMAIN feed : j < i + 1 => feed[j] <= seqPrev'
        /\ \E j \in DOMAIN feed : j < i + 1 /\ feed[j] = seqPrev'
    BY <1>1, <1>4, <1>9, <2>1, <2>2
  <2>4. \A s \in A : s <= v
    BY <1>3, <1>4, <1>6, <2>1
  <2>5. v > base.last => A2 = A \cup {v}
    BY <1>1, <2>2, AcceptedAlso
  <2>6. ~(v > base.last) => A2 = A
    BY <1>1, <1>4, AcceptedNot
  <2>7. v > base.last /\ ~(WasLate /\ A = {}) => r2 = res
    <3> SUFFICES ASSUME v > base.last, ~(WasLate /\ A = {}) PROVE r2 = res
      OBVIOUS
    <3>1. A2 = A \cup {v}
      BY <2>5
    <3>2. WasLate /\ A # {} => /\ ResumeAt(base.last, A, WasLate) \in A
                               /\ \A t \in A : ResumeAt(base.last, A, WasLate) <= t
      BY <1>5, <1>7
    <3>3. base.last \in Nat /\ A \in SUBSET Nat /\ WasLate \in BOOLEAN /\ v \in Nat
      BY <1>3, <1>4
    <3>4. r2 = ResumeAt(base.last, A2, WasLate)
      OBVIOUS
    <3> HIDE DEF A, A2, v, res, r2
    <3>5. ResumeAt(base.last, A \cup {v}, WasLate) = ResumeAt(base.last, A, WasLate)
      BY <2>4, <3>2, <3>3, ResumeKept
    <3>6. QED
      BY <1>7, <3>1, <3>4, <3>5
  <2>8. CASE PassOld
    <3>1. v <= lastSeq /\ UNCHANGED <<lastSeq, ahead, expired, pushed>>
      BY <2>8 DEF PassOld, IsOld
    <3>2. A2 = A
      <4>1. CASE v > base.last
        <5>1. lastSeq \in A
          <6>1. lastSeq > base.last
            BY <1>4, <3>1, <4>1
          <6>2. CASE lastSeq = res
            BY <1>5, <1>7, <6>1, <6>2, ResumesAtPosition
          <6>3. CASE lastSeq # res
            BY <1>4, <1>5, <6>3
          <6>4. QED
            BY <6>2, <6>3
        <5>2. lastSeq = v
          BY <1>4, <2>4, <3>1, <5>1
        <5>3. QED
          BY <2>5, <4>1, <5>1, <5>2
      <4>2. QED
        BY <2>6, <4>1
    <3>3. r2 = res
      BY <1>7, <3>2
    <3> HIDE DEF A, A2, res, r2, v
    <3>4. QED
      BY <1>5, <1>10, <2>3, <3>1, <3>2, <3>3
  <2>9. CASE Deliver
    <3>1. /\ ~(v <= lastSeq) /\ lastSeq' = v /\ expired' = FALSE /\ pushed' = TRUE
          /\ ahead' = ahead /\ (v = lastSeq + 1 \/ expired)
      BY <2>9 DEF Deliver, IsOld, IsNext
    <3>2. v > base.last /\ v > lastSeq /\ A2 = A \cup {v} /\ v \in A2
      BY <1>4, <1>5, <2>5, <3>1
    <3>3. CASE expired
      <4>1. WasLate /\ A = {} /\ A2 = {v}
        BY <1>5, <3>2, <3>3
      <4>2. r2 = v
        <5>1. A2 \in SUBSET Nat /\ v \in A2 /\ \A t \in A2 : v <= t
          BY <1>4, <4>1
        <5>2. r2 = ResumeAt(base.last, A2, WasLate)
          OBVIOUS
        <5> HIDE DEF A2, v, r2
        <5>3. QED
          BY <4>1, <5>1, <5>2, ResumesAtFirst
      <4>3. (r2 + 1)..v = {}
        BY <1>4, <4>2
      <4>4. ahead' = base.ahead \cup {s \in A2 : s > v}
        BY <1>4, <1>5, <3>1, <4>1
      <4>5. r2 \in base.last..v
        BY <1>4, <3>2, <4>2
      <4>6. \A s \in A2 : ~(s > v) /\ r2 <= s
        <5> HIDE DEF A, A2, r2
        <5> QED
          BY <1>4, <4>1, <4>2
      <4> HIDE DEF A, A2, res, r2, v
      <4>7. QED
        BY <1>10, <2>3, <3>1, <3>2, <4>1, <4>2, <4>3, <4>4, <4>5, <4>6
    <3>4. CASE ~expired
      <4>1. v = lastSeq + 1 /\ r2 = res /\ ~(WasLate /\ A = {})
        BY <1>5, <2>7, <3>1, <3>2, <3>4
      <4>2. r2 \in base.last..v
        BY <1>4, <1>5, <4>1
      <4>3. (r2 + 1)..v \subseteq A2
        BY <1>4, <1>5, <3>2, <4>1
      <4>4. WasLate /\ A2 # {} => r2 \in A2 /\ \A t \in A2 : r2 <= t
        <5>1. res <= v
          BY <1>4, <1>5, <4>1
        <5> HIDE DEF A, A2, res, r2, v
        <5>2. WasLate => A # {} /\ res \in A /\ \A t \in A : res <= t
          BY <1>5, <4>1
        <5>3. QED
          BY <3>2, <4>1, <5>1, <5>2
      <4>5. \A s \in A2 : ~(s > v)
        BY <1>3, <1>4, <2>4, <3>2
      <4>6. \A s \in A : ~(s > lastSeq)
        BY <1>3, <1>4, <1>5, <2>4, <4>1
      <4>7. ahead' = base.ahead \cup {s \in A2 : s > v}
        BY <1>5, <3>1, <4>5, <4>6
      <4> HIDE DEF A, A2, res, r2, v
      <4>8. QED
        BY <1>10, <2>3, <3>1, <3>2, <4>1, <4>2, <4>3, <4>4, <4>5, <4>7
    <3>5. QED
      BY <3>3, <3>4
  <2>10. CASE KeepAhead
    <3>1. /\ ~(v <= lastSeq) /\ ~(v = lastSeq + 1) /\ ~expired
          /\ ahead' = ahead \cup {v} /\ UNCHANGED <<lastSeq, expired, pushed>>
      BY <2>10 DEF KeepAhead, IsOld, IsNext
    <3>2. v > base.last /\ v > lastSeq /\ A2 = A \cup {v} /\ v > lastSeq + 1
      BY <1>4, <1>5, <2>5, <3>1
    <3>3. r2 = res /\ ~(WasLate /\ A = {}) /\ A2 # {}
      BY <1>5, <2>7, <3>1, <3>2
    <3>4. (r2 + 1)..lastSeq \subseteq A2
      BY <1>5, <3>2, <3>3
    <3>5. WasLate /\ A2 # {} => r2 \in A2 /\ \A t \in A2 : r2 <= t
      <4>1. res <= v
        BY <1>4, <1>5, <3>2
      <4> HIDE DEF A, A2, res, r2, v
      <4>2. WasLate => A # {} /\ res \in A /\ \A t \in A : res <= t
        BY <1>5, <3>3
      <4>3. QED
        BY <3>2, <3>3, <4>1, <4>2
    <3>6. \A s \in A2 : s > lastSeq => s > lastSeq + 1
      BY <1>5, <3>2
    <3>7. ahead' = base.ahead \cup {s \in A2 : s > lastSeq}
      BY <1>5, <3>1, <3>2
    <3> HIDE DEF A, A2, res, r2, v
    <3>8. QED
      BY <1>5, <1>10, <2>3, <3>1, <3>3, <3>4, <3>5, <3>6, <3>7
  <2>11. QED
    BY <1>12, <2>8, <2>9, <2>10
<1>13. QED
  BY <1>11, <1>12 DEF FeedStep, PassOld, Deliver, KeepAhead

(* The call begins: nothing is accepted yet. *)
LEMMA FeedBegins == TypeOK /\ NextIsAbsent /\ UNCHANGED maxWait /\ BeginPush => FeedInv'
<1> SUFFICES ASSUME TypeOK, NextIsAbsent, UNCHANGED maxWait, BeginPush PROVE FeedInv'
  OBVIOUS
<1> DEFINE start == IF lastTime = 0 THEN now ELSE lastTime
<1>1. /\ feed' \in Feeds /\ i' = 1 /\ seqPrev' = 0 /\ pushed' = FALSE
      /\ lastTime' = start /\ expired' = Late(start)
      /\ base'.last = lastSeq /\ base'.ahead = ahead /\ base'.time = lastTime
      /\ UNCHANGED <<now, lastSeq, ahead>>
  BY DEF BeginPush, SequenceNone
<1>2. /\ Len(feed') \in Nat /\ DOMAIN feed' = 1..Len(feed')
  BY <1>1, FeedsAreSeqs, LenProperties
<1>3. \A j \in DOMAIN feed' : ~(j < 1)
  BY <1>2
<1>4. AcceptedBefore(i)' = {}
  BY <1>1, <1>3 DEF AcceptedBefore
<1>5. StartTime' = start
  BY <1>1 DEF StartTime
<1>6. WasLate' = Late(start)
  BY <1>1, <1>5 DEF WasLate, Late
<1>7. Res(AcceptedBefore(i))' = lastSeq
  BY <1>1, <1>4 DEF Res, ResumeAt
<1>8. lastSeq \in Nat /\ (lastSeq + 1)..lastSeq = {} /\ lastSeq \in lastSeq..lastSeq
  BY DEF TypeOK
<1>9. \A c \in ahead : c > lastSeq + 1
  BY DEF NextIsAbsent
<1>10. expired' <=> (WasLate' /\ AcceptedBefore(i)' = {})
  BY <1>1, <1>4, <1>6
<1>11. i' \in 1..(Len(feed') + 1)
  BY <1>1, <1>2
<1>12. ~(lastSeq > lastSeq)
  BY <1>8
<1> HIDE DEF start
<1> QED
  BY <1>1, <1>3, <1>4, <1>5, <1>7, <1>8, <1>9, <1>10, <1>11, <1>12 DEF FeedInv

(* The feed loop ends: everything that push accepts has been accepted.     *)
LEMMA DrainBegins == TypeOK /\ FeedInv /\ UNCHANGED maxWait /\ EndFeed => DrainInv'
<1> SUFFICES ASSUME TypeOK, FeedInv, UNCHANGED maxWait, EndFeed PROVE DrainInv'
  OBVIOUS
<1> DEFINE A == Accepted(base.last, feed)
           res == Res(A)
<1>1. /\ i \notin DOMAIN feed /\ lastTime' = IF pushed THEN now ELSE lastTime
      /\ UNCHANGED <<now, lastSeq, ahead, feed, base>>
  BY DEF EndFeed, TimeAfterFeed
<1>2. i \in 1..(Len(feed) + 1)
  BY DEF FeedInv
<1>3. AcceptedBefore(i) = A
  BY <1>1, <1>2, AcceptedAll
<1>4. /\ A' = A /\ Res(A)' = res /\ StartTime' = StartTime
  BY <1>1 DEF Res, WasLate, Late, StartTime
<1>5. A \in SUBSET Nat /\ base.last \in Nat /\ lastSeq \in Nat /\ base.ahead \subseteq Nat
  BY <1>3, AcceptedType, FeedType DEF TypeOK
<1> HIDE DEF A
<1>6. /\ feed \in Feeds /\ lastTime = StartTime
      /\ pushed <=> (lastSeq > base.last)
      /\ res \in base.last..lastSeq
      /\ (res + 1)..lastSeq \subseteq A
      /\ \A s \in A : s > lastSeq => s > lastSeq + 1
      /\ ahead = base.ahead \cup {s \in A : s > lastSeq}
      /\ \A c \in base.ahead : c > base.last + 1
  BY <1>3 DEF FeedInv
<1>7. ahead \subseteq base.ahead \cup A
  BY <1>6
<1>8. \A s \in base.ahead \cup A : s > lastSeq => s \in ahead
  BY <1>6
<1>9. (res + 1)..lastSeq \subseteq base.ahead \cup A
  BY <1>6
<1>10. lastSeq = base.last => \A c \in ahead : c > lastSeq + 1
  BY <1>6
<1> HIDE DEF res
<1>11. QED
  BY <1>1, <1>4, <1>6, <1>7, <1>8, <1>9, <1>10 DEF DrainInv, NextIsAbsent, A

(* One iteration over the ahead list.  When the feed has not moved the     *)
(* stream there is none: the first node is beyond the next number.         *)
LEMMA DrainKeeps == TypeOK /\ DrainInv /\ UNCHANGED maxWait /\ DrainAhead => DrainInv'
<1> SUFFICES ASSUME TypeOK, DrainInv, UNCHANGED maxWait, DrainAhead PROVE DrainInv'
  OBVIOUS
<1> DEFINE A == Accepted(base.last, feed)
           res == Res(A)
           S == base.ahead \cup A
<1>1. PICK c \in ahead :
        /\ c <= lastSeq + 1
        /\ ahead' = ahead \ {c}
        /\ lastSeq' = IF c = lastSeq + 1 THEN c ELSE lastSeq
  BY DEF DrainAhead, Drains
<1>2. UNCHANGED <<now, lastTime, feed, base>>
  BY DEF DrainAhead, callVars
<1>3. /\ A' = A /\ Res(A)' = res /\ StartTime' = StartTime /\ S' = S
  BY <1>2 DEF Res, WasLate, Late, StartTime
<1>4. /\ base.last \in Nat /\ lastSeq \in Nat /\ ahead \subseteq Nat
  BY FeedType DEF TypeOK
<1>5. /\ feed \in Feeds
      /\ lastTime = IF lastSeq > base.last THEN now ELSE StartTime
      /\ res \in base.last..lastSeq
      /\ (res + 1)..lastSeq \subseteq S
      /\ ahead \subseteq S
      /\ \A s \in S : s > lastSeq => s \in ahead
      /\ lastSeq = base.last => \A d \in ahead : d > lastSeq + 1
  BY DEF DrainInv, NextIsAbsent
<1>6. S \subseteq Nat
  <2>1. A = AcceptedBefore(Len(feed) + 1)
    BY FeedType DEF Accepted, AcceptedBefore
  <2>2. QED
    BY <2>1, AcceptedType, FeedType
<1> HIDE DEF A, S, res
<1>7. lastSeq > base.last /\ c \in Nat
  BY <1>1, <1>4, <1>5
<1>8. lastSeq' \in Nat /\ lastSeq' >= lastSeq /\ c <= lastSeq'
  BY <1>1, <1>4, <1>7
<1>9. res \in base.last..lastSeq' /\ lastSeq' > base.last
  BY <1>4, <1>5, <1>7, <1>8
<1>10. (res + 1)..lastSeq' \subseteq S
  <2>1. CASE c = lastSeq + 1
    <3>1. (res + 1)..lastSeq' \subseteq (res + 1)..lastSeq \cup {c}
      BY <1>1, <1>4, <1>5, <2>1
    <3>2. QED
      BY <1>1, <1>5, <3>1
  <2>2. CASE c # lastSeq + 1
    BY <1>1, <1>5, <2>2
  <2>3. QED
    BY <2>1, <2>2
<1>11. \A s \in S : s > lastSeq' => s \in ahead'
  BY <1>1, <1>4, <1>5, <1>6, <1>7, <1>8
<1>12. ahead' \subseteq S
  BY <1>1, <1>5
<1>13. ~(lastSeq' = base.last) /\ lastTime' = IF lastSeq' > base.last THEN now ELSE StartTime
  BY <1>2, <1>4, <1>5, <1>7, <1>9
<1>14. QED
  BY <1>2, <1>3, <1>5, <1>9, <1>10, <1>11, <1>12, <1>13 DEF DrainInv, A, S, res

(* What the call has computed when it ends.                                *)
LEMMA EngineComputes ==
    ASSUME TypeOK, DrainInv, \A c \in ahead : ~Drains(c)
    PROVE  /\ lastSeq = PushLast(base.last, base.ahead, feed, WasLate)
           /\ ahead = PushAhead(base.last, base.ahead, feed, WasLate)
           /\ lastTime = IF lastSeq > base.last THEN now ELSE StartTime
           /\ feed \in Feeds
           /\ NextIsAbsent
<1> DEFINE A == Accepted(base.last, feed)
           res == Res(A)
           S == base.ahead \cup A
<1>1. /\ base.last \in Nat /\ lastSeq \in Nat /\ ahead \subseteq Nat
  BY FeedType DEF TypeOK
<1>2. S \in SUBSET Nat
  <2>1. A = AcceptedBefore(Len(feed) + 1)
    BY FeedType DEF Accepted, AcceptedBefore
  <2>2. QED
    BY <2>1, AcceptedType, FeedType
<1>3. \A c \in ahead : c > lastSeq + 1
  BY <1>1 DEF Drains
<1>4. /\ feed \in Feeds
      /\ lastTime = IF lastSeq > base.last THEN now ELSE StartTime
      /\ res \in base.last..lastSeq
      /\ (res + 1)..lastSeq \subseteq S
      /\ ahead \subseteq S
      /\ \A s \in S : s > lastSeq => s \in ahead
  BY DEF DrainInv
<1>5. res = ResumeAt(base.last, A, WasLate)
  BY DEF Res
<1>6. PushLast(base.last, base.ahead, feed, WasLate) = RunEnd(res, S)
  BY <1>5 DEF PushLast
<1>7. PushAhead(base.last, base.ahead, feed, WasLate)
        = {s \in S : s > PushLast(base.last, base.ahead, feed, WasLate)}
  BY DEF PushAhead
<1> HIDE DEF A, S, res
<1>8. lastSeq + 1 \notin S
  BY <1>1, <1>3, <1>4
<1>9. res \in Nat /\ lastSeq >= res
  BY <1>1, <1>4
<1>10. RunEnd(res, S) = lastSeq
  BY <1>1, <1>2, <1>4, <1>8, <1>9, RunEndUnique
<1>11. ahead = {s \in S : s > lastSeq}
  <2>1. \A c \in ahead : c > lastSeq
    BY <1>1, <1>3
  <2>2. ahead \subseteq S /\ \A s \in S : s > lastSeq => s \in ahead
    BY <1>4
  <2>3. QED
    BY <2>1, <2>2
<1>12. QED
  BY <1>3, <1>4, <1>6, <1>7, <1>10, <1>11 DEF NextIsAbsent

LEMMA EngineInit == Init => EngineInv
  BY DEF Init, EngineInv, NextIsAbsent

LEMMA EngineStep == TypeOK /\ EngineInv /\ [Next]_vars => EngineInv'
<1> SUFFICES ASSUME TypeOK, EngineInv, [Next]_vars PROVE EngineInv'
  OBVIOUS
<1> UNCHANGED maxWait
  BY DEF Next, vars
<1>1. CASE Tick
  BY <1>1 DEF Tick, streamVars, callVars, EngineInv, NextIsAbsent
<1>2. CASE BeginPush
  <2>1. NextIsAbsent /\ pc' = "feed"
    BY <1>2 DEF BeginPush, EngineInv
  <2>2. QED
    BY <1>2, <2>1, FeedBegins DEF EngineInv
<1>3. CASE FeedStep
  <2>1. pc = "feed" /\ pc' = "feed"
    BY <1>3 DEF FeedStep, PassDecreasing, PassOld, Deliver, KeepAhead, InFeedOrder, FeedLoop
  <2>2. QED
    BY <1>3, <2>1, FeedKeeps DEF EngineInv
<1>4. CASE EndFeed
  <2>1. pc = "feed" /\ pc' = "drain"
    BY <1>4 DEF EndFeed
  <2>2. QED
    BY <1>4, <2>1, DrainBegins DEF EngineInv
<1>5. CASE DrainAhead
  <2>1. pc = "drain" /\ pc' = "drain"
    BY <1>5 DEF DrainAhead, callVars
  <2>2. QED
    BY <1>5, <2>1, DrainKeeps DEF EngineInv
<1>6. CASE EndEngine
  <2>1. pc = "drain" /\ pc' = "idle" /\ (\A c \in ahead : ~Drains(c))
        /\ UNCHANGED <<lastSeq, ahead>>
    BY <1>6 DEF EndEngine
  <2>2. NextIsAbsent
    BY <2>1, EngineComputes DEF EngineInv
  <2>3. QED
    BY <2>1, <2>2 DEF EngineInv, NextIsAbsent
<1>7. CASE UNCHANGED vars
  <2>1. UNCHANGED <<now, lastSeq, lastTime, ahead, pc, feed, i, seqPrev, expired, pushed, base>>
    BY <1>7 DEF vars
  <2>2. AcceptedBefore(i)' = AcceptedBefore(i) /\ StartTime' = StartTime /\ WasLate' = WasLate
    BY <2>1 DEF AcceptedBefore, StartTime, WasLate, Late
  <2>3. Res(AcceptedBefore(i))' = Res(AcceptedBefore(i))
        /\ Res(Accepted(base.last, feed))' = Res(Accepted(base.last, feed))
    BY <2>1, <2>2 DEF Res
  <2>4. (NextIsAbsent => NextIsAbsent') /\ (FeedInv => FeedInv')
    BY <2>1, <2>2, <2>3 DEF NextIsAbsent, FeedInv
  <2>5. DrainInv => DrainInv'
    BY <2>1, <2>2, <2>3, <2>4 DEF DrainInv
  <2>6. QED
    BY <2>1, <2>4, <2>5 DEF EngineInv
<1>8. QED
  BY <1>1, <1>2, <1>3, <1>4, <1>5, <1>6, <1>7 DEF Next

(* The names of the abstract specification are those of StreamOps.         *)
LEMMA SameOperators ==
    /\ \A l, a, f, e : Abstract!PushLast(l, a, f, e) = PushLast(l, a, f, e)
    /\ \A l, a, f, e : Abstract!PushAhead(l, a, f, e) = PushAhead(l, a, f, e)
    /\ \A l, a : Abstract!GetMissing(l, a) = GetMissing(l, a)
<1>1. \A l, a, f, e : Abstract!PushLast(l, a, f, e) = PushLast(l, a, f, e)
  BY DEF PushLast, Abstract!PushLast, RunEnd, Abstract!RunEnd, ResumeAt, Abstract!ResumeAt,
         Accepted, Abstract!Accepted
<1>2. \A l, f : Abstract!Accepted(l, f) = Accepted(l, f)
  BY DEF Accepted, Abstract!Accepted
<1>3. \A l, a, f, e : Abstract!PushAhead(l, a, f, e) = PushAhead(l, a, f, e)
  BY <1>1, <1>2 DEF PushAhead, Abstract!PushAhead
<1>4. \A l, a : Abstract!GetMissing(l, a) = GetMissing(l, a)
  BY DEF GetMissing, Abstract!GetMissing
<1>5. QED
  BY <1>1, <1>3, <1>4

LEMMA AbstractInit == Init => Abstract!Init
  BY StreamConstants DEF Init, Abstract!Init, Idle, StartSeq

(* The end of the call is the abstract step, at the clock of its beginning *)
(* because time stands still while the call runs.                          *)
LEMMA EndIsEngine ==
    TypeOK /\ CallInv /\ EngineInv /\ [Next]_vars /\ EndEngine => Abstract!Engine(feed)
<1> SUFFICES ASSUME TypeOK, CallInv, EngineInv, [Next]_vars, EndEngine
             PROVE  Abstract!Engine(feed)
  OBVIOUS
<1>1. /\ pc = "drain" /\ pc' = "idle" /\ (\A c \in ahead : ~Drains(c))
      /\ UNCHANGED <<now, lastSeq, lastTime, ahead>>
  BY DEF EndEngine
<1>2. ~Idle /\ Idle'
  BY <1>1 DEF Idle
<1>3. missing' = GetMissing(lastSeq, ahead)
  <2>1. CallInv'
    BY CallStep
  <2>2. QED
    BY <1>1, <2>1 DEF CallInv, Gaps
<1>4. /\ lastSeq = PushLast(base.last, base.ahead, feed, WasLate)
      /\ ahead = PushAhead(base.last, base.ahead, feed, WasLate)
      /\ lastTime = IF lastSeq > base.last THEN now ELSE StartTime
  BY <1>1, EngineComputes DEF EngineInv
<1>5. QED
  BY <1>1, <1>2, <1>3, <1>4, SameOperators DEF Abstract!Engine, WasLate, Late, StartTime

LEMMA AbstractStep ==
    TypeOK /\ CallInv /\ EngineInv /\ [Next]_vars => [Abstract!Next]_Abstract!specVars
<1> SUFFICES ASSUME TypeOK, CallInv, EngineInv, [Next]_vars
             PROVE  [Abstract!Next]_Abstract!specVars
  OBVIOUS
<1>0. UNCHANGED maxWait
  BY DEF Next, vars
<1>1. CASE Tick
  BY <1>0, <1>1 DEF Tick, streamVars, callVars, Idle, Abstract!Next, Abstract!Tick
<1>2. CASE BeginPush
  BY <1>0, <1>2 DEF BeginPush, Idle, Abstract!specVars
<1>3. CASE FeedStep
  BY <1>0, <1>3 DEF FeedStep, PassDecreasing, PassOld, Deliver, KeepAhead, InFeedOrder,
                    FeedLoop, Idle, Abstract!specVars
<1>4. CASE EndFeed
  BY <1>0, <1>4 DEF EndFeed, Idle, Abstract!specVars
<1>5. CASE DrainAhead
  BY <1>0, <1>5 DEF DrainAhead, callVars, Idle, Abstract!specVars
<1>6. CASE EndEngine
  <2>1. Abstract!Engine(feed)
    BY <1>6, EndIsEngine
  <2>2. feed \in Feeds
    BY <1>6, EngineComputes DEF EndEngine, EngineInv
  <2>3. QED
    BY <1>0, <2>1, <2>2 DEF Abstract!Next
<1>7. CASE UNCHANGED vars
  BY <1>7 DEF vars, Idle, Abstract!specVars
<1>8. QED
  BY <1>1, <1>2, <1>3, <1>4, <1>5, <1>6, <1>7 DEF Next

(* A call of Engine, for every feed and however late, has exactly the      *)
(* effect of the one abstract step, and nothing of it is visible earlier.  *)
THEOREM StreamImplements == Spec => Refinement
<1>1. Init => CallInv
  BY DEF Init, CallInv, Gaps, GetMissing
<1>2. Spec => [](CallInv /\ EngineInv)
  BY <1>1, CallStep, EngineInit, EngineStep, TypeCorrect, PTL DEF Spec
<1>3. QED
  BY <1>2, AbstractInit, AbstractStep, TypeCorrect, PTL DEF Spec, Refinement, Abstract!Spec
-----------------------------------------------------------------------------
(* The list of lobbies.                                                    *)

(* An entry of the list.                                                   *)
Listed == [lobby : Lobbies, info : Infos, age : Nat, state : {"Fresh", "Recent", "Old"}]

(* The list of lobbies keeps its type: a stale entry is never in it.       *)
ListenerType ==
    /\ data \in Seq(Listed)
    /\ version \in Nat
    /\ lastHeard \in [Lobbies -> Infos]

(* No lobby is in the list twice. *)
ListedOnce == \A j, k \in DOMAIN data : data[j].lobby = data[k].lobby => j = k

(* The inductive invariant: ShowsLatest needs that a lobby is listed once. *)
ListenerInv == ListenerType /\ ListedOnce /\ ListenerM!ShowsLatest

LEMMA EntriesListed ==
    ASSUME ListenerType
    PROVE  \A k \in DOMAIN data : data[k] \in Listed
  BY ElementOfSeq DEF ListenerType

LEMMA StateOfType ==
    ASSUME NEW age \in Nat
    PROVE  ListenerM!StateOf(age) \in {"Fresh", "Recent", "Old", "Stale"}
  BY ListenerConstants DEF ListenerM!StateOf

LEMMA SortedSame == \A S : ListenerM!Sorted(S) = Sorted(S)
<1>1. \A S : ListenerM!Cardinality(S) = Cardinality(S)
  BY DEF ListenerM!Cardinality, Cardinality
<1> QED
  BY <1>1 DEF ListenerM!Sorted, Sorted

(* The places of the entries that stay, in increasing order. *)
Stay(who) == Sorted({k \in DOMAIN data : ListenerM!NewState(data[k], who) # "Stale"})

(* They are distinct, in the order of the list, and none is left out.      *)
LEMMA StayIs ==
    ASSUME ListenerType, NEW who
    PROVE  /\ Stay(who) \in Seq(DOMAIN data)
           /\ \A m \in DOMAIN Stay(who) : ListenerM!NewState(data[Stay(who)[m]], who) # "Stale"
           /\ \A m, n \in DOMAIN Stay(who) : m < n => Stay(who)[m] < Stay(who)[n]
           /\ \A k \in DOMAIN data : ListenerM!NewState(data[k], who) # "Stale"
                => \E m \in DOMAIN Stay(who) : Stay(who)[m] = k
           /\ (\A k \in DOMAIN data : ListenerM!NewState(data[k], who) # "Stale")
                => Stay(who) = [k \in DOMAIN data |-> k]
<1> DEFINE S == {k \in DOMAIN data : ListenerM!NewState(data[k], who) # "Stale"}
<1>1. Len(data) \in Nat /\ DOMAIN data = 1..Len(data)
  BY DEF ListenerType
<1>2. S \in SUBSET Nat /\ IsFiniteSet(S)
  <2>1. S \subseteq 1..Len(data)
    BY <1>1
  <2>2. IsFiniteSet(1..Len(data))
    BY <1>1, FS_Interval
  <2>3. QED
    BY <1>1, <2>1, <2>2, FS_Subset
<1>3. Stay(who) = Sorted(S)
  BY DEF Stay
<1>4. S \subseteq DOMAIN data /\ \A k \in S : ListenerM!NewState(data[k], who) # "Stale"
  OBVIOUS
<1>5. \A k \in DOMAIN data : ListenerM!NewState(data[k], who) # "Stale" => k \in S
  OBVIOUS
<1>6. ASSUME \A k \in DOMAIN data : ListenerM!NewState(data[k], who) # "Stale"
      PROVE  Sorted(S) = [k \in DOMAIN data |-> k]
  <2>1. S = (0 + 1)..Len(data)
    BY <1>1, <1>6
  <2>2. Sorted((0 + 1)..Len(data)) = [k \in 1..(Len(data) - 0) |-> 0 + k]
    BY <1>1, SortedInterval
  <2>3. [k \in 1..(Len(data) - 0) |-> 0 + k] = [k \in DOMAIN data |-> k]
    BY <1>1
  <2>4. QED
    BY <2>1, <2>2, <2>3
<1> HIDE DEF S
<1>7. /\ Sorted(S) \in Seq(S)
      /\ ToSet(Sorted(S)) = S
      /\ \A j, k \in DOMAIN Sorted(S) : j < k => Sorted(S)[j] < Sorted(S)[k]
  BY <1>2, SortedLists
<1>8. Sorted(S) \in Seq(DOMAIN data)
  BY <1>4, <1>7, SeqSubset
<1>9. \A m \in DOMAIN Sorted(S) : Sorted(S)[m] \in S
  BY <1>7 DEF ToSet
<1>10. \A k \in S : \E m \in DOMAIN Sorted(S) : Sorted(S)[m] = k
  BY <1>7 DEF ToSet
<1>11. QED
  BY <1>3, <1>4, <1>5, <1>6, <1>7, <1>8, <1>9, <1>10

(* The walk keeps the entries at those places, with these contents.        *)
LEMMA WalkIs ==
    ASSUME ListenerType, NEW who \in SUBSET Lobbies, NEW info \in Infos
    PROVE  LET w == ListenerM!Walk(who, info)
           IN /\ w.list = [m \in DOMAIN Stay(who) |-> ListenerM!Visited(Stay(who)[m], who, info)]
              /\ w.list \in Seq(Listed)
              /\ w.found <=> \E k \in DOMAIN data : data[k].lobby \in who
              /\ w.changed <=> \E k \in DOMAIN data : ListenerM!Changes(data[k], who, info)
<1> DEFINE w == ListenerM!Walk(who, info)
<1>1. /\ w.list = [m \in DOMAIN Stay(who) |-> ListenerM!Visited(Stay(who)[m], who, info)]
      /\ w.found <=> \E k \in DOMAIN data : data[k].lobby \in who
      /\ w.changed <=> \E k \in DOMAIN data : ListenerM!Changes(data[k], who, info)
  <2> DEFINE kept == ListenerM!Sorted({k \in DOMAIN data : ListenerM!NewState(data[k], who) # "Stale"})
  <2>1. kept = Stay(who)
    BY SortedSame DEF Stay
  <2>2. w = [list |-> [m \in DOMAIN kept |-> ListenerM!Visited(kept[m], who, info)],
             found |-> \E k \in DOMAIN data : data[k].lobby \in who,
             changed |-> \E k \in DOMAIN data : ListenerM!Changes(data[k], who, info)]
    BY DEF ListenerM!Walk
  <2> HIDE DEF kept, w
  <2>3. w.list = [m \in DOMAIN kept |-> ListenerM!Visited(kept[m], who, info)]
    BY <2>2
  <2>4. w.found <=> \E k \in DOMAIN data : data[k].lobby \in who
    BY <2>2
  <2>5. w.changed <=> \E k \in DOMAIN data : ListenerM!Changes(data[k], who, info)
    BY <2>2
  <2>6. QED
    BY <2>1, <2>3, <2>4, <2>5
<1>2. \A k \in DOMAIN data : data[k] \in Listed
  BY EntriesListed
<1>3. ASSUME NEW k \in DOMAIN data, ListenerM!NewState(data[k], who) # "Stale"
      PROVE  ListenerM!Visited(k, who, info) \in Listed
  <2>1. ListenerM!NewState(data[k], who) \in {"Fresh", "Recent", "Old"}
    BY <1>2, <1>3, StateOfType DEF ListenerM!NewState, Listed
  <2>2. QED
    BY <1>2, <2>1 DEF ListenerM!Visited, ListenerM!Entry, Listed
<1>4. /\ \A m \in DOMAIN Stay(who) : /\ Stay(who)[m] \in DOMAIN data
                                     /\ ListenerM!NewState(data[Stay(who)[m]], who) # "Stale"
      /\ DOMAIN Stay(who) = 1..Len(Stay(who)) /\ Len(Stay(who)) \in Nat
  BY StayIs
<1> HIDE DEF w
<1>5. w.list \in [1..Len(Stay(who)) -> Listed]
  BY <1>1, <1>3, <1>4
<1>6. w.list \in Seq(Listed)
  BY <1>4, <1>5, SeqDef
<1>7. QED
  BY <1>1, <1>6 DEF w

(* An entry after the walk is that of the same lobby before.               *)
LEMMA WalkKeeps ==
    ASSUME ListenerInv, NEW who \in SUBSET Lobbies, NEW info \in Infos
    PROVE  LET list == ListenerM!Walk(who, info).list
           IN /\ \A j, k \in DOMAIN list : list[j].lobby = list[k].lobby => j = k
              /\ \A m \in DOMAIN list : \E k \in DOMAIN data :
                   /\ list[m].lobby = data[k].lobby
                   /\ list[m].info = IF data[k].lobby \in who /\ ~ListenerM!ChangesBefore(k, who, info)
                                     THEN info ELSE data[k].info
<1> DEFINE list == ListenerM!Walk(who, info).list
           stay == Stay(who)
<1>1. list = [m \in DOMAIN stay |-> ListenerM!Visited(stay[m], who, info)]
  BY WalkIs DEF ListenerInv
<1>2. \A m \in DOMAIN stay : stay[m] \in DOMAIN data
  BY StayIs DEF ListenerInv
<1>3. \A m, n \in DOMAIN stay : m < n => stay[m] < stay[n]
  BY StayIs DEF ListenerInv
<1>4. DOMAIN stay = 1..Len(stay) /\ Len(stay) \in Nat /\ DOMAIN data = 1..Len(data) /\ Len(data) \in Nat
  BY StayIs DEF ListenerInv, ListenerType
<1> HIDE DEF list, stay
<1>5. ASSUME NEW k \in DOMAIN data
      PROVE  /\ ListenerM!Visited(k, who, info).lobby = data[k].lobby
             /\ ListenerM!Visited(k, who, info).info
                  = IF data[k].lobby \in who /\ ~ListenerM!ChangesBefore(k, who, info)
                    THEN info ELSE data[k].info
  <2>1. data[k] \in Listed
    BY EntriesListed DEF ListenerInv
  <2>2. QED
    BY <2>1 DEF ListenerM!Visited, ListenerM!Entry, Listed
<1>6. ASSUME NEW j \in DOMAIN list, NEW k \in DOMAIN list, list[j].lobby = list[k].lobby
      PROVE  j = k
  <2>1. j \in DOMAIN stay /\ k \in DOMAIN stay /\ j \in Nat /\ k \in Nat
    BY <1>1, <1>4
  <2>2. data[stay[j]].lobby = data[stay[k]].lobby
    BY <1>1, <1>2, <1>5, <1>6, <2>1
  <2>3. stay[j] = stay[k] /\ stay[j] \in Nat
    BY <1>2, <1>4, <2>1, <2>2 DEF ListenerInv, ListedOnce
  <2>4. ~(j < k) /\ ~(k < j)
    BY <1>3, <2>1, <2>3
  <2>5. QED
    BY <2>1, <2>4
<1>7. QED
  BY <1>1, <1>2, <1>5, <1>6 DEF list

LEMMA ListenerInit == ListenerM!Init => ListenerInv
<1> SUFFICES ASSUME ListenerM!Init PROVE ListenerInv
  OBVIOUS
<1>1. data = << >> /\ version = 0 /\ lastHeard = [l \in Lobbies |-> CHOOSE x \in Infos : TRUE]
  BY DEF ListenerM!Init
<1>2. data \in Seq(Listed) /\ DOMAIN data = {}
  BY <1>1
<1>3. (CHOOSE x \in Infos : TRUE) \in Infos
  BY ListenerConstants
<1>4. QED
  BY <1>1, <1>2, <1>3 DEF ListenerInv, ListenerType, ListedOnce, ListenerM!ShowsLatest

(* Time passes in every entry at once: what the list shows is unchanged.   *)
LEMMA TickStep ==
    ASSUME ListenerType, ListenerM!Tick
    PROVE  /\ ListenerType'
           /\ DOMAIN data' = DOMAIN data
           /\ \A k \in DOMAIN data : /\ data'[k].lobby = data[k].lobby
                                    /\ data'[k].info = data[k].info
                                    /\ data'[k].state = data[k].state
<1>1. DOMAIN data = 1..Len(data) /\ Len(data) \in Nat
  BY DEF ListenerType
<1>2. data' = [k \in DOMAIN data |->
                 IF data[k].age < ListenerM!MaxAge THEN [data[k] EXCEPT !.age = @ + 1] ELSE data[k]]
      /\ UNCHANGED <<version, lastHeard>>
  BY DEF ListenerM!Tick
<1>3. ASSUME NEW k \in DOMAIN data
      PROVE  /\ data'[k] \in Listed
             /\ data'[k].lobby = data[k].lobby
             /\ data'[k].info = data[k].info
             /\ data'[k].state = data[k].state
  <2>1. data[k] \in Listed
    BY EntriesListed
  <2>2. data'[k] = data[k] \/ data'[k] = [data[k] EXCEPT !.age = data[k].age + 1]
    BY <1>2
  <2>3. QED
    BY <2>1, <2>2 DEF Listed
<1>4. data' \in [1..Len(data) -> Listed]
  BY <1>1, <1>2, <1>3
<1>5. data' \in Seq(Listed)
  BY <1>1, <1>4, SeqDef
<1>6. QED
  BY <1>2, <1>3, <1>5 DEF ListenerType

(* What a Setup and a Refresh make of the list. *)
LEMMA SetupStep ==
    ASSUME ListenerInv, NEW l \in Lobbies, NEW info \in Infos, ListenerM!HandleSetup(l, info)
    PROVE  ListenerInv'
<1> DEFINE w == ListenerM!Walk({l}, info)
           new == ListenerM!Entry(l, info, 0, "Fresh")
<1>1. /\ w.list \in Seq(Listed)
      /\ w.found <=> \E k \in DOMAIN data : data[k].lobby = l
  <2>1. /\ w.list \in Seq(Listed)
        /\ w.found <=> \E k \in DOMAIN data : data[k].lobby \in {l}
    BY WalkIs DEF ListenerInv
  <2> HIDE DEF w
  <2>2. QED
    BY <2>1
<1>2. /\ \A j, k \in DOMAIN w.list : w.list[j].lobby = w.list[k].lobby => j = k
      /\ \A m \in DOMAIN w.list : \E k \in DOMAIN data :
           /\ w.list[m].lobby = data[k].lobby
           /\ w.list[m].info = IF data[k].lobby = l /\ ~ListenerM!ChangesBefore(k, {l}, info)
                               THEN info ELSE data[k].info
  BY WalkKeeps
<1>3. IF w.found THEN data' = w.list ELSE data' = Append(w.list, new)
  BY DEF ListenerM!HandleSetup, ListenerM!Update
<1>4. version' \in Nat
  BY DEF ListenerM!HandleSetup, ListenerM!Update, ListenerInv, ListenerType
<1>5. /\ lastHeard' = [lastHeard EXCEPT ![l] = info]
      /\ lastHeard' \in [Lobbies -> Infos]
  BY DEF ListenerM!HandleSetup, ListenerInv, ListenerType
<1>6. new \in Listed /\ new.lobby = l /\ new.info = info
  BY DEF ListenerM!Entry, Listed
<1>7. ASSUME NEW k \in DOMAIN data, data[k].lobby = l, ListenerM!ChangesBefore(k, {l}, info)
      PROVE  l \in overtaken'
  <2>1. PICK j \in 1..(k - 1) : ListenerM!Changes(data[j], {l}, info)
    BY <1>7 DEF ListenerM!ChangesBefore
  <2>2. j \in DOMAIN data /\ j < k
    BY DEF ListenerInv, ListenerType
  <2>3. data[j].lobby # l
    BY <1>7, <2>2 DEF ListenerInv, ListedOnce
  <2>4. data[j].state # "Stale"
    BY <2>2, EntriesListed DEF ListenerInv, Listed
  <2>5. ListenerM!StateOf(data[j].age) # data[j].state
    BY <2>1, <2>3, <2>4 DEF ListenerM!Changes, ListenerM!NewState
  <2>6. QED
    BY <1>7, <2>2, <2>5 DEF ListenerM!HandleSetup
<1>8. \A l2 \in overtaken : l2 # l => l2 \in overtaken'
  BY DEF ListenerM!HandleSetup
<1>9. ASSUME NEW m \in DOMAIN w.list
      PROVE  w.list[m].info = lastHeard'[w.list[m].lobby] \/ w.list[m].lobby \in overtaken'
  <2>1. PICK k \in DOMAIN data :
           /\ w.list[m].lobby = data[k].lobby
           /\ w.list[m].info = IF data[k].lobby = l /\ ~ListenerM!ChangesBefore(k, {l}, info)
                               THEN info ELSE data[k].info
    BY <1>2
  <2>2. data[k].lobby \in Lobbies
    BY EntriesListed DEF ListenerInv, Listed
  <2>3. lastHeard' = [lastHeard EXCEPT ![l] = info] /\ lastHeard \in [Lobbies -> Infos]
    BY <1>5 DEF ListenerInv, ListenerType
  <2>4. data[k].info = lastHeard[data[k].lobby] \/ data[k].lobby \in overtaken
    BY DEF ListenerInv, ListenerM!ShowsLatest
  <2>5. CASE data[k].lobby = l /\ ListenerM!ChangesBefore(k, {l}, info)
    BY <1>7, <2>1, <2>5
  <2>6. CASE data[k].lobby = l /\ ~ListenerM!ChangesBefore(k, {l}, info)
    BY <2>1, <2>3, <2>6
  <2>7. CASE data[k].lobby # l
    BY <1>8, <2>1, <2>2, <2>3, <2>4, <2>7
  <2>8. QED
    BY <2>5, <2>6, <2>7
<1> HIDE DEF w, new
<1>10. CASE w.found
  <2>1. data' = w.list
    BY <1>3, <1>10
  <2>2. QED
    BY <1>1, <1>2, <1>4, <1>5, <1>9, <2>1
       DEF ListenerInv, ListenerType, ListedOnce, ListenerM!ShowsLatest
<1>11. CASE ~w.found
  <2> DEFINE n == Len(w.list)
  <2>1. /\ n \in Nat /\ DOMAIN w.list = 1..n
        /\ data' = Append(w.list, new)
        /\ DOMAIN data' = 1..(n + 1)
        /\ data' \in Seq(Listed)
        /\ \A k \in 1..n : data'[k] = w.list[k]
        /\ data'[n + 1] = new
    BY <1>1, <1>3, <1>6, <1>11, AppendProperties
  <2>2. \A k \in 1..n : w.list[k].lobby # l
    BY <1>1, <1>2, <1>11, <2>1
  <2> HIDE DEF n
  <2>3. \A k \in 1..(n + 1) : k \in 1..n \/ k = n + 1
    BY <2>1
  <2>4. ListedOnce'
    BY <1>2, <1>6, <2>1, <2>2, <2>3 DEF ListedOnce
  <2>5. lastHeard'[l] = info
    BY <1>5 DEF ListenerInv, ListenerType
  <2>6. \A k \in 1..(n + 1) : data'[k].info = lastHeard'[data'[k].lobby] \/ data'[k].lobby \in overtaken'
    BY <1>6, <1>9, <2>1, <2>3, <2>5
  <2>7. QED
    BY <1>4, <1>5, <2>1, <2>4, <2>6 DEF ListenerInv, ListenerType, ListenerM!ShowsLatest
<1>12. QED
  BY <1>10, <1>11

LEMMA RefreshStep ==
    ASSUME ListenerInv, ListenerM!Refresh
    PROVE  ListenerInv'
<1> DEFINE x == CHOOSE y \in Infos : TRUE
           w == ListenerM!Walk({}, x)
<1>1. x \in Infos
  BY ListenerConstants
<1>2. data' = w.list /\ UNCHANGED <<lastHeard, overtaken>> /\ version' \in Nat
  BY DEF ListenerM!Refresh, ListenerM!Update, ListenerInv, ListenerType
<1> HIDE DEF x
<1>3. w.list \in Seq(Listed)
  BY <1>1, WalkIs DEF ListenerInv
<1>4. /\ \A j, k \in DOMAIN w.list : w.list[j].lobby = w.list[k].lobby => j = k
      /\ \A m \in DOMAIN w.list : \E k \in DOMAIN data :
           w.list[m].lobby = data[k].lobby /\ w.list[m].info = data[k].info
  BY <1>1, WalkKeeps
<1> HIDE DEF w
<1>5. ListenerType'
  BY <1>2, <1>3 DEF ListenerInv, ListenerType
<1>6. ListedOnce'
  BY <1>2, <1>4 DEF ListedOnce
<1>7. ListenerM!ShowsLatest'
  <2>1. \A k \in DOMAIN data : data[k].info = lastHeard[data[k].lobby] \/ data[k].lobby \in overtaken
    BY DEF ListenerInv, ListenerM!ShowsLatest
  <2>2. \A m \in DOMAIN w.list :
           w.list[m].info = lastHeard[w.list[m].lobby] \/ w.list[m].lobby \in overtaken
    BY <1>4, <2>1
  <2>3. QED
    BY <1>2, <2>2 DEF ListenerM!ShowsLatest
<1>8. QED
  BY <1>5, <1>6, <1>7 DEF ListenerInv

LEMMA ListenerStep == ListenerInv /\ [ListenerM!Next]_(ListenerM!vars) => ListenerInv'
<1> SUFFICES ASSUME ListenerInv, [ListenerM!Next]_(ListenerM!vars) PROVE ListenerInv'
  OBVIOUS
<1>1. ASSUME ListenerM!Tick PROVE ListenerInv'
  <2>1. UNCHANGED <<lastHeard, overtaken>>
    BY <1>1 DEF ListenerM!Tick
  <2>2. QED
    BY <1>1, <2>1, TickStep DEF ListenerInv, ListedOnce, ListenerM!ShowsLatest
<1>2. ASSUME NEW l \in Lobbies, NEW info \in Infos, ListenerM!HandleSetup(l, info) PROVE ListenerInv'
  BY <1>2, SetupStep
<1>3. CASE UNCHANGED ListenerM!vars
  BY <1>3 DEF ListenerM!vars, ListenerInv, ListenerType, ListedOnce, ListenerM!ShowsLatest
<1>4. QED
  BY <1>1, <1>2, <1>3, RefreshStep DEF ListenerM!Next

(* A walk in which nothing changes leaves every entry as it was, but for   *)
(* its age.                                                                *)
LEMMA QuietWalk ==
    ASSUME ListenerType, NEW who \in SUBSET Lobbies, NEW info \in Infos,
           \A k \in DOMAIN data : ~ListenerM!Changes(data[k], who, info)
    PROVE  LET list == ListenerM!Walk(who, info).list
           IN /\ DOMAIN list = DOMAIN data
              /\ \A k \in DOMAIN data : /\ list[k].lobby = data[k].lobby
                                       /\ list[k].info = data[k].info
                                       /\ list[k].state = data[k].state
<1> DEFINE list == ListenerM!Walk(who, info).list
<1>1. ASSUME NEW k \in DOMAIN data
      PROVE  /\ ListenerM!NewState(data[k], who) = data[k].state
             /\ ListenerM!NewState(data[k], who) # "Stale"
             /\ data[k].lobby \in who => data[k].info = info
  BY DEF ListenerM!Changes
<1>2. Stay(who) = [k \in DOMAIN data |-> k]
  BY <1>1, StayIs
<1>3. list = [m \in DOMAIN Stay(who) |-> ListenerM!Visited(Stay(who)[m], who, info)]
  BY WalkIs
<1>4. list = [k \in DOMAIN data |-> ListenerM!Visited(k, who, info)]
  BY <1>2, <1>3
<1>5. ASSUME NEW k \in DOMAIN data
      PROVE  /\ ListenerM!Visited(k, who, info).lobby = data[k].lobby
             /\ ListenerM!Visited(k, who, info).info = data[k].info
             /\ ListenerM!Visited(k, who, info).state = data[k].state
  <2>1. data[k] \in Listed
    BY EntriesListed
  <2>2. CASE data[k].lobby \notin who
    BY <1>1, <2>1, <2>2 DEF ListenerM!Visited, Listed
  <2>3. CASE data[k].lobby \in who
    <3>1. data[k].info = info /\ data[k].state = "Fresh"
      BY <1>1, <2>3 DEF ListenerM!NewState
    <3>2. QED
      BY <2>3, <3>1 DEF ListenerM!Visited, ListenerM!Entry
  <2>4. QED
    BY <2>2, <2>3
<1> HIDE DEF list
<1>6. QED
  BY <1>4, <1>5 DEF list

(* Under an unchanged version no walk changed, added or cut out an entry.  *)
LEMMA VersionStep ==
    ListenerType /\ [ListenerM!Next]_(ListenerM!vars)
        => (ListenerM!List' # ListenerM!List => version' # version)
<1> SUFFICES ASSUME ListenerType, [ListenerM!Next]_(ListenerM!vars), version' = version
             PROVE  ListenerM!List' = ListenerM!List
  OBVIOUS
<1>1. SUFFICES /\ DOMAIN data' = DOMAIN data
               /\ \A k \in DOMAIN data : /\ data'[k].lobby = data[k].lobby
                                        /\ data'[k].info = data[k].info
                                        /\ data'[k].state = data[k].state
  BY DEF ListenerM!List
<1>2. version \in Nat /\ version + 1 # version
  BY DEF ListenerType
<1>3. ASSUME NEW l \in Lobbies, NEW info \in Infos, ListenerM!HandleSetup(l, info)
      PROVE  /\ data' = ListenerM!Walk({l}, info).list
             /\ \A k \in DOMAIN data : ~ListenerM!Changes(data[k], {l}, info)
  <2> DEFINE w == ListenerM!Walk({l}, info)
  <2>1. w.found /\ ~w.changed /\ data' = w.list
    BY <1>2, <1>3 DEF ListenerM!HandleSetup, ListenerM!Update
  <2>2. w.changed <=> \E k \in DOMAIN data : ListenerM!Changes(data[k], {l}, info)
    BY WalkIs
  <2> HIDE DEF w
  <2>3. QED
    BY <2>1, <2>2 DEF w
<1>4. ASSUME ListenerM!Refresh
      PROVE  \E x \in Infos :
               /\ data' = ListenerM!Walk({}, x).list
               /\ \A k \in DOMAIN data : ~ListenerM!Changes(data[k], {}, x)
  <2> DEFINE x == CHOOSE y \in Infos : TRUE
             w == ListenerM!Walk({}, x)
  <2>1. ~w.changed /\ data' = w.list
    BY <1>2, <1>4 DEF ListenerM!Refresh, ListenerM!Update
  <2>2. x \in Infos
    BY ListenerConstants
  <2> HIDE DEF x
  <2>3. w.changed <=> \E k \in DOMAIN data : ListenerM!Changes(data[k], {}, x)
    BY <2>2, WalkIs
  <2> HIDE DEF w
  <2>4. QED
    BY <2>1, <2>2, <2>3 DEF w
<1>5. CASE ListenerM!Tick
  BY <1>5, TickStep
<1>6. CASE \E l \in Lobbies, info \in Infos : ListenerM!HandleSetup(l, info)
  <2>1. PICK l \in Lobbies, info \in Infos : ListenerM!HandleSetup(l, info)
    BY <1>6
  <2>2. /\ data' = ListenerM!Walk({l}, info).list
        /\ \A k \in DOMAIN data : ~ListenerM!Changes(data[k], {l}, info)
    BY <1>3, <2>1
  <2> DEFINE who == {l}
  <2>3. who \in SUBSET Lobbies
    OBVIOUS
  <2> HIDE DEF who
  <2>4. /\ data' = ListenerM!Walk(who, info).list
        /\ \A k \in DOMAIN data : ~ListenerM!Changes(data[k], who, info)
    BY <2>2 DEF who
  <2>5. QED
    BY <2>3, <2>4, QuietWalk
<1>7. CASE ListenerM!Refresh
  BY <1>4, <1>7, QuietWalk
<1>8. CASE UNCHANGED ListenerM!vars
  BY <1>8 DEF ListenerM!vars
<1>9. QED
  BY <1>5, <1>6, <1>7, <1>8 DEF ListenerM!Next

LEMMA ListenerPart == StructuresSpec => ListenerM!Spec
<1>1. StructuresInit => ListenerM!Init
  BY DEF StructuresInit
<1>2. [StructuresNext]_<<part, structureVars>> => [ListenerM!Next]_(ListenerM!vars)
  BY DEF StructuresNext, structureVars, listenerVars, ListenerM!vars
<1> QED
  BY <1>1, <1>2, PTL DEF StructuresSpec, ListenerM!Spec

LEMMA ListenerCorrect == StructuresSpec => []ListenerInv
<1> QED
  BY ListenerInit, ListenerStep, ListenerPart, PTL DEF ListenerM!Spec

(* The list shows of every lobby what its last Setup said, unless an older *)
(* entry changed in the same walk (see ShowsLatest): whatever the order of *)
(* Setups, refreshes and removals, no lobby is listed twice and no entry   *)
(* goes back to what an earlier Setup said.                                *)
THEOREM ListShowsLatest == StructuresSpec => []ShowsLatest
<1>1. ListenerInv => ShowsLatest
  BY DEF ListenerInv, ShowsLatest
<1> QED
  BY <1>1, ListenerCorrect, PTL

(* A caller that kept a version learns of every change of the list: no     *)
(* step changes what the list shows under the same version.                *)
THEOREM VersionTellsChanges == StructuresSpec => VersionTells
<1>1. ListenerInv => ListenerType
  BY DEF ListenerInv
<1> QED
  BY <1>1, ListenerCorrect, VersionStep, ListenerPart, PTL
     DEF VersionTells, ListenerM!VersionTells, ListenerM!Spec
-----------------------------------------------------------------------------
(* The range set.                                                          *)

(* A node is a range of numbers; the lists below are of nodes.             *)
Node == [from : Int, to : Int]

LEMMA MinMaxSame ==
    /\ \A S : RangeSetM!Min(S) = Min(S)
    /\ \A S : RangeSetM!Max(S) = Max(S)
  BY DEF RangeSetM!Min, RangeSetM!Max, Min, Max

(* A spliced list: the nodes below the place, those put in, the nodes      *)
(* above it.                                                               *)
LEMMA SpliceIs ==
    ASSUME NEW rs \in Seq(Node), NEW mid \in Seq(Node),
           NEW k \in 1..(Len(rs) + 1), NEW m \in (k - 1)..Len(rs)
    PROVE  LET s == RangeSetM!Splice(rs, k, m, mid)
               n == Len(mid)
           IN /\ s \in Seq(Node)
              /\ Len(s) = (k - 1) + n + (Len(rs) - m)
              /\ \A j \in 1..(k - 1) : s[j] = rs[j]
              /\ \A j \in 1..n : s[(k - 1) + j] = mid[j]
              /\ \A j \in (m + 1)..Len(rs) : s[(k - 1) + n + (j - m)] = rs[j]
<1> DEFINE L == Len(rs)
           n == Len(mid)
           A == SubSeq(rs, 1, k - 1)
           B == SubSeq(rs, m + 1, L)
           s == RangeSetM!Splice(rs, k, m, mid)
<1>1. L \in Nat /\ n \in Nat /\ k \in Int /\ m \in Int /\ k - 1 >= 0 /\ k - 1 <= L /\ m <= L /\ k - 1 <= m
  OBVIOUS
<1>2. \A j \in 1..L : rs[j] \in Node
  BY ElementOfSeq
<1>3. /\ A \in Seq(Node) /\ Len(A) = k - 1
      /\ \A j \in 1..(k - 1) : A[j] = rs[j]
  <2>1. \A j \in 1..(k - 1) : rs[j] \in Node
    BY <1>1, <1>2
  <2>2. /\ A \in Seq(Node)
        /\ Len(A) = IF 1 <= k - 1 THEN (k - 1) - 1 + 1 ELSE 0
        /\ \A j \in 1..((k - 1) - 1 + 1) : A[j] = rs[1 + j - 1]
    BY <1>1, <2>1, SubSeqProperties
  <2> HIDE DEF A
  <2>3. QED
    BY <1>1, <2>2
<1>4. /\ B \in Seq(Node) /\ Len(B) = L - m
      /\ \A j \in (m + 1)..L : B[j - m] = rs[j]
  <2>1. \A j \in (m + 1)..L : rs[j] \in Node
    BY <1>1, <1>2
  <2>2. /\ B \in Seq(Node)
        /\ Len(B) = IF m + 1 <= L THEN L - (m + 1) + 1 ELSE 0
        /\ \A j \in 1..(L - (m + 1) + 1) : B[j] = rs[(m + 1) + j - 1]
    BY <1>1, <2>1, SubSeqProperties
  <2> HIDE DEF B, L
  <2>3. ASSUME NEW j \in (m + 1)..L PROVE B[j - m] = rs[j]
    <3>1. j - m \in 1..(L - (m + 1) + 1) /\ (m + 1) + (j - m) - 1 = j
      BY <1>1
    <3>2. QED
      BY <2>2, <3>1
  <2>4. QED
    BY <1>1, <2>2, <2>3
<1>5. s = (A \o mid) \o B
  BY DEF RangeSetM!Splice
<1> HIDE DEF s, A, B, L
<1>6. /\ A \o mid \in Seq(Node) /\ Len(A \o mid) = (k - 1) + n
      /\ \A j \in 1..((k - 1) + n) : (A \o mid)[j] = IF j <= k - 1 THEN A[j] ELSE mid[j - (k - 1)]
  <2>1. /\ A \o mid \in Seq(Node) /\ Len(A \o mid) = Len(A) + Len(mid)
        /\ \A j \in 1..(Len(A) + Len(mid)) :
             (A \o mid)[j] = IF j <= Len(A) THEN A[j] ELSE mid[j - Len(A)]
    BY <1>3, ConcatProperties
  <2>2. Len(A) = k - 1
    BY <1>3
  <2>3. QED
    BY <2>1, <2>2
<1> HIDE DEF n
<1>7. /\ s \in Seq(Node) /\ Len(s) = (k - 1) + n + (L - m)
      /\ \A j \in 1..((k - 1) + n + (L - m)) :
           s[j] = IF j <= (k - 1) + n THEN (A \o mid)[j] ELSE B[j - ((k - 1) + n)]
  <2> DEFINE C == A \o mid
  <2>1. C \in Seq(Node) /\ Len(C) = (k - 1) + n
    BY <1>6
  <2>2. s = C \o B
    BY <1>5
  <2> HIDE DEF C
  <2>3. /\ C \o B \in Seq(Node) /\ Len(C \o B) = Len(C) + Len(B)
        /\ \A j \in 1..(Len(C) + Len(B)) :
             (C \o B)[j] = IF j <= Len(C) THEN C[j] ELSE B[j - Len(C)]
    BY <1>4, <2>1, ConcatProperties
  <2>4. Len(B) = L - m
    BY <1>4
  <2>5. QED
    BY <2>1, <2>2, <2>3, <2>4 DEF C
<1>8. ASSUME NEW j \in 1..(k - 1) PROVE s[j] = rs[j]
  <2>1. j \in 1..((k - 1) + n) /\ j \in 1..((k - 1) + n + (L - m)) /\ j <= k - 1 /\ j <= (k - 1) + n
    BY <1>1
  <2>2. QED
    BY <1>3, <1>6, <1>7, <2>1
<1>9. ASSUME NEW j \in 1..n PROVE s[(k - 1) + j] = mid[j]
  <2>1. (k - 1) + j \in 1..((k - 1) + n) /\ ~((k - 1) + j <= k - 1) /\ ((k - 1) + j) - (k - 1) = j
        /\ (k - 1) + j \in 1..((k - 1) + n + (L - m)) /\ (k - 1) + j <= (k - 1) + n
    BY <1>1
  <2>2. QED
    BY <1>6, <1>7, <2>1
<1>10. ASSUME NEW j \in (m + 1)..L PROVE s[(k - 1) + n + (j - m)] = rs[j]
  <2> DEFINE p == (k - 1) + n + (j - m)
  <2>1. p \in 1..((k - 1) + n + (L - m)) /\ ~(p <= (k - 1) + n) /\ p - ((k - 1) + n) = j - m
    BY <1>1
  <2> HIDE DEF p
  <2>2. QED
    BY <1>4, <1>7, <2>1 DEF p
<1>11. QED
  BY <1>7, <1>8, <1>9, <1>10 DEF s, n, L

(* Where each of its nodes comes from. *)
LEMMA SpliceForms ==
    ASSUME NEW rs \in Seq(Node), NEW mid \in Seq(Node),
           NEW k \in 1..(Len(rs) + 1), NEW m \in (k - 1)..Len(rs)
    PROVE  LET s == RangeSetM!Splice(rs, k, m, mid)
               n == Len(mid)
               shift == m - ((k - 1) + n)
           IN /\ s \in Seq(Node)
              /\ \A p \in DOMAIN s :
                   \/ p <= k - 1 /\ p \in 1..(k - 1) /\ s[p] = rs[p]
                   \/ /\ k - 1 < p /\ p <= (k - 1) + n
                      /\ p - (k - 1) \in 1..n /\ s[p] = mid[p - (k - 1)]
                   \/ /\ (k - 1) + n < p
                      /\ p + shift \in (m + 1)..Len(rs) /\ s[p] = rs[p + shift]
              /\ \A j \in 1..(k - 1) : \E p \in DOMAIN s : s[p] = rs[j]
              /\ \A j \in 1..n : \E p \in DOMAIN s : s[p] = mid[j]
              /\ \A j \in (m + 1)..Len(rs) : \E p \in DOMAIN s : s[p] = rs[j]
<1> DEFINE s == RangeSetM!Splice(rs, k, m, mid)
           n == Len(mid)
           L == Len(rs)
           shift == m - ((k - 1) + n)
<1>1. L \in Nat /\ n \in Nat /\ k \in Int /\ m \in Int /\ k - 1 >= 0 /\ k - 1 <= L /\ m <= L /\ k - 1 <= m
  OBVIOUS
<1>2. /\ s \in Seq(Node)
      /\ Len(s) = (k - 1) + n + (L - m)
      /\ \A j \in 1..(k - 1) : s[j] = rs[j]
      /\ \A j \in 1..n : s[(k - 1) + j] = mid[j]
      /\ \A j \in (m + 1)..L : s[(k - 1) + n + (j - m)] = rs[j]
  BY SpliceIs
<1> HIDE DEF s, n, L
<1>3. DOMAIN s = 1..((k - 1) + n + (L - m))
  BY <1>2
<1>4. ASSUME NEW p \in DOMAIN s
      PROVE  \/ p <= k - 1 /\ p \in 1..(k - 1) /\ s[p] = rs[p]
             \/ /\ k - 1 < p /\ p <= (k - 1) + n
                /\ p - (k - 1) \in 1..n /\ s[p] = mid[p - (k - 1)]
             \/ /\ (k - 1) + n < p
                /\ p + shift \in (m + 1)..L /\ s[p] = rs[p + shift]
  <2>1. p \in Int /\ 1 <= p /\ p <= (k - 1) + n + (L - m)
    BY <1>1, <1>3
  <2>2. CASE p <= k - 1
    <3>1. p \in 1..(k - 1)
      BY <1>1, <2>1, <2>2
    <3>2. QED
      BY <1>2, <2>2, <3>1
  <2>3. CASE k - 1 < p /\ p <= (k - 1) + n
    <3>1. p - (k - 1) \in 1..n /\ (k - 1) + (p - (k - 1)) = p
      BY <1>1, <2>1, <2>3
    <3>2. s[(k - 1) + (p - (k - 1))] = mid[p - (k - 1)]
      BY <1>2, <3>1
    <3>3. QED
      BY <2>3, <3>1, <3>2
  <2>4. CASE (k - 1) + n < p
    <3>1. p + shift \in (m + 1)..L /\ (k - 1) + n + ((p + shift) - m) = p
      BY <1>1, <2>1, <2>4
    <3> HIDE DEF shift
    <3>2. s[(k - 1) + n + ((p + shift) - m)] = rs[p + shift]
      BY <1>2, <3>1
    <3>3. QED
      BY <2>4, <3>1, <3>2
  <2>5. QED
    BY <1>1, <2>1, <2>2, <2>3, <2>4
<1>5. ASSUME NEW j \in 1..(k - 1) PROVE j \in DOMAIN s /\ s[j] = rs[j]
  BY <1>1, <1>2, <1>3
<1>6. ASSUME NEW j \in 1..n PROVE (k - 1) + j \in DOMAIN s /\ s[(k - 1) + j] = mid[j]
  BY <1>1, <1>2, <1>3
<1>7. ASSUME NEW j \in (m + 1)..L
      PROVE  (k - 1) + n + (j - m) \in DOMAIN s /\ s[(k - 1) + n + (j - m)] = rs[j]
  BY <1>1, <1>2, <1>3
<1>8. /\ \A j \in 1..(k - 1) : \E p \in DOMAIN s : s[p] = rs[j]
      /\ \A j \in 1..n : \E p \in DOMAIN s : s[p] = mid[j]
      /\ \A j \in (m + 1)..L : \E p \in DOMAIN s : s[p] = rs[j]
  BY <1>5, <1>6, <1>7
<1>9. QED
  BY <1>2, <1>4, <1>8 DEF s, n, L

(* It is canonical when what is put in is, and lies between its neighbours *)
(* without touching them.                                                  *)
LEMMA SpliceCanonical ==
    ASSUME NEW rs \in Seq(Node), NEW mid \in Seq(Node),
           NEW k \in 1..(Len(rs) + 1), NEW m \in (k - 1)..Len(rs),
           RangeSetM!IsCanonical(rs), RangeSetM!IsCanonical(mid),
           \A j \in 1..(k - 1), t \in 1..Len(mid) : rs[j].to + 1 < mid[t].from,
           \A t \in 1..Len(mid), j \in (m + 1)..Len(rs) : mid[t].to + 1 < rs[j].from
    PROVE  RangeSetM!IsCanonical(RangeSetM!Splice(rs, k, m, mid))
<1> DEFINE s == RangeSetM!Splice(rs, k, m, mid)
           n == Len(mid)
           L == Len(rs)
           shift == m - ((k - 1) + n)
           low(p) == p <= k - 1 /\ p \in 1..(k - 1) /\ s[p] = rs[p]
           in(p) == /\ k - 1 < p /\ p <= (k - 1) + n
                    /\ p - (k - 1) \in 1..n /\ s[p] = mid[p - (k - 1)]
           high(p) == /\ (k - 1) + n < p
                      /\ p + shift \in (m + 1)..L /\ s[p] = rs[p + shift]
<1>1. /\ L \in Nat /\ n \in Nat /\ k \in Int /\ m \in Int /\ k - 1 >= 0 /\ k - 1 <= L
      /\ m <= L /\ k - 1 <= m /\ shift \in Int
  OBVIOUS
<1>2. s \in Seq(Node) /\ \A p \in DOMAIN s : low(p) \/ in(p) \/ high(p)
  BY SpliceForms
<1>3. /\ \A j \in 1..L : rs[j] \in Node /\ rs[j].from <= rs[j].to
      /\ \A j, t \in 1..L : j < t => rs[j].to + 1 < rs[t].from
  BY ElementOfSeq DEF RangeSetM!IsCanonical
<1>4. /\ \A j \in 1..n : mid[j] \in Node /\ mid[j].from <= mid[j].to
      /\ \A j, t \in 1..n : j < t => mid[j].to + 1 < mid[t].from
  BY ElementOfSeq DEF RangeSetM!IsCanonical
<1>5. \A p \in DOMAIN s : p \in Int
  BY <1>2
<1> HIDE DEF s, n, L, shift
<1>6. ASSUME NEW p \in DOMAIN s PROVE s[p].from <= s[p].to
  <2>1. low(p) => p \in 1..L /\ s[p] = rs[p]
    BY <1>1
  <2>2. high(p) => p + shift \in 1..L /\ s[p] = rs[p + shift]
    BY <1>1
  <2>3. in(p) => p - (k - 1) \in 1..n /\ s[p] = mid[p - (k - 1)]
    OBVIOUS
  <2>4. QED
    BY <1>2, <1>3, <1>4, <2>1, <2>2, <2>3
<1>7. ASSUME NEW p \in DOMAIN s, NEW t \in DOMAIN s, p < t
      PROVE  s[p].to + 1 < s[t].from
  <2>1. p \in Int /\ t \in Int
    BY <1>5
  <2>2. CASE low(p) /\ low(t)
    <3>1. p \in 1..L /\ t \in 1..L
      BY <1>1, <2>2
    <3>2. QED
      BY <1>3, <1>7, <2>2, <3>1
  <2>3. CASE low(p) /\ in(t)
    BY <2>3 DEF n
  <2>4. CASE low(p) /\ high(t)
    <3>1. p \in 1..L /\ t + shift \in 1..L /\ p < t + shift
      BY <1>1, <2>1, <2>4
    <3>2. QED
      BY <1>3, <2>4, <3>1
  <2>5. CASE in(p) /\ in(t)
    <3>1. p - (k - 1) < t - (k - 1)
      BY <1>1, <1>7, <2>1
    <3>2. QED
      BY <1>4, <2>5, <3>1
  <2>6. CASE in(p) /\ high(t)
    BY <2>6 DEF n, L
  <2>7. CASE high(p) /\ high(t)
    <3>1. p + shift \in 1..L /\ t + shift \in 1..L /\ p + shift < t + shift
      BY <1>1, <1>7, <2>1, <2>7
    <3>2. QED
      BY <1>3, <2>7, <3>1
  <2>8. ~(low(t) /\ (in(p) \/ high(p))) /\ ~(in(t) /\ high(p))
    BY <1>1, <1>7, <2>1
  <2>9. QED
    BY <1>2, <2>2, <2>3, <2>4, <2>5, <2>6, <2>7, <2>8
<1>8. QED
  BY <1>6, <1>7 DEF RangeSetM!IsCanonical, s

(* It denotes what the nodes that stay and those put in denote.            *)
LEMMA SpliceDenotes ==
    ASSUME NEW rs \in Seq(Node), NEW mid \in Seq(Node),
           NEW k \in 1..(Len(rs) + 1), NEW m \in (k - 1)..Len(rs), NEW x
    PROVE  x \in RangeSetM!Denotes(RangeSetM!Splice(rs, k, m, mid)) <=>
             \/ \E j \in 1..(k - 1) : x \in rs[j].from..rs[j].to
             \/ x \in RangeSetM!Denotes(mid)
             \/ \E j \in (m + 1)..Len(rs) : x \in rs[j].from..rs[j].to
<1> DEFINE s == RangeSetM!Splice(rs, k, m, mid)
           shift == m - ((k - 1) + Len(mid))
<1>1. /\ \A p \in DOMAIN s :
           \/ p \in 1..(k - 1) /\ s[p] = rs[p]
           \/ p - (k - 1) \in 1..Len(mid) /\ s[p] = mid[p - (k - 1)]
           \/ p + shift \in (m + 1)..Len(rs) /\ s[p] = rs[p + shift]
      /\ \A j \in 1..(k - 1) : \E p \in DOMAIN s : s[p] = rs[j]
      /\ \A j \in 1..Len(mid) : \E p \in DOMAIN s : s[p] = mid[j]
      /\ \A j \in (m + 1)..Len(rs) : \E p \in DOMAIN s : s[p] = rs[j]
  BY SpliceForms
<1>2. DOMAIN mid = 1..Len(mid)
  OBVIOUS
<1> HIDE DEF s, shift
<1>3. x \in RangeSetM!Denotes(s) <=> \E p \in DOMAIN s : x \in s[p].from..s[p].to
  BY DEF RangeSetM!Denotes
<1>4. x \in RangeSetM!Denotes(mid) <=> \E p \in 1..Len(mid) : x \in mid[p].from..mid[p].to
  BY <1>2 DEF RangeSetM!Denotes
<1>5. ASSUME NEW p \in DOMAIN s, x \in s[p].from..s[p].to
      PROVE  \/ \E j \in 1..(k - 1) : x \in rs[j].from..rs[j].to
             \/ \E j \in 1..Len(mid) : x \in mid[j].from..mid[j].to
             \/ \E j \in (m + 1)..Len(rs) : x \in rs[j].from..rs[j].to
  BY <1>1, <1>5
<1>6. ASSUME \/ \E j \in 1..(k - 1) : x \in rs[j].from..rs[j].to
             \/ \E j \in 1..Len(mid) : x \in mid[j].from..mid[j].to
             \/ \E j \in (m + 1)..Len(rs) : x \in rs[j].from..rs[j].to
      PROVE  \E p \in DOMAIN s : x \in s[p].from..s[p].to
  BY <1>1, <1>6
<1>7. QED
  BY <1>3, <1>4, <1>5, <1>6 DEF s

(* The nodes of a canonical list are in order. *)
LEMMA CanonicalIs ==
    ASSUME NEW rs \in Seq(Node), RangeSetM!IsCanonical(rs)
    PROVE  /\ DOMAIN rs = 1..Len(rs) /\ Len(rs) \in Nat
           /\ \A j \in 1..Len(rs) : /\ rs[j] \in Node
                                   /\ rs[j].from \in Int /\ rs[j].to \in Int
                                   /\ rs[j].from <= rs[j].to
           /\ \A j, t \in 1..Len(rs) : j < t => rs[j].to + 1 < rs[t].from
           /\ \A j, t \in 1..Len(rs) : j <= t => rs[j].from <= rs[t].from /\ rs[j].to <= rs[t].to
<1>1. DOMAIN rs = 1..Len(rs) /\ Len(rs) \in Nat
  OBVIOUS
<1>2. \A j \in 1..Len(rs) : rs[j] \in Node
  BY ElementOfSeq
<1>3. \A j \in 1..Len(rs) : rs[j].from \in Int /\ rs[j].to \in Int
  BY <1>2 DEF Node
<1>4. /\ \A j \in 1..Len(rs) : rs[j].from <= rs[j].to
      /\ \A j, t \in 1..Len(rs) : j < t => rs[j].to + 1 < rs[t].from
  BY <1>1 DEF RangeSetM!IsCanonical
<1>5. ASSUME NEW j \in 1..Len(rs), NEW t \in 1..Len(rs), j <= t
      PROVE  rs[j].from <= rs[t].from /\ rs[j].to <= rs[t].to
  <2>1. CASE j = t
    BY <1>3, <2>1
  <2>2. CASE j < t
    BY <1>3, <1>4, <2>2
  <2>3. QED
    BY <1>5, <2>1, <2>2
<1>6. QED
  BY <1>1, <1>2, <1>3, <1>4, <1>5

(* A list of one node is canonical.                                        *)
LEMMA SingleIs ==
    ASSUME NEW e \in Node
    PROVE  /\ <<e>> \in Seq(Node) /\ Len(<<e>>) = 1 /\ <<e>>[1] = e
           /\ e.from <= e.to => RangeSetM!IsCanonical(<<e>>)
           /\ \A x : x \in RangeSetM!Denotes(<<e>>) <=> x \in e.from..e.to
<1>1. <<e>> \in Seq(Node) /\ Len(<<e>>) = 1 /\ <<e>>[1] = e /\ DOMAIN <<e>> = {1}
  OBVIOUS
<1> DEFINE s == <<e>>
<1> HIDE DEF s
<1>2. s \in Seq(Node) /\ Len(s) = 1 /\ s[1] = e /\ DOMAIN s = {1}
  BY <1>1 DEF s
<1>3. e.from <= e.to => RangeSetM!IsCanonical(s)
  BY <1>2 DEF RangeSetM!IsCanonical
<1>4. \A x : x \in RangeSetM!Denotes(s) <=> x \in e.from..e.to
  BY <1>2 DEF RangeSetM!Denotes
<1>5. QED
  BY <1>2, <1>3, <1>4 DEF s

LEMMA EmptyIs ==
    /\ << >> \in Seq(Node)
    /\ RangeSetM!IsCanonical(<< >>)
    /\ \A x : x \notin RangeSetM!Denotes(<< >>)
  BY DEF RangeSetM!IsCanonical, RangeSetM!Denotes

(* Where union's loops stop. *)
LEMMA FirstReachedIs ==
    ASSUME NEW rs \in Seq(Node), NEW q \in Node
    PROVE  LET k == RangeSetM!FirstReached(rs, q)
           IN /\ k \in 1..(Len(rs) + 1)
              /\ k <= Len(rs) => q.from <= rs[k].to + 1
              /\ \A j \in 1..(k - 1) : ~(q.from <= rs[j].to + 1)
<1> DEFINE S == {j \in DOMAIN rs : RangeSetM!ReachesDown(rs[j], q)} \cup {Len(rs) + 1}
           k == RangeSetM!FirstReached(rs, q)
<1>1. S \subseteq 1..(Len(rs) + 1) /\ S # {} /\ Len(rs) \in Nat
  OBVIOUS
<1>2. k = Min(S)
  BY MinMaxSame DEF RangeSetM!FirstReached
<1>3. \A j \in 1..Len(rs) : j \in S <=> q.from <= rs[j].to + 1
  BY DEF RangeSetM!ReachesDown
<1> HIDE DEF S, k
<1>4. k \in S /\ \A y \in S : k <= y
  BY <1>1, <1>2, MinIs
<1>5. \A j \in 1..(k - 1) : j \in 1..Len(rs) /\ j \notin S
  BY <1>1, <1>4
<1>6. k \in 1..(Len(rs) + 1) /\ (k <= Len(rs) => k \in 1..Len(rs))
  BY <1>1, <1>4
<1>7. k <= Len(rs) => q.from <= rs[k].to + 1
  BY <1>3, <1>4, <1>6
<1>8. \A j \in 1..(k - 1) : ~(q.from <= rs[j].to + 1)
  BY <1>3, <1>5
<1>9. QED
  BY <1>6, <1>7, <1>8 DEF k

(* The last node union takes into the one it grows.                        *)
LEMMA LastAbsorbedIs ==
    ASSUME NEW rs \in Seq(Node), NEW q \in Node, NEW k \in 1..Len(rs)
    PROVE  LET m == RangeSetM!LastAbsorbed(rs, k, q)
           IN /\ m \in k..Len(rs)
              /\ q.to <= rs[k].to => m = k
              /\ ~(q.to <= rs[k].to) =>
                   /\ \A j \in (k + 1)..m : q.to >= rs[j].from - 1
                   /\ m < Len(rs) => ~(q.to >= rs[m + 1].from - 1)
<1> DEFINE S == {m \in k..Len(rs) : \A j \in (k + 1)..m : RangeSetM!ReachesUp(rs[j], q)}
           m == RangeSetM!LastAbsorbed(rs, k, q)
<1>1. Len(rs) \in Nat /\ k \in Nat
  OBVIOUS
<1>2. k \in S
  OBVIOUS
<1>3. CASE q.to <= rs[k].to
  <2>1. m = k
    BY <1>3 DEF RangeSetM!LastAbsorbed
  <2>2. QED
    BY <1>1, <1>3, <2>1
<1>4. CASE ~(q.to <= rs[k].to)
  <2>1. m = Max(S)
    BY <1>4, MinMaxSame DEF RangeSetM!LastAbsorbed
  <2>2. S \in SUBSET Nat /\ \A y \in S : y <= Len(rs)
    OBVIOUS
  <2> HIDE DEF m
  <2>3. m \in S /\ \A y \in S : y <= m
    <3> HIDE DEF S
    <3>1. QED
      BY <1>1, <1>2, <2>1, <2>2, MaxIs
  <2>4. m \in k..Len(rs) /\ \A j \in (k + 1)..m : q.to >= rs[j].from - 1
    BY <2>3 DEF RangeSetM!ReachesUp
  <2>5. ASSUME m < Len(rs), q.to >= rs[m + 1].from - 1 PROVE FALSE
    <3>1. m + 1 \in k..Len(rs)
      BY <2>4, <2>5
    <3>2. \A j \in (k + 1)..(m + 1) : j \in (k + 1)..m \/ j = m + 1
      BY <2>4
    <3>3. \A j \in (k + 1)..(m + 1) : RangeSetM!ReachesUp(rs[j], q)
      BY <2>4, <2>5, <3>2 DEF RangeSetM!ReachesUp
    <3>4. m + 1 \in S
      BY <3>1, <3>3
    <3> HIDE DEF S
    <3>5. QED
      BY <2>3, <2>4, <3>4
  <2>6. QED
    BY <1>4, <2>4, <2>5 DEF m
<1>5. QED
  BY <1>3, <1>4

(* So the nodes before the place lie below q and those after it above q,   *)
(* and what is absorbed overlaps or touches q.                             *)
LEMMA UnionPlaceIs ==
    ASSUME NEW rs \in Seq(Node), RangeSetM!IsCanonical(rs), NEW q \in Node, q.from <= q.to
    PROVE  LET k == RangeSetM!FirstReached(rs, q)
               m == RangeSetM!LastAbsorbed(rs, k, q)
               apart == k > Len(rs) \/ ~RangeSetM!ReachesUp(rs[k], q)
           IN /\ k \in 1..(Len(rs) + 1)
              /\ \A j \in 1..(k - 1) : rs[j].to + 1 < q.from
              /\ apart => \A j \in k..Len(rs) : q.to + 1 < rs[j].from
              /\ ~apart => /\ k \in 1..Len(rs) /\ m \in k..Len(rs)
                           /\ q.from <= rs[k].to + 1 /\ rs[k].from <= q.to + 1
                           /\ rs[m].from <= q.to + 1
                           /\ \A j \in (m + 1)..Len(rs) : q.to + 1 < rs[j].from
<1> DEFINE k == RangeSetM!FirstReached(rs, q)
           m == RangeSetM!LastAbsorbed(rs, k, q)
           L == Len(rs)
           apart == k > L \/ ~RangeSetM!ReachesUp(rs[k], q)
<1>1. /\ DOMAIN rs = 1..L /\ L \in Nat
      /\ \A j \in 1..L : /\ rs[j] \in Node
                        /\ rs[j].from \in Int /\ rs[j].to \in Int
                        /\ rs[j].from <= rs[j].to
      /\ \A j, t \in 1..L : j < t => rs[j].to + 1 < rs[t].from
      /\ \A j, t \in 1..L : j <= t => rs[j].from <= rs[t].from /\ rs[j].to <= rs[t].to
  BY CanonicalIs
<1>2. /\ k \in 1..(L + 1)
      /\ k <= L => q.from <= rs[k].to + 1
      /\ \A j \in 1..(k - 1) : ~(q.from <= rs[j].to + 1)
  BY FirstReachedIs
<1>3. q.from \in Int /\ q.to \in Int
  BY DEF Node
<1> HIDE DEF k
<1>4. ASSUME NEW j \in 1..(k - 1) PROVE rs[j].to + 1 < q.from
  <2>1. j \in 1..L /\ ~(q.from <= rs[j].to + 1)
    BY <1>1, <1>2
  <2>2. QED
    BY <1>1, <1>3, <2>1
<1>5. ASSUME apart, NEW j \in k..L PROVE q.to + 1 < rs[j].from
  <2>1. k \in 1..L /\ j \in 1..L /\ k <= j
    BY <1>1, <1>2
  <2>2. ~RangeSetM!ReachesUp(rs[k], q)
    BY <1>1, <1>5, <2>1
  <2>3. ~(q.to >= rs[k].from - 1)
    BY <2>2 DEF RangeSetM!ReachesUp
  <2>4. rs[k].from <= rs[j].from /\ rs[k].from \in Int /\ rs[j].from \in Int
    BY <1>1, <2>1
  <2>5. QED
    BY <1>3, <2>3, <2>4
<1>6. CASE ~apart
  <2>1. k \in 1..L /\ RangeSetM!ReachesUp(rs[k], q)
    BY <1>1, <1>2, <1>6
  <2>2. q.from <= rs[k].to + 1 /\ q.to >= rs[k].from - 1
    BY <1>1, <1>2, <2>1 DEF RangeSetM!ReachesUp
  <2>3. /\ m \in k..L
        /\ q.to <= rs[k].to => m = k
        /\ ~(q.to <= rs[k].to) =>
              /\ \A j \in (k + 1)..m : q.to >= rs[j].from - 1
              /\ m < L => ~(q.to >= rs[m + 1].from - 1)
    BY <2>1, LastAbsorbedIs
  <2> HIDE DEF m, L
  <2>4. m \in 1..L
    BY <1>1, <2>1, <2>3
  <2>5. q.to >= rs[m].from - 1
    <3>1. CASE m = k
      BY <2>2, <3>1
    <3>2. CASE m # k
      <4>1. m \in (k + 1)..m
        BY <1>1, <2>1, <2>3, <3>2
      <4>2. ~(q.to <= rs[k].to)
        BY <2>3, <3>2
      <4>3. QED
        BY <2>3, <4>1, <4>2
    <3>3. QED
      BY <3>1, <3>2
  <2>6. ASSUME NEW j \in (m + 1)..L PROVE q.to + 1 < rs[j].from
    <3>1. j \in 1..L /\ m < j /\ m + 1 \in 1..L /\ m + 1 <= j /\ m < L
      BY <1>1, <2>4
    <3>2. rs[m].to + 1 < rs[j].from /\ rs[m + 1].from <= rs[j].from
      BY <1>1, <2>4, <3>1
    <3>3. CASE q.to <= rs[k].to
      BY <1>1, <1>3, <2>1, <2>3, <3>1, <3>2, <3>3
    <3>4. CASE ~(q.to <= rs[k].to)
      <4>1. ~(q.to >= rs[m + 1].from - 1)
        BY <2>3, <3>1, <3>4
      <4>2. rs[m + 1].from \in Int /\ rs[j].from \in Int
        BY <1>1, <3>1
      <4>3. QED
        BY <1>3, <3>2, <4>1, <4>2
    <3>5. QED
      BY <3>3, <3>4
  <2>7. rs[k].from <= q.to + 1 /\ rs[m].from <= q.to + 1
    <3>1. rs[k].from \in Int /\ rs[m].from \in Int
      BY <1>1, <2>1, <2>4
    <3>2. QED
      BY <1>3, <2>2, <2>5, <3>1
  <2>8. QED
    BY <1>2, <1>4, <1>6, <2>1, <2>2, <2>3, <2>6, <2>7 DEF k, m, L
<1>7. QED
  BY <1>2, <1>4, <1>5, <1>6 DEF k, L

(* Union keeps the list canonical and adds what the range denotes.         *)
LEMMA UnionNodesIs ==
    ASSUME NEW rs \in Seq(Node), RangeSetM!IsCanonical(rs), NEW q \in Node, q.from <= q.to
    PROVE  LET s == RangeSetM!UnionNodes(rs, q)
           IN /\ s \in Seq(Node) /\ RangeSetM!IsCanonical(s)
              /\ \A x : x \in RangeSetM!Denotes(s) <=>
                         x \in RangeSetM!Denotes(rs) \/ x \in q.from..q.to
<1> DEFINE k == RangeSetM!FirstReached(rs, q)
           m == RangeSetM!LastAbsorbed(rs, k, q)
           L == Len(rs)
           apart == k > L \/ ~RangeSetM!ReachesUp(rs[k], q)
           s == RangeSetM!UnionNodes(rs, q)
<1>1. /\ DOMAIN rs = 1..L /\ L \in Nat
      /\ \A j \in 1..L : /\ rs[j] \in Node
                        /\ rs[j].from \in Int /\ rs[j].to \in Int
                        /\ rs[j].from <= rs[j].to
      /\ \A j, t \in 1..L : j < t => rs[j].to + 1 < rs[t].from
      /\ \A j, t \in 1..L : j <= t => rs[j].from <= rs[t].from /\ rs[j].to <= rs[t].to
  BY CanonicalIs
<1>2. /\ k \in 1..(L + 1)
      /\ \A j \in 1..(k - 1) : rs[j].to + 1 < q.from
      /\ apart => \A j \in k..L : q.to + 1 < rs[j].from
      /\ ~apart => /\ k \in 1..L /\ m \in k..L
                   /\ q.from <= rs[k].to + 1 /\ rs[k].from <= q.to + 1
                   /\ rs[m].from <= q.to + 1
                   /\ \A j \in (m + 1)..L : q.to + 1 < rs[j].from
  BY UnionPlaceIs
<1>3. q.from \in Int /\ q.to \in Int
  BY DEF Node
<1>4. \A x : x \in RangeSetM!Denotes(rs) <=> \E j \in 1..L : x \in rs[j].from..rs[j].to
  BY <1>1 DEF RangeSetM!Denotes
<1>5. CASE apart
  <2>1. s = RangeSetM!Splice(rs, k, k - 1, <<q>>)
    BY <1>5 DEF RangeSetM!UnionNodes
  <2>2. /\ <<q>> \in Seq(Node) /\ Len(<<q>>) = 1 /\ <<q>>[1] = q
        /\ RangeSetM!IsCanonical(<<q>>)
        /\ \A x : x \in RangeSetM!Denotes(<<q>>) <=> x \in q.from..q.to
    BY SingleIs
  <2>3. \A j \in k..L : q.to + 1 < rs[j].from
    BY <1>2, <1>5
  <2> DEFINE mid == <<q>>
  <2> HIDE DEF k, s, L, mid
  <2>5. k - 1 \in (k - 1)..L /\ (k - 1) + 1 = k /\ k \in 1..(L + 1)
    BY <1>1, <1>2
  <2>6. mid \in Seq(Node) /\ RangeSetM!IsCanonical(mid) /\ Len(mid) = 1 /\ mid[1] = q
    BY <2>2 DEF mid
  <2>7. /\ \A j \in 1..(k - 1), t \in 1..Len(mid) : rs[j].to + 1 < mid[t].from
        /\ \A t \in 1..Len(mid), j \in ((k - 1) + 1)..L : mid[t].to + 1 < rs[j].from
    BY <1>2, <2>3, <2>5, <2>6
  <2>8. RangeSetM!IsCanonical(RangeSetM!Splice(rs, k, k - 1, mid))
    BY <2>5, <2>6, <2>7, SpliceCanonical DEF L
  <2>9. RangeSetM!Splice(rs, k, k - 1, mid) \in Seq(Node)
    BY <2>5, <2>6, SpliceForms DEF L
  <2>10. ASSUME NEW x
         PROVE  x \in RangeSetM!Denotes(RangeSetM!Splice(rs, k, k - 1, mid)) <=>
                  x \in RangeSetM!Denotes(rs) \/ x \in q.from..q.to
    <3>1. x \in RangeSetM!Denotes(RangeSetM!Splice(rs, k, k - 1, mid)) <=>
             \/ \E j \in 1..(k - 1) : x \in rs[j].from..rs[j].to
             \/ x \in RangeSetM!Denotes(mid)
             \/ \E j \in ((k - 1) + 1)..L : x \in rs[j].from..rs[j].to
      BY <2>5, <2>6, SpliceDenotes DEF L
    <3>2. x \in RangeSetM!Denotes(mid) <=> x \in q.from..q.to
      BY <2>2 DEF mid
    <3>3. \A j : j \in 1..L <=> j \in 1..(k - 1) \/ j \in ((k - 1) + 1)..L
      BY <1>1, <2>5
    <3>4. QED
      BY <1>4, <3>1, <3>2, <3>3
  <2>11. QED
    BY <2>1, <2>8, <2>9, <2>10 DEF s, mid
<1>6. CASE ~apart
  <2> DEFINE a == Min({q.from, rs[k].from})
             b == Max({q.to, rs[m].to})
             e == RangeSetM!RangeInclusive(a, b)
             mid == <<e>>
  <2>1. k \in 1..L
    BY <1>2, <1>6
  <2>2. s = RangeSetM!Splice(rs, k, m, mid)
    BY <1>6, MinMaxSame DEF RangeSetM!UnionNodes
  <2>3. /\ m \in k..L
        /\ q.from <= rs[k].to + 1 /\ rs[k].from <= q.to + 1
        /\ rs[m].from <= q.to + 1
        /\ \A j \in (m + 1)..L : q.to + 1 < rs[j].from
    BY <1>2, <1>6
  <2> HIDE DEF m, k, s, L
  <2>4. m \in 1..L
    BY <1>1, <2>1, <2>3
  <2>5. /\ a \in Int /\ a = IF q.from <= rs[k].from THEN q.from ELSE rs[k].from
        /\ b \in Int /\ b = IF q.to <= rs[m].to THEN rs[m].to ELSE q.to
    <3>1. rs[k].from \in Int /\ rs[m].to \in Int
      BY <1>1, <2>1, <2>4
    <3>2. a = IF q.from <= rs[k].from THEN q.from ELSE rs[k].from
      BY <1>3, <3>1, PairIs
    <3>3. b = IF q.to <= rs[m].to THEN rs[m].to ELSE q.to
      BY <1>3, <3>1, PairIs
    <3>4. QED
      BY <1>3, <3>1, <3>2, <3>3
  <2> HIDE DEF a, b
  <2>6. e \in Node /\ e.from = a /\ e.to = b
    BY <2>5 DEF RangeSetM!RangeInclusive, Node
  <2>9. ASSUME NEW j \in 1..(k - 1) PROVE rs[j].to + 1 < a
    <3>1. j \in 1..L /\ j < k /\ rs[j].to + 1 < q.from
      BY <1>1, <1>2, <2>1
    <3>2. rs[j].to + 1 < rs[k].from
      BY <1>1, <2>1, <3>1
    <3>3. QED
      BY <2>5, <3>1, <3>2
  <2>10. ASSUME NEW j \in (m + 1)..L PROVE b + 1 < rs[j].from
    <3>1. j \in 1..L /\ m < j
      BY <1>1, <2>4
    <3>2. rs[m].to + 1 < rs[j].from
      BY <1>1, <2>4, <3>1
    <3>3. QED
      BY <2>3, <2>5, <3>2
  <2>11. a <= b
    BY <1>1, <1>3, <2>1, <2>4, <2>5
  <2>12. ASSUME NEW x \in a..b, x \notin q.from..q.to
         PROVE  \E j \in k..m : x \in rs[j].from..rs[j].to
    <3>1. x \in Int /\ a <= x /\ x <= b /\ (x < q.from \/ q.to < x)
      BY <1>3, <2>5, <2>12
    <3>2. CASE x < q.from
      <4>1. rs[k].from <= x /\ x <= rs[k].to
        BY <1>1, <1>3, <2>1, <2>3, <2>5, <3>1, <3>2
      <4>2. k \in k..m /\ rs[k].from \in Int /\ rs[k].to \in Int
        BY <1>1, <2>1, <2>3
      <4>3. x \in rs[k].from..rs[k].to
        BY <3>1, <4>1, <4>2
      <4>4. QED
        BY <4>2, <4>3
    <3>3. CASE q.to < x
      <4>1. x <= rs[m].to
        BY <1>1, <1>3, <2>4, <2>5, <3>1, <3>3
      <4>3. m \in k..m /\ rs[m].from \in Int /\ rs[m].to \in Int
        BY <1>1, <2>1, <2>3, <2>4
      <4>4. x \in rs[m].from..rs[m].to
        BY <1>3, <2>3, <3>1, <3>3, <4>1, <4>3
      <4>5. QED
        BY <4>3, <4>4
    <3>4. QED
      BY <3>1, <3>2, <3>3
  <2>13. ASSUME NEW x, x \in q.from..q.to \/ \E j \in k..m : x \in rs[j].from..rs[j].to
         PROVE  x \in a..b
    <3>1. CASE x \in q.from..q.to
      BY <1>1, <1>3, <2>1, <2>4, <2>5, <3>1
    <3>2. CASE \E j \in k..m : x \in rs[j].from..rs[j].to
      <4>1. PICK j \in k..m : x \in rs[j].from..rs[j].to
        BY <3>2
      <4>2. j \in 1..L /\ k <= j /\ j <= m
        BY <1>1, <2>1, <2>4
      <4>3. rs[k].from <= rs[j].from /\ rs[j].to <= rs[m].to
        BY <1>1, <2>1, <2>4, <4>2
      <4>4. rs[j].from \in Int /\ rs[j].to \in Int /\ rs[k].from \in Int /\ rs[m].to \in Int
        BY <1>1, <2>1, <2>4, <4>2
      <4>5. x \in Int /\ rs[j].from <= x /\ x <= rs[j].to
        BY <4>1, <4>4
      <4>6. a <= rs[k].from /\ rs[m].to <= b
        BY <1>3, <2>5, <4>4
      <4>7. \A c, d, e1, f : c \in Int /\ d \in Int /\ e1 \in Int /\ f \in Int
                => (a <= c /\ c <= d /\ d <= x /\ x <= e1 /\ e1 <= f /\ f <= b => x \in a..b)
        BY <2>5, <4>5
      <4>8. QED
        BY <4>3, <4>4, <4>5, <4>6, <4>7
    <3>3. QED
      BY <2>13, <3>1, <3>2
  <2> HIDE DEF e
  <2>14. /\ mid \in Seq(Node) /\ Len(mid) = 1 /\ mid[1] = e
         /\ RangeSetM!IsCanonical(mid)
         /\ \A x : x \in RangeSetM!Denotes(mid) <=> x \in a..b
    BY <2>6, <2>11, SingleIs
  <2> HIDE DEF mid
  <2>15. m \in (k - 1)..L /\ k \in 1..(L + 1)
    BY <1>1, <2>1, <2>4, <2>3
  <2>16. /\ \A j \in 1..(k - 1), t \in 1..Len(mid) : rs[j].to + 1 < mid[t].from
         /\ \A t \in 1..Len(mid), j \in (m + 1)..L : mid[t].to + 1 < rs[j].from
    BY <2>6, <2>9, <2>10, <2>14
  <2>17. RangeSetM!IsCanonical(s)
    BY <2>2, <2>14, <2>15, <2>16, SpliceCanonical DEF L
  <2>18. s \in Seq(Node)
    BY <2>2, <2>14, <2>15, SpliceForms DEF L
  <2>19. ASSUME NEW x
         PROVE  x \in RangeSetM!Denotes(s) <=> x \in RangeSetM!Denotes(rs) \/ x \in q.from..q.to
    <3>1. x \in RangeSetM!Denotes(s) <=>
             \/ \E j \in 1..(k - 1) : x \in rs[j].from..rs[j].to
             \/ x \in RangeSetM!Denotes(mid)
             \/ \E j \in (m + 1)..L : x \in rs[j].from..rs[j].to
      BY <2>2, <2>14, <2>15, SpliceDenotes DEF L
    <3>2. x \in RangeSetM!Denotes(mid) <=>
             x \in q.from..q.to \/ \E j \in k..m : x \in rs[j].from..rs[j].to
      BY <2>12, <2>13, <2>14
    <3>3. \A j : j \in 1..L <=> j \in 1..(k - 1) \/ j \in k..m \/ j \in (m + 1)..L
      BY <1>1, <2>1, <2>4, <2>3
    <3>4. QED
      BY <1>4, <3>1, <3>2, <3>3
  <2>20. QED
    BY <2>17, <2>18, <2>19 DEF s
<1>7. QED
  BY <1>5, <1>6

(* The loop of UnionAll is defined for every list of pieces: the list      *)
(* after the first n of them is the list after n - 1 and one more union.   *)
AfterEach(rs, pieces) ==
    CHOOSE f : f = [n \in 0..Len(pieces) |->
                      IF n = 0 THEN rs ELSE RangeSetM!UnionNodes(f[n - 1], pieces[n])]

(* The code's loop over the pieces computes AfterEach: were there a least  *)
(* piece without a result, the one before it would give it one.            *)
LEMMA UnionAllSteps ==
    ASSUME NEW rs, NEW pieces \in Seq(Node)
    PROVE  LET f == AfterEach(rs, pieces)
           IN /\ f[0] = rs
              /\ \A n \in 1..Len(pieces) : f[n] = RangeSetM!UnionNodes(f[n - 1], pieces[n])
              /\ RangeSetM!UnionAll(rs, pieces) = f[Len(pieces)]
<1> DEFINE step(f, n) == IF n = 0 THEN rs ELSE RangeSetM!UnionNodes(f[n - 1], pieces[n])
           good(N) == \E f : f = [n \in 0..N |-> step(f, n)]
           L == Len(pieces)
           T == {N \in 0..L : ~good(N)}
<1>1. L \in Nat
  OBVIOUS
<1>2. good(0)
  <2> DEFINE f == [n \in 0..0 |-> rs]
  <2>1. f = [n \in 0..0 |-> step(f, n)]
    OBVIOUS
  <2>2. QED
    BY <2>1
<1>3. ASSUME NEW N \in Nat, good(N) PROVE good(N + 1)
  <2>1. PICK g : g = [n \in 0..N |-> step(g, n)]
    BY <1>3
  <2> DEFINE f == [n \in 0..(N + 1) |-> IF n = N + 1 THEN step(g, n) ELSE g[n]]
  <2>2. \A n \in 0..N : f[n] = g[n]
    OBVIOUS
  <2>3. ASSUME NEW n \in 0..(N + 1) PROVE step(f, n) = step(g, n)
    <3>1. CASE n = 0
      BY <3>1
    <3>2. CASE n # 0
      <4>1. n - 1 \in 0..N
        BY <3>2
      <4>2. f[n - 1] = g[n - 1]
        BY <2>2, <4>1
      <4> HIDE DEF f
      <4>3. QED
        BY <4>2
    <3>3. QED
      BY <3>1, <3>2
  <2>4. ASSUME NEW n \in 0..N PROVE g[n] = step(g, n)
    <3> HIDE DEF step
    <3>1. QED
      BY <2>1
  <2>5. ASSUME NEW n \in 0..(N + 1) PROVE f[n] = step(f, n)
    <3>1. f[n] = step(g, n)
      <4>1. CASE n = N + 1
        <5> HIDE DEF step
        <5>1. QED
          BY <4>1
      <4>2. CASE n # N + 1
        <5>1. n \in 0..N
          BY <4>2
        <5>2. QED
          BY <2>2, <2>4, <5>1
      <4>3. QED
        BY <4>1, <4>2
    <3> HIDE DEF step, f
    <3>2. QED
      BY <2>3, <3>1
  <2>6. f = [n \in 0..(N + 1) |-> f[n]]
    <3> HIDE DEF step
    <3>1. QED
      OBVIOUS
  <2>7. f = [n \in 0..(N + 1) |-> step(f, n)]
    <3> HIDE DEF step, f
    <3>1. QED
      BY <2>5, <2>6
  <2> HIDE DEF f, step
  <2>8. QED
    BY <2>7
<1>4. good(L)
  <2> HIDE DEF good
  <2>1. CASE T = {}
    BY <1>1, <2>1
  <2>2. CASE T # {}
    <3>1. T \in SUBSET Nat
      BY <1>1
    <3>2. PICK N \in T : \A y \in T : N <= y
      BY <2>2, <3>1, LeastNat
    <3>3. N # 0 /\ N - 1 \in Nat /\ N - 1 \in 0..L /\ ~(N <= N - 1)
      BY <1>1, <1>2, <3>2
    <3>4. good(N - 1)
      BY <3>2, <3>3
    <3>5. good((N - 1) + 1)
      BY <1>3, <3>3, <3>4
    <3>6. QED
      BY <3>2, <3>3, <3>5
  <2>3. QED
    BY <2>1, <2>2
<1> DEFINE after == AfterEach(rs, pieces)
<1>5. after = [n \in 0..L |-> step(after, n)]
  BY <1>4 DEF AfterEach
<1>6. RangeSetM!UnionAll(rs, pieces) = after[L]
  BY DEF RangeSetM!UnionAll, AfterEach
<1> HIDE DEF after
<1>7. \A n \in 0..L : after[n] = step(after, n)
  <2> HIDE DEF step
  <2>1. QED
    BY <1>5
<1>8. after[0] = rs
  BY <1>1, <1>7
<1>9. \A n \in 1..L : after[n] = RangeSetM!UnionNodes(after[n - 1], pieces[n])
  <2>1. \A n \in 1..L : n \in 0..L /\ n # 0
    BY <1>1
  <2>2. QED
    BY <1>7, <2>1
<1>10. QED
  BY <1>6, <1>8, <1>9 DEF after

(* The union with a list of pieces keeps the list canonical and adds what  *)
(* the pieces denote.                                                      *)
LEMMA UnionAllIs ==
    ASSUME NEW rs \in Seq(Node), RangeSetM!IsCanonical(rs), NEW pieces \in Seq(Node),
           \A j \in 1..Len(pieces) : pieces[j].from <= pieces[j].to
    PROVE  LET s == RangeSetM!UnionAll(rs, pieces)
           IN /\ s \in Seq(Node) /\ RangeSetM!IsCanonical(s)
              /\ \A x : x \in RangeSetM!Denotes(s) <=>
                         \/ x \in RangeSetM!Denotes(rs)
                         \/ \E j \in 1..Len(pieces) : x \in pieces[j].from..pieces[j].to
<1> DEFINE L == Len(pieces)
<1>1. L \in Nat /\ \A j \in 1..L : pieces[j] \in Node
  BY ElementOfSeq
<1> DEFINE f == AfterEach(rs, pieces)
<1>2. /\ f[0] = rs
      /\ \A n \in 1..L : f[n] = RangeSetM!UnionNodes(f[n - 1], pieces[n])
      /\ RangeSetM!UnionAll(rs, pieces) = f[L]
  BY UnionAllSteps
<1> HIDE DEF f, L
<1> DEFINE holds(n, x) == \/ x \in RangeSetM!Denotes(rs)
                         \/ \E j \in 1..n : x \in pieces[j].from..pieces[j].to
           good(n) == /\ f[n] \in Seq(Node) /\ RangeSetM!IsCanonical(f[n])
                      /\ \A x : x \in RangeSetM!Denotes(f[n]) <=> holds(n, x)
           T == {n \in 0..L : ~good(n)}
<1>3. good(0)
  BY <1>2
<1>4. ASSUME NEW n \in 1..L, good(n - 1) PROVE good(n)
  <2> DEFINE q == pieces[n]
             g == f[n - 1]
  <2>1. q \in Node /\ q.from <= q.to /\ g \in Seq(Node) /\ RangeSetM!IsCanonical(g)
    BY <1>1, <1>4 DEF L
  <2>2. f[n] = RangeSetM!UnionNodes(g, q)
    BY <1>2
  <2> HIDE DEF q, g
  <2>3. /\ f[n] \in Seq(Node) /\ RangeSetM!IsCanonical(f[n])
        /\ \A x : x \in RangeSetM!Denotes(f[n]) <=>
                   x \in RangeSetM!Denotes(g) \/ x \in q.from..q.to
    BY <2>1, <2>2, UnionNodesIs
  <2>4. ASSUME NEW x PROVE x \in RangeSetM!Denotes(g) \/ x \in q.from..q.to <=> holds(n, x)
    <3>1. x \in RangeSetM!Denotes(g) <=> holds(n - 1, x)
      BY <1>4 DEF g
    <3>2. \A j : j \in 1..n <=> j \in 1..(n - 1) \/ j = n
      BY <1>1
    <3>3. QED
      BY <3>1, <3>2 DEF q
  <2>5. QED
    BY <2>3, <2>4
<1>5. good(L)
  <2> HIDE DEF good
  <2>1. CASE T = {}
    BY <1>1, <2>1
  <2>2. CASE T # {}
    <3>1. T \in SUBSET Nat
      BY <1>1
    <3>2. PICK N \in T : \A y \in T : N <= y
      BY <2>2, <3>1, LeastNat
    <3>3. N \in 1..L /\ N - 1 \in 0..L /\ ~(N <= N - 1)
      BY <1>1, <1>3, <3>2
    <3>4. good(N - 1)
      BY <3>2, <3>3
    <3>5. QED
      BY <1>4, <3>2, <3>3, <3>4
  <2>3. QED
    BY <2>1, <2>2
<1>6. QED
  BY <1>2, <1>5 DEF L

(* The nodes subtract changes are neighbours, as the list is sorted. *)
LEMMA OverlappedIs ==
    ASSUME NEW rs \in Seq(Node), RangeSetM!IsCanonical(rs), NEW q \in Node, q.from <= q.to
    PROVE  LET K == RangeSetM!Overlapped(rs, q)
           IN /\ \A j : j \in K <=> j \in 1..Len(rs) /\ q.from <= rs[j].to /\ rs[j].from <= q.to
              /\ K # {} => /\ RangeSetM!Min(K) \in K /\ RangeSetM!Max(K) \in K
                           /\ RangeSetM!Min(K) <= RangeSetM!Max(K)
                           /\ K = RangeSetM!Min(K)..RangeSetM!Max(K)
<1> DEFINE K == RangeSetM!Overlapped(rs, q)
           L == Len(rs)
<1>1. /\ DOMAIN rs = 1..L /\ L \in Nat
      /\ \A j \in 1..L : rs[j].from \in Int /\ rs[j].to \in Int
      /\ \A j, t \in 1..L : j <= t => rs[j].from <= rs[t].from /\ rs[j].to <= rs[t].to
  BY CanonicalIs
<1>2. q.from \in Int /\ q.to \in Int
  BY DEF Node
<1>3. \A j : j \in K <=> j \in 1..L /\ q.from <= rs[j].to /\ rs[j].from <= q.to
  BY <1>1 DEF RangeSetM!Overlapped, RangeSetM!Overlaps
<1> HIDE DEF K, L
<1>4. CASE K # {}
  <2> DEFINE a == RangeSetM!Min(K)
             b == RangeSetM!Max(K)
  <2>1. K \in SUBSET Nat /\ \A y \in K : y <= L
    BY <1>1, <1>3
  <2>2. a = Min(K) /\ b = Max(K)
    BY MinMaxSame
  <2> HIDE DEF a, b
  <2>3. a \in K /\ \A y \in K : a <= y
    BY <1>4, <2>1, <2>2, MinIs
  <2>4. b \in K /\ \A y \in K : y <= b
    BY <1>1, <1>4, <2>1, <2>2, MaxIs
  <2>5. ASSUME NEW j \in a..b PROVE j \in K
    <3>1. j \in 1..L /\ a \in 1..L /\ b \in 1..L /\ a <= j /\ j <= b
      BY <1>1, <1>3, <2>1, <2>3, <2>4
    <3>2. rs[a].to <= rs[j].to /\ rs[j].from <= rs[b].from
      BY <1>1, <3>1
    <3>3. q.from <= rs[a].to /\ rs[b].from <= q.to
      BY <1>3, <2>3, <2>4
    <3>4. /\ rs[a].to \in Int /\ rs[j].to \in Int
          /\ rs[j].from \in Int /\ rs[b].from \in Int
      BY <1>1, <3>1
    <3>5. q.from <= rs[j].to /\ rs[j].from <= q.to
      BY <1>2, <3>2, <3>3, <3>4
    <3>6. QED
      BY <1>3, <3>1, <3>5
  <2>6. a <= b
    BY <2>3, <2>4
  <2>7. ASSUME NEW j \in K PROVE j \in a..b
    BY <2>1, <2>3, <2>4
  <2>8. QED
    BY <2>3, <2>4, <2>5, <2>6, <2>7, <1>3 DEF a, b, K, L
<1>5. QED
  BY <1>3, <1>4 DEF K, L

(* What subtract leaves at both ends. *)
LEMMA RemainIs ==
    ASSUME NEW n \in Node, NEW p \in Node, NEW q \in Node,
           n.from <= n.to, p.from <= p.to, q.from <= q.to,
           q.from <= n.to, p.from <= q.to
    PROVE  LET s == RangeSetM!RemainLower(n, q) \o RangeSetM!RemainUpper(p, q)
           IN /\ s \in Seq(Node) /\ RangeSetM!IsCanonical(s)
              /\ \A t \in 1..Len(s) :
                   \/ s[t].from = n.from /\ s[t].to < q.from /\ q.from > n.from
                   \/ s[t].from = q.to + 1 /\ s[t].to = p.to
              /\ \A x : x \in RangeSetM!Denotes(s) <=>
                         \/ x \in n.from..n.to /\ x < q.from
                         \/ x \in p.from..p.to /\ q.to < x
<1> DEFINE lo == RangeSetM!RangeInclusive(n.from, q.from - 1)
           up == RangeSetM!RangeInclusive(q.to + 1, p.to)
           s == RangeSetM!RemainLower(n, q) \o RangeSetM!RemainUpper(p, q)
<1>1. /\ n.from \in Int /\ n.to \in Int /\ p.from \in Int /\ p.to \in Int
      /\ q.from \in Int /\ q.to \in Int
  BY DEF Node
<1>2. /\ lo \in Node /\ lo.from = n.from /\ lo.to = q.from - 1
      /\ up \in Node /\ up.from = q.to + 1 /\ up.to = p.to
  BY <1>1 DEF RangeSetM!RangeInclusive, Node
<1>3. /\ RangeSetM!RemainLower(n, q) = IF q.from > n.from THEN <<lo>> ELSE << >>
      /\ RangeSetM!RemainUpper(p, q) = IF q.to < p.to THEN <<up>> ELSE << >>
  BY DEF RangeSetM!RemainLower, RangeSetM!RemainUpper
<1>4. \A x : /\ x \in n.from..n.to /\ x < q.from <=> x \in n.from..(q.from - 1)
             /\ x \in p.from..p.to /\ q.to < x <=> x \in (q.to + 1)..p.to
  BY <1>1
<1> HIDE DEF lo, up, s
<1>5. CASE q.from > n.from /\ q.to < p.to
  <2> DEFINE A == <<lo>>
             B == <<up>>
             u == A \o B
  <2>1. s = u
    BY <1>3, <1>5 DEF s
  <2>8. /\ A \in Seq(Node) /\ Len(A) = 1 /\ A[1] = lo
        /\ B \in Seq(Node) /\ Len(B) = 1 /\ B[1] = up
    BY <1>2
  <2> HIDE DEF A, B
  <2>9. /\ A \o B \in Seq(Node) /\ Len(A \o B) = Len(A) + Len(B)
        /\ \A t \in 1..(Len(A) + Len(B)) :
             (A \o B)[t] = IF t <= Len(A) THEN A[t] ELSE B[t - Len(A)]
    BY <2>8, ConcatProperties
  <2>2. u \in Seq(Node) /\ Len(u) = 2 /\ u[1] = lo /\ u[2] = up /\ DOMAIN u = {1, 2}
    <3> HIDE DEF u
    <3>1. /\ u \in Seq(Node) /\ Len(u) = 2
          /\ \A t \in 1..2 : u[t] = IF t <= 1 THEN A[t] ELSE B[t - 1]
      BY <2>8, <2>9 DEF u
    <3>2. u[1] = A[1] /\ u[2] = B[2 - 1]
      BY <3>1
    <3>3. DOMAIN u = 1..2
      BY <3>1
    <3>4. QED
      BY <2>8, <3>1, <3>2, <3>3
  <2> HIDE DEF u
  <2>3. /\ lo.from <= lo.to /\ up.from <= up.to /\ lo.to + 1 < up.from
    BY <1>1, <1>2, <1>5
  <2>4. RangeSetM!IsCanonical(u)
    BY <2>2, <2>3 DEF RangeSetM!IsCanonical
  <2>5. \A t \in 1..Len(u) :
           \/ u[t].from = n.from /\ u[t].to < q.from /\ q.from > n.from
           \/ u[t].from = q.to + 1 /\ u[t].to = p.to
    <3>1. lo.to < q.from
      BY <1>1, <1>2
    <3>2. \A t \in 1..Len(u) : t = 1 \/ t = 2
      BY <2>2
    <3>3. QED
      BY <1>2, <1>5, <2>2, <3>1, <3>2
  <2>6. \A x : x \in RangeSetM!Denotes(u) <=> x \in lo.from..lo.to \/ x \in up.from..up.to
    BY <2>2 DEF RangeSetM!Denotes
  <2>7. QED
    BY <1>2, <1>4, <2>1, <2>2, <2>4, <2>5, <2>6 DEF s
<1>6. CASE q.from > n.from /\ ~(q.to < p.to)
  <2>1. s = <<lo>>
    BY <1>3, <1>6 DEF s
  <2>2. /\ s \in Seq(Node) /\ Len(s) = 1 /\ s[1] = lo
        /\ RangeSetM!IsCanonical(s)
        /\ \A x : x \in RangeSetM!Denotes(s) <=> x \in lo.from..lo.to
    <3>1. lo.from <= lo.to
      BY <1>1, <1>2, <1>6
    <3>2. QED
      BY <1>2, <2>1, <3>1, SingleIs
  <2>3. \A t \in 1..Len(s) : t = 1
    BY <2>2
  <2>4. lo.to < q.from
    BY <1>1, <1>2
  <2>5. \A x : x \notin (q.to + 1)..p.to
    BY <1>1, <1>6
  <2>6. QED
    BY <1>2, <1>4, <1>6, <2>2, <2>3, <2>4, <2>5 DEF s
<1>7. CASE ~(q.from > n.from) /\ q.to < p.to
  <2>1. s = <<up>>
    BY <1>3, <1>7 DEF s
  <2>2. /\ s \in Seq(Node) /\ Len(s) = 1 /\ s[1] = up
        /\ RangeSetM!IsCanonical(s)
        /\ \A x : x \in RangeSetM!Denotes(s) <=> x \in up.from..up.to
    <3>1. up.from <= up.to
      BY <1>1, <1>2, <1>7
    <3>2. QED
      BY <1>2, <2>1, <3>1, SingleIs
  <2>3. \A t \in 1..Len(s) : t = 1
    BY <2>2
  <2>5. \A x : x \notin n.from..(q.from - 1)
    BY <1>1, <1>7
  <2>6. QED
    BY <1>2, <1>4, <2>2, <2>3, <2>5 DEF s
<1>8. CASE ~(q.from > n.from) /\ ~(q.to < p.to)
  <2>1. s = << >>
    BY <1>3, <1>8 DEF s
  <2>2. \A x : x \notin n.from..(q.from - 1) /\ x \notin (q.to + 1)..p.to
    BY <1>1, <1>8
  <2>3. Len(s) = 0
    BY <2>1
  <2>4. QED
    BY <1>4, <2>1, <2>2, <2>3, EmptyIs DEF s
<1>9. QED
  BY <1>5, <1>6, <1>7, <1>8

(* Subtract keeps the list canonical and takes out what the range denotes. *)
LEMMA SubtractNodesIs ==
    ASSUME NEW rs \in Seq(Node), RangeSetM!IsCanonical(rs), NEW q \in Node, q.from <= q.to
    PROVE  LET s == RangeSetM!SubtractNodes(rs, q)
           IN /\ s \in Seq(Node) /\ RangeSetM!IsCanonical(s)
              /\ \A x : x \in RangeSetM!Denotes(s) <=>
                         x \in RangeSetM!Denotes(rs) /\ x \notin q.from..q.to
<1> DEFINE K == RangeSetM!Overlapped(rs, q)
           L == Len(rs)
           s == RangeSetM!SubtractNodes(rs, q)
<1>1. /\ DOMAIN rs = 1..L /\ L \in Nat
      /\ \A j \in 1..L : /\ rs[j] \in Node
                        /\ rs[j].from \in Int /\ rs[j].to \in Int
                        /\ rs[j].from <= rs[j].to
      /\ \A j, t \in 1..L : j < t => rs[j].to + 1 < rs[t].from
      /\ \A j, t \in 1..L : j <= t => rs[j].from <= rs[t].from /\ rs[j].to <= rs[t].to
  BY CanonicalIs
<1>2. /\ \A j : j \in K <=> j \in 1..L /\ q.from <= rs[j].to /\ rs[j].from <= q.to
      /\ K # {} => /\ RangeSetM!Min(K) \in K /\ RangeSetM!Max(K) \in K
                   /\ RangeSetM!Min(K) <= RangeSetM!Max(K)
                   /\ K = RangeSetM!Min(K)..RangeSetM!Max(K)
  BY OverlappedIs
<1>3. q.from \in Int /\ q.to \in Int
  BY DEF Node
<1>4. \A x : x \in RangeSetM!Denotes(rs) <=> \E j \in 1..L : x \in rs[j].from..rs[j].to
  BY <1>1 DEF RangeSetM!Denotes
<1>5. ASSUME NEW j \in 1..L, j \notin K, NEW x \in rs[j].from..rs[j].to
      PROVE  x \notin q.from..q.to
  <2>1. ~(q.from <= rs[j].to /\ rs[j].from <= q.to)
    BY <1>2, <1>5
  <2>2. rs[j].from \in Int /\ rs[j].to \in Int
    BY <1>1
  <2>3. QED
    BY <1>3, <2>1, <2>2
<1>6. CASE K = {}
  <2>1. s = rs
    BY <1>6 DEF RangeSetM!SubtractNodes
  <2> HIDE DEF K, s, L
  <2>2. QED
    BY <1>4, <1>5, <1>6, <2>1 DEF s
<1>7. CASE K # {}
  <2> DEFINE a == RangeSetM!Min(K)
             b == RangeSetM!Max(K)
             mid == RangeSetM!RemainLower(rs[a], q) \o RangeSetM!RemainUpper(rs[b], q)
  <2>1. s = RangeSetM!Splice(rs, a, b, mid)
    BY <1>7 DEF RangeSetM!SubtractNodes
  <2>2. a \in K /\ b \in K /\ a <= b /\ K = a..b
    BY <1>2, <1>7
  <2> HIDE DEF K, s, L, a, b
  <2>3. /\ a \in 1..L /\ q.from <= rs[a].to /\ rs[a].from <= q.to
        /\ b \in 1..L /\ q.from <= rs[b].to /\ rs[b].from <= q.to
    BY <1>2, <2>2
  <2>4. /\ rs[a] \in Node /\ rs[b] \in Node
        /\ rs[a].from \in Int /\ rs[a].to \in Int /\ rs[b].from \in Int /\ rs[b].to \in Int
        /\ rs[a].from <= rs[a].to /\ rs[b].from <= rs[b].to
    BY <1>1, <2>3
  <2>5. /\ mid \in Seq(Node) /\ RangeSetM!IsCanonical(mid)
        /\ \A t \in 1..Len(mid) :
             \/ mid[t].from = rs[a].from /\ mid[t].to < q.from /\ q.from > rs[a].from
             \/ mid[t].from = q.to + 1 /\ mid[t].to = rs[b].to
        /\ \A x : x \in RangeSetM!Denotes(mid) <=>
                   \/ x \in rs[a].from..rs[a].to /\ x < q.from
                   \/ x \in rs[b].from..rs[b].to /\ q.to < x
    BY <2>3, <2>4, RemainIs
  <2> HIDE DEF mid
  <2>6. a \in 1..(L + 1) /\ b \in (a - 1)..L /\ a \in Int /\ b \in Int
    BY <1>1, <2>2, <2>3
  <2>7. ASSUME NEW j \in 1..(a - 1), NEW t \in 1..Len(mid) PROVE rs[j].to + 1 < mid[t].from
    <3>1. j \in 1..L /\ j < a
      BY <1>1, <2>3, <2>6
    <3>2. rs[j].to + 1 < rs[a].from /\ rs[j].to \in Int
      BY <1>1, <2>3, <3>1
    <3>3. mid[t].from = rs[a].from \/ mid[t].from = q.to + 1
      BY <2>5
    <3>4. rs[a].from <= q.to /\ rs[a].from \in Int /\ q.to \in Int
      BY <1>3, <2>3, <2>4
    <3>5. rs[j].to + 1 < q.to + 1
      BY <3>2, <3>4
    <3>6. QED
      BY <3>2, <3>3, <3>5
  <2>8. ASSUME NEW t \in 1..Len(mid), NEW j \in (b + 1)..L PROVE mid[t].to + 1 < rs[j].from
    <3>1. j \in 1..L /\ b < j
      BY <1>1, <2>3, <2>6
    <3>2. rs[b].to + 1 < rs[j].from /\ rs[j].from \in Int
      BY <1>1, <2>3, <3>1
    <3>3. mid[t].to < q.from \/ mid[t].to = rs[b].to
      BY <2>5
    <3>4. mid[t].to \in Int
      <4>1. mid[t] \in Node
        BY <2>5, ElementOfSeq
      <4>2. QED
        BY <4>1 DEF Node
    <3>5. CASE mid[t].to = rs[b].to
      BY <3>2, <3>5
    <3>6. CASE mid[t].to < q.from
      <4>1. q.from <= rs[b].to /\ rs[b].to \in Int
        BY <2>3, <2>4
      <4>2. \A c, d, e, f \in Int : c < d /\ d <= e /\ e + 1 < f => c + 1 < f
        OBVIOUS
      <4>3. QED
        BY <1>3, <3>2, <3>4, <3>6, <4>1, <4>2
    <3>7. QED
      BY <3>3, <3>5, <3>6
  <2>9. RangeSetM!IsCanonical(s) /\ s \in Seq(Node)
    BY <2>1, <2>5, <2>6, <2>7, <2>8, SpliceCanonical, SpliceForms DEF L
  <2>10. ASSUME NEW x
         PROVE  x \in RangeSetM!Denotes(mid) <=>
                  (\E j \in a..b : x \in rs[j].from..rs[j].to) /\ x \notin q.from..q.to
    <3>1. ASSUME x \in RangeSetM!Denotes(mid)
          PROVE  (\E j \in a..b : x \in rs[j].from..rs[j].to) /\ x \notin q.from..q.to
      <4>1. \/ x \in rs[a].from..rs[a].to /\ x < q.from
            \/ x \in rs[b].from..rs[b].to /\ q.to < x
        BY <2>5, <3>1
      <4>2. x \notin q.from..q.to
        BY <1>3, <2>4, <4>1
      <4>3. a \in a..b /\ b \in a..b
        BY <2>2, <2>6
      <4>4. QED
        BY <4>1, <4>2, <4>3
    <3>2. ASSUME NEW j \in a..b, x \in rs[j].from..rs[j].to, x \notin q.from..q.to
          PROVE  x \in RangeSetM!Denotes(mid)
      <4>1. j \in 1..L /\ a <= j /\ j <= b
        BY <1>1, <2>3, <2>6
      <4>2. /\ rs[a].from <= rs[j].from /\ rs[j].to <= rs[b].to
            /\ rs[j].from \in Int /\ rs[j].to \in Int
        BY <1>1, <2>3, <4>1
      <4>3. x \in Int /\ rs[j].from <= x /\ x <= rs[j].to /\ (x < q.from \/ q.to < x)
        BY <1>3, <3>2, <4>2
      <4>4. CASE x < q.from
        <5>1. x \in rs[a].from..rs[a].to
          BY <1>3, <2>3, <2>4, <4>2, <4>3, <4>4
        <5>2. QED
          BY <2>5, <4>4, <5>1
      <4>5. CASE q.to < x
        <5>1. x \in rs[b].from..rs[b].to
          BY <1>3, <2>3, <2>4, <4>2, <4>3, <4>5
        <5>2. QED
          BY <2>5, <4>5, <5>1
      <4>6. QED
        BY <4>3, <4>4, <4>5
    <3>3. QED
      BY <3>1, <3>2
  <2>11. ASSUME NEW x
         PROVE  x \in RangeSetM!Denotes(s) <=>
                  x \in RangeSetM!Denotes(rs) /\ x \notin q.from..q.to
    <3>1. x \in RangeSetM!Denotes(s) <=>
             \/ \E j \in 1..(a - 1) : x \in rs[j].from..rs[j].to
             \/ x \in RangeSetM!Denotes(mid)
             \/ \E j \in (b + 1)..L : x \in rs[j].from..rs[j].to
      BY <2>1, <2>5, <2>6, SpliceDenotes DEF L
    <3>2. \A j : j \in 1..L <=> j \in 1..(a - 1) \/ j \in a..b \/ j \in (b + 1)..L
      BY <1>1, <2>2, <2>3, <2>6
    <3>3. \A j \in 1..L : j \in 1..(a - 1) \/ j \in (b + 1)..L => j \notin K
      BY <1>1, <2>2, <2>6
    <3>4. \A j \in 1..L : j \notin K /\ x \in rs[j].from..rs[j].to => x \notin q.from..q.to
      BY <1>5
    <3>5. QED
      BY <1>4, <2>10, <3>1, <3>2, <3>3, <3>4
  <2>12. QED
    BY <2>9, <2>11 DEF s
<1>8. QED
  BY <1>6, <1>7

(* A list of pieces: none is empty.                                        *)
Pieces(p) == p \in Seq(Node) /\ \A j \in 1..Len(p) : p[j].from <= p[j].to

(* One of the pieces holds x.                                              *)
Holds(p, x) == \E j \in 1..Len(p) : x \in p[j].from..p[j].to

(* The pieces of two lists put together.                                   *)
LEMMA PiecesConcat ==
    ASSUME NEW A, Pieces(A), NEW B, Pieces(B)
    PROVE  /\ Pieces(A \o B)
           /\ \A x : Holds(A \o B, x) <=> Holds(A, x) \/ Holds(B, x)
<1> DEFINE s == A \o B
           a == Len(A)
           b == Len(B)
<1>1. a \in Nat /\ b \in Nat
  BY DEF Pieces
<1>2. /\ s \in Seq(Node) /\ Len(s) = a + b
      /\ \A j \in 1..(a + b) : s[j] = IF j <= a THEN A[j] ELSE B[j - a]
  BY ConcatProperties DEF Pieces
<1> HIDE DEF s, a, b
<1>3. \A j \in 1..a : j \in 1..(a + b) /\ s[j] = A[j]
  BY <1>1, <1>2
<1>4. ASSUME NEW j \in 1..b PROVE a + j \in 1..(a + b) /\ s[a + j] = B[j]
  <2>1. a + j \in 1..(a + b) /\ ~(a + j <= a) /\ (a + j) - a = j
    BY <1>1
  <2>2. QED
    BY <1>2, <2>1
<1>5. ASSUME NEW j \in 1..(a + b)
      PROVE  \/ j \in 1..a /\ s[j] = A[j]
             \/ j - a \in 1..b /\ s[j] = B[j - a]
  <2>1. CASE j <= a
    BY <1>1, <1>3, <2>1
  <2>2. CASE ~(j <= a)
    <3>1. j - a \in 1..b
      BY <1>1, <2>2
    <3>2. QED
      BY <1>2, <2>2, <3>1
  <2>3. QED
    BY <2>1, <2>2
<1>6. Pieces(s)
  BY <1>2, <1>5 DEF Pieces, a, b
<1>7. \A x : Holds(s, x) <=> Holds(A, x) \/ Holds(B, x)
  <2>1. ASSUME NEW x, Holds(s, x) PROVE Holds(A, x) \/ Holds(B, x)
    BY <1>2, <1>5, <2>1 DEF Holds, a, b
  <2>2. ASSUME NEW x, Holds(A, x) PROVE Holds(s, x)
    BY <1>2, <1>3, <2>2 DEF Holds, a
  <2>3. ASSUME NEW x, Holds(B, x) PROVE Holds(s, x)
    BY <1>2, <1>4, <2>3 DEF Holds, b
  <2>4. QED
    BY <2>1, <2>2, <2>3
<1>8. QED
  BY <1>6, <1>7 DEF s

LEMMA OnePiece ==
    ASSUME NEW e \in Node, e.from <= e.to
    PROVE  Pieces(<<e>>) /\ \A x : Holds(<<e>>, x) <=> x \in e.from..e.to
<1> DEFINE p == <<e>>
<1>1. p \in Seq(Node) /\ Len(p) = 1 /\ p[1] = e
  OBVIOUS
<1> HIDE DEF p
<1>2. \A j : j \in 1..Len(p) <=> j = 1
  BY <1>1
<1>3. Pieces(p)
  BY <1>1, <1>2 DEF Pieces
<1>4. \A x : Holds(p, x) <=> x \in p[1].from..p[1].to
  BY <1>2 DEF Holds
<1>5. QED
  BY <1>1, <1>3, <1>4 DEF p

LEMMA RangeIs ==
    ASSUME NEW a \in Int, NEW b \in Int
    PROVE  LET e == RangeSetM!RangeInclusive(a, b)
           IN e \in Node /\ e.from = a /\ e.to = b
  BY DEF RangeSetM!RangeInclusive, Node

LEMMA PieceOrNone ==
    ASSUME NEW a \in Int, NEW b \in Int, NEW c \in BOOLEAN, c => a <= b
    PROVE  LET p == IF c THEN <<RangeSetM!RangeInclusive(a, b)>> ELSE << >>
           IN Pieces(p) /\ \A x : Holds(p, x) <=> c /\ x \in a..b
<1> DEFINE e == RangeSetM!RangeInclusive(a, b)
           p == <<e>>
<1>1. e \in Node /\ e.from = a /\ e.to = b
  BY RangeIs
<1> HIDE DEF e
<1>4. c => Pieces(p) /\ \A x : Holds(p, x) <=> x \in a..b
  BY <1>1, OnePiece
<1> HIDE DEF p
<1>5. Pieces(<< >>) /\ \A x : ~Holds(<< >>, x)
  BY DEF Pieces, Holds
<1>6. QED
  BY <1>4, <1>5 DEF p, e

(* The pieces union adds: what the range denotes and the list did not.     *)
LEMMA UnionPiecesIs ==
    ASSUME NEW rs \in Seq(Node), RangeSetM!IsCanonical(rs), NEW q \in Node, q.from <= q.to
    PROVE  LET p == RangeSetM!UnionPieces(rs, q)
           IN /\ Pieces(p)
              /\ \A x : Holds(p, x) <=> x \in q.from..q.to /\ x \notin RangeSetM!Denotes(rs)
<1> DEFINE k == RangeSetM!FirstReached(rs, q)
           m == RangeSetM!LastAbsorbed(rs, k, q)
           L == Len(rs)
           apart == k > L \/ ~RangeSetM!ReachesUp(rs[k], q)
           p == RangeSetM!UnionPieces(rs, q)
<1>1. /\ DOMAIN rs = 1..L /\ L \in Nat
      /\ \A j \in 1..L : /\ rs[j] \in Node
                        /\ rs[j].from \in Int /\ rs[j].to \in Int
                        /\ rs[j].from <= rs[j].to
      /\ \A j, t \in 1..L : j < t => rs[j].to + 1 < rs[t].from
      /\ \A j, t \in 1..L : j <= t => rs[j].from <= rs[t].from /\ rs[j].to <= rs[t].to
  BY CanonicalIs
<1>2. /\ k \in 1..(L + 1)
      /\ \A j \in 1..(k - 1) : rs[j].to + 1 < q.from
      /\ apart => \A j \in k..L : q.to + 1 < rs[j].from
      /\ ~apart => /\ k \in 1..L /\ m \in k..L
                   /\ q.from <= rs[k].to + 1 /\ rs[k].from <= q.to + 1
                   /\ rs[m].from <= q.to + 1
                   /\ \A j \in (m + 1)..L : q.to + 1 < rs[j].from
  BY UnionPlaceIs
<1>3. q.from \in Int /\ q.to \in Int
  BY DEF Node
<1>4. \A x : x \in RangeSetM!Denotes(rs) <=> \E j \in 1..L : x \in rs[j].from..rs[j].to
  BY <1>1 DEF RangeSetM!Denotes
<1>5. CASE apart
  <2>1. p = <<q>>
    BY <1>5 DEF RangeSetM!UnionPieces
  <2>3. \A j \in k..L : q.to + 1 < rs[j].from
    BY <1>2, <1>5
  <2>6. Pieces(p) /\ \A x : Holds(p, x) <=> x \in q.from..q.to
    BY <2>1, OnePiece
  <2> HIDE DEF p, k, L
  <2>7. ASSUME NEW x \in q.from..q.to, NEW j \in 1..L, x \in rs[j].from..rs[j].to PROVE FALSE
    <3>1. j \in 1..(k - 1) \/ j \in k..L
      BY <1>1, <1>2
    <3>2. rs[j].to + 1 < q.from \/ q.to + 1 < rs[j].from
      BY <1>2, <2>3, <3>1
    <3>3. QED
      BY <1>1, <1>3, <2>7, <3>2
  <2>8. QED
    BY <1>4, <2>6, <2>7 DEF p
<1>6. CASE ~apart
  <2> DEFINE lower == IF q.from < rs[k].from
                      THEN <<RangeSetM!RangeInclusive(q.from, rs[k].from - 1)>> ELSE << >>
             mid == [j \in 1..(m - k) |->
                       RangeSetM!RangeInclusive(rs[k + j - 1].to + 1, rs[k + j].from - 1)]
             upper == IF q.to > rs[m].to
                      THEN <<RangeSetM!RangeInclusive(rs[m].to + 1, q.to)>> ELSE << >>
  <2>1. p = lower \o mid \o upper
    BY <1>6 DEF RangeSetM!UnionPieces
  <2>2. /\ k \in 1..L /\ m \in k..L
        /\ q.from <= rs[k].to + 1 /\ rs[k].from <= q.to + 1
        /\ rs[m].from <= q.to + 1
        /\ \A j \in (m + 1)..L : q.to + 1 < rs[j].from
    BY <1>2, <1>6
  <2> HIDE DEF m, k, L
  <2>3. m \in 1..L /\ k \in Int /\ m \in Int /\ k <= m
    BY <1>1, <2>2
  <2>4. /\ rs[k].from \in Int /\ rs[k].to \in Int /\ rs[m].from \in Int /\ rs[m].to \in Int
        /\ rs[k].from <= rs[m].from /\ rs[k].to <= rs[m].to
        /\ rs[k].from <= rs[k].to /\ rs[m].from <= rs[m].to
    BY <1>1, <2>2, <2>3
  <2>5. Pieces(lower) /\ \A x : Holds(lower, x) <=> q.from < rs[k].from /\ x \in q.from..(rs[k].from - 1)
    <3>1. /\ rs[k].from - 1 \in Int /\ (q.from < rs[k].from) \in BOOLEAN
          /\ q.from < rs[k].from => q.from <= rs[k].from - 1
      BY <1>3, <2>4
    <3>2. QED
      BY <1>3, <3>1, PieceOrNone
  <2>6. Pieces(upper) /\ \A x : Holds(upper, x) <=> q.to > rs[m].to /\ x \in (rs[m].to + 1)..q.to
    <3>1. /\ rs[m].to + 1 \in Int /\ (q.to > rs[m].to) \in BOOLEAN
          /\ q.to > rs[m].to => rs[m].to + 1 <= q.to
      BY <1>3, <2>4
    <3>2. QED
      BY <1>3, <3>1, PieceOrNone
  <2>7. Pieces(mid) /\ \A x : Holds(mid, x) <=>
                          \E j \in k..(m - 1) : x \in (rs[j].to + 1)..(rs[j + 1].from - 1)
    <3>1. ASSUME NEW j \in 1..(m - k)
          PROVE  LET i1 == k + j - 1
                 IN /\ i1 \in k..(m - 1) /\ mid[j] \in Node
                    /\ mid[j].from = rs[i1].to + 1 /\ mid[j].to = rs[i1 + 1].from - 1
                    /\ mid[j].from <= mid[j].to
      <4> DEFINE i1 == k + j - 1
      <4>1. /\ i1 \in k..(m - 1) /\ i1 \in 1..L /\ i1 + 1 \in 1..L /\ k + j = i1 + 1
            /\ i1 < i1 + 1
        <5>1. L \in Int /\ k \in Int /\ m \in Int /\ 1 <= k /\ m <= L /\ j \in Int /\ 1 <= j /\ j <= m - k
          BY <1>1, <2>2, <2>3
        <5>2. i1 \in Int /\ k <= i1 /\ i1 <= m - 1 /\ k + j = i1 + 1
          BY <5>1
        <5> HIDE DEF i1
        <5>3. QED
          BY <5>1, <5>2
      <4> DEFINE below == k + j
      <4>a. mid[j] = RangeSetM!RangeInclusive(rs[i1].to + 1, rs[below].from - 1)
        OBVIOUS
      <4>b. below = i1 + 1
        BY <4>1
      <4> HIDE DEF i1, mid, below
      <4>2. mid[j] = RangeSetM!RangeInclusive(rs[i1].to + 1, rs[i1 + 1].from - 1)
        BY <4>a, <4>b
      <4>3. /\ rs[i1].to \in Int /\ rs[i1 + 1].from \in Int /\ rs[i1].to + 1 < rs[i1 + 1].from
        BY <1>1, <4>1
      <4>4. /\ mid[j] \in Node /\ mid[j].from = rs[i1].to + 1 /\ mid[j].to = rs[i1 + 1].from - 1
        <5>1. rs[i1].to + 1 \in Int /\ rs[i1 + 1].from - 1 \in Int
          BY <4>3
        <5>2. QED
          BY <4>2, <5>1, RangeIs
      <4>5. mid[j].from <= mid[j].to
        BY <4>3, <4>4
      <4>6. QED
        BY <4>1, <4>4, <4>5 DEF i1
    <3>2. mid \in Seq(Node) /\ Len(mid) = m - k
      <4>1. m - k \in Nat
        BY <2>3
      <4>2. DOMAIN mid = 1..(m - k) /\ mid = [j \in 1..(m - k) |-> mid[j]]
        OBVIOUS
      <4> HIDE DEF mid
      <4>3. mid \in [1..(m - k) -> Node]
        BY <3>1, <4>2
      <4>4. mid \in Seq(Node)
        BY <4>1, <4>3, SeqDef
      <4>5. QED
        BY <4>1, <4>2, <4>4, LenProperties
    <3> HIDE DEF mid
    <3>3. Pieces(mid)
      BY <3>1, <3>2 DEF Pieces
    <3>4. ASSUME NEW x, Holds(mid, x)
          PROVE  \E j \in k..(m - 1) : x \in (rs[j].to + 1)..(rs[j + 1].from - 1)
      <4>1. PICK j \in 1..(m - k) : x \in mid[j].from..mid[j].to
        BY <3>2, <3>4 DEF Holds
      <4>2. QED
        BY <3>1, <4>1
    <3>5. ASSUME NEW x, NEW j \in k..(m - 1), x \in (rs[j].to + 1)..(rs[j + 1].from - 1)
          PROVE  Holds(mid, x)
      <4>1. j - k + 1 \in 1..(m - k) /\ k + (j - k + 1) - 1 = j
        BY <2>3
      <4>2. x \in mid[j - k + 1].from..mid[j - k + 1].to
        BY <3>1, <3>5, <4>1
      <4>3. QED
        BY <3>2, <4>1, <4>2 DEF Holds
    <3>6. QED
      BY <3>3, <3>4, <3>5
  <2> HIDE DEF lower, mid, upper, p
  <2>8. Pieces(p) /\ \A x : Holds(p, x) <=> Holds(lower, x) \/ Holds(mid, x) \/ Holds(upper, x)
    <3>1. /\ Pieces(lower \o mid)
          /\ \A x : Holds(lower \o mid, x) <=> Holds(lower, x) \/ Holds(mid, x)
      BY <2>5, <2>7, PiecesConcat
    <3>2. p = (lower \o mid) \o upper
      BY <2>1
    <3> DEFINE lm == lower \o mid
    <3>3. Pieces(lm) /\ p = lm \o upper
      BY <3>1, <3>2
    <3> HIDE DEF lm
    <3>4. Pieces(lm \o upper) /\ \A x : Holds(lm \o upper, x) <=> Holds(lm, x) \/ Holds(upper, x)
      BY <2>6, <3>3, PiecesConcat
    <3>5. QED
      BY <3>1, <3>3, <3>4 DEF lm
  <2>9. ASSUME NEW x, Holds(p, x)
        PROVE  x \in q.from..q.to /\ x \notin RangeSetM!Denotes(rs)
    <3>1. CASE Holds(lower, x)
      <4>1. x \in Int /\ q.from <= x /\ x < rs[k].from
        BY <1>3, <2>4, <2>5, <3>1
      <4>2. x \in q.from..q.to
        BY <1>3, <2>2, <2>4, <4>1
      <4>3. ASSUME NEW j \in 1..L PROVE x \notin rs[j].from..rs[j].to
        <5>1. j \in 1..(k - 1) \/ k <= j
          BY <1>1, <2>3
        <5>2. rs[j].to + 1 < q.from \/ rs[k].from <= rs[j].from
          BY <1>1, <1>2, <2>2, <5>1
        <5>3. rs[j].from \in Int /\ rs[j].to \in Int
          BY <1>1
        <5>4. QED
          BY <1>3, <2>4, <4>1, <5>2, <5>3
      <4>4. QED
        BY <1>4, <4>2, <4>3
    <3>2. CASE Holds(upper, x)
      <4>1. x \in Int /\ rs[m].to < x /\ x <= q.to
        BY <1>3, <2>4, <2>6, <3>2
      <4>2. x \in q.from..q.to
        BY <1>3, <2>2, <2>4, <4>1
      <4>3. ASSUME NEW j \in 1..L PROVE x \notin rs[j].from..rs[j].to
        <5>1. j \in (m + 1)..L \/ j <= m
          BY <1>1, <2>3
        <5>2. q.to + 1 < rs[j].from \/ rs[j].to <= rs[m].to
          BY <1>1, <2>2, <2>3, <5>1
        <5>3. rs[j].from \in Int /\ rs[j].to \in Int
          BY <1>1
        <5>4. QED
          BY <1>3, <2>4, <4>1, <5>2, <5>3
      <4>4. QED
        BY <1>4, <4>2, <4>3
    <3>3. CASE Holds(mid, x)
      <4>1. PICK t \in k..(m - 1) : x \in (rs[t].to + 1)..(rs[t + 1].from - 1)
        BY <2>7, <3>3
      <4>2. t \in 1..L /\ t + 1 \in 1..L /\ k <= t /\ t + 1 <= m /\ t \in Int
        BY <1>1, <2>2, <2>3
      <4>3. /\ rs[t].to \in Int /\ rs[t + 1].from \in Int
            /\ rs[k].to <= rs[t].to /\ rs[t + 1].from <= rs[m].from
        BY <1>1, <2>2, <2>3, <4>2
      <4>4. x \in Int /\ rs[t].to < x /\ x < rs[t + 1].from
        BY <4>1, <4>3
      <4>5. x \in q.from..q.to
        <5>1. q.from <= x
          <6>1. \A c, d, e, f \in Int : c <= d + 1 /\ d <= e /\ e < f => c <= f
            OBVIOUS
          <6>2. q.from <= rs[k].to + 1 /\ rs[k].to <= rs[t].to /\ rs[t].to < x
            BY <2>2, <4>3, <4>4
          <6>3. q.from \in Int /\ rs[k].to \in Int /\ rs[t].to \in Int /\ x \in Int
            BY <1>3, <2>4, <4>3, <4>4
          <6>4. QED
            BY <6>1, <6>2, <6>3
        <5>2. x <= q.to
          <6>1. \A c, d, e, f \in Int : c < d /\ d <= e /\ e <= f + 1 => c <= f
            OBVIOUS
          <6>2. x < rs[t + 1].from /\ rs[t + 1].from <= rs[m].from /\ rs[m].from <= q.to + 1
            BY <2>2, <4>3, <4>4
          <6>3. q.to \in Int /\ rs[m].from \in Int /\ rs[t + 1].from \in Int /\ x \in Int
            BY <1>3, <2>4, <4>3, <4>4
          <6>4. QED
            BY <6>1, <6>2, <6>3
        <5>3. QED
          BY <1>3, <4>4, <5>1, <5>2
      <4>6. ASSUME NEW j \in 1..L PROVE x \notin rs[j].from..rs[j].to
        <5>1. j <= t \/ t + 1 <= j
          BY <4>2
        <5>2. rs[j].to <= rs[t].to \/ rs[t + 1].from <= rs[j].from
          BY <1>1, <4>2, <5>1
        <5>3. rs[j].from \in Int /\ rs[j].to \in Int
          BY <1>1
        <5>4. QED
          BY <4>3, <4>4, <5>2, <5>3
      <4>7. QED
        BY <1>4, <4>5, <4>6
    <3>4. QED
      BY <2>8, <2>9, <3>1, <3>2, <3>3
  <2>10. ASSUME NEW x \in q.from..q.to, x \notin RangeSetM!Denotes(rs)
         PROVE  Holds(p, x)
    <3>1. x \in Int /\ q.from <= x /\ x <= q.to
      BY <1>3
    <3>2. CASE x < rs[k].from
      <4>1. q.from < rs[k].from /\ x \in q.from..(rs[k].from - 1)
        BY <1>3, <2>4, <3>1, <3>2
      <4>2. QED
        BY <2>5, <2>8, <4>1
    <3>3. CASE x > rs[m].to
      <4>1. q.to > rs[m].to /\ x \in (rs[m].to + 1)..q.to
        BY <1>3, <2>4, <3>1, <3>3
      <4>2. QED
        BY <2>6, <2>8, <4>1
    <3>4. CASE rs[k].from <= x /\ x <= rs[m].to
      <4> DEFINE S == {j \in k..m : rs[j].from <= x}
                 t == Max(S)
      <4>1. S \in SUBSET Nat /\ S # {} /\ m \in Nat /\ \A y \in S : y <= m
        <5>1. L \in Nat /\ k \in Nat /\ m \in Nat
          BY <1>1, <2>2, <2>3
        <5>2. k..m \subseteq Nat /\ k \in k..m
          BY <2>3, <5>1
        <5>3. k \in S
          BY <3>4, <5>2
        <5>4. S \subseteq k..m
          OBVIOUS
        <5>5. QED
          BY <5>1, <5>2, <5>3, <5>4
      <4> HIDE DEF S
      <4>2. t \in S /\ \A y \in S : y <= t
        BY <4>1, MaxIs
      <4> HIDE DEF t
      <4>3. t \in k..m /\ rs[t].from <= x /\ t \in 1..L /\ t \in Int
        BY <1>1, <2>2, <2>3, <4>2 DEF S
      <4>4. rs[t].from \in Int /\ rs[t].to \in Int
        BY <1>1, <4>3
      <4>5. rs[t].to < x
        BY <1>4, <2>10, <3>1, <4>3, <4>4
      <4>6. t # m
        BY <2>4, <3>1, <3>4, <4>5
      <4>7. t \in k..(m - 1) /\ t + 1 \in k..m /\ t + 1 \in 1..L /\ ~(t + 1 <= t)
        BY <1>1, <2>2, <2>3, <4>3, <4>6
      <4>8. ~(rs[t + 1].from <= x) /\ rs[t + 1].from \in Int
        BY <1>1, <4>2, <4>7 DEF S
      <4>9. x \in (rs[t].to + 1)..(rs[t + 1].from - 1)
        BY <3>1, <4>4, <4>5, <4>8
      <4>10. QED
        BY <2>7, <2>8, <4>7, <4>9
    <3>5. QED
      BY <2>4, <3>1, <3>2, <3>3, <3>4
  <2>11. QED
    BY <2>8, <2>9, <2>10 DEF p
<1>7. QED
  BY <1>5, <1>6

(* The pieces subtract takes out: what the list and the range share.       *)
LEMMA SubtractPiecesIs ==
    ASSUME NEW rs \in Seq(Node), RangeSetM!IsCanonical(rs), NEW q \in Node, q.from <= q.to
    PROVE  LET p == RangeSetM!SubtractPieces(rs, q)
           IN /\ Pieces(p)
              /\ \A x : Holds(p, x) <=> x \in q.from..q.to /\ x \in RangeSetM!Denotes(rs)
<1> DEFINE K == RangeSetM!Overlapped(rs, q)
           L == Len(rs)
           p == RangeSetM!SubtractPieces(rs, q)
<1>1. /\ DOMAIN rs = 1..L /\ L \in Nat
      /\ \A j \in 1..L : /\ rs[j] \in Node
                        /\ rs[j].from \in Int /\ rs[j].to \in Int
                        /\ rs[j].from <= rs[j].to
  BY CanonicalIs
<1>2. /\ \A j : j \in K <=> j \in 1..L /\ q.from <= rs[j].to /\ rs[j].from <= q.to
      /\ K # {} => /\ RangeSetM!Min(K) \in K /\ RangeSetM!Max(K) \in K
                   /\ RangeSetM!Min(K) <= RangeSetM!Max(K)
                   /\ K = RangeSetM!Min(K)..RangeSetM!Max(K)
  BY OverlappedIs
<1>3. q.from \in Int /\ q.to \in Int
  BY DEF Node
<1>4. \A x : x \in RangeSetM!Denotes(rs) <=> \E j \in 1..L : x \in rs[j].from..rs[j].to
  BY <1>1 DEF RangeSetM!Denotes
<1>5. ASSUME NEW j \in 1..L, NEW x \in rs[j].from..rs[j].to, x \in q.from..q.to
      PROVE  j \in K
  <2>1. rs[j].from \in Int /\ rs[j].to \in Int
    BY <1>1
  <2>2. q.from <= rs[j].to /\ rs[j].from <= q.to
    BY <1>3, <1>5, <2>1
  <2>3. QED
    BY <1>2, <2>2
<1>6. CASE K = {}
  <2>1. p = << >>
    BY <1>6 DEF RangeSetM!SubtractPieces
  <2>2. Pieces(<< >>) /\ \A x : ~Holds(<< >>, x)
    BY DEF Pieces, Holds
  <2> HIDE DEF K, p, L
  <2>3. QED
    BY <1>4, <1>5, <1>6, <2>1, <2>2 DEF p
<1>7. CASE K # {}
  <2> DEFINE a == RangeSetM!Min(K)
             b == RangeSetM!Max(K)
             piece(n) == RangeSetM!RangeInclusive(Max({q.from, n.from}), Min({q.to, n.to}))
             s == [j \in 1..(b - a + 1) |-> piece(rs[a + j - 1])]
  <2>1. p = s
    BY <1>7, MinMaxSame DEF RangeSetM!SubtractPieces
  <2>2. a \in K /\ b \in K /\ a <= b /\ K = a..b
    BY <1>2, <1>7
  <2> HIDE DEF K, p, L, a, b
  <2>3. a \in 1..L /\ b \in 1..L /\ a \in Int /\ b \in Int /\ b - a + 1 \in Nat
    <3>1. L \in Nat
      BY <1>1
    <3>2. a \in 1..L /\ b \in 1..L
      BY <1>2, <2>2
    <3>3. QED
      BY <2>2, <3>1, <3>2
  <2>4. ASSUME NEW j \in a..b
        PROVE  /\ piece(rs[j]) \in Node /\ piece(rs[j]).from <= piece(rs[j]).to
               /\ \A x : x \in piece(rs[j]).from..piece(rs[j]).to <=>
                          x \in q.from..q.to /\ x \in rs[j].from..rs[j].to
    <3> DEFINE f == Max({q.from, rs[j].from})
               t == Min({q.to, rs[j].to})
    <3>1. /\ j \in 1..L /\ q.from <= rs[j].to /\ rs[j].from <= q.to
      BY <1>2, <2>2
    <3>2. rs[j].from \in Int /\ rs[j].to \in Int /\ rs[j].from <= rs[j].to
      BY <1>1, <3>1
    <3>3. f = (IF q.from <= rs[j].from THEN rs[j].from ELSE q.from)
      BY <1>3, <3>2, PairIs
    <3>4. t = (IF q.to <= rs[j].to THEN q.to ELSE rs[j].to)
      BY <1>3, <3>2, PairIs
    <3> HIDE DEF f, t
    <3>5. f \in Int /\ t \in Int /\ f <= t
      BY <1>3, <3>1, <3>2, <3>3, <3>4
    <3>6. piece(rs[j]) \in Node /\ piece(rs[j]).from = f /\ piece(rs[j]).to = t
      BY <3>5 DEF f, t, RangeSetM!RangeInclusive, Node
    <3> HIDE DEF piece
    <3>7. \A x : x \in f..t <=> x \in q.from..q.to /\ x \in rs[j].from..rs[j].to
      BY <1>3, <3>2, <3>3, <3>4
    <3>8. QED
      BY <3>5, <3>6, <3>7
  <2> HIDE DEF piece
  <2>5. ASSUME NEW j \in 1..(b - a + 1) PROVE a + j - 1 \in a..b /\ s[j] = piece(rs[a + j - 1])
    BY <2>3
  <2>6. s \in Seq(Node) /\ Len(s) = b - a + 1
    <3>1. DOMAIN s = 1..(b - a + 1) /\ s = [j \in 1..(b - a + 1) |-> s[j]]
      OBVIOUS
    <3> HIDE DEF s
    <3>2. s \in [1..(b - a + 1) -> Node]
      BY <2>4, <2>5, <3>1
    <3>3. s \in Seq(Node)
      BY <2>3, <3>2, SeqDef
    <3>4. QED
      BY <2>3, <3>1, <3>3, LenProperties
  <2> HIDE DEF s
  <2>7. Pieces(s)
    BY <2>4, <2>5, <2>6 DEF Pieces
  <2>8. ASSUME NEW x, Holds(s, x) PROVE x \in q.from..q.to /\ x \in RangeSetM!Denotes(rs)
    <3>1. PICK j \in 1..(b - a + 1) : x \in s[j].from..s[j].to
      BY <2>6, <2>8 DEF Holds
    <3>2. a + j - 1 \in a..b /\ a + j - 1 \in 1..L
      BY <2>2, <2>5, <1>2
    <3>3. x \in q.from..q.to /\ x \in rs[a + j - 1].from..rs[a + j - 1].to
      BY <2>4, <2>5, <3>1, <3>2
    <3>4. QED
      BY <1>4, <3>2, <3>3
  <2>9. ASSUME NEW x, x \in q.from..q.to, x \in RangeSetM!Denotes(rs) PROVE Holds(s, x)
    <3>1. PICK j \in 1..L : x \in rs[j].from..rs[j].to
      BY <1>4, <2>9
    <3>2. j \in a..b
      BY <1>5, <2>2, <2>9, <3>1
    <3>3. j - a + 1 \in 1..(b - a + 1) /\ a + (j - a + 1) - 1 = j
      BY <2>3, <3>2
    <3>4. s[j - a + 1] = piece(rs[j])
      BY <2>5, <3>3
    <3>5. x \in s[j - a + 1].from..s[j - a + 1].to
      BY <2>4, <2>9, <3>1, <3>2, <3>4
    <3>6. QED
      BY <2>6, <3>3, <3>5 DEF Holds
  <2>10. QED
    BY <2>1, <2>7, <2>8, <2>9 DEF p
<1>8. QED
  BY <1>6, <1>7

(* The union of pieces with an empty list or with another one.             *)
LEMMA UnionPieceList ==
    ASSUME NEW rs \in Seq(Node), RangeSetM!IsCanonical(rs), NEW p, Pieces(p)
    PROVE  LET s == RangeSetM!UnionAll(rs, p)
           IN /\ s \in Seq(Node) /\ RangeSetM!IsCanonical(s)
              /\ \A x : x \in RangeSetM!Denotes(s) <=> x \in RangeSetM!Denotes(rs) \/ Holds(p, x)
<1>1. p \in Seq(Node) /\ \A j \in 1..Len(p) : p[j].from <= p[j].to
  BY DEF Pieces
<1>2. QED
  BY <1>1, UnionAllIs DEF Holds

(* Contains looks at one node at a time, and that is enough.               *)
LEMMA ContainsIs ==
    ASSUME NEW rs \in Seq(Node), RangeSetM!IsCanonical(rs), NEW q \in Node, q.from <= q.to
    PROVE  RangeSetM!Contains(rs, q) <=> q.from..q.to \subseteq RangeSetM!Denotes(rs)
<1> DEFINE L == Len(rs)
<1>1. /\ DOMAIN rs = 1..L /\ L \in Nat
      /\ \A j \in 1..L : /\ rs[j].from \in Int /\ rs[j].to \in Int
                        /\ rs[j].from <= rs[j].to
      /\ \A j, t \in 1..L : j < t => rs[j].to + 1 < rs[t].from
  BY CanonicalIs
<1>2. q.from \in Int /\ q.to \in Int
  BY DEF Node
<1> HIDE DEF L
<1>3. \A x : x \in RangeSetM!Denotes(rs) <=> \E j \in 1..L : x \in rs[j].from..rs[j].to
  BY <1>1 DEF RangeSetM!Denotes
<1>4. RangeSetM!Contains(rs, q) <=> \E j \in 1..L : rs[j].from <= q.from /\ q.to <= rs[j].to
  BY <1>1 DEF RangeSetM!Contains
<1>5. ASSUME NEW j \in 1..L, rs[j].from <= q.from, q.to <= rs[j].to, NEW x \in q.from..q.to
      PROVE  x \in RangeSetM!Denotes(rs)
  <2>1. rs[j].from \in Int /\ rs[j].to \in Int
    BY <1>1
  <2>2. x \in rs[j].from..rs[j].to
    BY <1>2, <1>5, <2>1
  <2>3. QED
    BY <1>3, <2>2
<1>6. ASSUME q.from..q.to \subseteq RangeSetM!Denotes(rs)
      PROVE  \E j \in 1..L : rs[j].from <= q.from /\ q.to <= rs[j].to
  <2>1. q.from \in q.from..q.to
    BY <1>2
  <2>2. PICK j \in 1..L : q.from \in rs[j].from..rs[j].to
    BY <1>3, <1>6, <2>1
  <2>3. rs[j].from \in Int /\ rs[j].to \in Int /\ rs[j].from <= q.from /\ q.from <= rs[j].to
    BY <1>1, <2>2
  <2>4. ASSUME ~(q.to <= rs[j].to) PROVE FALSE
    <3> DEFINE y == rs[j].to + 1
    <3>1. y \in q.from..q.to
      BY <1>2, <2>3, <2>4
    <3>2. PICK t \in 1..L : y \in rs[t].from..rs[t].to
      BY <1>3, <1>6, <3>1
    <3>3. rs[t].from \in Int /\ rs[t].to \in Int /\ rs[t].from <= y /\ y <= rs[t].to
      BY <1>1, <3>2
    <3>4. t # j
      BY <2>3, <3>3
    <3>5. ~(j < t)
      BY <1>1, <3>3
    <3>6. ~(t < j)
      <4>1. t < j => rs[t].to + 1 < rs[j].from
        BY <1>1
      <4>2. rs[j].from <= rs[j].to
        BY <1>1
      <4>3. QED
        BY <2>3, <3>3, <4>1, <4>2
    <3>7. QED
      BY <3>4, <3>5, <3>6
  <2>5. QED
    BY <2>3, <2>4
<1>7. QED
  BY <1>4, <1>5, <1>6

(* Remove changes the one node that holds the number, as subtract does. *)
LEMMA RemoveIs ==
    ASSUME NEW rs \in Seq(Node), RangeSetM!IsCanonical(rs), NEW s \in Int
    PROVE  LET k == RangeSetM!Min({j \in DOMAIN rs : s <= rs[j].to} \cup {Len(rs) + 1})
               q == RangeSetM!RangeInclusive(s, s)
           IN /\ k > Len(rs) \/ s < rs[k].from => s \notin RangeSetM!Denotes(rs)
              /\ ~(k > Len(rs) \/ s < rs[k].from) =>
                   /\ s \in RangeSetM!Denotes(rs)
                   /\ RangeSetM!Splice(rs, k, k, RangeSetM!RemainLower(rs[k], q)
                                                   \o RangeSetM!RemainUpper(rs[k], q))
                        = RangeSetM!SubtractNodes(rs, q)
<1> DEFINE L == Len(rs)
           S == {j \in DOMAIN rs : s <= rs[j].to} \cup {L + 1}
           k == RangeSetM!Min(S)
           q == RangeSetM!RangeInclusive(s, s)
           K == RangeSetM!Overlapped(rs, q)
<1>1. /\ DOMAIN rs = 1..L /\ L \in Nat
      /\ \A j \in 1..L : /\ rs[j].from \in Int /\ rs[j].to \in Int
                        /\ rs[j].from <= rs[j].to
      /\ \A j, t \in 1..L : j < t => rs[j].to + 1 < rs[t].from
      /\ \A j, t \in 1..L : j <= t => rs[j].from <= rs[t].from /\ rs[j].to <= rs[t].to
  BY CanonicalIs
<1>2. q \in Node /\ q.from = s /\ q.to = s
  BY DEF RangeSetM!RangeInclusive, Node
<1>3. k \in S /\ \A y \in S : k <= y
  <2>1. S \in SUBSET Nat /\ S # {}
    BY <1>1
  <2>2. k = Min(S)
    BY MinMaxSame
  <2> HIDE DEF S, k
  <2>3. QED
    BY <2>1, <2>2, MinIs
<1>4. \A x : x \in RangeSetM!Denotes(rs) <=> \E j \in 1..L : x \in rs[j].from..rs[j].to
  BY <1>1 DEF RangeSetM!Denotes
<1>5. \A j \in 1..L : j \in S <=> s <= rs[j].to
  BY <1>1
<1>6. k \in 1..L \/ k = L + 1
  BY <1>1, <1>3
<1> HIDE DEF S, k, L
<1>7. ASSUME k > L \/ s < rs[k].from, NEW j \in 1..L, s \in rs[j].from..rs[j].to PROVE FALSE
  <2>1. rs[j].from \in Int /\ rs[j].to \in Int /\ rs[j].from <= s /\ s <= rs[j].to
    BY <1>1, <1>7
  <2>2. k <= j
    BY <1>3, <1>5, <2>1
  <2>3. k \in 1..L /\ ~(k > L)
    BY <1>1, <1>6, <2>2
  <2>4. rs[k].from <= rs[j].from /\ rs[k].from \in Int
    BY <1>1, <2>2, <2>3
  <2>5. QED
    BY <1>7, <2>1, <2>3, <2>4
<1>8. ASSUME ~(k > L \/ s < rs[k].from)
      PROVE  /\ s \in RangeSetM!Denotes(rs)
             /\ RangeSetM!Splice(rs, k, k, RangeSetM!RemainLower(rs[k], q)
                                            \o RangeSetM!RemainUpper(rs[k], q))
                  = RangeSetM!SubtractNodes(rs, q)
  <2>1. k \in 1..L
    BY <1>1, <1>6, <1>8
  <2>2. rs[k].from \in Int /\ rs[k].to \in Int /\ rs[k].from <= s /\ s <= rs[k].to
    BY <1>1, <1>3, <1>5, <1>8, <2>1
  <2>3. s \in rs[k].from..rs[k].to
    BY <2>2
  <2>4. /\ \A j : j \in K <=> j \in 1..L /\ q.from <= rs[j].to /\ rs[j].from <= q.to
        /\ K # {} => RangeSetM!Min(K) \in K /\ RangeSetM!Max(K) \in K
    <3>1. q.from <= q.to
      BY <1>2
    <3> HIDE DEF q
    <3>2. QED
      BY <1>2, <3>1, OverlappedIs DEF L
  <2> HIDE DEF K, q
  <2>5. k \in K
    BY <1>2, <2>1, <2>2, <2>4
  <2>6. ASSUME NEW j \in K PROVE j = k
    <3>1. j \in 1..L /\ s <= rs[j].to /\ rs[j].from <= s /\ rs[j].from \in Int /\ rs[j].to \in Int
      BY <1>1, <1>2, <2>4
    <3>2. ~(j < k)
      BY <1>1, <2>1, <2>2, <3>1
    <3>3. ~(k < j)
      BY <1>1, <2>1, <2>2, <3>1
    <3>4. QED
      BY <2>1, <3>1, <3>2, <3>3
  <2>7. K # {} /\ RangeSetM!Min(K) = k /\ RangeSetM!Max(K) = k
    BY <2>4, <2>5, <2>6
  <2>8. RangeSetM!SubtractNodes(rs, q)
          = RangeSetM!Splice(rs, k, k, RangeSetM!RemainLower(rs[k], q)
                                        \o RangeSetM!RemainUpper(rs[k], q))
    BY <2>7 DEF RangeSetM!SubtractNodes, K
  <2>9. QED
    BY <1>4, <2>1, <2>3, <2>8
<1>9. QED
  BY <1>4, <1>7, <1>8 DEF k, S, L

(* Both lists are sorted and their nodes are separate: every loop relies   *)
(* on it.                                                                  *)
RangeSetInv ==
    /\ nodes \in Seq(Node) /\ RangeSetM!IsCanonical(nodes)
    /\ ret \in Seq(Node) /\ RangeSetM!IsCanonical(ret)

LEMMA RangesAreNodes ==
    ASSUME NEW q \in RangeSetM!Ranges
    PROVE  q \in Node /\ q.from <= q.to /\ q.from \in RangeSetM!Seqs /\ q.to \in RangeSetM!Seqs
  BY RangeSetConstants DEF RangeSetM!Ranges, RangeSetM!Seqs, Node

LEMMA SingleRange ==
    ASSUME NEW s \in Int
    PROVE  LET q == RangeSetM!RangeInclusive(s, s)
           IN q \in Node /\ q.from = s /\ q.to = s /\ q.from <= q.to
  BY DEF RangeSetM!RangeInclusive, Node

LEMMA RangeSetInit == RangeSetM!Init => RangeSetInv /\ RangeSetM!Abstract!Init
<1> SUFFICES ASSUME RangeSetM!Init PROVE RangeSetInv /\ RangeSetM!Abstract!Init
  OBVIOUS
<1>1. nodes = << >> /\ ret = << >>
  BY DEF RangeSetM!Init
<1>2. RangeSetM!Denotes(nodes) = {} /\ RangeSetM!Denotes(ret) = {}
  BY <1>1, EmptyIs
<1>3. RangeSetInv
  BY <1>1, EmptyIs DEF RangeSetInv
<1>4. QED
  BY <1>2, <1>3 DEF RangeSetM!Abstract!Init

(* Each operation keeps the lists canonical and has the effect of its      *)
(* counterpart on sets.                                                    *)
LEMMA UnionStep ==
    ASSUME RangeSetInv, NEW q \in Node, q.from <= q.to, RangeSetM!Union(q)
    PROVE  RangeSetInv' /\ RangeSetM!Abstract!Union(q.from..q.to)
<1>1. nodes \in Seq(Node) /\ RangeSetM!IsCanonical(nodes)
  BY DEF RangeSetInv
<1>2. /\ nodes' \in Seq(Node) /\ RangeSetM!IsCanonical(nodes')
      /\ \A x : x \in RangeSetM!Denotes(nodes') <=> x \in RangeSetM!Denotes(nodes) \/ x \in q.from..q.to
  BY <1>1, UnionNodesIs DEF RangeSetM!Union
<1> DEFINE p == RangeSetM!UnionPieces(nodes, q)
<1>3. /\ Pieces(p)
      /\ \A x : Holds(p, x) <=> x \in q.from..q.to /\ x \notin RangeSetM!Denotes(nodes)
  BY <1>1, UnionPiecesIs
<1>4. ret' = RangeSetM!UnionAll(<< >>, p)
  BY DEF RangeSetM!Union
<1> HIDE DEF p
<1>5. /\ ret' \in Seq(Node) /\ RangeSetM!IsCanonical(ret')
      /\ \A x : x \in RangeSetM!Denotes(ret') <=> Holds(p, x)
  BY <1>3, <1>4, EmptyIs, UnionPieceList
<1>6. /\ RangeSetM!Denotes(nodes') = RangeSetM!Denotes(nodes) \cup (q.from..q.to)
      /\ RangeSetM!Denotes(ret') = (q.from..q.to) \ RangeSetM!Denotes(nodes)
  BY <1>2, <1>3, <1>5
<1>7. RangeSetInv'
  BY <1>2, <1>5 DEF RangeSetInv
<1>8. QED
  BY <1>6, <1>7 DEF RangeSetM!Abstract!Union, RangeSetM!Denotes

LEMMA SubtractStep ==
    ASSUME RangeSetInv, NEW q \in Node, q.from <= q.to, RangeSetM!Subtract(q)
    PROVE  RangeSetInv' /\ RangeSetM!Abstract!Subtract(q.from..q.to)
<1>1. nodes \in Seq(Node) /\ RangeSetM!IsCanonical(nodes)
  BY DEF RangeSetInv
<1>2. /\ nodes' \in Seq(Node) /\ RangeSetM!IsCanonical(nodes')
      /\ \A x : x \in RangeSetM!Denotes(nodes') <=> x \in RangeSetM!Denotes(nodes) /\ x \notin q.from..q.to
  BY <1>1, SubtractNodesIs DEF RangeSetM!Subtract
<1> DEFINE p == RangeSetM!SubtractPieces(nodes, q)
<1>3. /\ Pieces(p)
      /\ \A x : Holds(p, x) <=> x \in q.from..q.to /\ x \in RangeSetM!Denotes(nodes)
  BY <1>1, SubtractPiecesIs
<1>4. ret' = RangeSetM!UnionAll(<< >>, p)
  BY DEF RangeSetM!Subtract
<1> HIDE DEF p
<1>5. /\ ret' \in Seq(Node) /\ RangeSetM!IsCanonical(ret')
      /\ \A x : x \in RangeSetM!Denotes(ret') <=> Holds(p, x)
  BY <1>3, <1>4, EmptyIs, UnionPieceList
<1>6. /\ RangeSetM!Denotes(nodes') = RangeSetM!Denotes(nodes) \ (q.from..q.to)
      /\ RangeSetM!Denotes(ret') = RangeSetM!Denotes(nodes) \cap (q.from..q.to)
  BY <1>2, <1>3, <1>5
<1>7. RangeSetInv'
  BY <1>2, <1>5 DEF RangeSetInv
<1>8. QED
  BY <1>6, <1>7 DEF RangeSetM!Abstract!Subtract, RangeSetM!Denotes

LEMMA RemoveStep ==
    ASSUME RangeSetInv, NEW s \in Int, RangeSetM!Remove(s)
    PROVE  RangeSetInv' /\ RangeSetM!Abstract!Subtract(s..s)
<1> DEFINE q == RangeSetM!RangeInclusive(s, s)
           k == RangeSetM!Min({j \in DOMAIN nodes : s <= nodes[j].to} \cup {Len(nodes) + 1})
           absent == k > Len(nodes) \/ s < nodes[k].from
           rest == RangeSetM!Splice(nodes, k, k, RangeSetM!RemainLower(nodes[k], q)
                                                   \o RangeSetM!RemainUpper(nodes[k], q))
<1>1. nodes \in Seq(Node) /\ RangeSetM!IsCanonical(nodes)
  BY DEF RangeSetInv
<1>2. q \in Node /\ q.from = s /\ q.to = s /\ q.from <= q.to
  BY SingleRange
<1>3. /\ absent => s \notin RangeSetM!Denotes(nodes)
      /\ ~absent => s \in RangeSetM!Denotes(nodes) /\ rest = RangeSetM!SubtractNodes(nodes, q)
  BY <1>1, RemoveIs
<1>4. /\ absent => nodes' = nodes /\ ret' = << >>
      /\ ~absent => nodes' = rest /\ ret' = <<q>>
  BY DEF RangeSetM!Remove
<1> HIDE DEF absent, rest, k, q
<1>5. \A x : x \in q.from..q.to <=> x = s
  BY <1>2
<1>6. CASE absent
  <2>1. nodes' = nodes /\ ret' = << >> /\ s \notin RangeSetM!Denotes(nodes)
    BY <1>3, <1>4, <1>6
  <2>2. RangeSetInv'
    BY <1>1, <2>1, EmptyIs DEF RangeSetInv
  <2>3. /\ RangeSetM!Denotes(nodes') = RangeSetM!Denotes(nodes) \ (s..s)
        /\ RangeSetM!Denotes(ret') = RangeSetM!Denotes(nodes) \cap (s..s)
    BY <1>2, <1>5, <2>1, EmptyIs
  <2>4. QED
    BY <2>2, <2>3 DEF RangeSetM!Abstract!Subtract, RangeSetM!Denotes
<1>7. CASE ~absent
  <2>1. nodes' = RangeSetM!SubtractNodes(nodes, q) /\ ret' = <<q>> /\ s \in RangeSetM!Denotes(nodes)
    BY <1>3, <1>4, <1>7
  <2>2. /\ nodes' \in Seq(Node) /\ RangeSetM!IsCanonical(nodes')
        /\ \A x : x \in RangeSetM!Denotes(nodes') <=> x \in RangeSetM!Denotes(nodes) /\ x \notin q.from..q.to
    BY <1>1, <1>2, <2>1, SubtractNodesIs
  <2>3. /\ ret' \in Seq(Node) /\ RangeSetM!IsCanonical(ret')
        /\ \A x : x \in RangeSetM!Denotes(ret') <=> x \in q.from..q.to
    BY <1>2, <2>1, SingleIs
  <2>4. RangeSetInv'
    BY <2>2, <2>3 DEF RangeSetInv
  <2>5. /\ RangeSetM!Denotes(nodes') = RangeSetM!Denotes(nodes) \ (s..s)
        /\ RangeSetM!Denotes(ret') = RangeSetM!Denotes(nodes) \cap (s..s)
    BY <1>2, <1>5, <2>1, <2>2, <2>3
  <2>6. QED
    BY <2>4, <2>5 DEF RangeSetM!Abstract!Subtract, RangeSetM!Denotes
<1>8. QED
  BY <1>6, <1>7

LEMMA UnionRangeSetStep ==
    ASSUME RangeSetInv, RangeSetM!UnionRangeSet
    PROVE  RangeSetInv' /\ RangeSetM!Abstract!UnionRangeSet
<1>1. /\ nodes \in Seq(Node) /\ RangeSetM!IsCanonical(nodes)
      /\ ret \in Seq(Node) /\ RangeSetM!IsCanonical(ret)
  BY DEF RangeSetInv
<1>2. Pieces(ret) /\ \A x : x \in RangeSetM!Denotes(ret) <=> Holds(ret, x)
  <2>1. DOMAIN ret = 1..Len(ret) /\ \A j \in 1..Len(ret) : ret[j].from <= ret[j].to
    BY <1>1, CanonicalIs
  <2>2. QED
    BY <1>1, <2>1 DEF Pieces, Holds, RangeSetM!Denotes
<1>3. nodes' = RangeSetM!UnionAll(nodes, ret) /\ ret' = ret
  BY DEF RangeSetM!UnionRangeSet
<1>4. /\ nodes' \in Seq(Node) /\ RangeSetM!IsCanonical(nodes')
      /\ \A x : x \in RangeSetM!Denotes(nodes') <=> x \in RangeSetM!Denotes(nodes) \/ Holds(ret, x)
  BY <1>1, <1>2, <1>3, UnionPieceList
<1>5. RangeSetInv'
  BY <1>1, <1>3, <1>4 DEF RangeSetInv
<1>6. /\ RangeSetM!Denotes(nodes') = RangeSetM!Denotes(nodes) \cup RangeSetM!Denotes(ret)
      /\ RangeSetM!Denotes(ret') = RangeSetM!Denotes(ret)
  BY <1>2, <1>3, <1>4
<1>7. QED
  BY <1>5, <1>6 DEF RangeSetM!Abstract!UnionRangeSet, RangeSetM!Denotes

LEMMA RangeSetStep ==
    RangeSetInv /\ [RangeSetM!Next]_(RangeSetM!vars)
        => RangeSetInv' /\ [RangeSetM!Abstract!Next]_<<RangeSetM!Denotes(nodes), RangeSetM!Denotes(ret)>>
<1> SUFFICES ASSUME RangeSetInv, [RangeSetM!Next]_(RangeSetM!vars)
             PROVE  RangeSetInv' /\ [RangeSetM!Abstract!Next]_<<RangeSetM!Denotes(nodes), RangeSetM!Denotes(ret)>>
  OBVIOUS
<1>1. ASSUME NEW a \in RangeSetM!Seqs, NEW b \in RangeSetM!Seqs, a <= b,
             RangeSetM!Abstract!Union(a..b) \/ RangeSetM!Abstract!Subtract(a..b)
      PROVE  RangeSetM!Abstract!Next
  BY <1>1 DEF RangeSetM!Abstract!Next, RangeSetM!Abstract!Seqs, RangeSetM!Seqs
<1>2. \A s \in RangeSetM!Seqs : s \in Int /\ s <= s
  BY RangeSetConstants DEF RangeSetM!Seqs
<1>3. CASE \E q \in RangeSetM!Ranges : RangeSetM!Union(q)
  BY <1>1, <1>3, RangesAreNodes, UnionStep
<1>4. CASE \E q \in RangeSetM!Ranges : RangeSetM!Subtract(q)
  BY <1>1, <1>4, RangesAreNodes, SubtractStep
<1>5. CASE \E s \in RangeSetM!Seqs : RangeSetM!Add(s)
  <2>1. PICK s \in RangeSetM!Seqs : RangeSetM!Add(s)
    BY <1>5
  <2> DEFINE q == RangeSetM!RangeInclusive(s, s)
  <2>2. q \in Node /\ q.from = s /\ q.to = s /\ q.from <= q.to
    BY <1>2, SingleRange
  <2>3. RangeSetM!Union(q)
    BY <2>1 DEF RangeSetM!Add
  <2> HIDE DEF q
  <2>4. RangeSetInv' /\ RangeSetM!Abstract!Union(q.from..q.to)
    BY <2>2, <2>3, UnionStep
  <2>5. QED
    BY <1>1, <1>2, <2>2, <2>4
<1>6. CASE \E s \in RangeSetM!Seqs : RangeSetM!Remove(s)
  BY <1>1, <1>2, <1>6, RemoveStep
<1>7. CASE RangeSetM!UnionRangeSet
  BY <1>7, UnionRangeSetStep DEF RangeSetM!Abstract!Next
<1>8. CASE RangeSetM!Clear
  <2>1. nodes' = << >> /\ ret' = << >>
    BY <1>8 DEF RangeSetM!Clear
  <2>2. RangeSetM!Denotes(nodes') = {} /\ RangeSetM!Denotes(ret') = {}
    BY <2>1, EmptyIs
  <2>3. RangeSetInv'
    BY <2>1, EmptyIs DEF RangeSetInv
  <2>4. RangeSetM!Abstract!Clear
    BY <2>2 DEF RangeSetM!Abstract!Clear, RangeSetM!Denotes
  <2>5. QED
    BY <2>3, <2>4 DEF RangeSetM!Abstract!Next
<1>9. CASE UNCHANGED RangeSetM!vars
  <2>1. nodes' = nodes /\ ret' = ret
    BY <1>9 DEF RangeSetM!vars
  <2>2. QED
    BY <2>1 DEF RangeSetInv, RangeSetM!Denotes
<1>10. QED
  BY <1>3, <1>4, <1>5, <1>6, <1>7, <1>8, <1>9 DEF RangeSetM!Next

LEMMA RangeSetPart == StructuresSpec => RangeSetM!Spec
<1>1. StructuresInit => RangeSetM!Init
  BY DEF StructuresInit
<1>2. [StructuresNext]_<<part, structureVars>> => [RangeSetM!Next]_(RangeSetM!vars)
  BY DEF StructuresNext, structureVars, rangeSetVars, RangeSetM!vars
<1> QED
  BY <1>1, <1>2, PTL DEF StructuresSpec, RangeSetM!Spec

LEMMA RangeSetCorrect == StructuresSpec => []RangeSetInv
<1> QED
  BY RangeSetInit, RangeSetStep, RangeSetPart, PTL DEF RangeSetM!Spec

(* Whatever ranges are added and removed, in any order, the list of nodes  *)
(* of a range set stays sorted, with separate nodes, and Contains, which   *)
(* looks at one node at a time, answers as the set would.                  *)
THEOREM RangeSetStaysCanonical == StructuresSpec => []Canonical
<1>1. RangeSetInv => Canonical
  <2> SUFFICES ASSUME RangeSetInv PROVE RangeSetM!Canonical
    BY DEF Canonical
  <2>1. \A q \in RangeSetM!Ranges :
           RangeSetM!Contains(nodes, q) <=> q.from..q.to \subseteq RangeSetM!Denotes(nodes)
    BY RangesAreNodes, ContainsIs DEF RangeSetInv
  <2>2. QED
    BY <2>1 DEF RangeSetInv, RangeSetM!Canonical
<1> QED
  BY <1>1, RangeSetCorrect, PTL

(* Every operation of the list has the effect and the answer that union    *)
(* and difference of sets have.                                            *)
THEOREM RangeSetImplements == StructuresSpec => RangeSetRefines
<1> QED
  BY RangeSetInit, RangeSetStep, RangeSetPart, RangeSetCorrect, PTL
     DEF RangeSetM!Spec, RangeSetRefines, RangeSetM!Refinement, RangeSetM!Abstract!Spec
-----------------------------------------------------------------------------
(* The ring.                                                               *)

(* A slot of the ring, and the ring.                                       *)
RingEntry == [seq : Nat, delay : Nat, bytes : Nat, cumulativeDelay : Int]

Ring == [head : 0..(RingCap - 1), size : 0..RingCap, holes : Int,
         entries : [0..(RingCap - 1) -> RingEntry]]

LEMMA RecentSame ==
    /\ \A S : RecentM!Cardinality(S) = Cardinality(S)
    /\ \A S : RecentM!Min(S) = Min(S)
    /\ \A S : RecentM!Max(S) = Max(S)
    /\ \A S : RecentM!Sorted(S) = Sorted(S)
    /\ RecentM!SequenceNone = 0
<1>1. \A S : RecentM!Cardinality(S) = Cardinality(S)
  BY DEF RecentM!Cardinality, Cardinality
<1>2. \A S : RecentM!Sorted(S) = Sorted(S)
  <2>1. \A S : \A k : (CHOOSE s \in S : RecentM!Cardinality({t \in S : t <= s}) = k)
                        = (CHOOSE s \in S : Cardinality({t \in S : t <= s}) = k)
    BY <1>1
  <2>2. TAKE S
  <2>3. RecentM!Sorted(S)
          = [k \in 1..RecentM!Cardinality(S) |->
               CHOOSE s \in S : RecentM!Cardinality({t \in S : t <= s}) = k]
    BY DEF RecentM!Sorted
  <2>4. RecentM!Sorted(S)
          = [k \in 1..Cardinality(S) |->
               CHOOSE s \in S : RecentM!Cardinality({t \in S : t <= s}) = k]
    BY <1>1, <2>3
  <2>5. RecentM!Sorted(S)
          = [k \in 1..Cardinality(S) |-> CHOOSE s \in S : Cardinality({t \in S : t <= s}) = k]
    BY <2>1, <2>4
  <2>6. QED
    BY <2>5 DEF Sorted
<1>3. /\ \A S : RecentM!Min(S) = Min(S)
      /\ \A S : RecentM!Max(S) = Max(S)
  BY DEF RecentM!Min, RecentM!Max, Min, Max
<1> QED
  BY <1>1, <1>2, <1>3 DEF RecentM!SequenceNone

(* The places 0..n-1 are n.                                                *)
LEMMA CountFromZero ==
    ASSUME NEW n \in Nat
    PROVE  IsFiniteSet(0..(n - 1)) /\ Cardinality(0..(n - 1)) = n
<1>1. /\ IsFiniteSet(0..(n - 1))
      /\ Cardinality(0..(n - 1)) = IF 0 > n - 1 THEN 0 ELSE (n - 1) - 0 + 1
  BY FS_Interval
<1>2. n = 0 \/ n > 0
  OBVIOUS
<1>3. QED
  BY <1>1, <1>2

(* A set of places moved by k has as many places. *)
LEMMA ShiftCounts ==
    ASSUME NEW A \in SUBSET Nat, NEW B \in SUBSET Nat, NEW k \in Int, IsFiniteSet(A),
           \A n \in A : n + k \in B, \A n \in B : n - k \in A
    PROVE  IsFiniteSet(B) /\ Cardinality(B) = Cardinality(A)
<1> DEFINE f == [n \in A |-> n + k]
<1>1. f \in [A -> B]
  OBVIOUS
<1>2. \A m, n \in A : m # n => f[m] # f[n]
  OBVIOUS
<1>3. ASSUME NEW n \in B PROVE \E m \in A : f[m] = n
  <2>1. n - k \in A /\ (n - k) + k = n
    OBVIOUS
  <2>2. f[n - k] = n
    BY <2>1
  <2>3. QED
    BY <2>1, <2>2
<1> HIDE DEF f
<1>4. f \in Injection(A, B)
  BY <1>1, <1>2 DEF Injection, IsInjective
<1>5. f \in Surjection(A, B)
  BY <1>1, <1>3 DEF Surjection
<1>6. ExistsBijection(A, B)
  BY <1>4, <1>5 DEF ExistsBijection, Bijection
<1>7. QED
  BY <1>6, FS_Bijection

(* The ring's arithmetic, without the remainder. *)
LEMMA BeforeIs ==
    ASSUME NEW idx \in 0..(RingCap - 1), NEW n \in 0..RingCap
    PROVE  /\ RecentM!Before(idx, n) \in 0..(RingCap - 1)
           /\ RecentM!Before(idx, n) = IF n <= idx THEN idx - n ELSE idx + RingCap - n
<1>1. RingCap \in Nat /\ RingCap > 0
  BY RecentConstants
<1>2. ASSUME NEW x \in 0..(2 * RingCap - 1)
      PROVE  x % RingCap = IF x < RingCap THEN x ELSE x - RingCap
  BY <1>1
<1> DEFINE x == idx + RingCap - n
<1>3. x \in 0..(2 * RingCap - 1) /\ x - RingCap = idx - n
  BY <1>1
<1>4. x % RingCap = IF x < RingCap THEN x ELSE x - RingCap
  BY <1>2, <1>3
<1>5. x < RingCap <=> ~(n <= idx)
  BY <1>1
<1>6. RecentM!Before(idx, n) = x % RingCap
  BY DEF RecentM!Before
<1>7. RecentM!Before(idx, n) = IF n <= idx THEN idx - n ELSE idx + RingCap - n
  BY <1>3, <1>4, <1>5, <1>6
<1>8. QED
  BY <1>1, <1>7

(* The parts of a ring, and what its places hold.                          *)
LEMMA RingIs ==
    ASSUME NEW q \in Ring
    PROVE  /\ q.head \in 0..(RingCap - 1) /\ q.head \in Int
           /\ q.size \in 0..RingCap /\ q.size \in Nat
           /\ q.holes \in Int
           /\ q.entries \in [0..(RingCap - 1) -> RingEntry]
           /\ RingCap \in Nat /\ RingCap > 0
           /\ \A n \in 0..RingCap : RecentM!Slot(q, n) \in RingEntry
<1>1. RingCap \in Nat /\ RingCap > 0
  BY RecentConstants
<1>2. /\ q.head \in 0..(RingCap - 1) /\ q.size \in 0..RingCap /\ q.holes \in Int
      /\ q.entries \in [0..(RingCap - 1) -> RingEntry]
  BY DEF Ring
<1>3. ASSUME NEW n \in 0..RingCap PROVE RecentM!Slot(q, n) \in RingEntry
  BY <1>2, BeforeIs DEF RecentM!Slot
<1>4. QED
  BY <1>1, <1>2, <1>3

(* The places of the window that hold an entry. *)
LEMMA LiveIs ==
    ASSUME NEW q \in Ring
    PROVE  /\ \A n : n \in RecentM!Live(q) <=> n \in 0..(q.size - 1) /\ RecentM!Slot(q, n).seq # 0
           /\ RecentM!Live(q) \in SUBSET Nat
           /\ IsFiniteSet(RecentM!Live(q))
           /\ Cardinality(RecentM!Live(q)) \in Nat
           /\ Cardinality(RecentM!Live(q)) <= q.size
           /\ \A n \in RecentM!Live(q) : n \in Nat /\ n < q.size /\ n < RingCap /\ n \in 0..RingCap
<1>1. q.size \in 0..RingCap /\ q.size \in Nat /\ RingCap \in Nat
  BY RingIs
<1>2. \A n : n \in RecentM!Live(q) <=> n \in 0..(q.size - 1) /\ RecentM!Slot(q, n).seq # 0
  BY RecentSame DEF RecentM!Live
<1>3. RecentM!Live(q) \subseteq 0..(q.size - 1)
  BY <1>2
<1>4. IsFiniteSet(0..(q.size - 1)) /\ Cardinality(0..(q.size - 1)) = q.size
  BY <1>1, CountFromZero
<1>5. /\ IsFiniteSet(RecentM!Live(q)) /\ Cardinality(RecentM!Live(q)) \in Nat
      /\ Cardinality(RecentM!Live(q)) <= q.size
  BY <1>1, <1>3, <1>4, FS_Subset, FS_CardinalityType
<1>6. \A n \in RecentM!Live(q) : n \in Nat /\ n < q.size /\ n < RingCap /\ n \in 0..RingCap
  BY <1>1, <1>3
<1>7. QED
  BY <1>2, <1>5, <1>6

(* Ring t holds the entries of q, in the same order, k places closer to    *)
(* the new end.                                                            *)
Kept(t, q, k) ==
    /\ t \in Ring /\ k \in Nat
    /\ \A n \in RecentM!Live(t) : n + k \in RecentM!Live(q)
                                  /\ RecentM!Slot(t, n) = RecentM!Slot(q, n + k)
    /\ \A n \in RecentM!Live(q) : n - k \in RecentM!Live(t)

(* A ring that keeps the entries keeps their number.                       *)
LEMMA KeptCounts ==
    ASSUME NEW q \in Ring, NEW t, NEW k, Kept(t, q, k)
    PROVE  Cardinality(RecentM!Live(t)) = Cardinality(RecentM!Live(q))
<1> DEFINE A == RecentM!Live(t)
           B == RecentM!Live(q)
<1>1. t \in Ring /\ k \in Nat /\ (\A n \in A : n + k \in B) /\ (\A n \in B : n - k \in A)
  BY DEF Kept
<1>2. IsFiniteSet(A) /\ A \in SUBSET Nat /\ B \in SUBSET Nat
  BY <1>1, LiveIs
<1> HIDE DEF A, B
<1>3. Cardinality(B) = Cardinality(A)
  BY <1>1, <1>2, ShiftCounts
<1>4. QED
  BY <1>3 DEF A, B

(* Two moves are one.                                                      *)
LEMMA KeptTwice ==
    ASSUME NEW q \in Ring, NEW t, NEW k, NEW u, NEW j, Kept(t, q, k), Kept(u, t, j)
    PROVE  Kept(u, q, j + k)
<1>1. t \in Ring /\ k \in Nat /\ u \in Ring /\ j \in Nat
  BY DEF Kept
<1>2. RecentM!Live(q) \in SUBSET Nat /\ RecentM!Live(u) \in SUBSET Nat
  BY <1>1, LiveIs
<1>3. ASSUME NEW n \in RecentM!Live(u)
      PROVE  n + (j + k) \in RecentM!Live(q) /\ RecentM!Slot(u, n) = RecentM!Slot(q, n + (j + k))
  <2>1. n + j \in RecentM!Live(t) /\ RecentM!Slot(u, n) = RecentM!Slot(t, n + j)
    BY DEF Kept
  <2>2. (n + j) + k \in RecentM!Live(q) /\ RecentM!Slot(t, n + j) = RecentM!Slot(q, (n + j) + k)
    BY <2>1 DEF Kept
  <2>3. (n + j) + k = n + (j + k)
    BY <1>1, <1>2
  <2>4. QED
    BY <2>1, <2>2, <2>3
<1>4. ASSUME NEW n \in RecentM!Live(q) PROVE n - (j + k) \in RecentM!Live(u)
  <2>1. n - k \in RecentM!Live(t)
    BY DEF Kept
  <2>2. (n - k) - j \in RecentM!Live(u)
    BY <2>1 DEF Kept
  <2>3. (n - k) - j = n - (j + k)
    BY <1>1, <1>2
  <2>4. QED
    BY <2>2, <2>3
<1>5. QED
  BY <1>1, <1>3, <1>4 DEF Kept

(* A shorter window that loses no entry. *)
LEMMA TrimTailIs ==
    ASSUME NEW q \in Ring
    PROVE  LET t == RecentM!TrimTail(q)
           IN Kept(t, q, 0) /\ t.size - t.holes = q.size - q.holes
<1> DEFINE t == RecentM!TrimTail(q)
           E == {k + 1 : k \in RecentM!Live(q)} \cup {0}
           n == q.size - RecentM!Max(E)
<1>1. /\ q.head \in 0..(RingCap - 1) /\ q.size \in 0..RingCap /\ q.size \in Nat /\ q.holes \in Int
      /\ q.entries \in [0..(RingCap - 1) -> RingEntry]
  BY RingIs
<1>2. /\ RecentM!Live(q) \in SUBSET Nat
      /\ \A k \in RecentM!Live(q) : k \in Nat /\ k < q.size
      /\ \A k : k \in RecentM!Live(q) <=> k \in 0..(q.size - 1) /\ RecentM!Slot(q, k).seq # 0
  BY LiveIs
<1>3. CASE q.holes = 0
  <2>1. t = q
    BY <1>3 DEF RecentM!TrimTail
  <2> HIDE DEF t
  <2>2. QED
    BY <1>1, <1>2, <2>1 DEF Kept, t
<1>4. CASE q.holes # 0
  <2>1. t = [q EXCEPT !.size = @ - n, !.holes = @ - n]
    BY <1>4 DEF RecentM!TrimTail
  <2>2. E \in SUBSET Nat /\ E # {} /\ \A y \in E : y <= q.size
    <3>1. \A k \in RecentM!Live(q) : k + 1 \in Nat /\ k + 1 <= q.size
      BY <1>1, <1>2
    <3>2. QED
      BY <1>1, <3>1
  <2>3. RecentM!Max(E) \in E /\ \A y \in E : y <= RecentM!Max(E)
    <3>1. RecentM!Max(E) = Max(E)
      BY RecentSame
    <3> HIDE DEF E
    <3>2. QED
      BY <1>1, <2>2, <3>1, MaxIs
  <2>4. n \in 0..q.size
    <3> HIDE DEF E
    <3>1. QED
      BY <1>1, <2>2, <2>3
  <2>5. \A k \in RecentM!Live(q) : k < q.size - n
    <3>1. \A k \in RecentM!Live(q) : k + 1 \in E /\ k \in Nat
      BY <1>2
    <3>2. \A k \in RecentM!Live(q) : k + 1 <= RecentM!Max(E)
      BY <2>3, <3>1
    <3>3. RecentM!Max(E) \in Nat /\ q.size - n = RecentM!Max(E)
      <4>1. RecentM!Max(E) \in Nat
        BY <2>2, <2>3
      <4> DEFINE m == RecentM!Max(E)
      <4>2. m \in Nat /\ n = q.size - m
        BY <4>1
      <4> HIDE DEF m, n
      <4>3. q.size - n = m
        BY <1>1, <4>2
      <4>4. QED
        BY <4>2, <4>3 DEF m
    <3>4. QED
      BY <3>1, <3>2, <3>3
  <2> HIDE DEF n, t
  <2>6. /\ t.size = q.size - n /\ t.holes = q.holes - n /\ t.head = q.head /\ t.entries = q.entries
        /\ t = [head |-> t.head, size |-> t.size, holes |-> t.holes, entries |-> t.entries]
    BY <2>1 DEF Ring
  <2>7. t \in Ring
    <3>1. t.size \in 0..RingCap /\ t.holes \in Int
      BY <1>1, <2>4, <2>6, RecentConstants
    <3>2. QED
      BY <1>1, <2>6, <3>1 DEF Ring
  <2>8. \A k : RecentM!Slot(t, k) = RecentM!Slot(q, k)
    BY <2>6 DEF RecentM!Slot
  <2>9. RecentM!Live(t) = RecentM!Live(q)
    <3>1. \A k : k \in RecentM!Live(t) <=> k \in 0..(t.size - 1) /\ RecentM!Slot(t, k).seq # 0
      BY <2>7, LiveIs
    <3>2. \A k \in 0..(t.size - 1) : k \in 0..(q.size - 1)
      BY <1>1, <2>4, <2>6
    <3>3. \A k \in RecentM!Live(q) : k \in 0..(t.size - 1)
      BY <1>1, <1>2, <2>4, <2>5, <2>6
    <3>4. QED
      BY <1>2, <2>8, <3>1, <3>2, <3>3
  <2>10. \A k \in RecentM!Live(q) : k + 0 = k /\ k - 0 = k
    BY <1>2
  <2>11. Kept(t, q, 0)
    BY <2>7, <2>8, <2>9, <2>10 DEF Kept
  <2>12. t.size - t.holes = q.size - q.holes
    BY <1>1, <2>4, <2>6
  <2>13. QED
    BY <2>11, <2>12 DEF t
<1>5. QED
  BY <1>3, <1>4

(* Trimming the head moves every entry up by the holes it skips.           *)
LEMMA TrimHeadIs ==
    ASSUME NEW q \in Ring
    PROVE  LET t == RecentM!TrimHead(q)
           IN /\ \E k \in Nat : Kept(t, q, k)
              /\ t.size - t.holes = q.size - q.holes
<1> DEFINE t == RecentM!TrimHead(q)
           E == RecentM!Live(q) \cup {q.size}
           n == RecentM!Min(E)
<1>1. /\ q.head \in 0..(RingCap - 1) /\ q.size \in 0..RingCap /\ q.size \in Nat /\ q.holes \in Int
      /\ q.entries \in [0..(RingCap - 1) -> RingEntry]
      /\ RingCap \in Nat /\ RingCap > 0 /\ q.head \in Int
  BY RingIs
<1>2. /\ RecentM!Live(q) \in SUBSET Nat
      /\ \A k \in RecentM!Live(q) : k \in Nat /\ k < q.size
      /\ \A k : k \in RecentM!Live(q) <=> k \in 0..(q.size - 1) /\ RecentM!Slot(q, k).seq # 0
  BY LiveIs
<1>3. n \in E /\ \A k \in E : n <= k
  <2>1. E \in SUBSET Nat /\ E # {}
    BY <1>1, <1>2
  <2>2. n = Min(E)
    BY RecentSame
  <2> HIDE DEF E, n
  <2>3. QED
    BY <2>1, <2>2, MinIs
<1>4. t = [q EXCEPT !.head = RecentM!Before(@, n), !.size = @ - n, !.holes = @ - n]
  BY DEF RecentM!TrimHead
<1> HIDE DEF t, n
<1>5. n \in 0..q.size /\ n \in Nat /\ \A k \in RecentM!Live(q) : n <= k
  <2>1. q.size \in E /\ RecentM!Live(q) \subseteq E /\ E \subseteq Nat
    <3>1. q.size \in E /\ RecentM!Live(q) \subseteq E
      OBVIOUS
    <3>2. \A y \in E : y \in Nat
      BY <1>1, <1>2
    <3>3. QED
      BY <3>1, <3>2
  <2> HIDE DEF E
  <2>2. n \in Nat /\ n <= q.size
    BY <1>3, <2>1
  <2>3. \A k \in RecentM!Live(q) : n <= k
    BY <1>3, <2>1
  <2>4. QED
    BY <1>1, <2>2, <2>3
<1> HIDE DEF E
<1>6. /\ t.size = q.size - n /\ t.holes = q.holes - n /\ t.head = RecentM!Before(q.head, n)
      /\ t.entries = q.entries
      /\ t = [head |-> t.head, size |-> t.size, holes |-> t.holes, entries |-> t.entries]
  BY <1>4 DEF Ring
<1>7. n \in 0..RingCap
  BY <1>1, <1>5
<1>8. t \in Ring
  <2>1. t.size \in 0..RingCap /\ t.holes \in Int
    BY <1>1, <1>5, <1>6
  <2>2. t.head \in 0..(RingCap - 1)
    BY <1>1, <1>6, <1>7, BeforeIs
  <2>3. QED
    BY <1>1, <1>6, <2>1, <2>2 DEF Ring
<1>9. ASSUME NEW k \in 0..RingCap, k + n <= RingCap
      PROVE  RecentM!Slot(t, k) = RecentM!Slot(q, k + n)
  <2>1. RecentM!Before(t.head, k) = RecentM!Before(q.head, k + n)
    <3>1. k + n \in 0..RingCap
      BY <1>1, <1>5, <1>9
    <3>2. RecentM!Before(q.head, k + n)
            = IF k + n <= q.head THEN q.head - (k + n) ELSE q.head + RingCap - (k + n)
      BY <1>1, <3>1, BeforeIs
    <3>3. t.head = IF n <= q.head THEN q.head - n ELSE q.head + RingCap - n
      BY <1>1, <1>6, <1>7, BeforeIs
    <3>4. /\ RecentM!Before(t.head, k) = IF k <= t.head THEN t.head - k ELSE t.head + RingCap - k
          /\ t.head \in Int
      BY <1>1, <1>8, BeforeIs, RingIs
    <3>5. QED
      BY <1>1, <1>5, <1>9, <3>2, <3>3, <3>4
  <2>2. QED
    BY <1>6, <2>1 DEF RecentM!Slot
<1>10. \A k : k \in RecentM!Live(t) <=> k \in 0..(t.size - 1) /\ RecentM!Slot(t, k).seq # 0
  BY <1>8, LiveIs
<1>11. ASSUME NEW k \in RecentM!Live(t)
       PROVE  k + n \in RecentM!Live(q) /\ RecentM!Slot(t, k) = RecentM!Slot(q, k + n)
  <2>1. k \in 0..(q.size - n - 1) /\ RecentM!Slot(t, k).seq # 0
    BY <1>1, <1>5, <1>6, <1>10
  <2>2. k \in 0..RingCap /\ k + n <= RingCap /\ k + n \in 0..(q.size - 1)
    BY <1>1, <1>5, <2>1
  <2>3. RecentM!Slot(t, k) = RecentM!Slot(q, k + n)
    BY <1>9, <2>2
  <2>4. QED
    BY <1>2, <2>1, <2>2, <2>3
<1>12. ASSUME NEW k \in RecentM!Live(q) PROVE k - n \in RecentM!Live(t)
  <2>1. /\ k - n \in 0..(t.size - 1) /\ k - n \in 0..RingCap
        /\ (k - n) + n = k /\ (k - n) + n <= RingCap
    BY <1>1, <1>2, <1>5, <1>6
  <2>2. RecentM!Slot(t, k - n) = RecentM!Slot(q, (k - n) + n)
    BY <1>9, <2>1
  <2>3. RecentM!Slot(q, k).seq # 0
    BY <1>2
  <2>4. QED
    BY <1>10, <2>1, <2>2, <2>3
<1>13. Kept(t, q, n)
  BY <1>5, <1>8, <1>11, <1>12 DEF Kept
<1>14. t.size - t.holes = q.size - q.holes
  BY <1>1, <1>5, <1>6
<1>15. QED
  BY <1>5, <1>13, <1>14 DEF t

(* Different places of the window are different slots of the ring. *)
LEMMA BeforeDiffers ==
    ASSUME NEW idx \in 0..(RingCap - 1), NEW m \in 0..(RingCap - 1), NEW n \in 0..(RingCap - 1),
           RecentM!Before(idx, m) = RecentM!Before(idx, n)
    PROVE  m = n
<1>1. RingCap \in Nat /\ RingCap > 0
  BY RecentConstants
<1>2. m \in 0..RingCap /\ n \in 0..RingCap
  BY <1>1
<1>3. /\ RecentM!Before(idx, m) = IF m <= idx THEN idx - m ELSE idx + RingCap - m
      /\ RecentM!Before(idx, n) = IF n <= idx THEN idx - n ELSE idx + RingCap - n
  BY <1>2, BeforeIs
<1>4. idx \in Int /\ m \in Int /\ n \in Int /\ 0 <= m /\ m < RingCap /\ 0 <= n /\ n < RingCap
  BY <1>1
<1>5. (IF m <= idx THEN idx - m ELSE idx + RingCap - m)
        = (IF n <= idx THEN idx - n ELSE idx + RingCap - n)
  BY <1>3
<1>6. QED
  BY <1>1, <1>4, <1>5

(* Clearing some places empties those and no other.                        *)
LEMMA MakeHolesIs ==
    ASSUME NEW q \in Ring, NEW S, S \subseteq RecentM!Live(q)
    PROVE  LET t == RecentM!MakeHoles(q, S)
           IN /\ t \in Ring
              /\ t.size = q.size /\ t.holes = q.holes + Cardinality(S)
              /\ RecentM!Live(t) = RecentM!Live(q) \ S
              /\ \A n \in RecentM!Live(t) : RecentM!Slot(t, n) = RecentM!Slot(q, n)
              /\ Cardinality(RecentM!Live(t)) = Cardinality(RecentM!Live(q)) - Cardinality(S)
<1> DEFINE t == RecentM!MakeHoles(q, S)
<1>1. /\ q.head \in 0..(RingCap - 1) /\ q.size \in 0..RingCap /\ q.size \in Nat /\ q.holes \in Int
      /\ q.entries \in [0..(RingCap - 1) -> RingEntry]
      /\ RingCap \in Nat /\ RingCap > 0 /\ q.head \in Int
  BY RingIs
<1>2. /\ RecentM!Live(q) \in SUBSET Nat /\ IsFiniteSet(RecentM!Live(q))
      /\ Cardinality(RecentM!Live(q)) \in Nat
      /\ \A k \in RecentM!Live(q) : k \in Nat /\ k < q.size
      /\ \A k : k \in RecentM!Live(q) <=> k \in 0..(q.size - 1) /\ RecentM!Slot(q, k).seq # 0
  BY LiveIs
<1>3. IsFiniteSet(S) /\ Cardinality(S) \in Nat
  BY <1>2, FS_Subset, FS_CardinalityType
<1>4. t = [q EXCEPT !.holes = @ + Cardinality(S),
                    !.entries = [idx \in DOMAIN q.entries |->
             IF \E n \in S : idx = RecentM!Before(q.head, n) THEN RecentM!Hole ELSE q.entries[idx]]]
  BY RecentSame DEF RecentM!MakeHoles
<1> HIDE DEF t
<1>5. RecentM!Hole \in RingEntry /\ RecentM!Hole.seq = 0
  BY RecentSame DEF RecentM!Hole, RingEntry
<1>6. /\ t.size = q.size /\ t.holes = q.holes + Cardinality(S) /\ t.head = q.head
      /\ t.entries = [idx \in 0..(RingCap - 1) |->
             IF \E n \in S : idx = RecentM!Before(q.head, n) THEN RecentM!Hole ELSE q.entries[idx]]
      /\ t = [head |-> t.head, size |-> t.size, holes |-> t.holes, entries |-> t.entries]
  <2>1. DOMAIN q.entries = 0..(RingCap - 1)
    BY <1>1
  <2>2. QED
    BY <1>4, <2>1 DEF Ring
<1>7. t.entries \in [0..(RingCap - 1) -> RingEntry]
  BY <1>1, <1>5, <1>6
<1>8. t \in Ring
  <2>1. t.holes \in Int
    BY <1>1, <1>3, <1>6
  <2>2. t.size \in 0..RingCap /\ t.head \in 0..(RingCap - 1)
    BY <1>1, <1>6
  <2>3. t = [head |-> t.head, size |-> t.size, holes |-> t.holes, entries |-> t.entries]
    BY <1>6
  <2>4. QED
    BY <1>7, <2>1, <2>2, <2>3 DEF Ring
<1>9. ASSUME NEW k \in 0..(q.size - 1)
      PROVE  RecentM!Slot(t, k) = IF k \in S THEN RecentM!Hole ELSE RecentM!Slot(q, k)
  <2>1. k \in 0..(RingCap - 1) /\ k \in 0..RingCap
    BY <1>1
  <2>2. \A n \in S : n \in 0..(RingCap - 1)
    BY <1>1, <1>2
  <2>3. RecentM!Before(q.head, k) \in 0..(RingCap - 1)
    BY <1>1, <2>1, BeforeIs
  <2>4. (\E n \in S : RecentM!Before(q.head, k) = RecentM!Before(q.head, n)) <=> k \in S
    BY <1>1, <2>1, <2>2, BeforeDiffers
  <2>5. QED
    BY <1>6, <2>3, <2>4 DEF RecentM!Slot
<1>10. \A k : k \in RecentM!Live(t) <=> k \in 0..(q.size - 1) /\ RecentM!Slot(t, k).seq # 0
  BY <1>6, <1>8, LiveIs
<1>11. RecentM!Live(t) = RecentM!Live(q) \ S
  <2>1. ASSUME NEW k PROVE k \in RecentM!Live(t) <=> k \in RecentM!Live(q) /\ k \notin S
    BY <1>2, <1>5, <1>9, <1>10
  <2>2. QED
    BY <2>1
<1>12. \A n \in RecentM!Live(t) : RecentM!Slot(t, n) = RecentM!Slot(q, n)
  BY <1>9, <1>10, <1>11
<1>13. Cardinality(RecentM!Live(q) \ S) = Cardinality(RecentM!Live(q)) - Cardinality(S)
  <2>1. RecentM!Live(q) \cap S = S
    OBVIOUS
  <2>2. QED
    BY <1>2, <1>3, <2>1, FS_Difference
<1>14. QED
  BY <1>6, <1>8, <1>11, <1>12, <1>13 DEF t

(* A new entry e, d after the last: the places of the others go up by one, *)
(* and the one at the last place of the ring is given up.                  *)
Placed(q, d, e) == RecentM!PlaceNew(RecentM!IncCumulativeDelay(q, d), e)

(* A push adds its delay to every entry that is there.                     *)
LEMMA IncIs ==
    ASSUME NEW q \in Ring, NEW d \in Nat
    PROVE  LET t == RecentM!IncCumulativeDelay(q, d)
           IN /\ t \in Ring
              /\ t.head = q.head /\ t.size = q.size /\ t.holes = q.holes
              /\ \A n \in 0..(q.size - 1) :
                    RecentM!Slot(t, n) =
                      IF n \in RecentM!Live(q)
                      THEN [RecentM!Slot(q, n) EXCEPT !.cumulativeDelay = @ + d]
                      ELSE RecentM!Slot(q, n)
<1> DEFINE t == RecentM!IncCumulativeDelay(q, d)
<1>1. /\ q.head \in 0..(RingCap - 1) /\ q.size \in 0..RingCap /\ q.size \in Nat /\ q.holes \in Int
      /\ q.entries \in [0..(RingCap - 1) -> RingEntry]
      /\ RingCap \in Nat /\ RingCap > 0 /\ q.head \in Int
  BY RingIs
<1>2. \A k \in RecentM!Live(q) : k \in 0..(RingCap - 1)
  <2>1. \A k \in RecentM!Live(q) : k \in Nat /\ k < RingCap
    BY LiveIs
  <2>2. QED
    BY <1>1, <2>1
<1>3. t = [q EXCEPT !.entries = [idx \in DOMAIN q.entries |->
             IF \E n \in RecentM!Live(q) : idx = RecentM!Before(q.head, n)
             THEN [q.entries[idx] EXCEPT !.cumulativeDelay = @ + d] ELSE q.entries[idx]]]
  BY DEF RecentM!IncCumulativeDelay
<1> HIDE DEF t
<1>4. /\ t.size = q.size /\ t.holes = q.holes /\ t.head = q.head
      /\ t.entries = [idx \in 0..(RingCap - 1) |->
             IF \E n \in RecentM!Live(q) : idx = RecentM!Before(q.head, n)
             THEN [q.entries[idx] EXCEPT !.cumulativeDelay = @ + d] ELSE q.entries[idx]]
      /\ t = [head |-> t.head, size |-> t.size, holes |-> t.holes, entries |-> t.entries]
  <2>1. DOMAIN q.entries = 0..(RingCap - 1)
    BY <1>1
  <2>2. QED
    BY <1>3, <2>1 DEF Ring
<1>5. t.entries \in [0..(RingCap - 1) -> RingEntry]
  <2>1. \A x \in RingEntry : [x EXCEPT !.cumulativeDelay = @ + d] \in RingEntry
    BY DEF RingEntry
  <2>2. QED
    BY <1>1, <1>4, <2>1
<1>6. t \in Ring
  <2>1. t.size \in 0..RingCap /\ t.head \in 0..(RingCap - 1) /\ t.holes \in Int
    BY <1>1, <1>4
  <2>2. t = [head |-> t.head, size |-> t.size, holes |-> t.holes, entries |-> t.entries]
    BY <1>4
  <2>3. QED
    BY <1>5, <2>1, <2>2 DEF Ring
<1>7. ASSUME NEW k \in 0..(q.size - 1)
      PROVE  RecentM!Slot(t, k) = IF k \in RecentM!Live(q)
                                  THEN [RecentM!Slot(q, k) EXCEPT !.cumulativeDelay = @ + d]
                                  ELSE RecentM!Slot(q, k)
  <2>1. k \in 0..(RingCap - 1) /\ k \in 0..RingCap
    BY <1>1
  <2>2. RecentM!Before(q.head, k) \in 0..(RingCap - 1)
    BY <1>1, <2>1, BeforeIs
  <2>3. (\E n \in RecentM!Live(q) : RecentM!Before(q.head, k) = RecentM!Before(q.head, n))
          <=> k \in RecentM!Live(q)
    BY <1>1, <1>2, <2>1, BeforeDiffers
  <2>4. QED
    BY <1>4, <2>2, <2>3 DEF RecentM!Slot
<1>8. QED
  BY <1>4, <1>6, <1>7 DEF t

(* The new entry goes to place 0 and moves the others down.                *)
LEMMA PlaceNewIs ==
    ASSUME NEW q \in Ring, NEW e \in RingEntry
    PROVE  LET t == RecentM!PlaceNew(q, e)
           IN /\ t \in Ring
              /\ t.size = (IF q.size < RingCap THEN q.size + 1 ELSE RingCap) /\ t.holes = q.holes
              /\ RecentM!Slot(t, 0) = e
              /\ \A n \in 1..(RingCap - 1) : RecentM!Slot(t, n) = RecentM!Slot(q, n - 1)
<1> DEFINE t == RecentM!PlaceNew(q, e)
           a == (q.head + 1) % RingCap
<1>1. /\ q.head \in 0..(RingCap - 1) /\ q.size \in 0..RingCap /\ q.size \in Nat /\ q.holes \in Int
      /\ q.entries \in [0..(RingCap - 1) -> RingEntry]
      /\ RingCap \in Nat /\ RingCap > 0 /\ q.head \in Int
  BY RingIs
<1>2. a \in 0..(RingCap - 1) /\ a = IF q.head + 1 < RingCap THEN q.head + 1 ELSE 0
  <2>1. ASSUME NEW x \in 0..(2 * RingCap - 1)
        PROVE  x % RingCap = IF x < RingCap THEN x ELSE x - RingCap
    BY <1>1
  <2>2. q.head + 1 \in 0..(2 * RingCap - 1)
    BY <1>1
  <2>3. a = IF q.head + 1 < RingCap THEN q.head + 1 ELSE (q.head + 1) - RingCap
    BY <2>1, <2>2
  <2>4. QED
    BY <1>1, <2>3
<1>3. /\ t = [q EXCEPT !.size = RecentM!Min({@ + 1, RingCap}), !.head = a, !.entries[a] = e]
      /\ RecentM!Min({q.size + 1, RingCap}) = IF q.size < RingCap THEN q.size + 1 ELSE RingCap
  <2>1. RecentM!Min({q.size + 1, RingCap}) = Min({q.size + 1, RingCap})
    BY RecentSame
  <2>2. Min({q.size + 1, RingCap}) = IF q.size + 1 <= RingCap THEN q.size + 1 ELSE RingCap
    BY <1>1, PairIs
  <2>3. QED
    BY <1>1, <2>1, <2>2 DEF RecentM!PlaceNew
<1> HIDE DEF t, a
<1>4. /\ t.size = (IF q.size < RingCap THEN q.size + 1 ELSE RingCap)
      /\ t.holes = q.holes /\ t.head = a
      /\ t.entries = [q.entries EXCEPT ![a] = e]
      /\ t = [head |-> t.head, size |-> t.size, holes |-> t.holes, entries |-> t.entries]
  BY <1>3 DEF Ring
<1>5. t \in Ring
  <2>1. t.size \in 0..RingCap /\ t.head \in 0..(RingCap - 1) /\ t.holes \in Int
    BY <1>1, <1>2, <1>4
  <2>2. t.entries \in [0..(RingCap - 1) -> RingEntry]
    BY <1>1, <1>2, <1>4
  <2>3. QED
    BY <1>4, <2>1, <2>2 DEF Ring
<1>6. ASSUME NEW n \in 0..(RingCap - 1)
      PROVE  RecentM!Before(a, n) = IF n = 0 THEN a ELSE RecentM!Before(q.head, n - 1)
  <2>1. n \in 0..RingCap /\ (n # 0 => n - 1 \in 0..RingCap)
    BY <1>1
  <2>2. RecentM!Before(a, n) = IF n <= a THEN a - n ELSE a + RingCap - n
    BY <1>2, <2>1, BeforeIs
  <2>3. n # 0 => RecentM!Before(q.head, n - 1)
                   = IF n - 1 <= q.head THEN q.head - (n - 1) ELSE q.head + RingCap - (n - 1)
    BY <1>1, <2>1, BeforeIs
  <2>4. a \in Int /\ n \in Int
    BY <1>2
  <2>5. CASE n = 0
    BY <1>2, <2>2, <2>4, <2>5
  <2>6. CASE n # 0
    BY <1>1, <1>2, <2>2, <2>3, <2>4, <2>6
  <2>7. QED
    BY <2>5, <2>6
<1>7. RecentM!Slot(t, 0) = e
  <2>1. 0 \in 0..(RingCap - 1)
    BY <1>1
  <2>2. RecentM!Before(a, 0) = a
    BY <1>6, <2>1
  <2>3. t.entries[a] = e
    BY <1>1, <1>2, <1>4
  <2>4. QED
    BY <1>4, <2>2, <2>3 DEF RecentM!Slot
<1>8. ASSUME NEW n \in 1..(RingCap - 1)
      PROVE  RecentM!Slot(t, n) = RecentM!Slot(q, n - 1)
  <2>1. n \in 0..(RingCap - 1) /\ n # 0 /\ 0 \in 0..(RingCap - 1)
    BY <1>1
  <2>2. RecentM!Before(a, n) = RecentM!Before(q.head, n - 1) /\ RecentM!Before(a, 0) = a
    BY <1>6, <2>1
  <2>3. RecentM!Before(a, n) # RecentM!Before(a, 0)
    BY <1>2, <2>1, BeforeDiffers
  <2>4. RecentM!Before(q.head, n - 1) \in 0..(RingCap - 1)
    <3>1. n \in 0..RingCap
      BY <1>1
    <3>2. QED
      BY <1>2, <2>2, <3>1, BeforeIs
  <2>5. t.entries[RecentM!Before(a, n)] = q.entries[RecentM!Before(q.head, n - 1)]
    BY <1>1, <1>4, <2>2, <2>3, <2>4
  <2>6. QED
    BY <1>4, <2>5 DEF RecentM!Slot
<1>9. QED
  BY <1>4, <1>5, <1>7, <1>8 DEF t

(* Both together, as far as a reader of the ring can tell.                 *)
PlacedAs(t, q, d, e) ==
    /\ t \in Ring /\ t.holes = q.holes
    /\ t.size = IF q.size < RingCap THEN q.size + 1 ELSE RingCap
    /\ 0 \in RecentM!Live(t) /\ RecentM!Slot(t, 0) = e
    /\ \A n \in RecentM!Live(t) : n # 0 =>
          /\ n - 1 \in RecentM!Live(q)
          /\ RecentM!Slot(t, n) = [RecentM!Slot(q, n - 1) EXCEPT !.cumulativeDelay = @ + d]
    /\ \A n \in RecentM!Live(q) : n + 1 < RingCap => n + 1 \in RecentM!Live(t)

LEMMA PlacedIs ==
    ASSUME NEW q \in Ring, NEW d \in Nat, NEW e \in RingEntry, e.seq # 0
    PROVE  PlacedAs(Placed(q, d, e), q, d, e)
<1> DEFINE w == RecentM!IncCumulativeDelay(q, d)
           t == Placed(q, d, e)
<1>1. /\ w \in Ring /\ w.head = q.head /\ w.size = q.size /\ w.holes = q.holes
      /\ \A n \in 0..(q.size - 1) :
            RecentM!Slot(w, n) =
              IF n \in RecentM!Live(q)
              THEN [RecentM!Slot(q, n) EXCEPT !.cumulativeDelay = @ + d]
              ELSE RecentM!Slot(q, n)
  BY IncIs
<1>2. t = RecentM!PlaceNew(w, e)
  BY DEF Placed
<1> HIDE DEF t, w
<1>3. /\ t \in Ring /\ t.holes = q.holes
      /\ t.size = IF q.size < RingCap THEN q.size + 1 ELSE RingCap
      /\ RecentM!Slot(t, 0) = e
      /\ \A n \in 1..(RingCap - 1) : RecentM!Slot(t, n) = RecentM!Slot(w, n - 1)
  BY <1>1, <1>2, PlaceNewIs
<1>4. q.size \in 0..RingCap /\ q.size \in Nat /\ RingCap \in Nat /\ RingCap > 0
  BY RingIs
<1>5. /\ \A k : k \in RecentM!Live(q) <=> k \in 0..(q.size - 1) /\ RecentM!Slot(q, k).seq # 0
      /\ \A k : k \in RecentM!Live(t) <=> k \in 0..(t.size - 1) /\ RecentM!Slot(t, k).seq # 0
  BY <1>3, LiveIs
<1>6. 0 \in RecentM!Live(t)
  BY <1>3, <1>4, <1>5
<1>7. ASSUME NEW n \in 1..(RingCap - 1), n - 1 \in 0..(q.size - 1)
      PROVE  /\ n \in RecentM!Live(t) <=> n - 1 \in RecentM!Live(q)
             /\ n - 1 \in RecentM!Live(q) =>
                  RecentM!Slot(t, n) = [RecentM!Slot(q, n - 1) EXCEPT !.cumulativeDelay = @ + d]
  <2>1. RecentM!Slot(t, n) = IF n - 1 \in RecentM!Live(q)
              THEN [RecentM!Slot(q, n - 1) EXCEPT !.cumulativeDelay = @ + d]
              ELSE RecentM!Slot(q, n - 1)
    BY <1>1, <1>3, <1>7
  <2>2. RecentM!Slot(q, n - 1) \in RingEntry
    <3>1. n - 1 \in 0..RingCap
      BY <1>4
    <3>2. QED
      BY <3>1, RingIs
  <2>3. RecentM!Slot(t, n).seq = RecentM!Slot(q, n - 1).seq
    BY <2>1, <2>2 DEF RingEntry
  <2>4. n \in 0..(t.size - 1)
    BY <1>3, <1>4, <1>7
  <2>5. QED
    BY <1>5, <1>7, <2>1, <2>3, <2>4
<1>8. ASSUME NEW n \in RecentM!Live(t), n # 0
      PROVE  /\ n - 1 \in RecentM!Live(q)
             /\ RecentM!Slot(t, n) = [RecentM!Slot(q, n - 1) EXCEPT !.cumulativeDelay = @ + d]
  <2>1. n \in 1..(RingCap - 1) /\ n - 1 \in 0..(q.size - 1)
    BY <1>3, <1>4, <1>5, <1>8
  <2>2. QED
    BY <1>7, <2>1
<1>9. ASSUME NEW n \in RecentM!Live(q), n + 1 < RingCap PROVE n + 1 \in RecentM!Live(t)
  <2>1. n \in 0..(q.size - 1)
    BY <1>5
  <2>2. n + 1 \in 1..(RingCap - 1) /\ (n + 1) - 1 = n
    BY <1>4, <1>9, <2>1
  <2>3. QED
    BY <1>7, <2>1, <2>2
<1>10. PlacedAs(t, q, d, e)
  BY <1>3, <1>6, <1>8, <1>9 DEF PlacedAs
<1>11. QED
  BY <1>10 DEF t

(* Pop gives up the oldest place of the window. *)
LEMMA ShrinkIs ==
    ASSUME NEW q \in Ring, q.size > 0
    PROVE  LET t == [q EXCEPT !.size = @ - 1]
           IN /\ t \in Ring /\ t.size = q.size - 1 /\ t.holes = q.holes
              /\ RecentM!Live(t) = RecentM!Live(q) \ {q.size - 1}
              /\ \A n : RecentM!Slot(t, n) = RecentM!Slot(q, n)
<1> DEFINE t == [q EXCEPT !.size = @ - 1]
<1>1. /\ q.head \in 0..(RingCap - 1) /\ q.size \in 0..RingCap /\ q.size \in Nat /\ q.holes \in Int
      /\ q.entries \in [0..(RingCap - 1) -> RingEntry]
      /\ RingCap \in Nat /\ RingCap > 0 /\ q.head \in Int
  BY RingIs
<1>2. /\ t.size = q.size - 1 /\ t.holes = q.holes /\ t.head = q.head /\ t.entries = q.entries
      /\ t = [head |-> t.head, size |-> t.size, holes |-> t.holes, entries |-> t.entries]
  BY DEF Ring
<1> HIDE DEF t
<1>3. t \in Ring
  <2>1. t.size \in 0..RingCap
    BY <1>1, <1>2
  <2>2. QED
    BY <1>1, <1>2, <2>1 DEF Ring
<1>4. \A n : RecentM!Slot(t, n) = RecentM!Slot(q, n)
  BY <1>2 DEF RecentM!Slot
<1>5. /\ \A k : k \in RecentM!Live(q) <=> k \in 0..(q.size - 1) /\ RecentM!Slot(q, k).seq # 0
      /\ \A k : k \in RecentM!Live(t) <=> k \in 0..(t.size - 1) /\ RecentM!Slot(t, k).seq # 0
  BY <1>3, LiveIs
<1>6. \A k : k \in 0..(t.size - 1) <=> k \in 0..(q.size - 1) /\ k # q.size - 1
  BY <1>1, <1>2
<1>7. RecentM!Live(t) = RecentM!Live(q) \ {q.size - 1}
  BY <1>4, <1>5, <1>6
<1>8. QED
  BY <1>2, <1>3, <1>4, <1>7 DEF t

(* The invariant of the ring, of which the steps in between keep a part:   *)
(* an entry at place n was followed by at least n others, an older place   *)
(* holds an older entry, its delay is the time since it was pushed, and    *)
(* the holes are counted.                                                  *)
EntryOK(e, n, last, el, at) ==
    /\ e.seq \in 1..RingMaxSeq /\ e.delay \in Delays /\ e.bytes \in RingSizes
    /\ e.seq + n <= last
    /\ e.cumulativeDelay = el - at[e.seq]

(* The ring after last pushes, at time el; at says when each was pushed.   *)
RingOK(q, last, el, at) ==
    /\ q \in Ring
    /\ \A n \in RecentM!Live(q) : EntryOK(RecentM!Slot(q, n), n, last, el, at)
    /\ \A m, n \in RecentM!Live(q) : m < n => RecentM!Slot(q, m).seq > RecentM!Slot(q, n).seq
    /\ q.size - Cardinality(RecentM!Live(q)) <= q.holes

(* What the abstract queue sees of a place, and of the ring.               *)
Seen(q, n) ==
    [seq |-> RecentM!Slot(q, n).seq, delay |-> RecentM!Slot(q, n).delay,
     bytes |-> RecentM!Slot(q, n).bytes]

Queue(q) == {Seen(q, n) : n \in RecentM!Live(q)}

(* Slots that move, or are counted as holes no more, change nothing.       *)
LEMMA KeptOK ==
    ASSUME NEW q, NEW t, NEW k, NEW last \in Int, NEW el, NEW at,
           RingOK(q, last, el, at), Kept(t, q, k), t.size - t.holes = q.size - q.holes
    PROVE  RingOK(t, last, el, at) /\ Queue(t) = Queue(q)
<1>1. q \in Ring /\ t \in Ring /\ k \in Nat
  BY DEF RingOK, Kept
<1>2. /\ \A n \in RecentM!Live(t) : /\ n + k \in RecentM!Live(q)
                                    /\ RecentM!Slot(t, n) = RecentM!Slot(q, n + k)
      /\ \A n \in RecentM!Live(q) : n - k \in RecentM!Live(t)
  BY DEF Kept
<1>3. \A n \in RecentM!Live(t) : n \in Nat
  BY <1>1, LiveIs
<1>4. \A n \in RecentM!Live(q) : n \in Nat
  BY <1>1, LiveIs
<1>5. ASSUME NEW n \in RecentM!Live(t)
      PROVE  EntryOK(RecentM!Slot(t, n), n, last, el, at)
  <2>1. EntryOK(RecentM!Slot(q, n + k), n + k, last, el, at)
    BY <1>2 DEF RingOK
  <2>2. RecentM!Slot(t, n) = RecentM!Slot(q, n + k) /\ n \in Nat
    BY <1>2, <1>3
  <2> DEFINE e == RecentM!Slot(t, n)
  <2> HIDE DEF e
  <2>3. EntryOK(e, n + k, last, el, at)
    BY <2>1, <2>2 DEF e
  <2>4. e.seq \in 1..RingMaxSeq /\ e.seq + (n + k) <= last
    BY <2>3 DEF EntryOK
  <2>5. e.seq + n <= last
    BY <1>1, <2>2, <2>4
  <2>6. EntryOK(e, n, last, el, at)
    BY <2>3, <2>5 DEF EntryOK
  <2>7. QED
    BY <2>6 DEF e
<1>6. ASSUME NEW m \in RecentM!Live(t), NEW n \in RecentM!Live(t), m < n
      PROVE  RecentM!Slot(t, m).seq > RecentM!Slot(t, n).seq
  <2>1. m + k < n + k
    BY <1>1, <1>3, <1>6
  <2>2. RecentM!Slot(q, m + k).seq > RecentM!Slot(q, n + k).seq
    BY <1>2, <2>1 DEF RingOK
  <2>3. QED
    BY <1>2, <2>2
<1>7. t.size - Cardinality(RecentM!Live(t)) <= t.holes
  <2>1. Cardinality(RecentM!Live(t)) = Cardinality(RecentM!Live(q))
    BY <1>1, KeptCounts
  <2>2. /\ t.size \in Int /\ t.holes \in Int /\ q.size \in Int /\ q.holes \in Int
        /\ Cardinality(RecentM!Live(q)) \in Int
    <3>1. t.size \in Nat /\ t.holes \in Int
      BY <1>1, RingIs
    <3>2. q.size \in Nat /\ q.holes \in Int
      BY <1>1, RingIs
    <3>3. Cardinality(RecentM!Live(q)) \in Nat
      BY <1>1, LiveIs
    <3>4. QED
      BY <3>1, <3>2, <3>3
  <2>3. q.size - Cardinality(RecentM!Live(q)) <= q.holes
    BY DEF RingOK
  <2>4. QED
    BY <2>1, <2>2, <2>3
<1>8. Queue(t) = Queue(q)
  <2>1. ASSUME NEW n \in RecentM!Live(t) PROVE Seen(t, n) \in Queue(q)
    <3>1. Seen(t, n) = Seen(q, n + k) /\ n + k \in RecentM!Live(q)
      BY <1>2 DEF Seen
    <3>2. QED
      BY <3>1 DEF Queue
  <2>2. ASSUME NEW n \in RecentM!Live(q) PROVE Seen(q, n) \in Queue(t)
    <3>1. n - k \in RecentM!Live(t) /\ (n - k) + k = n
      BY <1>1, <1>2, <1>4
    <3>2. Seen(t, n - k) = Seen(q, n)
      BY <1>2, <3>1 DEF Seen
    <3>3. QED
      BY <3>1, <3>2 DEF Queue
  <2>3. QED
    BY <2>1, <2>2 DEF Queue
<1>9. QED
  BY <1>1, <1>5, <1>6, <1>7, <1>8 DEF RingOK

LEMMA TrimTailOK ==
    ASSUME NEW q, NEW last \in Int, NEW el, NEW at, RingOK(q, last, el, at)
    PROVE  /\ RingOK(RecentM!TrimTail(q), last, el, at)
           /\ Queue(RecentM!TrimTail(q)) = Queue(q)
<1> DEFINE t == RecentM!TrimTail(q)
<1>1. q \in Ring
  BY DEF RingOK
<1>2. Kept(t, q, 0) /\ t.size - t.holes = q.size - q.holes
  BY <1>1, TrimTailIs
<1> HIDE DEF t
<1>3. RingOK(t, last, el, at) /\ Queue(t) = Queue(q)
  BY <1>2, KeptOK
<1>4. QED
  BY <1>3 DEF t

LEMMA TrimHeadOK ==
    ASSUME NEW q, NEW last \in Int, NEW el, NEW at, RingOK(q, last, el, at)
    PROVE  /\ RingOK(RecentM!TrimHead(q), last, el, at)
           /\ Queue(RecentM!TrimHead(q)) = Queue(q)
<1> DEFINE t == RecentM!TrimHead(q)
<1>1. q \in Ring
  BY DEF RingOK
<1>2. (\E k \in Nat : Kept(t, q, k)) /\ t.size - t.holes = q.size - q.holes
  BY <1>1, TrimHeadIs
<1>3. PICK k \in Nat : Kept(t, q, k)
  BY <1>2
<1> HIDE DEF t
<1>4. RingOK(t, last, el, at) /\ Queue(t) = Queue(q)
  BY <1>2, <1>3, KeptOK
<1>5. QED
  BY <1>4 DEF t

(* Different places hold entries of different numbers. *)
LEMMA SeqsDiffer ==
    ASSUME NEW q, NEW last \in Int, NEW el, NEW at, RingOK(q, last, el, at),
           NEW m \in RecentM!Live(q), NEW n \in RecentM!Live(q)
    PROVE  /\ RecentM!Slot(q, m).seq = RecentM!Slot(q, n).seq => m = n
           /\ RecentM!Slot(q, m).seq \in 1..RingMaxSeq /\ RecentM!Slot(q, m).seq \in Int
           /\ Seen(q, m) = Seen(q, n) => m = n
<1>1. m \in Nat /\ n \in Nat
  BY LiveIs DEF RingOK
<1>2. RecentM!Slot(q, m).seq \in 1..RingMaxSeq /\ RecentM!Slot(q, n).seq \in 1..RingMaxSeq
  BY DEF RingOK, EntryOK
<1>3. /\ m < n => RecentM!Slot(q, m).seq > RecentM!Slot(q, n).seq
      /\ n < m => RecentM!Slot(q, n).seq > RecentM!Slot(q, m).seq
  BY DEF RingOK
<1>4. Seen(q, m) = Seen(q, n) => RecentM!Slot(q, m).seq = RecentM!Slot(q, n).seq
  <2>1. Seen(q, m).seq = RecentM!Slot(q, m).seq /\ Seen(q, n).seq = RecentM!Slot(q, n).seq
    BY DEF Seen
  <2>2. QED
    BY <2>1
<1>5. QED
  BY <1>1, <1>2, <1>3, <1>4

(* Fewer entries, at the same places, with the holes counted.              *)
LEMMA FewerOK ==
    ASSUME NEW q, NEW t, NEW last, NEW el, NEW at, RingOK(q, last, el, at), t \in Ring,
           RecentM!Live(t) \subseteq RecentM!Live(q),
           \A n \in RecentM!Live(t) : RecentM!Slot(t, n) = RecentM!Slot(q, n),
           t.size - Cardinality(RecentM!Live(t)) <= t.holes
    PROVE  /\ RingOK(t, last, el, at)
           /\ Queue(t) = {Seen(q, n) : n \in RecentM!Live(t)}
<1>1. \A n \in RecentM!Live(t) : EntryOK(RecentM!Slot(t, n), n, last, el, at)
  BY DEF RingOK
<1>2. \A m, n \in RecentM!Live(t) : m < n => RecentM!Slot(t, m).seq > RecentM!Slot(t, n).seq
  BY DEF RingOK
<1>3. \A n \in RecentM!Live(t) : Seen(t, n) = Seen(q, n)
  BY DEF Seen
<1>4. QED
  BY <1>1, <1>2, <1>3 DEF RingOK, Queue

LEMMA MakeHolesOK ==
    ASSUME NEW q, NEW last, NEW el, NEW at, RingOK(q, last, el, at),
           NEW S, S \subseteq RecentM!Live(q)
    PROVE  LET t == RecentM!MakeHoles(q, S)
           IN /\ RingOK(t, last, el, at)
              /\ Queue(t) = {Seen(q, n) : n \in RecentM!Live(q) \ S}
<1> DEFINE t == RecentM!MakeHoles(q, S)
<1>1. q \in Ring /\ q.size - Cardinality(RecentM!Live(q)) <= q.holes
  BY DEF RingOK
<1>2. /\ t \in Ring
      /\ t.size = q.size /\ t.holes = q.holes + Cardinality(S)
      /\ RecentM!Live(t) = RecentM!Live(q) \ S
      /\ \A n \in RecentM!Live(t) : RecentM!Slot(t, n) = RecentM!Slot(q, n)
      /\ Cardinality(RecentM!Live(t)) = Cardinality(RecentM!Live(q)) - Cardinality(S)
  BY <1>1, MakeHolesIs
<1> HIDE DEF t
<1>3. q.size \in Int /\ q.holes \in Int
  BY <1>1, RingIs
<1>4. IsFiniteSet(RecentM!Live(q)) /\ Cardinality(RecentM!Live(q)) \in Nat
  BY <1>1, LiveIs
<1>5. Cardinality(S) \in Nat
  BY <1>4, FS_Subset, FS_CardinalityType
<1>6. t.size - Cardinality(RecentM!Live(t)) <= t.holes
  BY <1>1, <1>2, <1>3, <1>4, <1>5
<1>7. RingOK(t, last, el, at) /\ Queue(t) = {Seen(q, n) : n \in RecentM!Live(t)}
  BY <1>2, <1>6, FewerOK
<1>8. QED
  BY <1>2, <1>7 DEF t

(* Pushing keeps the invariant: what the new entry pushes out of the ring  *)
(* is the entry at its last place.                                         *)
PushedOK(t, q, last, el, at, d, b) ==
    /\ RingOK(t, last + 1, el + d, [at EXCEPT ![last + 1] = el + d])
    /\ Queue(t) = {Seen(q, n) : n \in RecentM!Live(q) \ {RingCap - 1}}
                    \cup {[seq |-> last + 1, delay |-> d, bytes |-> b]}

LEMMA PlacedOK ==
    ASSUME NEW q, NEW last \in Nat, NEW el \in Nat, NEW at \in [1..RingMaxSeq -> Nat],
           RingOK(q, last, el, at), last < RingMaxSeq, NEW d \in Delays, NEW b \in RingSizes,
           NEW e, e = [seq |-> last + 1, delay |-> d, bytes |-> b, cumulativeDelay |-> 0]
    PROVE  PushedOK(Placed(q, d, e), q, last, el, at, d, b)
<1> DEFINE t == Placed(q, d, e)
           at2 == [at EXCEPT ![last + 1] = el + d]
           A == RecentM!Live(q)
           B == RecentM!Live(t)
           K == RecentM!Live(q) \ {RingCap - 1}
<1>1. q \in Ring /\ q.size - Cardinality(A) <= q.holes
  BY DEF RingOK
<1>2. d \in Nat /\ b \in Nat /\ RingMaxSeq \in Nat /\ RingCap \in Nat /\ RingCap > 0
  BY RecentConstants
<1>3. e \in RingEntry /\ e.seq = last + 1 /\ e.seq # 0
  BY <1>2 DEF RingEntry
<1>4. /\ t \in Ring /\ t.holes = q.holes
      /\ t.size = IF q.size < RingCap THEN q.size + 1 ELSE RingCap
      /\ 0 \in B /\ RecentM!Slot(t, 0) = e
      /\ \A n \in B : n # 0 =>
            /\ n - 1 \in A
            /\ RecentM!Slot(t, n) = [RecentM!Slot(q, n - 1) EXCEPT !.cumulativeDelay = @ + d]
      /\ \A n \in A : n + 1 < RingCap => n + 1 \in B
  <2>1. PlacedAs(t, q, d, e)
    BY <1>1, <1>2, <1>3, PlacedIs
  <2> HIDE DEF t
  <2>2. QED
    BY <2>1 DEF PlacedAs
<1> HIDE DEF t
<1>5. /\ IsFiniteSet(A) /\ A \in SUBSET Nat /\ Cardinality(A) \in Nat
      /\ \A n \in A : n \in Nat /\ n < q.size /\ n < RingCap
  BY <1>1, LiveIs
<1>6. /\ IsFiniteSet(B) /\ B \in SUBSET Nat /\ Cardinality(B) \in Nat
      /\ \A n \in B : n \in Nat /\ n < t.size /\ n < RingCap
  BY <1>4, LiveIs
<1>7. /\ q.size \in Nat /\ q.size \in 0..RingCap /\ q.holes \in Int
      /\ \A n \in 0..RingCap : RecentM!Slot(q, n) \in RingEntry
  BY <1>1, RingIs
<1>8. \A n \in A : EntryOK(RecentM!Slot(q, n), n, last, el, at) /\ RecentM!Slot(q, n) \in RingEntry
  <2>1. \A n \in A : n \in 0..RingCap
    BY <1>2, <1>5
  <2>2. QED
    BY <1>7, <2>1 DEF RingOK
<1>9. ASSUME NEW n \in B, n # 0
      PROVE  LET x == RecentM!Slot(q, n - 1)
                 y == RecentM!Slot(t, n)
             IN /\ y.seq = x.seq /\ y.delay = x.delay /\ y.bytes = x.bytes
                /\ y.cumulativeDelay = x.cumulativeDelay + d
                /\ x \in RingEntry /\ EntryOK(x, n - 1, last, el, at)
  BY <1>4, <1>8, <1>9 DEF RingEntry
<1>10. at2[last + 1] = el + d /\ \A k \in 1..last : at2[k] = at[k] /\ at[k] \in Nat
  BY <1>2
<1> HIDE DEF at2
<1>11. ASSUME NEW n \in B PROVE EntryOK(RecentM!Slot(t, n), n, last + 1, el + d, at2)
  <2>1. CASE n = 0
    <3>1. (el + d) - (el + d) = 0 /\ last + 1 \in 1..RingMaxSeq
      BY <1>2
    <3>2. e.cumulativeDelay = 0 /\ e.delay = d /\ e.bytes = b
      OBVIOUS
    <3>3. QED
      BY <1>3, <1>4, <1>10, <2>1, <3>1, <3>2 DEF EntryOK
  <2>2. CASE n # 0
    <3> DEFINE x == RecentM!Slot(q, n - 1)
               y == RecentM!Slot(t, n)
    <3>1. /\ y.seq = x.seq /\ y.delay = x.delay /\ y.bytes = x.bytes
          /\ y.cumulativeDelay = x.cumulativeDelay + d
          /\ x \in RingEntry /\ EntryOK(x, n - 1, last, el, at)
      BY <1>9, <2>2
    <3> HIDE DEF x, y
    <3>2. /\ x.seq \in 1..RingMaxSeq /\ x.delay \in Delays /\ x.bytes \in RingSizes
          /\ x.seq + (n - 1) <= last /\ x.cumulativeDelay = el - at[x.seq]
      BY <3>1 DEF EntryOK
    <3>3. n \in Nat /\ x.seq \in Int
      BY <1>2, <1>6, <3>2
    <3>4. x.seq + n <= last + 1 /\ x.seq \in 1..last
      <4>1. \A c, m, l \in Int : c >= 1 /\ m >= 1 /\ c + (m - 1) <= l
                                   => c + m <= l + 1 /\ c \in 1..l
        OBVIOUS
      <4>2. x.seq >= 1 /\ n >= 1 /\ last \in Int /\ n \in Int
        BY <1>2, <2>2, <3>2, <3>3
      <4>3. QED
        BY <3>2, <3>3, <4>1, <4>2
    <3>5. (el - at[x.seq]) + d = (el + d) - at2[x.seq]
      BY <1>2, <1>10, <3>4
    <3>6. EntryOK(y, n, last + 1, el + d, at2)
      BY <3>1, <3>2, <3>4, <3>5 DEF EntryOK
    <3>7. QED
      BY <3>6 DEF y
  <2>3. QED
    BY <2>1, <2>2
<1>12. ASSUME NEW m \in B, NEW n \in B, m < n
       PROVE  RecentM!Slot(t, m).seq > RecentM!Slot(t, n).seq
  <2>1. m \in Nat /\ n \in Nat /\ n # 0
    BY <1>6, <1>12
  <2>2. /\ RecentM!Slot(t, n).seq = RecentM!Slot(q, n - 1).seq
        /\ EntryOK(RecentM!Slot(q, n - 1), n - 1, last, el, at) /\ n - 1 \in A
    BY <1>4, <1>9, <2>1
  <2>3. RecentM!Slot(q, n - 1).seq \in Int /\ RecentM!Slot(q, n - 1).seq + (n - 1) <= last
    BY <1>2, <2>2 DEF EntryOK
  <2>4. CASE m = 0
    BY <1>3, <1>4, <2>1, <2>2, <2>3, <2>4
  <2>5. CASE m # 0
    <3>1. RecentM!Slot(t, m).seq = RecentM!Slot(q, m - 1).seq /\ m - 1 \in A
      BY <1>4, <1>9, <2>5
    <3>2. m - 1 < n - 1
      BY <1>12, <2>1
    <3>3. RecentM!Slot(q, m - 1).seq > RecentM!Slot(q, n - 1).seq
      BY <2>2, <3>1, <3>2 DEF RingOK
    <3>4. QED
      BY <2>2, <3>1, <3>3
  <2>6. QED
    BY <2>4, <2>5
<1>13. K \in SUBSET Nat /\ IsFiniteSet(K) /\ Cardinality(K) \in Nat
       /\ Cardinality(K) = Cardinality(A) - (IF RingCap - 1 \in A THEN 1 ELSE 0)
  <2>1. K \in SUBSET Nat
    BY <1>5
  <2>2. /\ IsFiniteSet(K)
        /\ Cardinality(K) = IF RingCap - 1 \in A THEN Cardinality(A) - 1 ELSE Cardinality(A)
    BY <1>5, FS_RemoveElement
  <2>3. Cardinality(K) \in Nat
    BY <2>2, FS_CardinalityType
  <2>4. QED
    BY <1>5, <2>1, <2>2, <2>3
<1>14. /\ \A n \in K : n + 1 \in B \ {0}
       /\ \A n \in B \ {0} : n - 1 \in K
  <2>1. ASSUME NEW n \in K PROVE n + 1 \in B \ {0}
    <3>1. n \in A /\ n \in Nat /\ n + 1 < RingCap /\ n + 1 # 0
      BY <1>2, <1>5
    <3>2. QED
      BY <1>4, <3>1
  <2>2. ASSUME NEW n \in B \ {0} PROVE n - 1 \in K
    <3>1. n - 1 \in A /\ n - 1 # RingCap - 1
      BY <1>2, <1>4, <1>6
    <3>2. QED
      BY <3>1
  <2>3. QED
    BY <2>1, <2>2
<1>15. Cardinality(B) = Cardinality(K) + 1
  <2>1. B \ {0} \in SUBSET Nat
    BY <1>6
  <2> DEFINE C == B \ {0}
  <2>2. C \in SUBSET Nat /\ (\A n \in K : n + 1 \in C) /\ (\A n \in C : n - 1 \in K)
    BY <1>14, <2>1
  <2> HIDE DEF C, K
  <2>3. Cardinality(C) = Cardinality(K)
    <3>1. 1 \in Int /\ K \in SUBSET Nat /\ IsFiniteSet(K)
      BY <1>13
    <3>2. QED
      BY <2>2, <3>1, ShiftCounts
  <2>4. Cardinality(C) = Cardinality(B) - 1
    BY <1>4, <1>6, FS_RemoveElement DEF C
  <2>5. QED
    BY <1>6, <1>13, <2>3, <2>4
<1>16. t.size - Cardinality(B) <= t.holes
  <2>1. RingCap - 1 \in A => q.size = RingCap
    BY <1>2, <1>5, <1>7
  <2> HIDE DEF A, B, K
  <2>2. CASE RingCap - 1 \in A
    BY <1>1, <1>2, <1>4, <1>5, <1>7, <1>13, <1>15, <2>1, <2>2
  <2>3. CASE RingCap - 1 \notin A
    <3>1. Cardinality(B) = Cardinality(A) + 1
      BY <1>5, <1>13, <1>15, <2>3
    <3>2. t.size \in Int /\ t.size <= q.size + 1
      BY <1>2, <1>4, <1>7
    <3>3. QED
      BY <1>1, <1>4, <1>5, <1>7, <3>1, <3>2
  <2>4. QED
    BY <2>2, <2>3
<1>17. RingOK(t, last + 1, el + d, at2)
  BY <1>4, <1>11, <1>12, <1>16 DEF RingOK
<1>18. Queue(t) = {Seen(q, n) : n \in K} \cup {[seq |-> last + 1, delay |-> d, bytes |-> b]}
  <2>1. Seen(t, 0) = [seq |-> last + 1, delay |-> d, bytes |-> b]
    BY <1>4 DEF Seen
  <2>2. \A n \in B : n # 0 => Seen(t, n) = Seen(q, n - 1)
    BY <1>9 DEF Seen
  <2>3. ASSUME NEW n \in B
        PROVE  Seen(t, n) \in {Seen(q, k) : k \in K} \cup {[seq |-> last + 1, delay |-> d, bytes |-> b]}
    <3>1. n # 0 => n - 1 \in K /\ Seen(t, n) = Seen(q, n - 1)
      BY <1>14, <2>2
    <3>2. QED
      BY <2>1, <3>1
  <2>4. ASSUME NEW n \in K PROVE Seen(q, n) \in Queue(t)
    <3>1. n + 1 \in B /\ n + 1 # 0 /\ (n + 1) - 1 = n
      BY <1>13, <1>14
    <3>2. Seen(t, n + 1) = Seen(q, n)
      BY <2>2, <3>1
    <3>3. QED
      BY <3>1, <3>2 DEF Queue
  <2>5. [seq |-> last + 1, delay |-> d, bytes |-> b] \in Queue(t)
    BY <1>4, <2>1 DEF Queue
  <2>6. QED
    BY <2>3, <2>4, <2>5 DEF Queue
<1>19. PushedOK(t, q, last, el, at, d, b)
  BY <1>17, <1>18 DEF PushedOK, at2
<1>20. QED
  BY <1>19 DEF t

(* The inductive invariant of the ring.                                    *)
RingInv ==
    /\ lastPushed \in 0..RingMaxSeq /\ elapsed \in Nat /\ pushedAt \in [1..RingMaxSeq -> Nat]
    /\ RingOK(r, lastPushed, elapsed, pushedAt)

LEMMA RingInit == RecentM!Init => RingInv /\ RecentM!Abstract!Init
<1> SUFFICES ASSUME RecentM!Init PROVE RingInv /\ RecentM!Abstract!Init
  OBVIOUS
<1>1. RingCap \in Nat /\ RingCap > 0 /\ RingMaxSeq \in Nat
  BY RecentConstants
<1>2. /\ r = [head |-> 0, size |-> 0, holes |-> 0,
              entries |-> [idx \in 0..(RingCap - 1) |-> RecentM!Hole]]
      /\ lastPushed = 0 /\ elapsed = 0 /\ pushedAt = [s \in 1..RingMaxSeq |-> 0]
  BY DEF RecentM!Init, RecentM!NewRecent, RecentM!Seqs
<1>3. r \in Ring
  <2>1. RecentM!Hole \in RingEntry
    BY RecentSame DEF RecentM!Hole, RingEntry
  <2>2. 0 \in 0..(RingCap - 1) /\ 0 \in 0..RingCap
    BY <1>1
  <2>3. QED
    BY <1>2, <2>1, <2>2 DEF Ring
<1>4. RecentM!Live(r) = {}
  <2>1. \A n : n \in RecentM!Live(r) => n \in 0..(r.size - 1)
    BY <1>3, LiveIs
  <2>2. 0..(r.size - 1) = {}
    BY <1>2
  <2>3. QED
    BY <2>1, <2>2
<1>5. Cardinality(RecentM!Live(r)) = 0
  BY <1>4, FS_EmptySet
<1>6. RingOK(r, lastPushed, elapsed, pushedAt)
  <2>1. r.size - Cardinality(RecentM!Live(r)) <= r.holes
    <3>1. r.size = 0 /\ r.holes = 0
      BY <1>2
    <3>2. QED
      BY <1>5, <3>1
  <2>2. QED
    BY <1>3, <1>4, <2>1 DEF RingOK
<1>7. RingInv
  BY <1>1, <1>2, <1>6 DEF RingInv
<1>8. QED
  BY <1>2, <1>4, <1>7 DEF RecentM!Abstract!Init

(* The queue the ring implements is what its places show.                  *)
LEMMA QueueNow ==
    /\ {RecentM!EntryAt(n) : n \in RecentM!Live(r)} = Queue(r)
    /\ {RecentM!EntryAt(n) : n \in RecentM!Live(r)}' = Queue(r')
  BY DEF RecentM!EntryAt, Queue, Seen

(* The entry that would be given up next. *)
LEMMA OldestIs ==
    ASSUME NEW q, NEW last \in Int, NEW el, NEW at, RingOK(q, last, el, at),
           NEW n \in RecentM!Live(q), \A m \in RecentM!Live(q) : m <= n
    PROVE  /\ Seen(q, n) \in Queue(q) /\ \A e \in Queue(q) : Seen(q, n).seq <= e.seq
           /\ {Seen(q, m) : m \in RecentM!Live(q) \ {n}} = Queue(q) \ {Seen(q, n)}
<1>1. Seen(q, n) \in Queue(q)
  BY DEF Queue
<1>2. ASSUME NEW e \in Queue(q) PROVE Seen(q, n).seq <= e.seq
  <2>1. PICK m \in RecentM!Live(q) : e = Seen(q, m)
    BY DEF Queue
  <2>2. m \in Nat /\ n \in Nat /\ m <= n
    BY LiveIs DEF RingOK
  <2>3. RecentM!Slot(q, m).seq \in Int /\ RecentM!Slot(q, n).seq \in Int
    BY SeqsDiffer
  <2>4. m < n => RecentM!Slot(q, m).seq > RecentM!Slot(q, n).seq
    BY DEF RingOK
  <2>5. RecentM!Slot(q, n).seq <= RecentM!Slot(q, m).seq
    BY <2>2, <2>3, <2>4
  <2>6. QED
    BY <2>1, <2>5 DEF Seen
<1>3. ASSUME NEW m \in RecentM!Live(q), m # n PROVE Seen(q, m) # Seen(q, n)
  BY <1>3, SeqsDiffer
<1>4. {Seen(q, m) : m \in RecentM!Live(q) \ {n}} = Queue(q) \ {Seen(q, n)}
  BY <1>3 DEF Queue
<1>5. QED
  BY <1>1, <1>2, <1>4

(* The abstract queue has as many entries as the ring.                     *)
LEMMA QueueCounts ==
    ASSUME NEW q, NEW last \in Int, NEW el, NEW at, RingOK(q, last, el, at)
    PROVE  IsFiniteSet(Queue(q)) /\ Cardinality(Queue(q)) = Cardinality(RecentM!Live(q))
<1> DEFINE A == RecentM!Live(q)
           f == [n \in A |-> Seen(q, n)]
<1>1. IsFiniteSet(A)
  BY LiveIs DEF RingOK
<1>2. \A m, n \in A : f[m] = f[n] => m = n
  BY SeqsDiffer
<1>3. f \in [A -> Queue(q)] /\ \A e \in Queue(q) : \E n \in A : f[n] = e
  BY DEF Queue
<1> HIDE DEF f, A
<1>4. f \in Injection(A, Queue(q)) /\ f \in Surjection(A, Queue(q))
  BY <1>2, <1>3 DEF Injection, IsInjective, Surjection
<1>5. ExistsBijection(A, Queue(q))
  BY <1>4 DEF ExistsBijection, Bijection
<1>6. QED
  BY <1>1, <1>5, FS_Bijection DEF A

(* Each change of the ring keeps the invariant and is a step, or a         *)
(* stutter, of the abstract queue. First the push, into a full ring or     *)
(* not.                                                                    *)
LEMMA RingPush ==
    ASSUME RingInv, NEW d \in Delays, NEW b \in RingSizes, RecentM!Push(d, b)
    PROVE  RingInv' /\ RecentM!Abstract!Next
<1> DEFINE e == [seq |-> lastPushed + 1, delay |-> d, bytes |-> b, cumulativeDelay |-> 0]
           a == [seq |-> lastPushed + 1, delay |-> d, bytes |-> b]
           u == Placed(r, d, e)
           A == RecentM!Live(r)
<1>1. RingCap \in Nat /\ RingCap > 0 /\ RingMaxSeq \in Nat /\ d \in Nat /\ b \in Nat
  BY RecentConstants
<1>2. /\ lastPushed \in 0..RingMaxSeq /\ lastPushed \in Nat /\ lastPushed \in Int /\ elapsed \in Nat
      /\ pushedAt \in [1..RingMaxSeq -> Nat] /\ RingOK(r, lastPushed, elapsed, pushedAt)
  BY <1>1 DEF RingInv
<1>3. /\ lastPushed < RingMaxSeq /\ r' = RecentM!TrimTail(u)
      /\ lastPushed' = lastPushed + 1 /\ elapsed' = elapsed + d
      /\ pushedAt' = [pushedAt EXCEPT ![lastPushed + 1] = elapsed + d]
  BY RecentSame DEF RecentM!Push, Placed
<1>4. /\ RingOK(u, lastPushed + 1, elapsed + d, [pushedAt EXCEPT ![lastPushed + 1] = elapsed + d])
      /\ Queue(u) = {Seen(r, n) : n \in A \ {RingCap - 1}} \cup {a}
  <2>1. PushedOK(u, r, lastPushed, elapsed, pushedAt, d, b)
    <3>1. e = [seq |-> lastPushed + 1, delay |-> d, bytes |-> b, cumulativeDelay |-> 0]
      OBVIOUS
    <3> HIDE DEF e
    <3>2. QED
      BY <1>2, <1>3, <3>1, PlacedOK
  <2> HIDE DEF u
  <2>2. QED
    BY <2>1 DEF PushedOK
<1> HIDE DEF u
<1>5. RingOK(u, lastPushed', elapsed', pushedAt') /\ lastPushed' \in Int
  BY <1>2, <1>3, <1>4
<1>6. RingOK(r', lastPushed', elapsed', pushedAt') /\ Queue(r') = Queue(u)
  BY <1>3, <1>5, TrimTailOK
<1>7. RingInv'
  <2>1. lastPushed' \in 0..RingMaxSeq /\ elapsed' \in Nat
    BY <1>1, <1>2, <1>3
  <2>2. pushedAt' \in [1..RingMaxSeq -> Nat]
    BY <1>1, <1>2, <1>3
  <2>3. QED
    BY <1>6, <2>1, <2>2 DEF RingInv
<1>8. /\ IsFiniteSet(A) /\ A \in SUBSET Nat /\ Cardinality(A) \in Nat
      /\ \A n \in A : n \in Nat /\ n < RingCap
  BY <1>2, LiveIs DEF RingOK
<1>9. a \in RecentM!Abstract!Entries /\ a.seq = lastPushed + 1
  <2>1. lastPushed + 1 \in 1..RingMaxSeq
    BY <1>1, <1>2, <1>3
  <2>2. QED
    BY <2>1 DEF RecentM!Abstract!Entries
<1>10. CASE RingCap - 1 \in A
  <2> DEFINE o == Seen(r, RingCap - 1)
  <2>1. \A m \in A : m <= RingCap - 1
    BY <1>1, <1>8
  <2>2. /\ o \in Queue(r) /\ \A x \in Queue(r) : o.seq <= x.seq
        /\ {Seen(r, n) : n \in A \ {RingCap - 1}} = Queue(r) \ {o}
    BY <1>2, <1>10, <2>1, OldestIs
  <2>3. o.seq + RingCap <= a.seq
    <3> DEFINE x == RecentM!Slot(r, RingCap - 1)
    <3>1. EntryOK(x, RingCap - 1, lastPushed, elapsed, pushedAt)
      BY <1>2, <1>10 DEF RingOK
    <3>2. o.seq = x.seq
      BY DEF Seen
    <3> HIDE DEF x, o
    <3>3. x.seq \in Int /\ x.seq + (RingCap - 1) <= lastPushed
      BY <1>1, <3>1 DEF EntryOK
    <3>4. QED
      BY <1>1, <1>2, <1>9, <3>2, <3>3
  <2> HIDE DEF o, a
  <2>4. Queue(r') = (Queue(r) \ {o}) \cup {a}
    BY <1>4, <1>6, <2>2
  <2>5. RecentM!Abstract!Push(a)
    BY <1>3, <1>9, <2>2, <2>3, <2>4, QueueNow
       DEF RecentM!Abstract!Push, RecentM!Abstract!Oldest
  <2>6. QED
    BY <1>7, <1>9, <2>5 DEF RecentM!Abstract!Next
<1>11. CASE RingCap - 1 \notin A
  <2>1. A \ {RingCap - 1} = A
    BY <1>11
  <2>2. Queue(r') = Queue(r) \cup {a}
    BY <1>4, <1>6, <2>1 DEF Queue
  <2>3. Cardinality(Queue(r)) < RingCap
    <3>1. A \subseteq 0..((RingCap - 1) - 1)
      BY <1>1, <1>8, <1>11
    <3>2. RingCap - 1 \in Nat
      BY <1>1
    <3>3. /\ IsFiniteSet(0..((RingCap - 1) - 1))
          /\ Cardinality(0..((RingCap - 1) - 1)) = RingCap - 1
      BY <3>2, CountFromZero
    <3>4. Cardinality(A) <= RingCap - 1
      BY <3>1, <3>3, FS_Subset
    <3>5. Cardinality(Queue(r)) = Cardinality(A)
      BY <1>2, QueueCounts
    <3>6. QED
      BY <1>1, <1>8, <3>4, <3>5
  <2>4. \A S : RecentM!Abstract!Cardinality(S) = Cardinality(S)
    BY DEF RecentM!Abstract!Cardinality, Cardinality
  <2> HIDE DEF a
  <2>5. RecentM!Abstract!Push(a)
    BY <1>3, <1>9, <2>2, <2>3, <2>4, QueueNow DEF RecentM!Abstract!Push
  <2>6. QED
    BY <1>7, <1>9, <2>5 DEF RecentM!Abstract!Next
<1>12. QED
  BY <1>10, <1>11

(* Pop takes the oldest entry, or a hole that an entry left there.         *)
LEMMA RingPop ==
    ASSUME RingInv, RecentM!Pop
    PROVE  /\ RingInv'
           /\ RecentM!Abstract!Next \/ (Queue(r') = Queue(r) /\ lastPushed' = lastPushed)
<1> DEFINE t == [r EXCEPT !.size = @ - 1]
           A == RecentM!Live(r)
           n == r.size - 1
<1>1. /\ lastPushed \in 0..RingMaxSeq /\ lastPushed \in Int
      /\ RingOK(r, lastPushed, elapsed, pushedAt) /\ r \in Ring
      /\ r.size - Cardinality(A) <= r.holes
  BY RecentConstants DEF RingInv, RingOK
<1>2. r.size > 0 /\ r' = RecentM!TrimTail(t) /\ UNCHANGED <<lastPushed, elapsed, pushedAt>>
  BY DEF RecentM!Pop
<1>3. /\ t \in Ring /\ t.size = r.size - 1 /\ t.holes = r.holes
      /\ RecentM!Live(t) = A \ {n}
      /\ \A m : RecentM!Slot(t, m) = RecentM!Slot(r, m)
  BY <1>1, <1>2, ShrinkIs
<1> HIDE DEF t
<1>4. r.size \in Nat /\ r.holes \in Int
  BY <1>1, RingIs
<1>5. /\ IsFiniteSet(A) /\ Cardinality(A) \in Nat
      /\ \A m \in A : m \in Nat /\ m < r.size
  BY <1>1, LiveIs
<1>6. t.size - Cardinality(RecentM!Live(t)) <= t.holes
  <2>1. Cardinality(A \ {n}) = IF n \in A THEN Cardinality(A) - 1 ELSE Cardinality(A)
    BY <1>5, FS_RemoveElement
  <2> HIDE DEF A, n
  <2>2. QED
    BY <1>1, <1>3, <1>4, <1>5, <2>1
<1>7. /\ RingOK(t, lastPushed, elapsed, pushedAt)
      /\ Queue(t) = {Seen(r, m) : m \in RecentM!Live(t)}
  BY <1>1, <1>3, <1>6, FewerOK
<1>8. RingOK(r', lastPushed, elapsed, pushedAt) /\ Queue(r') = Queue(t)
  BY <1>1, <1>2, <1>7, TrimTailOK
<1>9. RingInv'
  BY <1>2, <1>8 DEF RingInv
<1>10. CASE n \in A
  <2> DEFINE o == Seen(r, n)
  <2>1. \A m \in A : m <= n
    BY <1>4, <1>5
  <2>2. /\ o \in Queue(r) /\ \A x \in Queue(r) : o.seq <= x.seq
        /\ {Seen(r, m) : m \in A \ {n}} = Queue(r) \ {o}
    BY <1>1, <1>10, <2>1, OldestIs
  <2> HIDE DEF o
  <2>3. Queue(r') = Queue(r) \ {o}
    BY <1>3, <1>7, <1>8, <2>2
  <2>4. RecentM!Abstract!Pop
    BY <1>2, <2>2, <2>3, QueueNow DEF RecentM!Abstract!Pop, RecentM!Abstract!Oldest
  <2>5. QED
    BY <1>9, <2>4 DEF RecentM!Abstract!Next
<1>11. CASE n \notin A
  <2>1. A \ {n} = A
    BY <1>11
  <2>2. Queue(r') = Queue(r)
    BY <1>3, <1>7, <1>8, <2>1 DEF Queue
  <2>3. QED
    BY <1>2, <1>9, <2>2
<1>12. QED
  BY <1>10, <1>11

(* Removing the entries at some places removes their numbers. *)
LEMMA NumbersLeft ==
    ASSUME NEW q, NEW S, NEW T,
           \A n \in RecentM!Live(q) : n \in S <=> RecentM!Slot(q, n).seq \in T
    PROVE  {Seen(q, n) : n \in RecentM!Live(q) \ S} = {e \in Queue(q) : e.seq \notin T}
<1>1. \A n : Seen(q, n).seq = RecentM!Slot(q, n).seq
  BY DEF Seen
<1>2. QED
  BY <1>1 DEF Queue

(* Remove takes the entry with the number, and no other.                   *)
LEMMA RingRemove ==
    ASSUME RingInv, NEW s \in 1..RingMaxSeq, RecentM!Remove(s)
    PROVE  RingInv' /\ RecentM!Abstract!Next
<1>1. lastPushed \in Int /\ RingOK(r, lastPushed, elapsed, pushedAt)
  BY RecentConstants DEF RingInv
<1>2. PICK n \in RecentM!Live(r) :
         RecentM!Slot(r, n).seq = s /\ r' = RecentM!TrimTail(RecentM!TrimHead(RecentM!MakeHoles(r, {n})))
  BY DEF RecentM!Remove
<1> DEFINE S == {n}
           T == {s}
           q == RecentM!MakeHoles(r, S)
           u == RecentM!TrimHead(q)
<1>3. S \subseteq RecentM!Live(r) /\ \A m \in RecentM!Live(r) : m \in S <=> RecentM!Slot(r, m).seq \in T
  BY <1>1, <1>2, SeqsDiffer
<1>4. r' = RecentM!TrimTail(u) /\ UNCHANGED <<lastPushed, elapsed, pushedAt>>
  BY <1>2 DEF RecentM!Remove
<1>11. T \in SUBSET (1..RingMaxSeq)
  OBVIOUS
<1> HIDE DEF S, T
<1>5. /\ RingOK(q, lastPushed, elapsed, pushedAt)
      /\ Queue(q) = {Seen(r, m) : m \in RecentM!Live(r) \ S}
  BY <1>1, <1>3, MakeHolesOK
<1> HIDE DEF q
<1>6. RingOK(u, lastPushed, elapsed, pushedAt) /\ Queue(u) = Queue(q)
  BY <1>1, <1>5, TrimHeadOK
<1> HIDE DEF u
<1>7. RingOK(r', lastPushed, elapsed, pushedAt) /\ Queue(r') = Queue(u)
  BY <1>1, <1>4, <1>6, TrimTailOK
<1>8. RingInv'
  BY <1>4, <1>7 DEF RingInv
<1>9. {Seen(r, m) : m \in RecentM!Live(r) \ S} = {e \in Queue(r) : e.seq \notin T}
  <2>1. \A m \in RecentM!Live(r) : m \in S <=> RecentM!Slot(r, m).seq \in T
    BY <1>3
  <2>2. QED
    BY <2>1, NumbersLeft
<1>10. RecentM!Abstract!RemoveFrom(T)
  BY <1>4, <1>5, <1>6, <1>7, <1>9, QueueNow DEF RecentM!Abstract!RemoveFrom
<1>12. QED
  BY <1>8, <1>10, <1>11 DEF RecentM!Abstract!Next

(* A confirmation takes every entry up to its number.                      *)
LEMMA RingRemoveFn ==
    ASSUME RingInv, NEW s \in 1..RingMaxSeq, RecentM!RemoveFn(s)
    PROVE  RingInv' /\ RecentM!Abstract!Next
<1> DEFINE S == {n \in RecentM!Live(r) : RecentM!Slot(r, n).seq <= s}
           T == {k \in 1..RingMaxSeq : k <= s}
           q == RecentM!MakeHoles(r, S)
           u == RecentM!TrimHead(q)
<1>1. lastPushed \in Int /\ RingOK(r, lastPushed, elapsed, pushedAt)
  BY RecentConstants DEF RingInv
<1>2. S \subseteq RecentM!Live(r) /\ \A m \in RecentM!Live(r) : m \in S <=> RecentM!Slot(r, m).seq \in T
  BY <1>1, SeqsDiffer
<1>3. /\ r' = q \/ r' = RecentM!TrimTail(u)
      /\ UNCHANGED <<lastPushed, elapsed, pushedAt>>
  BY DEF RecentM!RemoveFn
<1>4. T \in SUBSET (1..RingMaxSeq)
  OBVIOUS
<1> HIDE DEF S, T
<1>5. /\ RingOK(q, lastPushed, elapsed, pushedAt)
      /\ Queue(q) = {Seen(r, m) : m \in RecentM!Live(r) \ S}
  BY <1>1, <1>2, MakeHolesOK
<1> HIDE DEF q
<1>6. RingOK(u, lastPushed, elapsed, pushedAt) /\ Queue(u) = Queue(q)
  BY <1>1, <1>5, TrimHeadOK
<1> HIDE DEF u
<1>7. RingOK(RecentM!TrimTail(u), lastPushed, elapsed, pushedAt) /\ Queue(RecentM!TrimTail(u)) = Queue(u)
  BY <1>1, <1>6, TrimTailOK
<1>8. RingOK(r', lastPushed, elapsed, pushedAt) /\ Queue(r') = Queue(q)
  BY <1>3, <1>5, <1>6, <1>7
<1>9. RingInv'
  BY <1>3, <1>8 DEF RingInv
<1>10. {Seen(r, m) : m \in RecentM!Live(r) \ S} = {e \in Queue(r) : e.seq \notin T}
  BY <1>2, NumbersLeft
<1>11. RecentM!Abstract!RemoveFrom(T)
  BY <1>3, <1>5, <1>8, <1>10, QueueNow DEF RecentM!Abstract!RemoveFrom
<1>12. QED
  BY <1>4, <1>9, <1>11 DEF RecentM!Abstract!Next

(* A ring of size 0 is empty, whatever its slots still hold.               *)
LEMMA EmptiedIs ==
    ASSUME NEW q \in Ring, NEW last, NEW el, NEW at
    PROVE  LET t == [q EXCEPT !.size = 0, !.holes = 0]
           IN RingOK(t, last, el, at) /\ Queue(t) = {}
<1> DEFINE t == [q EXCEPT !.size = 0, !.holes = 0]
<1>1. t.size = 0 /\ t.holes = 0
  BY DEF Ring
<1>2. t \in Ring
  <2>1. 0 \in 0..RingCap /\ 0 \in Int
    BY RecentConstants
  <2>2. QED
    BY <2>1 DEF Ring
<1> HIDE DEF t
<1>3. RecentM!Live(t) = {}
  <2>1. \A n : n \in RecentM!Live(t) => n \in 0..(t.size - 1)
    BY <1>2, LiveIs
  <2>2. 0..(t.size - 1) = {}
    BY <1>1
  <2>3. QED
    BY <2>1, <2>2
<1>4. t.size - Cardinality(RecentM!Live(t)) <= t.holes
  <2>1. Cardinality(RecentM!Live(t)) = 0
    BY <1>3, FS_EmptySet
  <2>2. QED
    BY <1>1, <2>1
<1>5. RingOK(t, last, el, at) /\ Queue(t) = {}
  BY <1>2, <1>3, <1>4 DEF RingOK, Queue
<1>6. QED
  BY <1>5 DEF t

LEMMA RingClear ==
    ASSUME RingInv, RecentM!Clear
    PROVE  RingInv' /\ RecentM!Abstract!Next
<1> DEFINE T == 1..RingMaxSeq
<1>1. lastPushed \in Int /\ RingOK(r, lastPushed, elapsed, pushedAt) /\ r \in Ring
  BY RecentConstants DEF RingInv, RingOK
<1>2. r' = [r EXCEPT !.size = 0, !.holes = 0] /\ UNCHANGED <<lastPushed, elapsed, pushedAt>>
  BY DEF RecentM!Clear
<1>7. RingOK(r', lastPushed, elapsed, pushedAt) /\ Queue(r') = {}
  BY <1>1, <1>2, EmptiedIs
<1>8. RingInv'
  BY <1>2, <1>7 DEF RingInv
<1>9. {e \in Queue(r) : e.seq \notin T} = {}
  <2>1. ASSUME NEW e \in Queue(r) PROVE e.seq \in T
    <3>1. PICK n \in RecentM!Live(r) : e = Seen(r, n)
      BY DEF Queue
    <3>2. RecentM!Slot(r, n).seq \in 1..RingMaxSeq
      BY <1>1, SeqsDiffer
    <3>3. QED
      BY <3>1, <3>2 DEF Seen
  <2>2. QED
    BY <2>1
<1>10. RecentM!Abstract!RemoveFrom(T)
  BY <1>2, <1>7, <1>9, QueueNow DEF RecentM!Abstract!RemoveFrom
<1>11. T \in SUBSET (1..RingMaxSeq)
  OBVIOUS
<1>12. QED
  BY <1>8, <1>10, <1>11 DEF RecentM!Abstract!Next

LEMMA RingStep ==
    RingInv /\ [RecentM!Next]_(RecentM!vars)
        => RingInv' /\ [RecentM!Abstract!Next]_<<{RecentM!EntryAt(n) : n \in RecentM!Live(r)}, lastPushed>>
<1> SUFFICES ASSUME RingInv, [RecentM!Next]_(RecentM!vars)
             PROVE  /\ RingInv'
                    /\ RecentM!Abstract!Next \/ (Queue(r') = Queue(r) /\ lastPushed' = lastPushed)
  BY QueueNow
<1>1. CASE \E d \in Delays, b \in RingSizes : RecentM!Push(d, b)
  BY <1>1, RingPush
<1>2. CASE RecentM!Pop
  BY <1>2, RingPop
<1>3. CASE \E s \in RecentM!Seqs : RecentM!Remove(s)
  BY <1>3, RingRemove DEF RecentM!Seqs
<1>4. CASE \E s \in RecentM!Seqs : RecentM!RemoveFn(s)
  BY <1>4, RingRemoveFn DEF RecentM!Seqs
<1>5. CASE RecentM!Clear
  BY <1>5, RingClear
<1>6. CASE UNCHANGED RecentM!vars
  BY <1>6 DEF RecentM!vars, RingInv
<1>7. QED
  BY <1>1, <1>2, <1>3, <1>4, <1>5, <1>6 DEF RecentM!Next

LEMMA RecentPart == StructuresSpec => RecentM!Spec
<1>1. StructuresInit => RecentM!Init
  BY DEF StructuresInit
<1>2. [StructuresNext]_<<part, structureVars>> => [RecentM!Next]_(RecentM!vars)
  BY DEF StructuresNext, structureVars, recentVars, RecentM!vars
<1> QED
  BY <1>1, <1>2, PTL DEF StructuresSpec, RecentM!Spec

LEMMA RecentCorrect == StructuresSpec => []RingInv
<1> QED
  BY RingInit, RingStep, RecentPart, PTL DEF RecentM!Spec

(* The ring with its holes and its trims is a bounded queue: an            *)
(* unconfirmed entry is given up only when Cap newer ones were pushed, and *)
(* a confirmation removes the confirmed entries and no other.              *)
THEOREM RecentImplements == StructuresSpec => RecentRefines
<1> QED
  BY RingInit, RingStep, RecentPart, RecentCorrect, PTL
     DEF RecentM!Spec, RecentRefines, RecentM!Refinement, RecentM!Abstract!Spec

(* The list of a set of places, oldest first. *)
ListsDown(list, S) ==
    /\ {list[k] : k \in DOMAIN list} = S
    /\ \A j, k \in DOMAIN list : j < k => list[k] < list[j]
    /\ \A k \in DOMAIN list : list[k] \in S

(* The places of the window, listed from the oldest.                       *)
LEMMA OldestFirstIs ==
    ASSUME NEW S \in SUBSET Nat, IsFiniteSet(S)
    PROVE  ListsDown(RecentM!OldestFirst(S), S)
<1> DEFINE n == Cardinality(S)
           w == Sorted(S)
           list == RecentM!OldestFirst(S)
<1>1. /\ n \in Nat /\ DOMAIN w = 1..n /\ ToSet(w) = S
      /\ \A j, k \in DOMAIN w : j < k => w[j] < w[k]
  BY SortedLists
<1>2. list = [k \in 1..n |-> w[n + 1 - k]]
  BY RecentSame DEF RecentM!OldestFirst
<1> HIDE DEF n, w, list
<1>3. DOMAIN list = 1..n /\ \A k \in 1..n : list[k] = w[n + 1 - k] /\ n + 1 - k \in 1..n
  BY <1>1, <1>2
<1>4. \A k \in 1..n : w[k] \in S
  BY <1>1 DEF ToSet
<1>5. \A x \in S : \E k \in 1..n : w[k] = x
  BY <1>1 DEF ToSet
<1>6. \A k \in DOMAIN list : list[k] \in S
  BY <1>3, <1>4
<1>7. ASSUME NEW x \in S PROVE \E k \in DOMAIN list : list[k] = x
  <2>1. PICK k \in 1..n : w[k] = x
    BY <1>5
  <2>2. n + 1 - k \in 1..n /\ n + 1 - (n + 1 - k) = k
    BY <1>1
  <2>3. QED
    BY <1>3, <2>1, <2>2
<1>8. ASSUME NEW j \in DOMAIN list, NEW k \in DOMAIN list, j < k PROVE list[k] < list[j]
  <2>1. j \in 1..n /\ k \in 1..n /\ n + 1 - k < n + 1 - j
    BY <1>1, <1>3, <1>8
  <2>2. QED
    BY <1>1, <1>3, <2>1
<1>9. {list[k] : k \in DOMAIN list} = S
  BY <1>6, <1>7
<1>10. ListsDown(list, S)
  BY <1>6, <1>8, <1>9 DEF ListsDown
<1>11. QED
  BY <1>10 DEF list

LEMMA NoBytes == \A q : RecentM!Bytes(q, {}) = 0
  BY DEF RecentM!Bytes, RecentM!MapThenSumSet, RecentM!MapThenFoldSet

(* Recent stops at the first place that exceeds a limit. *)
LEMMA AnswerIs ==
    ASSUME RingInv
    PROVE  LET list == RecentM!RecentEntries(r)
               found == {list[k] : k \in DOMAIN list}
               older == RecentM!Live(r) \ found
           IN /\ found \subseteq RecentM!Live(r)
              /\ \A k \in found, m \in older : k < m
              /\ \A j, k \in DOMAIN list : j < k
                   => RecentM!Slot(r, list[j]).seq < RecentM!Slot(r, list[k]).seq
              /\ RecentM!Fits(found)
              /\ older # {} => ~RecentM!Fits(found \cup {RecentM!Min(older)})
<1> DEFINE list == RecentM!RecentEntries(r)
           found == {list[k] : k \in DOMAIN list}
           A == RecentM!Live(r)
           D == {n \in A : ~RecentM!Taken(r, n)}
           stop == RecentM!Min(D \cup {r.size})
           G == {n \in A : n < stop}
           older == A \ found
<1>1. /\ elapsed \in Nat /\ pushedAt \in [1..RingMaxSeq -> Nat] /\ lastPushed \in Int
      /\ RingOK(r, lastPushed, elapsed, pushedAt) /\ r \in Ring
      /\ RingMaxDelay \in Nat /\ RingMaxBytes \in Nat
  BY RecentConstants DEF RingInv, RingOK
<1>2. r.size \in Nat
  BY <1>1, RingIs
<1>3. /\ IsFiniteSet(A) /\ A \in SUBSET Nat
      /\ \A n \in A : n \in Nat /\ n < r.size
  BY <1>1, LiveIs
<1>4. stop \in D \cup {r.size} /\ \A n \in D \cup {r.size} : stop <= n
  <2>1. D \cup {r.size} \in SUBSET Nat
    BY <1>2, <1>3
  <2> DEFINE E == D \cup {r.size}
  <2>2. E \in SUBSET Nat /\ E # {}
    BY <2>1
  <2>3. RecentM!Min(E) = Min(E)
    BY RecentSame
  <2> HIDE DEF E
  <2>4. RecentM!Min(E) \in E /\ \A n \in E : RecentM!Min(E) <= n
    BY <2>2, <2>3, MinIs
  <2>5. QED
    BY <2>4 DEF E
<1>5. list = RecentM!OldestFirst(G)
  BY DEF RecentM!RecentEntries
<1>6. G \in SUBSET Nat /\ G \subseteq A /\ IsFiniteSet(G)
  BY <1>3, FS_Subset
<1>7. /\ found = G
      /\ \A j, k \in DOMAIN list : j < k => list[k] < list[j]
      /\ \A k \in DOMAIN list : list[k] \in G
  <2> HIDE DEF list, G
  <2>1. ListsDown(list, G)
    BY <1>5, <1>6, OldestFirstIs
  <2>2. QED
    BY <2>1 DEF ListsDown
<1> HIDE DEF list, stop
<1>8. stop \in Nat
  BY <1>2, <1>3, <1>4
<1>9. (\A m \in A \ G : stop <= m) /\ \A k \in G, m \in A \ G : k < m
  BY <1>3, <1>8
<1>10. \A j, k \in DOMAIN list : j < k
          => RecentM!Slot(r, list[j]).seq < RecentM!Slot(r, list[k]).seq
  <2>1. SUFFICES ASSUME NEW j \in DOMAIN list, NEW k \in DOMAIN list, j < k
                 PROVE  RecentM!Slot(r, list[j]).seq < RecentM!Slot(r, list[k]).seq
    OBVIOUS
  <2>2. list[k] < list[j] /\ list[k] \in A /\ list[j] \in A
    BY <1>6, <1>7, <2>1
  <2>3. RecentM!Slot(r, list[k]).seq > RecentM!Slot(r, list[j]).seq
    BY <1>1, <2>2 DEF RingOK
  <2>4. RecentM!Slot(r, list[k]).seq \in Int /\ RecentM!Slot(r, list[j]).seq \in Int
    BY <1>1, <2>2, SeqsDiffer
  <2>5. QED
    BY <2>3, <2>4
<1>11. \A n \in G : RecentM!Taken(r, n)
  <2>1. ASSUME NEW n \in G, ~RecentM!Taken(r, n) PROVE FALSE
    <3>1. stop <= n /\ n < stop /\ n \in Nat
      BY <1>3, <1>4, <2>1
    <3>2. QED
      BY <1>8, <3>1
  <2>2. QED
    BY <2>1
<1>12. \A n \in A : RecentM!Slot(r, n).cumulativeDelay = elapsed - pushedAt[RecentM!Slot(r, n).seq]
  BY <1>1 DEF RingOK, EntryOK
<1>13. RecentM!Fits(G)
  <2>1. RingMaxDelay > 0 => \A k \in G : elapsed - pushedAt[RecentM!Slot(r, k).seq] <= RingMaxDelay
    BY <1>6, <1>11, <1>12 DEF RecentM!Taken
  <2>2. RingMaxBytes > 0 => RecentM!Bytes(r, G) <= RingMaxBytes
    <3>1. CASE G = {}
      BY <1>1, <3>1, NoBytes
    <3>2. CASE G # {}
      <4>1. \A k \in G : k <= stop
        BY <1>3, <1>8
      <4> DEFINE n == Max(G)
      <4>2. n \in G /\ \A k \in G : k <= n
        <5> HIDE DEF G
        <5>1. QED
          BY <1>6, <1>8, <3>2, <4>1, MaxIs
      <4> HIDE DEF n
      <4>3. {k \in A : k <= n} = G
        BY <1>3, <1>8, <4>2
      <4>4. RingMaxBytes > 0 => RecentM!Bytes(r, {k \in A : k <= n}) <= RingMaxBytes
        BY <1>11, <4>2 DEF RecentM!Taken
      <4>5. QED
        BY <4>3, <4>4
    <3>3. QED
      BY <3>1, <3>2
  <2>3. QED
    BY <2>1, <2>2 DEF RecentM!Fits
<1>14. ASSUME A \ G # {} PROVE ~RecentM!Fits(G \cup {RecentM!Min(A \ G)})
  <2>1. PICK m \in A : m \notin G
    BY <1>14
  <2>2. stop # r.size /\ stop \in D
    <3>1. stop <= m /\ m < r.size
      BY <1>3, <1>9, <2>1
    <3>2. QED
      BY <1>2, <1>3, <1>4, <1>8, <3>1
  <2>3. stop \in A /\ ~RecentM!Taken(r, stop)
    BY <2>2
  <2>4. RecentM!Min(A \ G) = stop
    <3> DEFINE W == A \ G
    <3>1. W \in SUBSET Nat /\ W # {} /\ stop \in W /\ \A k \in W : stop <= k
      BY <1>3, <1>8, <1>9, <1>14, <2>3
    <3>2. RecentM!Min(W) = Min(W)
      BY RecentSame
    <3> HIDE DEF W
    <3>3. Min(W) \in W /\ \A k \in W : Min(W) <= k
      BY <3>1, MinIs
    <3>4. Min(W) \in Nat /\ Min(W) <= stop /\ stop <= Min(W)
      BY <3>1, <3>3
    <3>5. Min(W) = stop
      BY <1>8, <3>4
    <3>6. QED
      BY <3>2, <3>5 DEF W
  <2>5. G \cup {stop} = {k \in A : k <= stop}
    BY <1>3, <1>8, <2>3
  <2>6. ASSUME RecentM!Fits(G \cup {stop}) PROVE RecentM!Taken(r, stop)
    <3>1. RingMaxDelay > 0 => RecentM!Slot(r, stop).cumulativeDelay <= RingMaxDelay
      BY <1>12, <2>3, <2>6 DEF RecentM!Fits
    <3>2. RingMaxBytes > 0 => RecentM!Bytes(r, {k \in A : k <= stop}) <= RingMaxBytes
      BY <2>5, <2>6 DEF RecentM!Fits
    <3>3. QED
      BY <3>1, <3>2 DEF RecentM!Taken
  <2>7. QED
    BY <2>3, <2>4, <2>6
<1> HIDE DEF G
<1>15. /\ found \subseteq A
       /\ \A k \in found, m \in older : k < m
       /\ RecentM!Fits(found)
       /\ older # {} => ~RecentM!Fits(found \cup {RecentM!Min(older)})
  BY <1>6, <1>7, <1>9, <1>13, <1>14
<1>16. QED
  BY <1>10, <1>15 DEF list

(* The window Recent returns is exact, and Len may trust the counter of    *)
(* holes: see AnswersExact.                                                *)
THEOREM RecentAnswersExact == StructuresSpec => []AnswersExact
<1>1. RingInv => AnswersExact
  <2> SUFFICES ASSUME RingInv PROVE RecentM!AnswersExact
    BY DEF AnswersExact
  <2>1. RingOK(r, lastPushed, elapsed, pushedAt) /\ r \in Ring
    BY DEF RingInv, RingOK
  <2>2. /\ Cardinality(RecentM!Live(r)) \in Nat /\ Cardinality(RecentM!Live(r)) <= r.size
        /\ r.size \in Nat /\ r.holes \in Int
    BY <2>1, LiveIs, RingIs
  <2>3. r.size - Cardinality(RecentM!Live(r)) <= r.holes
    BY <2>1 DEF RingOK
  <2>4. r.holes = 0 => r.size = Cardinality(RecentM!Live(r))
    BY <2>2, <2>3
  <2>5. /\ RecentM!LenLive(r) = RecentM!Cardinality(RecentM!Live(r))
        /\ r.size - RecentM!Cardinality(RecentM!Live(r)) <= r.holes
    BY <2>3, <2>4, RecentSame DEF RecentM!LenLive
  <2>6. QED
    BY <2>5, AnswerIs DEF RecentM!AnswersExact
<1> QED
  BY <1>1, RecentCorrect, PTL
=============================================================================
