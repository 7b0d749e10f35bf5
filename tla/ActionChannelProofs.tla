------------------------ MODULE ActionChannelProofs ------------------------
(***************************************************************************)
(* What ActionChannel guarantees for any number of actions and of handler  *)
(* goroutines and for every limit on buffers, packs, ranges and packets in *)
(* flight.                                                                 *)
(***************************************************************************)
EXTENDS ActionChannel, StreamOpsProofs

Made == 1..enumSeq

Passed == 1..lastSeq

(* A confirmation, and a call of the handler, of a stream that is at last  *)
(* while the player has made n actions.                                    *)
Answers(last, n) == [last : 0..last, missing : SUBSET (1..n)]

Calls(last, n) ==
    [busy : BOOLEAN, out : Seq(1..last), last : 0..last, missing : SUBSET (1..n)]

(* Type invariant, with the bounds that hold beyond the types: the buffer, *)
(* the network and the stream know no action that was not made, and what   *)
(* the handlers and the channel have, the stream has passed.               *)
TypeOK ==
    /\ enumSeq \in 0..MaxSeq
    /\ unconfirmed \subseteq Made
    /\ resend \in BOOLEAN
    /\ packs \subseteq SUBSET Made
    /\ confirms \subseteq Answers(lastSeq, enumSeq)
    /\ lastSeq \in 0..enumSeq
    /\ ahead \subseteq Made
    /\ wait \in {"zero", "running", "expired"}
    /\ handler \in [Handlers -> Calls(lastSeq, enumSeq)]
    /\ channel \in Seq(Passed)
    /\ done \in BOOLEAN
    /\ skipped \subseteq Passed
    /\ solo \in BOOLEAN

(* Where an action may be before the stream has passed it, and after.      *)
Placed ==
    /\ Made \subseteq unconfirmed \cup Passed \cup Evicted
    /\ ~done => Passed \subseteq Written \cup Underway \cup skipped

Increases(s) == \A j, k \in DOMAIN s : j < k => s[j] < s[k]

Outgoing(h) == ToSet(handler[h].out)

(* The channel and the handlers hold every number at most once; a handler  *)
(* writes its numbers in increasing order.                                 *)
HeldOnce ==
    /\ \A h \in Handlers : Increases(handler[h].out) /\ Outgoing(h) \cap Written = {}
    /\ \A g, h \in Handlers : g # h => Outgoing(g) \cap Outgoing(h) = {}
    /\ \A j, k \in DOMAIN channel : j < k => channel[j] # channel[k]

(* As long as no two calls have overlapped, at most one handler is at      *)
(* work, and all it has is newer than what is in the channel.              *)
OneAtATime ==
    solo =>
        /\ \A g, h \in Handlers : handler[g].busy /\ handler[h].busy => g = h
        /\ \A h \in Handlers : \A x \in Written, y \in Outgoing(h) : x < y
        /\ Increases(channel)

IdleIsEmpty == \A h \in Handlers : ~handler[h].busy => handler[h].out = << >>

(* The inductive invariant. *)
IInv == TypeOK /\ Placed /\ HeldOnce /\ OneAtATime /\ IdleIsEmpty
-----------------------------------------------------------------------------
(* A sequence and its first element. *)
LEMMA TakenApart ==
    ASSUME NEW s \in Seq(Nat), s # << >>
    PROVE  /\ ToSet(s) = {Head(s)} \cup ToSet(Tail(s))
           /\ Increases(s) => Increases(Tail(s)) /\ \A y \in ToSet(Tail(s)) : Head(s) < y
<1>1. /\ Len(s) \in Nat \ {0} /\ DOMAIN s = 1..Len(s)
      /\ Head(s) = s[1]
      /\ Tail(s) \in Seq(Nat) /\ Len(Tail(s)) = Len(s) - 1
      /\ \A k \in 1..Len(Tail(s)) : Tail(s)[k] = s[k + 1]
  <2>1. Len(s) # 0
    BY EmptySeq
  <2>2. QED
    BY <2>1, HeadTailProperties, LenProperties
<1>2. DOMAIN Tail(s) = 1..(Len(s) - 1)
  BY <1>1, LenProperties
<1>3. ASSUME NEW k \in 1..Len(s) PROVE s[k] \in {Head(s)} \cup ToSet(Tail(s))
  <2>1. CASE k = 1
    BY <1>1, <2>1
  <2>2. CASE k # 1
    <3>1. k - 1 \in DOMAIN Tail(s) /\ (k - 1) + 1 = k
      BY <1>1, <1>2, <2>2
    <3>2. Tail(s)[k - 1] = s[k]
      BY <1>1, <1>2, <3>1
    <3>3. QED
      BY <3>1, <3>2 DEF ToSet
  <2>3. QED
    BY <2>1, <2>2
<1>4. \A k \in DOMAIN Tail(s) : k + 1 \in 1..Len(s) /\ 1 < k + 1 /\ Tail(s)[k] = s[k + 1]
  BY <1>1, <1>2
<1>5. ToSet(s) = {Head(s)} \cup ToSet(Tail(s))
  <2>1. 1 \in DOMAIN s /\ Head(s) = s[1]
    BY <1>1
  <2>2. Head(s) \in ToSet(s)
    BY <2>1 DEF ToSet
  <2>3. ASSUME NEW x \in ToSet(Tail(s)) PROVE x \in ToSet(s)
    BY <1>1, <1>4 DEF ToSet
  <2>4. ASSUME NEW x \in ToSet(s) PROVE x \in {Head(s)} \cup ToSet(Tail(s))
    <3>1. \E k \in DOMAIN s : x = s[k]
      BY DEF ToSet
    <3>2. QED
      BY <1>1, <1>3, <3>1
  <2>5. QED
    BY <2>2, <2>3, <2>4
<1>6. ASSUME Increases(s)
      PROVE  Increases(Tail(s)) /\ \A y \in ToSet(Tail(s)) : Head(s) < y
  <2>1. ASSUME NEW j \in DOMAIN Tail(s), NEW k \in DOMAIN Tail(s), j < k
        PROVE  Tail(s)[j] < Tail(s)[k]
    <3>1. j + 1 < k + 1
      BY <1>2, <2>1
    <3>2. QED
      BY <1>1, <1>4, <1>6, <3>1 DEF Increases
  <2>2. \A k \in DOMAIN Tail(s) : Head(s) < Tail(s)[k]
    <3>1. 1 \in DOMAIN s
      BY <1>1
    <3>2. QED
      BY <1>1, <1>4, <1>6, <3>1 DEF Increases
  <2>3. QED
    BY <2>1, <2>2 DEF Increases, ToSet
<1>7. QED
  BY <1>5, <1>6

(* A sequence and one more element. *)
LEMMA PutTogether ==
    ASSUME NEW S, NEW s \in Seq(S), NEW e \in S
    PROVE  /\ Append(s, e) \in Seq(S)
           /\ ToSet(Append(s, e)) = ToSet(s) \cup {e}
           /\ DOMAIN s = 1..Len(s) /\ Len(s) \in Nat
           /\ DOMAIN Append(s, e) = 1..(Len(s) + 1)
           /\ \A k \in 1..Len(s) : Append(s, e)[k] = s[k] /\ s[k] \in ToSet(s)
           /\ Append(s, e)[Len(s) + 1] = e
<1>1. /\ Append(s, e) \in Seq(S)
      /\ DOMAIN s = 1..Len(s) /\ Len(s) \in Nat
      /\ DOMAIN Append(s, e) = 1..(Len(s) + 1)
      /\ \A k \in 1..Len(s) : Append(s, e)[k] = s[k]
      /\ Append(s, e)[Len(s) + 1] = e
  BY AppendProperties, LenProperties
<1>2. \A k \in 1..(Len(s) + 1) : k \in 1..Len(s) \/ k = Len(s) + 1
  BY <1>1
<1>3. 1..Len(s) \subseteq 1..(Len(s) + 1) /\ Len(s) + 1 \in 1..(Len(s) + 1)
  BY <1>1
<1>4. \A x : x \in ToSet(Append(s, e)) <=> x \in ToSet(s) \cup {e}
  BY <1>1, <1>2, <1>3 DEF ToSet
<1>5. QED
  BY <1>1, <1>4 DEF ToSet

(* What one pack makes of the stream, expired or not. *)
LEMMA PushIs ==
    ASSUME NEW n \in Nat, NEW last \in 0..n, NEW a \in SUBSET (1..n), NEW f \in Seq(1..n),
           NEW late \in BOOLEAN
    PROVE  /\ PushLast(last, a, f, late) \in last..n
           /\ PushAhead(last, a, f, late) \subseteq 1..n
           /\ PushOut(last, a, f, late) \subseteq (last + 1)..PushLast(last, a, f, late)
<1> DEFINE acc == Accepted(last, f)
           res == ResumeAt(last, acc, late)
           end == PushLast(last, a, f, late)
<1>1. acc \subseteq (last + 1)..n
  <2>1. \A k \in DOMAIN f : f[k] \in 1..n
    BY ElementOfSeq, LenProperties
  <2>2. \A s \in acc : s \in 1..n /\ s > last
    BY <2>1 DEF Accepted
  <2>3. QED
    BY <2>2
<1> HIDE DEF acc
<1>2. res \in last..n
  <2>1. CASE late /\ acc # {}
    <3>1. \E s \in acc : \A t \in acc : s <= t
      <4>1. acc \in SUBSET Nat
        BY <1>1
      <4>2. QED
        BY <2>1, <4>1, LeastNat
    <3>2. res \in acc
      BY <2>1, <3>1 DEF ResumeAt
    <3>3. res \in (last + 1)..n
      BY <1>1, <3>2
    <3>4. \A x \in (last + 1)..n : x \in last..n
      OBVIOUS
    <3>5. QED
      BY <3>3, <3>4
  <2>2. CASE ~(late /\ acc # {})
    BY <2>2 DEF ResumeAt
  <2>3. QED
    BY <2>1, <2>2
<1>3. end = RunEnd(res, a \cup acc)
  BY DEF PushLast, acc
<1>4. PushAhead(last, a, f, late) \subseteq a \cup acc
  BY DEF PushAhead, acc
<1>5. PushOut(last, a, f, late) = (IF res > last THEN {res} ELSE {}) \cup (res + 1)..end
  BY DEF PushOut, acc
<1> HIDE DEF res, end
<1>6. a \cup acc \in SUBSET (1..n)
  BY <1>1
<1>7. end \in {res} \cup (a \cup acc) /\ end >= res
  <2>1. a \cup acc \in SUBSET Nat /\ \A s \in a \cup acc : s <= n
    BY <1>6
  <2>2. res \in Nat
    BY <1>2
  <2>3. QED
    BY <1>3, <2>1, <2>2, RunEndIs
<1>8. end \in res..n
  BY <1>2, <1>6, <1>7
<1>9. PushOut(last, a, f, late) \subseteq (last + 1)..end
  BY <1>2, <1>5, <1>8
<1>10. QED
  BY <1>2, <1>4, <1>6, <1>8, <1>9 DEF end

LEMMA GapsAreBelow ==
    ASSUME NEW n \in Nat, NEW last \in Nat, NEW a \in SUBSET (1..n)
    PROVE  GetMissing(last, a) \subseteq 1..n
<1>1. SUFFICES ASSUME NEW s \in GetMissing(last, a) PROVE s \in 1..n
  OBVIOUS
<1>2. PICK t \in a : s \in (last + 1)..t
  BY DEF GetMissing
<1>3. QED
  BY <1>2

(* What a call of HandleActionPack does: the stream moves, and the numbers *)
(* out of those it passes go to the handler, in increasing order.          *)
Handled(h, out) ==
    /\ enumSeq' = enumSeq /\ lastSeq' \in lastSeq..enumSeq
    /\ out \in SUBSET ((lastSeq + 1)..lastSeq')
    /\ skipped' = skipped \cup (((lastSeq + 1)..lastSeq') \ out)
    /\ handler' = [handler EXCEPT ![h] = handler'[h]]
    /\ handler'[h] \in [busy : {TRUE}, out : Seq(1..lastSeq'), last : {lastSeq'},
                        missing : SUBSET Made]
    /\ ToSet(handler'[h].out) = out
    /\ Increases(handler'[h].out)

LEMMA HandleIs ==
    ASSUME TypeOK, NEW h \in Handlers, NEW p \in packs, HandleActionPack(h, p)
    PROVE  (\E out : Handled(h, out)) /\ ahead' \subseteq Made
<1> DEFINE f == Sorted(p)
           late == wait = "expired"
           out == PushOut(lastSeq, ahead, f, late)
           record == [busy |-> TRUE, out |-> Sorted(out), last |-> lastSeq',
                      missing |-> LastRanges(GetMissing(lastSeq', ahead'))]
<1>1. enumSeq \in Nat /\ lastSeq \in 0..enumSeq /\ ahead \in SUBSET (1..enumSeq)
      /\ p \in SUBSET (1..enumSeq) /\ enumSeq' = enumSeq
  BY DEF TypeOK, Made, HandleActionPack, clientVars
<1>2. f \in Seq(1..enumSeq)
  <2>1. p \in SUBSET Nat /\ IsFiniteSet(p)
    <3>1. IsFiniteSet(1..enumSeq)
      BY <1>1, FS_Interval
    <3>2. IsFiniteSet(p)
      BY <1>1, <3>1, FS_Subset
    <3>3. QED
      BY <1>1, <3>2
  <2>2. f \in Seq(p)
    BY <2>1, SortedLists
  <2>3. QED
    BY <1>1, <2>2, SeqSubset
<1>3. /\ lastSeq' = PushLast(lastSeq, ahead, f, late)
      /\ ahead' = PushAhead(lastSeq, ahead, f, late)
      /\ skipped' = skipped \cup (((lastSeq + 1)..lastSeq') \ out)
      /\ handler' = [handler EXCEPT ![h] = record]
  BY DEF HandleActionPack
<1>4. late \in BOOLEAN
  OBVIOUS
<1> HIDE DEF f, late
<1>5. lastSeq' \in lastSeq..enumSeq /\ ahead' \subseteq 1..enumSeq
      /\ out \in SUBSET ((lastSeq + 1)..lastSeq')
  BY <1>1, <1>2, <1>3, <1>4, PushIs
<1> HIDE DEF out
<1>6. Sorted(out) \in Seq(1..lastSeq') /\ ToSet(Sorted(out)) = out /\ Increases(Sorted(out))
  <2>1. out \in SUBSET Nat /\ out \subseteq 1..lastSeq' /\ IsFiniteSet(out)
    <3>1. lastSeq \in Nat /\ lastSeq' \in Nat
      BY <1>1, <1>5
    <3>2. out \in SUBSET (1..lastSeq')
      BY <1>5, <3>1
    <3>3. IsFiniteSet(1..lastSeq')
      BY <3>1, FS_Interval
    <3>4. IsFiniteSet(out)
      BY <3>2, <3>3, FS_Subset
    <3>5. QED
      BY <3>1, <3>2, <3>4
  <2>2. Sorted(out) \in Seq(out) /\ ToSet(Sorted(out)) = out /\ Increases(Sorted(out))
    BY <2>1, SortedLists DEF Increases
  <2>3. QED
    BY <2>1, <2>2, SeqSubset
<1>7. LastRanges(GetMissing(lastSeq', ahead')) \in SUBSET Made
  <2>1. LastRanges(GetMissing(lastSeq', ahead')) \subseteq GetMissing(lastSeq', ahead')
    BY DEF LastRanges
  <2>2. GetMissing(lastSeq', ahead') \subseteq 1..enumSeq
    <3>1. lastSeq' \in Nat /\ ahead' \in SUBSET (1..enumSeq)
      BY <1>1, <1>5
    <3>2. QED
      BY <1>1, <3>1, GapsAreBelow
  <2>3. QED
    BY <2>1, <2>2 DEF Made
<1>8. handler'[h] = record
  BY <1>3 DEF TypeOK
<1>9. record \in [busy : {TRUE}, out : Seq(1..lastSeq'), last : {lastSeq'}, missing : SUBSET Made]
  BY <1>6, <1>7
<1>10. record.out = Sorted(out)
  OBVIOUS
<1> HIDE DEF record
<1>11. Handled(h, out)
  BY <1>1, <1>3, <1>5, <1>6, <1>8, <1>9, <1>10 DEF Handled
<1>12. QED
  BY <1>1, <1>5, <1>11 DEF Made
-----------------------------------------------------------------------------
LEMMA Grows ==
    ASSUME NEW m \in Nat, NEW m2 \in Nat, m <= m2, NEW n \in Nat, NEW n2 \in Nat, n <= n2
    PROVE  /\ 1..m \subseteq 1..m2 /\ 0..m \subseteq 0..m2
           /\ Answers(m, n) \subseteq Answers(m2, n2)
           /\ Calls(m, n) \subseteq Calls(m2, n2)
           /\ Seq(1..m) \subseteq Seq(1..m2)
<1>1. 1..m \subseteq 1..m2 /\ 0..m \subseteq 0..m2 /\ SUBSET (1..n) \subseteq SUBSET (1..n2)
  OBVIOUS
<1>2. Seq(1..m) \subseteq Seq(1..m2)
  BY <1>1, SeqSubset
<1>3. QED
  BY <1>1, <1>2 DEF Answers, Calls

(* What is sent was there before or is the message. *)
LEMMA SentIs ==
    ASSUME NEW net, NEW m, NEW new \in Sent(net, m)
    PROVE  new \subseteq net \cup {m}
  BY DEF Sent

LEMMA RecentIsKept == \A p \in RecentPacks : p \subseteq unconfirmed
  BY DEF RecentPacks

LEMMA IdleIs == ASSUME NEW m \in Nat, NEW n \in Nat PROVE Idle \in Calls(m, n)
<1>1. << >> \in Seq(1..m)
  BY EmptySeq
<1>2. QED
  BY <1>1 DEF Idle, Calls

LEMMA TypeInit == Init => TypeOK
<1> SUFFICES ASSUME Init PROVE TypeOK
  OBVIOUS
<1>1. handler \in [Handlers -> Calls(lastSeq, enumSeq)]
  BY IdleIs DEF Init
<1>2. channel \in Seq(Passed)
  BY EmptySeq DEF Init
<1>3. enumSeq \in 0..MaxSeq /\ lastSeq \in 0..enumSeq
  BY ActionConstants DEF Init
<1>4. /\ unconfirmed \subseteq Made /\ packs \subseteq SUBSET Made
      /\ confirms \subseteq Answers(lastSeq, enumSeq) /\ ahead \subseteq Made
      /\ skipped \subseteq Passed /\ wait \in {"zero", "running", "expired"}
  BY DEF Init
<1>5. resend \in BOOLEAN /\ done \in BOOLEAN /\ solo \in BOOLEAN
  BY DEF Init
<1>6. QED
  BY <1>1, <1>2, <1>3, <1>4, <1>5 DEF TypeOK

LEMMA TypeStep == TypeOK /\ [Next]_vars => TypeOK'
<1> SUFFICES ASSUME TypeOK, [Next]_vars PROVE TypeOK'
  OBVIOUS
<1>a. enumSeq \in Nat /\ lastSeq \in Nat /\ lastSeq <= enumSeq
  BY ActionConstants DEF TypeOK
<1>1. CASE Input
  <2>1. /\ enumSeq' = enumSeq + 1 /\ enumSeq' \in 0..MaxSeq
        /\ UNCHANGED <<confirms, lastSeq, ahead, wait, skipped, solo, handler, channel, done>>
    BY <1>1, <1>a, ActionConstants DEF Input, streamVars
  <2>2. Made \subseteq Made' /\ SUBSET Made \subseteq SUBSET Made'
    BY <1>a, <2>1 DEF Made
  <2>3. Answers(lastSeq, enumSeq) \subseteq Answers(lastSeq', enumSeq')
        /\ Calls(lastSeq, enumSeq) \subseteq Calls(lastSeq', enumSeq')
    BY <1>a, <2>1, Grows
  <2>4. unconfirmed' \subseteq Made'
    <3>1. enumSeq' \in Made'
      BY <1>a, <2>1 DEF Made
    <3>2. unconfirmed' \subseteq unconfirmed \cup {enumSeq'}
      BY <1>1 DEF Input, Buffered
    <3>3. QED
      BY <2>2, <3>1, <3>2 DEF TypeOK
  <2>5. packs' \subseteq SUBSET Made'
    <3>1. PICK p \in RecentPacks' : packs' \in Sent(packs, p)
      BY <1>1 DEF Input
    <3>2. p \subseteq unconfirmed'
      BY <3>1 DEF RecentPacks
    <3>3. QED
      BY <2>2, <2>4, <3>1, <3>2, SentIs DEF TypeOK
  <2>6. resend' \in BOOLEAN
    BY <1>1 DEF Input
  <2>7. lastSeq' \in 0..enumSeq' /\ Passed' = Passed
    BY <1>a, <2>1 DEF Passed
  <2>8. handler' \in [Handlers -> Calls(lastSeq', enumSeq')]
    BY <2>1, <2>3 DEF TypeOK
  <2>9. confirms' \subseteq Answers(lastSeq', enumSeq') /\ ahead' \subseteq Made'
    BY <2>1, <2>2, <2>3 DEF TypeOK
  <2>10. QED
    BY <2>1, <2>4, <2>5, <2>6, <2>7, <2>8, <2>9 DEF TypeOK
<1>2. CASE Resend
  <2>1. PICK p \in RecentPacks : packs' \in Sent(packs, p)
    BY <1>2 DEF Resend
  <2>2. p \subseteq Made
    BY <2>1, RecentIsKept DEF TypeOK
  <2>3. packs' \subseteq SUBSET Made
    BY <2>1, <2>2, SentIs DEF TypeOK
  <2>4. QED
    BY <1>2, <2>3 DEF TypeOK, Resend, clientVars, streamVars, Made, Passed
<1>3. CASE ReceiveConfirm
  <2>1. PICK c \in confirms : ConfirmActions(c)
    BY <1>3 DEF ReceiveConfirm
  <2>2. confirms' \subseteq confirms /\ unconfirmed' \subseteq unconfirmed
    BY <2>1 DEF ConfirmActions, Taken, Kept
  <2>3. packs' \subseteq SUBSET Made
    <3>1. packs' = packs \/ packs' \in Sent(packs, unconfirmed' \cap c.missing)
      BY <2>1 DEF ConfirmActions
    <3>2. unconfirmed' \cap c.missing \subseteq Made
      BY <2>2 DEF TypeOK
    <3>3. QED
      BY <3>1, <3>2, SentIs DEF TypeOK
  <2>4. resend' \in BOOLEAN
    BY <2>1, Zenon DEF ConfirmActions, TypeOK
  <2>5. UNCHANGED <<enumSeq, lastSeq, ahead, wait, skipped, solo, handler, channel, done>>
    BY <2>1 DEF ConfirmActions, streamVars
  <2>6. QED
    BY <2>2, <2>3, <2>4, <2>5 DEF TypeOK, Made, Passed
<1>4. CASE \E c \in confirms : LoseConfirm(c)
  BY <1>4 DEF TypeOK, LoseConfirm, clientVars, streamVars, Made, Passed
<1>5. CASE ReceivePack
  <2>1. PICK p \in packs, h \in Handlers : HandleActionPack(h, p)
    BY <1>5 DEF ReceivePack
  <2>2. PICK out : Handled(h, out)
    BY <2>1, HandleIs
  <2>3. enumSeq' = enumSeq /\ lastSeq' \in lastSeq..enumSeq /\ lastSeq' \in Nat
        /\ ahead' \subseteq Made
    <3>1. enumSeq' = enumSeq /\ lastSeq' \in lastSeq..enumSeq
      BY <2>2 DEF Handled
    <3>2. ahead' \subseteq Made
      BY <2>1, HandleIs
    <3>3. QED
      BY <1>a, <3>1, <3>2
  <2>4. /\ Passed \subseteq Passed'
        /\ Answers(lastSeq, enumSeq) \subseteq Answers(lastSeq', enumSeq')
        /\ Calls(lastSeq, enumSeq) \subseteq Calls(lastSeq', enumSeq')
        /\ Seq(Passed) \subseteq Seq(Passed')
    BY <1>a, <2>3, Grows DEF Passed
  <2>5. UNCHANGED <<enumSeq, unconfirmed, resend, confirms, channel, done>>
        /\ packs' \subseteq packs
    BY <2>1 DEF HandleActionPack, clientVars, Taken
  <2>6. wait' \in {"zero", "running", "expired"} /\ solo' \in BOOLEAN
    <3>1. wait' \in {"zero", "running", "expired"}
      BY <2>1 DEF HandleActionPack
    <3>2. solo' = (solo /\ \A g \in Handlers : ~handler[g].busy)
      BY <2>1 DEF HandleActionPack
    <3>3. solo' \in BOOLEAN
      BY <3>2, Zenon DEF TypeOK
    <3>4. QED
      BY <3>1, <3>3
  <2>7. skipped' \subseteq Passed'
    <3>1. skipped' \subseteq skipped \cup ((lastSeq + 1)..lastSeq')
      BY <2>2 DEF Handled
    <3>2. (lastSeq + 1)..lastSeq' \subseteq Passed'
      BY <1>a, <2>3 DEF Passed
    <3>3. QED
      BY <2>4, <3>1, <3>2 DEF TypeOK
  <2>8. handler' \in [Handlers -> Calls(lastSeq', enumSeq')]
    <3>1. handler'[h] \in Calls(lastSeq', enumSeq')
      <4>1. handler'[h] \in [busy : {TRUE}, out : Seq(1..lastSeq'), last : {lastSeq'},
                             missing : SUBSET (1..enumSeq')]
        BY <2>2, <2>3 DEF Handled, Made
      <4>2. lastSeq' \in 0..lastSeq'
        BY <2>3
      <4>3. QED
        BY <4>1, <4>2 DEF Calls
    <3>2. handler \in [Handlers -> Calls(lastSeq', enumSeq')]
      BY <2>4 DEF TypeOK
    <3>3. handler' = [handler EXCEPT ![h] = handler'[h]]
      BY <2>2 DEF Handled
    <3>4. QED
      BY <3>1, <3>2, <3>3
  <2>9. confirms' \subseteq Answers(lastSeq', enumSeq') /\ channel' \in Seq(Passed')
    BY <2>4, <2>5 DEF TypeOK
  <2>10. lastSeq' \in 0..enumSeq'
    BY <1>a, <2>3
  <2>11. QED
    BY <2>3, <2>5, <2>6, <2>7, <2>8, <2>9, <2>10 DEF TypeOK, Made
<1>6. CASE \E p \in packs : LosePack(p)
  BY <1>6 DEF TypeOK, LosePack, clientVars, streamVars, Made, Passed
<1>7. CASE \E h \in Handlers : HandlerStep(h)
  <2>1. PICK h \in Handlers : HandlerStep(h)
    BY <1>7
  <2>2. UNCHANGED <<enumSeq, unconfirmed, resend, packs, lastSeq, ahead, wait, skipped, solo, done>>
    BY <2>1 DEF HandlerStep, WriteAction, AbortWrite, SendConfirm, clientVars, streamVars
  <2>3. handler[h] \in Calls(lastSeq, enumSeq)
    BY DEF TypeOK
  <2>4. handler' \in [Handlers -> Calls(lastSeq, enumSeq)]
    <3>1. CASE WriteAction(h)
      <4>1. Tail(handler[h].out) \in Seq(1..lastSeq)
        BY <2>3, <3>1, HeadTailProperties DEF Calls, WriteAction
      <4>2. [handler[h] EXCEPT !.out = Tail(@)] \in Calls(lastSeq, enumSeq)
        BY <2>3, <4>1 DEF Calls
      <4>3. handler' = [handler EXCEPT ![h] = [handler[h] EXCEPT !.out = Tail(@)]]
        BY <3>1 DEF WriteAction
      <4>4. QED
        BY <4>2, <4>3 DEF TypeOK
    <3>2. CASE AbortWrite(h) \/ SendConfirm(h)
      <4>1. handler' = [handler EXCEPT ![h] = Idle]
        BY <3>2 DEF AbortWrite, SendConfirm
      <4>2. QED
        BY <1>a, <4>1, IdleIs DEF TypeOK
    <3>3. QED
      BY <2>1, <3>1, <3>2 DEF HandlerStep
  <2>5. channel' \in Seq(Passed)
    <3>1. CASE WriteAction(h)
      <4>1. Head(handler[h].out) \in Passed
        BY <2>3, <3>1, HeadTailProperties DEF Calls, WriteAction, Passed
      <4>2. QED
        BY <3>1, <4>1, PutTogether DEF WriteAction, TypeOK
    <3>2. CASE AbortWrite(h) \/ SendConfirm(h)
      BY <3>2 DEF AbortWrite, SendConfirm, TypeOK
    <3>3. QED
      BY <2>1, <3>1, <3>2 DEF HandlerStep
  <2>6. confirms' \subseteq Answers(lastSeq, enumSeq)
    <3>1. CASE SendConfirm(h)
      <4>1. Confirmation(h) \in Answers(lastSeq, enumSeq)
        BY <2>3 DEF Calls, Answers, Confirmation
      <4>2. QED
        BY <3>1, <4>1, SentIs DEF SendConfirm, TypeOK
    <3>2. CASE WriteAction(h) \/ AbortWrite(h)
      BY <3>2 DEF AbortWrite, WriteAction, TypeOK
    <3>3. QED
      BY <2>1, <3>1, <3>2 DEF HandlerStep
  <2>7. QED
    BY <2>2, <2>4, <2>5, <2>6 DEF TypeOK, Made, Passed
<1>8. CASE Expire
  BY <1>8 DEF TypeOK, Expire, clientVars, Made, Passed
<1>9. CASE Stop
  BY <1>9 DEF TypeOK, Stop, clientVars, streamVars, Made, Passed
<1>10. CASE UNCHANGED vars
  BY <1>10 DEF TypeOK, vars, clientVars, streamVars, Made, Passed
<1>11. QED
  BY <1>1, <1>2, <1>3, <1>4, <1>5, <1>6, <1>7, <1>8, <1>9, <1>10 DEF Next

(* Every variable keeps its type and its bounds: no message, buffer or     *)
(* handler ever has the number of an action that was not made, and the     *)
(* server confirms no action its stream has not passed.                    *)
THEOREM TypeCorrect == Spec => []TypeOK
  BY TypeInit, TypeStep, PTL DEF Spec
-----------------------------------------------------------------------------
OnlyHandler(h) == \A g \in Handlers : g # h => handler'[g] = handler[g]

(* What one write does to the handler and the channel. *)
LEMMA WriteIs ==
    ASSUME TypeOK, NEW h \in Handlers, WriteAction(h)
    PROVE  \E e \in Passed :
             /\ OnlyHandler(h) /\ handler[h].busy /\ handler'[h].busy
             /\ channel' = Append(channel, e) /\ Written' = Written \cup {e}
             /\ Outgoing(h) = {e} \cup Outgoing(h)'
             /\ Increases(handler[h].out) =>
                  Increases(handler'[h].out) /\ \A y \in Outgoing(h)' : e < y
<1> DEFINE out == handler[h].out
<1>1. out \in Seq(1..lastSeq) /\ out \in Seq(Nat) /\ out # << >>
  <2>1. out \in Seq(1..lastSeq) /\ out # << >>
    BY DEF TypeOK, Calls, WriteAction
  <2>2. Seq(1..lastSeq) \subseteq Seq(Nat)
    <3>1. 1..lastSeq \subseteq Nat
      OBVIOUS
    <3>2. QED
      BY <3>1, SeqSubset
  <2>3. QED
    BY <2>1, <2>2
<1>2. handler' = [handler EXCEPT ![h].out = Tail(@)]
  BY DEF WriteAction
<1>3. handler'[h].out = Tail(out) /\ handler'[h].busy = handler[h].busy /\ OnlyHandler(h)
  BY <1>2 DEF TypeOK, Calls, OnlyHandler
<1>4. Head(out) \in Passed
  BY <1>1, HeadTailProperties DEF Passed
<1>5. channel' = Append(channel, Head(out)) /\ handler[h].busy
  BY DEF WriteAction
<1>6. Written' = Written \cup {Head(out)}
  BY <1>4, <1>5, PutTogether DEF TypeOK, Written
<1> HIDE DEF out
<1>7. /\ ToSet(out) = {Head(out)} \cup ToSet(Tail(out))
      /\ Increases(out) => Increases(Tail(out)) /\ \A y \in ToSet(Tail(out)) : Head(out) < y
  BY <1>1, TakenApart
<1>8. Outgoing(h) = ToSet(out) /\ Outgoing(h)' = ToSet(Tail(out))
  BY <1>3 DEF Outgoing, out
<1>9. QED
  BY <1>3, <1>4, <1>5, <1>6, <1>7, <1>8 DEF out

(* A call that ends, or is given up, has nothing left to write. *)
LEMMA EndIs ==
    ASSUME TypeOK, NEW h \in Handlers, AbortWrite(h) \/ SendConfirm(h)
    PROVE  /\ OnlyHandler(h) /\ handler'[h] = Idle /\ channel' = channel
           /\ Outgoing(h)' = {} /\ done' = done
           /\ ~done => Outgoing(h) = {}
<1>1. handler' = [handler EXCEPT ![h] = Idle] /\ channel' = channel /\ done' = done
  BY DEF AbortWrite, SendConfirm
<1>2. handler'[h] = Idle /\ OnlyHandler(h)
  BY <1>1 DEF TypeOK, OnlyHandler
<1>3. ToSet(<< >>) = {}
  BY DEF ToSet
<1>4. Outgoing(h)' = {}
  BY <1>2, <1>3 DEF Outgoing, Idle
<1>5. ~done => handler[h].out = << >>
  BY DEF AbortWrite, SendConfirm
<1>6. QED
  BY <1>1, <1>2, <1>3, <1>4, <1>5 DEF Outgoing

LEMMA HandledIs ==
    ASSUME TypeOK, NEW h \in Handlers, NEW out, Handled(h, out)
    PROVE  OnlyHandler(h) /\ Outgoing(h)' = out /\ handler'[h].busy /\ Increases(handler'[h].out)
  BY DEF Handled, TypeOK, OnlyHandler, Outgoing

(* The steps that leave the handlers and the channel alone. *)
Aside ==
    \/ Input \/ Resend \/ ReceiveConfirm \/ Expire \/ Stop \/ UNCHANGED vars
    \/ \E c \in confirms : LoseConfirm(c)
    \/ \E p \in packs : LosePack(p)

LEMMA AsideIs == Aside => UNCHANGED <<handler, channel, lastSeq, skipped, solo>>
  BY DEF Aside, Input, Resend, ReceiveConfirm, ConfirmActions, Expire, Stop, LoseConfirm, LosePack,
         vars, clientVars, streamVars

LEMMA StepForms ==
    ASSUME [Next]_vars
    PROVE  \/ Aside
           \/ \E p \in packs, h \in Handlers : HandleActionPack(h, p)
           \/ \E h \in Handlers : WriteAction(h)
           \/ \E h \in Handlers : AbortWrite(h) \/ SendConfirm(h)
  BY DEF Next, Aside, ReceivePack, HandlerStep

LEMMA IdleStep == TypeOK /\ IdleIsEmpty /\ [Next]_vars => IdleIsEmpty'
<1> SUFFICES ASSUME TypeOK, IdleIsEmpty, [Next]_vars PROVE IdleIsEmpty'
  OBVIOUS
<1>1. CASE Aside
  BY <1>1, AsideIs DEF IdleIsEmpty
<1>2. CASE \E p \in packs, h \in Handlers : HandleActionPack(h, p)
  BY <1>2, HandleIs, HandledIs DEF IdleIsEmpty, OnlyHandler
<1>3. CASE \E h \in Handlers : WriteAction(h)
  BY <1>3, WriteIs DEF IdleIsEmpty, OnlyHandler
<1>4. CASE \E h \in Handlers : AbortWrite(h) \/ SendConfirm(h)
  BY <1>4, EndIs DEF IdleIsEmpty, OnlyHandler, Idle
<1>5. QED
  BY <1>1, <1>2, <1>3, <1>4, StepForms

(* An action leaves the client's buffer only when Cap newer ones are in it *)
(* or the server has confirmed a position beyond it.                       *)
LEMMA MadeStep ==
    TypeOK /\ Made \subseteq unconfirmed \cup Passed \cup Evicted /\ [Next]_vars
      => (Made \subseteq unconfirmed \cup Passed \cup Evicted)'
<1> SUFFICES ASSUME TypeOK, Made \subseteq unconfirmed \cup Passed \cup Evicted, [Next]_vars
             PROVE  (Made \subseteq unconfirmed \cup Passed \cup Evicted)'
  OBVIOUS
<1>a. enumSeq \in Nat /\ lastSeq \in Nat /\ Cap \in Nat
  BY ActionConstants DEF TypeOK
<1>1. CASE Input
  <2>1. enumSeq' = enumSeq + 1 /\ lastSeq' = lastSeq
        /\ unconfirmed' = {t \in unconfirmed \cup {enumSeq'} : t > enumSeq' - Cap}
    BY <1>1 DEF Input, Buffered, streamVars
  <2>2. ASSUME NEW s \in 1..(enumSeq + 1)
        PROVE  s \in unconfirmed' \/ s \in Passed \/ s \in 1..(enumSeq + 1 - Cap)
    <3>1. CASE s \in unconfirmed \cup {enumSeq + 1}
      BY <1>a, <2>1, <3>1
    <3>2. CASE s \notin unconfirmed \cup {enumSeq + 1}
      <4>1. s \in Made
        BY <1>a, <3>2 DEF Made
      <4>2. s \in Passed \/ s \in 1..(enumSeq - Cap)
        BY <3>2, <4>1 DEF Evicted
      <4>3. QED
        BY <1>a, <4>2
    <3>3. QED
      BY <3>1, <3>2
  <2>3. Made' = 1..(enumSeq + 1) /\ Passed' = Passed
    BY <2>1 DEF Made, Passed
  <2>4. Evicted' = 1..(enumSeq + 1 - Cap)
    BY <1>a, <2>1 DEF Evicted
  <2>5. QED
    BY <2>2, <2>3, <2>4
<1>2. CASE ReceiveConfirm
  <2>1. PICK c \in confirms : ConfirmActions(c)
    BY <1>2 DEF ReceiveConfirm
  <2>2. /\ unconfirmed' = {s \in unconfirmed : s > c.last}
        /\ UNCHANGED <<enumSeq, lastSeq>>
        /\ c.last \in 0..lastSeq
    BY <2>1 DEF ConfirmActions, Kept, streamVars, TypeOK, Answers
  <2>3. ASSUME NEW s \in unconfirmed, s \notin unconfirmed' PROVE s \in 1..lastSeq
    <3>1. s \in 1..enumSeq /\ ~(s > c.last)
      BY <2>2, <2>3 DEF TypeOK, Made
    <3>2. QED
      BY <1>a, <2>2, <3>1
  <2>4. QED
    BY <2>2, <2>3 DEF Made, Passed, Evicted
<1>3. CASE \E p \in packs, h \in Handlers : HandleActionPack(h, p)
  <2>1. PICK p \in packs, h \in Handlers : HandleActionPack(h, p)
    BY <1>3
  <2>2. UNCHANGED <<enumSeq, unconfirmed>>
    BY <2>1 DEF HandleActionPack, clientVars
  <2>3. lastSeq' \in lastSeq..enumSeq
    BY <2>1, HandleIs DEF Handled
  <2>4. Passed \subseteq Passed'
    BY <1>a, <2>3 DEF Passed
  <2>5. QED
    BY <2>2, <2>4 DEF Made, Evicted
<1>4. CASE UNCHANGED <<enumSeq, unconfirmed, lastSeq>>
  BY <1>4 DEF Made, Passed, Evicted
<1>5. \/ Input \/ ReceiveConfirm \/ UNCHANGED <<enumSeq, unconfirmed, lastSeq>>
      \/ \E p \in packs, h \in Handlers : HandleActionPack(h, p)
  BY DEF Next, ReceivePack, HandlerStep, Resend, LoseConfirm, LosePack, WriteAction, AbortWrite,
         SendConfirm, Expire, Stop, vars, clientVars, streamVars
<1>6. QED
  BY <1>1, <1>2, <1>3, <1>4, <1>5

(* What the stream passes goes through a handler into the channel, or was  *)
(* jumped over.                                                            *)
LEMMA PassedStep ==
    TypeOK /\ IdleIsEmpty /\ (~done => Passed \subseteq Written \cup Underway \cup skipped)
      /\ [Next]_vars
      => (~done => Passed \subseteq Written \cup Underway \cup skipped)'
<1> SUFFICES ASSUME TypeOK, IdleIsEmpty, [Next]_vars, ~done',
                    ~done => Passed \subseteq Written \cup Underway \cup skipped
             PROVE  (Passed \subseteq Written \cup Underway \cup skipped)'
  OBVIOUS
<1>a. Underway = UNION {Outgoing(h) : h \in Handlers}
  BY DEF Underway, Outgoing
<1>b. Underway' = UNION {Outgoing(h)' : h \in Handlers}
  BY DEF Underway, Outgoing
<1>c. \A h \in Handlers : OnlyHandler(h) =>
        \A g \in Handlers : g # h => Outgoing(g)' = Outgoing(g)
  BY DEF OnlyHandler, Outgoing
<1>1. ~done
  BY DEF Next, Input, Resend, ReceiveConfirm, ConfirmActions, LoseConfirm, ReceivePack,
         HandleActionPack, LosePack, HandlerStep, WriteAction, AbortWrite, SendConfirm, Expire,
         Stop, vars
<1>2. CASE Aside
  BY <1>1, <1>2, AsideIs DEF Passed, Written, Underway
<1>3. CASE \E p \in packs, h \in Handlers : HandleActionPack(h, p)
  <2>1. PICK p \in packs, h \in Handlers : HandleActionPack(h, p)
    BY <1>3
  <2>2. PICK out : Handled(h, out)
    BY <2>1, HandleIs
  <2>3. Outgoing(h) = {} /\ channel' = channel
    <3>1. handler[h].out = << >>
      BY <2>1 DEF HandleActionPack, IdleIsEmpty
    <3>2. QED
      BY <2>1, <3>1 DEF HandleActionPack, Outgoing, ToSet
  <2>4. OnlyHandler(h) /\ Outgoing(h)' = out
    BY <2>2, HandledIs
  <2>5. Underway' = Underway \cup out
    BY <1>a, <1>b, <1>c, <2>3, <2>4
  <2>6. Passed' \subseteq Passed \cup ((lastSeq + 1)..lastSeq')
    <3>1. lastSeq' \in lastSeq..enumSeq /\ lastSeq \in Nat /\ enumSeq \in Nat
      BY <2>2, ActionConstants DEF Handled, TypeOK
    <3>2. QED
      BY <3>1 DEF Passed
  <2>7. skipped' = skipped \cup (((lastSeq + 1)..lastSeq') \ out)
    BY <2>2 DEF Handled
  <2>8. QED
    BY <1>1, <2>3, <2>5, <2>6, <2>7 DEF Written
<1>4. CASE \E h \in Handlers : WriteAction(h)
  <2>1. PICK h \in Handlers : WriteAction(h)
    BY <1>4
  <2>2. PICK e \in Passed : /\ OnlyHandler(h) /\ Written' = Written \cup {e}
                            /\ Outgoing(h) = {e} \cup Outgoing(h)'
    BY <2>1, WriteIs
  <2>3. Underway \subseteq Underway' \cup {e}
    BY <1>a, <1>b, <1>c, <2>2
  <2>4. Passed' = Passed /\ skipped' = skipped
    BY <2>1 DEF WriteAction, streamVars, Passed
  <2>5. QED
    BY <1>1, <2>2, <2>3, <2>4
<1>5. CASE \E h \in Handlers : AbortWrite(h) \/ SendConfirm(h)
  <2>1. PICK h \in Handlers : AbortWrite(h) \/ SendConfirm(h)
    BY <1>5
  <2>2. OnlyHandler(h) /\ channel' = channel /\ Outgoing(h) = {}
    BY <1>1, <2>1, EndIs
  <2>3. Underway \subseteq Underway'
    BY <1>a, <1>b, <1>c, <2>2
  <2>4. Passed' = Passed /\ skipped' = skipped
    BY <2>1 DEF AbortWrite, SendConfirm, streamVars, Passed
  <2>5. QED
    BY <1>1, <2>2, <2>3, <2>4 DEF Written
<1>6. QED
  BY <1>2, <1>3, <1>4, <1>5, StepForms

(* Handlers' numbers that change in one place only. *)
LEMMA OthersKeep ==
    ASSUME NEW h \in Handlers, OnlyHandler(h), NEW g \in Handlers, g # h
    PROVE  Outgoing(g)' = Outgoing(g) /\ handler'[g] = handler[g]
  BY DEF OnlyHandler, Outgoing

LEMMA OutgoingIsPassed ==
    ASSUME TypeOK
    PROVE  Written \subseteq Passed /\ \A h \in Handlers : Outgoing(h) \subseteq Passed
<1>1. \A s \in Seq(Passed) : ToSet(s) \subseteq Passed
  BY ElementOfSeq, LenProperties DEF ToSet
<1>2. \A h \in Handlers : handler[h].out \in Seq(Passed)
  BY DEF TypeOK, Calls, Passed
<1>3. QED
  BY <1>1, <1>2 DEF TypeOK, Written, Outgoing

LEMMA HeldStep == TypeOK /\ IdleIsEmpty /\ HeldOnce /\ [Next]_vars => HeldOnce'
<1> SUFFICES ASSUME TypeOK, IdleIsEmpty, HeldOnce, [Next]_vars PROVE HeldOnce'
  OBVIOUS
<1>1. CASE Aside
  BY <1>1, AsideIs DEF HeldOnce, Outgoing, Written
<1>2. CASE \E p \in packs, h \in Handlers : HandleActionPack(h, p)
  <2>1. PICK p \in packs, h \in Handlers : HandleActionPack(h, p)
    BY <1>2
  <2>2. PICK out : Handled(h, out)
    BY <2>1, HandleIs
  <2>3. OnlyHandler(h) /\ Outgoing(h)' = out /\ Increases(handler'[h].out)
    BY <2>2, HandledIs
  <2>4. channel' = channel /\ Written' = Written
    BY <2>1 DEF HandleActionPack, Written
  <2>5. out \cap Passed = {}
    <3>1. out \subseteq (lastSeq + 1)..lastSeq' /\ lastSeq \in Nat
      BY <2>2 DEF Handled, TypeOK
    <3>2. QED
      BY <3>1 DEF Passed
  <2>6. ASSUME NEW g \in Handlers
        PROVE  Increases(handler'[g].out) /\ Outgoing(g)' \cap Written' = {}
    <3>1. CASE g = h
      BY <2>3, <2>4, <2>5, <3>1, OutgoingIsPassed
    <3>2. CASE g # h
      BY <2>3, <2>4, <3>2, OthersKeep DEF HeldOnce
    <3>3. QED
      BY <3>1, <3>2
  <2>7. ASSUME NEW f \in Handlers, NEW g \in Handlers, f # g
        PROVE  Outgoing(f)' \cap Outgoing(g)' = {}
    <3>1. CASE f = h
      BY <2>3, <2>5, <2>7, <3>1, OthersKeep, OutgoingIsPassed
    <3>2. CASE g = h
      BY <2>3, <2>5, <2>7, <3>2, OthersKeep, OutgoingIsPassed
    <3>3. CASE f # h /\ g # h
      BY <2>3, <2>7, <3>3, OthersKeep DEF HeldOnce
    <3>4. QED
      BY <3>1, <3>2, <3>3
  <2>8. QED
    BY <2>4, <2>6, <2>7 DEF HeldOnce
<1>3. CASE \E h \in Handlers : WriteAction(h)
  <2>1. PICK h \in Handlers : WriteAction(h)
    BY <1>3
  <2>2. PICK e \in Passed : /\ OnlyHandler(h)
                            /\ channel' = Append(channel, e) /\ Written' = Written \cup {e}
                            /\ Outgoing(h) = {e} \cup Outgoing(h)'
                            /\ Increases(handler[h].out) =>
                                 Increases(handler'[h].out) /\ \A y \in Outgoing(h)' : e < y
    BY <2>1, WriteIs
  <2>3. Increases(handler'[h].out) /\ e \notin Outgoing(h)' /\ e \notin Written
    <3>1. Increases(handler'[h].out) /\ \A y \in Outgoing(h)' : e < y
      BY <2>2 DEF HeldOnce
    <3>2. e \in Nat
      BY <2>2 DEF Passed
    <3>3. ~(e < e)
      BY <3>2
    <3>4. e \notin Written
      BY <2>2 DEF HeldOnce
    <3>5. QED
      BY <3>1, <3>3, <3>4
  <2>4. ASSUME NEW g \in Handlers
        PROVE  Increases(handler'[g].out) /\ Outgoing(g)' \cap Written' = {}
    <3>1. CASE g = h
      BY <2>2, <2>3, <3>1 DEF HeldOnce
    <3>2. CASE g # h
      <4>1. Outgoing(g)' = Outgoing(g) /\ handler'[g] = handler[g]
        BY <2>2, <3>2, OthersKeep
      <4>2. e \notin Outgoing(g)
        BY <2>2, <3>2 DEF HeldOnce
      <4>3. QED
        BY <2>2, <4>1, <4>2 DEF HeldOnce
    <3>3. QED
      BY <3>1, <3>2
  <2>5. ASSUME NEW f \in Handlers, NEW g \in Handlers, f # g
        PROVE  Outgoing(f)' \cap Outgoing(g)' = {}
    <3>1. Outgoing(f)' \subseteq Outgoing(f)
      BY <2>2, OthersKeep
    <3>2. Outgoing(g)' \subseteq Outgoing(g)
      BY <2>2, OthersKeep
    <3>3. QED
      BY <2>5, <3>1, <3>2 DEF HeldOnce
  <2>6. ASSUME NEW j \in DOMAIN channel', NEW k \in DOMAIN channel', j < k
        PROVE  channel'[j] # channel'[k]
    <3>1. /\ DOMAIN channel = 1..Len(channel) /\ Len(channel) \in Nat
          /\ DOMAIN channel' = 1..(Len(channel) + 1)
          /\ \A i \in 1..Len(channel) : channel'[i] = channel[i] /\ channel[i] \in Written
          /\ channel'[Len(channel) + 1] = e
      BY <2>2, PutTogether DEF TypeOK, Written
    <3>2. j \in 1..Len(channel) /\ channel'[j] = channel[j] /\ channel[j] \in Written
      BY <2>6, <3>1
    <3>3. CASE k \in 1..Len(channel)
      BY <2>6, <3>1, <3>2, <3>3 DEF HeldOnce
    <3>4. CASE k = Len(channel) + 1
      BY <2>3, <3>1, <3>2, <3>4
    <3>5. QED
      BY <3>1, <3>3, <3>4
  <2>7. QED
    BY <2>4, <2>5, <2>6 DEF HeldOnce
<1>4. CASE \E h \in Handlers : AbortWrite(h) \/ SendConfirm(h)
  <2>1. PICK h \in Handlers : AbortWrite(h) \/ SendConfirm(h)
    BY <1>4
  <2>2. OnlyHandler(h) /\ handler'[h] = Idle /\ channel' = channel /\ Outgoing(h)' = {}
    BY <2>1, EndIs
  <2>3. Increases(handler'[h].out)
    BY <2>2 DEF Idle, Increases
  <2>4. \A g \in Handlers : Outgoing(g)' = {} \/ Outgoing(g)' = Outgoing(g)
    BY <2>2, OthersKeep
  <2>5. \A g \in Handlers : Increases(handler'[g].out)
    BY <2>2, <2>3, OthersKeep DEF HeldOnce
  <2>6. Written' = Written
    BY <2>2 DEF Written
  <2>7. QED
    BY <2>2, <2>4, <2>5, <2>6 DEF HeldOnce
<1>5. QED
  BY <1>1, <1>2, <1>3, <1>4, StepForms

LEMMA OneStep ==
    TypeOK /\ IdleIsEmpty /\ HeldOnce /\ OneAtATime /\ [Next]_vars => OneAtATime'
<1> SUFFICES ASSUME TypeOK, IdleIsEmpty, HeldOnce, OneAtATime, [Next]_vars, solo'
             PROVE  /\ \A f, g \in Handlers : handler'[f].busy /\ handler'[g].busy => f = g
                    /\ \A g \in Handlers : \A x \in Written', y \in Outgoing(g)' : x < y
                    /\ Increases(channel)'
  BY DEF OneAtATime
<1>1. CASE Aside
  BY <1>1, AsideIs DEF OneAtATime, Outgoing, Written, Increases
<1>2. CASE \E p \in packs, h \in Handlers : HandleActionPack(h, p)
  <2>1. PICK p \in packs, h \in Handlers : HandleActionPack(h, p)
    BY <1>2
  <2>2. PICK out : Handled(h, out)
    BY <2>1, HandleIs
  <2>3. OnlyHandler(h) /\ Outgoing(h)' = out
    BY <2>2, HandledIs
  <2>4. channel' = channel /\ Written' = Written
    BY <2>1 DEF HandleActionPack, Written
  <2>5. solo /\ \A g \in Handlers : ~handler[g].busy
    BY <2>1 DEF HandleActionPack
  <2>6. \A f, g \in Handlers : handler'[f].busy /\ handler'[g].busy => f = g
    BY <2>3, <2>5, OthersKeep
  <2>7. ASSUME NEW g \in Handlers, NEW x \in Written', NEW y \in Outgoing(g)' PROVE x < y
    <3>1. CASE g = h
      <4>1. x \in Passed /\ y \in out
        BY <2>3, <2>4, <2>7, <3>1, OutgoingIsPassed
      <4>2. out \in SUBSET ((lastSeq + 1)..lastSeq') /\ lastSeq \in Nat
            /\ lastSeq' \in lastSeq..enumSeq
        BY <2>2 DEF Handled, TypeOK
      <4>3. x \in 1..lastSeq /\ y \in (lastSeq + 1)..lastSeq'
        BY <4>1, <4>2 DEF Passed
      <4>4. QED
        BY <4>2, <4>3
    <3>2. CASE g # h
      <4>1. handler[g].out = << >>
        BY <2>5 DEF IdleIsEmpty
      <4>2. Outgoing(g)' = {}
        BY <2>3, <3>2, <4>1, OthersKeep DEF Outgoing, ToSet
      <4>3. QED
        BY <2>7, <4>2
    <3>3. QED
      BY <3>1, <3>2
  <2>8. Increases(channel)'
    BY <2>4, <2>5 DEF OneAtATime, Increases
  <2>9. QED
    BY <2>6, <2>7, <2>8
<1>3. CASE \E h \in Handlers : WriteAction(h)
  <2>1. PICK h \in Handlers : WriteAction(h)
    BY <1>3
  <2>2. PICK e \in Passed : /\ OnlyHandler(h) /\ handler[h].busy /\ handler'[h].busy
                            /\ channel' = Append(channel, e) /\ Written' = Written \cup {e}
                            /\ Outgoing(h) = {e} \cup Outgoing(h)'
                            /\ Increases(handler[h].out) =>
                                 Increases(handler'[h].out) /\ \A y \in Outgoing(h)' : e < y
    BY <2>1, WriteIs
  <2>3. solo
    BY <2>1 DEF WriteAction, streamVars
  <2>4. \A y \in Outgoing(h)' : e < y
    BY <2>2 DEF HeldOnce
  <2>5. \A x \in Written : x < e
    BY <2>2, <2>3 DEF OneAtATime
  <2>6. \A f, g \in Handlers : handler'[f].busy /\ handler'[g].busy => f = g
    BY <2>2, <2>3, OthersKeep DEF OneAtATime
  <2>7. ASSUME NEW g \in Handlers, NEW x \in Written', NEW y \in Outgoing(g)' PROVE x < y
    <3>1. CASE g = h
      <4>1. x \in Written \/ x = e
        BY <2>2, <2>7
      <4>2. y \in Outgoing(h)' /\ y \in Outgoing(h)
        BY <2>2, <2>7, <3>1
      <4>3. QED
        BY <2>3, <2>4, <4>1, <4>2 DEF OneAtATime
    <3>2. CASE g # h
      <4>1. ~handler[g].busy
        BY <2>2, <2>3, <3>2 DEF OneAtATime
      <4>2. Outgoing(g)' = {}
        BY <2>2, <3>2, <4>1, OthersKeep DEF IdleIsEmpty, Outgoing, ToSet
      <4>3. QED
        BY <2>7, <4>2
    <3>3. QED
      BY <3>1, <3>2
  <2>8. ASSUME NEW j \in DOMAIN channel', NEW k \in DOMAIN channel', j < k
        PROVE  channel'[j] < channel'[k]
    <3>1. /\ DOMAIN channel = 1..Len(channel) /\ Len(channel) \in Nat
          /\ DOMAIN channel' = 1..(Len(channel) + 1)
          /\ \A i \in 1..Len(channel) : channel'[i] = channel[i] /\ channel[i] \in Written
          /\ channel'[Len(channel) + 1] = e
      BY <2>2, PutTogether DEF TypeOK, Written
    <3>2. j \in 1..Len(channel) /\ channel'[j] = channel[j] /\ channel[j] \in Written
      BY <2>8, <3>1
    <3>3. CASE k \in 1..Len(channel)
      BY <2>3, <2>8, <3>1, <3>2, <3>3 DEF OneAtATime, Increases
    <3>4. CASE k = Len(channel) + 1
      BY <2>5, <3>1, <3>2, <3>4
    <3>5. QED
      BY <3>1, <3>3, <3>4
  <2>9. QED
    BY <2>6, <2>7, <2>8 DEF Increases
<1>4. CASE \E h \in Handlers : AbortWrite(h) \/ SendConfirm(h)
  <2>1. PICK h \in Handlers : AbortWrite(h) \/ SendConfirm(h)
    BY <1>4
  <2>2. OnlyHandler(h) /\ handler'[h] = Idle /\ channel' = channel /\ Outgoing(h)' = {}
    BY <2>1, EndIs
  <2>3. solo /\ Written' = Written
    BY <2>1, <2>2 DEF AbortWrite, SendConfirm, streamVars, Written
  <2>4. \A g \in Handlers : handler'[g].busy => handler[g].busy
    BY <2>2, OthersKeep DEF Idle
  <2>5. \A g \in Handlers : Outgoing(g)' \subseteq Outgoing(g)
    BY <2>2, OthersKeep
  <2>6. QED
    BY <2>2, <2>3, <2>4, <2>5 DEF OneAtATime, Increases
<1>5. QED
  BY <1>1, <1>2, <1>3, <1>4, StepForms
-----------------------------------------------------------------------------
LEMMA InvInit == Init => IInv
<1> SUFFICES ASSUME Init PROVE IInv
  OBVIOUS
<1>1. TypeOK
  BY TypeInit
<1>2. \A h \in Handlers : handler[h].out = << >> /\ ~handler[h].busy
  BY DEF Init, Idle
<1>3. ToSet(<< >>) = {} /\ Increases(<< >>)
  BY DEF ToSet, Increases
<1>4. Written = {} /\ \A h \in Handlers : Outgoing(h) = {}
  BY <1>2, <1>3 DEF Init, Written, Outgoing
<1>5. Made = {} /\ Passed = {}
  BY DEF Init, Made, Passed
<1>6. Placed
  BY <1>5 DEF Placed
<1>7. HeldOnce
  BY <1>2, <1>3, <1>4 DEF HeldOnce, Init
<1>8. OneAtATime
  BY <1>2, <1>3, <1>4 DEF OneAtATime, Init
<1>9. QED
  BY <1>1, <1>2, <1>6, <1>7, <1>8 DEF IInv, IdleIsEmpty

LEMMA InvStep == IInv /\ [Next]_vars => IInv'
  BY TypeStep, IdleStep, MadeStep, PassedStep, HeldStep, OneStep DEF IInv, Placed

LEMMA InvCorrect == Spec => []IInv
  BY InvInit, InvStep, PTL DEF Spec

(* No action vanishes between the client's buffer and the actor's channel: *)
(* what the buffer gives up the server has confirmed or Cap newer actions  *)
(* pushed out, and what the server's stream passes gets into the channel   *)
(* unless the stream had expired.                                          *)
THEOREM NoActionVanishes == Spec => []Accounted
<1>1. IInv => Accounted
  <2> SUFFICES ASSUME IInv, ~done
               PROVE  Seqs \cap (1..enumSeq) \subseteq
                        unconfirmed \cup Written \cup Underway \cup skipped \cup Evicted
    BY DEF Accounted
  <2>1. QED
    BY DEF IInv, Placed, Made
<1>2. QED
  BY <1>1, InvCorrect, PTL

(* HandleActionPack never writes an action to the channel twice, whatever  *)
(* handlers run concurrently; and without overlapping calls it writes them *)
(* in the order they were made.                                            *)
THEOREM WrittenOnceInOrder == Spec => []OnceInOrder
<1>1. IInv => OnceInOrder
  BY DEF IInv, HeldOnce, OneAtATime, Increases, OnceInOrder
<1>2. QED
  BY <1>1, InvCorrect, PTL
=============================================================================
