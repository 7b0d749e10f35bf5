---------------------------- MODULE StoryChannel ----------------------------
(***************************************************************************)
(* How one story reaches one client: the server's session loop, which      *)
(* numbers story entries, keeps them all and sends the recent ones; the    *)
(* unreliable network; the client's storyService, which runs Engine (with  *)
(* no maxWaitTime) and reports what is missing, at once and every second;  *)
(* and the server's answer to a StoryConfirm.  The server sends nothing to *)
(* a client it has not heard from.                                         *)
(*                                                                         *)
(* Engine is the closed form of StreamOps.  A StoryPack is the sequence of *)
(* the numbers of its entries: copying one entry is taken as one step, so  *)
(* an entry copied while it is overwritten has the number, and with it the *)
(* payload, of the one or of the other.                                    *)
(***************************************************************************)
EXTENDS StoryState, Sequences, SequencesExt

vars ==
    <<storySeq, known, storyPacks, storyConfirms, clientLast, clientAhead, missing, storyChannel>>

clientVars == <<clientLast, clientAhead, missing, storyChannel>>

Seqs == 1..MaxEntries

(* At least one of the messages ms enters the network; the others, and     *)
(* those that were there, may be lost.                                     *)
Sent(net, ms) ==
    {n \in SUBSET (net \cup ms) : n \cap ms # {} /\ Cardinality(n) <= MaxInFlight}

Taken(net, m) == {net, net \ {m}}

Init ==
    /\ storySeq = 0
    /\ known = FALSE
    /\ storyPacks = {}
    /\ storyConfirms = {}
    /\ clientLast = 0
    /\ clientAhead = {}
    /\ missing = {}
    /\ storyChannel = << >>
-----------------------------------------------------------------------------
(* A story entry: it is numbered, kept in the history and sent to the      *)
(* client with as many earlier ones as RecentX's size limit admits.        *)
StoryEntry ==
    /\ storySeq < MaxEntries
    /\ storySeq' = storySeq + 1
    /\ LET recent == Sorted({s \in 1..storySeq' : s > storySeq' - PackSize})
       IN IF known THEN storyPacks' \in Sent(storyPacks, {recent}) ELSE storyPacks' = storyPacks
    /\ UNCHANGED <<known, storyConfirms, clientVars>>

(* The entries that answer a request, in packs of PackSize.                *)
Chunks(s) ==
    [k \in 1..((Len(s) + PackSize - 1) \div PackSize) |->
        SubSeq(s, (k - 1) * PackSize + 1,
               IF k * PackSize < Len(s) THEN k * PackSize ELSE Len(s))]

(* What chunk k may look like when it is serialised.  The loop fills every *)
(* chunk into the same backing array, and goes on filling it while the     *)
(* chunk it has handed over is being serialised: an entry may already be   *)
(* the one a later chunk has in its place.  The first chunk is serialised  *)
(* by the handler itself, while all the others are sent.  While the        *)
(* client's goroutine serialises a later one, the forwarding goroutine     *)
(* holds the next, and the loop may have filled the next but one, which    *)
(* nobody takes from it before the first of the three is serialised.       *)
Overwritten(chunks, k) ==
    LET later == IF k = 1 THEN k..Len(chunks) ELSE k..(k + 2)
        source(j) == {chunks[m][j] : m \in {n \in later \cap DOMAIN chunks : j \in DOMAIN chunks[n]}}
    IN {p \in [DOMAIN chunks[k] -> Seqs] : \A j \in DOMAIN p : p[j] \in source(j)}

(* The sets of at least one and at most MaxInFlight packs that leave as    *)
(* some of the chunks; the network loses the others.                       *)
Serialised(chunks) ==
    LET Packs(K) == {ps \in [K -> UNION {Overwritten(chunks, k) : k \in K}] :
                        \A k \in K : ps[k] \in Overwritten(chunks, k)}
        some == {K \in SUBSET DOMAIN chunks : Cardinality(K) \in 1..MaxInFlight}
    IN {Range(ps) : ps \in UNION {Packs(K) : K \in some}}

(* HandleStoryConfirm: nothing to do for a client that misses nothing;     *)
(* otherwise the session loop collects the missing entries it has.         *)
Answer(c) == {s \in c.missing : s <= storySeq}

HandleStoryConfirm(c) ==
    /\ c \in storyConfirms
    /\ storyConfirms' \in Taken(storyConfirms, c)
    /\ known' = TRUE
    /\ LET chunks == Chunks(Sorted(Answer(c)))
       IN IF Answer(c) = {} THEN storyPacks' = storyPacks
          ELSE \E ms \in Serialised(chunks) : storyPacks' \in Sent(storyPacks, ms)
    /\ UNCHANGED <<storySeq, clientVars>>
-----------------------------------------------------------------------------
(* The place of the range of S that holds s. *)
RangeNo(S, s) == Cardinality({t \in S : t <= s /\ t - 1 \notin S})

(* sendConfirm: one message for each ConfirmRanges ranges, and one with    *)
(* the rest, even if it is empty.                                          *)
ConfirmMessages(last, S) ==
    LET ranges == IF S = {} THEN 0 ELSE RangeNo(S, CHOOSE m \in S : \A t \in S : t <= m)
    IN {[last |-> last,
         missing |-> {s \in S : (RangeNo(S, s) - 1) \div ConfirmRanges = k}] :
            k \in 0..(ranges \div ConfirmRanges)}

(* The request timer, first after a millisecond, then every second without *)
(* a pack: everything that is missing is asked for.                        *)
NeverAsksAgain == \* mutant: the timer asks for what is newly missing, nothing
    /\ storyConfirms' \in Sent(storyConfirms, ConfirmMessages(clientLast, {}))
    /\ UNCHANGED <<storySeq, known, storyPacks, clientVars>>

RequestTimer ==
    /\ storyConfirms' \in Sent(storyConfirms, ConfirmMessages(clientLast, missing))
    /\ UNCHANGED <<storySeq, known, storyPacks, clientVars>>

(* A pack arrives: Engine, the writes to the story's channel, and a        *)
(* confirmation that asks for what is newly missing.                       *)
KeepsArrived(f, last, after) == \* mutant: what arrived ahead is not removed
    (missing \ (1..last)) \cup GetMissing(last, after)

MissingAfter(f, last, after) ==
    ((missing \ (1..last)) \ ToSet(f)) \cup GetMissing(last, after)

HandlePack(p) ==
    /\ p \in storyPacks
    /\ storyPacks' \in Taken(storyPacks, p)
    /\ clientLast' = PushLast(clientLast, clientAhead, p, FALSE)
    /\ clientAhead' = PushAhead(clientLast, clientAhead, p, FALSE)
    /\ missing' = MissingAfter(p, clientLast', clientAhead')
    /\ storyChannel' = storyChannel \o Sorted(PushOut(clientLast, clientAhead, p, FALSE))
    /\ LET newly == missing' \ (missing \ ToSet(p))
       IN storyConfirms' \in Sent(storyConfirms, ConfirmMessages(clientLast', newly))
    /\ UNCHANGED <<storySeq, known>>
-----------------------------------------------------------------------------
LosePack(p) ==
    /\ p \in storyPacks
    /\ storyPacks' = storyPacks \ {p}
    /\ UNCHANGED <<storySeq, known, storyConfirms, clientVars>>

LoseConfirm(c) ==
    /\ c \in storyConfirms
    /\ storyConfirms' = storyConfirms \ {c}
    /\ UNCHANGED <<storySeq, known, storyPacks, clientVars>>

ReceivePack == \E p \in storyPacks : HandlePack(p)

ReceiveConfirm == \E c \in storyConfirms : HandleStoryConfirm(c)

Next ==
    \/ StoryEntry
    \/ ReceiveConfirm
    \/ RequestTimer
    \/ ReceivePack
    \/ \E p \in storyPacks : LosePack(p)
    \/ \E c \in storyConfirms : LoseConfirm(c)

Spec == Init /\ [][Next]_vars

(* The request timer keeps firing, and of infinitely many packets sent     *)
(* infinitely many arrive: the network may repeat a packet, but not one    *)
(* packet for ever in place of those that are sent after it.               *)
DeliverPack == \E p \in storyPacks : storyPacks' = storyPacks \ {p} /\ HandlePack(p)

DeliverConfirm == \E c \in storyConfirms : storyConfirms' = storyConfirms \ {c} /\ HandleStoryConfirm(c)

Fairness == WF_vars(RequestTimer) /\ SF_vars(DeliverPack) /\ SF_vars(DeliverConfirm)

FairSpec == Spec /\ Fairness
-----------------------------------------------------------------------------
(* A gap the client knows of is filled, however many packs the answer      *)
(* takes.                                                                  *)
GapRepaired ==
    \A s \in Seqs : (s \in missing) ~> (s <= clientLast)

(* push's comment: "entries list sequence numbers must be increasing".     *)
PacksIncreasing ==
    \A p \in storyPacks : \A j, k \in DOMAIN p : j < k => p[j] < p[k]
=============================================================================
