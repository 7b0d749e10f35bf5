---------------------------- MODULE ActionChannel ----------------------------
(***************************************************************************)
(* How one actor's actions travel: the client's actionService (enumerator, *)
(* Recent buffer, resend timer), a network that loses, repeats and         *)
(* reorders packets, and the server's HandleActionPack, which runs Engine  *)
(* under the actor's mutex, then writes to the actor's channel, then       *)
(* answers with an ActionConfirm.                                          *)
(*                                                                         *)
(* Recent is the bounded queue RecentSpec describes, Engine the closed     *)
(* form of StreamOps.  Packs are increasing lists of numbers, kept as      *)
(* sets.  Of time only the order of events and whether the stream's        *)
(* maxWaitTime has run out since its last delivery is kept.                *)
(***************************************************************************)
EXTENDS StreamOps, Sequences, SequencesExt

CONSTANTS
    MaxSeq,     \* bound: how many actions the player makes
    Cap,        \* controller.ActionBufferCapacity, of the client's buffer
    MaxRanges,  \* controller.ActionBufferCapacity, of a confirmation's ranges
    MaxPack,    \* how many of the newest entries Recent's size limit admits
    MaxNet,     \* bound: packets in flight in each direction
    Handlers    \* the goroutines that call Server.HandleIncomingMessages

ASSUME ActionConstants ==
    /\ MaxSeq \in Nat
    /\ {Cap, MaxRanges, MaxPack, MaxNet} \subseteq Nat \ {0}

VARIABLES
    enumSeq,     \* client: Enumerator.lastSeq
    unconfirmed, \* client: the numbers in the actor's Recent buffer
    resend,      \* client: the resend timer is armed
    packs,       \* network: ActionPacks on their way
    confirms,    \* network: ActionConfirms on their way
    lastSeq,     \* server: ActionStream.lastSeq
    ahead,       \* server: ActionStream.ahead
    wait,        \* server: time since ActionStream.lastTime
    handler,     \* server: the HandleActionPack calls in progress
    channel,     \* server: what was written to the actor's channel
    done,        \* server: clientService.doneCh is closed
    skipped,     \* history: the numbers an expired stream jumped over
    solo         \* history: no two calls of HandleActionPack overlapped

clientVars == <<enumSeq, unconfirmed, resend>>

streamVars == <<lastSeq, ahead, wait, skipped, solo>>

vars == <<clientVars, packs, confirms, streamVars, handler, channel, done>>

Seqs == 1..MaxSeq

Idle == [busy |-> FALSE, out |-> << >>, last |-> 0, missing |-> {}]

(* Sending into a full network pushes some packet out of it.               *)
Sent(net, m) ==
    IF Cardinality(net \cup {m}) <= MaxNet THEN {net \cup {m}}
    ELSE {(net \ {old}) \cup {m} : old \in net}

(* A packet that arrives may arrive again. *)
Taken(net, m) == {net, net \ {m}}

Init ==
    /\ enumSeq = 0
    /\ unconfirmed = {}
    /\ resend = FALSE
    /\ packs = {}
    /\ confirms = {}
    /\ lastSeq = 0
    /\ ahead = {}
    /\ wait = "zero"
    /\ handler = [h \in Handlers |-> Idle]
    /\ channel = << >>
    /\ done = FALSE
    /\ skipped = {}
    /\ solo = TRUE
-----------------------------------------------------------------------------
(* The lists Recent may return: a run of the newest entries, cut by the    *)
(* size limit or, where the player paused, by the delay limit.             *)
RecentPacks ==
    {{s \in unconfirmed : Cardinality({t \in unconfirmed : t > s}) < n} : n \in 1..MaxPack}

(* The buffer after a push: Cap newer entries push an entry out.           *)
Buffered(s) == {t \in unconfirmed \cup {s} : t > s - Cap}

(* The player acts: the action is numbered, buffered and sent with the     *)
(* other recent ones, and the resend timer starts.                         *)
Input ==
    /\ enumSeq < MaxSeq
    /\ enumSeq' = enumSeq + 1
    /\ unconfirmed' = Buffered(enumSeq')
    /\ \E p \in RecentPacks' : packs' \in Sent(packs, p)
    /\ resend' = TRUE
    /\ UNCHANGED <<confirms, streamVars, handler, channel, done>>

(* The resend timer fires: the recent actions are sent again, an empty     *)
(* pack if there are none, and the timer is armed again.                   *)
NoResend == \* mutant: the timer fires once
    /\ resend
    /\ resend' = FALSE
    /\ UNCHANGED <<enumSeq, unconfirmed, packs, confirms, streamVars, handler, channel, done>>

Resend ==
    /\ resend
    /\ \E p \in RecentPacks : packs' \in Sent(packs, p)
    /\ UNCHANGED <<clientVars, confirms, streamVars, handler, channel, done>>

(* A confirmation: the buffer drops what the server has passed, and the    *)
(* missing actions it still holds are sent at once.                        *)
KeptBelow(c) == {s \in unconfirmed : s >= c.last + 2} \* mutant: off by one

Kept(c) == {s \in unconfirmed : s > c.last}

ConfirmActions(c) ==
    /\ c \in confirms
    /\ confirms' \in Taken(confirms, c)
    /\ unconfirmed' = Kept(c)
    /\ LET again == unconfirmed' \cap c.missing
       IN IF again = {} THEN packs' = packs ELSE packs' \in Sent(packs, again)
    /\ resend' = (resend \/ unconfirmed' = {})
    /\ UNCHANGED <<enumSeq, streamVars, handler, channel, done>>
-----------------------------------------------------------------------------
(* Longer than maxWaitTime passes since the last delivery. *)
Expire ==
    /\ wait = "running"
    /\ wait' = "expired"
    /\ UNCHANGED <<clientVars, packs, confirms, lastSeq, ahead, skipped, solo, handler, channel, done>>

(* The last MaxRanges ranges of a set of numbers. *)
LastRanges(S) ==
    {s \in S : Cardinality({t \in S : t > s /\ t - 1 \notin S}) < MaxRanges}

(* HandleActionPack up to the unlock: Engine, and what the confirmation    *)
(* will say.                                                               *)
HandleActionPack(h, p) ==
    /\ ~handler[h].busy
    /\ p \in packs
    /\ packs' \in Taken(packs, p)
    /\ LET f == Sorted(p)
           late == wait = "expired"
           out == PushOut(lastSeq, ahead, f, late)
       IN /\ lastSeq' = PushLast(lastSeq, ahead, f, late)
          /\ ahead' = PushAhead(lastSeq, ahead, f, late)
          /\ wait' = IF out # {} THEN "running" ELSE IF late THEN "expired" ELSE "running"
          /\ skipped' = skipped \cup (((lastSeq + 1)..lastSeq') \ out)
          /\ handler' = [handler EXCEPT ![h] =
               [busy |-> TRUE, out |-> Sorted(out), last |-> lastSeq',
                missing |-> LastRanges(GetMissing(lastSeq', ahead'))]]
    /\ solo' = (solo /\ \A g \in Handlers : ~handler[g].busy)
    /\ UNCHANGED <<clientVars, confirms, channel, done>>

(* One write to the actor's channel, after the unlock. *)
WriteAction(h) ==
    /\ handler[h].busy
    /\ handler[h].out # << >>
    /\ channel' = Append(channel, Head(handler[h].out))
    /\ handler' = [handler EXCEPT ![h].out = Tail(@)]
    /\ UNCHANGED <<clientVars, packs, confirms, streamVars, done>>

(* The handler gives up: the client service is done. *)
AbortWrite(h) ==
    /\ handler[h].busy
    /\ handler[h].out # << >>
    /\ done
    /\ handler' = [handler EXCEPT ![h] = Idle]
    /\ UNCHANGED <<clientVars, packs, confirms, streamVars, channel, done>>

(* The confirmation is the answer to the pack. *)
Confirmation(h) == [last |-> handler[h].last, missing |-> handler[h].missing]

SendConfirm(h) ==
    /\ handler[h].busy
    /\ handler[h].out = << >>
    /\ confirms' \in Sent(confirms, Confirmation(h))
    /\ handler' = [handler EXCEPT ![h] = Idle]
    /\ UNCHANGED <<clientVars, packs, streamVars, channel, done>>

(* The session ends. *)
Stop ==
    /\ ~done
    /\ done' = TRUE
    /\ UNCHANGED <<clientVars, packs, confirms, streamVars, handler, channel>>

LosePack(p) ==
    /\ p \in packs
    /\ packs' = packs \ {p}
    /\ UNCHANGED <<clientVars, confirms, streamVars, handler, channel, done>>

LoseConfirm(c) ==
    /\ c \in confirms
    /\ confirms' = confirms \ {c}
    /\ UNCHANGED <<clientVars, packs, streamVars, handler, channel, done>>
-----------------------------------------------------------------------------
ReceivePack == \E p \in packs, h \in Handlers : HandleActionPack(h, p)

ReceiveConfirm == \E c \in confirms : ConfirmActions(c)

HandlerStep(h) == WriteAction(h) \/ AbortWrite(h) \/ SendConfirm(h)

Next ==
    \/ Input
    \/ Resend
    \/ ReceiveConfirm
    \/ \E c \in confirms : LoseConfirm(c)
    \/ ReceivePack
    \/ \E p \in packs : LosePack(p)
    \/ \E h \in Handlers : HandlerStep(h)
    \/ Expire
    \/ Stop

Spec == Init /\ [][Next]_vars

(* The timer keeps firing, time passes, the actor's channel is read, and   *)
(* of infinitely many packets sent infinitely many arrive: with MaxNet = 1 *)
(* a packet that arrives is one sent since the last arrival, or its copy.  *)
Fairness ==
    /\ WF_vars(Resend)
    /\ WF_vars(Expire)
    /\ \A h \in Handlers : WF_vars(HandlerStep(h))
    /\ SF_vars(ReceivePack)
    /\ SF_vars(ReceiveConfirm)

FairSpec == Spec /\ Fairness
-----------------------------------------------------------------------------
Evicted == 1..(enumSeq - Cap)

Written == ToSet(channel)

Underway == UNION {ToSet(handler[h].out) : h \in Handlers}

(* No action vanishes: it waits in the client's buffer until the server    *)
(* has it in the actor's channel (or in the hands of a handler), unless    *)
(* Cap newer actions pushed it out or the expired stream jumped over it.   *)
Accounted ==
    ~done => Seqs \cap (1..enumSeq) \subseteq
        unconfirmed \cup Written \cup Underway \cup skipped \cup Evicted

(* No action reaches the actor's channel twice, however often its pack     *)
(* arrives and whatever handlers run concurrently; and as long as the      *)
(* calls of the handler do not overlap (udp.Server calls it from its       *)
(* receive loop) the channel gets the actions in the order they were made. *)
OnceInOrder ==
    \A j, k \in DOMAIN channel :
        j < k => channel[j] # channel[k] /\ (solo => channel[j] < channel[k])

(* Every action is settled: the server's stream passes it, however often   *)
(* its packs and confirmations are lost, and the client's buffer gives it  *)
(* up.                                                                     *)
Settles ==
    \A s \in Seqs : (enumSeq >= s) ~> (lastSeq >= s /\ s \notin unconfirmed)
=============================================================================
