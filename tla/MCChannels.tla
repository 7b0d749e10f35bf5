----------------------------- MODULE MCChannels -----------------------------
(***************************************************************************)
(* The channels of actions and of stories for TLC.  They share no state; a *)
(* behaviour is one of four:                                               *)
(*   actions  ActionChannel;                                               *)
(*   fair     StoryChannel with one packet in flight at a time, of which   *)
(*            fairness is required;                                        *)
(*   order    StoryChannel with packets that overtake each other, and      *)
(*            requests that take several messages;                         *)
(*   long     StoryChannel with answers of up to four packs.               *)
(* Fairness for several packets in flight would have to name every packet: *)
(* the network could always lose the one that matters.                     *)
(***************************************************************************)
EXTENDS ActionChannel, StoryState

CONSTANTS
    OrderEntries, OrderRanges, OrderNet, \* StoryChannel's on the link "order"
    LongEntries                          \* and on the link "long"

VARIABLES
    part,
    watched \* the number GapRepaired follows

Fair == INSTANCE StoryChannel

Order == INSTANCE StoryChannel WITH
    MaxEntries <- OrderEntries, ConfirmRanges <- OrderRanges, MaxInFlight <- OrderNet

Long == INSTANCE StoryChannel WITH MaxEntries <- LongEntries

storyVars ==
    <<storySeq, known, storyPacks, storyConfirms, clientLast, clientAhead, missing, storyChannel>>

allVars == <<part, watched, vars, storyVars>>

AllInit ==
    /\ part \in {"actions", "fair", "order", "long"}
    /\ watched \in IF part = "fair" THEN Fair!Seqs ELSE {1}
    /\ Init
    /\ Fair!Init

AllNext ==
    /\ UNCHANGED <<part, watched>>
    /\ \/ part = "actions" /\ Next /\ UNCHANGED storyVars
       \/ part = "fair" /\ Fair!Next /\ UNCHANGED vars
       \/ part = "order" /\ Order!Next /\ UNCHANGED vars
       \/ part = "long" /\ Long!Next /\ UNCHANGED vars

(* An action of one part, which leaves the others alone. *)
OfActions(A) == part = "actions" /\ A /\ UNCHANGED <<part, watched, storyVars>>

OnFairLink(A) == part = "fair" /\ A /\ UNCHANGED <<part, watched, vars>>

CanReceivePack ==
    \/ part = "actions" /\ packs # {} /\ \E h \in Handlers : ~handler[h].busy
    \/ part = "fair" /\ storyPacks # {}

CanReceiveConfirm ==
    \/ part = "actions" /\ confirms # {}
    \/ part = "fair" /\ storyConfirms # {}

PackReceived == OfActions(ReceivePack) \/ OnFairLink(Fair!DeliverPack)

ConfirmReceived == OfActions(ReceiveConfirm) \/ OnFairLink(Fair!DeliverConfirm)

(* The fairness of the two channels.  Of a disjunction of actions of       *)
(* different parts only one can be enabled in a behaviour.  The last two   *)
(* conjuncts are the strong fairness of PackReceived and ConfirmReceived,  *)
(* spelt out: TLC is slow to find out where these are enabled.            *)
AllSpec ==
    /\ AllInit
    /\ [][AllNext]_allVars
    /\ WF_allVars(OfActions(Resend) \/ OnFairLink(Fair!RequestTimer))
    /\ WF_allVars(OfActions(Expire))
    /\ \A h \in Handlers : WF_allVars(OfActions(HandlerStep(h)))
    /\ []<>CanReceivePack => []<><<PackReceived>>_allVars
    /\ []<>CanReceiveConfirm => []<><<ConfirmReceived>>_allVars
-----------------------------------------------------------------------------
(* StoryChannel's GapRepaired, on the fair link: watched stands for any    *)
(* number, chosen once for all at the start.                               *)
GapRepaired ==
    part = "fair" => ((watched \in missing) ~> (watched <= clientLast))
=============================================================================
