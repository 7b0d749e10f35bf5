----------------------------- MODULE Structures -----------------------------
(***************************************************************************)
(* Three data structures that share no state: the range set and the ring   *)
(* of package sequence and the client's list of lobbies.  A behaviour      *)
(* works on the one that part names and leaves the others as they were     *)
(* made; what is proved of each holds in every behaviour.                  *)
(***************************************************************************)
EXTENDS Integers

CONSTANTS
    RangeMaxSeq,                                        \* of RangeSet
    RingCap, RingMaxSeq, RingSizes,                     \* of Recent
    RingMaxDelay, RingMaxBytes,
    Delays,                                             \* of Recent and History
    Lobbies, Infos, RecentAfter, OldAfter, StaleAfter,  \* of LobbyListener
    MaxVersion

ASSUME RangeSetConstants == RangeMaxSeq \in Nat

ASSUME RecentConstants ==
    /\ RingCap \in Nat \ {0} /\ RingMaxSeq \in Nat
    /\ RingSizes \subseteq Nat /\ Delays \subseteq Nat
    /\ RingMaxDelay \in Nat /\ RingMaxBytes \in Nat

ASSUME ListenerConstants ==
    /\ Infos # {}
    /\ RecentAfter \in Nat /\ OldAfter \in Nat /\ StaleAfter \in Nat

VARIABLES
    part,
    nodes, ret,                         \* of RangeSet
    r, lastPushed, elapsed, pushedAt,   \* of Recent
    data, version, lastHeard, overtaken \* of LobbyListener

RangeSetM == INSTANCE RangeSet WITH MaxSeq <- RangeMaxSeq

RecentM == INSTANCE Recent WITH
    Cap <- RingCap, MaxSeq <- RingMaxSeq, Sizes <- RingSizes,
    MaxDelay <- RingMaxDelay, MaxBytes <- RingMaxBytes

ListenerM == INSTANCE LobbyListener WITH heard <- lastHeard

rangeSetVars == <<nodes, ret>>

recentVars == <<r, lastPushed, elapsed, pushedAt>>

listenerVars == <<data, version, lastHeard, overtaken>>

structureVars == <<rangeSetVars, recentVars, listenerVars>>

StructuresInit == RangeSetM!Init /\ RecentM!Init /\ ListenerM!Init

StructuresNext ==
    /\ part' = part
    /\ \/ part = "rangeset" /\ RangeSetM!Next /\ UNCHANGED <<recentVars, listenerVars>>
       \/ part = "recent" /\ RecentM!Next /\ UNCHANGED <<rangeSetVars, listenerVars>>
       \/ part = "listener" /\ ListenerM!Next /\ UNCHANGED <<rangeSetVars, recentVars>>

StructuresSpec == StructuresInit /\ [][StructuresNext]_<<part, structureVars>>
-----------------------------------------------------------------------------
(* The properties of the three, where they are stated and explained: the   *)
(* range set stays a sorted list of separate ranges and has the effect of  *)
(* union and difference, ...                                               *)
Canonical == part = "rangeset" => RangeSetM!Canonical

RangeSetRefines == RangeSetM!Refinement

(* ... the ring answers as a bounded queue would, and is one, ...          *)
AnswersExact == part = "recent" => RecentM!AnswersExact

RecentRefines == RecentM!Refinement

(* ... and the list of lobbies shows the latest Setup and announces every  *)
(* change.                                                                 *)
ShowsLatest == part = "listener" => ListenerM!ShowsLatest

VersionTells == ListenerM!VersionTells
=============================================================================
