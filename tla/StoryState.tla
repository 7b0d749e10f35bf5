------------------------------ MODULE StoryState ------------------------------
(***************************************************************************)
(* The parameters and the state of StoryChannel, and the invariants that   *)
(* only look at the state.                                                 *)
(***************************************************************************)
EXTENDS StreamOps

CONSTANTS
    MaxEntries,    \* bound: how many entries the story has
    PackSize,      \* how many entries fit one message
    ConfirmRanges, \* LenStoryConfirm: how many ranges fit one StoryConfirm
    MaxInFlight    \* bound: packets in flight in each direction

ASSUME StoryConstants ==
    /\ MaxEntries \in Nat
    /\ {PackSize, ConfirmRanges, MaxInFlight} \subseteq Nat \ {0}

VARIABLES
    storySeq,      \* server: the story's enumerator; its history is 1..storySeq
    known,         \* server: the client's state is not New, it has an address
    storyPacks,    \* network: StoryPacks on their way
    storyConfirms, \* network: StoryConfirms on their way
    clientLast,    \* client: stream.lastSeq
    clientAhead,   \* client: stream.ahead
    missing,       \* client: storyStream.missing
    storyChannel   \* client: what was written to the story's channel
-----------------------------------------------------------------------------
(* The client's channel carries exactly a prefix of the story: every entry *)
(* once, in order, none left out, whatever the network and the overwritten *)
(* packs do.                                                               *)
PrefixOfStory ==
    /\ storyChannel = [k \in 1..clientLast |-> k]
    /\ clientLast <= storySeq

(* The client asks for no entry it has and no entry that does not exist.   *)
AsksForGaps ==
    /\ missing = GetMissing(clientLast, clientAhead)
    /\ missing \subseteq 1..storySeq
===============================================================================
