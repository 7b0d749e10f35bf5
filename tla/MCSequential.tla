---------------------------- MODULE MCSequential ----------------------------
(***************************************************************************)
(* The sequential parts for TLC: the stream, the three structures, the     *)
(* history of package sequence, the set-up of sessions and the messages.   *)
(* They share no state, so a behaviour works on one of them and leaves the *)
(* others as they were made.                                               *)
(***************************************************************************)
EXTENDS Stream, Structures, TLC

CONSTANTS
    NodeSize, StoryMaxSeq, Sizes,                       \* of History
    Stories, Clients, Actors,                           \* of SetUp
    SessionToken, MaxClients, MaxStories,
    MaxOwnStories, MaxOwnActors, IntBits,
    ByteValues, SlotCap, StoryCap, ActorCap, Indexes,
    MaxUint8, Lens, MaxRows, MaxCut                     \* of Messages

VARIABLES
    h, limits,                          \* of History
    slots, session, own,                \* of SetUp
    type, msg, phase, wire, cut, got    \* of Messages

(* A history without limits, and with each of them. *)
Limits == {[count |-> c, delay |-> d, bytes |-> b] : c \in {0, 2}, d \in {0}, b \in {0, 3}}
             \cup {[count |-> 0, delay |-> 3, bytes |-> 0]}

HistoryM == INSTANCE History WITH MaxSeq <- StoryMaxSeq

SetUpM == INSTANCE SetUp WITH NoToken <- 0

MessagesM == INSTANCE Messages

historyVars == <<h, limits>>

setUpVars == <<slots, session, own>>

messageVars == <<type, msg, phase, wire, cut, got>>

sequenceVars == <<vars, structureVars, historyVars>>

udpstarVars == <<setUpVars, messageVars>>

allVars == <<part, sequenceVars, udpstarVars>>

AllInit ==
    /\ part \in {"stream", "rangeset", "recent", "history", "listener", "setup", "message"}
    /\ Init
    /\ part = "stream" \/ maxWait = 0
    /\ StructuresInit
    /\ HistoryM!Init
    /\ part = "history" \/ limits = [count |-> 0, delay |-> 0, bytes |-> 0]
    /\ SetUpM!Init
    /\ MessagesM!Init
    /\ part = "message" \/ type = "Ping"

AllNext ==
    \/ StructuresNext /\ UNCHANGED <<vars, historyVars, udpstarVars>>
    \/ part = "stream" /\ Next
       /\ UNCHANGED <<part, structureVars, historyVars, udpstarVars>>
    \/ part = "history" /\ HistoryM!Next
       /\ UNCHANGED <<part, vars, structureVars, udpstarVars>>
    \/ part = "setup" /\ SetUpM!Next /\ UNCHANGED <<part, sequenceVars, messageVars>>
    \/ part = "message" /\ MessagesM!Next /\ UNCHANGED <<part, sequenceVars, setUpVars>>

AllSpec == AllInit /\ [][AllNext]_allVars

LobbySymmetry == Permutations(Lobbies)
-----------------------------------------------------------------------------
(* The properties of the other parts, where they are stated and explained: *)
(* the history replays what it keeps, and keeps what its limits allow, ... *)
ReplaysExactly == part = "history" => HistoryM!ReplaysExactly

HistoryRefines == HistoryM!Refinement

(* ... both ends make the same session of a lobby, one that they can run,  *)
(* ...                                                                     *)
SetUpSound == part = "setup" => SetUpM!SetUpSound

(* ... and a message arrives as it was sent or not at all.                 *)
WireSound == part = "message" => MessagesM!WireSound
=============================================================================
