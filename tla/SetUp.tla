-------------------------------- MODULE SetUp --------------------------------
(***************************************************************************)
(* How a full lobby becomes the server's session and the session of each   *)
(* of its clients, and what Validate, StoryActors and makeLatencyData make *)
(* of a session, whether it comes from a lobby or from the application.    *)
(*                                                                         *)
(* The two ends make their sessions independently: the server from its     *)
(* slots, a client from the slots of the last Setup it got, in which the   *)
(* tokens of other players' actors are 0.  An actor is addressed by its    *)
(* story and its index there, so both ends must count alike.               *)
(*                                                                         *)
(* Names and configurations are left out.  ready stands for the channels   *)
(* and configurations that the application puts into a session.            *)
(***************************************************************************)
EXTENDS Integers, Sequences, FiniteSets

LOCAL SeqExt == INSTANCE SequencesExt
LOCAL SetExt == INSTANCE FiniteSetsExt

CONSTANTS
    Stories, Clients, Actors, \* the tokens
    SessionToken,             \* of the lobby and of the session
    NoToken,                  \* the token 0
    MaxClients, MaxStories,   \* 64 and 64 in the server's Validate
    MaxOwnStories, MaxOwnActors, \* 8 and 64 in the client's Validate
    IntBits,                  \* the bits of an int, 64
    ByteValues,               \* the values of a byte, 256
    SlotCap,                  \* bound: the slots of a lobby
    StoryCap, ActorCap, Indexes \* bounds: of a session the application makes

VARIABLES
    slots,    \* the slots of the lobby, which its players fill
    session,  \* the server's session
    own       \* the session of each client that the lobby has

vars == <<slots, session, own>>

Actor(a, story, idx) == [token |-> a, story |-> story, index |-> idx]

EmptySession == [token |-> NoToken, stories |-> << >>, local |-> << >>, clients |-> << >>, ready |-> FALSE]

Init ==
    /\ slots = << >>
    /\ session = EmptySession
    /\ own = << >>
-----------------------------------------------------------------------------
StoryOf(i) == slots[i].story

(* mutant: a version that counts on from story to story. *)
ServerIndexRunsOn(i) == i - 1

(* lobbyToSession counts from every slot whose story is not the last       *)
(* one's, in a byte.                                                       *)
ServerIndex(i) ==
    (i - SetExt!Max({j \in 1..i : j = 1 \/ StoryOf(j) # StoryOf(j - 1)})) % ByteValues

ActorAt(i) == Actor(slots[i].actor, StoryOf(i), ServerIndex(i))

ActorsOf(S) == SeqExt!FoldLeft(LAMBDA as, i : IF i \in S THEN Append(as, ActorAt(i)) ELSE as,
                               << >>, [i \in DOMAIN slots |-> i])

(* The clients in the order of their first slots. *)
ClientsInOrder ==
    SeqExt!FoldLeft(LAMBDA cs, s : IF s.client = NoToken \/ SeqExt!Contains(cs, s.client) THEN cs
                                   ELSE Append(cs, s.client),
                    << >>, slots)

LobbyToSession ==
    [token |-> SessionToken,
     stories |-> SeqExt!FoldLeft(LAMBDA st, s : IF st # << >> /\ SeqExt!Last(st) = s.story THEN st
                                                ELSE Append(st, s.story),
                                 << >>, slots),
     local |-> ActorsOf({i \in DOMAIN slots : slots[i].client = NoToken}),
     clients |-> [k \in DOMAIN ClientsInOrder |->
                    [token |-> ClientsInOrder[k],
                     actors |-> ActorsOf({i \in DOMAIN slots : slots[i].client = ClientsInOrder[k]})]],
     ready |-> FALSE]

(* The client's Lobby.Start counts from the first slot of every story. *)
ClientIndex(i) ==
    (i - SetExt!Max({j \in 1..i : \A k \in 1..(j - 1) : StoryOf(k) # StoryOf(j)})) % ByteValues

(* The session of client c, from a Setup in which the server has put only  *)
(* the tokens of the client's own actors.                                  *)
ClientSession(c) ==
    [token |-> SessionToken,
     stories |-> SeqExt!FoldLeft(LAMBDA st, s : IF SeqExt!Contains(st, s.story) THEN st
                                                ELSE Append(st, s.story),
                                 << >>, slots),
     actors |-> [i \in DOMAIN slots |->
                   Actor(IF slots[i].client = c THEN slots[i].actor ELSE NoToken, StoryOf(i), ClientIndex(i))],
     ready |-> FALSE]
-----------------------------------------------------------------------------
Members(seq) == SeqExt!ToSet(seq)

Distinct(seq) == \A i, j \in DOMAIN seq : i # j => seq[i] # seq[j]

Named(seq) == Distinct(seq) /\ NoToken \notin Members(seq)

Tokens(as) == [i \in DOMAIN as |-> as[i].token]

OfStory(as, y) == SelectSeq(as, LAMBDA a : a.story = y)

(* The actors of a server's session in the order in which it looks at them. *)
AllActors(s) == s.local \o SeqExt!FlattenSeq([k \in DOMAIN s.clients |-> s.clients[k].actors])

(* The bit masks of Validate: the places of a story are taken once each    *)
(* and from 0 on.  1 << Index is 0 for an Index of IntBits or more.        *)
PlacesFilled(as, y) ==
    LET seen == SelectSeq(OfStory(as, y), LAMBDA a : a.index < IntBits)
        bits == {seen[i].index : i \in DOMAIN seen}
    IN /\ Distinct([i \in DOMAIN seen |-> seen[i].index])
       /\ bits # {}
       /\ bits = 0..(Cardinality(bits) - 1)

KnownStories(as, stories) == \A i \in DOMAIN as : as[i].story \in Members(stories)

(* Validate of the server's Session. *)
ServerValidate(s) ==
    /\ s.token # NoToken
    /\ Len(s.clients) \in 1..MaxClients
    /\ Len(s.stories) \in 1..MaxStories
    /\ Named(s.stories)
    /\ Named(Tokens(s.local))
    /\ Named([k \in DOMAIN s.clients |-> s.clients[k].token])
    /\ \A k \in DOMAIN s.clients : Named(Tokens(s.clients[k].actors))
    /\ s.ready
    /\ KnownStories(AllActors(s), s.stories)
    /\ \A y \in Members(s.stories) : PlacesFilled(AllActors(s), y)

(* Validate of the client's Session, in which an actor may have no token. *)
ClientValidate(s) ==
    /\ s.token # NoToken
    /\ Len(s.stories) \in 1..MaxOwnStories
    /\ Len(s.actors) \in 1..MaxOwnActors
    /\ Named(s.stories)
    /\ Distinct(Tokens(SelectSeq(s.actors, LAMBDA a : a.token # NoToken)))
    /\ s.ready
    /\ KnownStories(s.actors, s.stories)
    /\ \A y \in Members(s.stories) : PlacesFilled(s.actors, y)

(* StoryActors: the actors of a story by index, or an error; the number of *)
(* them is a byte.                                                         *)
StoryActors(as, y) ==
    LET mine == OfStory(as, y)
        count == Len(mine) % ByteValues
    IN IF /\ Distinct([i \in DOMAIN mine |-> mine[i].index])
          /\ \A i \in DOMAIN mine : mine[i].index < count
       THEN [ok |-> TRUE, list |-> [i \in 1..count |-> CHOOSE a \in Members(mine) : a.index = i - 1]]
       ELSE [ok |-> FALSE, list |-> << >>]

(* makeLatencyData: a position, counted in a byte, for every actor token   *)
(* of every story; a later actor with the same key takes over the entry of *)
(* an earlier one.                                                         *)
Keys(s) ==
    SeqExt!FlattenSeq([k \in DOMAIN s.stories |->
        LET list == StoryActors(AllActors(s), s.stories[k]).list
        IN [i \in DOMAIN list |-> <<s.stories[k], list[i].token>>]])

ActorPos(s, key) == (SetExt!Max({i \in DOMAIN Keys(s) : Keys(s)[i] = key}) - 1) % ByteValues

LatencyCount(s) == Cardinality(Members(Keys(s)))
-----------------------------------------------------------------------------
(* A slot of the lobby and the player in it; the actors of a lobby differ. *)
AddSlot(y, c) ==
    /\ session = EmptySession
    /\ Len(slots) < SlotCap
    /\ slots' = Append(slots, [story |-> y, client |-> c, actor |-> Len(slots) + 1])
    /\ UNCHANGED <<session, own>>

(* FinishLobby, and the finish timer of every client of the lobby. *)
FinishLobby ==
    /\ session = EmptySession
    /\ slots # << >>
    /\ session' = LobbyToSession
    /\ own' = [c \in Members(ClientsInOrder) |-> ClientSession(c)]
    /\ UNCHANGED slots

(* The application makes a session itself: its stories, ... *)
AddStory(y) ==
    /\ slots = << >>
    /\ AllActors(session) = << >>
    /\ ~session.ready
    /\ Len(session.stories) < StoryCap
    /\ session' = [session EXCEPT !.stories = Append(@, y), !.token = SessionToken]
    /\ UNCHANGED <<slots, own>>

(* ... its local actors and those of its clients, ... *)
AddActor(place, a) ==
    /\ slots = << >>
    /\ session.stories # << >>
    /\ ~session.ready
    /\ Len(AllActors(session)) < ActorCap
    /\ session' =
         IF place = NoToken THEN [session EXCEPT !.local = Append(@, a)]
         ELSE LET ks == {k \in DOMAIN session.clients : session.clients[k].token = place}
              IN IF ks = {}
                 THEN [session EXCEPT !.clients = Append(@, [token |-> place, actors |-> <<a>>])]
                 ELSE [session EXCEPT !.clients[CHOOSE k \in ks : TRUE].actors = Append(@, a)]
    /\ UNCHANGED <<slots, own>>

(* ... and, whoever made the sessions, what they need at both ends. *)
Complete ==
    /\ session.stories # << >>
    /\ ~session.ready
    /\ session' = [session EXCEPT !.ready = TRUE]
    /\ own' = [c \in DOMAIN own |-> [own[c] EXCEPT !.ready = TRUE]]
    /\ UNCHANGED slots

Next ==
    \/ \E y \in Stories, c \in Clients \cup {NoToken} : AddSlot(y, c)
    \/ FinishLobby
    \/ \E y \in Stories : AddStory(y)
    \/ \E place \in Clients \cup {NoToken}, a \in Actors, y \in Stories, idx \in Indexes :
         AddActor(place, Actor(a, y, idx))
    \/ Complete

Spec == Init /\ [][Next]_vars
-----------------------------------------------------------------------------
(* LobbySetup.Validate bounds neither the slots nor the order of their     *)
(* stories.  A session is possible only if the slots of a story are        *)
(* neighbours, clients play, no more of them than the server takes, the    *)
(* stories are not too many for it, and a Setup, which has the number of   *)
(* slots in a byte, can name all of them.                                  *)
Playable ==
    /\ \A i, j, k \in DOMAIN slots : i < j /\ j < k /\ StoryOf(i) = StoryOf(k) => StoryOf(j) = StoryOf(i)
    /\ Len(ClientsInOrder) \in 1..MaxClients
    /\ Cardinality({StoryOf(i) : i \in DOMAIN slots}) <= MaxStories
    /\ Len(slots) < ByteValues

(* What a client can take: its session has an actor for every slot of the  *)
(* lobby, not only for its own.                                            *)
FitsClient ==
    /\ Cardinality({StoryOf(i) : i \in DOMAIN slots}) <= MaxOwnStories
    /\ Len(slots) <= MaxOwnActors

(* When such a lobby is finished and the sessions are completed, the       *)
(* server accepts its own; it and the clients have the same stories and    *)
(* give every actor of a client the same story and index; and a client     *)
(* accepts its session exactly if its own, narrower limits allow it: in a  *)
(* lobby between the limits the server plays with clients that refuse.     *)
SessionsAgree ==
    session.ready /\ slots # << >> /\ Playable =>
      /\ ServerValidate(session)
      /\ DOMAIN own = {session.clients[k].token : k \in DOMAIN session.clients}
      /\ \A k \in DOMAIN session.clients :
           LET mine == own[session.clients[k].token]
           IN /\ ClientValidate(mine) <=> FitsClient
              /\ mine.stories = session.stories
              /\ SelectSeq(mine.actors, LAMBDA a : a.token # NoToken) = session.clients[k].actors

Listable(s) == \A y \in Members(s.stories) : StoryActors(AllActors(s), y).ok

(* A session that Validate accepts can be run: StoryActors lists the       *)
(* actors of every story, provided their indexes fit its masks; and if the *)
(* tokens of a story's actors differ, which Validate asks for only within  *)
(* a client, every position in the latency report exists, and is that of   *)
(* one actor unless there are more actors than a byte counts.              *)
AcceptedUsable ==
    ServerValidate(session) =>
      /\ (\A i \in DOMAIN AllActors(session) : AllActors(session)[i].index < IntBits)
            => Listable(session)
      /\ Listable(session)
           /\ (\A y \in Members(session.stories) : Distinct(Tokens(OfStory(AllActors(session), y))))
           => LET keys == Members(Keys(session))
                  pos == [key \in keys |-> ActorPos(session, key)]
              IN /\ \A key \in keys : pos[key] < LatencyCount(session)
                 /\ LatencyCount(session) <= ByteValues =>
                      \A k1, k2 \in keys : pos[k1] = pos[k2] => k1 = k2

(* Set-ups are sound: both ends of a finished lobby agree, and what        *)
(* Validate lets through the rest of the server can use.                   *)
SetUpSound == SessionsAgree /\ AcceptedUsable
==============================================================================
