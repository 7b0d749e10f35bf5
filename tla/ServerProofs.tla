---------------------------- MODULE ServerProofs ----------------------------
(***************************************************************************)
(* What is proved of the server: of its lobbies, for any number of slots,  *)
(* clients, actors and FinishLobby calls, and of the maps of server.Server *)
(* for any number of services, tokens, clients and FinishLobby calls.      *)
(***************************************************************************)
EXTENDS Lobby, Registry, FiniteSetTheorems, TLAPS

(* What a slot can look like: it is free exactly when it holds no actor.   *)
LEMMA SlotForms ==
    ASSUME NEW s \in LobbySlot
    PROVE  /\ s = Free <=> s.kind = "free"
           /\ s = Free <=> s.actor = NoToken
           /\ s.client \in Clients \cup {NoToken}
           /\ s.kind = "remote" => s.client \in Clients
  BY LobbyConstants DEF LobbySlot, Free, Local, Remote, Actors

(* Clearing slots, and giving one to an actor, keeps them well formed.     *)
LEMMA SlotsStep ==
    ASSUME slots \in [Slots -> LobbySlot]
    PROVE  /\ \A a : WithoutActor(a) \in [Slots -> LobbySlot]
           /\ \A c : WithoutClient(c) \in [Slots -> LobbySlot]
           /\ \A sl \in [Slots -> LobbySlot], i \in Slots :
                /\ [sl EXCEPT ![i] = Free] \in [Slots -> LobbySlot]
                /\ \A a \in LocalActors : [sl EXCEPT ![i] = Local(a)] \in [Slots -> LobbySlot]
                /\ \A a \in RemoteActors, c \in Clients :
                     [sl EXCEPT ![i] = Remote(a, c)] \in [Slots -> LobbySlot]
  BY DEF WithoutActor, WithoutClient, LobbySlot

(* What every command that changed something leaves behind.                *)
LEMMA AfterStep ==
    ASSUME TypeOK, NEW changed \in BOOLEAN, After(changed)
    PROVE  /\ timer' \in BOOLEAN /\ open' \in BOOLEAN /\ told' \in BOOLEAN
           /\ fin' \in [Callers -> -1..5]
           /\ fresh' \in [Callers -> BOOLEAN]
           /\ intact' \in [Callers -> BOOLEAN]
           /\ changed => \A f \in Callers : ~fresh'[f]
  BY DEF TypeOK, After

LEMMA StateOfType == \A sl : StateOf(sl) \in States
  BY DEF StateOf, States

LEMMA TypeInit == Init => TypeOK
<1> SUFFICES ASSUME Init PROVE TypeOK
  OBVIOUS
<1>1. slots \in [Slots -> LobbySlot]
  BY DEF Init, LobbySlot
<1>2. count \in [Clients -> Int] /\ fin \in [Callers -> -1..5]
  BY DEF Init
<1> QED
  BY <1>1, <1>2 DEF Init, TypeOK, States

(* Each command keeps the types. *)
LEMMA TypeStep == TypeOK /\ [Next]_vars => TypeOK'
<1> SUFFICES ASSUME TypeOK, [Next]_vars PROVE TypeOK'
  OBVIOUS
<1> USE DEF Update
<1>1. ASSUME NEW a \in LocalActors, LocalLeave(a) PROVE TypeOK'
  <2>1. slots' \in [Slots -> LobbySlot] /\ state' \in States
    BY <1>1, SlotsStep, StateOfType DEF TypeOK, LocalLeave, States
  <2> QED
    BY <1>1, <2>1, AfterStep DEF TypeOK, LocalLeave
<1>2. ASSUME NEW a \in LocalActors, NEW i \in Slots, LocalJoin(a, i) PROVE TypeOK'
  <2>1. slots' \in [Slots -> LobbySlot] /\ state' \in States
    BY <1>2, SlotsStep, StateOfType DEF TypeOK, LocalJoin, States
  <2> QED
    BY <1>2, <2>1, AfterStep DEF TypeOK, LocalJoin
<1>3. ASSUME NEW a \in RemoteActors, NEW c \in Clients, RemoteLeave(a, c) PROVE TypeOK'
  <2>1. slots' \in [Slots -> LobbySlot] /\ state' \in States
    BY <1>3, SlotsStep, StateOfType DEF TypeOK, RemoteLeave, States
  <2>2. count' \in [Clients -> Int] /\ known' \subseteq Clients
    BY <1>3 DEF TypeOK, RemoteLeave
  <2> QED
    BY <1>3, <2>1, <2>2, AfterStep DEF TypeOK, RemoteLeave
<1>4. ASSUME NEW a \in RemoteActors, NEW c \in Clients, NEW i \in Slots, JoinNew(a, c, i)
      PROVE  TypeOK'
  <2>1. slots' \in [Slots -> LobbySlot] /\ state' \in States
    BY <1>4, SlotsStep, StateOfType DEF TypeOK, JoinNew, States
  <2>2. count' \in [Clients -> Int] /\ known' \subseteq Clients
    BY <1>4 DEF TypeOK, JoinNew
  <2> QED
    BY <1>4, <2>1, <2>2, AfterStep DEF TypeOK, JoinNew
<1>5. ASSUME NEW a \in RemoteActors, NEW c \in Clients, NEW i \in Slots, JoinAgain(a, c, i)
      PROVE  TypeOK'
  <2>1. PICK j \in Slots : Update([slots EXCEPT ![j] = Free, ![i] = Remote(a, c)],
                             StateOf([slots EXCEPT ![j] = Free, ![i] = Remote(a, c)]))
    BY <1>5 DEF JoinAgain, SeatFor, Seats
  <2>2. slots' \in [Slots -> LobbySlot] /\ state' \in States
    BY <2>1, SlotsStep, StateOfType DEF TypeOK
  <2> QED
    BY <1>5, <2>2, AfterStep DEF TypeOK, JoinAgain
<1>6. ASSUME NEW a \in RemoteActors, NEW c \in Clients, NEW i \in Slots, JoinFromOther(a, c, i)
      PROVE  TypeOK'
  <2>1. PICK j \in Slots :
          /\ Update([WithoutClient(slots[j].client) EXCEPT ![i] = Remote(a, c)],
                    StateOf([WithoutClient(slots[j].client) EXCEPT ![i] = Remote(a, c)]))
          /\ known' = (known \ {slots[j].client}) \cup {c}
          /\ count' = [count EXCEPT ![slots[j].client] = 0, ![c] = @ + 1]
    BY <1>6 DEF JoinFromOther, SeatFor, Seats
  <2>2. slots' \in [Slots -> LobbySlot] /\ state' \in States
    BY <2>1, SlotsStep, StateOfType DEF TypeOK
  <2>3. count' \in [Clients -> Int]
    BY <2>1 DEF TypeOK
  <2> QED
    BY <1>6, <2>1, <2>2, <2>3, AfterStep DEF TypeOK, JoinFromOther
<1>7. ASSUME NEW c \in Clients, LeaveAll(c) PROVE TypeOK'
  <2>1. slots' \in [Slots -> LobbySlot] /\ state' \in States
    BY <1>7, SlotsStep, StateOfType DEF TypeOK, LeaveAll, States
  <2>2. count' \in [Clients -> Int] /\ known' \subseteq Clients
    BY <1>7 DEF TypeOK, LeaveAll
  <2> QED
    BY <1>7, <2>1, <2>2, AfterStep DEF TypeOK, LeaveAll
<1>8. ASSUME NEW c \in Clients, EvictClient(c) PROVE TypeOK'
  <2>1. slots' \in [Slots -> LobbySlot] /\ state' \in States
    BY <1>8, SlotsStep, StateOfType DEF TypeOK, EvictClient, States
  <2>2. count' \in [Clients -> Int] /\ known' \subseteq Clients
    BY <1>8 DEF TypeOK, EvictClient
  <2> QED
    BY <1>8, <2>1, <2>2, AfterStep DEF TypeOK, EvictClient
<1>9. ASSUME NEW c \in Clients, RemoteRequest(c) PROVE TypeOK'
  BY <1>9, AfterStep DEF TypeOK, RemoteRequest
<1>10. ASSUME NEW a \in Actors \cup {NoToken}, EvictActor(a) PROVE TypeOK'
  <2>1. PICK i \in Slots :
          /\ count' = IF slots[i].kind = "remote" THEN [count EXCEPT ![slots[i].client] = @ - 1]
                      ELSE count
          /\ known' = IF slots[i].kind = "remote" THEN known \cup {slots[i].client} ELSE known
          /\ Update(WithoutActor(a), "Active")
    BY <1>10 DEF EvictActor, Seats
  <2>2. slots[i].kind = "remote" => slots[i].client \in Clients
    BY SlotForms DEF TypeOK
  <2>3. count' \in [Clients -> Int] /\ known' \subseteq Clients
    BY <2>1, <2>2 DEF TypeOK
  <2> QED
    BY <1>10, <2>1, <2>3, AfterStep, SlotsStep DEF TypeOK, EvictActor, States
<1>11. ASSUME ChangeName PROVE TypeOK'
  BY <1>11, AfterStep DEF TypeOK, ChangeName, lobbyVars
<1>12. ASSUME Broadcast PROVE TypeOK'
  <2>1. PICK silent : /\ known' = known \ silent
                      /\ count' = [c \in Clients |-> IF c \in silent THEN 0 ELSE count[c]]
    BY <1>12 DEF Broadcast
  <2>2. count' \in [Clients -> Int] /\ known' \subseteq Clients
    BY <2>1 DEF TypeOK
  <2> QED
    BY <1>12, <2>2, LobbyConstants DEF TypeOK, Broadcast
<1>13. ASSUME StopLobby PROVE TypeOK'
  BY <1>13 DEF TypeOK, StopLobby, lobbyVars
<1>14. ASSUME NEW f \in Callers, FinishGet(f) PROVE TypeOK'
  BY <1>14 DEF TypeOK, FinishGet, lobbyVars
<1>15. ASSUME NEW f \in Callers, Finish(f) PROVE TypeOK'
  <2>1. state' \in States
    BY <1>15 DEF TypeOK, Finish, CanFinish, NextStarting, States
  <2> QED
    BY <1>15, <2>1 DEF TypeOK, Finish
<1>16. ASSUME NEW f \in Callers, FinishGivesUp(f) PROVE TypeOK'
  BY <1>16 DEF TypeOK, FinishGivesUp, lobbyVars
<1>17. ASSUME NEW f \in Callers, CancelLobby(f) PROVE TypeOK'
  <2>1. fin' \in [Callers -> -1..5]
    BY <1>17 DEF TypeOK, CancelLobby
  <2>2. open' \in BOOLEAN
    BY <1>17 DEF CancelLobby
  <2> QED
    BY <1>17, <2>1, <2>2 DEF TypeOK, CancelLobby, lobbyVars
<1>18. CASE UNCHANGED vars
  BY <1>18 DEF TypeOK, vars, lobbyVars
<1> QED
  BY <1>1, <1>2, <1>3, <1>4, <1>5, <1>6, <1>7, <1>8, <1>9, <1>10, <1>11, <1>12, <1>13,
     <1>14, <1>15, <1>16, <1>17, <1>18 DEF Next

(* TypeOK: the slots, the clients' counters and the count-downs of         *)
(* lobbyService keep their types.                                          *)
THEOREM TypeCorrect == Spec => []TypeOK
  BY TypeInit, TypeStep, PTL DEF Spec
-----------------------------------------------------------------------------
(* In a well-formed lobby without doubles an actor that sits anywhere sits *)
(* where the loops find it first.                                          *)
LEMMA SeatFound ==
    ASSUME TypeOK, OneSlotPerActor, NEW a \in Actors, NEW i \in Slots, slots[i].actor = a
    PROVE  i \in Seats(a) /\ \A j \in Slots : slots[j].actor = a => j = i
<1>1. slots[i] # Free
  BY LobbyConstants DEF Free
<1>2. \A j \in Slots : slots[j].actor = a => j = i
  BY <1>1 DEF OneSlotPerActor
<1>3. \A j \in Slots : j < i => j # i
  BY LobbyConstants DEF Slots
<1> QED
  BY <1>2, <1>3 DEF Seats, IsSeat

(* Clearing slots makes no doubles. *)
LEMMA ClearedApart ==
    ASSUME TypeOK, OneSlotPerActor, \A j \in Slots : slots'[j] = slots[j] \/ slots'[j] = Free
    PROVE  OneSlotPerActor'
<1> SUFFICES ASSUME NEW i \in Slots, NEW j \in Slots, slots'[i].actor = slots'[j].actor
             PROVE  i = j \/ slots'[i] = Free
  BY DEF OneSlotPerActor
<1>1. CASE slots'[j] = Free
  <2>1. slots'[i].actor = NoToken
    BY <1>1 DEF Free
  <2>2. slots[i] \in LobbySlot
    BY DEF TypeOK
  <2> QED
    BY <2>1, <2>2, SlotForms
<1>2. CASE slots'[j] = slots[j] /\ slots'[i] = slots[i]
  BY <1>2 DEF OneSlotPerActor
<1> QED
  BY <1>1, <1>2

(* Nor does giving a slot to an actor that is cleared from all others. *)
LEMMA SeatedApart ==
    ASSUME TypeOK, OneSlotPerActor, NEW a \in Actors, NEW i \in Slots, NEW x, x.actor = a,
           NEW sl \in [Slots -> LobbySlot],
           \A j \in Slots : sl[j] = slots[j] \/ sl[j] = Free,
           \A j \in Slots : j # i => sl[j].actor # a,
           slots' = [sl EXCEPT ![i] = x]
    PROVE  OneSlotPerActor'
<1> SUFFICES ASSUME NEW k \in Slots, NEW j \in Slots, slots'[k].actor = slots'[j].actor
             PROVE  k = j \/ slots'[k] = Free
  BY DEF OneSlotPerActor
<1>1. CASE k = i \/ j = i
  BY <1>1
<1>2. CASE k # i /\ j # i
  <2>1. slots'[k] = sl[k] /\ slots'[j] = sl[j]
    BY <1>2
  <2>2. CASE sl[j] = Free
    <3>1. sl[k].actor = NoToken
      BY <2>1, <2>2 DEF Free
    <3> QED
      BY <2>1, <3>1, SlotForms
  <2>3. CASE sl[j] = slots[j] /\ sl[k] = slots[k]
    BY <2>1, <2>3 DEF OneSlotPerActor
  <2> QED
    BY <2>1, <2>2, <2>3
<1> QED
  BY <1>1, <1>2

(* Each command keeps the actors apart. *)
LEMMA ApartStep == TypeOK /\ OneSlotPerActor /\ [Next]_vars => OneSlotPerActor'
<1> SUFFICES ASSUME TypeOK, OneSlotPerActor, [Next]_vars PROVE OneSlotPerActor'
  OBVIOUS
<1> USE DEF Update
<1>0. slots \in [Slots -> LobbySlot]
  BY DEF TypeOK
<1>1. ASSUME NEW a, slots' = WithoutActor(a) PROVE OneSlotPerActor'
  BY <1>0, <1>1, ClearedApart DEF WithoutActor
<1>2. ASSUME NEW c, slots' = WithoutClient(c) PROVE OneSlotPerActor'
  BY <1>0, <1>2, ClearedApart DEF WithoutClient
<1>3. ASSUME slots' = slots PROVE OneSlotPerActor'
  BY <1>3 DEF OneSlotPerActor
<1>4. ASSUME NEW a \in LocalActors, NEW i \in Slots, LocalJoin(a, i) PROVE OneSlotPerActor'
  <2> DEFINE sl == IF IsAvailable(i) THEN WithoutActor(a) ELSE slots
  <2>1. a \in Actors /\ Local(a).actor = a
    BY DEF Actors, Local
  <2>2. slots' = [sl EXCEPT ![i] = Local(a)]
    BY <1>4 DEF LocalJoin
  <2>3. sl \in [Slots -> LobbySlot]
    BY <1>0, SlotsStep
  <2>4. \A j \in Slots : sl[j] = slots[j] \/ sl[j] = Free
    BY DEF WithoutActor
  <2>5. ASSUME NEW j \in Slots, j # i PROVE sl[j].actor # a
    <3>1. CASE IsAvailable(i)
      <4>1. ASSUME slots[j].actor = a PROVE sl[j] = Free
        <5>1. IsSeat(j, a)
          BY <2>1, <4>1, SeatFound DEF Seats
        <5> QED
          BY <3>1, <5>1 DEF WithoutActor
      <4> QED
        BY <2>1, <2>4, <4>1, LobbyConstants DEF Free
    <3>2. CASE ~IsAvailable(i)
      <4>1. slots[i].actor = a
        BY <1>4, <3>2 DEF LocalJoin
      <4> QED
        BY <2>1, <2>5, <3>2, <4>1, SeatFound
    <3> QED
      BY <3>1, <3>2
  <2> HIDE DEF sl
  <2> QED
    BY <2>1, <2>2, <2>3, <2>4, <2>5, SeatedApart
<1>5. ASSUME NEW a \in RemoteActors, NEW c \in Clients, NEW i \in Slots, JoinNew(a, c, i)
      PROVE  OneSlotPerActor'
  <2>1. a \in Actors /\ Remote(a, c).actor = a
    BY DEF Actors, Remote
  <2>2. \A j \in Slots : slots[j].actor # a
    BY <1>5, <2>1, SeatFound DEF JoinNew
  <2>3. slots' = [slots EXCEPT ![i] = Remote(a, c)]
    BY <1>5 DEF JoinNew
  <2> DEFINE sl == slots
  <2>4. /\ sl \in [Slots -> LobbySlot]
        /\ \A j \in Slots : sl[j] = slots[j] \/ sl[j] = Free
        /\ \A j \in Slots : j # i => sl[j].actor # a
    BY <1>0, <2>2
  <2>5. slots' = [sl EXCEPT ![i] = Remote(a, c)]
    BY <2>3
  <2> HIDE DEF sl
  <2> QED
    BY <2>1, <2>4, <2>5, SeatedApart
<1>6. ASSUME NEW a \in RemoteActors, NEW c \in Clients, NEW i \in Slots, JoinAgain(a, c, i)
      PROVE  OneSlotPerActor'
  <2>1. a \in Actors /\ Remote(a, c).actor = a
    BY DEF Actors, Remote
  <2>2. PICK j \in SeatFor(a, i) : slots' = [slots EXCEPT ![j] = Free, ![i] = Remote(a, c)]
    BY <1>6 DEF JoinAgain
  <2>3. j \in Slots /\ slots[j].actor = a
    BY DEF SeatFor, Seats, IsSeat
  <2> DEFINE sl == [slots EXCEPT ![j] = Free]
  <2>4. sl \in [Slots -> LobbySlot] /\ \A k \in Slots : sl[k] = slots[k] \/ sl[k] = Free
    BY <1>0, <2>3, SlotsStep
  <2>5. ASSUME NEW k \in Slots PROVE sl[k].actor # a
    <3>1. CASE k = j
      BY <1>0, <2>1, <3>1, LobbyConstants DEF Free
    <3>2. CASE k # j
      BY <1>0, <2>1, <2>3, <3>2, SeatFound
    <3> QED
      BY <3>1, <3>2
  <2>6. slots' = [sl EXCEPT ![i] = Remote(a, c)]
    BY <2>2
  <2> HIDE DEF sl
  <2> QED
    BY <2>1, <2>4, <2>5, <2>6, SeatedApart, ZenonT(60)
<1>7. ASSUME NEW a \in RemoteActors, NEW c \in Clients, NEW i \in Slots, JoinFromOther(a, c, i)
      PROVE  OneSlotPerActor'
  <2>1. a \in Actors /\ Remote(a, c).actor = a
    BY DEF Actors, Remote
  <2>2. PICK j \in SeatFor(a, i) :
          slots' = [WithoutClient(slots[j].client) EXCEPT ![i] = Remote(a, c)]
    BY <1>7 DEF JoinFromOther
  <2>3. j \in Slots /\ slots[j].actor = a
    BY DEF SeatFor, Seats, IsSeat
  <2> DEFINE sl == WithoutClient(slots[j].client)
  <2>4. sl \in [Slots -> LobbySlot] /\ \A k \in Slots : sl[k] = slots[k] \/ sl[k] = Free
    BY <1>0, SlotsStep DEF WithoutClient
  <2>5. ASSUME NEW k \in Slots PROVE sl[k].actor # a
    <3>1. CASE k = j
      BY <2>1, <2>3, <3>1, LobbyConstants DEF Free, WithoutClient
    <3>2. CASE k # j
      <4>1. slots[k].actor # a
        BY <2>1, <2>3, <3>2, SeatFound
      <4> QED
        BY <2>1, <4>1, LobbyConstants DEF Free, WithoutClient
    <3> QED
      BY <3>1, <3>2
  <2>6. slots' = [sl EXCEPT ![i] = Remote(a, c)]
    BY <2>2
  <2> HIDE DEF sl
  <2> QED
    BY <2>1, <2>4, <2>5, <2>6, SeatedApart, ZenonT(60)
<1>8. ASSUME NEW a \in RemoteActors, NEW c \in Clients, RemoteLeave(a, c) PROVE OneSlotPerActor'
  <2>1. PICK i \in Slots : slots' = [slots EXCEPT ![i] = Free]
    BY <1>8 DEF RemoteLeave
  <2> QED
    BY <1>0, <2>1, ClearedApart
<1>9. ASSUME NEW c \in Clients, LeaveAll(c) \/ EvictClient(c) \/ RemoteRequest(c)
      PROVE  OneSlotPerActor'
  BY <1>2, <1>3, <1>9 DEF LeaveAll, EvictClient, RemoteRequest
<1>10. ASSUME NEW a, LocalLeave(a) \/ EvictActor(a) PROVE OneSlotPerActor'
  BY <1>1, <1>10 DEF LocalLeave, EvictActor
<1>11. CASE ChangeName \/ Broadcast \/ StopLobby \/ UNCHANGED vars
  BY <1>3, <1>11 DEF ChangeName, Broadcast, StopLobby, vars, lobbyVars
<1>12. ASSUME NEW f \in Callers,
              FinishGet(f) \/ Finish(f) \/ FinishGivesUp(f) \/ CancelLobby(f)
       PROVE  OneSlotPerActor'
  BY <1>3, <1>12 DEF FinishGet, Finish, FinishGivesUp, CancelLobby, lobbyVars
<1> QED
  BY <1>4, <1>5, <1>6, <1>7, <1>8, <1>9, <1>10, <1>11, <1>12 DEF Next

(* OneSlotPerActor: however joins are repeated, moved to other slots or    *)
(* sent through other clients, no actor ever holds two slots.              *)
THEOREM ActorsApart == Spec => []OneSlotPerActor
<1>1. Init => OneSlotPerActor
  BY DEF Init, OneSlotPerActor
<1> QED
  BY <1>1, TypeInit, TypeStep, ApartStep, PTL DEF Spec
-----------------------------------------------------------------------------
(* The parts of the lobby's state that the count-downs rest on: the state  *)
(* tells whether a slot is free, a call whose version is still expected    *)
(* finds the state where it left it, and it has seen these very slots.     *)
Whole == \A f \in Callers : fin[f] \in 0..3 /\ fresh[f] => intact[f]

IndInv == TypeOK /\ ReadyIffFull /\ OneCountdown /\ Whole

(* updateState tells whether a slot is free. *)
LEMMA StateOfFull ==
    ASSUME NEW sl \in [Slots -> LobbySlot]
    PROVE  StateOf(sl) = "Active" <=> \E i \in Slots : sl[i] = Free
  BY SlotForms DEF StateOf

(* Whoever leaves, leaves a free slot behind. *)
LEMMA LeavesFree ==
    ASSUME TypeOK
    PROVE  /\ \A a : Seats(a) # {} => \E i \in Slots : WithoutActor(a)[i] = Free
           /\ \A c : (\E i \in Slots : slots[i].client = c)
                       => \E i \in Slots : WithoutClient(c)[i] = Free
           /\ \A c : ~(\E i \in Slots : slots[i].client = c) => WithoutClient(c) = slots
  BY DEF TypeOK, Seats, WithoutActor, WithoutClient

(* Each command keeps the state and the slots in agreement. *)
LEMMA ReadyStep == TypeOK /\ ReadyIffFull /\ [Next]_vars => ReadyIffFull'
<1> SUFFICES ASSUME TypeOK, ReadyIffFull, [Next]_vars PROVE ReadyIffFull'
  OBVIOUS
<1> USE DEF Update
<1>0. slots' \in [Slots -> LobbySlot]
  BY TypeStep DEF TypeOK
<1>1. ASSUME state' = StateOf(slots') PROVE ReadyIffFull'
  BY <1>0, <1>1, StateOfFull DEF ReadyIffFull
<1>2. ASSUME state' = "Active", \E i \in Slots : slots'[i] = Free PROVE ReadyIffFull'
  BY <1>2 DEF ReadyIffFull
<1>3. ASSUME slots' = slots, state' = "Active" <=> state = "Active" PROVE ReadyIffFull'
  BY <1>3 DEF ReadyIffFull
<1>4. ASSUME NEW a, NEW i \in Slots, LocalJoin(a, i) PROVE ReadyIffFull'
  BY <1>1, <1>4 DEF LocalJoin
<1>5. ASSUME NEW a, NEW c, NEW i \in Slots,
             JoinNew(a, c, i) \/ JoinAgain(a, c, i) \/ JoinFromOther(a, c, i)
      PROVE  ReadyIffFull'
  BY <1>1, <1>5 DEF JoinNew, JoinAgain, JoinFromOther
<1>6. ASSUME NEW a, LocalLeave(a) \/ EvictActor(a) PROVE ReadyIffFull'
  BY <1>2, <1>6, LeavesFree DEF LocalLeave, EvictActor
<1>7. ASSUME NEW a, NEW c, RemoteLeave(a, c) PROVE ReadyIffFull'
  <2>1. PICK i \in Slots : Update([slots EXCEPT ![i] = Free], "Active")
    BY <1>7 DEF RemoteLeave
  <2>2. slots'[i] = Free
    BY <2>1 DEF TypeOK
  <2> QED
    BY <1>2, <2>1, <2>2
<1>8. ASSUME NEW c, LeaveAll(c) PROVE ReadyIffFull'
  BY <1>2, <1>8, LeavesFree DEF LeaveAll
<1>9. ASSUME NEW c, EvictClient(c) PROVE ReadyIffFull'
  BY <1>2, <1>3, <1>9, LeavesFree DEF EvictClient
<1>10. ASSUME NEW c, RemoteRequest(c) PROVE ReadyIffFull'
  BY <1>3, <1>10 DEF RemoteRequest
<1>11. CASE ChangeName \/ Broadcast \/ StopLobby \/ UNCHANGED vars
  BY <1>3, <1>11 DEF ChangeName, Broadcast, StopLobby, vars, lobbyVars
<1>12. ASSUME NEW f \in Callers, Finish(f) PROVE ReadyIffFull'
  <2>1. state # "Active" /\ state' # "Active"
    BY <1>12 DEF Finish, CanFinish, NextStarting, TypeOK, States
  <2> QED
    BY <1>3, <1>12, <2>1 DEF Finish
<1>13. ASSUME NEW f \in Callers, FinishGet(f) \/ FinishGivesUp(f) \/ CancelLobby(f)
       PROVE  ReadyIffFull'
  BY <1>3, <1>13 DEF FinishGet, FinishGivesUp, CancelLobby, lobbyVars
<1> QED
  BY <1>4, <1>5, <1>6, <1>7, <1>8, <1>9, <1>10, <1>11, <1>12, <1>13 DEF Next

(* ReadyIffFull: lobbyService.state is "active" exactly while a slot is    *)
(* free, whichever command changed the slots.                              *)
THEOREM StateTellsFull == Spec => []ReadyIffFull
<1>1. Init => ReadyIffFull
  BY LobbyConstants DEF Init, ReadyIffFull, Slots
<1> QED
  BY <1>1, TypeInit, TypeStep, ReadyStep, PTL DEF Spec

(* SlotsSound: both of them, what FinishLobby relies on when it counts     *)
(* down and makes a session of the slots.                                  *)
THEOREM SlotsAreSound == Spec => []SlotsSound
<1>1. OneSlotPerActor /\ ReadyIffFull => SlotsSound
  BY DEF SlotsSound
<1> QED
  BY <1>1, ActorsApart, StateTellsFull, PTL
-----------------------------------------------------------------------------
(* A command either is no change, and leaves slots, state and versions     *)
(* alone, or makes every expected version stale.                           *)
LEMMA CommandOrFinish ==
    ASSUME TypeOK, [Next]_vars
    PROVE  \/ fin' = fin /\ \A f \in Callers : ~fresh'[f]
           \/ UNCHANGED <<slots, state, fin, fresh, intact>>
           \/ \E f \in Callers : FinishGet(f) \/ Finish(f) \/ FinishGivesUp(f) \/ CancelLobby(f)
<1> DEFINE Goal == \/ fin' = fin /\ \A f \in Callers : ~fresh'[f]
                   \/ UNCHANGED <<slots, state, fin, fresh, intact>>
                   \/ \E f \in Callers : \/ FinishGet(f) \/ Finish(f)
                                         \/ FinishGivesUp(f) \/ CancelLobby(f)
<1>1. ASSUME After(TRUE) PROVE Goal
  BY <1>1, AfterStep DEF After
<1>2. ASSUME After(FALSE), slots' = slots, state' = state PROVE Goal
  <2>1. fresh' = fresh /\ intact' = intact
    BY <1>2 DEF TypeOK, After
  <2> QED
    BY <1>2, <2>1 DEF After
<1> HIDE DEF Goal
<1>3. ASSUME NEW a, NEW i, LocalJoin(a, i) PROVE Goal
  BY <1>1, <1>3 DEF LocalJoin
<1>4. ASSUME NEW a, LocalLeave(a) \/ EvictActor(a) PROVE Goal
  BY <1>1, <1>4 DEF LocalLeave, EvictActor
<1>5. ASSUME NEW a, NEW c, NEW i,
              JoinNew(a, c, i) \/ JoinAgain(a, c, i) \/ JoinFromOther(a, c, i)
       PROVE  Goal
  BY <1>1, <1>5 DEF JoinNew, JoinAgain, JoinFromOther
<1>6. ASSUME NEW a, NEW c, RemoteLeave(a, c) PROVE Goal
  BY <1>1, <1>6 DEF RemoteLeave
<1>7. ASSUME NEW c, LeaveAll(c) \/ RemoteRequest(c) PROVE Goal
  BY <1>1, <1>7 DEF LeaveAll, RemoteRequest
<1>8. ASSUME ChangeName PROVE Goal
  BY <1>1, <1>8 DEF ChangeName
<1>9. ASSUME NEW c, EvictClient(c) PROVE Goal
  <2>1. CASE \E i \in Slots : slots[i].client = c
    BY <1>1, <1>9, <2>1 DEF EvictClient
  <2>2. CASE ~\E i \in Slots : slots[i].client = c
    BY <1>2, <1>9, <2>2, LeavesFree DEF EvictClient, Update
  <2> QED
    BY <2>1, <2>2
<1>10. ASSUME Broadcast \/ StopLobby \/ UNCHANGED vars PROVE Goal
  BY <1>10 DEF Broadcast, StopLobby, vars, lobbyVars, Goal
<1>11. ASSUME NEW f \in Callers, FinishGet(f) \/ Finish(f) \/ FinishGivesUp(f) \/ CancelLobby(f)
       PROVE  Goal
  BY <1>11 DEF Goal
<1>12. Goal
  BY <1>3, <1>4, <1>5, <1>6, <1>7, <1>8, <1>9, <1>10, <1>11 DEF Next
<1> QED
  BY <1>12 DEF Goal

(* The invariant is inductive. *)
LEMMA IndStep == IndInv /\ [Next]_vars => IndInv'
<1> SUFFICES ASSUME IndInv, [Next]_vars PROVE IndInv'
  OBVIOUS
<1>1. TypeOK' /\ ReadyIffFull'
  BY TypeStep, ReadyStep DEF IndInv
<1>2. ASSUME \A f \in Callers : ~fresh'[f] PROVE OneCountdown' /\ Whole'
  BY <1>2 DEF OneCountdown, Whole
<1>3. ASSUME UNCHANGED <<slots, state, fin, fresh, intact>> PROVE OneCountdown' /\ Whole'
  BY <1>3 DEF IndInv, OneCountdown, Whole
<1>4. ASSUME NEW f \in Callers, FinishGet(f) PROVE OneCountdown' /\ Whole'
  <2>1. ASSUME NEW g \in Callers, fin[g] \in 0..3, fresh[g] PROVE fin[g] = 0
    BY <1>4, <2>1 DEF IndInv, OneCountdown, FinishGet
  <2>2. /\ state' = "Ready" /\ fin' = [fin EXCEPT ![f] = 0]
        /\ fresh' = [fresh EXCEPT ![f] = TRUE] /\ intact' = [intact EXCEPT ![f] = TRUE]
    BY <1>4 DEF FinishGet, lobbyVars
  <2>3. ASSUME NEW g \in Callers, fin'[g] \in 0..3, fresh'[g] PROVE fin'[g] = 0 /\ intact'[g]
    <3>1. CASE g = f
      BY <2>2, <3>1 DEF IndInv, TypeOK
    <3>2. CASE g # f
      BY <2>1, <2>2, <2>3, <3>2 DEF IndInv, TypeOK, Whole
    <3> QED
      BY <3>1, <3>2
  <2> QED
    BY <2>2, <2>3 DEF OneCountdown, Whole
<1>5. ASSUME NEW f \in Callers, Finish(f) PROVE OneCountdown' /\ Whole'
  <2>1. /\ fin[f] \in 0..3 /\ fresh[f] /\ state' = NextStarting[state]
        /\ fin' = [fin EXCEPT ![f] = @ + 1] /\ fresh' = [g \in Callers |-> g = f]
        /\ intact' = intact
    BY <1>5 DEF Finish, CanFinish
  <2>2. intact[f]
    BY <2>1 DEF IndInv, Whole
  <2>3. fin'[f] = fin[f] + 1
    BY <2>1 DEF IndInv, TypeOK
  <2>4. fin'[f] \in 0..3
          => state' = <<"Ready", "Starting3", "Starting2", "Starting1">>[fin'[f] + 1]
    BY <2>1, <2>3 DEF IndInv, OneCountdown, NextStarting
  <2>5. \A g \in Callers : fresh'[g] => g = f
    BY <2>1
  <2> QED
    BY <2>1, <2>2, <2>4, <2>5 DEF OneCountdown, Whole
<1>6. ASSUME NEW f \in Callers, FinishGivesUp(f) PROVE OneCountdown' /\ Whole'
  <2>1. /\ fin' = [fin EXCEPT ![f] = -1] /\ fresh' = [fresh EXCEPT ![f] = FALSE]
        /\ intact' = [intact EXCEPT ![f] = FALSE] /\ state' = state
    BY <1>6 DEF FinishGivesUp, lobbyVars
  <2>2. \A g \in Callers : fresh'[g] => g # f /\ fresh[g] /\ fin'[g] = fin[g]
        /\ intact'[g] = intact[g]
    BY <2>1 DEF IndInv, TypeOK
  <2> QED
    BY <2>1, <2>2 DEF IndInv, OneCountdown, Whole
<1>7. ASSUME NEW f \in Callers, CancelLobby(f) PROVE OneCountdown' /\ Whole'
  <2>1. /\ fin' = [fin EXCEPT ![f] = 5] /\ fresh' = fresh /\ intact' = intact /\ state' = state
    BY <1>7 DEF CancelLobby, lobbyVars
  <2>2. \A g \in Callers : fin'[g] \in 0..3 => fin'[g] = fin[g]
    BY <2>1 DEF IndInv, TypeOK
  <2> QED
    BY <2>1, <2>2 DEF IndInv, OneCountdown, Whole
<1>8. OneCountdown' /\ Whole'
  BY <1>2, <1>3, <1>4, <1>5, <1>6, <1>7, CommandOrFinish DEF IndInv
<1> QED
  BY <1>1, <1>8 DEF IndInv

LEMMA IndInit == Init => IndInv
<1> SUFFICES ASSUME Init PROVE IndInv
  OBVIOUS
<1>1. ReadyIffFull
  BY LobbyConstants DEF Init, ReadyIffFull, Slots
<1> QED
  BY <1>1, TypeInit DEF Init, IndInv, OneCountdown, Whole

LEMMA IndCorrect == Spec => []IndInv
  BY IndInit, IndStep, PTL DEF Spec

(* OneCountdown: of the FinishLobby calls of any number of goroutines at   *)
(* most one counts down with a version the lobby still has.                *)
THEOREM CountdownIsOwned == Spec => []OneCountdown
  BY IndCorrect, PTL DEF IndInv

(* SessionSound: FinishLobby makes a session only of a full lobby whose    *)
(* slots did not change since its Get.                                     *)
THEOREM SessionIsSound == Spec => SessionSound
<1>1. ASSUME IndInv, [Next]_vars, NEW f \in Callers, fin'[f] = 4, fin[f] # 4
      PROVE  intact[f] /\ \A i \in Slots : slots[i] # Free
  <2>1. Finish(f)
    <3>1. CASE fin' = fin
      BY <1>1, <3>1
    <3>2. ASSUME NEW g \in Callers, FinishGet(g) \/ FinishGivesUp(g) \/ CancelLobby(g)
          PROVE  FALSE
      BY <1>1, <3>2 DEF FinishGet, FinishGivesUp, CancelLobby, IndInv, TypeOK
    <3>3. ASSUME NEW g \in Callers, Finish(g) PROVE g = f
      BY <1>1, <3>3 DEF Finish, IndInv, TypeOK
    <3> QED
      BY <1>1, <3>1, <3>2, <3>3, CommandOrFinish DEF IndInv
  <2> QED
    BY <1>1, <2>1 DEF Finish, CanFinish, IndInv, Whole, ReadyIffFull
<1>2. IndInv /\ [Next]_vars
        => [\A f \in Callers : fin'[f] = 4 /\ fin[f] # 4 =>
              intact[f] /\ \A i \in Slots : slots[i] # Free]_vars
  BY <1>1
<1> QED
  BY <1>2, IndCorrect, PTL DEF Spec, SessionSound
-----------------------------------------------------------------------------
(* The slots a client holds, whose number clientInfo.Count keeps.          *)
HeldBy(sl, c) == {i \in Slots : sl[i].client = c}

(* Each counter is right, and who holds a slot is known. *)
Counted(cnt, sl) == \A c \in Clients : cnt[c] = Cardinality(HeldBy(sl, c))

CountedAreKnown == \A c \in Clients : count[c] > 0 => c \in known

LEMMA HeldFinite ==
    \A sl, c : /\ IsFiniteSet(HeldBy(sl, c))
               /\ Cardinality(HeldBy(sl, c)) \in Nat
               /\ Cardinality(HeldBy(sl, c)) = 0 <=> HeldBy(sl, c) = {}
<1> SUFFICES ASSUME NEW sl, NEW c
             PROVE  /\ IsFiniteSet(HeldBy(sl, c))
                    /\ Cardinality(HeldBy(sl, c)) \in Nat
                    /\ Cardinality(HeldBy(sl, c)) = 0 <=> HeldBy(sl, c) = {}
  OBVIOUS
<1>1. IsFiniteSet(Slots)
  BY LobbyConstants, FS_Interval DEF Slots
<1>2. HeldBy(sl, c) \in SUBSET Slots
  BY DEF HeldBy
<1>3. IsFiniteSet(HeldBy(sl, c))
  BY <1>1, <1>2, FS_Subset
<1>4. Cardinality(HeldBy(sl, c)) \in Nat
  BY <1>3, FS_CardinalityType
<1>5. Cardinality(HeldBy(sl, c)) = 0 <=> HeldBy(sl, c) = {}
  BY <1>3, FS_EmptySet
<1> QED
  BY <1>3, <1>4, <1>5

(* A slot that changes to an actor of the same client, or of none, changes *)
(* no counter; ...                                                         *)
LEMMA HeldSame ==
    ASSUME NEW sl, NEW new, NEW c, \A i \in Slots : sl[i].client = c <=> new[i].client = c
    PROVE  Cardinality(HeldBy(new, c)) = Cardinality(HeldBy(sl, c))
<1>1. HeldBy(new, c) = HeldBy(sl, c)
  BY DEF HeldBy
<1> QED
  BY <1>1

(* ... a slot that a client loses counts down its counter alone, ...       *)
LEMMA HeldLess ==
    ASSUME NEW sl \in [Slots -> LobbySlot], NEW i \in Slots, NEW cnt \in [Clients -> Int],
           Counted(cnt, sl), sl[i].client \in Clients
    PROVE  Counted([cnt EXCEPT ![sl[i].client] = @ - 1], [sl EXCEPT ![i] = Free])
<1> DEFINE new == [sl EXCEPT ![i] = Free]
           d == sl[i].client
<1>1. d # NoToken
  BY LobbyConstants
<1>2. \A j \in Slots : new[j] = IF j = i THEN Free ELSE sl[j]
  OBVIOUS
<1>3. new[i].client = NoToken
  BY <1>2 DEF Free
<1> HIDE DEF new
<1>4. ASSUME NEW c \in Clients, c # d
      PROVE  Cardinality(HeldBy(new, c)) = Cardinality(HeldBy(sl, c))
  <2>1. c # NoToken
    BY LobbyConstants
  <2>2. \A j \in Slots : sl[j].client = c <=> new[j].client = c
    BY <1>2, <1>3, <1>4, <2>1
  <2> QED
    BY <2>2, HeldSame
<1>5. HeldBy(new, d) = HeldBy(sl, d) \ {i} /\ i \in HeldBy(sl, d)
  BY <1>1, <1>2, <1>3 DEF HeldBy
<1>6. Cardinality(HeldBy(new, d)) = Cardinality(HeldBy(sl, d)) - 1
  <2>1. IsFiniteSet(HeldBy(sl, d)) /\ Cardinality(HeldBy(sl, d)) \in Nat
    BY HeldFinite
  <2>2. Cardinality(HeldBy(sl, d) \ {i}) = Cardinality(HeldBy(sl, d)) - 1
    BY <1>5, <2>1, FS_RemoveElement
  <2> QED
    BY <1>5, <2>2
<1> QED
  BY <1>4, <1>6 DEF Counted, new

(* ... and a slot that a client gets counts up its counter alone. *)
LEMMA HeldMore ==
    ASSUME NEW sl \in [Slots -> LobbySlot], NEW i \in Slots, NEW a, NEW d \in Clients,
           NEW cnt \in [Clients -> Int], Counted(cnt, sl), sl[i].client \notin Clients
    PROVE  Counted([cnt EXCEPT ![d] = @ + 1], [sl EXCEPT ![i] = Remote(a, d)])
<1> DEFINE new == [sl EXCEPT ![i] = Remote(a, d)]
<1>1. \A j \in Slots : new[j] = IF j = i THEN Remote(a, d) ELSE sl[j]
  OBVIOUS
<1>2. new[i].client = d
  BY <1>1 DEF Remote
<1> HIDE DEF new
<1>3. ASSUME NEW c \in Clients, c # d
      PROVE  Cardinality(HeldBy(new, c)) = Cardinality(HeldBy(sl, c))
  <2>1. \A j \in Slots : sl[j].client = c <=> new[j].client = c
    BY <1>1, <1>2, <1>3
  <2> QED
    BY <2>1, HeldSame
<1>4. HeldBy(new, d) = HeldBy(sl, d) \cup {i} /\ i \notin HeldBy(sl, d)
  BY <1>1, <1>2 DEF HeldBy
<1>5. Cardinality(HeldBy(new, d)) = Cardinality(HeldBy(sl, d)) + 1
  <2>1. IsFiniteSet(HeldBy(sl, d)) /\ Cardinality(HeldBy(sl, d)) \in Nat
    BY HeldFinite
  <2>2. Cardinality(HeldBy(sl, d) \cup {i}) = Cardinality(HeldBy(sl, d)) + 1
    BY <1>4, <2>1, FS_AddElement
  <2> QED
    BY <1>4, <2>2
<1> QED
  BY <1>3, <1>5 DEF Counted, new

(* A client that loses all its slots has counter 0. *)
LEMMA HeldNone ==
    ASSUME TypeOK, NEW d \in Clients, Counted(count, slots)
    PROVE  Counted([count EXCEPT ![d] = 0], WithoutClient(d))
<1> DEFINE new == WithoutClient(d)
<1>1. \A j \in Slots : new[j] = IF slots[j].client = d THEN Free ELSE slots[j]
  BY DEF WithoutClient
<1> HIDE DEF new
<1>2. d # NoToken /\ Free.client = NoToken
  BY LobbyConstants DEF Free
<1>3. ASSUME NEW c \in Clients, c # d
      PROVE  Cardinality(HeldBy(new, c)) = Cardinality(HeldBy(slots, c))
  <2>1. c # NoToken
    BY LobbyConstants
  <2>2. \A j \in Slots : slots[j].client = c <=> new[j].client = c
    BY <1>1, <1>2, <1>3, <2>1
  <2> QED
    BY <2>2, HeldSame
<1>4. HeldBy(new, d) = {}
  BY <1>1, <1>2 DEF HeldBy
<1>5. Cardinality(HeldBy(new, d)) = 0
  BY <1>4, HeldFinite
<1> QED
  BY <1>3, <1>5 DEF Counted, new, TypeOK

(* Every actor's own slot tells the client it is counted for. *)
LEMMA ClientOfSeat ==
    ASSUME TypeOK, NEW j \in Slots
    PROVE  /\ slots[j].kind = "remote" <=> slots[j].client \in Clients
           /\ slots[j].kind = "remote" <=> slots[j].actor \in RemoteActors
           /\ slots[j].kind = "local" <=> slots[j].actor \in LocalActors
           /\ slots[j] = Free <=> slots[j].kind = "free"
           /\ slots[j].kind \in {"free", "local", "remote"}
  BY LobbyConstants DEF TypeOK, LobbySlot, Free, Local, Remote, Actors

(* The first seat is the only one the loops clear. *)
LEMMA ClearsOne ==
    ASSUME TypeOK, NEW a, NEW i \in Seats(a)
    PROVE  WithoutActor(a) = [slots EXCEPT ![i] = Free]
<1>1. \A j \in Slots : IsSeat(j, a) <=> j = i
  BY DEF Seats, IsSeat, Slots
<1> QED
  BY <1>1 DEF WithoutActor, TypeOK, Seats

(* Clearing or giving out a slot nobody's client holds changes no counter. *)
LEMMA CountKept ==
    ASSUME Counted(count, slots), count' = count,
           \A i \in Slots, c \in Clients : slots[i].client = c <=> slots'[i].client = c
    PROVE  Counted(count, slots)'
  BY HeldSame DEF Counted

(* Each command keeps the counters right. *)
LEMMA CountedStep == TypeOK /\ OneSlotPerActor /\ Counted(count, slots) /\ [Next]_vars
                       => Counted(count, slots)'
<1> SUFFICES ASSUME TypeOK, OneSlotPerActor, Counted(count, slots), [Next]_vars
             PROVE  Counted(count, slots)'
  OBVIOUS
<1> USE DEF Update
<1>0. slots \in [Slots -> LobbySlot] /\ count \in [Clients -> Int]
  BY DEF TypeOK
<1>1. ASSUME NEW a \in LocalActors, LocalLeave(a) PROVE Counted(count, slots)'
  <2>1. PICK i \in Seats(a) : slots' = [slots EXCEPT ![i] = Free]
    BY <1>1, ClearsOne DEF LocalLeave
  <2>2. i \in Slots /\ slots[i].actor = a
    BY DEF Seats, IsSeat
  <2>3. slots[i].client \notin Clients /\ Free.client \notin Clients
    BY <2>2, ClientOfSeat, LobbyConstants DEF Free
  <2>4. \A j \in Slots : slots'[j] = IF j = i THEN Free ELSE slots[j]
    BY <1>0, <2>1
  <2> QED
    BY <1>1, <2>3, <2>4, CountKept DEF LocalLeave
<1>2. ASSUME NEW a \in LocalActors, NEW i \in Slots, LocalJoin(a, i) PROVE Counted(count, slots)'
  <2> DEFINE sl == IF IsAvailable(i) THEN WithoutActor(a) ELSE slots
  <2>1. \A j \in Slots : sl[j] = slots[j] \/ (sl[j] = Free /\ slots[j].actor = a)
    BY DEF WithoutActor, IsSeat
  <2>2. slots' = [sl EXCEPT ![i] = Local(a)] /\ sl \in [Slots -> LobbySlot]
    BY <1>0, <1>2, SlotsStep DEF LocalJoin
  <2>3. slots[i].kind = "free" \/ slots[i].actor = a
    BY <1>2 DEF LocalJoin, IsAvailable
  <2> HIDE DEF sl
  <2>4. Free.client \notin Clients /\ Local(a).client \notin Clients
    BY LobbyConstants DEF Free, Local
  <2>5. \A j \in Slots : slots[j].actor = a => slots[j].client \notin Clients
    BY ClientOfSeat, LobbyConstants
  <2>6. slots[i].client \notin Clients
    BY <2>3, <2>5, ClientOfSeat
  <2>7. \A j \in Slots : slots'[j] = IF j = i THEN Local(a) ELSE sl[j]
    BY <2>2
  <2>8. \A j \in Slots, c \in Clients : slots[j].client = c <=> slots'[j].client = c
    BY <2>1, <2>4, <2>5, <2>6, <2>7
  <2> QED
    BY <1>2, <2>8, CountKept DEF LocalJoin
<1>3. ASSUME NEW a \in RemoteActors, NEW c \in Clients, RemoteLeave(a, c)
      PROVE Counted(count, slots)'
  <2>1. PICK i \in Slots : slots[i].client = c /\ slots' = [slots EXCEPT ![i] = Free]
    BY <1>3 DEF RemoteLeave
  <2>2. count' = [count EXCEPT ![c] = @ - 1]
    BY <1>3 DEF RemoteLeave
  <2> QED
    BY <1>0, <2>1, <2>2, HeldLess
<1>4. ASSUME NEW a \in RemoteActors, NEW c \in Clients, NEW i \in Slots, JoinNew(a, c, i)
      PROVE  Counted(count, slots)'
  <2>1. slots[i].client \notin Clients
    BY <1>4, ClientOfSeat DEF JoinNew, IsAvailable
  <2>2. slots' = [slots EXCEPT ![i] = Remote(a, c)] /\ count' = [count EXCEPT ![c] = @ + 1]
    BY <1>4 DEF JoinNew
  <2> QED
    BY <1>0, <2>1, <2>2, HeldMore
<1>5. ASSUME NEW a \in RemoteActors, NEW c \in Clients, NEW i \in Slots, JoinAgain(a, c, i)
      PROVE  Counted(count, slots)'
  <2>1. PICK j \in SeatFor(a, i) :
          slots[j].client = c /\ slots' = [slots EXCEPT ![j] = Free, ![i] = Remote(a, c)]
    BY <1>5 DEF JoinAgain
  <2>2. j \in Slots /\ count' = count
    BY <1>5 DEF SeatFor, Seats, JoinAgain
  <2>3. CASE j = i
    <3>1. \A k \in Slots : slots'[k] = IF k = i THEN Remote(a, c) ELSE slots[k]
      BY <1>0, <2>1, <2>2, <2>3
    <3>2. slots[i].client = c /\ Remote(a, c).client = c
      BY <2>1, <2>3 DEF Remote
    <3>3. \A k \in Slots, d \in Clients : slots[k].client = d <=> slots'[k].client = d
      BY <3>1, <3>2
    <3> QED
      BY <2>2, <3>3, CountKept
  <2>4. CASE j # i
    <3>1. slots[i].client \notin Clients
      BY <1>5, <2>4, ClientOfSeat DEF JoinAgain, SeatFor, IsAvailable
    <3> DEFINE sl == [slots EXCEPT ![j] = Free]
               cnt == [count EXCEPT ![c] = @ - 1]
    <3>2. Counted(cnt, sl)
      BY <1>0, <2>1, <2>2, HeldLess
    <3>3. sl \in [Slots -> LobbySlot] /\ cnt \in [Clients -> Int] /\ sl[i].client \notin Clients
      BY <1>0, <2>2, <2>4, <3>1, SlotsStep
    <3>4. slots' = [sl EXCEPT ![i] = Remote(a, c)]
      BY <2>1
    <3>5. count' = [cnt EXCEPT ![c] = @ + 1]
      <4>1. cnt[c] + 1 = count[c]
        BY <1>0
      <4> QED
        BY <1>0, <2>2, <4>1
    <3> HIDE DEF sl, cnt
    <3> QED
      BY <3>2, <3>3, <3>4, <3>5, HeldMore
  <2> QED
    BY <2>3, <2>4
<1>6. ASSUME NEW a \in RemoteActors, NEW c \in Clients, NEW i \in Slots, JoinFromOther(a, c, i)
      PROVE  Counted(count, slots)'
  <2>1. PICK j \in SeatFor(a, i) :
          /\ slots[j].client # c
          /\ slots' = [WithoutClient(slots[j].client) EXCEPT ![i] = Remote(a, c)]
          /\ count' = [count EXCEPT ![slots[j].client] = 0, ![c] = @ + 1]
    BY <1>6 DEF JoinFromOther
  <2>2. j \in Slots /\ slots[j].actor = a
    BY DEF SeatFor, Seats, IsSeat
  <2> DEFINE old == slots[j].client
             sl == WithoutClient(old)
             cnt == [count EXCEPT ![old] = 0]
  <2>3. old \in Clients
    BY <2>2, ClientOfSeat
  <2>4. Counted(cnt, sl)
    BY <2>3, HeldNone
  <2>5. sl \in [Slots -> LobbySlot]
    BY <1>0, SlotsStep
  <2>6. sl[i].client \notin Clients
    <3>1. CASE slots[i].actor = a
      <4>1. i = j
        BY <3>1 DEF SeatFor
      <4>2. sl[i] = Free
        BY <4>1 DEF WithoutClient
      <4>3. Free.client \notin Clients
        BY LobbyConstants DEF Free
      <4> QED
        BY <4>2, <4>3
    <3>2. CASE IsAvailable(i)
      <4>1. slots[i].client \notin Clients /\ Free.client \notin Clients
        BY <3>2, ClientOfSeat, LobbyConstants DEF IsAvailable, Free
      <4> QED
        BY <4>1 DEF WithoutClient
    <3> QED
      BY <1>6, <3>1, <3>2 DEF JoinFromOther
  <2>7. slots' = [sl EXCEPT ![i] = Remote(a, c)]
    BY <2>1
  <2>8. count' = [cnt EXCEPT ![c] = @ + 1]
    BY <1>0, <2>1
  <2> HIDE DEF sl
  <2>9. cnt \in [Clients -> Int]
    BY <1>0, <2>3
  <2> HIDE DEF cnt
  <2> QED
    BY <2>4, <2>5, <2>6, <2>7, <2>8, <2>9, HeldMore
<1>7. ASSUME NEW c \in Clients, LeaveAll(c) \/ EvictClient(c) PROVE Counted(count, slots)'
  <2>1. slots' = WithoutClient(c) /\ count' = [count EXCEPT ![c] = 0]
    BY <1>7 DEF LeaveAll, EvictClient
  <2> QED
    BY <2>1, HeldNone
<1>8. ASSUME NEW a \in Actors \cup {NoToken}, EvictActor(a) PROVE Counted(count, slots)'
  <2>1. PICK i \in Seats(a) :
          count' = IF slots[i].kind = "remote" THEN [count EXCEPT ![slots[i].client] = @ - 1]
                   ELSE count
    BY <1>8 DEF EvictActor
  <2>2. i \in Slots /\ slots' = [slots EXCEPT ![i] = Free]
    BY <1>8, ClearsOne DEF EvictActor, Seats
  <2>3. CASE slots[i].kind = "remote"
    <3>1. slots[i].client \in Clients
      BY <2>2, <2>3, ClientOfSeat
    <3> QED
      BY <1>0, <2>1, <2>2, <2>3, <3>1, HeldLess
  <2>4. CASE slots[i].kind # "remote"
    <3>1. slots[i].client \notin Clients /\ Free.client \notin Clients
      BY <2>2, <2>4, ClientOfSeat, LobbyConstants DEF Free
    <3>2. \A j \in Slots : slots'[j] = IF j = i THEN Free ELSE slots[j]
      BY <1>0, <2>2
    <3> QED
      BY <2>1, <2>4, <3>1, <3>2, CountKept
  <2> QED
    BY <2>3, <2>4
<1>9. ASSUME slots' = slots, count' = count PROVE Counted(count, slots)'
  BY <1>9
<1>10. CASE Broadcast
  <2>1. PICK silent \in SUBSET {c \in known : count[c] <= 0} :
          count' = [c \in Clients |-> IF c \in silent THEN 0 ELSE count[c]]
    BY <1>10 DEF Broadcast
  <2>2. \A c \in Clients : c \in silent => count[c] = 0
    BY <2>1, HeldFinite DEF Counted
  <2>3. count' = count
    BY <1>0, <2>1, <2>2
  <2> QED
    BY <1>9, <1>10, <2>3 DEF Broadcast
<1>11. CASE ChangeName \/ StopLobby \/ UNCHANGED vars
  BY <1>9, <1>11 DEF ChangeName, StopLobby, vars, lobbyVars
<1>12. ASSUME NEW c \in Clients, RemoteRequest(c) PROVE Counted(count, slots)'
  BY <1>9, <1>12 DEF RemoteRequest
<1>13. ASSUME NEW f \in Callers,
              FinishGet(f) \/ Finish(f) \/ FinishGivesUp(f) \/ CancelLobby(f)
       PROVE  Counted(count, slots)'
  BY <1>9, <1>13 DEF FinishGet, Finish, FinishGivesUp, CancelLobby, lobbyVars
<1> QED
  BY <1>1, <1>2, <1>3, <1>4, <1>5, <1>6, <1>7, <1>8, <1>10, <1>11, <1>12, <1>13 DEF Next

(* Who is counted for a slot is not forgotten. *)
LEMMA KnownStep == TypeOK /\ Counted(count, slots) /\ CountedAreKnown /\ [Next]_vars
                     => CountedAreKnown'
<1> SUFFICES ASSUME TypeOK, Counted(count, slots), CountedAreKnown, [Next]_vars
             PROVE  CountedAreKnown'
  OBVIOUS
<1>0. count \in [Clients -> Int] /\ count' \in [Clients -> Int]
  BY TypeStep DEF TypeOK
<1>1. ASSUME \A c \in Clients : count'[c] <= count[c] \/ c \in known',
             known \subseteq known'
      PROVE  CountedAreKnown'
  BY <1>0, <1>1 DEF CountedAreKnown
<1>2. ASSUME NEW a \in LocalActors, LocalLeave(a) PROVE CountedAreKnown'
  BY <1>0, <1>1, <1>2 DEF LocalLeave
<1>3. ASSUME NEW a \in LocalActors, NEW i \in Slots, LocalJoin(a, i) PROVE CountedAreKnown'
  BY <1>0, <1>1, <1>3 DEF LocalJoin
<1>4. ASSUME NEW a \in RemoteActors, NEW c \in Clients, RemoteLeave(a, c) PROVE CountedAreKnown'
  BY <1>0, <1>1, <1>4 DEF RemoteLeave
<1>5. ASSUME NEW a \in RemoteActors, NEW c \in Clients, NEW i \in Slots,
             JoinNew(a, c, i) \/ JoinAgain(a, c, i)
      PROVE  CountedAreKnown'
  <2>1. known' = known \cup {c} /\ (count' = count \/ count' = [count EXCEPT ![c] = @ + 1])
    BY <1>5 DEF JoinNew, JoinAgain
  <2> QED
    BY <1>0, <1>1, <2>1
<1>6. ASSUME NEW a \in RemoteActors, NEW c \in Clients, NEW i \in Slots, JoinFromOther(a, c, i)
      PROVE  CountedAreKnown'
  <2>1. PICK old : /\ known' = (known \ {old}) \cup {c}
                   /\ old # c
                   /\ count' = [count EXCEPT ![old] = 0, ![c] = @ + 1]
    BY <1>6 DEF JoinFromOther
  <2>2. \A d \in Clients : d # c => count'[d] = IF d = old THEN 0 ELSE count[d]
    BY <1>0, <2>1
  <2> QED
    BY <1>0, <2>1, <2>2 DEF CountedAreKnown
<1>7. ASSUME NEW c \in Clients, LeaveAll(c) \/ EvictClient(c) PROVE CountedAreKnown'
  <2>1. known \ {c} \subseteq known' /\ count' = [count EXCEPT ![c] = 0]
    BY <1>7 DEF LeaveAll, EvictClient
  <2> QED
    BY <1>0, <2>1 DEF CountedAreKnown
<1>8. ASSUME NEW c \in Clients, RemoteRequest(c) PROVE CountedAreKnown'
  BY <1>0, <1>1, <1>8 DEF RemoteRequest
<1>9. ASSUME NEW a, EvictActor(a) PROVE CountedAreKnown'
  <2>1. PICK i :
          /\ count' = IF slots[i].kind = "remote" THEN [count EXCEPT ![slots[i].client] = @ - 1]
                      ELSE count
          /\ known' = IF slots[i].kind = "remote" THEN known \cup {slots[i].client} ELSE known
    BY <1>9 DEF EvictActor
  <2> QED
    BY <1>0, <1>1, <2>1
<1>10. CASE Broadcast
  <2>1. PICK silent \in SUBSET {c \in known : count[c] <= 0} :
          /\ known' = known \ silent
          /\ count' = [c \in Clients |-> IF c \in silent THEN 0 ELSE count[c]]
    BY <1>10 DEF Broadcast
  <2> QED
    BY <1>0, <2>1 DEF CountedAreKnown
<1>11. ASSUME UNCHANGED <<known, count>> PROVE CountedAreKnown'
  BY <1>11 DEF CountedAreKnown
<1>12. CASE ChangeName \/ StopLobby \/ UNCHANGED vars
  BY <1>11, <1>12 DEF ChangeName, StopLobby, vars, lobbyVars
<1>13. ASSUME NEW f \in Callers,
              FinishGet(f) \/ Finish(f) \/ FinishGivesUp(f) \/ CancelLobby(f)
       PROVE  CountedAreKnown'
  BY <1>11, <1>13 DEF FinishGet, Finish, FinishGivesUp, CancelLobby, lobbyVars
<1> QED
  BY <1>2, <1>3, <1>4, <1>5, <1>6, <1>7, <1>8, <1>9, <1>10, <1>12, <1>13 DEF Next

(* CountMatches: through joins, moves, changes of client, leaves and       *)
(* evictions clientInfo.Count is the number of slots the client holds, and *)
(* a client that holds a slot stays in lobbyService.clients.               *)
THEOREM CountsMatch == Spec => []CountMatches
<1>1. Init => Counted(count, slots) /\ CountedAreKnown
  <2> SUFFICES ASSUME Init PROVE Counted(count, slots) /\ CountedAreKnown
    OBVIOUS
  <2>1. ASSUME NEW c \in Clients PROVE Cardinality(HeldBy(slots, c)) = 0
    <3>1. HeldBy(slots, c) = {}
      BY LobbyConstants DEF Init, HeldBy, Free
    <3> QED
      BY <3>1, HeldFinite
  <2> QED
    BY <2>1 DEF Init, Counted, CountedAreKnown
<1>2. Counted(count, slots) /\ CountedAreKnown => CountMatches
  BY DEF Counted, CountedAreKnown, CountMatches, HeldBy
<1> QED
  BY <1>1, <1>2, ActorsApart, TypeCorrect, CountedStep, KnownStep, PTL DEF Spec
-----------------------------------------------------------------------------
(* A step that changes the slots or the state arms the timer, or the state *)
(* goes on as it was announced.                                            *)
LEMMA AnnouncedStep == TypeOK /\ Announced /\ [Next]_vars => Announced'
<1> SUFFICES ASSUME TypeOK, Announced, [Next]_vars PROVE Announced'
  OBVIOUS
<1>1. ASSUME After(TRUE) PROVE Announced'
  BY <1>1 DEF After, Announced
<1>2. ASSUME UNCHANGED <<timer, told, state>> PROVE Announced'
  BY <1>2 DEF Announced
<1>3. ASSUME NEW a, NEW i, LocalJoin(a, i) \/ LocalLeave(a) \/ EvictActor(a) PROVE Announced'
  BY <1>1, <1>3 DEF LocalJoin, LocalLeave, EvictActor
<1>4. ASSUME NEW a, NEW c, NEW i,
             JoinNew(a, c, i) \/ JoinAgain(a, c, i) \/ JoinFromOther(a, c, i) \/ RemoteLeave(a, c)
      PROVE  Announced'
  BY <1>1, <1>4 DEF JoinNew, JoinAgain, JoinFromOther, RemoteLeave
<1>5. ASSUME NEW c, LeaveAll(c) \/ RemoteRequest(c) \/ ChangeName PROVE Announced'
  BY <1>1, <1>5 DEF LeaveAll, RemoteRequest, ChangeName
<1>6. ASSUME NEW c, EvictClient(c) PROVE Announced'
  <2>1. CASE \E i \in Slots : slots[i].client = c
    BY <1>1, <1>6, <2>1 DEF EvictClient
  <2>2. CASE ~\E i \in Slots : slots[i].client = c
    <3>1. slots' = slots /\ state' = state
      BY <1>6, <2>2, LeavesFree DEF EvictClient, Update
    <3> QED
      BY <1>6, <2>2, <3>1 DEF EvictClient, After, Announced
  <2> QED
    BY <2>1, <2>2
<1>7. CASE Broadcast
  BY <1>7 DEF Broadcast, Announced
<1>8. CASE StopLobby \/ UNCHANGED vars
  BY <1>2, <1>8 DEF StopLobby, vars, lobbyVars
<1>9. ASSUME NEW f \in Callers, Finish(f) PROVE Announced'
  BY <1>9 DEF Finish, Announced
<1>10. ASSUME NEW f \in Callers, FinishGet(f) \/ FinishGivesUp(f) \/ CancelLobby(f) PROVE Announced'
  BY <1>2, <1>10 DEF FinishGet, FinishGivesUp, CancelLobby, lobbyVars
<1> QED
  BY <1>3, <1>4, <1>5, <1>6, <1>7, <1>8, <1>9, <1>10, LobbyConstants DEF Next

(* Announced: what a command or a count-down changed is broadcast, since   *)
(* broadcastTimer stays armed until a Setup has told it, and a lobby that  *)
(* waits for players never stops broadcasting.                             *)
THEOREM ChangesAnnounced == Spec => []Announced
<1>1. Init => Announced
  BY DEF Init, Announced
<1> QED
  BY <1>1, TypeCorrect, AnnouncedStep, PTL DEF Spec
-----------------------------------------------------------------------------
(* The registry.                                                           *)

Service ==
    [at: {"runs", "ends", "gone"}, kind: {"lobby", "session"}, token: Tokens,
     clients: SUBSET ClientTokens, cancelled: BOOLEAN]

FinishCall == [at: {"counting", "made"}, lobby: Services]

(* The maps, the services and the FinishLobby calls keep their types.      *)
RegistryTypeOK ==
    /\ lobbyMap \in [Tokens -> Services \cup {None}]
    /\ sessionMap \in [Tokens -> Services \cup {None}]
    /\ clientMap \in [ClientTokens -> Services \cup {None}]
    /\ srv \in [Services -> {Unused} \cup Service]
    /\ finishing \in [Finishers -> {Idle} \cup FinishCall]

IsLobbyOf(s, t) == srv[s] # Unused /\ srv[s].kind = "lobby" /\ srv[s].token = t

(* What FinishLobby holds on to was a lobby once.                          *)
FinishesLobbies == \A f \in Finishers : finishing[f] # Idle =>
    /\ srv[finishing[f].lobby] # Unused
    /\ srv[finishing[f].lobby].kind = "lobby"

(* Services are started in the order of their numbers.                     *)
InOrder == \A s, r \in Services : s < r /\ srv[s] = Unused => srv[r] = Unused

(* An entry is stored under the token of its service, and a lobby's entry  *)
(* is that of the latest lobby of the token.                               *)
EntriesMatch == \A t \in Tokens :
    /\ sessionMap[t] # None => srv[sessionMap[t]].token = t
    /\ lobbyMap[t] # None =>
         /\ srv[lobbyMap[t]].token = t
         /\ \A r \in Services : lobbyMap[t] < r => ~IsLobbyOf(r, t)

(* Something may still delete the entry of the lobby's token.              *)
MayDelete(s) == IsLive(s) \/ \E f \in Finishers : finishing[f].at = "made" /\ finishing[f].lobby = s

(* The lobbies begun while an earlier one of the token may still delete    *)
(* its entry are in overlap.                                               *)
OverlapNoted == \A t \in Tokens, s, r \in Services :
    s < r /\ IsLobbyOf(s, t) /\ IsLobbyOf(r, t) /\ MayDelete(s) => r \in overlap

(* MapsSound, strengthened until every step keeps it.                      *)
Consistent ==
    /\ FinishesLobbies
    /\ InOrder
    /\ EntriesMatch
    /\ OverlapNoted
    /\ MapsExact
    /\ LobbyFound

IInv == RegistryTypeOK /\ Consistent
-----------------------------------------------------------------------------
LEMMA StartedType ==
    ASSUME NEW kind \in {"lobby", "session"}, NEW t \in Tokens, NEW C \in SUBSET ClientTokens
    PROVE  Started(kind, t, C) \in Service
  BY DEF Started, Service

LEMMA CancelledType ==
    ASSUME RegistryTypeOK, NEW S
    PROVE  Cancelled(S) \in [Services -> {Unused} \cup Service]
<1>1. ASSUME NEW s \in Services, IsLive(s)
      PROVE  [srv[s] EXCEPT !.cancelled = TRUE] \in Service
  <2>1. srv[s] # Unused
    BY <1>1 DEF IsLive, Unused
  <2>2. srv[s] \in Service
    BY <2>1 DEF RegistryTypeOK
  <2> QED
    BY <2>2 DEF Service
<1> QED
  BY <1>1 DEF Cancelled, RegistryTypeOK

LEMMA MovedType ==
    ASSUME RegistryTypeOK, NEW s \in Services, NEW p \in {"ends", "gone"}, srv[s].at \in {"runs", "ends"}
    PROVE  [srv EXCEPT ![s].at = p] \in [Services -> {Unused} \cup Service]
<1>1. srv[s] # Unused
  BY DEF Unused
<1>2. srv[s] \in Service
  BY <1>1 DEF RegistryTypeOK
<1> QED
  BY <1>2 DEF Service, RegistryTypeOK

LEMMA FinType ==
    ASSUME RegistryTypeOK, NEW f \in Finishers, finishing[f].at \in {"counting", "made"}
    PROVE  finishing[f] \in FinishCall /\ finishing[f] # Idle
  BY DEF RegistryTypeOK, Idle

LEMMA RegistryTypeInit == RegistryInit => RegistryTypeOK
  BY DEF RegistryInit, RegistryTypeOK

LEMMA RegistryTypeStep == RegistryTypeOK /\ [RegistryNext]_registryVars => RegistryTypeOK'
<1> SUFFICES ASSUME RegistryTypeOK, [RegistryNext]_registryVars PROVE RegistryTypeOK'
  OBVIOUS
<1> USE DEF maps, history
<1>1. ASSUME NEW s \in Services, NEW t \in Tokens, StartLobby(s, t) PROVE RegistryTypeOK'
  <2>1. Started("lobby", t, {}) \in Service
    BY StartedType
  <2> QED
    BY <1>1, <2>1 DEF RegistryTypeOK, StartLobby
<1>2. ASSUME NEW s \in Services, NEW t \in Tokens, NEW C \in SUBSET ClientTokens,
             StartSession(s, t, C)
      PROVE  RegistryTypeOK'
  <2>1. Started("session", t, C) \in Service
    BY StartedType
  <2> QED
    BY <1>2, <2>1 DEF RegistryTypeOK, StartSession
<1>3. ASSUME NEW s \in Services, CancelService(s) PROVE RegistryTypeOK'
  BY <1>3, CancelledType DEF RegistryTypeOK, CancelService
<1>4. ASSUME NEW s \in Services, ServiceEnds(s) PROVE RegistryTypeOK'
  BY <1>4, MovedType DEF RegistryTypeOK, ServiceEnds
<1>5. ASSUME NEW s \in Services, CleanUpLobby(s) PROVE RegistryTypeOK'
  BY <1>5, MovedType DEF RegistryTypeOK, CleanUpLobby
<1>6. ASSUME NEW s \in Services, CleanUpSession(s) PROVE RegistryTypeOK'
  BY <1>6, MovedType DEF RegistryTypeOK, CleanUpSession
<1>7. ASSUME NEW f \in Finishers, NEW t \in Tokens, FinishLobby(f, t) PROVE RegistryTypeOK'
  BY <1>7 DEF RegistryTypeOK, FinishLobby, FinishCall
<1>8. ASSUME NEW f \in Finishers, FinishCounted(f) PROVE RegistryTypeOK'
  BY <1>8, FinType DEF RegistryTypeOK, FinishCounted, FinishCall
<1>9. ASSUME NEW f \in Finishers, FinishFails(f) PROVE RegistryTypeOK'
  BY <1>9 DEF RegistryTypeOK, FinishFails
<1>10. ASSUME NEW f \in Finishers, FinishDeletes(f) PROVE RegistryTypeOK'
  BY <1>10, CancelledType DEF RegistryTypeOK, FinishDeletes
<1>11. CASE CancelServer
  BY <1>11 DEF RegistryTypeOK, CancelServer
<1>12. CASE CancelAll
  BY <1>12, CancelledType DEF RegistryTypeOK, CancelAll
<1>13. CASE Wait
  BY <1>13 DEF RegistryTypeOK, Wait
<1>14. CASE UNCHANGED registryVars
  BY <1>14 DEF RegistryTypeOK, registryVars
<1> QED
  BY <1>1, <1>2, <1>3, <1>4, <1>5, <1>6, <1>7, <1>8, <1>9, <1>10, <1>11, <1>12, <1>13, <1>14
  DEF RegistryNext, ServiceStep

(* RegistryTypeOK: the entries of the three maps are services or None, and the     *)
(* goroutines and the FinishLobby calls stay in their records.             *)
THEOREM RegistryTypeCorrect == RegistrySpec => []RegistryTypeOK
  BY RegistryTypeInit, RegistryTypeStep, PTL DEF RegistrySpec
-----------------------------------------------------------------------------
(* What a step that starts no service leaves of each service: what it is   *)
(* and whom it serves; it does not come to life again.                     *)
Same(s) ==
    /\ srv'[s] = Unused <=> srv[s] = Unused
    /\ srv[s] # Unused => /\ srv'[s].kind = srv[s].kind
                          /\ srv'[s].token = srv[s].token
                          /\ srv'[s].clients = srv[s].clients
                          /\ srv[s].cancelled => srv'[s].cancelled

LEMMA UnusedNotLive == \A s \in Services : IsLive(s) => srv[s] # Unused
  BY DEF IsLive, Unused

LEMMA LiveOfSame ==
    ASSUME NEW s \in Services, srv'[s] = srv[s]
    PROVE  Same(s) /\ (IsLive(s)' <=> IsLive(s))
  BY DEF Same, IsLive

LEMMA CancelledSame ==
    ASSUME RegistryTypeOK, NEW S, srv' = Cancelled(S)
    PROVE  \A s \in Services : Same(s) /\ (IsLive(s)' <=> IsLive(s))
<1> SUFFICES ASSUME NEW s \in Services PROVE Same(s) /\ (IsLive(s)' <=> IsLive(s))
  OBVIOUS
<1>1. CASE s \in S /\ IsLive(s)
  <2>1. srv[s] # Unused
    BY <1>1, UnusedNotLive
  <2>2. srv[s] \in Service
    BY <2>1 DEF RegistryTypeOK
  <2>3. srv'[s] = [srv[s] EXCEPT !.cancelled = TRUE]
    BY <1>1 DEF Cancelled
  <2>4. /\ srv'[s].kind = srv[s].kind /\ srv'[s].token = srv[s].token
        /\ srv'[s].clients = srv[s].clients /\ srv'[s].cancelled = TRUE
        /\ srv'[s].at = srv[s].at
    BY <2>2, <2>3 DEF Service
  <2>5. srv'[s] # Unused
    BY <1>1, <2>4 DEF IsLive, Unused
  <2> QED
    BY <1>1, <2>1, <2>4, <2>5 DEF Same, IsLive
<1>2. CASE ~(s \in S /\ IsLive(s))
  <2>1. srv'[s] = srv[s]
    BY <1>2 DEF Cancelled
  <2> QED
    BY <2>1, LiveOfSame
<1> QED
  BY <1>1, <1>2

LEMMA MovedSame ==
    ASSUME RegistryTypeOK, NEW r \in Services, NEW p \in {"ends", "gone"}, srv[r].at \in {"runs", "ends"},
           srv' = [srv EXCEPT ![r].at = p]
    PROVE  /\ \A s \in Services : Same(s) /\ (IsLive(s)' => IsLive(s))
           /\ \A s \in Services : s # r => srv'[s] = srv[s]
           /\ srv'[r].at = p
<1>1. srv[r] # Unused
  BY DEF Unused
<1>2. srv[r] \in Service
  BY <1>1 DEF RegistryTypeOK
<1>3. srv'[r] = [srv[r] EXCEPT !.at = p]
  BY DEF RegistryTypeOK
<1>4. /\ srv'[r].kind = srv[r].kind /\ srv'[r].token = srv[r].token
      /\ srv'[r].clients = srv[r].clients /\ srv'[r].cancelled = srv[r].cancelled
      /\ srv'[r].at = p
  BY <1>2, <1>3 DEF Service
<1>5. srv'[r] # Unused
  BY <1>4 DEF Unused
<1>6. \A s \in Services : s # r => srv'[s] = srv[s]
  BY DEF RegistryTypeOK
<1>7. Same(r) /\ (IsLive(r)' => IsLive(r))
  BY <1>1, <1>4, <1>5 DEF Same, IsLive
<1> QED
  BY <1>4, <1>6, <1>7, LiveOfSame

(* What a step that starts no service does to the facts about lobbies.     *)
LEMMA LobbiesKept ==
    ASSUME NEW s \in Services, NEW t, Same(s)
    PROVE  IsLobbyOf(s, t)' <=> IsLobbyOf(s, t)
  BY DEF Same, IsLobbyOf

LEMMA OverlapKept ==
    ASSUME OverlapNoted, \A s \in Services : Same(s) /\ (MayDelete(s)' => MayDelete(s)),
           overlap' = overlap
    PROVE  OverlapNoted'
  BY LobbiesKept DEF OverlapNoted

LEMMA OrderKept ==
    ASSUME InOrder, \A s \in Services : Same(s)
    PROVE  InOrder'
  BY DEF InOrder, Same

(* Entries that are deleted or left alone match as before.                 *)
LEMMA EntriesKept ==
    ASSUME RegistryTypeOK, EntriesMatch, MapsExact, \A s \in Services : Same(s),
           \A t \in Tokens : lobbyMap'[t] \in {lobbyMap[t], None},
           \A t \in Tokens : sessionMap'[t] \in {sessionMap[t], None}
    PROVE  EntriesMatch'
<1> SUFFICES ASSUME NEW t \in Tokens
             PROVE  /\ sessionMap'[t] # None => srv'[sessionMap'[t]].token = t
                    /\ lobbyMap'[t] # None =>
                         /\ srv'[lobbyMap'[t]].token = t
                         /\ \A r \in Services : lobbyMap'[t] < r => ~IsLobbyOf(r, t)'
  BY DEF EntriesMatch
<1>1. ASSUME sessionMap'[t] # None PROVE srv'[sessionMap'[t]].token = t
  <2>1. sessionMap'[t] = sessionMap[t] /\ sessionMap[t] \in Live("session")
    BY <1>1 DEF MapsExact
  <2>2. srv[sessionMap[t]] # Unused /\ sessionMap[t] \in Services
    BY <2>1, UnusedNotLive DEF Live
  <2> QED
    BY <1>1, <2>1, <2>2 DEF EntriesMatch, Same
<1>2. ASSUME lobbyMap'[t] # None
      PROVE  /\ srv'[lobbyMap'[t]].token = t
             /\ \A r \in Services : lobbyMap'[t] < r => ~IsLobbyOf(r, t)'
  <2>1. lobbyMap'[t] = lobbyMap[t] /\ lobbyMap[t] \in Live("lobby")
    BY <1>2 DEF MapsExact
  <2>2. srv[lobbyMap[t]] # Unused /\ lobbyMap[t] \in Services
    BY <2>1, UnusedNotLive DEF Live
  <2> QED
    BY <1>2, <2>1, <2>2, LobbiesKept DEF EntriesMatch, Same
<1> QED
  BY <1>1, <1>2
-----------------------------------------------------------------------------
(* Where no service begins, ends its life or changes sides, the maps stay  *)
(* exact although lobbies' entries are deleted.                            *)
LEMMA MapsKept ==
    ASSUME RegistryTypeOK, MapsExact, \A s \in Services : Same(s) /\ (IsLive(s)' <=> IsLive(s)),
           UNCHANGED <<sessionMap, clientMap>>,
           \A t \in Tokens : lobbyMap'[t] \in {lobbyMap[t], None}
    PROVE  MapsExact'
<1>1. \A s \in Services : \A kind : s \in Live(kind)' <=> s \in Live(kind)
  BY UnusedNotLive DEF Live, Same
<1>2. \A s \in Services : IsLive(s) => srv'[s].token = srv[s].token
      /\ srv'[s].clients = srv[s].clients
  BY UnusedNotLive DEF Same
<1>3. \A s \in Live("session")' : /\ sessionMap'[srv'[s].token] = s
                                  /\ \A c \in srv'[s].clients : clientMap'[c] = s
  BY <1>1, <1>2 DEF MapsExact, Live
<1>4. \A c \in ClientTokens : clientMap'[c] # None =>
        clientMap'[c] \in Live("session")' /\ c \in srv'[clientMap'[c]].clients
  BY <1>1, <1>2 DEF MapsExact, Live
<1>5. \A t \in Tokens : lobbyMap'[t] # None => lobbyMap'[t] \in Live("lobby")'
      /\ sessionMap'[t] = None
  BY <1>1 DEF MapsExact, Live
<1>6. \A t \in Tokens : sessionMap'[t] # None => sessionMap'[t] \in Live("session")'
  BY <1>1 DEF MapsExact, Live
<1> QED
  BY <1>3, <1>4, <1>5, <1>6 DEF MapsExact

(* A lobby whose entry is not deleted is found as before. *)
LEMMA FoundKept ==
    ASSUME LobbyFound, overlap' = overlap,
           \A s \in Services : Same(s) /\ (IsLive(s)' => IsLive(s)),
           \A s \in Live("lobby")' \ overlap' : lobbyMap'[srv[s].token] = lobbyMap[srv[s].token]
    PROVE  LobbyFound'
<1> SUFFICES ASSUME NEW s \in Live("lobby")', s \notin overlap'
             PROVE  srv'[s].cancelled \/ lobbyMap'[srv'[s].token] = s
  BY DEF LobbyFound
<1>1. s \in Services /\ IsLive(s)
  BY DEF Live
<1>2. srv[s] # Unused
  BY <1>1, UnusedNotLive
<1>3. s \in Live("lobby") \ overlap
  BY <1>1, <1>2 DEF Live, Same
<1>4. srv[s].cancelled \/ lobbyMap[srv[s].token] = s
  BY <1>3 DEF LobbyFound
<1> QED
  BY <1>1, <1>2, <1>4 DEF Same

(* FinishLobby calls hold on to lobbies as before. *)
LEMMA CallsKept ==
    ASSUME RegistryTypeOK, FinishesLobbies, \A s \in Services : Same(s),
           \A f \in Finishers : finishing'[f] # Idle =>
               finishing[f] # Idle /\ finishing'[f].lobby = finishing[f].lobby
    PROVE  FinishesLobbies'
<1> SUFFICES ASSUME NEW f \in Finishers, finishing'[f] # Idle
             PROVE  srv'[finishing'[f].lobby] # Unused /\ srv'[finishing'[f].lobby].kind = "lobby"
  BY DEF FinishesLobbies
<1>1. finishing[f] \in FinishCall
  BY DEF RegistryTypeOK
<1>2. finishing[f].lobby \in Services
  BY <1>1 DEF FinishCall
<1> QED
  BY <1>2 DEF FinishesLobbies, Same

LEMMA DeleteKept ==
    ASSUME NEW s \in Services, IsLive(s)' => IsLive(s),
           \A f \in Finishers : finishing'[f].at = "made" => finishing[f].at = "made"
           /\ finishing'[f].lobby = finishing[f].lobby
    PROVE  MayDelete(s)' => MayDelete(s)
  BY DEF MayDelete

(* Steps that touch no map and no FinishLobby call. *)
LEMMA QuietStep ==
    ASSUME IInv, UNCHANGED <<maps, finishing, overlap>>,
           \A s \in Services : Same(s) /\ (IsLive(s)' <=> IsLive(s))
    PROVE  Consistent'
<1> USE DEF IInv, Consistent, maps
<1>1. FinishesLobbies'
  BY CallsKept
<1>2. InOrder'
  BY OrderKept
<1>3. EntriesMatch'
  BY EntriesKept
<1>4. OverlapNoted'
  BY DeleteKept, OverlapKept
<1>5. MapsExact'
  BY MapsKept
<1>6. LobbyFound'
  BY FoundKept
<1> QED
  BY <1>1, <1>2, <1>3, <1>4, <1>5, <1>6
-----------------------------------------------------------------------------
(* The end of a lobby's goroutine deletes the entry of its token.  That is *)
(* its own entry, or the entry of a lobby in overlap.                      *)
LEMMA CleanUpLobbyStep ==
    ASSUME IInv, NEW r \in Services, CleanUpLobby(r)
    PROVE  Consistent'
<1> USE DEF IInv, Consistent
<1> DEFINE t == srv[r].token
<1>1. /\ \A s \in Services : Same(s) /\ (IsLive(s)' => IsLive(s))
      /\ \A s \in Services : s # r => srv'[s] = srv[s]
      /\ ~IsLive(r)'
  BY MovedSame DEF CleanUpLobby, IsLive
<1>2. IsLive(r) /\ IsLobbyOf(r, t) /\ t \in Tokens
  <2>1. IsLive(r) /\ srv[r] # Unused
    BY UnusedNotLive DEF CleanUpLobby, IsLive
  <2> QED
    BY <2>1 DEF CleanUpLobby, IsLobbyOf, RegistryTypeOK, Service
<1>3. /\ lobbyMap'[t] = None
      /\ \A u \in Tokens : u # t => lobbyMap'[u] = lobbyMap[u]
      /\ UNCHANGED <<sessionMap, clientMap, finishing, overlap>>
  BY <1>2 DEF CleanUpLobby, RegistryTypeOK, history
<1>4. FinishesLobbies'
  BY <1>1, <1>3, CallsKept
<1>5. InOrder'
  BY <1>1, OrderKept
<1>6. EntriesMatch'
  BY <1>1, <1>3, EntriesKept
<1>7. OverlapNoted'
  BY <1>1, <1>3, DeleteKept, OverlapKept
<1>8. MapsExact'
  <2>1. \A s \in Services : IsLive(s) /\ s # r => s \in Live(srv[s].kind)' /\ srv'[s] = srv[s]
    BY <1>1 DEF Live, IsLive
  <2>2. \A s \in Live("session")' : s \in Live("session") /\ srv'[s] = srv[s]
    BY <1>1 DEF Live
  <2>3. \A s \in Live("session") : s # r
    BY <1>2 DEF Live, IsLobbyOf
  <2>4. \A s \in Live("session") : s \in Live("session")' /\ srv'[s] = srv[s]
    BY <2>1, <2>3 DEF Live
  <2>5. \A u \in Tokens : lobbyMap'[u] # None => lobbyMap'[u] \in Live("lobby")'
        /\ sessionMap'[u] = None
    <3> SUFFICES ASSUME NEW u \in Tokens, lobbyMap'[u] # None
                 PROVE  lobbyMap'[u] \in Live("lobby")' /\ sessionMap'[u] = None
      OBVIOUS
    <3>1. u # t /\ lobbyMap'[u] = lobbyMap[u]
      BY <1>3
    <3>2. lobbyMap[u] \in Live("lobby") /\ srv[lobbyMap[u]].token = u /\ sessionMap[u] = None
      BY <3>1 DEF MapsExact, EntriesMatch
    <3>3. lobbyMap[u] # r
      BY <3>1, <3>2
    <3> QED
      BY <1>3, <2>1, <3>1, <3>2, <3>3 DEF Live
  <2> QED
    BY <1>3, <2>2, <2>4, <2>5 DEF MapsExact
<1>9. LobbyFound'
  <2> SUFFICES ASSUME NEW s \in Live("lobby")', s \notin overlap'
               PROVE  srv'[s].cancelled \/ lobbyMap'[srv'[s].token] = s
    BY DEF LobbyFound
  <2>1. s \in Services /\ s # r /\ srv'[s] = srv[s] /\ s \in Live("lobby") \ overlap
    BY <1>1, <1>3 DEF Live
  <2>2. srv[s].cancelled \/ lobbyMap[srv[s].token] = s
    BY <2>1 DEF LobbyFound
  <2>3. ASSUME srv[s].token = t, lobbyMap[t] = s PROVE FALSE
    <3>1. IsLobbyOf(s, t) /\ lobbyMap[t] # None
      BY <2>1, <2>3, UnusedNotLive, RegistryConstants DEF Live, IsLobbyOf
    <3>2. ~(s < r)
      BY <1>2, <2>3, <3>1 DEF EntriesMatch
    <3>3. r < s
      BY <2>1, <3>2 DEF Services
    <3>4. s \in overlap
      BY <1>2, <2>1, <3>1, <3>3 DEF OverlapNoted, MayDelete
    <3> QED
      BY <2>1, <3>4
  <2>4. srv[s].token \in Tokens
    BY <2>1, UnusedNotLive DEF RegistryTypeOK, Service, Live
  <2> QED
    BY <1>3, <2>1, <2>2, <2>3, <2>4
<1> QED
  BY <1>4, <1>5, <1>6, <1>7, <1>8, <1>9

(* The end of a session's goroutine deletes the entries of its token and   *)
(* of its clients, which are its own.                                      *)
LEMMA CleanUpSessionStep ==
    ASSUME IInv, NEW r \in Services, CleanUpSession(r)
    PROVE  Consistent'
<1> USE DEF IInv, Consistent
<1> DEFINE t == srv[r].token
<1>1. /\ \A s \in Services : Same(s) /\ (IsLive(s)' => IsLive(s))
      /\ \A s \in Services : s # r => srv'[s] = srv[s]
      /\ ~IsLive(r)'
  BY MovedSame DEF CleanUpSession, IsLive
<1>2. r \in Live("session") /\ t \in Tokens /\ srv[r].clients \subseteq ClientTokens
  <2>1. r \in Live("session") /\ srv[r] # Unused
    BY UnusedNotLive DEF CleanUpSession, IsLive, Live
  <2> QED
    BY <2>1 DEF RegistryTypeOK, Service
<1>3. /\ sessionMap'[t] = None
      /\ \A u \in Tokens : u # t => sessionMap'[u] = sessionMap[u]
      /\ \A c \in srv[r].clients : clientMap'[c] = None
      /\ \A c \in ClientTokens : c \notin srv[r].clients => clientMap'[c] = clientMap[c]
      /\ UNCHANGED <<lobbyMap, finishing, overlap>>
  BY <1>2 DEF CleanUpSession, RegistryTypeOK, history
<1>4. FinishesLobbies'
  BY <1>1, <1>3, CallsKept
<1>5. InOrder'
  BY <1>1, OrderKept
<1>6. EntriesMatch'
  BY <1>1, <1>3, EntriesKept
<1>7. OverlapNoted'
  BY <1>1, <1>3, DeleteKept, OverlapKept
<1>8. MapsExact'
  <2>1. \A kind : \A s \in Services : s # r => (s \in Live(kind)' <=> s \in Live(kind))
        /\ srv'[s] = srv[s]
    BY <1>1 DEF Live, IsLive
  <2>2. \A s \in Live("session")' : s \in Live("session") /\ s # r /\ srv'[s] = srv[s]
    BY <1>1, <2>1 DEF Live
  <2>3. ASSUME NEW s \in Live("session")'
        PROVE  /\ sessionMap'[srv'[s].token] = s
               /\ \A c \in srv'[s].clients : clientMap'[c] = s
    <3>1. sessionMap[srv[s].token] = s /\ sessionMap[t] = r
      BY <1>2, <2>2 DEF MapsExact
    <3>2. \A c \in srv[s].clients : clientMap[c] = s /\ c \notin srv[r].clients
      BY <1>2, <2>2 DEF MapsExact
    <3>3. srv[s].token \in Tokens /\ srv[s].clients \subseteq ClientTokens
      BY <2>2, UnusedNotLive DEF RegistryTypeOK, Service, Live
    <3> QED
      BY <1>3, <2>2, <3>1, <3>2, <3>3
  <2>4. ASSUME NEW c \in ClientTokens, clientMap'[c] # None
        PROVE  clientMap'[c] \in Live("session")' /\ c \in srv'[clientMap'[c]].clients
    <3>1. c \notin srv[r].clients /\ clientMap'[c] = clientMap[c]
      BY <1>3, <2>4
    <3>2. clientMap[c] \in Live("session") /\ c \in srv[clientMap[c]].clients
      BY <2>4, <3>1 DEF MapsExact
    <3> QED
      BY <2>1, <3>1, <3>2 DEF Live
  <2>5. ASSUME NEW u \in Tokens, lobbyMap'[u] # None
        PROVE  lobbyMap'[u] \in Live("lobby")' /\ sessionMap'[u] = None
    <3>1. lobbyMap[u] \in Live("lobby") /\ sessionMap[u] = None
      BY <1>3, <2>5 DEF MapsExact
    <3>2. lobbyMap[u] # r
      BY <1>2, <3>1 DEF Live
    <3> QED
      BY <1>3, <2>1, <3>1, <3>2 DEF Live
  <2>6. ASSUME NEW u \in Tokens, sessionMap'[u] # None
        PROVE  sessionMap'[u] \in Live("session")'
    <3>1. u # t /\ sessionMap'[u] = sessionMap[u]
      BY <1>3, <2>6
    <3>2. sessionMap[u] \in Live("session") /\ srv[sessionMap[u]].token = u
      BY <2>6, <3>1 DEF MapsExact, EntriesMatch
    <3> QED
      BY <2>1, <3>1, <3>2 DEF Live
  <2> QED
    BY <2>3, <2>4, <2>5, <2>6 DEF MapsExact
<1>9. LobbyFound'
  BY <1>1, <1>3, FoundKept
<1> QED
  BY <1>4, <1>5, <1>6, <1>7, <1>8, <1>9

(* The FinishLobby call that made it cancels its lobby and deletes what    *)
(* the token names: its own entry, or that of a lobby in overlap.          *)
LEMMA FinishDeletesStep ==
    ASSUME IInv, NEW f \in Finishers, FinishDeletes(f)
    PROVE  Consistent'
<1> USE DEF IInv, Consistent
<1> DEFINE r == finishing[f].lobby
           t == srv[r].token
<1>1. r \in Services /\ IsLobbyOf(r, t) /\ t \in Tokens /\ MayDelete(r)
  <2>1. finishing[f] \in FinishCall /\ finishing[f] # Idle
    BY FinType DEF FinishDeletes
  <2>2. r \in Services /\ srv[r] # Unused /\ srv[r].kind = "lobby"
    BY <2>1 DEF FinishesLobbies, FinishCall
  <2> QED
    BY <2>2 DEF RegistryTypeOK, Service, IsLobbyOf, MayDelete, FinishDeletes
<1>2. \A s \in Services : Same(s) /\ (IsLive(s)' <=> IsLive(s))
  BY CancelledSame DEF FinishDeletes
<1>3. /\ lobbyMap'[t] = None
      /\ \A u \in Tokens : u # t => lobbyMap'[u] = lobbyMap[u]
      /\ UNCHANGED <<sessionMap, clientMap, overlap>>
      /\ finishing'[f] = Idle /\ \A g \in Finishers : g # f => finishing'[g] = finishing[g]
  BY <1>1 DEF FinishDeletes, RegistryTypeOK, history
<1>4. FinishesLobbies'
  BY <1>2, <1>3, CallsKept
<1>5. InOrder'
  BY <1>2, OrderKept
<1>6. EntriesMatch'
  BY <1>2, <1>3, EntriesKept
<1>7. OverlapNoted'
  <2>1. \A g \in Finishers : finishing'[g].at = "made" => finishing[g].at = "made"
        /\ finishing'[g].lobby = finishing[g].lobby
    BY <1>3 DEF Idle
  <2> QED
    BY <1>2, <1>3, <2>1, DeleteKept, OverlapKept
<1>8. MapsExact'
  BY <1>2, <1>3, MapsKept
<1>9. LobbyFound'
  <2> SUFFICES ASSUME NEW s \in Live("lobby")', s \notin overlap'
               PROVE  srv'[s].cancelled \/ lobbyMap'[srv'[s].token] = s
    BY DEF LobbyFound
  <2>1. s \in Services /\ s \in Live("lobby") \ overlap /\ srv'[s].token = srv[s].token
        /\ (srv[s].cancelled => srv'[s].cancelled)
    BY <1>2, <1>3, UnusedNotLive DEF Live, Same
  <2>2. srv[s].cancelled \/ lobbyMap[srv[s].token] = s
    BY <2>1 DEF LobbyFound
  <2>3. ASSUME srv[s].token = t, lobbyMap[t] = s PROVE s = r
    <3>1. IsLobbyOf(s, t) /\ lobbyMap[t] # None
      BY <2>1, <2>3, UnusedNotLive, RegistryConstants DEF Live, IsLobbyOf
    <3>2. ~(s < r)
      BY <1>1, <2>3, <3>1 DEF EntriesMatch
    <3>3. ~(r < s)
      BY <1>1, <2>1, <3>1 DEF OverlapNoted
    <3> QED
      BY <1>1, <2>1, <3>2, <3>3 DEF Services
  <2>4. ASSUME s = r PROVE srv'[s].cancelled
    <3>1. IsLive(s) /\ srv[s] # Unused
      BY <2>1, UnusedNotLive DEF Live
    <3>2. srv[s] \in Service
      BY <2>1, <3>1 DEF RegistryTypeOK
    <3>3. srv'[s] = [srv[s] EXCEPT !.cancelled = TRUE]
      BY <2>1, <2>4, <3>1 DEF FinishDeletes, Cancelled
    <3> QED
      BY <3>2, <3>3 DEF Service
  <2>5. srv[s].token \in Tokens
    BY <2>1, UnusedNotLive DEF RegistryTypeOK, Service, Live
  <2> QED
    BY <1>3, <2>1, <2>2, <2>3, <2>4, <2>5
<1> QED
  BY <1>4, <1>5, <1>6, <1>7, <1>8, <1>9

(* Starting a service takes one that was not used and changes no other.    *)
LEMMA StartSame ==
    ASSUME RegistryTypeOK, InOrder, NEW r \in Services, MayStart(r),
           NEW x \in Service, x.at = "runs", x.cancelled = FALSE, srv' = [srv EXCEPT ![r] = x]
    PROVE  /\ srv[r] = Unused /\ srv'[r] = x /\ IsLive(r)' /\ srv'[r] # Unused
           /\ \A s \in Services : r < s => srv[s] = Unused
           /\ \A s \in Services : s # r => srv'[s] = srv[s] /\ (IsLive(s)' <=> IsLive(s))
           /\ \A s \in Services : srv[s] # Unused => s # r
<1>1. srv'[r] = x /\ x # Unused
  BY DEF RegistryTypeOK, Unused
<1>2. \A s \in Services : s # r => srv'[s] = srv[s]
  BY DEF RegistryTypeOK
<1> QED
  BY <1>1, <1>2 DEF MayStart, InOrder, IsLive

(* The order of the services after a start. *)
LEMMA OrderStart ==
    ASSUME RegistryTypeOK, InOrder, NEW r \in Services, MayStart(r), srv'[r] # Unused,
           \A s \in Services : s # r => srv'[s] = srv[s]
    PROVE  InOrder'
<1> SUFFICES ASSUME NEW s \in Services, NEW q \in Services, s < q, srv'[s] = Unused
             PROVE  srv'[q] = Unused
  BY DEF InOrder
<1>1. s # r /\ srv[s] = Unused
  OBVIOUS
<1>2. r < s
  BY <1>1 DEF MayStart, Services
<1>3. q # r
  BY <1>2 DEF Services
<1> QED
  BY <1>1, <1>3 DEF InOrder

LEMMA CallsStart ==
    ASSUME RegistryTypeOK, FinishesLobbies, NEW r \in Services, srv[r] = Unused,
           \A s \in Services : s # r => srv'[s] = srv[s], finishing' = finishing
    PROVE  FinishesLobbies'
<1> SUFFICES ASSUME NEW f \in Finishers, finishing[f] # Idle
             PROVE  srv'[finishing[f].lobby] # Unused /\ srv'[finishing[f].lobby].kind = "lobby"
  BY DEF FinishesLobbies
<1>1. finishing[f] \in FinishCall
  BY DEF RegistryTypeOK
<1>2. finishing[f].lobby \in Services
  BY <1>1 DEF FinishCall
<1> QED
  BY <1>2 DEF FinishesLobbies

(* A new lobby takes the entry of its token, which was free. *)
LEMMA StartLobbyStep ==
    ASSUME IInv, NEW r \in Services, NEW t \in Tokens, StartLobby(r, t)
    PROVE  Consistent'
<1> USE DEF IInv, Consistent
<1> DEFINE x == Started("lobby", t, {})
<1>1. /\ srv[r] = Unused /\ srv'[r] = x /\ IsLive(r)' /\ srv'[r] # Unused
      /\ \A s \in Services : r < s => srv[s] = Unused
      /\ \A s \in Services : s # r => srv'[s] = srv[s] /\ (IsLive(s)' <=> IsLive(s))
      /\ \A s \in Services : srv[s] # Unused => s # r
  <2>1. x \in Service /\ x.at = "runs" /\ x.cancelled = FALSE
    BY StartedType DEF Started
  <2>2. srv' = [srv EXCEPT ![r] = x] /\ MayStart(r)
    BY DEF StartLobby
  <2> HIDE DEF x
  <2> QED
    BY <2>1, <2>2, StartSame
<1>2. x.kind = "lobby" /\ x.token = t /\ x.clients = {}
  BY DEF Started
<1>3. /\ lobbyMap[t] = None /\ sessionMap[t] = None /\ lobbyMap'[t] = r
      /\ \A u \in Tokens : u # t => lobbyMap'[u] = lobbyMap[u]
      /\ UNCHANGED <<sessionMap, clientMap, finishing>>
  BY DEF StartLobby, RegistryTypeOK
<1> HIDE DEF x
<1>4. FinishesLobbies'
  BY <1>1, <1>3, CallsStart
<1>5. InOrder'
  BY <1>1, OrderStart DEF StartLobby
<1>6. \A kind : \A s \in Services : s # r => (s \in Live(kind)' <=> s \in Live(kind))
  BY <1>1 DEF Live
<1>7. \A kind : \A s \in Services : s \in Live(kind) => s # r /\ s \in Live(kind)'
      /\ srv'[s] = srv[s]
  BY <1>1, <1>6, UnusedNotLive DEF Live
<1>8. EntriesMatch'
  <2> SUFFICES ASSUME NEW u \in Tokens
               PROVE  /\ sessionMap[u] # None => srv'[sessionMap[u]].token = u
                      /\ lobbyMap'[u] # None =>
                           /\ srv'[lobbyMap'[u]].token = u
                           /\ \A s \in Services : lobbyMap'[u] < s => ~IsLobbyOf(s, u)'
    BY <1>3 DEF EntriesMatch
  <2>1. ASSUME sessionMap[u] # None PROVE srv'[sessionMap[u]].token = u
    <3>1. sessionMap[u] \in Live("session") /\ sessionMap[u] \in Services
      BY <2>1 DEF MapsExact, Live
    <3> QED
      BY <1>7, <2>1, <3>1 DEF EntriesMatch
  <2>2. CASE u = t
    <3>1. srv'[lobbyMap'[u]].token = u
      BY <1>1, <1>2, <1>3, <2>2
    <3>2. ASSUME NEW s \in Services, r < s PROVE ~IsLobbyOf(s, u)'
      <4>1. s # r
        BY <3>2 DEF Services
      <4> QED
        BY <1>1, <3>2, <4>1 DEF IsLobbyOf
    <3> QED
      BY <1>3, <2>1, <2>2, <3>1, <3>2
  <2>3. ASSUME u # t, lobbyMap[u] # None
        PROVE  /\ srv'[lobbyMap[u]].token = u
               /\ \A s \in Services : lobbyMap[u] < s => ~IsLobbyOf(s, u)'
    <3>1. lobbyMap[u] \in Live("lobby") /\ lobbyMap[u] \in Services
      BY <2>3 DEF MapsExact, Live
    <3>2. ~IsLobbyOf(r, u)'
      BY <1>1, <1>2, <2>3 DEF IsLobbyOf
    <3> QED
      BY <1>1, <1>7, <2>3, <3>1, <3>2 DEF EntriesMatch, IsLobbyOf
  <2> QED
    BY <1>3, <2>1, <2>2, <2>3
<1>9. OverlapNoted'
  <2> SUFFICES ASSUME NEW u \in Tokens, NEW s \in Services, NEW q \in Services, s < q,
                      IsLobbyOf(s, u)', IsLobbyOf(q, u)', MayDelete(s)'
               PROVE  q \in overlap'
    BY DEF OverlapNoted
  <2>1. overlap \subseteq overlap'
    BY DEF StartLobby
  <2>2. s # r
    <3> SUFFICES ASSUME s = r PROVE FALSE
      OBVIOUS
    <3>1. r < q /\ q # r
      BY DEF Services
    <3> QED
      BY <1>1, <3>1 DEF IsLobbyOf
  <2>3. IsLobbyOf(s, u) /\ MayDelete(s)
    BY <1>1, <1>3, <2>2 DEF IsLobbyOf, MayDelete
  <2>4. CASE q = r
    <3>1. u = t
      BY <1>1, <1>2, <2>4 DEF IsLobbyOf
    <3>2. NotOver(t)
      BY <2>3, <3>1 DEF NotOver, MayDelete, IsLobbyOf, Live
    <3> QED
      BY <2>4, <3>2 DEF StartLobby
  <2>5. CASE q # r
    <3>1. IsLobbyOf(q, u)
      BY <1>1, <2>5 DEF IsLobbyOf
    <3> QED
      BY <2>1, <2>3, <3>1 DEF OverlapNoted
  <2> QED
    BY <2>4, <2>5
<1>10. MapsExact'
  <2>1. \A s \in Live("session")' : s \in Live("session") /\ srv'[s] = srv[s]
    BY <1>1, <1>2, <1>6 DEF Live
  <2>2. ASSUME NEW u \in Tokens, lobbyMap'[u] # None
        PROVE  lobbyMap'[u] \in Live("lobby")' /\ sessionMap'[u] = None
    <3>1. CASE u = t
      BY <1>1, <1>2, <1>3, <3>1 DEF Live
    <3>2. CASE u # t
      <4>1. lobbyMap[u] \in Live("lobby") /\ sessionMap[u] = None /\ lobbyMap'[u] = lobbyMap[u]
        BY <1>3, <2>2, <3>2 DEF MapsExact
      <4> QED
        BY <1>3, <1>7, <4>1 DEF Live
    <3> QED
      BY <3>1, <3>2
  <2>3. \A kind : \A s \in Live(kind) : s \in Live(kind)' /\ srv'[s] = srv[s]
    BY <1>7 DEF Live
  <2> QED
    BY <1>3, <2>1, <2>2, <2>3 DEF MapsExact
<1>11. LobbyFound'
  <2> SUFFICES ASSUME NEW s \in Live("lobby")', s \notin overlap'
               PROVE  srv'[s].cancelled \/ lobbyMap'[srv'[s].token] = s
    BY DEF LobbyFound
  <2>1. CASE s = r
    BY <1>1, <1>2, <1>3, <2>1
  <2>2. CASE s # r
    <3>1. s \in Services /\ s \in Live("lobby") \ overlap /\ srv'[s] = srv[s]
      BY <1>1, <1>6, <2>2 DEF Live, StartLobby
    <3>2. srv[s].cancelled \/ lobbyMap[srv[s].token] = s
      BY <3>1 DEF LobbyFound
    <3>3. srv[s].token \in Tokens /\ s # None
      BY <3>1, UnusedNotLive, RegistryConstants DEF RegistryTypeOK, Service, Live
    <3> QED
      BY <1>3, <3>1, <3>2, <3>3
  <2> QED
    BY <2>1, <2>2
<1> QED
  BY <1>4, <1>5, <1>8, <1>9, <1>10, <1>11

(* A new session takes the entries of its token and of its clients, which  *)
(* were free.                                                              *)
LEMMA StartSessionStep ==
    ASSUME IInv, NEW r \in Services, NEW t \in Tokens, NEW C \in SUBSET ClientTokens,
           StartSession(r, t, C)
    PROVE  Consistent'
<1> USE DEF IInv, Consistent
<1> DEFINE x == Started("session", t, C)
<1>1. /\ srv[r] = Unused /\ srv'[r] = x /\ IsLive(r)' /\ srv'[r] # Unused
      /\ \A s \in Services : r < s => srv[s] = Unused
      /\ \A s \in Services : s # r => srv'[s] = srv[s] /\ (IsLive(s)' <=> IsLive(s))
      /\ \A s \in Services : srv[s] # Unused => s # r
  <2>1. x \in Service /\ x.at = "runs" /\ x.cancelled = FALSE
    BY StartedType DEF Started
  <2>2. srv' = [srv EXCEPT ![r] = x] /\ MayStart(r)
    BY DEF StartSession
  <2> HIDE DEF x
  <2> QED
    BY <2>1, <2>2, StartSame
<1>2. x.kind = "session" /\ x.token = t /\ x.clients = C
  BY DEF Started
<1>3. /\ lobbyMap[t] = None /\ sessionMap[t] = None /\ sessionMap'[t] = r
      /\ \A c \in C : clientMap[c] = None /\ clientMap'[c] = r
      /\ \A c \in ClientTokens : c \notin C => clientMap'[c] = clientMap[c]
      /\ \A u \in Tokens : u # t => sessionMap'[u] = sessionMap[u]
      /\ UNCHANGED <<lobbyMap, finishing, overlap>>
  BY DEF StartSession, CanStart, RegistryTypeOK
<1> HIDE DEF x
<1>4. FinishesLobbies'
  BY <1>1, <1>3, CallsStart
<1>5. InOrder'
  BY <1>1, OrderStart DEF StartSession
<1>6. \A kind : \A s \in Services : s # r => (s \in Live(kind)' <=> s \in Live(kind))
  BY <1>1 DEF Live
<1>7. \A kind : \A s \in Live(kind) : s # r /\ s \in Live(kind)' /\ srv'[s] = srv[s]
  BY <1>1, <1>6, UnusedNotLive DEF Live
<1>8. \A s \in Services, u \in Tokens : IsLobbyOf(s, u)' <=> IsLobbyOf(s, u)
  BY <1>1, <1>2 DEF IsLobbyOf
<1>9. EntriesMatch'
  <2> SUFFICES ASSUME NEW u \in Tokens
               PROVE  /\ sessionMap'[u] # None => srv'[sessionMap'[u]].token = u
                      /\ lobbyMap[u] # None =>
                           /\ srv'[lobbyMap[u]].token = u
                           /\ \A s \in Services : lobbyMap[u] < s => ~IsLobbyOf(s, u)'
    BY <1>3 DEF EntriesMatch
  <2>1. ASSUME sessionMap'[u] # None PROVE srv'[sessionMap'[u]].token = u
    <3>1. CASE u = t
      BY <1>1, <1>2, <1>3, <3>1
    <3>2. CASE u # t
      <4>1. sessionMap[u] \in Live("session") /\ sessionMap'[u] = sessionMap[u]
        BY <1>3, <2>1, <3>2 DEF MapsExact
      <4> QED
        BY <1>7, <2>1, <4>1 DEF EntriesMatch
    <3> QED
      BY <3>1, <3>2
  <2>2. ASSUME lobbyMap[u] # None PROVE srv'[lobbyMap[u]].token = u
    BY <1>7, <2>2 DEF MapsExact, EntriesMatch
  <2> QED
    BY <1>8, <2>1, <2>2 DEF EntriesMatch
<1>10. OverlapNoted'
  <2>1. \A s \in Services, u \in Tokens : IsLobbyOf(s, u)' => (MayDelete(s)' => MayDelete(s))
    BY <1>1, <1>2, <1>3 DEF MayDelete, IsLobbyOf
  <2> QED
    BY <1>3, <1>8, <2>1 DEF OverlapNoted
<1>11. MapsExact'
  <2>1. ASSUME NEW s \in Live("session")'
        PROVE  /\ sessionMap'[srv'[s].token] = s
               /\ \A c \in srv'[s].clients : clientMap'[c] = s
    <3>1. CASE s = r
      BY <1>1, <1>2, <1>3, <3>1
    <3>2. CASE s # r
      <4>1. s \in Services /\ s \in Live("session") /\ srv'[s] = srv[s]
        BY <1>1, <1>6, <3>2 DEF Live
      <4>2. srv[s].token \in Tokens /\ srv[s].clients \subseteq ClientTokens /\ s # None
        BY <4>1, UnusedNotLive, RegistryConstants DEF RegistryTypeOK, Service, Live
      <4>3. sessionMap[srv[s].token] = s /\ \A c \in srv[s].clients : clientMap[c] = s
        BY <4>1 DEF MapsExact
      <4> QED
        BY <1>3, <4>1, <4>2, <4>3
    <3> QED
      BY <3>1, <3>2
  <2>2. ASSUME NEW c \in ClientTokens, clientMap'[c] # None
        PROVE  clientMap'[c] \in Live("session")' /\ c \in srv'[clientMap'[c]].clients
    <3>1. CASE c \in C
      BY <1>1, <1>2, <1>3, <3>1 DEF Live
    <3>2. CASE c \notin C
      <4>1. clientMap'[c] = clientMap[c] /\ clientMap[c] \in Live("session")
            /\ c \in srv[clientMap[c]].clients
        BY <1>3, <2>2, <3>2 DEF MapsExact
      <4> QED
        BY <1>7, <4>1
    <3> QED
      BY <3>1, <3>2
  <2>3. ASSUME NEW u \in Tokens, lobbyMap[u] # None
        PROVE  lobbyMap[u] \in Live("lobby")' /\ sessionMap'[u] = None
    BY <1>3, <1>7, <2>3 DEF MapsExact
  <2>4. ASSUME NEW u \in Tokens, sessionMap'[u] # None
        PROVE  sessionMap'[u] \in Live("session")'
    <3>1. CASE u = t
      BY <1>1, <1>2, <1>3, <3>1 DEF Live
    <3>2. CASE u # t
      BY <1>3, <1>7, <2>4, <3>2 DEF MapsExact
    <3> QED
      BY <3>1, <3>2
  <2> QED
    BY <1>3, <2>1, <2>2, <2>3, <2>4 DEF MapsExact
<1>12. LobbyFound'
  <2> SUFFICES ASSUME NEW s \in Live("lobby")', s \notin overlap'
               PROVE  srv'[s].cancelled \/ lobbyMap'[srv'[s].token] = s
    BY DEF LobbyFound
  <2>1. s # r
    BY <1>1, <1>2 DEF Live
  <2>2. s \in Live("lobby") \ overlap /\ srv'[s] = srv[s]
    BY <1>1, <1>3, <1>6, <2>1 DEF Live
  <2> QED
    BY <1>3, <2>2 DEF LobbyFound
<1> QED
  BY <1>4, <1>5, <1>9, <1>10, <1>11, <1>12

LEMMA InvInit == RegistryInit => IInv
<1> SUFFICES ASSUME RegistryInit PROVE IInv
  OBVIOUS
<1>1. RegistryTypeOK
  BY RegistryTypeInit
<1>2. \A s \in Services : srv[s] = Unused /\ ~IsLive(s)
  BY DEF RegistryInit, IsLive, Unused
<1>3. \A f \in Finishers : finishing[f] = Idle
  BY DEF RegistryInit
<1>4. FinishesLobbies /\ InOrder /\ EntriesMatch
  BY <1>2, <1>3 DEF RegistryInit, FinishesLobbies, InOrder, EntriesMatch
<1>5. OverlapNoted
  BY <1>2 DEF OverlapNoted, IsLobbyOf
<1>6. MapsExact /\ LobbyFound
  BY <1>2 DEF RegistryInit, MapsExact, LobbyFound, Live
<1> QED
  BY <1>1, <1>4, <1>5, <1>6 DEF IInv, Consistent

(* Each step keeps the invariant. *)
LEMMA InvStep == IInv /\ [RegistryNext]_registryVars => IInv'
<1> SUFFICES ASSUME IInv, [RegistryNext]_registryVars PROVE Consistent'
  BY RegistryTypeStep DEF IInv
<1>0. RegistryTypeOK /\ FinishesLobbies /\ InOrder /\ EntriesMatch /\ OverlapNoted /\ MapsExact
      /\ LobbyFound
  BY DEF IInv, Consistent
<1>1. ASSUME NEW s \in Services, NEW t \in Tokens, StartLobby(s, t) PROVE Consistent'
  BY <1>1, StartLobbyStep
<1>2. ASSUME NEW s \in Services, NEW t \in Tokens, NEW C \in SUBSET ClientTokens,
             StartSession(s, t, C)
      PROVE  Consistent'
  BY <1>2, StartSessionStep
<1>3. ASSUME NEW s \in Services, CancelService(s) PROVE Consistent'
  BY <1>0, <1>3, CancelledSame, QuietStep DEF CancelService, history
<1>4. ASSUME NEW s \in Services, ServiceEnds(s) PROVE Consistent'
  <2>1. \A r \in Services : Same(r) /\ (IsLive(r)' <=> IsLive(r))
    <3>1. /\ \A r \in Services : Same(r)
          /\ \A r \in Services : r # s => srv'[r] = srv[r]
          /\ srv'[s].at = "ends"
      BY <1>0, <1>4, MovedSame DEF ServiceEnds
    <3> QED
      BY <1>4, <3>1 DEF IsLive, ServiceEnds
  <2> QED
    BY <1>4, <2>1, QuietStep DEF ServiceEnds, history
<1>5. ASSUME NEW s \in Services, CleanUpLobby(s) PROVE Consistent'
  BY <1>5, CleanUpLobbyStep
<1>6. ASSUME NEW s \in Services, CleanUpSession(s) PROVE Consistent'
  BY <1>6, CleanUpSessionStep
<1>7. ASSUME NEW f \in Finishers, NEW t \in Tokens, FinishLobby(f, t) PROVE Consistent'
  <2>1. \A s \in Services : Same(s) /\ (IsLive(s)' <=> IsLive(s))
    BY <1>7, LiveOfSame DEF FinishLobby
  <2>2. lobbyMap[t] \in Services /\ srv[lobbyMap[t]] # Unused /\ srv[lobbyMap[t]].kind = "lobby"
    BY <1>0, <1>7, UnusedNotLive DEF FinishLobby, MapsExact, Live
  <2>3. FinishesLobbies'
    BY <1>0, <1>7, <2>2 DEF FinishLobby, FinishesLobbies, RegistryTypeOK
  <2>4. \A g \in Finishers : finishing'[g].at = "made" => finishing[g].at = "made"
        /\ finishing'[g].lobby = finishing[g].lobby
    BY <1>0, <1>7 DEF FinishLobby, RegistryTypeOK
  <2>5. OverlapNoted'
    BY <1>0, <1>7, <2>1, <2>4, DeleteKept, OverlapKept DEF FinishLobby, history
  <2>6. InOrder' /\ EntriesMatch' /\ MapsExact' /\ LobbyFound'
    BY <1>0, <1>7, <2>1, OrderKept, EntriesKept, MapsKept, FoundKept DEF FinishLobby, maps, history
  <2> QED
    BY <2>3, <2>5, <2>6 DEF Consistent
<1>8. ASSUME NEW f \in Finishers, FinishCounted(f) PROVE Consistent'
  <2>1. \A s \in Services : Same(s) /\ (IsLive(s)' <=> IsLive(s))
    BY <1>8, LiveOfSame DEF FinishCounted
  <2>2. finishing[f] \in FinishCall /\ finishing[f] # Idle
    BY <1>0, <1>8, FinType DEF FinishCounted
  <2>3. /\ finishing'[f].at = "made" /\ finishing'[f].lobby = finishing[f].lobby
        /\ \A g \in Finishers : g # f => finishing'[g] = finishing[g]
    BY <1>0, <1>8, <2>2 DEF FinishCounted, FinishCall, RegistryTypeOK
  <2>4. FinishesLobbies'
    <3>1. \A g \in Finishers : finishing'[g] # Idle =>
            finishing[g] # Idle /\ finishing'[g].lobby = finishing[g].lobby
      BY <2>2, <2>3
    <3> QED
      BY <1>0, <2>1, <3>1, CallsKept
  <2>5. \A s \in Services : MayDelete(s)' => MayDelete(s)
    BY <1>8, <2>1, <2>3 DEF MayDelete, IsLive, FinishCounted
  <2>6. OverlapNoted'
    BY <1>0, <1>8, <2>1, <2>5, OverlapKept DEF FinishCounted, history
  <2>7. InOrder' /\ EntriesMatch' /\ MapsExact' /\ LobbyFound'
    BY <1>0, <1>8, <2>1, OrderKept, EntriesKept, MapsKept, FoundKept DEF FinishCounted, maps,
       history
  <2> QED
    BY <2>4, <2>6, <2>7 DEF Consistent
<1>9. ASSUME NEW f \in Finishers, FinishFails(f) PROVE Consistent'
  <2>1. \A s \in Services : Same(s) /\ (IsLive(s)' <=> IsLive(s))
    BY <1>9, LiveOfSame DEF FinishFails
  <2>2. finishing'[f] = Idle /\ \A g \in Finishers : g # f => finishing'[g] = finishing[g]
    BY <1>0, <1>9 DEF FinishFails, RegistryTypeOK
  <2>3. FinishesLobbies'
    BY <1>0, <2>1, <2>2, CallsKept
  <2>4. \A g \in Finishers : finishing'[g].at = "made" => finishing[g].at = "made"
        /\ finishing'[g].lobby = finishing[g].lobby
    BY <2>2 DEF Idle
  <2>5. OverlapNoted'
    BY <1>0, <1>9, <2>1, <2>4, DeleteKept, OverlapKept DEF FinishFails, history
  <2>6. InOrder' /\ EntriesMatch' /\ MapsExact' /\ LobbyFound'
    BY <1>0, <1>9, <2>1, OrderKept, EntriesKept, MapsKept, FoundKept DEF FinishFails, maps, history
  <2> QED
    BY <2>3, <2>5, <2>6 DEF Consistent
<1>10. ASSUME NEW f \in Finishers, FinishDeletes(f) PROVE Consistent'
  BY <1>10, FinishDeletesStep
<1>11. ASSUME UNCHANGED <<maps, srv, finishing, overlap>> PROVE Consistent'
  <2>1. \A s \in Services : Same(s) /\ (IsLive(s)' <=> IsLive(s))
    BY <1>11, LiveOfSame
  <2> QED
    BY <1>11, <2>1, QuietStep
<1>12. CASE CancelServer
  BY <1>11, <1>12 DEF CancelServer, history
<1>13. CASE CancelAll
  BY <1>0, <1>13, CancelledSame, QuietStep DEF CancelAll, history
<1>14. CASE Wait
  BY <1>11, <1>14 DEF Wait, history
<1>15. CASE UNCHANGED registryVars
  BY <1>11, <1>15 DEF registryVars, history
<1> QED
  BY <1>1, <1>2, <1>3, <1>4, <1>5, <1>6, <1>7, <1>8, <1>9, <1>10, <1>12, <1>13, <1>14, <1>15
  DEF RegistryNext, ServiceStep

(* MapsSound: however services are started, cancelled, finished by         *)
(* FinishLobby and cleaned up by their goroutines, which all delete        *)
(* entries by token, lobbyMap, sessionMap and clientMap lead to the        *)
(* services that live and to nothing else.                                 *)
THEOREM MapsAreSound == RegistrySpec => []MapsSound
<1>1. IInv => MapsSound
  BY DEF IInv, Consistent, MapsSound
<1> QED
  BY <1>1, InvInit, InvStep, PTL DEF RegistrySpec
-----------------------------------------------------------------------------
(* Once Server.Start has looked at the maps, every service that lives has  *)
(* been cancelled, or was begun after that look, or is a lobby that had    *)
(* lost its entry to an earlier one: Start waits for nothing else.         *)
Reached ==
    server \in {"waiting", "down"} =>
        \A s \in Services : IsLive(s) => srv[s].cancelled \/ s \in late \cup overlap

LEMMA ReachedKept ==
    ASSUME IInv, Reached, server' = server,
           late \subseteq late', overlap \subseteq overlap',
           \A s \in Services : IsLive(s)' =>
               \/ Same(s) /\ IsLive(s)
               \/ (server \in {"waiting", "down"} => s \in late')
    PROVE  Reached'
  BY UnusedNotLive DEF Reached, Same

(* CancelAll reaches what the maps lead to, which is every session and     *)
(* every lobby that is found.                                              *)
LEMMA CancelAllReaches == IInv /\ CancelAll => Reached'
<1> SUFFICES ASSUME IInv, CancelAll, NEW s \in Services, IsLive(s)'
             PROVE  srv'[s].cancelled \/ s \in late' \cup overlap'
  BY DEF Reached
<1>1. RegistryTypeOK /\ MapsExact /\ LobbyFound
  BY DEF IInv, Consistent
<1>2. IsLive(s) /\ (srv[s].cancelled => srv'[s].cancelled) /\ overlap' = overlap
  BY <1>1, CancelledSame, UnusedNotLive DEF CancelAll, Same, history
<1>3. srv[s] \in Service
  BY <1>1, <1>2, UnusedNotLive DEF RegistryTypeOK
<1>4. srv[s].cancelled \/ s \in overlap \/ s \in Registered
  <2>1. CASE srv[s].kind = "session"
    <3>1. sessionMap[srv[s].token] = s
      BY <1>1, <1>2, <2>1 DEF MapsExact, Live
    <3> QED
      BY <1>3, <3>1 DEF Registered, Service
  <2>2. CASE srv[s].kind = "lobby"
    <3>1. srv[s].cancelled \/ s \in overlap \/ lobbyMap[srv[s].token] = s
      BY <1>1, <1>2, <2>2 DEF LobbyFound, Live
    <3> QED
      BY <1>3, <3>1 DEF Registered, Service
  <2> QED
    BY <1>3, <2>1, <2>2 DEF Service
<1>5. s \in Registered => srv'[s].cancelled
  <2>1. ASSUME s \in Registered PROVE srv'[s] = [srv[s] EXCEPT !.cancelled = TRUE]
    BY <1>2, <2>1 DEF CancelAll, Cancelled
  <2> QED
    BY <1>3, <2>1 DEF Service
<1> QED
  BY <1>2, <1>4, <1>5

LEMMA ReachedStep == IInv /\ Reached /\ [RegistryNext]_registryVars => Reached'
<1> SUFFICES ASSUME IInv, Reached, [RegistryNext]_registryVars PROVE Reached'
  OBVIOUS
<1>0. RegistryTypeOK /\ InOrder
  BY DEF IInv, Consistent
<1> USE DEF history
<1>1. ASSUME UNCHANGED <<srv, server, history>> PROVE Reached'
  BY <1>1 DEF Reached, IsLive
<1>2. ASSUME NEW r \in Services, NEW x \in Service, MayStart(r), NoteLate(r),
             x.at = "runs", x.cancelled = FALSE, srv' = [srv EXCEPT ![r] = x],
             server' = server, overlap \subseteq overlap'
      PROVE  Reached'
  <2>1. \A s \in Services : s # r => Same(s) /\ (IsLive(s)' => IsLive(s))
    BY <1>0, <1>2, StartSame, LiveOfSame
  <2>2. late \subseteq late' /\ (server \in {"waiting", "down"} => r \in late')
    BY <1>2 DEF NoteLate
  <2> QED
    BY <1>2, <2>1, <2>2, ReachedKept
<1>3. ASSUME UNCHANGED <<server, history>>, \A s \in Services : Same(s) /\ (IsLive(s)' => IsLive(s))
      PROVE  Reached'
  BY <1>3, ReachedKept
<1>4. ASSUME NEW s \in Services, NEW t \in Tokens, StartLobby(s, t) PROVE Reached'
  BY <1>2, <1>4, StartedType DEF StartLobby, Started
<1>5. ASSUME NEW s \in Services, NEW t \in Tokens, NEW C \in SUBSET ClientTokens,
             StartSession(s, t, C)
      PROVE  Reached'
  BY <1>2, <1>5, StartedType DEF StartSession, Started
<1>6. ASSUME NEW s \in Services, CancelService(s) PROVE Reached'
  BY <1>0, <1>3, <1>6, CancelledSame DEF CancelService
<1>7. ASSUME NEW s \in Services, ServiceEnds(s) PROVE Reached'
  BY <1>0, <1>3, <1>7, MovedSame DEF ServiceEnds
<1>8. ASSUME NEW s \in Services, CleanUpLobby(s) PROVE Reached'
  BY <1>0, <1>3, <1>8, MovedSame DEF CleanUpLobby
<1>9. ASSUME NEW s \in Services, CleanUpSession(s) PROVE Reached'
  BY <1>0, <1>3, <1>9, MovedSame DEF CleanUpSession
<1>10. ASSUME NEW f \in Finishers, FinishDeletes(f) PROVE Reached'
  BY <1>0, <1>3, <1>10, CancelledSame DEF FinishDeletes
<1>11. ASSUME NEW f \in Finishers, FinishCounted(f) \/ FinishFails(f) PROVE Reached'
  BY <1>1, <1>11 DEF FinishCounted, FinishFails
<1>12. ASSUME NEW f \in Finishers, NEW t \in Tokens, FinishLobby(f, t) PROVE Reached'
  BY <1>1, <1>12 DEF FinishLobby
<1>13. CASE CancelServer
  BY <1>13 DEF CancelServer, Reached
<1>14. CASE CancelAll
  BY <1>14, CancelAllReaches
<1>15. CASE Wait
  BY <1>15 DEF Wait, Reached, IsLive
<1>16. CASE UNCHANGED registryVars
  BY <1>1, <1>16 DEF registryVars
<1> QED
  BY <1>4, <1>5, <1>6, <1>7, <1>8, <1>9, <1>10, <1>11, <1>12, <1>13, <1>14, <1>15, <1>16
  DEF RegistryNext, ServiceStep

(* Reached: the cancellation of Server.Start's context reaches all it can, *)
(* so that what StopsUnlessUnreached excepts is all there is to except.    *)
THEOREM ServicesReached == RegistrySpec => []Reached
<1>1. RegistryInit => Reached
  BY DEF RegistryInit, Reached
<1> QED
  BY <1>1, InvInit, InvStep, ReachedStep, PTL DEF RegistrySpec
=============================================================================
