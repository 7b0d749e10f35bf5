-------------------------------- MODULE Lobby --------------------------------
(***************************************************************************)
(* The server's lobbyService and the FinishLobby calls that upgrade it to  *)
(* a session.  The service is one goroutine that handles one command, or   *)
(* one tick of the broadcast timer, at a time; commands come from the      *)
(* server's own player, from the clients' packets (in any order, any       *)
(* number of times) and from FinishLobby, which spreads its five commands  *)
(* over three seconds.                                                     *)
(*                                                                         *)
(* Names, configurations, addresses and latencies are left out.  version   *)
(* only grows, so all a FinishLobby call can learn from it is whether it   *)
(* still equals its expectedVersion: that is fresh[f].                     *)
(***************************************************************************)
EXTENDS Integers, FiniteSets

CONSTANTS
    N,             \* how many slots LobbySetup has
    Clients,       \* the clients' tokens
    LocalActors,   \* the tokens of the server's own actors
    RemoteActors,  \* the tokens of the clients' actors
    NoToken,       \* the token 0
    Callers,       \* the goroutines that call FinishLobby
    HasBroadcast   \* broadcastAddr is set

Actors == LocalActors \cup RemoteActors

ASSUME LobbyConstants ==
    /\ N \in Nat \ {0}
    /\ LocalActors \cap RemoteActors = {}
    /\ NoToken \notin Actors \cup Clients
    /\ HasBroadcast \in BOOLEAN

Slots == 1..N

Free == [kind |-> "free", client |-> NoToken, actor |-> NoToken]

Local(a) == [kind |-> "local", client |-> NoToken, actor |-> a]

Remote(a, c) == [kind |-> "remote", client |-> c, actor |-> a]

LobbySlot ==
    {Free} \cup {Local(a) : a \in LocalActors}
           \cup {Remote(a, c) : a \in RemoteActors, c \in Clients}

States == {"Active", "Ready", "Starting3", "Starting2", "Starting1", "Starting"}

VARIABLES
    slots,     \* lobbyService.slots
    state,     \* lobbyService.state
    known,     \* the tokens in lobbyService.clients
    count,     \* clientInfo.Count, 0 for a token that is not in clients
    timer,     \* broadcastTimer is armed
    open,      \* the service's context is not cancelled
    fin,       \* where each FinishLobby call is: -1 none, else Finish commands done
    fresh,     \* whether its expectedVersion equals version
    told,      \* history: the last Setup sent has the present slots and state
    intact     \* history: slots are as they were at the call's Get

lobbyVars == <<slots, state, known, count>>

vars == <<lobbyVars, timer, open, fin, fresh, told, intact>>

Init ==
    /\ slots = [i \in Slots |-> Free]
    /\ state = "Active"
    /\ known = {}
    /\ count = [c \in Clients |-> 0]
    /\ timer = TRUE
    /\ open = TRUE
    /\ fin = [f \in Callers |-> -1]
    /\ fresh = [f \in Callers |-> FALSE]
    /\ told = FALSE
    /\ intact = [f \in Callers |-> FALSE]
-----------------------------------------------------------------------------
IsAvailable(i) == slots[i].kind = "free"

(* mutant: a version that forgets the last slot. *)
StateOfAllButLast(sl) == IF \E i \in Slots \ {N} : sl[i].kind = "free" THEN "Active" ELSE "Ready"

(* updateState *)
StateOf(sl) == IF \E i \in Slots : sl[i].kind = "free" THEN "Active" ELSE "Ready"

(* The loops over the slots stop at the first one that holds the actor.    *)
IsSeat(i, a) == slots[i].actor = a /\ \A j \in Slots : j < i => slots[j].actor # a

Seats(a) == {i \in Slots : IsSeat(i, a)}

WithoutActor(a) == [i \in Slots |-> IF IsSeat(i, a) THEN Free ELSE slots[i]]

(* evictClient's loop over the slots. *)
WithoutClient(c) == [i \in Slots |-> IF slots[i].client = c THEN Free ELSE slots[i]]

(* mutant: a version that leaves the version number alone. *)
AfterSameVersion(changed) ==
    /\ timer' = (timer \/ changed)
    /\ fresh' = fresh
    /\ told' = (told /\ <<slots', state'>> = <<slots, state>>)
    /\ intact' = [f \in Callers |-> intact[f] /\ slots' = slots]
    /\ UNCHANGED <<open, fin>>

(* After a command: one that changed something increments the version and  *)
(* makes the next broadcast due.                                           *)
After(changed) ==
    /\ timer' = (timer \/ changed)
    /\ fresh' = [f \in Callers |-> fresh[f] /\ ~changed]
    /\ told' = (told /\ <<slots', state'>> = <<slots, state>>)
    /\ intact' = [f \in Callers |-> intact[f] /\ slots' = slots]
    /\ UNCHANGED <<open, fin>>

(* A command takes over the changed slots. *)
Update(sl, st) == slots' = sl /\ state' = st
-----------------------------------------------------------------------------
(* localJoin: a free slot, or the one the actor has already.  A join of a  *)
(* slot that another actor holds is refused and changes nothing.           *)
LocalJoin(a, i) ==
    /\ open
    /\ IsAvailable(i) \/ slots[i].actor = a
    /\ LET sl == IF IsAvailable(i) THEN WithoutActor(a) ELSE slots
           new == [sl EXCEPT ![i] = Local(a)]
       IN  Update(new, StateOf(new))
    /\ UNCHANGED <<known, count>>
    /\ After(TRUE)

LocalLeave(a) ==
    /\ open
    /\ Seats(a) # {}
    /\ Update(WithoutActor(a), "Active")
    /\ UNCHANGED <<known, count>>
    /\ After(TRUE)

(* remoteJoin looks for the actor in the wanted slot, then in all of them. *)
SeatFor(a, i) == IF slots[i].actor = a THEN {i} ELSE Seats(a)

(* remoteJoin of an actor that holds no slot. *)
JoinNew(a, c, i) ==
    /\ open
    /\ IsAvailable(i)
    /\ Seats(a) = {}
    /\ LET new == [slots EXCEPT ![i] = Remote(a, c)] IN Update(new, StateOf(new))
    /\ known' = known \cup {c}
    /\ count' = [count EXCEPT ![c] = @ + 1]
    /\ After(TRUE)

(* mutant: a version without the decClient. *)
JoinAgainCounted(a, c, i) ==
    /\ open
    /\ IsAvailable(i) \/ slots[i].actor = a
    /\ \E j \in SeatFor(a, i) :
         /\ slots[j].client = c
         /\ LET new == [slots EXCEPT ![j] = Free, ![i] = Remote(a, c)]
            IN  Update(new, StateOf(new))
         /\ count' = IF j = i THEN count ELSE [count EXCEPT ![c] = @ + 1]
    /\ known' = known \cup {c}
    /\ After(TRUE)

(* remoteJoin of an actor that holds a slot, this one or another, from the *)
(* same client: touchClient, or decClient and incClient.                   *)
JoinAgain(a, c, i) ==
    /\ open
    /\ IsAvailable(i) \/ slots[i].actor = a
    /\ \E j \in SeatFor(a, i) :
         /\ slots[j].client = c
         /\ LET new == [slots EXCEPT ![j] = Free, ![i] = Remote(a, c)]
            IN  Update(new, StateOf(new))
    /\ known' = known \cup {c}
    /\ UNCHANGED count
    /\ After(TRUE)

(* remoteJoin of an actor that another client brought: that client is      *)
(* evicted with all its actors.                                            *)
JoinFromOther(a, c, i) ==
    /\ open
    /\ IsAvailable(i) \/ slots[i].actor = a
    /\ \E j \in SeatFor(a, i) :
         LET old == slots[j].client
             new == [WithoutClient(old) EXCEPT ![i] = Remote(a, c)]
         IN  /\ old # c
             /\ Update(new, StateOf(new))
             /\ known' = (known \ {old}) \cup {c}
             /\ count' = [count EXCEPT ![old] = 0, ![c] = @ + 1]
    /\ After(TRUE)

(* remoteLeave with the actor token 0. *)
LeaveAll(c) ==
    /\ open
    /\ \E i \in Slots : slots[i].client = c
    /\ Update(WithoutClient(c), "Active")
    /\ known' = known \cup {c}
    /\ count' = [count EXCEPT ![c] = 0]
    /\ After(TRUE)

RemoteLeave(a, c) ==
    /\ open
    /\ \E i \in Slots :
         /\ slots[i].actor = a
         /\ slots[i].client = c
         /\ \A j \in Slots : j < i => slots[j] # Remote(a, c)
         /\ Update([slots EXCEPT ![i] = Free], "Active")
    /\ known' = known \cup {c}
    /\ count' = [count EXCEPT ![c] = @ - 1]
    /\ After(TRUE)

(* lobbyEvictClientReq: the client is forgotten even if it had no slot,    *)
(* which alone is no change.                                               *)
EvictClient(c) ==
    /\ open
    /\ LET changed == \E i \in Slots : slots[i].client = c
       IN  /\ Update(WithoutClient(c), IF changed THEN "Active" ELSE state)
           /\ After(changed)
    /\ known' = known \ {c}
    /\ count' = [count EXCEPT ![c] = 0]

(* evictActor, for Evict and for EvictIdx, whose unsynchronised look at    *)
(* the slot may give any token that was there, the token 0 included.       *)
EvictActor(a) ==
    /\ open
    /\ \E i \in Seats(a) :
         /\ count' = IF slots[i].kind = "remote" THEN [count EXCEPT ![slots[i].client] = @ - 1]
                     ELSE count
         /\ known' = IF slots[i].kind = "remote" THEN known \cup {slots[i].client} ELSE known
         /\ Update(WithoutActor(a), "Active")
    /\ After(TRUE)

(* remoteRequest: it counts as a change because it updates the latency. *)
RemoteRequest(c) ==
    /\ open
    /\ known' = known \cup {c}
    /\ UNCHANGED <<slots, state, count>>
    /\ After(TRUE)

ChangeName ==
    /\ open
    /\ UNCHANGED lobbyVars
    /\ After(TRUE)

(* mutant: a version that never re-arms the timer. *)
BroadcastOnce ==
    /\ open
    /\ timer
    /\ timer' = FALSE
    /\ told' = TRUE
    /\ \E silent \in SUBSET {c \in known : count[c] <= 0} :
         /\ known' = known \ silent
         /\ count' = [c \in Clients |-> IF c \in silent THEN 0 ELSE count[c]]
    /\ UNCHANGED <<slots, state, open, fin, fresh, intact>>

(* The broadcast timer: it is armed again only while the lobby is open for *)
(* players and has an address to broadcast to; every known client gets a   *)
(* Setup, and clients without actors that were silent for long are dropped.*)
Broadcast ==
    /\ open
    /\ timer
    /\ timer' = (state = "Active" /\ HasBroadcast)
    /\ told' = TRUE
    /\ \E silent \in SUBSET {c \in known : count[c] <= 0} :
         /\ known' = known \ silent
         /\ count' = [c \in Clients |-> IF c \in silent THEN 0 ELSE count[c]]
    /\ UNCHANGED <<slots, state, open, fin, fresh, intact>>
-----------------------------------------------------------------------------
(* FinishLobby's Get, which must find the lobby ready. *)
FinishGet(f) ==
    /\ open
    /\ fin[f] = -1
    /\ state = "Ready"
    /\ fin' = [fin EXCEPT ![f] = 0]
    /\ fresh' = [fresh EXCEPT ![f] = TRUE]
    /\ intact' = [intact EXCEPT ![f] = TRUE]
    /\ UNCHANGED <<lobbyVars, timer, open, told>>

NextStarting ==
    [Ready |-> "Starting3", Starting3 |-> "Starting2", Starting2 |-> "Starting1",
     Starting1 |-> "Starting", Starting |-> "Starting"]

(* mutant: a version without the version check. *)
CanFinishAnyVersion(f) == state # "Active"

CanFinish(f) == state # "Active" /\ fresh[f]

(* One of the four Finish commands; the caller expects the version that    *)
(* its own command leads to.                                               *)
Finish(f) ==
    /\ open
    /\ fin[f] \in 0..3
    /\ CanFinish(f)
    /\ state' = NextStarting[state]
    /\ fin' = [fin EXCEPT ![f] = @ + 1]
    /\ fresh' = [g \in Callers |-> g = f]
    /\ timer' = TRUE
    /\ told' = (told /\ state' = state)
    /\ UNCHANGED <<slots, known, count, open, intact>>

(* ErrLobbyNotReady, the caller's context, or the end of the service: the  *)
(* call returns and the count-down stays where it is.                      *)
FinishGivesUp(f) ==
    /\ fin[f] \in 0..3
    /\ ~open \/ ~CanFinish(f) \/ fin[f] > 0
    /\ fin' = [fin EXCEPT ![f] = -1]
    /\ fresh' = [fresh EXCEPT ![f] = FALSE]
    /\ intact' = [intact EXCEPT ![f] = FALSE]
    /\ UNCHANGED <<lobbyVars, timer, open, told>>

(* After the last response FinishLobby cancels the service.  Until then it *)
(* still handles commands.                                                 *)
CancelLobby(f) ==
    /\ fin[f] = 4
    /\ open' = FALSE
    /\ fin' = [fin EXCEPT ![f] = 5]
    /\ UNCHANGED <<lobbyVars, timer, fresh, told, intact>>

(* The context given to StartLobby is cancelled. *)
StopLobby ==
    /\ open
    /\ open' = FALSE
    /\ UNCHANGED <<lobbyVars, timer, fin, fresh, told, intact>>
-----------------------------------------------------------------------------
Next ==
    \/ \E a \in LocalActors : LocalLeave(a) \/ \E i \in Slots : LocalJoin(a, i)
    \/ \E a \in RemoteActors, c \in Clients :
         \/ RemoteLeave(a, c)
         \/ \E i \in Slots : JoinNew(a, c, i) \/ JoinAgain(a, c, i) \/ JoinFromOther(a, c, i)
    \/ \E c \in Clients : LeaveAll(c) \/ EvictClient(c) \/ RemoteRequest(c)
    \/ \E a \in Actors \cup {NoToken} : EvictActor(a)
    \/ ChangeName
    \/ Broadcast
    \/ StopLobby
    \/ \E f \in Callers : FinishGet(f) \/ Finish(f) \/ FinishGivesUp(f) \/ CancelLobby(f)

Spec == Init /\ [][Next]_vars
-----------------------------------------------------------------------------
(* Every slot is free or holds an actor with its client, and the           *)
(* count-downs are where FinishLobby's loop can be.                        *)
TypeOK ==
    /\ slots \in [Slots -> LobbySlot]
    /\ state \in States
    /\ known \subseteq Clients
    /\ count \in [Clients -> Int]
    /\ timer \in BOOLEAN
    /\ open \in BOOLEAN
    /\ told \in BOOLEAN
    /\ fin \in [Callers -> -1..5]
    /\ fresh \in [Callers -> BOOLEAN]
    /\ intact \in [Callers -> BOOLEAN]

(* The counter of a client, which decides whether it may be dropped and    *)
(* which actors it is told about, is the number of slots it holds, through *)
(* moves between slots, changes of client, leaves and evictions; a client  *)
(* that holds a slot is never dropped from the map, so that every remote   *)
(* player of a session has an address.                                     *)
CountMatches ==
    \A c \in Clients :
      /\ count[c] = Cardinality({i \in Slots : slots[i].client = c})
      /\ count[c] > 0 => c \in known

(* No actor sits in two slots, however its joins are repeated.             *)
OneSlotPerActor ==
    \A i, j \in Slots : slots[i].actor = slots[j].actor => i = j \/ slots[i] = Free

(* The state says "active" exactly while a slot is free: join maintains it *)
(* with updateState, every removal by assignment.                          *)
ReadyIffFull == state = "Active" <=> \E i \in Slots : slots[i] = Free

(* Whichever commands came in which order, no actor holds two slots and    *)
(* the lobby is ready, so that FinishLobby may count down, exactly when it *)
(* is full.                                                                *)
SlotsSound == OneSlotPerActor /\ ReadyIffFull

(* No change of the slots or of the state stays unannounced: until a Setup *)
(* with it was sent the timer is armed; and a lobby that waits for players *)
(* never stops broadcasting.                                               *)
Announced ==
    /\ told \/ timer
    /\ HasBroadcast /\ state = "Active" => timer

(* A running count-down owns the state: of the FinishLobby calls whose     *)
(* Finish was accepted at most one can go on, and it finds the state where *)
(* it left it.                                                             *)
OneCountdown ==
    \A f \in Callers : fin[f] \in 0..3 /\ fresh[f] =>
      /\ state = <<"Ready", "Starting3", "Starting2", "Starting1">>[fin[f] + 1]
      /\ fin[f] > 0 => \A g \in Callers \ {f} : fin[g] \in 0..3 => ~fresh[g]

(* FinishLobby returns a session only for a lobby that was full at its Get *)
(* and whose slots did not change in the three seconds of the count-down.  *)
SessionSound ==
    [][\A f \in Callers : fin'[f] = 4 /\ fin[f] # 4 =>
         intact[f] /\ \A i \in Slots : slots[i] # Free]_vars
==============================================================================
