------------------------------ MODULE Registry ------------------------------
(***************************************************************************)
(* server.Server as the registry of its services: the maps of lobbies,     *)
(* sessions and clients, the goroutine that runs each service and takes it *)
(* out of the maps, FinishLobby, and Server.Start, which cancels what it   *)
(* finds in the maps and waits for the goroutines.  A step is what the     *)
(* code does under the server's mutex, or a step of a goroutine outside.   *)
(*                                                                         *)
(* What the services do is the matter of Lobby and Session.  Used here: a  *)
(* cancelled service ends (Session says when it does not), and of the      *)
(* FinishLobby calls for one lobby at most one gets through the count-down *)
(* (Lobby's OneCountdown).                                                 *)
(***************************************************************************)
EXTENDS Naturals

CONSTANTS
    Tokens,       \* the tokens of lobbies and sessions
    ClientTokens, \* the clients' tokens
    MaxServices,  \* bound: how many services are started
    Finishers,    \* the goroutines that call FinishLobby
    None,         \* no entry
    LateStarts    \* services are also started when the server's context is cancelled

(* Services are numbered in the order they are started. *)
Services == 1..MaxServices

ASSUME RegistryConstants ==
    /\ MaxServices \in Nat
    /\ None \notin Services
    /\ LateStarts \in BOOLEAN

VARIABLES
    lobbyMap,   \* Server.lobbyMap
    sessionMap, \* Server.sessionMap
    clientMap,  \* Server.clientMap, by the session the client belongs to
    srv,        \* each service and the goroutine that runs it
    counted,    \* the lobbies whose last Finish command was accepted
    finishing,  \* where each FinishLobby call is, and its lobby
    server,     \* where Server.Start is
    overlap,    \* history: the lobbies begun before an earlier one of the token was over
    late        \* history: the services begun after Server.Start looked at the maps

maps == <<lobbyMap, sessionMap, clientMap>>

history == <<overlap, late>>

registryVars == <<maps, srv, counted, finishing, server, history>>

Unused == [at |-> "unused"]

(* startLobby and startSession: the goroutine runs the service ("runs"),   *)
(* then waits for the mutex ("ends"), then it is gone.                     *)
Started(kind, t, C) ==
    [at |-> "runs", kind |-> kind, token |-> t, clients |-> C, cancelled |-> FALSE]

IsLive(s) == srv[s].at \in {"runs", "ends"}

Live(kind) == {s \in Services : IsLive(s) /\ srv[s].kind = kind}

Idle == [at |-> "idle"]

RegistryInit ==
    /\ lobbyMap = [t \in Tokens |-> None]
    /\ sessionMap = [t \in Tokens |-> None]
    /\ clientMap = [c \in ClientTokens |-> None]
    /\ srv = [s \in Services |-> Unused]
    /\ counted = {}
    /\ finishing = [f \in Finishers |-> Idle]
    /\ server = "up"
    /\ overlap = {}
    /\ late = {}
-----------------------------------------------------------------------------
(* The service that is started next. *)
MayStart(s) ==
    /\ srv[s] = Unused
    /\ \A r \in Services : r < s => srv[r] # Unused
    /\ LateStarts \/ server = "up"

NoteLate(s) == late' = IF server \in {"waiting", "down"} THEN late \cup {s} ELSE late

(* An earlier lobby of the token still runs, or its FinishLobby call still *)
(* has to delete the token.                                                *)
NotOver(t) ==
    \/ \E s \in Live("lobby") : srv[s].token = t
    \/ \E f \in Finishers : finishing[f].at = "made" /\ srv[finishing[f].lobby].token = t

(* startLobby, for StartLobby and StartLobbyNoBroadcast: the token must    *)
(* name no lobby and no session.                                           *)
StartLobby(s, t) ==
    /\ MayStart(s)
    /\ lobbyMap[t] = None
    /\ sessionMap[t] = None
    /\ lobbyMap' = [lobbyMap EXCEPT ![t] = s]
    /\ srv' = [srv EXCEPT ![s] = Started("lobby", t, {})]
    /\ overlap' = IF NotOver(t) THEN overlap \cup {s} ELSE overlap
    /\ NoteLate(s)
    /\ UNCHANGED <<sessionMap, clientMap, counted, finishing, server>>

(* mutant: a version without the check for duplicate clients. *)
CanStartTwice(t, C) == lobbyMap[t] = None /\ sessionMap[t] = None

CanStart(t, C) ==
    /\ lobbyMap[t] = None
    /\ \A c \in C : clientMap[c] = None
    /\ sessionMap[t] = None

(* StartSession and startSession *)
StartSession(s, t, C) ==
    /\ MayStart(s)
    /\ CanStart(t, C)
    /\ clientMap' = [c \in ClientTokens |-> IF c \in C THEN s ELSE clientMap[c]]
    /\ sessionMap' = [sessionMap EXCEPT ![t] = s]
    /\ srv' = [srv EXCEPT ![s] = Started("session", t, C)]
    /\ NoteLate(s)
    /\ UNCHANGED <<lobbyMap, counted, finishing, server, overlap>>

Cancelled(S) == [s \in Services |-> IF s \in S /\ IsLive(s)
                                    THEN [srv[s] EXCEPT !.cancelled = TRUE] ELSE srv[s]]

(* The owner cancels the context it gave to StartLobby or StartSession. *)
CancelService(s) ==
    /\ srv[s].at = "runs"
    /\ srv' = Cancelled({s})
    /\ UNCHANGED <<maps, counted, finishing, server, history>>

(* The service's Start returns. *)
ServiceEnds(s) ==
    /\ srv[s].at = "runs"
    /\ srv[s].cancelled
    /\ srv' = [srv EXCEPT ![s].at = "ends"]
    /\ UNCHANGED <<maps, counted, finishing, server, history>>

(* The end of a lobby's goroutine: the entry is deleted by its token. *)
CleanUpLobby(s) ==
    /\ srv[s].at = "ends"
    /\ srv[s].kind = "lobby"
    /\ lobbyMap' = [lobbyMap EXCEPT ![srv[s].token] = None]
    /\ srv' = [srv EXCEPT ![s].at = "gone"]
    /\ UNCHANGED <<sessionMap, clientMap, counted, finishing, server, history>>

(* The end of a session's goroutine. *)
CleanUpSession(s) ==
    /\ srv[s].at = "ends"
    /\ srv[s].kind = "session"
    /\ clientMap' = [c \in ClientTokens |-> IF c \in srv[s].clients THEN None ELSE clientMap[c]]
    /\ sessionMap' = [sessionMap EXCEPT ![srv[s].token] = None]
    /\ srv' = [srv EXCEPT ![s].at = "gone"]
    /\ UNCHANGED <<lobbyMap, counted, finishing, server, history>>
-----------------------------------------------------------------------------
(* FinishLobby finds the lobby of its token, ... *)
FinishLobby(f, t) ==
    /\ finishing[f] = Idle
    /\ lobbyMap[t] # None
    /\ finishing' = [finishing EXCEPT ![f] = [at |-> "counting", lobby |-> lobbyMap[t]]]
    /\ UNCHANGED <<maps, srv, counted, server, history>>

(* ... gets its last Finish command accepted, ... *)
FinishCounted(f) ==
    /\ finishing[f].at = "counting"
    /\ srv[finishing[f].lobby].at = "runs"
    /\ finishing[f].lobby \notin counted
    /\ counted' = counted \cup {finishing[f].lobby}
    /\ finishing' = [finishing EXCEPT ![f].at = "made"]
    /\ UNCHANGED <<maps, srv, server, history>>

(* mutant: a version that deletes the entry on every way out. *)
FinishFailsDeletes(f) ==
    /\ finishing[f].at = "counting"
    /\ lobbyMap' = [lobbyMap EXCEPT ![srv[finishing[f].lobby].token] = None]
    /\ finishing' = [finishing EXCEPT ![f] = Idle]
    /\ UNCHANGED <<sessionMap, clientMap, srv, counted, server, history>>

(* ... or fails at any point of the count-down, ... *)
FinishFails(f) ==
    /\ finishing[f].at = "counting"
    /\ finishing' = [finishing EXCEPT ![f] = Idle]
    /\ UNCHANGED <<maps, srv, counted, server, history>>

(* ... and in the end cancels that lobby, deletes what the token names now *)
(* and returns the session, which its caller may start or not.             *)
FinishDeletes(f) ==
    /\ finishing[f].at = "made"
    /\ srv' = Cancelled({finishing[f].lobby})
    /\ lobbyMap' = [lobbyMap EXCEPT ![srv[finishing[f].lobby].token] = None]
    /\ finishing' = [finishing EXCEPT ![f] = Idle]
    /\ UNCHANGED <<sessionMap, clientMap, counted, server, history>>
-----------------------------------------------------------------------------
(* The context of Server.Start is cancelled. *)
CancelServer ==
    /\ server = "up"
    /\ server' = "cancelled"
    /\ UNCHANGED <<maps, srv, counted, finishing, history>>

(* mutant: a version that forgets the lobbies. *)
RegisteredSessions == {sessionMap[t] : t \in Tokens}

Registered == {sessionMap[t] : t \in Tokens} \cup {lobbyMap[t] : t \in Tokens}

(* Server.Start cancels every service in the maps under the mutex, ... *)
CancelAll ==
    /\ server = "cancelled"
    /\ srv' = Cancelled(Registered)
    /\ server' = "waiting"
    /\ UNCHANGED <<maps, counted, finishing, history>>

(* ... and waits for servicesWG. *)
Wait ==
    /\ server = "waiting"
    /\ \A s \in Services : ~IsLive(s)
    /\ server' = "down"
    /\ UNCHANGED <<maps, srv, counted, finishing, history>>

ServiceStep(s) == ServiceEnds(s) \/ CleanUpLobby(s) \/ CleanUpSession(s)

RegistryNext ==
    \/ \E s \in Services, t \in Tokens :
         StartLobby(s, t) \/ \E C \in SUBSET ClientTokens : StartSession(s, t, C)
    \/ \E s \in Services : CancelService(s) \/ ServiceStep(s)
    \/ \E f \in Finishers : FinishCounted(f) \/ FinishFails(f) \/ FinishDeletes(f)
    \/ \E f \in Finishers, t \in Tokens : FinishLobby(f, t)
    \/ CancelServer
    \/ CancelAll
    \/ Wait

RegistrySpec == RegistryInit /\ [][RegistryNext]_registryVars

(* Goroutines that can go on do so; nothing is assumed of the owners of    *)
(* the contexts or of the callers of FinishLobby.                          *)
Fairness ==
    /\ \A s \in Services : WF_registryVars(ServiceStep(s))
    /\ WF_registryVars(CancelAll)
    /\ WF_registryVars(Wait)

FairSpec == RegistrySpec /\ Fairness
-----------------------------------------------------------------------------
(* Sessions are registered as long as they live, with exactly their        *)
(* clients, so that no message for a client is lost or reaches another     *)
(* session; no entry outlives its service, and no token names both a lobby *)
(* and a session, although entries are deleted by token, at any time, by   *)
(* the goroutines of services and by FinishLobby.                          *)
MapsExact ==
    /\ \A s \in Live("session") :
         /\ sessionMap[srv[s].token] = s
         /\ \A c \in srv[s].clients : clientMap[c] = s
    /\ \A c \in ClientTokens : clientMap[c] # None =>
         clientMap[c] \in Live("session") /\ c \in srv[clientMap[c]].clients
    /\ \A t \in Tokens :
         /\ lobbyMap[t] # None => lobbyMap[t] \in Live("lobby") /\ sessionMap[t] = None
         /\ sessionMap[t] # None => sessionMap[t] \in Live("session")

(* A lobby nobody has cancelled is found under its token, so that its      *)
(* clients reach it and no second lobby takes the token: only a lobby that *)
(* was begun before an earlier one of its token was over may lose its      *)
(* entry, to the clean-up of that earlier one.                             *)
LobbyFound ==
    \A s \in Live("lobby") \ overlap :
        srv[s].cancelled \/ lobbyMap[srv[s].token] = s

(* Whatever was started, finished and cleaned up in whatever order, the    *)
(* maps lead to the services that live and to nothing else.                *)
MapsSound == MapsExact /\ LobbyFound

(* Cancelling the context of Server.Start stops every service and ends     *)
(* Start, unless a service was begun too late for it, or one that had lost *)
(* its entry runs on.                                                      *)
Unreached == \E s \in overlap \cup late : srv[s].at = "runs" /\ ~srv[s].cancelled

StopsUnlessUnreached == (server = "cancelled") ~> (server = "down" \/ Unreached)

(* Start's comment: "To stop the server, cancel the provided context." *)
ServerStops == (server = "cancelled") ~> (server = "down")
=============================================================================
