---------------------------- MODULE MCEndpoints ----------------------------
(***************************************************************************)
(* The goroutines at the two ends of the network for TLC: the UDP service, *)
(* the client of a session and the client's lobby.  They share no state; a *)
(* behaviour is one of the three.                                          *)
(***************************************************************************)
EXTENDS UdpService, LobbyClientState

CONSTANTS MaxEvents, MaxMsgs \* of ClientSession

ASSUME ClientConstants == MaxEvents \in Nat /\ MaxMsgs \in Nat

VARIABLES
    part,
    aborted, at, events, msgs, closed, start, call \* of ClientSession

Client == INSTANCE ClientSession WITH cancelled <- aborted

InLobby == INSTANCE LobbyClient

clientVars == <<aborted, at, events, msgs, closed, start, call>>

lobbyVars == <<data, armed, cancelled, finished, pc, wg, caller, left, early, dropped, result>>

allVars == <<part, vars, clientVars, lobbyVars>>

AllInit ==
    /\ part \in {"service", "client", "lobby"}
    /\ Init
    /\ Client!Init
    /\ InLobby!Init

AllNext ==
    /\ part' = part
    /\ \/ part = "service" /\ Next /\ UNCHANGED <<clientVars, lobbyVars>>
       \/ part = "client" /\ Client!Next /\ UNCHANGED <<vars, lobbyVars>>
       \/ part = "lobby" /\ InLobby!Next /\ UNCHANGED <<vars, clientVars>>

(* An action of one part, which leaves the others alone. *)
Service(A) == part = "service" /\ A /\ UNCHANGED <<part, clientVars, lobbyVars>>

Session(A) == part = "client" /\ A /\ UNCHANGED <<part, vars, lobbyVars>>

Lobby(A) == part = "lobby" /\ ~InLobby!Panicked /\ A /\ UNCHANGED <<part, vars, clientVars>>

(* The fairness of the three parts.  Of a disjunction of actions of        *)
(* different parts only one can ever be enabled in a behaviour.            *)
AllSpec ==
    /\ AllInit
    /\ [][AllNext]_allVars
    /\ WF_allVars(\/ Service(Live(Signal))
                  \/ Session(Client!SendMsg("ping"))
                  \/ Lobby(InLobby!CommandLoop))
    /\ WF_allVars(\/ Service(Live(Release))
                  \/ Session(Client!SendMsg("action"))
                  \/ Lobby(InLobby!SenderSent))
    /\ WF_allVars(\/ Service(Live(IdleTimer))
                  \/ Session(Client!SendMsg("story"))
                  \/ Lobby(InLobby!SendPing))
    /\ WF_allVars(\/ Service(Live(IdleStop))
                  \/ Session(Client!AbortWrite)
                  \/ Lobby(InLobby!Finisher))
    /\ WF_allVars(\/ Service(Live(RunStep \/ BindFails))
                  \/ Session(Client!CloseChannels)
                  \/ Lobby(InLobby!Start))
    /\ WF_allVars(Service(Live(Close)))
    /\ \A c \in Callers : WF_allVars(Lobby(InLobby!DropCommand(c) \/ InLobby!TakeCommand(c)))
    /\ SF_allVars(\/ Service(Live(AcceptExit))
                  \/ Session(Client!Exit("ping"))
                  \/ Lobby(InLobby!HandlePong))
    /\ SF_allVars(\/ Service(Live(ListenEnds))
                  \/ Session(Client!Exit("action"))
                  \/ Lobby(InLobby!ProcessCommand))
    /\ SF_allVars(\/ Service(Live(RunExit))
                  \/ Session(Client!Exit("story"))
                  \/ Lobby(InLobby!SendRequest))
    /\ SF_allVars(Session(Client!Take \/ Client!GiveUp) \/ Lobby(InLobby!ExitRequest))
    /\ SF_allVars(Lobby(InLobby!ExitPing))
-----------------------------------------------------------------------------
(* ClientSession's EndsCleanly: the client of a session ends without a     *)
(* send on a closed channel, a wait or a call left behind.                 *)
EndsCleanly == Client!EndsCleanly

(* LobbyClient's StartReturns: the end of the lobby ends Start, whatever   *)
(* is under way.                                                           *)
StartReturns == InLobby!StartReturns

(* LobbyClient's CallsReturn: no caller of the lobby stays blocked.        *)
CallsReturn == InLobby!CallsReturn
=============================================================================
