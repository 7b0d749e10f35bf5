--------------------------- MODULE LobbyClientState ---------------------------
(***************************************************************************)
(* The parameters and the state of LobbyClient, and the invariants that    *)
(* only look at the state.                                                 *)
(***************************************************************************)
EXTENDS Integers, FiniteSets

CONSTANTS
    LobbyStates, \* the states a Setup may have, of the byte's values
    Rests,       \* name, definition and slots of a lobby
    NoRest,      \* those of a Lobby that has received no Setup
    Callers,     \* the goroutines that call sendCommand
    MaxCalls     \* bound: the commands each of them sends

ASSUME LobbyClientConstants ==
    /\ LobbyStates \subseteq 0..255
    /\ NoRest \notin Rests
    /\ IsFiniteSet(Callers)
    /\ MaxCalls \in Nat

VARIABLES
    data,      \* Lobby.data
    armed,     \* finishTimer runs
    cancelled, \* Start's context is cancelled
    finished,  \* the finish timer ended the lobby
    pc,        \* where each goroutine is
    wg,        \* commandWg's counter
    caller,    \* where each caller is in sendCommand
    left,      \* how many commands it will still send
    early,     \* history: the callers with a command that began before the lobby's end
    dropped,   \* history: a command that began before the end was not sent
    result     \* what Start returned
-----------------------------------------------------------------------------
(* A command that began before the lobby ended is sent, although the end   *)
(* of the lobby is a case of both of its selects: the finisher closes      *)
(* doneCh only after commandWg.Wait.                                       *)
EarlyCommandsSent == ~dropped

(* pingCh and sendCh are closed only when no goroutine can send on them    *)
(* any more: a send on a closed channel is a panic.                        *)
NoSendAfterClose ==
    pc.start # "wait" => {pc.loop, pc.request, pc.ping} = {"exited"}
===============================================================================
