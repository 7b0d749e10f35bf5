------------------------------ MODULE MCServer ------------------------------
(***************************************************************************)
(* The server's lobbies and the registry of its services for TLC.  They    *)
(* share no state (Registry says what it uses of Lobby); a behaviour is    *)
(* one of the two.                                                         *)
(***************************************************************************)
EXTENDS Lobby, Registry

VARIABLE part

allVars == <<part, vars, registryVars>>

AllInit == part \in {"lobby", "registry"} /\ Init /\ RegistryInit

AllNext ==
    /\ part' = part
    /\ \/ part = "lobby" /\ Next /\ UNCHANGED registryVars
       \/ part = "registry" /\ RegistryNext /\ UNCHANGED vars

(* Nothing is assumed of the lobby's callers.  Where the registry is not   *)
(* looked at, its Start is not cancelled and none of its steps is due.     *)
AllSpec == AllInit /\ [][AllNext]_allVars /\ Fairness
=============================================================================
