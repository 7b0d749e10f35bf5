--------------------------- MODULE LobbyListener ---------------------------
(***************************************************************************)
(* client.LobbyListener: the list of lobbies a client has heard of through *)
(* broadcast Setups.  Every Setup and every Refresh walks the whole list   *)
(* in place (updateData, under the mutex): the entry of the Setup's lobby  *)
(* is updated, the others age, and stale ones are cut out.                 *)
(*                                                                         *)
(* A lobby is a pair of address and token; what a Setup says of it is one  *)
(* value.  The clock is counted in units of the shortest threshold.        *)
(***************************************************************************)
EXTENDS StreamOps, Sequences

CONSTANTS
    Lobbies,     \* the pairs of address and token that are heard of
    Infos,       \* what a Setup says of a lobby
    RecentAfter, \* 3500 ms
    OldAfter,    \* 6500 ms
    StaleAfter,  \* 20 s
    MaxVersion   \* bound: how often the list changes

VARIABLES
    data,     \* LobbyListener.data
    version,  \* LobbyListener.version
    heard,    \* history: what the last Setup of each lobby said
    overtaken \* history: the lobbies whose last Setup came when an entry before theirs changed

vars == <<data, version, heard, overtaken>>

MaxAge == StaleAfter + 1

(* The time since LatestTime, as far as it matters, is kept in the entry.  *)
Entry(l, info, age, state) == [lobby |-> l, info |-> info, age |-> age, state |-> state]

StateOf(age) ==
    CASE age > StaleAfter -> "Stale"
      [] age > OldAfter /\ age <= StaleAfter -> "Old"
      [] age > RecentAfter /\ age <= OldAfter -> "Recent"
      [] age <= RecentAfter -> "Fresh"

Init ==
    /\ data = << >>
    /\ version = 0
    /\ heard = [l \in Lobbies |-> CHOOSE x \in Infos : TRUE]
    /\ overtaken = {}

Tick ==
    /\ \E k \in DOMAIN data : data[k].age < MaxAge
    /\ data' = [k \in DOMAIN data |->
                  IF data[k].age < MaxAge THEN [data[k] EXCEPT !.age = @ + 1] ELSE data[k]]
    /\ UNCHANGED <<version, heard, overtaken>>

(* The state updateData gives entry e; who is the lobby of the Setup, and  *)
(* empty for a Refresh.                                                    *)
NewState(e, who) == IF e.lobby \in who THEN "Fresh" ELSE StateOf(e.age)

ChangesIfHeard(e, who, info) == \* mutant: a new state alone is no change
    e.lobby \in who /\ (info # e.info \/ e.state # "Fresh")

(* What sets changed when the walk comes to e.  A stale entry is cut out.  *)
Changes(e, who, info) ==
    \/ NewState(e, who) # e.state
    \/ NewState(e, who) = "Stale"
    \/ e.lobby \in who /\ info # e.info

ChangesBefore(k, who, info) == \E j \in 1..(k - 1) : Changes(data[j], who, info)

VisitedIfFresh(k, who, info) == \* mutant: an entry is updated only while it is fresh
    LET e == data[k]
    IN IF e.lobby \notin who THEN [e EXCEPT !.state = NewState(e, who)]
       ELSE Entry(e.lobby, IF ChangesBefore(k, who, info) \/ e.state # "Fresh" THEN e.info ELSE info,
                  0, "Fresh")

(* What the walk makes of the entry at k: `changed || updateLobby(...)`    *)
(* leaves what it says as it is when an entry before it has changed.       *)
Visited(k, who, info) ==
    LET e == data[k]
    IN IF e.lobby \notin who THEN [e EXCEPT !.state = NewState(e, who)]
       ELSE Entry(e.lobby, IF ChangesBefore(k, who, info) THEN e.info ELSE info, 0, "Fresh")

(* updateData's walk: the entries that stay, in their order, and whether   *)
(* any of them was the Setup's and any entry has changed.                  *)
Walk(who, info) ==
    LET kept == Sorted({k \in DOMAIN data : NewState(data[k], who) # "Stale"})
    IN [list |-> [i \in DOMAIN kept |-> Visited(kept[i], who, info)],
        found |-> \E k \in DOMAIN data : data[k].lobby \in who,
        changed |-> \E k \in DOMAIN data : Changes(data[k], who, info)]

Update(list, changed) ==
    /\ data' = list
    /\ version' = IF changed THEN version + 1 ELSE version

(* HandleBroadcastMessages with a Setup. *)
HandleSetup(l, info) ==
    /\ version < MaxVersion
    /\ LET w == Walk({l}, info)
       IN IF w.found THEN Update(w.list, w.changed)
          ELSE Update(Append(w.list, Entry(l, info, 0, "Fresh")), TRUE)
    /\ heard' = [heard EXCEPT ![l] = info]
    /\ overtaken' =
         IF \E j, k \in DOMAIN data :
              j < k /\ data[k].lobby = l /\ StateOf(data[j].age) # data[j].state
         THEN overtaken \cup {l} ELSE overtaken \ {l}

Refresh ==
    /\ version < MaxVersion
    /\ LET w == Walk({}, CHOOSE x \in Infos : TRUE) IN Update(w.list, w.changed)
    /\ UNCHANGED <<heard, overtaken>>

Next ==
    \/ Tick
    \/ Refresh
    \/ \E l \in Lobbies, info \in Infos : HandleSetup(l, info)

Spec == Init /\ [][Next]_vars
-----------------------------------------------------------------------------
(* What List returns to a reader whose version is not the present one. *)
List == [k \in DOMAIN data |->
           [lobby |-> data[k].lobby, info |-> data[k].info, state |-> data[k].state]]

(* The list shows of every lobby what its last Setup said, in whatever     *)
(* order Setups, refreshes and removals come; except that a Setup is not   *)
(* taken in when an older entry of the list changes in the same walk: then *)
(* the lobby's next Setup is.                                              *)
ShowsLatest ==
    \A k \in DOMAIN data :
        data[k].info = heard[data[k].lobby] \/ data[k].lobby \in overtaken

(* A reader that polls List with the version it has misses no change: the  *)
(* list it would get changes only together with the version.               *)
VersionTells == [][List' # List => version' # version]_vars
=============================================================================
