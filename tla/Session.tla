------------------------------- MODULE Session -------------------------------
(***************************************************************************)
(* The server's sessionService while it runs: the session loop, the send   *)
(* goroutine of every client, the calls of HandleStoryConfirm with the     *)
(* goroutines they leave behind, the clients' states, the controller's     *)
(* Suspend and Resume, and the end of it all when the context is           *)
(* cancelled.  What the packs contain is StoryChannel's matter.            *)
(*                                                                         *)
(* The channels are unbuffered, so a send and its receive are one step.    *)
(* A client's goroutine that takes a message writes it to the socket and   *)
(* is ready again: it is always ready until it ends.                       *)
(***************************************************************************)
EXTENDS Integers

CONSTANTS
    N,        \* how many clients the session has
    Calls,    \* bound: the HandleStoryConfirm calls at one time
    MaxPacks  \* bound: the packs of one answer

ASSUME SessionConstants == {N, MaxPacks} \subseteq Nat

Clients == 1..N

VARIABLES
    registered, \* the session and its clients are in sessionMap and clientMap
    cancelled,  \* the context is cancelled: doneCh is closed
    state,      \* sessionService.state
    suspended,  \* external: what the controller was told last
    loop,       \* where sessionService.start is
    runs,       \* whether clientService.Start has not ended
    cstate,     \* clientService.state
    heard,      \* the time since clientService.data.LastMsgReceived
    call,       \* where each HandleStoryConfirm call is
    closed      \* the calls whose responseCh is closed

clientVars == <<cstate, heard>>

vars == <<registered, cancelled, state, suspended, loop, runs, clientVars, call, closed>>

SessionState == {"New", "Active", "Degraded", "NotInSync", "Done"}

ClientState == {"New", "Good", "Lagging", "Lost"}

(* LastMsgReceived is zero; at most 1200 ms ago; at most 3 s; longer.      *)
Ages == {"never", "fresh", "slow", "old"}

(* The places of the loop: in its select; reading the state of client      *)
(* next; sending to client next; sending the packs of an answer.           *)
Select == [at |-> "select"]

Reading(c, worst) == [at |-> "reading", next |-> c, worst |-> worst]

Sending(c) == IF c > N THEN Select ELSE [at |-> "sending", next |-> c]

Answering(h, n) == [at |-> "answering", req |-> h, left |-> n]

(* The places of a call: in the select that asks the loop (doneCh may have *)
(* been nil when it was evaluated), in the one that waits for the first    *)
(* pack; then the goroutine it leaves behind, receiving a pack or sending  *)
(* it to the client.  A call that gave up while the loop answers it is     *)
(* gone.                                                                   *)
NoCall == [at |-> "idle"]

Ask(c, hasDone) == [at |-> "ask", client |-> c, hasDone |-> hasDone]

Place(at, c) == [at |-> at, client |-> c]

Gone == [at |-> "gone"]

(* A client from a lobby brings the time of its last message along. *)
NewClients ==
    /\ runs = [c \in Clients |-> TRUE]
    /\ cstate = [c \in Clients |-> "New"]
    /\ heard \in [Clients -> {"never", "fresh"}]

(* startSession has put the session and its clients into the maps. *)
Init ==
    /\ registered = TRUE
    /\ cancelled = FALSE
    /\ state = "New"
    /\ suspended = FALSE
    /\ loop = [at |-> "new"]
    /\ NewClients
    /\ call = [h \in Calls |-> NoCall]
    /\ closed = {}
-----------------------------------------------------------------------------
(* Start: from here on doneCh is there and the goroutines run. *)
Start ==
    /\ loop.at = "new"
    /\ state' = "Active"
    /\ loop' = Select
    /\ UNCHANGED <<registered, cancelled, suspended, runs, clientVars, call, closed>>

(* The owner cancels the context. *)
Cancel ==
    /\ ~cancelled
    /\ cancelled' = TRUE
    /\ UNCHANGED <<registered, state, suspended, loop, runs, clientVars, call, closed>>

(* The loop's select finds doneCh closed. *)
LoopDone ==
    /\ loop.at = "select"
    /\ cancelled
    /\ state' = "Done"
    /\ loop' = [at |-> "ended"]
    /\ UNCHANGED <<registered, cancelled, suspended, runs, clientVars, call, closed>>

(* A client's goroutine finds the context cancelled and closes its doneCh. *)
ClientDone(c) ==
    /\ loop.at # "new"
    /\ runs[c]
    /\ cancelled
    /\ runs' = [runs EXCEPT ![c] = FALSE]
    /\ cstate' = [cstate EXCEPT ![c] = "Lost"]
    /\ UNCHANGED <<registered, cancelled, state, suspended, loop, heard, call, closed>>

(* When all have returned the session leaves the maps. *)
CleanUp ==
    /\ registered
    /\ loop.at = "ended"
    /\ \A c \in Clients : ~runs[c]
    /\ registered' = FALSE
    /\ UNCHANGED <<cancelled, state, suspended, loop, runs, clientVars, call, closed>>
-----------------------------------------------------------------------------
(* The ticker: updateState reads every client's state ... *)
Tick ==
    /\ loop.at = "select"
    /\ loop' = Reading(1, "Active")
    /\ UNCHANGED <<registered, cancelled, state, suspended, runs, clientVars, call, closed>>

(* ... which GetState first brings up to date ... *)
GetState(c) ==
    IF heard[c] = "old" THEN "Lost"
    ELSE IF heard[c] = "slow" THEN "Lagging" ELSE cstate[c]

WorseLatest(worst, s) == \* mutant: a lagging client hides a lost one
    IF s = "Lost" THEN "NotInSync" ELSE IF s = "Lagging" THEN "Degraded" ELSE worst

Worse(worst, s) ==
    IF s = "Lost" THEN "NotInSync"
    ELSE IF s = "Lagging" /\ worst # "NotInSync" THEN "Degraded" ELSE worst

ReadState ==
    /\ loop.at = "reading"
    /\ loop.next \in Clients
    /\ LET c == loop.next
       IN /\ cstate' = [cstate EXCEPT ![c] = GetState(c)]
          /\ loop' = Reading(c + 1, Worse(loop.worst, GetState(c)))
    /\ UNCHANGED <<registered, cancelled, state, suspended, runs, heard, call, closed>>

(* ... tells the controller of a change, and reports to every client.      *)
Report ==
    /\ loop.at = "reading"
    /\ loop.next > N
    /\ state' = loop.worst
    /\ suspended' = IF state = "NotInSync" /\ loop.worst # "NotInSync" THEN FALSE
                    ELSE IF state # "NotInSync" /\ loop.worst = "NotInSync" THEN TRUE
                    ELSE suspended
    /\ loop' = Sending(1)
    /\ UNCHANGED <<registered, cancelled, runs, clientVars, call, closed>>

(* A story entry: a pack for every client. *)
StoryEntry ==
    /\ loop.at = "select"
    /\ loop' = Sending(1)
    /\ UNCHANGED <<registered, cancelled, state, suspended, runs, clientVars, call, closed>>

(* clientService.Send: the client's goroutine takes the message, or its    *)
(* doneCh is closed.                                                       *)
NeverDone(c) == FALSE \* mutant: Send without the doneCh

DoneCh(c) == ~runs[c]

Send(c) == runs[c] \/ DoneCh(c)

SendNext ==
    /\ loop.at = "sending"
    /\ Send(loop.next)
    /\ loop' = Sending(loop.next + 1)
    /\ UNCHANGED <<registered, cancelled, state, suspended, runs, clientVars, call, closed>>
-----------------------------------------------------------------------------
(* Any message of a client: UpdateState. *)
UpdateState(c) ==
    /\ heard' = [heard EXCEPT ![c] = "fresh"]
    /\ \E s \in {"Good", "Lagging"} : cstate' = [cstate EXCEPT ![c] = s]

Message(c) ==
    /\ registered
    /\ UpdateState(c)
    /\ UNCHANGED <<registered, cancelled, state, suspended, loop, runs, call, closed>>

(* Time passes without a message of client c. *)
Age(c) ==
    /\ heard[c] \in {"fresh", "slow"}
    /\ heard' = [heard EXCEPT ![c] = IF @ = "fresh" THEN "slow" ELSE "old"]
    /\ UNCHANGED <<registered, cancelled, state, suspended, loop, runs, cstate, call, closed>>

(* A StoryConfirm that misses something: the call turns to the loop.       *)
HandleStoryConfirm(h, c) ==
    /\ registered
    /\ call[h] = NoCall
    /\ UpdateState(c)
    /\ call' = [call EXCEPT ![h] = Ask(c, loop.at # "new")]
    /\ UNCHANGED <<registered, cancelled, state, suspended, loop, runs, closed>>

(* The loop takes the request and collects the packs of the answer. *)
Take(h) ==
    /\ loop.at = "select"
    /\ call[h].at = "ask"
    /\ \E n \in 0..MaxPacks : loop' = Answering(h, n)
    /\ call' = [call EXCEPT ![h] = Place("wait", call[h].client)]
    /\ UNCHANGED <<registered, cancelled, state, suspended, runs, clientVars, closed>>

(* The loop hands over a pack: to the call, which returns it and leaves a  *)
(* goroutine for the rest, or to that goroutine.                           *)
HandOver(h) ==
    /\ loop.at = "answering" /\ loop.req = h
    /\ loop.left > 0
    /\ call[h].at \in {"wait", "range"}
    /\ loop' = Answering(h, loop.left - 1)
    /\ call' = [call EXCEPT ![h] =
                  Place(IF @.at = "wait" THEN "range" ELSE "send", @.client)]
    /\ UNCHANGED <<registered, cancelled, state, suspended, runs, clientVars, closed>>

(* The loop closes responseCh. *)
CloseWhenDone(h) == \* mutant: the loop breaks off at doneCh and forgets to close
    /\ loop.at = "answering" /\ loop.req = h
    /\ loop.left = 0 \/ cancelled
    /\ loop' = Select
    /\ closed' = IF loop.left = 0 /\ call[h] # Gone THEN closed \cup {h} ELSE closed
    /\ call' = IF call[h] = Gone THEN [call EXCEPT ![h] = NoCall] ELSE call
    /\ UNCHANGED <<registered, cancelled, state, suspended, runs, clientVars>>

Close(h) ==
    /\ loop.at = "answering" /\ loop.req = h
    /\ loop.left = 0
    /\ loop' = Select
    /\ closed' = IF call[h] # Gone THEN closed \cup {h} ELSE closed
    /\ call' = IF call[h] = Gone THEN [call EXCEPT ![h] = NoCall] ELSE call
    /\ UNCHANGED <<registered, cancelled, state, suspended, runs, clientVars>>

(* The call, or its goroutine, finds responseCh closed. *)
FindClosed(h) ==
    /\ call[h].at \in {"wait", "range"}
    /\ h \in closed
    /\ call' = [call EXCEPT ![h] = NoCall]
    /\ closed' = closed \ {h}
    /\ UNCHANGED <<registered, cancelled, state, suspended, loop, runs, clientVars>>

(* The goroutine sends its pack to the client. *)
Forward(h) ==
    /\ call[h].at = "send"
    /\ Send(call[h].client)
    /\ call' = [call EXCEPT ![h] = Place("range", @.client)]
    /\ UNCHANGED <<registered, cancelled, state, suspended, loop, runs, clientVars, closed>>

(* The call finds doneCh closed and returns, before the loop took its      *)
(* request or after.                                                       *)
NeverGivesUp(h) == FALSE /\ UNCHANGED vars \* mutant: the first select without doneCh

GiveUpAsk(h) ==
    /\ call[h].at = "ask"
    /\ call[h].hasDone
    /\ cancelled
    /\ call' = [call EXCEPT ![h] = NoCall]
    /\ UNCHANGED <<registered, cancelled, state, suspended, loop, runs, clientVars, closed>>

GiveUpWait(h) ==
    /\ call[h].at = "wait"
    /\ cancelled
    /\ call' = [call EXCEPT ![h] = IF h \in closed THEN NoCall ELSE Gone]
    /\ closed' = closed \ {h}
    /\ UNCHANGED <<registered, cancelled, state, suspended, loop, runs, clientVars>>
-----------------------------------------------------------------------------
LoopStep == Start \/ ReadState \/ Report \/ SendNext \/ \E h \in Calls : HandOver(h) \/ Close(h)

CallStep(h) == FindClosed(h) \/ Forward(h) \/ GiveUpAsk(h) \/ GiveUpWait(h)

Next ==
    \/ LoopStep
    \/ Cancel
    \/ LoopDone
    \/ Tick
    \/ StoryEntry
    \/ CleanUp
    \/ \E c \in Clients : ClientDone(c) \/ Message(c) \/ Age(c)
    \/ \E h \in Calls : Take(h) \/ CallStep(h) \/ (\E c \in Clients : HandleStoryConfirm(h, c))

Spec == Init /\ [][Next]_vars

(* Goroutines that can go on do so.  A select chooses among its ready      *)
(* cases at random, so the loop does not pass one over for ever.           *)
Fairness ==
    /\ WF_vars(LoopStep)
    /\ WF_vars(CleanUp)
    /\ SF_vars(LoopDone)
    /\ SF_vars(Tick)
    /\ \A c \in Clients : WF_vars(ClientDone(c))
    /\ \A h \in Calls : WF_vars(CallStep(h)) /\ SF_vars(Take(h))

FairSpec == Spec /\ Fairness
-----------------------------------------------------------------------------
LoopPlaces ==
    {[at |-> "new"], Select, [at |-> "ended"]}
        \cup {Reading(c, w) : c \in 1..(N + 1), w \in SessionState}
        \cup {Sending(c) : c \in Clients}
        \cup {Answering(h, n) : h \in Calls, n \in 0..MaxPacks}

CallPlaces ==
    {NoCall, Gone}
        \cup {Ask(c, b) : c \in Clients, b \in BOOLEAN}
        \cup {Place(at, c) : at \in {"wait", "range", "send"}, c \in Clients}

TypeOK ==
    /\ registered \in BOOLEAN
    /\ cancelled \in BOOLEAN
    /\ state \in SessionState
    /\ suspended \in BOOLEAN
    /\ loop \in LoopPlaces
    /\ runs \in [Clients -> BOOLEAN]
    /\ cstate \in [Clients -> ClientState]
    /\ heard \in [Clients -> Ages]
    /\ call \in [Calls -> CallPlaces]
    /\ closed \subseteq Calls

(* A session that has left its loop owes nobody a pack: no call, and no    *)
(* goroutine a call left behind, waits for a channel nobody will close.    *)
EndedOwesNothing ==
    loop.at = "ended" =>
        \A h \in Calls : call[h].at \in {"wait", "range", "send"} => h \in closed

(* A call of HandleStoryConfirm that was made after Start returns, session *)
(* ended or not: the server's receive loop waits for it.                   *)
CallReturns ==
    \A h \in Calls :
        (call[h].at = "wait" \/ (call[h].at = "ask" /\ call[h].hasDone))
            ~> (call[h].at \notin {"ask", "wait"})

(* The controller ends up suspended if some client is silent for good, and *)
(* not suspended if none is silent any more, whatever the clients' other   *)
(* states and the messages that arrive while the states are read.          *)
SuspensionSettles ==
    /\ \A c \in Clients :
         <>[](heard[c] = "old") => <>[](suspended \/ cancelled)
    /\ <>[](\A c \in Clients : heard[c] # "old") => <>[](~suspended \/ cancelled)

(* A cancelled session ends and leaves the maps, unless the loop holds a   *)
(* pack for a call that gave up.                                           *)
Abandoned == loop.at = "answering" /\ loop.left > 0 /\ call[loop.req] = Gone

StopsOrAbandoned == cancelled ~> (~registered \/ Abandoned)

(* Start's comment: "Cancel the provided context to stop it."              *)
Stops == cancelled ~> ~registered
=============================================================================
