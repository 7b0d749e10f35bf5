----------------------------- MODULE LobbyClient -----------------------------
(***************************************************************************)
(* The client's Lobby, once Start has spawned its goroutines: the finisher *)
(* that waits for the finish timer or the context, the command loop, the   *)
(* request loop, the ping service and the goroutine that sends; with them  *)
(* the callers of Join, Leave and LeaveAll, and the goroutine that calls   *)
(* HandleIncomingMessages.  Setups arrive in any order and any number of   *)
(* times.  Timers are those of Go 1.23: after Stop no old tick is left.    *)
(*                                                                         *)
(* A lobby's data is its state and, as one value, everything else that     *)
(* updateLobby compares.  What a message to the server says is left out.   *)
(***************************************************************************)
EXTENDS LobbyClientState

StateStarting == 128

Setup == [state : LobbyStates, rest : Rests]

setupVars == <<data, armed>>

callVars == <<wg, caller, left, early, dropped>>

vars == <<setupVars, cancelled, finished, pc, callVars, result>>

Init ==
    /\ data = [state |-> 0, rest |-> NoRest]
    /\ armed = FALSE
    /\ cancelled = FALSE
    /\ finished = FALSE
    /\ pc = [finisher |-> "select", loop |-> "select", request |-> "select",
             ping |-> "select", sender |-> "receive", net |-> "idle", start |-> "wait"]
    /\ wg = 0
    /\ caller = [c \in Callers |-> "idle"]
    /\ left = [c \in Callers |-> MaxCalls]
    /\ early = {}
    /\ dropped = FALSE
    /\ result = "none"
-----------------------------------------------------------------------------
DoneCh == pc.finisher = "done" \* doneCh is closed

CtxInternal == cancelled \/ pc.finisher \in {"closing", "done"} \* it is cancelled

Panicked == pc.finisher = "panicked"

(* A step that only moves goroutines. *)
Goes(new) ==
    /\ pc' = new
    /\ UNCHANGED <<setupVars, cancelled, finished, callVars, result>>

(* updateLobby *)
Changed(m) == m # data

(* updateData: the timer is stopped by every Setup and started by one that *)
(* changes something and says that the session is about to start.          *)
Rearm(m) == Changed(m) /\ m.state >= StateStarting

HandleSetup(m) ==
    /\ pc.net = "idle"
    /\ data' = m
    /\ armed' = Rearm(m)
    /\ UNCHANGED <<cancelled, finished, pc, callVars, result>>

(* A Pong is handed to the ping service, or given up once it has stopped.  *)
ReceivePong ==
    /\ pc.net = "idle"
    /\ Goes([pc EXCEPT !.net = "pong"])

HandlePongRunning == \* mutant: without the case of doneCh
    /\ pc.net = "pong"
    /\ pc.ping = "select"
    /\ Goes([pc EXCEPT !.net = "idle"])

HandlePong ==
    /\ pc.net = "pong"
    /\ pc.ping \in {"select", "exited"}
    /\ Goes([pc EXCEPT !.net = "idle"])
-----------------------------------------------------------------------------
(* sendCommand: it is counted, then handed to the command loop or, once    *)
(* doneCh is closed, possibly given up.                                    *)
Call(c) ==
    /\ caller[c] = "idle"
    /\ left[c] > 0
    /\ caller' = [caller EXCEPT ![c] = "select"]
    /\ left' = [left EXCEPT ![c] = @ - 1]
    /\ wg' = wg + 1
    /\ early' = IF pc.finisher \in {"select", "wait", "parked"} THEN early \cup {c} ELSE early \ {c}
    /\ UNCHANGED <<setupVars, cancelled, finished, pc, dropped, result>>

(* The case of doneCh in sendCommand. *)
DropCommand(c) ==
    /\ caller[c] = "select"
    /\ DoneCh
    /\ caller' = [caller EXCEPT ![c] = "idle"]
    /\ wg' = wg - 1
    /\ early' = early \ {c}
    /\ dropped' = (dropped \/ c \in early)
    /\ UNCHANGED <<setupVars, cancelled, finished, pc, left, result>>

(* The command loop takes a command. *)
TakeCommand(c) ==
    /\ pc.loop = "select"
    /\ caller[c] = "select"
    /\ caller' = [caller EXCEPT ![c] = "idle"]
    /\ pc' = [pc EXCEPT !.loop = IF c \in early THEN "early" ELSE "late"]
    /\ early' = early \ {c}
    /\ UNCHANGED <<setupVars, cancelled, finished, wg, left, dropped, result>>

(* process: the message is handed to the sender, or given up once doneCh   *)
(* is closed.                                                              *)
ProcessCommand ==
    /\ pc.loop \in {"early", "late"}
    /\ \/ /\ pc.sender = "receive"
          /\ pc' = [pc EXCEPT !.loop = "processed", !.sender = "send"]
          /\ dropped' = dropped
       \/ /\ DoneCh
          /\ pc' = [pc EXCEPT !.loop = "processed"]
          /\ dropped' = (dropped \/ pc.loop = "early")
    /\ UNCHANGED <<setupVars, cancelled, finished, wg, caller, left, early, result>>

(* commandWg.Done: taking the counter to zero wakes the finisher. *)
CommandDone ==
    /\ pc.loop = "processed"
    /\ wg' = wg - 1
    /\ pc' = [pc EXCEPT !.loop = "select",
                       !.finisher = IF wg = 1 /\ @ = "parked" THEN "woken" ELSE @]
    /\ UNCHANGED <<setupVars, cancelled, finished, caller, left, early, dropped, result>>

ExitLoop ==
    /\ pc.loop = "select"
    /\ DoneCh
    /\ Goes([pc EXCEPT !.loop = "exited"])

(* The request loop: the timer fires and a Request is handed to the        *)
(* sender, or doneCh ends the loop.                                        *)
RequestTimer ==
    /\ pc.request = "select"
    /\ Goes([pc EXCEPT !.request = "send"])

SendRequest ==
    /\ pc.request = "send"
    /\ pc.sender = "receive"
    /\ Goes([pc EXCEPT !.request = "select", !.sender = "send"])

BreakRequest == \* mutant: the break leaves the select, not the loop
    /\ pc.request = "select"
    /\ DoneCh
    /\ Goes(pc)

ExitRequest ==
    /\ pc.request = "select"
    /\ DoneCh
    /\ Goes([pc EXCEPT !.request = "exited"])

(* The goroutine that reads sendCh has sent its message. *)
SenderSent ==
    /\ pc.sender = "send"
    /\ Goes([pc EXCEPT !.sender = "receive"])

(* pingService.Start: a tick, the hand-over of the Ping to the goroutine   *)
(* that reads pingCh, and the end of ctxInternal.                          *)
PingTick ==
    /\ pc.ping = "select"
    /\ Goes([pc EXCEPT !.ping = "send"])

SendPing ==
    /\ pc.ping = "send"
    /\ Goes([pc EXCEPT !.ping = "select"])

ExitPing ==
    /\ pc.ping = "select"
    /\ CtxInternal
    /\ Goes([pc EXCEPT !.ping = "exited"])
-----------------------------------------------------------------------------
(* The finisher's select. *)
FinishTimer ==
    /\ pc.finisher = "select"
    /\ armed
    /\ armed' = FALSE
    /\ finished' = TRUE
    /\ pc' = [pc EXCEPT !.finisher = "wait"]
    /\ UNCHANGED <<data, cancelled, callVars, result>>

ContextDone ==
    /\ pc.finisher = "select"
    /\ cancelled
    /\ Goes([pc EXCEPT !.finisher = "wait"])

(* commandWg.Wait, which blocks while the counter is not zero.  If it is   *)
(* not zero when the finisher runs again, Wait panics: "WaitGroup is       *)
(* reused before previous Wait has returned".                              *)
NoWait == \* mutant: the commands are not waited for
    /\ pc.finisher = "wait"
    /\ Goes([pc EXCEPT !.finisher = "closing"])

Wait ==
    /\ pc.finisher = "wait"
    /\ Goes([pc EXCEPT !.finisher = IF wg = 0 THEN "closing" ELSE "parked"])

WaitReturns ==
    /\ pc.finisher = "woken"
    /\ Goes([pc EXCEPT !.finisher = IF wg = 0 THEN "closing" ELSE "panicked"])

(* The deferred cancelInternal is done, the deferred close is next. *)
CloseDoneCh ==
    /\ pc.finisher = "closing"
    /\ Goes([pc EXCEPT !.finisher = "done"])

(* Start's own WaitGroup: the command loop, the request loop and the ping  *)
(* service have returned; then pingCh and sendCh are closed.               *)
SomeExited == {pc.loop, pc.ping} = {"exited"} \* mutant: the request loop is left out

AllExited == {pc.loop, pc.request, pc.ping} = {"exited"}

CloseChannels ==
    /\ pc.start = "wait"
    /\ AllExited
    /\ Goes([pc EXCEPT !.start = "closed"])

Return ==
    /\ pc.start = "closed"
    /\ pc' = [pc EXCEPT !.start = "returned"]
    /\ result' = IF data.state < StateStarting \/ ~finished THEN "nil" ELSE "session"
    /\ UNCHANGED <<setupVars, cancelled, finished, callVars>>

Cancel ==
    /\ ~cancelled
    /\ cancelled' = TRUE
    /\ UNCHANGED <<setupVars, finished, pc, callVars, result>>
-----------------------------------------------------------------------------
HandleIncomingMessages == ReceivePong \/ HandlePong \/ \E m \in Setup : HandleSetup(m)

SendCommand(c) == Call(c) \/ DropCommand(c) \/ TakeCommand(c)

CommandLoop == ProcessCommand \/ CommandDone \/ ExitLoop

RequestLoop == RequestTimer \/ SendRequest \/ ExitRequest

PingService == PingTick \/ SendPing \/ ExitPing

Finisher == FinishTimer \/ ContextDone \/ Wait \/ WaitReturns \/ CloseDoneCh

Start == CloseChannels \/ Return

(* A panic ends the program. *)
Next ==
    /\ ~Panicked
    /\ \/ HandleIncomingMessages
       \/ \E c \in Callers : SendCommand(c)
       \/ CommandLoop
       \/ RequestLoop
       \/ SenderSent
       \/ PingService
       \/ Finisher
       \/ Start
       \/ Cancel

Spec == Init /\ [][Next]_vars

(* Every goroutine that can take a step takes one.  Senders wait for the   *)
(* reader of sendCh in a queue, and a select with several ready cases      *)
(* chooses at random: hence the strong fairness of the sends and exits.    *)
Fairness ==
    /\ SF_vars(~Panicked /\ HandlePong)
    /\ \A c \in Callers : WF_vars(~Panicked /\ (DropCommand(c) \/ TakeCommand(c)))
    /\ WF_vars(~Panicked /\ CommandLoop)
    /\ SF_vars(~Panicked /\ ProcessCommand)
    /\ SF_vars(~Panicked /\ SendRequest)
    /\ SF_vars(~Panicked /\ ExitRequest)
    /\ WF_vars(~Panicked /\ SenderSent)
    /\ WF_vars(~Panicked /\ SendPing)
    /\ SF_vars(~Panicked /\ ExitPing)
    /\ WF_vars(~Panicked /\ Finisher)
    /\ WF_vars(~Panicked /\ Start)

FairSpec == Spec /\ Fairness
-----------------------------------------------------------------------------
Places ==
    [finisher : {"select", "wait", "parked", "woken", "closing", "done", "panicked"},
     loop : {"select", "early", "late", "processed", "exited"},
     request : {"select", "send", "exited"}, ping : {"select", "send", "exited"},
     sender : {"receive", "send"}, net : {"idle", "pong"},
     start : {"wait", "closed", "returned"}]

Pending == {c \in Callers : caller[c] = "select"}

Processing == pc.loop \in {"early", "late", "processed"}

WgExact == wg = Cardinality(Pending) + (IF Processing THEN 1 ELSE 0)

(* Where each goroutine can be; and commandWg counts exactly the commands  *)
(* that are being handed over or processed: each of the two branches of    *)
(* sendCommand leads to one Done.                                          *)
TypeOK ==
    /\ data \in Setup \cup {[state |-> 0, rest |-> NoRest]}
    /\ armed \in BOOLEAN /\ dropped \in BOOLEAN
    /\ cancelled \in BOOLEAN /\ finished \in BOOLEAN
    /\ pc \in Places
    /\ caller \in [Callers -> {"idle", "select"}]
    /\ left \in [Callers -> 0..MaxCalls]
    /\ early \subseteq Callers
    /\ result \in {"none", "nil", "session"}
    /\ WgExact

(* Cancelling the context, or the finish timer, ends Start, whatever       *)
(* commands, requests, pings and Setups are under way (unless the reuse of *)
(* the wait group ends the program).                                       *)
StartReturns == (cancelled \/ finished) ~> (pc.start = "returned" \/ Panicked)

(* No call of Join, Leave, LeaveAll or HandleIncomingMessages stays        *)
(* blocked, whatever moment of the lobby's end it falls into.              *)
CallsReturn ==
    /\ \A c \in Callers : (caller[c] = "select") ~> (caller[c] = "idle" \/ Panicked)
    /\ (pc.net = "pong") ~> (pc.net = "idle" \/ Panicked)

(* Start's comment: "It's a blocking call. Cancel the context to abort     *)
(* it."  Aborting it does not end the program.                             *)
NoPanic == ~Panicked

(* Start's comment: "If the lobby is successfully finished, it will return *)
(* a Session."  A client that was told that the lobby starts, and neither  *)
(* told otherwise nor cancelled, gets out of Start, even if no later Setup *)
(* reaches it: the finish timer is there for that.                         *)
FinishesWhenTold ==
    data.state >= StateStarting
        ~> (pc.start = "returned" \/ data.state < StateStarting \/ cancelled \/ Panicked)
==============================================================================
