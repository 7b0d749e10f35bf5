---------------------------- MODULE ClientSession ----------------------------
(***************************************************************************)
(* client.Client once Start has spawned its goroutines: the ping, action   *)
(* and story services, the two goroutines that send what comes out of      *)
(* pingCh and sendCh, and the goroutine that calls HandleIncomingMessages. *)
(* What the services do with actions and stories is the matter of          *)
(* ActionChannel and StoryChannel; here is who waits for whom.             *)
(*                                                                         *)
(* A sending goroutine is always about to receive: sending a datagram does *)
(* not depend on anything here.                                            *)
(***************************************************************************)
EXTENDS Naturals

CONSTANTS
    MaxEvents, \* bound: the entries one pack releases to the story's channel
    MaxMsgs    \* bound: the messages of one sendConfirm

Services == {"ping", "action", "story"}

(* The messages that wait for a service, by the service. *)
ServiceOf == [Pong |-> "ping", ActionConfirm |-> "action", StoryPack |-> "story"]

VARIABLES
    cancelled, \* Start's context is cancelled
    at,        \* where each service is: in its select, at work, or gone
    events,    \* what the story service has to write to the story's channel
    msgs,      \* the messages each service has to send
    closed,    \* pingCh and sendCh are closed
    start,     \* where Start is
    call       \* the message HandleIncomingMessages is handing over

serviceVars == <<at, events, msgs>>

vars == <<cancelled, serviceVars, closed, start, call>>

Init ==
    /\ cancelled = FALSE
    /\ at = [s \in Services |-> "select"]
    /\ events = 0
    /\ msgs = [s \in Services |-> 0]
    /\ closed = FALSE
    /\ start = "wait"
    /\ call = "none"
-----------------------------------------------------------------------------
(* Service s leaves its select with n entries to write and m messages to   *)
(* send.                                                                   *)
Works(s, n, m) ==
    /\ at[s] = "select"
    /\ at' = [at EXCEPT ![s] = IF n + m = 0 THEN "select" ELSE "work"]
    /\ events' = events + n
    /\ msgs' = [msgs EXCEPT ![s] = m]

(* The ticker of the ping service. *)
PingTick == Works("ping", 0, 1) /\ UNCHANGED <<cancelled, closed, start, call>>

(* An action of a local actor, which may be too large to be sent, or a     *)
(* resend timer.                                                           *)
ActionInput ==
    /\ \E m \in 0..1 : Works("action", 0, m)
    /\ UNCHANGED <<cancelled, closed, start, call>>

(* The request timer of a story. *)
StoryRequest ==
    /\ \E m \in 1..MaxMsgs : Works("story", 0, m)
    /\ UNCHANGED <<cancelled, closed, start, call>>

(* HandleIncomingMessages: a latency report, a test message and a message  *)
(* of another session are done with at once.                               *)
HandleIncomingMessages(k) ==
    /\ call = "none"
    /\ call' = k
    /\ UNCHANGED <<cancelled, serviceVars, closed, start>>

(* The service takes the message: nothing is to be done for a Pong or an   *)
(* unknown token, a missing action is sent again, a pack is written and    *)
(* confirmed.                                                              *)
TakePong == call = "Pong" /\ Works("ping", 0, 0)

TakeConfirm == call = "ActionConfirm" /\ \E m \in 0..1 : Works("action", 0, m)

TakePack ==
    /\ call = "StoryPack"
    /\ \/ Works("story", 0, 0)
       \/ \E n \in 0..MaxEvents, m \in 1..MaxMsgs : Works("story", n, m)

Take ==
    /\ TakePong \/ TakeConfirm \/ TakePack
    /\ call' = "none"
    /\ UNCHANGED <<cancelled, closed, start>>

(* The doneCh of the service is closed. *)
GiveUp ==
    /\ call # "none"
    /\ at[ServiceOf[call]] = "gone"
    /\ call' = "none"
    /\ UNCHANGED <<cancelled, serviceVars, closed, start>>
-----------------------------------------------------------------------------
(* The application reads an entry of the story. *)
WriteEvent ==
    /\ events > 0
    /\ events' = events - 1
    /\ UNCHANGED <<cancelled, at, msgs, closed, start, call>>

NeverAborts == FALSE /\ UNCHANGED vars \* mutant: the write without the case of ctx.Done

(* ... or it does not, and the context ends the wait and the service.      *)
AbortWrite ==
    /\ events > 0
    /\ cancelled
    /\ events' = 0
    /\ at' = [at EXCEPT !.story = "gone"]
    /\ msgs' = [msgs EXCEPT !.story = 0]
    /\ UNCHANGED <<cancelled, closed, start, call>>

(* A send on pingCh or sendCh, without looking at the context. *)
SendMsg(s) ==
    /\ msgs[s] > 0
    /\ s = "story" => events = 0
    /\ msgs' = [msgs EXCEPT ![s] = @ - 1]
    /\ at' = IF msgs[s] = 1 THEN [at EXCEPT ![s] = "select"] ELSE at
    /\ UNCHANGED <<cancelled, events, closed, start, call>>

(* The service sees the cancelled context in its select. *)
Exit(s) ==
    /\ cancelled
    /\ at[s] = "select"
    /\ at' = [at EXCEPT ![s] = "gone"]
    /\ UNCHANGED <<cancelled, events, msgs, closed, start, call>>

(* "action channel closed": the actors' input channels have been closed.   *)
InputClosed ==
    /\ at.action = "select"
    /\ at' = [at EXCEPT !.action = "gone"]
    /\ UNCHANGED <<cancelled, events, msgs, closed, start, call>>

AllGone == \A s \in Services : at[s] = "gone"

(* Start waits for the services, closes their channels and returns. *)
CloseChannels ==
    /\ start = "wait"
    /\ AllGone
    /\ closed' = TRUE
    /\ start' = "returned"
    /\ UNCHANGED <<cancelled, serviceVars, call>>

Cancel ==
    /\ ~cancelled
    /\ cancelled' = TRUE
    /\ UNCHANGED <<serviceVars, closed, start, call>>

Next ==
    \/ PingTick
    \/ ActionInput
    \/ StoryRequest
    \/ \E k \in DOMAIN ServiceOf : HandleIncomingMessages(k)
    \/ Take
    \/ GiveUp
    \/ WriteEvent
    \/ AbortWrite
    \/ \E s \in Services : SendMsg(s) \/ Exit(s)
    \/ InputClosed
    \/ CloseChannels
    \/ Cancel

Spec == Init /\ [][Next]_vars

(* Goroutines that can go on do so, and a select with several ready cases  *)
(* does not pass one over for ever.  The application need not read.        *)
Fairness ==
    /\ \A s \in Services : WF_vars(SendMsg(s)) /\ SF_vars(Exit(s))
    /\ SF_vars(Take \/ GiveUp)
    /\ WF_vars(AbortWrite)
    /\ WF_vars(CloseChannels)

FairSpec == Spec /\ Fairness
-----------------------------------------------------------------------------
(* pingCh and sendCh are closed only when no service can send on them any  *)
(* more, ...                                                               *)
NoSendAfterClose == closed => \A s \in Services : at[s] = "gone" /\ msgs[s] = 0

(* ... cancelling the context ends Start although services wait for the    *)
(* application, for the sender and for messages, ...                       *)
StartReturns == cancelled ~> (start = "returned")

(* ... and HandleIncomingMessages returns, unless the application stops    *)
(* reading the story for good.                                             *)
CallReturns == []<>(events = 0) => (call # "none" ~> call = "none")

(* The client's end: whatever its goroutines are waiting for when the      *)
(* context is cancelled, or when the action service has ended before the   *)
(* others, nothing is sent on a closed channel, Start returns and the UDP  *)
(* receive loop is not left blocked in a handler.                          *)
EndsCleanly == []NoSendAfterClose /\ StartReturns /\ CallReturns
=============================================================================
