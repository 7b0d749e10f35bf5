--------------------------- MODULE EndpointsProofs ---------------------------
(***************************************************************************)
(* Proofs about the goroutines at the two ends of the network: those of    *)
(* udp.Service, for any handlers, and those of the client of a session,    *)
(* for any number of entries in a pack and of messages to send.            *)
(***************************************************************************)
EXTENDS MCEndpoints, TLAPS

(* The connection is open, or closed under its reader, only in the read    *)
(* loop.                                                                   *)
SockOfReader ==
    /\ sock \in {"open", "closed"} => run \in {"reading", "calling"}
    /\ sock = "closed" => Cancelled

(* A server ends because it was cancelled or has failed. *)
EndsForReason == run = "ended" => Cancelled \/ broken

(* From its signal on, a handler whose server is already stopped is noted  *)
(* as one that got none.                                                   *)
StopNoted == stopped /\ (accept \in {"wait", "stop"} \/ timer) => missed

(* The idle timer is armed only while acceptHandlerLoop waits for the next *)
(* handler.                                                                *)
TimerInSelect == timer => accept = "select"

(* What is left when the stop function has been looked up and is nil. *)
StopKnown == accept = "stop" => server \/ broken \/ main \/ missed

(* IdleStopSafe, strengthened until every step keeps it. *)
IInv ==
    /\ TypeOK
    /\ SockOfReader
    /\ EndsForReason
    /\ StopNoted
    /\ TimerInSelect
    /\ StopKnown
    /\ IdleStopSafe

LEMMA TypeInit == Init => TypeOK
  BY DEF Init, TypeOK, AcceptPlaces, RunPlaces, Socks

LEMMA TypeStep == TypeOK /\ [Next]_vars => TypeOK'
<1> SUFFICES ASSUME TypeOK, [Next]_vars PROVE TypeOK'
  OBVIOUS
<1> USE DEF TypeOK, AcceptPlaces, RunPlaces, Socks, acceptVars, runVars, history
<1>1. ASSUME NEW h \in Handlers, HandlerDone(h) \/ Handle(h) PROVE TypeOK'
  BY <1>1 DEF HandlerDone, Handle
<1>2. CASE Signal
  BY <1>2 DEF Signal
<1>3. CASE Release \/ AcceptExit \/ IdleTimer
  BY <1>3 DEF Release, AcceptExit, IdleTimer
<1>4. CASE IdleStop
  BY <1>4 DEF IdleStop
<1>5. CASE RunStarts \/ SetServer \/ Bind \/ Return
  BY <1>5 DEF RunStarts, SetServer, Bind, Return
<1>6. CASE ListenEnds \/ ClearServer \/ RunExit \/ Close
  BY <1>6 DEF ListenEnds, ClearServer, RunExit, Close
<1>7. CASE BindFails \/ Receive \/ ReadFails \/ CancelMain
  BY <1>7 DEF BindFails, Receive, ReadFails, Fails, CancelMain
<1>8. CASE UNCHANGED vars
  BY <1>8 DEF vars
<1> QED
  BY <1>1, <1>2, <1>3, <1>4, <1>5, <1>6, <1>7, <1>8 DEF Next, Running, RunStep

(* TypeOK: the goroutines of the service are always at one of their places *)
(* and the connection in one of its states.                                *)
THEOREM TypeCorrect == Spec => []TypeOK
  BY TypeInit, TypeStep, PTL DEF Spec

LEMMA InvInit == Init => IInv
  BY TypeInit DEF Init, IInv, SockOfReader, EndsForReason, StopNoted, TimerInSelect, StopKnown,
                  IdleStopSafe

(* Each step keeps the invariant. *)
LEMMA InvStep == IInv /\ [Next]_vars => IInv'
<1> SUFFICES ASSUME IInv, [Next]_vars PROVE IInv'
  OBVIOUS
<1>0. TypeOK /\ TypeOK'
  BY TypeStep DEF IInv
<1> USE DEF IInv, TypeOK, SockOfReader, EndsForReason, StopNoted, TimerInSelect, StopKnown,
            IdleStopSafe, Cancelled, acceptVars, runVars, history
<1>1. ASSUME NEW h \in Handlers, HandlerDone(h) PROVE IInv'
  BY <1>0, <1>1 DEF HandlerDone
<1>2. ASSUME NEW h \in Handlers, Handle(h) PROVE IInv'
  BY <1>0, <1>2 DEF Handle
<1>3. CASE CancelMain
  BY <1>0, <1>3 DEF CancelMain
<1>4. CASE Signal
  BY <1>0, <1>4 DEF Signal
<1>5. CASE Release
  BY <1>0, <1>5 DEF Release
<1>6. CASE AcceptExit
  BY <1>0, <1>6 DEF AcceptExit
<1>7. CASE IdleTimer
  BY <1>0, <1>7 DEF IdleTimer, StopsServer
<1>8. CASE IdleStop
  BY <1>0, <1>8 DEF IdleStop
<1>9. CASE RunStarts \/ RunExit
  BY <1>0, <1>9 DEF RunStarts, RunExit
<1>10. CASE SetServer
  BY <1>0, <1>10 DEF SetServer
<1>11. CASE Bind
  BY <1>0, <1>11 DEF Bind
<1>12. CASE BindFails
  BY <1>0, <1>12 DEF BindFails, Fails
<1>13. CASE Close
  BY <1>0, <1>13 DEF Close
<1>14. CASE Receive \/ Return
  BY <1>0, <1>14 DEF Receive, Return
<1>15. CASE ListenEnds
  BY <1>0, <1>15 DEF ListenEnds
<1>16. CASE ReadFails
  BY <1>0, <1>16 DEF ReadFails, Fails
<1>17. CASE ClearServer
  BY <1>0, <1>17 DEF ClearServer
<1>18. CASE UNCHANGED vars
  BY <1>0, <1>18 DEF vars
<1> QED
  BY <1>1, <1>2, <1>3, <1>4, <1>5, <1>6, <1>7, <1>8, <1>9, <1>10, <1>11, <1>12, <1>13, <1>14,
     <1>15, <1>16, <1>17, <1>18
  DEF Next, Running, RunStep

(* IdleStopSafe: the call of s.udpServerStop after the mutex is released   *)
(* panics only when the server has failed, the service is being cancelled, *)
(* or the server is still the one an earlier idle stop has cancelled.      *)
THEOREM IdleStopIsSafe == Spec => []IdleStopSafe
<1>1. IInv => IdleStopSafe
  BY DEF IInv
<1> QED
  BY <1>1, InvInit, InvStep, PTL DEF Spec
-----------------------------------------------------------------------------
(* The client of a session: every service is at one of its places, ...     *)
ClientType ==
    /\ aborted \in BOOLEAN
    /\ at \in [Client!Services -> {"select", "work", "gone"}]
    /\ events \in Nat
    /\ msgs \in [Client!Services -> Nat]
    /\ closed \in BOOLEAN
    /\ start \in {"wait", "returned"}
    /\ call \in {"none"} \cup DOMAIN Client!ServiceOf

(* ... it has messages to send exactly while it is at work, ... *)
WorkIsToSend == \A s \in Client!Services : at[s] = "work" <=> msgs[s] > 0

(* ... the story service has entries to write only then, ... *)
WritesAtWork == events > 0 => at["story"] = "work"

(* ... and the channels are closed exactly when Start has returned, after  *)
(* all the services.                                                       *)
ClosedLast == (closed <=> start = "returned") /\ (closed => Client!AllGone)

ClientInv == ClientType /\ WorkIsToSend /\ WritesAtWork /\ ClosedLast

LEMMA ClientInit == Client!Init => ClientInv
<1> SUFFICES ASSUME Client!Init PROVE ClientInv
  OBVIOUS
<1>1. ClientType
  BY DEF Client!Init, ClientType
<1>2. WorkIsToSend /\ WritesAtWork /\ ClosedLast
  BY DEF Client!Init, WorkIsToSend, WritesAtWork, ClosedLast
<1>3. QED
  BY <1>1, <1>2 DEF ClientInv

(* A service that leaves its select has a message to send or goes back to  *)
(* it; it writes entries only if it has one.                               *)
LEMMA WorksKeeps ==
    ASSUME ClientInv, NEW s \in Client!Services, NEW n \in Nat, NEW m \in Nat,
           Client!Works(s, n, m), n = 0 \/ (s = "story" /\ m > 0),
           UNCHANGED <<aborted, closed, start>>,
           call' \in {"none"} \cup DOMAIN Client!ServiceOf
    PROVE  ClientInv'
<1>1. at[s] = "select" /\ msgs[s] = 0
  BY DEF Client!Works, ClientInv, ClientType, WorkIsToSend
<1>2. ~closed
  BY <1>1 DEF ClientInv, ClosedLast, Client!AllGone
<1>3. ClientType'
  BY DEF Client!Works, ClientInv, ClientType
<1>4. WorkIsToSend'
  BY <1>1 DEF Client!Works, ClientInv, ClientType, WorkIsToSend
<1>5. WritesAtWork'
  BY <1>1 DEF Client!Works, ClientInv, ClientType, WritesAtWork, Client!Services
<1>6. ClosedLast'
  BY <1>2 DEF ClientInv, ClosedLast
<1>7. QED
  BY <1>3, <1>4, <1>5, <1>6 DEF ClientInv

LEMMA ClientStep == ClientInv /\ [Client!Next]_Client!vars => ClientInv'
<1> SUFFICES ASSUME ClientInv, [Client!Next]_Client!vars PROVE ClientInv'
  OBVIOUS
<1>0. /\ "ping" \in Client!Services /\ "action" \in Client!Services
      /\ "story" \in Client!Services
      /\ call \in {"none"} \cup DOMAIN Client!ServiceOf
  BY DEF Client!Services, ClientInv, ClientType
<1>1. CASE Client!PingTick
  BY <1>0, <1>1, WorksKeeps DEF Client!PingTick
<1>2. CASE Client!ActionInput
  BY <1>0, <1>2, WorksKeeps DEF Client!ActionInput
<1>3. CASE Client!StoryRequest
  BY <1>0, <1>3, WorksKeeps, ClientConstants DEF Client!StoryRequest
<1>4. ASSUME NEW k \in DOMAIN Client!ServiceOf, Client!HandleIncomingMessages(k)
      PROVE  ClientInv'
  BY <1>4 DEF Client!HandleIncomingMessages, Client!serviceVars, ClientInv, ClientType,
              WorkIsToSend, WritesAtWork, ClosedLast, Client!AllGone
<1>5. CASE Client!Take
  <2>1. call' = "none" /\ UNCHANGED <<aborted, closed, start>>
    BY <1>5 DEF Client!Take
  <2>2. CASE Client!TakePong
    BY <1>0, <2>1, <2>2, WorksKeeps DEF Client!TakePong
  <2>3. CASE Client!TakeConfirm
    BY <1>0, <2>1, <2>3, WorksKeeps DEF Client!TakeConfirm
  <2>4. CASE Client!TakePack
    <3>1. CASE Client!Works("story", 0, 0)
      BY <1>0, <2>1, <3>1, WorksKeeps
    <3>2. CASE \E n \in 0..MaxEvents, m \in 1..MaxMsgs : Client!Works("story", n, m)
      <4>1. PICK n \in 0..MaxEvents, m \in 1..MaxMsgs : Client!Works("story", n, m)
        BY <3>2
      <4>2. n \in Nat /\ m \in Nat /\ m > 0
        BY ClientConstants
      <4>3. QED
        BY <1>0, <2>1, <4>1, <4>2, WorksKeeps
    <3>3. QED
      BY <2>4, <3>1, <3>2 DEF Client!TakePack
  <2>5. QED
    BY <1>5, <2>2, <2>3, <2>4 DEF Client!Take
<1>6. CASE Client!GiveUp
  BY <1>6 DEF Client!GiveUp, Client!serviceVars, ClientInv, ClientType, WorkIsToSend,
              WritesAtWork, ClosedLast, Client!AllGone
<1>7. CASE Client!WriteEvent
  BY <1>7 DEF Client!WriteEvent, ClientInv, ClientType, WorkIsToSend, WritesAtWork,
              ClosedLast, Client!AllGone
<1>8. CASE Client!AbortWrite
  <2>1. ~closed
    BY <1>0, <1>8 DEF Client!AbortWrite, ClientInv, WritesAtWork, ClosedLast, Client!AllGone
  <2>2. QED
    BY <1>8, <2>1 DEF Client!AbortWrite, ClientInv, ClientType, WorkIsToSend, WritesAtWork,
                      ClosedLast
<1>9. ASSUME NEW s \in Client!Services, Client!SendMsg(s) PROVE ClientInv'
  <2>1. at[s] = "work" /\ ~closed
    BY <1>9 DEF Client!SendMsg, ClientInv, WorkIsToSend, ClosedLast, Client!AllGone
  <2>2. ClientType'
    BY <1>9 DEF Client!SendMsg, ClientInv, ClientType
  <2>3. WorkIsToSend'
    BY <1>9, <2>1 DEF Client!SendMsg, ClientInv, ClientType, WorkIsToSend
  <2>4. WritesAtWork'
    BY <1>0, <1>9 DEF Client!SendMsg, ClientInv, ClientType, WritesAtWork
  <2>5. ClosedLast'
    BY <1>9, <2>1 DEF Client!SendMsg, ClientInv, ClosedLast
  <2>6. QED
    BY <2>2, <2>3, <2>4, <2>5 DEF ClientInv
<1>10. ASSUME NEW s \in Client!Services, Client!Exit(s) PROVE ClientInv'
  <2>1. ~closed /\ msgs[s] = 0
    BY <1>10 DEF Client!Exit, ClientInv, ClientType, WorkIsToSend, ClosedLast, Client!AllGone
  <2>2. QED
    BY <1>0, <1>10, <2>1 DEF Client!Exit, ClientInv, ClientType, WorkIsToSend, WritesAtWork,
                             ClosedLast
<1>11. CASE Client!InputClosed
  <2>1. ~closed /\ msgs["action"] = 0
    BY <1>0, <1>11 DEF Client!InputClosed, ClientInv, ClientType, WorkIsToSend, ClosedLast,
                       Client!AllGone
  <2>2. QED
    BY <1>0, <1>11, <2>1 DEF Client!InputClosed, ClientInv, ClientType, WorkIsToSend,
                             WritesAtWork, ClosedLast
<1>12. CASE Client!CloseChannels
  BY <1>12 DEF Client!CloseChannels, Client!serviceVars, ClientInv, ClientType, WorkIsToSend,
               WritesAtWork, ClosedLast, Client!AllGone
<1>13. CASE Client!Cancel
  BY <1>13 DEF Client!Cancel, Client!serviceVars, ClientInv, ClientType, WorkIsToSend,
               WritesAtWork, ClosedLast, Client!AllGone
<1>14. CASE UNCHANGED Client!vars
  BY <1>14 DEF Client!vars, Client!serviceVars, ClientInv, ClientType, WorkIsToSend,
               WritesAtWork, ClosedLast, Client!AllGone
<1>15. QED
  BY <1>1, <1>2, <1>3, <1>4, <1>5, <1>6, <1>7, <1>8, <1>9, <1>10, <1>11, <1>12, <1>13, <1>14
  DEF Client!Next

(* NoSendAfterClose, the safety part of EndsCleanly: Start closes pingCh   *)
(* and sendCh only when none of the three services can send on them any    *)
(* more, however their messages, timers and the cancellation interleave.   *)
THEOREM ClosedWithoutSenders == Client!Spec => []Client!NoSendAfterClose
<1>1. ASSUME ClientInv, closed, NEW s \in Client!Services PROVE at[s] = "gone" /\ msgs[s] = 0
  <2>1. at[s] = "gone" /\ msgs[s] \in Nat
    BY <1>1 DEF ClientInv, ClientType, ClosedLast, Client!AllGone
  <2>2. ~(msgs[s] > 0)
    BY <1>1, <2>1 DEF ClientInv, WorkIsToSend
  <2>3. QED
    BY <2>1, <2>2
<1>2. ClientInv => Client!NoSendAfterClose
  BY <1>1 DEF Client!NoSendAfterClose
<1>3. QED
  BY <1>2, ClientInit, ClientStep, PTL DEF Client!Spec
=============================================================================
