------------------------- MODULE LobbyClientProofs -------------------------
(***************************************************************************)
(* Proofs about LobbyClient, for any number of callers and commands.       *)
(***************************************************************************)
EXTENDS LobbyClient, FiniteSetTheorems, TLAPS

USE LobbyClientConstants

(* Once commandWg.Wait has let the finisher go, no command that began      *)
(* before the end is on its way.                                           *)
Settled ==
    pc.finisher \in {"woken", "closing", "done"} =>
        pc.loop # "early" /\ \A c \in Pending : c \notin early

(* The counter's arithmetic: commands come and go one at a time.           *)
LEMMA PendingFinite ==
    ASSUME TypeOK
    PROVE  IsFiniteSet(Pending) /\ Cardinality(Pending) \in Nat
<1>1. Pending \subseteq Callers
    BY DEF Pending
<1>2. IsFiniteSet(Pending)
    BY <1>1, FS_Subset
<1> QED BY <1>2, FS_CardinalityType

(* A counter of zero: nothing is handed over, nothing is processed.        *)
LEMMA ZeroIsIdle ==
    ASSUME TypeOK
    PROVE  /\ wg \in Nat
           /\ wg = 0 => Pending = {} /\ ~Processing
           /\ wg = 1 /\ Processing => Pending = {}
<1>1. IsFiniteSet(Pending) /\ Cardinality(Pending) \in Nat
    BY PendingFinite
<1>2. Cardinality(Pending) = 0 <=> Pending = {}
    BY <1>1, FS_EmptySet
<1>3. wg = Cardinality(Pending) + (IF Processing THEN 1 ELSE 0)
    BY DEF TypeOK, WgExact
<1> QED BY <1>1, <1>2, <1>3

LEMMA PendingMore ==
    ASSUME TypeOK, NEW c \in Callers, caller[c] = "idle",
           caller' = [caller EXCEPT ![c] = "select"]
    PROVE  Cardinality(Pending)' = Cardinality(Pending) + 1
<1>1. Pending' = Pending \cup {c} /\ c \notin Pending
    BY DEF Pending, TypeOK
<1> QED BY <1>1, PendingFinite, FS_AddElement

LEMMA PendingLess ==
    ASSUME TypeOK, NEW c \in Callers, caller[c] = "select",
           caller' = [caller EXCEPT ![c] = "idle"]
    PROVE  Cardinality(Pending)' = Cardinality(Pending) - 1
<1>1. Pending' = Pending \ {c} /\ c \in Pending
    BY DEF Pending, TypeOK
<1> QED BY <1>1, PendingFinite, FS_RemoveElement

(* Where the goroutines are after a step that moves two of them, or that   *)
(* may wake the finisher.                                                  *)
LEMMA RequestSent ==
    ASSUME NEW p \in Places, NEW q, q = [p EXCEPT !.request = "select", !.sender = "send"]
    PROVE  /\ q \in Places /\ q.request = "select" /\ q.loop = p.loop /\ q.ping = p.ping
           /\ q.finisher = p.finisher /\ q.start = p.start
<1>1. q \in Places
    BY DEF Places
<1> QED BY <1>1 DEF Places

LEMMA CommandProcessed ==
    ASSUME TypeOK, ProcessCommand
    PROVE  /\ pc' \in Places /\ pc'.loop = "processed" /\ pc'.request = pc.request
           /\ pc'.ping = pc.ping /\ pc'.finisher = pc.finisher /\ pc'.start = pc.start
<1>0. pc \in Places
    BY DEF TypeOK
<1>1. CASE pc' = [pc EXCEPT !.loop = "processed"]
    BY <1>0, <1>1 DEF Places
<1>2. CASE pc' = [pc EXCEPT !.loop = "processed", !.sender = "send"]
    <2>1. pc' \in Places
        BY <1>0, <1>2 DEF Places
    <2> QED BY <1>0, <1>2, <2>1 DEF Places
<1> QED BY <1>1, <1>2 DEF ProcessCommand

LEMMA CommandEnds ==
    ASSUME TypeOK, CommandDone
    PROVE  /\ pc' \in Places /\ pc'.loop = "select" /\ pc'.request = pc.request
           /\ pc'.ping = pc.ping /\ pc'.start = pc.start
           /\ pc'.finisher = pc.finisher \/ (wg = 1 /\ pc'.finisher = "woken")
<1>0. pc \in Places
    BY DEF TypeOK
<1>1. CASE wg = 1 /\ pc.finisher = "parked"
    <2>1. pc' = [pc EXCEPT !.loop = "select", !.finisher = "woken"]
        BY <1>1 DEF CommandDone
    <2> DEFINE q == [pc EXCEPT !.loop = "select"]
    <2>2. q \in Places /\ pc' = [q EXCEPT !.finisher = "woken"]
        BY <1>0, <2>1 DEF Places
    <2>3. pc' \in Places
        BY <2>2 DEF Places
    <2> QED BY <1>0, <1>1, <2>1, <2>3 DEF Places
<1>2. CASE ~(wg = 1 /\ pc.finisher = "parked")
    <2>1. pc' = [pc EXCEPT !.loop = "select", !.finisher = pc.finisher]
        BY <1>2 DEF CommandDone
    <2>2. pc' \in Places
        BY <1>0, <2>1 DEF Places
    <2> QED BY <1>0, <2>1, <2>2 DEF Places
<1> QED BY <1>1, <1>2

LEMMA TypeInit == Init => TypeOK
<1> SUFFICES ASSUME Init PROVE TypeOK
    OBVIOUS
<1>1. Pending = {}
    BY DEF Init, Pending
<1>2. Cardinality(Pending) = 0
    BY <1>1, FS_EmptySet
<1>3. WgExact
    BY <1>2 DEF Init, WgExact, Processing
<1>4. pc \in Places
    BY DEF Init, Places
<1>5. left \in [Callers -> 0..MaxCalls] /\ caller \in [Callers -> {"idle", "select"}]
    BY DEF Init
<1> QED BY <1>3, <1>4, <1>5 DEF Init, TypeOK

(* A step that moves goroutines keeps the types, and the counter if the    *)
(* command loop does not begin or end a command.                           *)
LEMMA GoesStep ==
    ASSUME TypeOK, NEW new \in Places, Goes(new),
           new.loop = pc.loop \/ (pc.loop = "select" /\ new.loop = "exited")
    PROVE  TypeOK'
<1>1. pc' \in Places /\ UNCHANGED <<data, armed, cancelled, finished, wg, caller, left,
                                    early, dropped, result>>
    BY DEF Goes, setupVars, callVars
<1>2. WgExact'
    <2>1. Cardinality(Pending)' = Cardinality(Pending)
        BY <1>1 DEF Pending
    <2>2. Processing' <=> Processing
        BY DEF Goes, Processing
    <2> QED BY <1>1, <2>1, <2>2 DEF TypeOK, WgExact
<1> QED BY <1>1, <1>2 DEF TypeOK

(* Every step keeps the types and the counter.                             *)
LEMMA TypeStep == TypeOK /\ [Next]_vars => TypeOK'
<1> SUFFICES ASSUME TypeOK, [Next]_vars PROVE TypeOK'
    OBVIOUS
<1> USE DEF setupVars, callVars
<1>0. Cardinality(Pending) \in Nat /\ pc \in Places
    BY PendingFinite DEF TypeOK
<1>1. ASSUME UNCHANGED caller PROVE Cardinality(Pending)' = Cardinality(Pending)
    BY <1>1 DEF Pending
<1>2. ASSUME NEW m \in Setup, HandleSetup(m) PROVE TypeOK'
    <2>1. armed' \in BOOLEAN
        BY <1>2 DEF HandleSetup, Rearm, Changed
    <2>2. WgExact'
        BY <1>1, <1>2 DEF HandleSetup, TypeOK, WgExact, Processing
    <2> QED BY <1>2, <2>1, <2>2 DEF HandleSetup, TypeOK
<1>3. CASE ReceivePong \/ HandlePong
    BY <1>0, <1>3, GoesStep DEF ReceivePong, HandlePong, Places
<1>4. ASSUME NEW c \in Callers, Call(c) PROVE TypeOK'
    <2>0. Cardinality(Pending)' = Cardinality(Pending) + 1
        BY <1>4, PendingMore DEF Call
    <2>1. WgExact'
        BY <1>0, <1>4, <2>0 DEF Call, TypeOK, WgExact, Processing
    <2>2. /\ caller' \in [Callers -> {"idle", "select"}]
          /\ left' \in [Callers -> 0..MaxCalls]
          /\ early' \subseteq Callers
        BY <1>4 DEF Call, TypeOK
    <2> QED BY <1>4, <2>1, <2>2 DEF Call, TypeOK
<1>5. ASSUME NEW c \in Callers, DropCommand(c) PROVE TypeOK'
    <2>1. dropped' \in BOOLEAN
        BY <1>5 DEF DropCommand, TypeOK
    <2>0. Cardinality(Pending)' = Cardinality(Pending) - 1
        BY <1>5, PendingLess DEF DropCommand
    <2>2. WgExact'
        BY <1>0, <1>5, <2>0 DEF DropCommand, TypeOK, WgExact, Processing
    <2>3. caller' \in [Callers -> {"idle", "select"}]
        BY <1>5 DEF DropCommand, TypeOK
    <2> QED BY <1>5, <2>1, <2>2, <2>3 DEF DropCommand, TypeOK
<1>6. ASSUME NEW c \in Callers, TakeCommand(c) PROVE TypeOK'
    <2>1. pc' \in Places /\ Processing' /\ ~Processing
        BY <1>0, <1>6 DEF TakeCommand, Places, Processing
    <2>0. Cardinality(Pending)' = Cardinality(Pending) - 1
        BY <1>6, PendingLess DEF TakeCommand
    <2>2. WgExact'
        BY <1>0, <1>6, <2>0, <2>1 DEF TakeCommand, TypeOK, WgExact
    <2>3. caller' \in [Callers -> {"idle", "select"}]
        BY <1>6 DEF TakeCommand, TypeOK
    <2> QED BY <1>6, <2>1, <2>2, <2>3 DEF TakeCommand, TypeOK
<1>7. CASE CommandLoop
    <2>1. CASE ProcessCommand
        <3>1. dropped' \in BOOLEAN
            BY <2>1 DEF ProcessCommand, TypeOK
        <3>2. pc' \in Places /\ Processing' /\ Processing
            BY <2>1, CommandProcessed DEF ProcessCommand, Processing
        <3>3. WgExact'
            BY <1>1, <2>1, <3>2 DEF ProcessCommand, TypeOK, WgExact
        <3> QED BY <2>1, <3>1, <3>2, <3>3 DEF ProcessCommand, TypeOK
    <2>2. CASE CommandDone
        <3>1. pc' \in Places /\ ~Processing' /\ Processing
            BY <2>2, CommandEnds DEF CommandDone, Processing
        <3>2. WgExact'
            BY <1>0, <1>1, <2>2, <3>1 DEF CommandDone, TypeOK, WgExact
        <3> QED BY <2>2, <3>1, <3>2 DEF CommandDone, TypeOK
    <2>3. CASE ExitLoop
        BY <1>0, <2>3, GoesStep DEF ExitLoop, Places
    <2> QED BY <1>7, <2>1, <2>2, <2>3 DEF CommandLoop
<1>8. CASE RequestLoop \/ SenderSent
    <2>1. CASE SendRequest
        BY <1>0, <2>1, GoesStep, RequestSent DEF SendRequest
    <2>2. CASE RequestTimer \/ ExitRequest \/ SenderSent
        BY <1>0, <2>2, GoesStep DEF RequestTimer, ExitRequest, SenderSent, Places
    <2> QED BY <1>8, <2>1, <2>2 DEF RequestLoop
<1>9. CASE PingService
    BY <1>0, <1>9, GoesStep DEF PingService, PingTick, SendPing, ExitPing, Places
<1>10. CASE Finisher
    <2>1. CASE FinishTimer
        <3>1. pc' \in Places /\ (Processing' <=> Processing)
            BY <1>0, <2>1 DEF FinishTimer, Places, Processing
        <3>2. WgExact'
            BY <1>1, <2>1, <3>1 DEF FinishTimer, TypeOK, WgExact
        <3> QED BY <2>1, <3>1, <3>2 DEF FinishTimer, TypeOK
    <2>2. CASE ContextDone \/ Wait \/ WaitReturns \/ CloseDoneCh
        BY <1>0, <2>2, GoesStep DEF ContextDone, Wait, WaitReturns, CloseDoneCh, Places
    <2> QED BY <1>10, <2>1, <2>2 DEF Finisher
<1>11. CASE Start
    <2>1. CASE CloseChannels
        BY <1>0, <2>1, GoesStep DEF CloseChannels, Places
    <2>2. CASE Return
        <3>1. pc' \in Places /\ (Processing' <=> Processing)
            BY <1>0, <2>2 DEF Return, Places, Processing
        <3>2. WgExact'
            BY <1>1, <2>2, <3>1 DEF Return, TypeOK, WgExact
        <3>3. result' \in {"none", "nil", "session"}
            BY <2>2 DEF Return
        <3> QED BY <2>2, <3>1, <3>2, <3>3 DEF Return, TypeOK
    <2> QED BY <1>11, <2>1, <2>2 DEF Start
<1>12. CASE Cancel \/ UNCHANGED vars
    <2>1. UNCHANGED <<wg, caller, pc>>
        BY <1>12 DEF Cancel, vars
    <2>2. WgExact'
        BY <1>1, <2>1 DEF TypeOK, WgExact, Processing
    <2> QED BY <1>12, <2>2 DEF Cancel, vars, TypeOK
<1> QED BY <1>2, <1>3, <1>4, <1>5, <1>6, <1>7, <1>8, <1>9, <1>10, <1>11, <1>12
        DEF Next, HandleIncomingMessages, SendCommand

(* The goroutines of the client's lobby are always where the model says    *)
(* they can be, and commandWg counts exactly the commands under way: the   *)
(* two branches of sendCommand never count one twice or forget one.        *)
THEOREM TypeCorrect == Spec => []TypeOK
BY TypeInit, TypeStep, PTL DEF Spec

-----------------------------------------------------------------------------
LEMMA SettledInit == Init => Settled
BY DEF Init, Settled

(* Every step keeps what the finisher waited for.                          *)
LEMMA SettledStep == TypeOK /\ Settled /\ [Next]_vars => Settled'
<1> SUFFICES ASSUME TypeOK, Settled, [Next]_vars PROVE Settled'
    OBVIOUS
<1> USE DEF setupVars, callVars
<1>0. pc \in Places /\ caller \in [Callers -> {"idle", "select"}]
    BY DEF TypeOK
<1>1. ASSUME NEW new, Goes(new), new.loop = pc.loop \/ new.loop = "exited",
             new.finisher = pc.finisher \/ new.finisher \in {"wait", "parked", "panicked"}
                                        \/ pc.finisher \in {"woken", "closing"}
      PROVE  Settled'
    BY <1>1 DEF Goes, Settled, Pending
<1>2. CASE HandleIncomingMessages
    <2>1. ASSUME NEW m \in Setup, HandleSetup(m) PROVE Settled'
        BY <2>1 DEF HandleSetup, Settled, Pending
    <2>2. CASE ReceivePong \/ HandlePong
        BY <1>0, <1>1, <2>2 DEF ReceivePong, HandlePong, Places
    <2> QED BY <1>2, <2>1, <2>2 DEF HandleIncomingMessages
<1>3. ASSUME NEW c \in Callers, Call(c) PROVE Settled'
    BY <1>0, <1>3 DEF Call, Settled, Pending
<1>4. ASSUME NEW c \in Callers, DropCommand(c) PROVE Settled'
    BY <1>0, <1>4 DEF DropCommand, Settled, Pending
<1>5. ASSUME NEW c \in Callers, TakeCommand(c) PROVE Settled'
    BY <1>0, <1>5 DEF TakeCommand, Settled, Pending, Places
<1>6. CASE ProcessCommand
    <2>1. pc'.loop = "processed" /\ pc'.finisher = pc.finisher
        BY <1>6, CommandProcessed
    <2> QED BY <1>6, <2>1 DEF ProcessCommand, Settled, Pending
<1>7. CASE CommandDone
    <2>1. Processing
        BY <1>7 DEF CommandDone, Processing
    <2>2. wg = 1 => Pending = {}
        BY <2>1, ZeroIsIdle
    <2>3. Pending' = Pending
        BY <1>7 DEF CommandDone, Pending
    <2>4. pc'.loop = "select" /\ (pc'.finisher = pc.finisher \/ wg = 1)
        BY <1>7, CommandEnds
    <2> QED BY <1>7, <2>2, <2>3, <2>4 DEF CommandDone, Settled
<1>8. CASE ExitLoop
    BY <1>0, <1>1, <1>8 DEF ExitLoop, Places
<1>9. CASE RequestLoop \/ SenderSent \/ PingService
    <2>0. CASE SendRequest
        BY <1>0, <1>1, <2>0, RequestSent DEF SendRequest
    <2>1. CASE RequestTimer \/ ExitRequest
        BY <1>0, <1>1, <2>1 DEF RequestTimer, ExitRequest, Places
    <2>2. CASE SenderSent \/ PingTick \/ SendPing \/ ExitPing
        BY <1>0, <1>1, <2>2 DEF SenderSent, PingTick, SendPing, ExitPing, Places
    <2> QED BY <1>9, <2>0, <2>1, <2>2 DEF RequestLoop, PingService
<1>10. CASE FinishTimer
    BY <1>0, <1>10 DEF FinishTimer, Settled, Places
<1>11. CASE Wait
    <2>1. wg = 0 => Pending = {} /\ pc.loop # "early"
        BY ZeroIsIdle DEF Processing
    <2>2. Pending' = Pending
        BY <1>11 DEF Wait, Goes, Pending
    <2> QED BY <1>0, <1>11, <2>1, <2>2 DEF Wait, Goes, Settled, Places
<1>12. CASE ContextDone \/ WaitReturns \/ CloseDoneCh
    BY <1>0, <1>1, <1>12 DEF ContextDone, WaitReturns, CloseDoneCh, Places
<1>13. CASE CloseChannels
    BY <1>0, <1>1, <1>13 DEF CloseChannels, Places
<1>14. CASE Return \/ Cancel \/ UNCHANGED vars
    BY <1>0, <1>14 DEF Return, Cancel, vars, Settled, Pending, Places
<1> QED BY <1>2, <1>3, <1>4, <1>5, <1>6, <1>7, <1>8, <1>9, <1>10, <1>11, <1>12, <1>13, <1>14
        DEF Next, SendCommand, CommandLoop, Finisher, Start

(* A command that began before the lobby ended is sent: Settled holds when *)
(* doneCh is closed, so the two selects that may give a command up find    *)
(* only commands that began later.                                         *)
THEOREM EarlySent == Spec => []EarlyCommandsSent
<1>1. Init => EarlyCommandsSent
    BY DEF Init, EarlyCommandsSent
<1>2. TypeOK /\ Settled /\ EarlyCommandsSent /\ [Next]_vars => EarlyCommandsSent'
    <2> SUFFICES ASSUME TypeOK, Settled, ~dropped, [Next]_vars PROVE ~dropped'
        BY DEF EarlyCommandsSent
    <2> USE DEF setupVars, callVars
    <2>1. ASSUME NEW c \in Callers, DropCommand(c) PROVE ~dropped'
        BY <2>1 DEF DropCommand, DoneCh, Settled, Pending
    <2>2. CASE ProcessCommand
        BY <2>2 DEF ProcessCommand, DoneCh, Settled
    <2>3. ASSUME UNCHANGED dropped PROVE ~dropped'
        BY <2>3
    <2>4. ASSUME NEW c \in Callers, Call(c) \/ TakeCommand(c) PROVE ~dropped'
        BY <2>3, <2>4 DEF Call, TakeCommand
    <2>5. CASE HandleIncomingMessages \/ CommandDone \/ ExitLoop
        BY <2>3, <2>5 DEF HandleIncomingMessages, HandleSetup, ReceivePong, HandlePong, CommandDone,
                          ExitLoop, Goes
    <2>6. CASE RequestLoop \/ SenderSent \/ PingService
        BY <2>3, <2>6 DEF RequestLoop, RequestTimer, SendRequest, ExitRequest, SenderSent,
                          PingService, PingTick, SendPing, ExitPing, Goes
    <2>7. CASE Finisher \/ Start \/ Cancel \/ UNCHANGED vars
        BY <2>3, <2>7 DEF Finisher, FinishTimer, ContextDone, Wait, WaitReturns, CloseDoneCh, Start,
                          CloseChannels, Return, Cancel, vars, Goes
    <2> QED BY <2>1, <2>2, <2>4, <2>5, <2>6, <2>7 DEF Next, SendCommand, CommandLoop
<1> QED BY <1>1, <1>2, TypeCorrect, SettledInit, SettledStep, PTL DEF Spec

(* No goroutine of the lobby sends on pingCh or sendCh once Start has      *)
(* closed them: the loops it waits for never run again.                    *)
THEOREM ClosedSafely == Spec => []NoSendAfterClose
<1>1. Init => NoSendAfterClose
    BY DEF Init, NoSendAfterClose
<1>2. TypeOK /\ NoSendAfterClose /\ [Next]_vars => NoSendAfterClose'
    <2> SUFFICES ASSUME TypeOK, NoSendAfterClose, [Next]_vars PROVE NoSendAfterClose'
        OBVIOUS
    <2>0. pc \in Places
        BY DEF TypeOK
    <2>1. ASSUME UNCHANGED pc PROVE NoSendAfterClose'
        BY <2>1 DEF NoSendAfterClose
    <2>2. ASSUME NEW new, pc' = new, new.start = pc.start,
                 pc.loop # "exited" \/ new.loop = pc.loop,
                 pc.request # "exited" \/ new.request = pc.request,
                 pc.ping # "exited" \/ new.ping = pc.ping
          PROVE  NoSendAfterClose'
        BY <2>2 DEF NoSendAfterClose
    <2>3. CASE HandleIncomingMessages
        BY <2>0, <2>1, <2>2, <2>3 DEF HandleIncomingMessages, HandleSetup, ReceivePong, HandlePong,
                                      Goes, Places
    <2>4. ASSUME NEW c \in Callers, SendCommand(c) PROVE NoSendAfterClose'
        BY <2>0, <2>1, <2>2, <2>4 DEF SendCommand, Call, DropCommand, TakeCommand, Places
    <2>5. CASE CommandLoop
        <3>1. CASE ProcessCommand
            <4>1. /\ pc'.start = pc.start /\ pc'.request = pc.request /\ pc'.ping = pc.ping
                  /\ pc.loop # "exited"
                BY <3>1, CommandProcessed DEF ProcessCommand
            <4> QED BY <2>2, <4>1
        <3>2. CASE CommandDone
            <4>1. /\ pc'.start = pc.start /\ pc'.request = pc.request /\ pc'.ping = pc.ping
                  /\ pc.loop # "exited"
                BY <3>2, CommandEnds DEF CommandDone
            <4> QED BY <2>2, <4>1
        <3>3. CASE ExitLoop
            BY <2>0, <2>2, <3>3 DEF ExitLoop, Goes, Places
        <3> QED BY <2>5, <3>1, <3>2, <3>3 DEF CommandLoop
    <2>6. CASE RequestLoop \/ SenderSent \/ PingService
        <3>0. CASE SendRequest
            BY <2>0, <2>2, <3>0, RequestSent DEF SendRequest, Goes
        <3>1. CASE RequestTimer \/ ExitRequest
            BY <2>0, <2>2, <3>1 DEF RequestTimer, ExitRequest, Goes, Places
        <3>2. CASE SenderSent \/ PingTick \/ SendPing \/ ExitPing
            BY <2>0, <2>2, <3>2 DEF SenderSent, PingTick, SendPing, ExitPing, Goes, Places
        <3> QED BY <2>6, <3>0, <3>1, <3>2 DEF RequestLoop, PingService
    <2>7. CASE Finisher
        BY <2>0, <2>2, <2>7 DEF Finisher, FinishTimer, ContextDone, Wait, WaitReturns, CloseDoneCh,
                                Goes, Places
    <2>8. CASE Start
        BY <2>0, <2>8 DEF Start, CloseChannels, Return, AllExited, Goes, Places, NoSendAfterClose
    <2>9. CASE Cancel \/ UNCHANGED vars
        BY <2>1, <2>9 DEF Cancel, vars
    <2> QED BY <2>3, <2>4, <2>5, <2>6, <2>7, <2>8, <2>9 DEF Next
<1> QED BY <1>1, <1>2, TypeCorrect, PTL DEF Spec
=============================================================================
