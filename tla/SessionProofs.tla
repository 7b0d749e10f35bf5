---------------------------- MODULE SessionProofs ----------------------------
(***************************************************************************)
(* Proofs about Session, for any number of clients, calls and packs.       *)
(***************************************************************************)
EXTENDS Session, TLAPS

(* A call that waits for a pack, or its goroutine, is the one the loop is  *)
(* answering unless its channel is closed.                                 *)
Owed ==
    \A h \in Calls : call[h].at \in {"wait", "range", "send"} =>
        h \in closed \/ (loop.at = "answering" /\ loop.req = h)

USE SessionConstants DEF Clients

(* What a place of the loop and a place of a call carry, and which records *)
(* are places.                                                             *)
LEMMA LoopForms ==
    ASSUME NEW l \in LoopPlaces
    PROVE  /\ l.at = "reading" => l.next \in 1..(N + 1) /\ l.worst \in SessionState
           /\ l.at = "sending" => l.next \in Clients
           /\ l.at = "answering" => l.req \in Calls /\ l.left \in 0..MaxPacks
<1>1. CASE l \in {[at |-> "new"], Select, [at |-> "ended"]}
    BY <1>1 DEF Select
<1>2. CASE l \in {Reading(c, w) : c \in 1..(N + 1), w \in SessionState}
    BY <1>2 DEF Reading
<1>3. ASSUME NEW c \in Clients, l = Sending(c) PROVE l = [at |-> "sending", next |-> c]
    BY <1>3 DEF Sending
<1>4. CASE l \in {Answering(h, n) : h \in Calls, n \in 0..MaxPacks}
    BY <1>4 DEF Answering
<1> QED BY <1>1, <1>2, <1>3, <1>4 DEF LoopPlaces

LEMMA LoopMakes ==
    /\ [at |-> "new"] \in LoopPlaces
    /\ Select \in LoopPlaces
    /\ [at |-> "ended"] \in LoopPlaces
    /\ \A c \in 1..(N + 1), w \in SessionState : Reading(c, w) \in LoopPlaces
    /\ \A c \in 1..(N + 1) : Sending(c) \in LoopPlaces
    /\ \A h \in Calls, n \in 0..MaxPacks : Answering(h, n) \in LoopPlaces
<1>1. ASSUME NEW c \in 1..(N + 1), c > N PROVE Sending(c) = Select
    BY <1>1 DEF Sending
<1> QED BY <1>1 DEF LoopPlaces

LEMMA CallForms ==
    ASSUME NEW k \in CallPlaces
    PROVE  k.at \in {"ask", "wait", "range", "send"} => k.client \in Clients
BY DEF CallPlaces, NoCall, Gone, Ask, Place

LEMMA CallMakes ==
    /\ NoCall \in CallPlaces
    /\ Gone \in CallPlaces
    /\ \A c \in Clients, b \in BOOLEAN : Ask(c, b) \in CallPlaces
    /\ \A at \in {"wait", "range", "send"}, c \in Clients : Place(at, c) \in CallPlaces
BY DEF CallPlaces

LEMMA TypeInit == Init => TypeOK
<1> SUFFICES ASSUME Init PROVE TypeOK
    OBVIOUS
<1>1. loop \in LoopPlaces
    BY LoopMakes DEF Init
<1>2. call \in [Calls -> CallPlaces]
    BY CallMakes DEF Init
<1> QED BY <1>1, <1>2 DEF Init, NewClients, TypeOK, SessionState, ClientState, Ages

(* Every step keeps the types.                                             *)
LEMMA TypeStep == TypeOK /\ [Next]_vars => TypeOK'
<1> SUFFICES ASSUME TypeOK, [Next]_vars PROVE TypeOK'
    OBVIOUS
<1> USE LoopMakes, CallMakes DEF TypeOK
<1>1. CASE Start
    BY <1>1 DEF Start, SessionState, clientVars
<1>2. CASE Cancel
    BY <1>2 DEF Cancel, clientVars
<1>3. CASE LoopDone
    BY <1>3 DEF LoopDone, SessionState, clientVars
<1>4. ASSUME NEW c \in Clients, ClientDone(c) PROVE TypeOK'
    BY <1>4 DEF ClientDone, ClientState
<1>5. CASE CleanUp
    BY <1>5 DEF CleanUp, clientVars
<1>6. CASE Tick
    BY <1>6 DEF Tick, SessionState, clientVars
<1>7. CASE ReadState
    <2> DEFINE c == loop.next
    <2>1. c \in Clients /\ loop.worst \in SessionState
        BY <1>7, LoopForms DEF ReadState
    <2>2. GetState(c) \in ClientState
        BY <2>1 DEF GetState, ClientState
    <2>3. Worse(loop.worst, GetState(c)) \in SessionState
        BY <2>1 DEF Worse, SessionState
    <2>4. c + 1 \in 1..(N + 1)
        BY <2>1
    <2>5. loop' \in LoopPlaces
        BY <1>7, <2>3, <2>4 DEF ReadState
    <2>6. cstate' \in [Clients -> ClientState]
        BY <1>7, <2>2 DEF ReadState
    <2> QED BY <1>7, <2>5, <2>6 DEF ReadState
<1>8. CASE Report
    <2>1. loop.worst \in SessionState
        BY <1>8, LoopForms DEF Report
    <2>2. suspended' \in BOOLEAN
        BY <1>8 DEF Report
    <2>3. loop' \in LoopPlaces
        BY <1>8 DEF Report
    <2>4. state' \in SessionState
        BY <1>8, <2>1 DEF Report
    <2> QED BY <1>8, <2>2, <2>3, <2>4 DEF Report, clientVars
<1>9. CASE StoryEntry
    BY <1>9 DEF StoryEntry, clientVars
<1>10. CASE SendNext
    <2>1. loop.next + 1 \in 1..(N + 1)
        BY <1>10, LoopForms DEF SendNext
    <2> QED BY <1>10, <2>1 DEF SendNext, clientVars
<1>11. ASSUME NEW c \in Clients, Message(c) PROVE TypeOK'
    BY <1>11 DEF Message, UpdateState, ClientState, Ages
<1>12. ASSUME NEW c \in Clients, Age(c) PROVE TypeOK'
    BY <1>12 DEF Age, Ages
<1>13. ASSUME NEW h \in Calls, NEW c \in Clients, HandleStoryConfirm(h, c) PROVE TypeOK'
    BY <1>13 DEF HandleStoryConfirm, UpdateState, ClientState, Ages
<1>14. ASSUME NEW h \in Calls, Take(h) PROVE TypeOK'
    BY <1>14, CallForms DEF Take, clientVars
<1>15. ASSUME NEW h \in Calls, HandOver(h) PROVE TypeOK'
    <2>1. call[h].client \in Clients
        BY <1>15, CallForms DEF HandOver
    <2>2. loop.left - 1 \in 0..MaxPacks
        BY <1>15, LoopForms DEF HandOver
    <2> QED BY <1>15, <2>1, <2>2 DEF HandOver, clientVars
<1>16. ASSUME NEW h \in Calls, Close(h) PROVE TypeOK'
    BY <1>16 DEF Close, clientVars
<1>17. ASSUME NEW h \in Calls, FindClosed(h) PROVE TypeOK'
    BY <1>17 DEF FindClosed, clientVars
<1>18. ASSUME NEW h \in Calls, Forward(h) PROVE TypeOK'
    BY <1>18, CallForms DEF Forward, clientVars
<1>19. ASSUME NEW h \in Calls, GiveUpAsk(h) PROVE TypeOK'
    BY <1>19 DEF GiveUpAsk, clientVars
<1>20. ASSUME NEW h \in Calls, GiveUpWait(h) PROVE TypeOK'
    BY <1>20 DEF GiveUpWait, clientVars
<1>21. CASE UNCHANGED vars
    BY <1>21 DEF vars, clientVars
<1> QED
    BY <1>1, <1>2, <1>3, <1>4, <1>5, <1>6, <1>7, <1>8, <1>9, <1>10, <1>11, <1>12, <1>13,
       <1>14, <1>15, <1>16, <1>17, <1>18, <1>19, <1>20, <1>21 DEF Next, LoopStep, CallStep

(* THEOREM: sessionService and its clients keep their types, and the loop  *)
(* and the calls are always at one of their places.                        *)
THEOREM TypeCorrect == Spec => []TypeOK
BY TypeInit, TypeStep, PTL DEF Spec

LEMMA OwedStep == TypeOK /\ Owed /\ [Next]_vars => Owed'
<1> SUFFICES ASSUME TypeOK, Owed, [Next]_vars, NEW g \in Calls,
                    call'[g].at \in {"wait", "range", "send"}
             PROVE  g \in closed' \/ (loop'.at = "answering" /\ loop'.req = g)
    BY DEF Owed
<1> DEFINE Served == g \in closed \/ (loop.at = "answering" /\ loop.req = g)
<1>call. call \in [Calls -> CallPlaces]
    BY DEF TypeOK
<1>owed. call[g].at \in {"wait", "range", "send"} => Served
    BY DEF Owed
<1>1. CASE /\ call' = call
           /\ closed' = closed
           /\ loop.at # "answering" \/ loop' = loop
    BY <1>1, <1>owed
<1>2. CASE Start \/ LoopDone \/ Tick \/ ReadState \/ Report \/ StoryEntry \/ SendNext
    BY <1>1, <1>2 DEF Start, LoopDone, Tick, ReadState, Report, StoryEntry, SendNext
<1>3. CASE Cancel \/ CleanUp \/ UNCHANGED vars
    BY <1>1, <1>3 DEF Cancel, CleanUp, vars
<1>4. ASSUME NEW c \in Clients, ClientDone(c) \/ Message(c) \/ Age(c)
      PROVE  loop' = loop /\ call' = call /\ closed' = closed
    BY <1>4 DEF ClientDone, Message, Age
<1>5. ASSUME NEW h \in Calls, NEW c \in Clients, HandleStoryConfirm(h, c)
      PROVE  g \in closed' \/ (loop'.at = "answering" /\ loop'.req = g)
    <2>1. h # g
        BY <1>5, <1>call DEF HandleStoryConfirm, Ask
    <2> QED BY <1>5, <1>call, <1>owed, <2>1 DEF HandleStoryConfirm
<1>6. ASSUME NEW h \in Calls, Take(h)
      PROVE  g \in closed' \/ (loop'.at = "answering" /\ loop'.req = g)
    <2>1. CASE h = g
        BY <1>6, <2>1 DEF Take, Answering
    <2>2. CASE h # g
        BY <1>6, <1>call, <1>owed, <2>2 DEF Take
    <2> QED BY <2>1, <2>2
<1>7. ASSUME NEW h \in Calls, HandOver(h)
      PROVE  g \in closed' \/ (loop'.at = "answering" /\ loop'.req = g)
    BY <1>7, <1>call, <1>owed DEF HandOver, Answering
<1>8. ASSUME NEW h \in Calls, Close(h)
      PROVE  g \in closed' \/ (loop'.at = "answering" /\ loop'.req = g)
    BY <1>8, <1>call, <1>owed DEF Close, Gone, NoCall
<1>9. ASSUME NEW h \in Calls, CallStep(h)
      PROVE  g \in closed' \/ (loop'.at = "answering" /\ loop'.req = g)
    <2>1. CASE FindClosed(h) \/ GiveUpAsk(h) \/ GiveUpWait(h)
        <3>1. h # g
            BY <2>1, <1>call DEF FindClosed, GiveUpAsk, GiveUpWait, NoCall, Gone
        <3> QED BY <2>1, <3>1, <1>call, <1>owed DEF FindClosed, GiveUpAsk, GiveUpWait
    <2>2. CASE Forward(h)
        BY <2>2, <1>call, <1>owed DEF Forward
    <2> QED BY <1>9, <2>1, <2>2 DEF CallStep
<1> QED
    BY <1>1, <1>2, <1>3, <1>4, <1>5, <1>6, <1>7, <1>8, <1>9 DEF Next, LoopStep

(* THEOREM: when sessionService.start has returned, no HandleStoryConfirm  *)
(* call, and no goroutine one left behind, waits for a pack on a channel   *)
(* that nobody will close.                                                 *)
THEOREM EndOwesNothing == Spec => []EndedOwesNothing
<1>1. Init => Owed
    BY DEF Init, Owed, NoCall
<1>2. Owed => EndedOwesNothing
    BY DEF Owed, EndedOwesNothing
<1> QED
    BY <1>1, <1>2, TypeInit, TypeStep, OwedStep, PTL DEF Spec
=============================================================================
