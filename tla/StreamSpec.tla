----------------------------- MODULE StreamSpec -----------------------------
(***************************************************************************)
(* The abstract receiver: one call of Engine is one step that hands out    *)
(* the run of numbers the feed completed and reports exactly the gaps.     *)
(***************************************************************************)
EXTENDS StreamOps

CONSTANTS MaxTime, MaxWaits, InitialSeq, Feeds

VARIABLES maxWait, now, lastSeq, lastTime, ahead, missing

specVars == <<maxWait, now, lastSeq, lastTime, ahead, missing>>

Init ==
    /\ maxWait \in MaxWaits
    /\ now = 1
    /\ lastSeq = InitialSeq - 1
    /\ lastTime = 0
    /\ ahead = {}
    /\ missing = {}

Tick ==
    /\ now < MaxTime
    /\ now' = now + 1
    /\ UNCHANGED <<lastSeq, lastTime, ahead, missing>>

Engine(f) ==
    LET start == IF lastTime = 0 THEN now ELSE lastTime
        late  == maxWait # 0 /\ now - start > maxWait
    IN /\ lastSeq' = PushLast(lastSeq, ahead, f, late)
       /\ ahead' = PushAhead(lastSeq, ahead, f, late)
       /\ lastTime' = IF lastSeq' > lastSeq THEN now ELSE start
       /\ missing' = GetMissing(lastSeq', ahead')
       /\ UNCHANGED now

Next == UNCHANGED maxWait /\ (Tick \/ \E f \in Feeds : Engine(f))

Spec == Init /\ [][Next]_specVars
=============================================================================
