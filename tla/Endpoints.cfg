SPECIFICATION AllSpec
CONSTANTS
    MaxEvents = 2
    MaxMsgs = 2
    Handlers = {h1, h2, h3}
    NoHandler = NoHandler
    LobbyStates = {128}
    Rests = {r}
    NoRest = none
    Callers = {c1, c2}
    MaxCalls = 1
INVARIANTS IdleStopSafe EarlyCommandsSent NoSendAfterClose
PROPERTIES WaitDoneReturns HandlerServed EndsCleanly StartReturns CallsReturn
CHECK_DEADLOCK FALSE
