SPECIFICATION Spec
CONSTANTS
    LobbyStates = {1}
    Rests = {r}
    NoRest = none
    Callers = {c1}
    MaxCalls = 2
INVARIANTS NoPanic
CHECK_DEADLOCK FALSE
