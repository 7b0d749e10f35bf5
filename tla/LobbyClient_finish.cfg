SPECIFICATION FairSpec
CONSTANTS
    LobbyStates = {1, 129}
    Rests = {r}
    NoRest = none
    Callers = {c1}
    MaxCalls = 1
PROPERTIES FinishesWhenTold
CHECK_DEADLOCK FALSE
