SPECIFICATION FairSpec
CONSTANTS
    N = 2
    Calls = {h1}
    MaxPacks = 2
INVARIANTS EndedOwesNothing
PROPERTIES CallReturns SuspensionSettles StopsOrAbandoned
CHECK_DEADLOCK FALSE
