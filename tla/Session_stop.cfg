SPECIFICATION FairSpec
CONSTANTS
    N = 1
    Calls = {h1}
    MaxPacks = 2
PROPERTIES Stops
CHECK_DEADLOCK FALSE
