SPECIFICATION FairSpec
CONSTANTS
    Tokens = {t1}
    ClientTokens = {c1}
    MaxServices = 2
    Finishers = {f1}
    None = None
    LateStarts = FALSE
PROPERTIES ServerStops
CHECK_DEADLOCK FALSE
