SPECIFICATION AllSpec
CONSTANTS
    N = 3
    Clients = {c1, c2}
    LocalActors = {p1}
    RemoteActors = {r1, r2, r3}
    NoToken = none
    Callers = {f1, f2}
    HasBroadcast = TRUE
    Tokens = {t1, t2}
    ClientTokens = {k1}
    MaxServices = 3
    Finishers = {g1, g2}
    None = None
    LateStarts = TRUE
INVARIANTS CountMatches SlotsSound Announced OneCountdown MapsSound
PROPERTIES SessionSound StopsUnlessUnreached
CHECK_DEADLOCK FALSE
