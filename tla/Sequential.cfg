SPECIFICATION AllSpec
CONSTANTS
    MaxSeq = 4
    MaxFeed = 2
    MaxTime = 3
    MaxWaits = {0, 1}
    InitialSeq = 1
    RangeMaxSeq = 6
    RingCap = 3
    RingMaxSeq = 5
    RingSizes = {2}
    RingMaxDelay = 2
    RingMaxBytes = 4
    NodeSize = 2
    StoryMaxSeq = 5
    Delays = {0, 2}
    Sizes = {1, 2}
    Lobbies = {l1, l2, l3}
    Infos = {x, y}
    RecentAfter = 1
    OldAfter = 2
    StaleAfter = 3
    MaxVersion = 5
    Stories = {s, t}
    Clients = {c1, c2, c3}
    Actors = {1, 2}
    SessionToken = tok
    MaxClients = 2
    MaxStories = 2
    MaxOwnStories = 1
    MaxOwnActors = 2
    IntBits = 2
    ByteValues = 4
    SlotCap = 5
    StoryCap = 2
    ActorCap = 2
    Indexes = {0, 1, 2}
    MaxUint8 = 255
    Lens = {0, 2, 254, 256}
    MaxRows = 2
    MaxCut = 60
SYMMETRY LobbySymmetry
INVARIANTS
    DeliversAll MissingExact Canonical AnswersExact ReplaysExactly ShowsLatest
    SetUpSound WireSound
PROPERTIES
    SkipOnlyExpired Refinement RangeSetRefines RecentRefines HistoryRefines VersionTells
CHECK_DEADLOCK FALSE
