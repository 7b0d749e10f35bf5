SPECIFICATION AllSpec
CONSTANTS
    MaxSeq = 3
    Cap = 2
    MaxRanges = 1
    MaxPack = 2
    MaxNet = 1
    Handlers = {h1, h2}
    MaxEntries = 6
    PackSize = 2
    ConfirmRanges = 4
    MaxInFlight = 1
    OrderEntries = 5
    OrderRanges = 1
    OrderNet = 2
    LongEntries = 9
INVARIANTS Accounted OnceInOrder PrefixOfStory AsksForGaps
PROPERTIES Settles GapRepaired
CHECK_DEADLOCK FALSE
