SPECIFICATION Spec
CONSTANTS
    MaxEntries = 5
    PackSize = 2
    ConfirmRanges = 2
    MaxInFlight = 1
INVARIANTS PacksIncreasing
