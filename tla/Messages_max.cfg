SPECIFICATION Spec
CONSTANTS
    MaxUint8 = 255
    Lens = {2, 255}
    MaxRows = 1
    MaxCut = 0
INVARIANTS ReadBack
CHECK_DEADLOCK FALSE
