SPECIFICATION Spec
CONSTANTS
    x = x
    y = y
    Items = {x, y}
    Garbage = Garbage
    Prealloc = {0, 4, 6}
    MallocFails = TRUE
    MaxSize = 9
SYMMETRY ItemSymmetry
INVARIANTS AssertHolds RefsAccounted
PROPERTY SeqSpec
CHECK_DEADLOCK FALSE
