SPECIFICATION Spec
CONSTANTS
    x = x
    y = y
    Items = {x, y}
    Garbage = Garbage
    Prealloc = {}
    MallocFails = FALSE
    MaxSize = 9
SYMMETRY ItemSymmetry
INVARIANT InsertStaysInside
CHECK_DEADLOCK FALSE
