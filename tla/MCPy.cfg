SPECIFICATION Spec
CONSTANTS
    Slots <- MCSlots
    ErrSlots <- MCErrSlots
    PySlots <- MCPySlots
    NULL = NULL
    Undefined = Undefined
    None = None
    Small = Small
    Done = Done
    Thrown = Thrown
    ParentString = ParentString
    Names = {a, b}
    MaxCount = 2
    MaxItems = 1
    MaxErrors = 1
    MaxObjects = 5
    MaxPending = 3
CONSTRAINT Within
SYMMETRY NameSymmetry
VIEW Shared
PROPERTIES OnlyTheseUnbalance ErrorsOnRightSide
CHECK_DEADLOCK FALSE
