SPECIFICATION Spec
CONSTANTS
    Slots <- MCSlots
    ErrSlots <- MCErrSlots
    PySlots = {}
    NULL = NULL
    Undefined = Undefined
    None = None
    Small = Small
    Done = Done
    Thrown = Thrown
    Names = {a, b}
    MaxCount = 2
    MaxItems = 1
    MaxErrors = 1
    Kinds = {"CBA_LIST", "CBA_1"}
CONSTRAINT Within
SYMMETRY NameSymmetry
INVARIANTS ReprCloses
PROPERTIES OnlyTheseUnbalance FreedOnlyIfRobbed RefShowsItem
CHECK_DEADLOCK FALSE
