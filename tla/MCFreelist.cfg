SPECIFICATION Spec
CONSTANTS
    N = 5
    NULL = NULL
    Garbage = Garbage
INVARIANT FreeCellsAreListed
PROPERTY PoolSpec
