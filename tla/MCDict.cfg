SPECIFICATION Spec
CONSTANTS
    ka1 = ka1
    ka2 = ka2
    kb = kb
    kc = kc
    kd = kd
    v1 = v1
    v2 = v2
    NULL = NULL
    Undefined = Undefined
    Keys <- AllKeys
    Vals <- MCVals
    Hashable <- AllKeys
    Contents <- AllKeys
    ContentOf <- MCContentOf
    HashOf <- MCHashOf
    DY_TABLE_SIZE = 1
    DY_BLOCK_SIZE = 1
    MaxOver = 1
SYMMETRY WideSymmetry
INVARIANTS TypeOK CellsConserved IteratesOnce EntriesFindable RefsAccounted
PROPERTIES GrowsOnlyWhenFull MapSpec
CHECK_DEADLOCK FALSE
