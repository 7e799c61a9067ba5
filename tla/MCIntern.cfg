SPECIFICATION Spec
CONSTANTS
    t1 = t1
    t2 = t2
    s1 = s1
    s2 = s2
    s3 = s3
    s4 = s4
    x = x
    y = y
    z = z
    NULL = NULL
    Table = Table
    Threads = {t1}
    Strs = {s1, s2, s3, s4}
    Texts = {x, y, z}
    HashOf <- MCHashOf
    Uninit <- RightHash
    DY_INTERN_TABLE_SIZE = 1
    DY_INTERN_BLOCK_SIZE = 1
    MaxRefs = 2
SYMMETRY InternSymmetry
INVARIANTS TableIsExact InternedOnce CellsConserved
CHECK_DEADLOCK FALSE
