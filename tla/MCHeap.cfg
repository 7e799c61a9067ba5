SPECIFICATION FairSpec
CONSTANTS
    d = d
    l = l
    u = u
    t1 = t1
    t2 = t2
    h1 = h1
    h2 = h2
    h3 = h3
    pd = pd
    pl = pl
    NULL = NULL
    Obj = {d, l, u}
    Threads = {t1, t2}
    Handles = {h1, h2, h3}
    Slots = {pd, pl}
    Dicts = {d}
    Userdata = {u}
    OwnerOf <- MCOwnerOf
    ContainerOf <- MCContainerOf
INVARIANTS TypeOK NoDangling CountsAgree DestroyedOnce CallsKeepTheirContainer NothingForgotten
PROPERTIES OwnershipSpec DyingIsFreed
CHECK_DEADLOCK FALSE
