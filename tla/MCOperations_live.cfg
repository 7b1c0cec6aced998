SPECIFICATION FairSpec

CONSTANTS
    v1 = v1
    v2 = v2
    None = None
    LeafCount = 2
    Keys = {1, 2}
    Values = {v1}
    Calls = {c1, c2}
    Requests <- LiveRequests
    CanRepair = {1, 2}
    NativeCopy = {1, 2}
    NativeMove = {1, 2}
    Faulty = {2}
    Collects = TRUE

PROPERTY EveryCallSettles
