SPECIFICATION Spec

CONSTANTS
    v1 = v1
    v2 = v2
    None = None
    LeafCount = 2
    Keys = {1}
    Values = {v1, v2}
    Calls = {c1, c2}
    Requests <- RepairRequests
    CanRepair = {1, 2}
    NativeCopy = {}
    NativeMove = {}
    Faulty = {2}
    Collects = TRUE

PROPERTY RepairUnderLock
