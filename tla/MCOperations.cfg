SPECIFICATION Spec

CONSTANTS
    v1 = v1
    v2 = v2
    None = None
    LeafCount = 2
    Keys = {1, 2}
    Values = {v1, v2}
    Calls = {c1, c2}
    Requests <- AllRequests
    CanRepair = {1, 2}
    NativeCopy = {}
    NativeMove = {2}
    Faulty = {1}
    Collects = FALSE

SYMMETRY CallSymmetry
CONSTRAINT OneScenario

INVARIANT TypeOK
INVARIANT AfterUseSeesOutcome
INVARIANT StreamKeepsItsValue
PROPERTY RepairUnderLock
PROPERTY ImplementsStore
