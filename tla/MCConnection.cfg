SPECIFICATION Spec
CONSTANTS
    a = a
    b = b
    own = own
    shared = shared
    aOwn = aOwn
    aShared = aShared
    bShared = bShared
    a1 = a1
    a2 = a2
    b1 = b1
    ca1 = ca1
    ca2 = ca2
    cb1 = cb1
    ua1 = ua1
    None = None
    Plugins <- MCPlugins
    HasOpen <- MCPlugins
    HasClose <- MCPlugins
    Unmanaged = {}
    ExternallyClosed = {own}
    Clients <- MCClients
    Slots = {aOwn, aShared, bShared}
    SlotClient <- MCSlotClient
    SlotPlugin <- MCSlotPlugin
    CallClient <- MCCallClient
    OpenCalls = {a1, a2, b1}
    CloseCalls = {ca1, ca2, cb1}
    Operations = {ua1}
    ConcurrentClose = FALSE
SYMMETRY MCSymmetry
CONSTRAINT OneScenario
INVARIANTS
    TypeOK
    ReferencesMatchOwners
    PluginsOpenWhileUsed
    EveryUseHasAReleaser
    UnusedPluginsAreClosed
    NoDeadConnection
