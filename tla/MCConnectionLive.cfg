SPECIFICATION FairSpec
CONSTANTS
    a = a
    b = b
    f = f
    shared = shared
    foreign = foreign
    aShared = aShared
    bShared = bShared
    fForeign = fForeign
    a1 = a1
    b1 = b1
    f1 = f1
    f2 = f2
    ca1 = ca1
    cb1 = cb1
    cf1 = cf1
    cf2 = cf2
    uf1 = uf1
    None = None
    Plugins <- MCPlugins
    HasOpen <- MCPlugins
    HasClose <- MCPlugins
    Unmanaged = {foreign}
    ExternallyClosed = {}
    Clients <- MCClients
    Slots = {aShared, bShared, fForeign}
    SlotClient <- MCSlotClient
    SlotPlugin <- MCSlotPlugin
    CallClient <- MCCallClient
    OpenCalls = {a1, b1, f1, f2}
    CloseCalls = {ca1, cb1, cf1, cf2}
    Operations = {uf1}
    ConcurrentClose = TRUE
CONSTRAINT OneGroup
PROPERTIES
    ConnectionCallsSettle
INVARIANTS
    UnusedPluginsAreClosed
