SPECIFICATION PipelineSpec

CONSTANTS
    Depth = 3
    Settings <- Wild
    Parts = {"Onion"}
    Walks <- Every
    Branches = {"x", "y"}
    Middlewares = {"A", "G"}
    Gates = {"G"}
    Before = {"A"}
    MaxCalls = 6
    MaxChain = 2
    MaxStorages = 3
    Kinds = {"Base64", "Base64Url", "Hex", "V8Serde", "Cbor", "Json", "Superjson", "ZstdBun", "BrotliBun"}
    Bytes <- SomeBytes
    Values <- SomeValues
    Foreign <- Others
    MinimumCapacity = 4
    Hooks <- EveryHook
    Contents <- SomeContents
    MaxChunkSize = 2
    MaxTime = 2
    None = None

INVARIANT ViolationSurfaces
