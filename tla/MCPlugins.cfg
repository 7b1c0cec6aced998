SPECIFICATION FairPluginsSpec

CONSTANTS
    k1 = k1
    k2 = k2
    k3 = k3
    a = a
    b = b
    c = c
    d = d
    Plugins = {"RateLimit", "Ttl", "LruCache", "Retry", "Storage"}
    Old = Old
    None = None
    Never = Never
    MaxTime = 2
    Careful = TRUE
    Sizes = {1, 2, 4}
    MaxSize = 4
    Unlimited = Unlimited
    v1 = v1
    v2 = v2
    MaxRetries = 2
    Given = Given
    Callers = {a, b, c}
    Cost = 3
    Rate = 2
    Capacity = 4
    MaxSetback = 1
    Setbacks = 1
    Storages = {"RedisNode", "RedisBun", "Valkey", "NodeFs", "BunFs", "Opfs", "S3", "S3Bun", "CloudflareR2", "VercelBlob", "CloudflareKv", "CloudflareCache", "Etcd", "Memcached", "Http", "CacheStorage", "Indexeddb", "LocalStorage", "Cookies", "Memory", "RuntimeCache", "RuntimeCacheFallback"}

INVARIANT PluginsTypeOK
INVARIANT GrantsAreDue
INVARIANT WithinLimits
INVARIANT AnswersAreTrue
INVARIANT NothingIsHalfDone
PROPERTY ExpiryIsExact
PROPERTY KeepsTheRecent
PROPERTY ValuesAreNotLost
PROPERTY AbortStops
PROPERTY EveryRequestEnds
