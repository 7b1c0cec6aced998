SPECIFICATION PluginsSpec

CONSTANTS
    k1 = k1
    k2 = k2
    k3 = k3
    a = a
    b = b
    c = c
    d = d
    Plugins = {"Ttl"}
    Old = Old
    None = None
    Never = Never
    MaxTime = 2
    Careful = FALSE
    Sizes = {1, 2, 4}
    MaxSize = 4
    Unlimited = Unlimited
    v1 = v1
    v2 = v2
    MaxRetries = 2
    Given = Given
    Callers = {a, b, c}
    Cost = 3
    Rate = 2
    Capacity = 4
    MaxSetback = 1
    Setbacks = 1
    Storages = {"Memory"}

INVARIANT NoValueIsHidden
