SPECIFICATION Spec

CONSTANTS
    k1 = k1
    k2 = k2
    a = a
    b = b
    c = c
    d = d
    Keys = {k1, k2}
    Calls = {a, b, c, d}
    None = None
    Old = Old
    Plans <- Streams

CONSTRAINT OneScenario

PROPERTY LiveValuesAreKept
