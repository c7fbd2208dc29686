CONSTANTS
    Items = {v1, v2}
    Owner = o
    Thieves = {h1, h2}
    Null = Null
    Torn = Torn
    InitCapacity = 1
    MaxIndex = 3
SPECIFICATION Spec
SYMMETRY Symmetry
INVARIANTS
    StolenIsOldest
PROPERTIES
    ImplementsStealQueue
