CONSTANTS
    Pages = {p1, p2}
    Mutators = {m1}
    Collectors = {g1}
    Sweepers = {s1}
    Null = Null
    BlockPages = 2
    Keep = 0
    MaxBehind = 2
SPECIFICATION Spec
INVARIANTS
    OnePlace
