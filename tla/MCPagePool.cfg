CONSTANTS
    Pages = {p1, p2, p3}
    Mutators = {m1, m2}
    Collectors = {g1, g2}
    Sweepers = {s1}
    Null = Null
    BlockPages = 2
    Keep = 1
    MaxBehind = 1
SPECIFICATION Spec
SYMMETRY Symmetry
INVARIANTS
    OnePlace
    MapAgrees
    CountTracks
