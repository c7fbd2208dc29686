CONSTANTS
    Actors = {t0, t1, t2}
    ThreadSets = {{t0, t1, t2}, {t0, t1}, {t0, t2}}
    Io = t0
    Null = Null
    Blocks = FALSE
    MaxQueue = 1
    MaxHandles = 0
SYMMETRY Symmetry
SPECIFICATION Spec
INVARIANTS
    CountExact
    NoLostWakeup
