CONSTANTS
    Actors = {t0, t1}
    ThreadSets = {{t0, t1}}
    Io = t0
    Null = Null
    Blocks = TRUE
    MaxQueue = 1
    MaxHandles = 0
SPECIFICATION FairSpec
PROPERTIES
    ThreadServes
    WaitEmptyEnds
