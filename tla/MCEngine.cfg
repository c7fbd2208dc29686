SPECIFICATION FairSpec
CONSTANTS
    Threads = {t1, t2, t3}
    Keys = {k1, k2}
    Ids = {i1, i2}
    Null = Null
INVARIANTS
    NoCircularWait
    SleeperNeedsLease
    NQueuedCountsLeases
    FulfilledByHolder
PROPERTIES
    SleeperWakes
