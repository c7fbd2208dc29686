SPECIFICATION FairSpec
CONSTANTS
    t1 = t1
    t2 = t2
    t3 = t3
    Tasks = {t1, t2, t3}
    Null = Null
    Calls <- MixedCalls
    MAX_SPIN_ITERS = 1
    MaxDepth = 2
INVARIANTS
    LockedByExactlyOne
    ParkedBitSet
    NoStrandedWaiter
    OneWake
    EntriesLinkedOnce
    FinalizersBalanced
PROPERTIES
    ImplementsMutex
    HandoverCompletes
    CancelEndsWait
