CONSTANTS
    Actors = {t0, t1}
    ThreadSets = {{t0, t1}}
    Io = t0
    Null = Null
    Blocks = TRUE
    MaxQueue = 2
    MaxHandles = 1
SPECIFICATION Spec
INVARIANTS
    SleepAssertions
    NoLostWakeup
    NoStrandedHandle
    LoopGivesWay
