CONSTANTS
    Actors = {t0, t1}
    ThreadSets = {{t0, t1}}
    Io = t0
    Null = Null
    Blocks = FALSE
    MaxQueue = 1
    MaxHandles = 0
SPECIFICATION Spec
PROPERTIES
    EmptyOnExit
