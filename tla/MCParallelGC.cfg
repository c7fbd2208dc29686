CONSTANTS
    Initiator = i
    g1 = g1
    g2 = g2
    a = a
    c = c
    f = f
    Helpers <- Order
    Null = Null
    Objects = {a, c, f}
    Refs <- HeapRefs
    Roots <- QueuedRoots
    Finalized = f
    GC_CHUNK_BATCH_SIZE = 1
    Worth = 1
    ChunkWork = 2
    NSlots = 2
    Pages = {p1}
    MaxCollections <- TwoThenOne
SPECIFICATION FairSpec
CHECK_DEADLOCK FALSE
INVARIANTS
    NoWorkLeft
    InitiatorAlone
    AllMarked
    StacksSwept
    ScratchLive
PROPERTIES
    FollowedOnce
    CollectionEnds
    RequestsServed
