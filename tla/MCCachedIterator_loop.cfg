SPECIFICATION FairSpec
CONSTANTS
    t1 = t1
    t2 = t2
    Threads <- One
    Looping <- One
    Items = 20
    MaxIndex = 20
INVARIANTS
    LoopInvariant
PROPERTIES
    ImplementsDelivery
    ListEnds
CHECK_DEADLOCK FALSE
