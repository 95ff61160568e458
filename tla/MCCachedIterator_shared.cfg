SPECIFICATION Spec
CONSTANTS
    t1 = t1
    t2 = t2
    Threads <- Both
    Looping <- Nobody
    Items = 3
    MaxIndex = 3
INVARIANTS
    IteratorInvariant
    NoItemTwice
PROPERTIES
    CacheImplementsList
CHECK_DEADLOCK FALSE
