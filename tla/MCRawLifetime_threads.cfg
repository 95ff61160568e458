SPECIFICATION FairSpec
CONSTANTS
    stream = stream
    blob = blob
    Handles <- Objects
    Owning <- Objects
    Closeable <- Closers
    Convertible <- Converters
    Threads = {t1, t2}
    CleanerWorker = worker
    NoHandle = NoHandle
INVARIANTS
    NoUseAfterFree
    LifetimeInvariant
    ReleaseInvariant
    WhatFailureLeaves
PROPERTIES
    RevivedArenaIsLost
    ArenaIsReclaimed
    GarbageIsReleased
    ImplementsResource
CHECK_DEADLOCK FALSE
