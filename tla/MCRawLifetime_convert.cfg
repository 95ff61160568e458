SPECIFICATION FairSpec
CONSTANTS
    stream = stream
    blob = blob
    Handles <- Objects
    Owning <- Objects
    Closeable <- Closers
    Convertible <- Converters
    Threads = {t1}
    CleanerWorker = worker
    NoHandle = NoHandle
PROPERTIES
    FreedErrorIsTruthful
CHECK_DEADLOCK FALSE
