SPECIFICATION FairSpec
CONSTANTS
    rebase = rebase
    walk = walk
    writer = writer
    tags = tags
    modules = modules
    Wrappers <- Everyone
    Capturing <- Inner
    Disposing <- Overrides
    Copied <- Options
    Closing <- Closers
    Calls <- Foreach
    DisposedAfter <- After
    DisposedInside <- Inside
    MaxItems = 2
INVARIANTS
    CallbackInvariant
    PayloadLastsAsLongAsItsOwner
PROPERTIES
    PlainWrapperIsReleased
    ReferencesImplementResource
CHECK_DEADLOCK FALSE
