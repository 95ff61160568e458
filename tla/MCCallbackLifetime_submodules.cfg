SPECIFICATION Spec
CONSTANTS
    rebase = rebase
    walk = walk
    writer = writer
    tags = tags
    modules = modules
    Wrappers <- AllPlain
    Capturing <- Nobody
    Disposing <- AllPlain
    Copied <- Nobody
    Closing <- Closers
    Calls <- Inside
    DisposedAfter <- Nobody
    DisposedInside <- Inside
    MaxItems = 2
INVARIANTS
    CallbackFindsPayload
CHECK_DEADLOCK FALSE
