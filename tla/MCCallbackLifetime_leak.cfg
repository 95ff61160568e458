SPECIFICATION FairSpec
CONSTANTS
    rebase = rebase
    walk = walk
    writer = writer
    tags = tags
    modules = modules
    Wrappers <- Options
    Capturing <- Options
    Disposing <- Options
    Copied <- Options
    Closing <- Nobody
    Calls <- Nobody
    DisposedAfter <- Nobody
    DisposedInside <- Nobody
    MaxItems = 2
PROPERTIES
    CleanersAreRun
CHECK_DEADLOCK FALSE
