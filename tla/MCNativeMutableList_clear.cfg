SPECIFICATION Spec
CONSTANTS
    x = x
    y = y
    z = z
    Threads = {t1, t2}
    Calls <- Clearing
    Original <- NoElements
    MaxCalls = 3
PROPERTIES
    ImplementsList
CHECK_DEADLOCK FALSE
