SPECIFICATION Spec
CONSTANTS
    x = x
    y = y
    z = z
    Threads = {t1, t2}
    Calls <- EveryKind
    Original <- TwoElements
    MaxCalls = 4
INVARIANTS
    ListInvariant
PROPERTIES
    ChangesAreWholeCalls
CHECK_DEADLOCK FALSE
