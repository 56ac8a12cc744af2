SPECIFICATION Spec
CONSTANTS
    Co = {a}
    Mains = {m1}
    Thread = thread
    NULL = null
    MaxTime = 1
CHECK_DEADLOCK FALSE
INVARIANTS ExitsByMzExit
