\* Two coroutine objects, which may construct and resume each other.
SPECIFICATION Spec
CONSTANTS
    Co = {a, b}
    Mains = {m1, m2}
    Thread = thread
    NULL = null
    MaxTime = 2
INVARIANTS
    OwnContext
    OneUpdate
PROPERTY
    SleepEnds
\* An assertion ends the process, and the clock stops at MaxTime.
CHECK_DEADLOCK FALSE
