\* Three cells of two bytes, all sequences of calls.
SPECIFICATION Spec
CONSTANTS
    kCapacity = 3
    ObjSize = 2
INVARIANTS
    SizeCounts
    ObjectsTracked
    IterationComplete
PROPERTY
    UsedUntouched
\* A destroyed pool does nothing more.
CHECK_DEADLOCK FALSE
