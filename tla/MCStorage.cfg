\* Fragments of 3 to 6 bytes in payloads of up to 9; sets of 3 words of 2 bits;
\* a history of 3 changes with 2 threads.
SPECIFICATION PartsSpec
CONSTANTS
    MaxLength = 9
    Sizes = {0, 3, 4, 5}
    Lengths = {0, 5, 9}
    W = 32
    Data <- SomeData
    MaxSize = 4
    Thread = {s, t}
    Change <- SomeChanges
    MaxChanges = 3
    NULL = NULL
    B = 2
    NITEMS = 3
    M = 10
    Bases = {0, 1, 4, 11}
    Items = {0, 1, 2, 3, 4, 5, 7, 12}
INVARIANTS
    FirstDecides
    BitsAreTheSet
    ChangesAccounted
    PayloadSound
PROPERTIES
    WithinPayload
\* A crash ends the process, and a full set of calls may leave nothing to do.
CHECK_DEADLOCK FALSE
