\* Four waiting threads, up to three permits at a time; a woken thread gets the
\* mutex some time.
SPECIFICATION FairSpec
CONSTANTS
    Thread = {t1, t2, t3, t4}
    Initial = 1
    MaxWord = 7
    MaxN = 3
    MaxPosted = 6
INVARIANTS
    PermitsConserved
    NoLostWakeup
PROPERTY
    WaitersMoveOn
