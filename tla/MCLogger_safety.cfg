\* Two threads that log, of which one flushes and the other clears the consumers,
\* while a third sets filters, registers and resets, and kills the logger.
SPECIFICATION Spec
CONSTANTS
    Loggers = {t1, t2}
    Flushers = {t2}
    Clearers = {t1}
    Killers = {k}
    Configurers = {k}
    Consumer = {std}
    Default = std
    Worker = w
    NULL = NULL
    MaxLogs = 3
    MaxLoop = 1
INVARIANTS
    NothingLost
    FlushDelivers
    ClearWaitsForBacklog
PROPERTIES
    ImplementsDelivery
\* Once MaxLogs calls were made nobody has to call anything again.
CHECK_DEADLOCK FALSE
