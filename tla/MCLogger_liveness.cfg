\* A thread that logs and clears the consumers, one that flushes, one that kills.
SPECIFICATION FairSpec
CONSTANTS
    Loggers = {t1}
    Flushers = {t2}
    Clearers = {t1}
    Killers = {k}
    Configurers = {}
    Consumer = {std}
    Default = std
    Worker = w
    NULL = NULL
    MaxLogs = 2
    MaxLoop = 1
PROPERTIES
    EntryDelivered
    FlushReturns
    ClearReturns
    KillReturns
\* Once MaxLogs calls were made nobody has to call anything again.
CHECK_DEADLOCK FALSE
