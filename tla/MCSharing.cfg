\* Two threads that compare an id, three that call Instance, two SharedLibrary
\* objects for two libraries.
SPECIFICATION FairPartsSpec
CONSTANTS
    Thread = {t1, t2}
    Ids <- SomeIds
    Callers = {a, b, c}
    MaxThrow = 2
    Library = {l1, l2}
    Name = {"planning"}
    NameOf <- SameName
    Holder = {h1, h2}
    None = None
    MaxLoads = 2
    MaxRefs = 2
INVARIANTS
    OctetsStayInPairs
    HarmlessAlone
    OneSingleton
    LibraryKept
PROPERTY
    InstanceReturns
\* Whoever has called need not call again.
CHECK_DEADLOCK FALSE
