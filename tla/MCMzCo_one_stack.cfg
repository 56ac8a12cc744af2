\* Three coroutines compete for one stack.
SPECIFICATION Spec
CONSTANTS
    Co = {c1, c2, c3}
    Main = {m1}
    Stack = {s1}
    Word = {w1, w2}
    NULL = NULL
    Junk = Junk
    Limit = 1
    Slack = 1
    InitSz = 1
SYMMETRY Symmetry
INVARIANTS
    OwnerIsLive
    RunningOwnsStack
    SavedImageComplete
    CopiedBackOnce
PROPERTY
    ImplementsPrivateStacks
