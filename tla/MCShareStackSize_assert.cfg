\* What the assertion at mzco.cc:232 says of every request.
SPECIFICATION Spec
CONSTANTS
    Requests <- AllRequests
    MinSize = 64
    DefaultSize = 512
    PageSize = 64
INVARIANT
    RoundingNeverAborts
