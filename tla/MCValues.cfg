\* Words of three bits for sequence numbers, four for times; addresses of five
\* groups; prefixes of three octets; every stack size up to beyond four pages.
SPECIFICATION PartsSpec
CONSTANTS
    W = 8
    H = 4
    Steps <- AllSteps
    Half = 8
    Limit = 10
    SECOND = 4
    Groups = 5
    GroupValue = {0, 1, 65535}
    Zones <- SomeZones
    DottedTexts <- SomeDotted
    LanTexts <- SomeLans
    Addresses <- SomeAddresses
    Ports = {0, 7}
    Prefix = 3
    Host = 1
    Process = 2
    Entity = 2
    OctetValues = {0, 16, 199}
    Foreign = {49, 103}
    Size = {0, 1, 3}
    MaxProps = 2
    Requests <- SomeRequests
    MinSize = 64
    DefaultSize = 512
    PageSize = 64
INVARIANTS
    NumbersAreValues
    TimesAreExact
    TextsReadBack
    NamesAgree
    SizesFit
\* An assertion of the code ends the process, and a GUID is read back once.
CHECK_DEADLOCK FALSE
