SPECIFICATION FairSpec
CONSTANTS
    Modes <- AnyMode
    Caps = {0, 2}
    Inputs = {0, 4}
    Bodies <- AnyBody
    MaxIds = 1
    MaxFaults = 2
INVARIANTS
    StreamIsComplete
    ArchivedIsOffered
    FallbackIsOneShot
    UsageIsReported
    CountedOnce
PROPERTIES
    ComesToAnEnd
    ExchangeIsRequest
CHECK_DEADLOCK FALSE
