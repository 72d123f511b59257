SPECIFICATION FairSpec
CONSTANTS
    b1 = b1
    b2 = b2
    b3 = b3
    NULL = NULL
    Bufs <- ThreeBufs
    NciFaults <- AllFaults
    MaxFrames = 5
INVARIANTS
    TypeOK
    ExactlyOneOwner
    SessionAgrees
    ListenReceives
PROPERTIES
    StopReturns
