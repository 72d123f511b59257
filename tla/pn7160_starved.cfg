SPECIFICATION FairSpec
CONSTANTS
    b1 = b1
    b2 = b2
    b3 = b3
    NULL = NULL
    Bufs <- TwoBufs
    NciFaults <- NoFaults
    MaxFrames = 2
PROPERTIES
    ApduDispatched
