SPECIFICATION Spec
CONSTANTS
    b1 = b1
    b2 = b2
    u1 = u1
    u2 = u2
    NULL = NULL
    Bufs <- TwoBufs
    BufCap = 3
    FragLens <- MixedFrags
    Uids <- TwoUids
    UidThreads <- MainOnly
    Faults <- CleanFaults
    MaxFrags = 3
    MaxSerial = 3
    MaxSess = 2
INVARIANTS
    NoLeak
    StoppedIsQuiet
    UidInForce
    AssembledWhole
PROPERTIES
    ImplementsPipe
