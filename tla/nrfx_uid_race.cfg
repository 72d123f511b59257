SPECIFICATION Spec
CONSTANTS
    b1 = b1
    b2 = b2
    u1 = u1
    u2 = u2
    NULL = NULL
    Bufs <- TwoBufs
    BufCap = 2
    FragLens <- ShortFrags
    Uids <- OneUid
    UidThreads <- AuxOnly
    Faults <- NoFaults
    MaxFrags = 1
    MaxSerial = 1
    MaxSess = 1
SYMMETRY BufSymmetry
INVARIANTS
    StoppedIsQuiet
