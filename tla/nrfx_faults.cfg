SPECIFICATION FairSpec
CONSTANTS
    b1 = b1
    b2 = b2
    u1 = u1
    u2 = u2
    NULL = NULL
    Bufs <- OneBuf
    BufCap = 3
    FragLens <- ShortFrags
    Uids <- OneUid
    UidThreads <- AuxOnly
    Faults <- AllFaults
    MaxFrags = 2
    MaxSerial = 1
    MaxSess = 1
INVARIANTS
    TypeOK
    OneOwner
PROPERTIES
    CallsReturn
