SPECIFICATION Spec
CONSTANTS
    MaxLost = 2
    IsoBatch = 2
    IsoMaxBlk = 4
    NdefMax = 4
    NdefCap = 2
    Cards <- AllCards
INVARIANTS FromTheCard GuardedStaysOut ReadsTheCard CloneReadsAlike
PROPERTY WalkEnds
CHECK_DEADLOCK FALSE
