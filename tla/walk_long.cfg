SPECIFICATION Spec
CONSTANTS
    MaxLost = 0
    IsoBatch = 2
    IsoMaxBlk = 4
    NdefMax = 4
    NdefCap = 2
    Cards <- LongCards
INVARIANT ReadsTheCard
CHECK_DEADLOCK FALSE
