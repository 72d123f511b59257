SPECIFICATION Spec
CONSTANTS
    Slots <- TwoSlots
    MaxCmds = 3
    Faults = TRUE
INVARIANTS BusyIsWork ReadIsAlone NameKept NoOrphan OneRole VerdictIsIn
CHECK_DEADLOCK FALSE
PROPERTY WorkEnds
