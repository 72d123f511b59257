SPECIFICATION FairSpec
CONSTANTS
    NULL = NULL
    NdefAid = NdefAid
    AliroAid = AliroAid
    StepupAid = StepupAid
    UnknownAid = UnknownAid
    Ndef = Ndef
    Aliro = Aliro
    Other = Other
    Deferred <- CryptoItem
    MaxSerial = 7
    MaxSess = 2
CHECK_DEADLOCK FALSE
INVARIANTS
    InOrder
    DoneIsEarned
    InflightIsPending
    SessionIsRouted
    SelectionEndsWithField
PROPERTIES
    EveryApduAnswered
