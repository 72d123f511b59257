SPECIFICATION Spec
CONSTANTS
    NULL = NULL
    NdefAid = NdefAid
    AliroAid = AliroAid
    StepupAid = StepupAid
    UnknownAid = UnknownAid
    Ndef = Ndef
    Aliro = Aliro
    Other = Other
    Deferred <- CryptoItem
    MaxSerial = 3
    MaxSess = 2
CHECK_DEADLOCK FALSE
PROPERTIES
    DeferredInSession
