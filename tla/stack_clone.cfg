SPECIFICATION Spec
CONSTANTS
    a1 = a1
    a2 = a2
    a3 = a3
    ndef = ndef
    emv = emv
    t1 = t1
    t2 = t2
    t3 = t3
    card = card
    NULL = NULL
    Other = Other
    Default = Default
    Bad = Bad
    Aids <- MCAids
    Svcs <- MCSvcs
    MaxAids = 2
    Profiles <- MCProfiles
    Ndef = ndef
    Tags <- MCTags
    SlotCount = 1
    Cards <- MCCards
    Updates <- MCCards
    ImportBlobs <- MCImportBlobs
    GivesUp = FALSE
PROPERTY
    CloneSavesTag
