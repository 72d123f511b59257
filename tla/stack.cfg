SPECIFICATION Spec
SYMMETRY TagSymmetry
CONSTANTS
    a1 = a1
    a2 = a2
    a3 = a3
    ndef = ndef
    emv = emv
    t1 = t1
    t2 = t2
    t3 = t3
    card = card
    NULL = NULL
    Other = Other
    Default = Default
    Bad = Bad
    Aids <- MCAids
    Svcs <- MCSvcs
    MaxAids = 2
    Profiles <- MCProfiles
    Ndef = ndef
    Tags <- MCTags
    SlotCount = 2
    Cards <- MCCards
    Updates <- MCCards
    ImportBlobs <- MCImportBlobs
    GivesUp = TRUE
INVARIANTS
    TypeOK
    SelectedIsActive
    LifecycleAgrees
    ListenAgrees
    OneSlotPerTag
    ActiveTagStored
PROPERTY
    LoadSaveFaithful
    BackendKept
    CloneFaithful
