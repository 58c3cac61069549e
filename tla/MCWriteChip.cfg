CONSTANTS
    ChipSize <- MCChipSize
    PageSize <- MCPageSize
    Erasers <- MCErasers
    Bits <- MCBits
    OldImages <- MCOldImages
    NewImages <- MCNewImages
    MayHappen <- MCMayHappen
SPECIFICATION FairSpec
INVARIANTS
    TypeOK
    ConfinedToZone
    ReferenceIsCurrent
    CopyWithinBlock
    CommandsFindChipIdle
    UniformWriteIsExact
PROPERTIES
    KeepsPromise
    Terminates
CHECK_DEADLOCK FALSE
