CONSTANTS
    ChipSize <- MCChipSize
    PageSize <- MCPageSize
    Erasers <- MCErasers
    Bits <- MCBits
    OldImages <- MCOldImages
    NewImages <- MCNewImages
    MayHappen <- NoMishaps
SPECIFICATION FairSpec
INVARIANT
    PortionErasedBeforeWrite
CHECK_DEADLOCK FALSE
