CONSTANTS
    ChipSize <- MCChipSize
    PageSize <- MCPageSize
    DEDIPROG_MIN_ALIGN <- MCMinAlign
    Bits <- MCBits
    Images <- MCImages
    MayFail <- MCMayFail
SPECIFICATION TransferSpec
INVARIANT
    ResidueIsWritten
