CONSTANTS
    ChipSize <- MCChipSize
    PageSize <- MCPageSize
    DEDIPROG_MIN_ALIGN <- MCMinAlign
    Bits <- MCBits
    Images <- MCImages
    MayFail <- MCMayFail
    Files <- MCFiles
    FileMayFail <- MCFileMayFail
    Cuts <- MCCuts
SPECIFICATION ReadVerifySpec
INVARIANTS
    TransferTypeOK
    ReadVerifyTypeOK
    ReadDelivers
    WritesAsAllowed
    FileHoldsChip
    VerdictIsTrue
PROPERTY
    OperationsReturn
