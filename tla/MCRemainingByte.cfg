CONSTANTS
    ChipSize <- MCChipSize
    PageSize <- MCPageSize
    Bits <- MCBits
    EraseSize <- MCEraseSize
    MaxData <- MCMaxData
    ProgramMax <- MCProgramMax
    OldImages <- MCOldImages
    Images <- MCImages
    Entries <- MCEntries
    Answers <- MCAnswers
    MayFail <- MCMayFail
SPECIFICATION Spec
INVARIANT
    RemainingByteIsWritten
CHECK_DEADLOCK FALSE
