CONSTANTS
    ChipSize <- MCChipSize
    PageSize <- MCPageSize
    Bits <- MCBits
    EraseSize <- MCEraseSize
    MaxData <- MCMaxData
    ProgramMax <- MCProgramMax
    OldImages <- MCOldImages
    Images <- MCImages
    Entries <- MCEntries
    Answers <- MCAnswers
    MayFail <- MCMayFail
SPECIFICATION Spec
INVARIANTS
    SpiTypeOK
    PrefixWritten
    WriteIsExact
    ReadIsExact
    EraseIsExact
    CommandsAreHeard
    SuccessLeavesChipReady
    BailoutLeavesAAI
    ProbeTellsChips
PROPERTY
    CallsReturn
CHECK_DEADLOCK FALSE
