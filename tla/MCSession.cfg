CONSTANTS
    Devices <- MCDevices
    OldPower <- MCOldPower
    Chips <- MCChips
    Entries <- MCEntries
    Answers <- MCAnswers
    CommandLines <- MCCommandLines
SPECIFICATION Spec
INVARIANTS
    SessionTypeOK
    OnlyProbedIsUsed
    ExitStatusTellsWhatRan
    SuccessLeavesNoSupply
PROPERTY
    SupplyIsCycled
CHECK_DEADLOCK FALSE
