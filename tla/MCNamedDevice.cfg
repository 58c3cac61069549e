CONSTANTS
    Devices <- MCDevices
    OldPower <- MCOldPower
    Chips <- MCChips
    Entries <- MCEntries
    Answers <- MCAnswers
    CommandLines <- DeviceLines
SPECIFICATION Spec
INVARIANT
    NamedDeviceIsUsed
CHECK_DEADLOCK FALSE
