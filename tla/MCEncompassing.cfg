CONSTANTS
    ChipSize <- MCChipSize
    PageSize <- MCPageSize
    Erasers <- MCErasers
SPECIFICATION PlannerFairSpec
INVARIANT
    EncompassingBlocksChosen
