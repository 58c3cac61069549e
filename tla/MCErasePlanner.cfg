CONSTANTS
    ChipSize <- MCChipSize
    PageSize <- MCPageSize
    Erasers <- MCErasers
SPECIFICATION PlannerFairSpec
INVARIANTS
    PlannerTypeOK
    PlanTiles
    NoOverErase
    ReversedPlanAscends
    FewestErases
    RefusedOnlyIfImpossible
PROPERTY
    PlannerTerminates
