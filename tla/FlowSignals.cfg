SPECIFICATION FairSpec
CONSTANTS
    primary_3w = primary_3w
    profile = profile
    Variants <- OneVariant
    Primary <- PrimaryVariant
    Profiles <- OneProfile
    Horizons <- TwoHorizons
    Excursions <- OneExcursion
    MaxLag = 1
    Lookback = 4
    IdleAfter = 1
    MaxTime = 5
    Budgets <- SmallBudgets
INVARIANTS TypeOK LabelsAreTrue
PROPERTIES FinalIsFinal LabelsConclude
CHECK_DEADLOCK FALSE
