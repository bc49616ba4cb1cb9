SPECIFICATION FairSpec
CONSTANTS
    NumPositions = 2
    MaxPending = 1
    BatchSize = 1
    RecoveryBatch = 1
    Budgets <- SmallBudgets
INVARIANTS TypeOK NothingAcceptedIsLost LearnedIsOnRecord
PROPERTIES AnalysisIsFrozen LossesConclude
CHECK_DEADLOCK FALSE
