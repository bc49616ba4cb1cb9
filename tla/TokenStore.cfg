SPECIFICATION FairSpec
CONSTANTS
    mintA = mintA
    mintB = mintB
    Mints <- TwoMints
    FlushMax = 2
    BatchMax = 2
    MaxPending = 3
    ObservedTimes <- OneTime
    MaxEvents = 4
    MaxLocks = 1
    MaxErrors = 1
    MaxCrashes = 1
INVARIANTS TypeOK CompletionNotLost SettledAgrees
PROPERTY DeferredIsWritten
CHECK_DEADLOCK FALSE
