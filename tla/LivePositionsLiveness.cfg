SPECIFICATION FairSpec
CONSTANTS
    Mints <- OneMint
    ExitModes <- AllModes
    MaxLots = 1
    LotAmount = 2
    MaxPositions = 1
    MaxPerMint = 1
    SellAttempts = 2
    ReconcileCount = 2
    QuoteRefreshes = 1
    MaxDeferred = 1
    MaxStops = 1
INVARIANTS
    LotsAreServed
PROPERTIES
    ExitsConclude
    OpenEnds
    OpeningEnds
CHECK_DEADLOCK FALSE
