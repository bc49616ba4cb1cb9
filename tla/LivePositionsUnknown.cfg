SPECIFICATION Spec
CONSTANTS
    Mints <- OneMint
    ExitModes <- Graduating
    MaxLots = 1
    LotAmount = 2
    MaxPositions = 1
    MaxPerMint = 1
    SellAttempts = 2
    ReconcileCount = 1
    QuoteRefreshes = 0
    MaxDeferred = 1
    MaxStops = 0
PROPERTIES
    UnknownNotSold
CHECK_DEADLOCK FALSE
