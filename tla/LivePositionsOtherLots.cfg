SPECIFICATION Spec
CONSTANTS
    Mints <- OneMint
    ExitModes <- Plain
    MaxLots = 2
    LotAmount = 2
    MaxPositions = 2
    MaxPerMint = 2
    SellAttempts = 2
    ReconcileCount = 1
    QuoteRefreshes = 0
    MaxDeferred = 1
    MaxStops = 0
INVARIANTS
    OpenLotKeepsItsTokens
CHECK_DEADLOCK FALSE
