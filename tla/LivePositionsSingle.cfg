SPECIFICATION Spec
CONSTANTS
    Mints <- OneMint
    ExitModes <- PlainAndCore
    MaxLots = 2
    LotAmount = 2
    MaxPositions = 2
    MaxPerMint = 2
    SellAttempts = 2
    ReconcileCount = 2
    QuoteRefreshes = 1
    MaxDeferred = 1
    MaxStops = 2
CONSTRAINT SharedWhileUp
INVARIANTS
    TypeOK
    OneSalePerLot
    MirrorsStore
    WalletIsExplained
CHECK_DEADLOCK FALSE
