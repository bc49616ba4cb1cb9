SPECIFICATION Spec
CONSTANTS
    m1 = m1
    m2 = m2
    m3 = m3
    Mints <- TwoMints
    MaxGens = 2
    MaxDealings = 3
    BatchSize = 1
    MaxStops = 1
    Unsigned = {}
    Signed = {}
SYMMETRY MintSymmetry
INVARIANTS
    TypeOK
    NoTradeWhileClosing
    SignedIsCovered
    ConclusionsAreTrue
PROPERTIES
    ClosesItsOwn
    ConclusionsAreFinal
    ImplementsProtocol
