SPECIFICATION FairSpec
CONSTANTS
    m1 = m1
    m2 = m2
    m3 = m3
    Mints <- ThreeMints
    MaxGens = 1
    MaxDealings = 0
    BatchSize = 2
    MaxStops = 1
    Unsigned <- OneLeft
    Signed <- TwoSigned
PROPERTIES
    DecidedConcludes
    UnsignedServed
