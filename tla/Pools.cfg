SPECIFICATION FairSpec

CONSTANTS
    p1 = p1
    p2 = p2
    p3 = p3
    p4 = p4
    ab = ab
    cd = cd
    Pairs = {ab, cd}
    Pools = {p1, p2, p3, p4}
    PairOf <- McPairOf
    Kind <- McKind
    Listed = {p1, p2, p3}
    Ticks <- McTicks
    InitialTicks = {0}
    Ranges <- McRanges
    Window <- Near
    Reserves = {1, 2}
    PoolsPerPair = 1
    Opening <- McOpening
    None = none
    MaxBlock = 3
    MaxPositions = 1
    MaxFaults = 1

INVARIANTS
    HeldIsExact
    TrackedIsExact
    DeepestAreHeld

PROPERTIES
    SyncCatchesUp
