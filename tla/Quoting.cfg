SPECIFICATION Spec

CONSTANTS
    BPS_DENOMINATOR = 20
    FEE_PIPS_DENOMINATOR = 20
    Q96 = 256
    Ratio <- McRatio
    Chains = {"eth", "base", "sol"}
    Routers = {"sol"}
    Tokens <- McTokens
    Native <- McNative
    Hubs <- McHubs
    Asset <- McAsset
    Decimals <- McDecimals
    Pairs <- McPairs
    InitialPools <- McInitialPools
    Positions <- McPositions
    Trades = {7, 30, 150}
    GasPrices <- McGasPrices
    GasOf <- McGasOf
    Intents <- McIntents
    Held <- McHeld
    RiskBps = 2
    ServiceBps = 1
    AppBps = 1
    WaitMs <- McWaitMs
    HorizonMs = 1
    MEASURED_PATH_LIMIT = 2
    UnitOfNative = 10
    None = none
    MaxMoves = 1

INVARIANTS
    SwapFavoursThePool
    FillWithinBuffer
    UnmovedIsFilled
