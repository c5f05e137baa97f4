SPECIFICATION FairSpec

CONSTANTS
    o1 = o1
    usdc = usdc
    eth = eth
    Orders = {o1, o2}
    Tokens = {usdc, eth}
    Abroad = {o2}
    Deposited <- AllUsdc
    Spent <- AllUsdc
    Bought <- FirstSwaps
    Amount <- Two
    Quoted <- One
    Opening <- Funded
    Asked = {usdc}
    Syncs = {s1}
    None = none
    MaxEvents = 3

INVARIANTS
    TypeOK
    ReservedIsHeld
    StoreKnowsPromises
    ForkAgrees

PROPERTIES
    LedgerFollowsChain
