SPECIFICATION FairSpec

CONSTANTS
    o1 = o1
    Orders = {o1}
    WithLegs <- All
    Bridged <- All
    WithOriginLegs <- All
    TransferKey <- Distinct
    MaxAttempts = 3
    MaxStalls = 1
    MaxCrashes = 1
    MaxFaults = 1
    ReadsFail = FALSE
    SavesFail = FALSE
    AnswersLost = FALSE

PROPERTIES
    DepositDecided
    SettledIsRebalanced
    LateDepositReturned
    SettlementConcludes
