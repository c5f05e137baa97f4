SPECIFICATION FairSpec

CONSTANTS
    o1 = o1
    Orders = {o1}
    WithLegs <- All
    Bridged <- None
    WithOriginLegs <- None
    TransferKey <- Distinct
    MaxAttempts = 3
    MaxStalls = 1
    MaxCrashes = 0
    MaxFaults = 0
    ReadsFail = FALSE
    SavesFail = FALSE
    AnswersLost = FALSE

PROPERTIES
    RefusedFillIsRefunded
