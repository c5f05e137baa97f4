SPECIFICATION Spec

CONSTANTS
    o1 = o1
    Orders = {o1}
    WithLegs <- All
    Bridged <- None
    WithOriginLegs <- None
    TransferKey <- Distinct
    MaxAttempts = 3
    MaxStalls = 1
    MaxCrashes = 2
    MaxFaults = 3
    ReadsFail = TRUE
    SavesFail = FALSE
    AnswersLost = FALSE

INVARIANTS
    TypeOK
    DisbursedOnce
    RecordsMatchChain
    NoReservationLeaks
    PaysOnlyConfirmed
    LegalAdvance

PROPERTIES
    ImplementsEscrow
