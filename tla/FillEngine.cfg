SPECIFICATION FairSpec

CONSTANTS
    q1 = q1
    direct = direct
    spanning = spanning
    unlisted = unlisted
    p1 = p1
    p2 = p2
    p3 = p3
    uni = uni
    sushi = sushi
    Orders = {o1}
    Quotes = {q1, q2}
    Asks <- McAsks
    RouteOf <- McRouteOf
    Routes = {direct, spanning, unlisted}
    Legs <- McLegs
    Origin <- McOrigin
    Quoted = 2
    Pure = pure
    None = none
    MaxMishaps = 1

INVARIANTS
    MeasurementLeavesNoTrace
    ApprovalsStand
    ResultsAreTrue
    PaidFromTheSwap
    GasIsOfThisShape

PROPERTIES
    TurnsEnd
