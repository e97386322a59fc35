\* Two staff requests at the same time, against checkouts and sweeps that take one order at a time; no crash.
SPECIFICATION FairSpec
CONSTANTS
    b1 = b1
    b2 = b2
    o1 = o1
    o2 = o2
    o3 = o3
    Batches = {b1, b2, b3}
    Orders = {o1, o2}
    MaxUnits = 2
    Cart <- MCStaffCart
    Handlers = {h1, h2}
    Sweepers = {s1, s2}
    Editors = {e1, e2}
    NoOrder = NoOrder
    SweepLimit = 1
    InitialStatus <- MCStaffStatus
    InitialTotal <- MCStaffTotal
    InitialCapacity = 3
    Quantities = {1, 2, 3}
    Capacities = {2, 3}
    MaxCrashes = 0
    MaxEdits = 2
INVARIANT OverbookingBounded
PROPERTY SellsOnlyWithinTotal
PROPERTIES DueHoldsEnd PaidHoldsConfirmed
