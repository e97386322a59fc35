\* Checkouts, payments and sweeps with crashes; nobody edits the batches.
SPECIFICATION Spec
CONSTANTS
    b1 = b1
    b2 = b2
    o1 = o1
    o2 = o2
    o3 = o3
    Batches = {b1, b2}
    Orders = {o1, o2, o3}
    MaxUnits = 2
    Cart <- MCCart
    Handlers = {h1, h2}
    Sweepers = {s1, s2}
    Editors = {}
    NoOrder = NoOrder
    SweepLimit = 2
    InitialStatus <- MCOpen
    InitialTotal <- MCTotal
    InitialCapacity = 5
    Quantities = {}
    Capacities = {}
    MaxCrashes = 2
    MaxEdits = 0
INVARIANTS TypeOK CountersMatchRows NoOversell HoldsFollowPayment
PROPERTY AllocationSpec
