SPECIFICATION Spec
CONSTANTS
    o1 = o1
    o2 = o2
    p1 = p1
    c1 = c1
    Orders = {o1, o2}
    Promoters = {p1}
    Coupons = {c1}
    Tickets = {"vip", "std"}
    Cart <- MCCart
    CouponOf <- MCCouponOf
    Fees <- MCFees
    FirstFee <- MCFirstFee
    Inputs <- MCInputs
    FirstRules <- MCFirstRules
    NewRules <- MCNewRules
    Workers = {w1, w2}
    Payers = {x1}
    Managers = {m1}
    PayoutAmounts = {500}
    MaxChanges = 1
    MaxPayouts = 2
    MaxDeliveries = 3
    MaxFaults = 1
SYMMETRY Symmetry
CHECK_DEADLOCK FALSE
INVARIANTS
    TypeOK
    MoneyConserved
    LedgerMatchesCommission
    RefundNetsToZero
    CouponWithinLimit
    PaidOutWithinEarned
