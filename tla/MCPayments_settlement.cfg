\* Pix charges, one request at a time, which may stop at any step.
SPECIFICATION FairSpec
CONSTANTS
    Workers = {w1}
    Methods = {"PIX"}
    MaxAttempts = 2
    Outcomes = {"approved", "rejected", "refunded", "charged_back"}
    Items = {i1, i2}
    MaxCrashes = 1
    MaxFailures = 0
INVARIANT PendingPixBounded
PROPERTIES PaidGetsTickets RefundReachesOrder
CHECK_DEADLOCK FALSE
