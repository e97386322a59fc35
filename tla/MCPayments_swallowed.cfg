\* One request at a time and one failed call.
SPECIFICATION FairSpec
CONSTANTS
    Workers = {w1}
    Methods = {"PIX"}
    MaxAttempts = 1
    Outcomes = {"approved", "refunded"}
    Items = {i1}
    MaxCrashes = 0
    MaxFailures = 1
PROPERTY RefundReachesOrder
CHECK_DEADLOCK FALSE
