\* A card charge: two concurrent requests, one crash and one failed call.
SPECIFICATION Spec
CONSTANTS
    Workers = {w1, w2}
    Methods = {"CARD"}
    MaxAttempts = 1
    Outcomes = {"approved", "rejected", "refunded"}
    Items = {i1}
    MaxCrashes = 1
    MaxFailures = 1
SYMMETRY Everybody
INVARIANTS TypeOK PaidMeansApproved TicketsOnlyForPaid AcknowledgedIsApplied
PROPERTY PaymentNeverRegresses
CHECK_DEADLOCK FALSE
