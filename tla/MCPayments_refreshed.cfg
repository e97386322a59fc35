\* Two requests for a Pix charge of one order, as when its page is refreshed at once; nothing fails.
SPECIFICATION Spec
CONSTANTS
    Workers = {w1, w2}
    Methods = {"PIX"}
    MaxAttempts = 2
    Outcomes = {"approved"}
    Items = {i1}
    MaxCrashes = 0
    MaxFailures = 0
INVARIANT OnePendingPix
CHECK_DEADLOCK FALSE
