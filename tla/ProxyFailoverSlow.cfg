CONSTANTS
    Request = {a, b, c}
    Provider <- OneProvider
    FailureThreshold = 2  SuccessThreshold = 2
    MinRequests = 3  RateFailed = 1  RateOf = 2
    MaxAttempts = 1
    Width = 8
    SlowRequests = TRUE  Interleaved = FALSE  MayCancel = TRUE
    MaxArrivals = 5  MaxResets = 1
SPECIFICATION Spec
INVARIANTS TypeOK
PROPERTIES OpeningRestartsTimeout
CHECK_DEADLOCK FALSE
SYMMETRY Requests
