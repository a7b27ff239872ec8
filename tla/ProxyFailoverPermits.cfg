CONSTANTS
    Request = {a, b, c}
    Provider <- TwoProviders
    FailureThreshold = 2  SuccessThreshold = 2
    MinRequests = 3  RateFailed = 1  RateOf = 2
    MaxAttempts = 2
    Width = 8
    SlowRequests = FALSE  Interleaved = FALSE  MayCancel = FALSE
    MaxArrivals = 4  MaxResets = 1
SPECIFICATION Spec
INVARIANTS OneProbe PermitsBalance ClosedIsHealthy
PROPERTIES ImplementsBreaker
CHECK_DEADLOCK FALSE
SYMMETRY Requests
