CONSTANTS
    Apps = {codex}
    Pids = {p1, p2, p3}
    NoPid = NoPid  NoApp = NoApp
    MaxFailures = 2
    Faults = {}
    SlowWrites = TRUE
    Crashes = "serving"
    MaxDaemons = 2
SPECIFICATION FairSpec
PROPERTIES    CrashedRouteReturns
CHECK_DEADLOCK FALSE
