CONSTANTS
    Apps = {claude, codex}
    Pids = {p1, p2, p3}
    NoPid = NoPid  NoApp = NoApp
    MaxFailures = 2
    Faults = {}
    SlowWrites = FALSE
    Crashes = "serving"
    MaxDaemons = 1
SPECIFICATION Spec
INVARIANT ExitServesNobody
CHECK_DEADLOCK FALSE
SYMMETRY Names
