CONSTANTS
    Apps = {claude, codex}
    Pids = {p1, p2, p3}
    NoPid = NoPid  NoApp = NoApp
    MaxFailures = 2
    Faults = {"spawn", "timeout", "enable", "clear", "db", "drain"}
    SlowWrites = FALSE
    Crashes = "any"
    MaxDaemons = 1
SPECIFICATION Spec
INVARIANTS TypeOK NothingStopsDuringEnsure NoStrayWorker
PROPERTY DroppedStaysOff
CHECK_DEADLOCK FALSE
SYMMETRY Names
