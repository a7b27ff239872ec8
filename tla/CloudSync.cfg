CONSTANTS
    laptop = laptop  desktop = desktop
    p1 = p1  p2 = p2
    Devices = {laptop, desktop}
    Procs = {p1, p2}
    Host <- OneEach
    Older = {"v1"}
    Faults = {"network", "late", "restore", "import", "crash"}
    NoVersion = NoVersion  NoManifest = NoManifest
    MaxEdits = 1
    MaxLate = 1
SPECIFICATION Spec
INVARIANTS TypeOK AnnouncedIsReady
PROPERTIES ImplementsExchange V1OutlivesMigration
CHECK_DEADLOCK FALSE
SYMMETRY Names
