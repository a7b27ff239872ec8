CONSTANTS
    w1 = w1  w2 = w2  p1 = p1  p2 = p2  main = main  other = other
    Process = {main}
    Writer = {w1}
    ProcessOf <- OneProcess
    File <- OneFile
    Guarded <- NoFile
    Provider = {p1, p2}
    Deleting = {p2}
    Row = {r1}
    FirstProvider = p1
    FirstRow = r1
    User <- OneUser
    Absent = Absent  Broken = Broken  NoKey = NoKey  Refused = Refused
    NoPending = NoPending  NotPart = NotPart  NoTemp = NoTemp
    NoPointer = NoPointer  Nobody = Nobody
    MaxReplans = 1
    Kinds = {"switch"}
    Faults = {"loop", "abandon"}
    CrashInAbandon = FALSE  Coincide = "any"
    EndlessEdits = TRUE
    MaxOps = 2  MaxEdits = 0  MaxCrashes = 1
SPECIFICATION FairSpec
PROPERTIES CommandsReturn StartupRecovers
CHECK_DEADLOCK FALSE
