CONSTANTS
    w1 = w1  w2 = w2  p1 = p1  p2 = p2  main = main  other = other
    Process = {main}
    Writer = {w1, w2}
    ProcessOf <- OneProcess
    File <- TwoFiles
    Guarded <- FirstFile
    Provider = {p1, p2}
    Deleting = {p2}
    Row = {r1}
    FirstProvider = p1
    FirstRow = r1
    User <- TwoUsers
    Absent = Absent  Broken = Broken  NoKey = NoKey  Refused = Refused
    NoPending = NoPending  NotPart = NotPart  NoTemp = NoTemp
    NoPointer = NoPointer  Nobody = Nobody
    MaxReplans = 1
    Kinds = {"switch"}
    Faults = {"discard", "mark", "publish", "commit", "clear"}
    CrashInAbandon = FALSE  Coincide = "never"
    EndlessEdits = FALSE
    MaxOps = 2  MaxEdits = 2  MaxCrashes = 1
SPECIFICATION Spec
INVARIANTS PublishedIsRecorded WritersNeverOverwriteEachOther
 
CHECK_DEADLOCK FALSE
SYMMETRY Writers
