CONSTANTS
    Providers = {p, q}
    Procs = {cli, daemon}
    Worker = worker_process
    NoBackup = NoBackup
    NoContent = NoContent
SPECIFICATION Spec
SYMMETRY Names
INVARIANTS
    TypeOK
    TakenIsSaved
    
    
CONSTRAINT AtMostTwo
