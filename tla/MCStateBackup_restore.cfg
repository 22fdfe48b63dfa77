SPECIFICATION FairBackupSpec
CONSTANTS
    one = one
    two = two
    Pids = {one, two}
    MaxBirths <- Births
    Recorded = TRUE
    Prompt = TRUE
    None = None
    Empty = Empty
    Roots = 2
    MaxVersion = 1
    MaxBackups = 1
    FileFaults = {"copy", "rename", "rollback"}
    MaxFileFaults = 2
CHECK_DEADLOCK FALSE
INVARIANTS
    BackupTypeOK
    Coordinated
    WholeState
PROPERTIES
    StartSettles
