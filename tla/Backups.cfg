\* Two backups to one destination, which each finds free before either copies.
SPECIFICATION Spec
CONSTANTS
    Programs <- MCPrograms
    CodeVersion <- MCCodeVersion
    Role <- MCRole
    PathOf <- MCPathOf
    Source <- MCSource
    Waits <- MCWaits
    Paths = {"live", "snapshot"}
    Keys = {"k1"}
    MaxStarts = 1
CHECK_DEADLOCK FALSE
INVARIANT OneBackupThere
