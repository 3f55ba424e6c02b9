SPECIFICATION AllSpec
CONSTANTS
    p1 = p1
    p2 = p2
    create = create
    update = update
    update2 = update2
    remove = remove
    recalculate = recalculate
    Processes = {p1}
    Requests = {create, remove, update, update2, recalculate}
    Ask <- MCAsk
    Types = {"bonus", "travel", "meal"}
    Values = {"old", "new"}
    InitialInputs <- MCInitialInputs
    Version = 19
    MaxEdits = 2
CHECK_DEADLOCK FALSE
INVARIANT SuccessIsolated
INVARIANT SerialSuccess
INVARIANT FailedNeverLands
PROPERTY LockReleased
