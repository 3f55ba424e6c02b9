SPECIFICATION AllSpec
CONSTANTS
    p1 = p1
    p2 = p2
    create = create
    update = update
    update2 = update2
    remove = remove
    recalculate = recalculate
    Processes = {p1, p2}
    Requests = {update, update2}
    Ask <- MCAsk
    Types = {"bonus", "travel", "meal"}
    Values = {"old", "new"}
    InitialInputs <- MCInitialInputs
    Version = 18
    MaxEdits = 0
CHECK_DEADLOCK FALSE
INVARIANT SerialSuccess
