SPECIFICATION MCSpec
CONSTANTS
    Ids = {1, 2, 3, 4}
    Values = {1, 2}
    Outside = 9
    PageSize = 2
    SourceCap = 3
    MaxEdits = 2
    Limit = 1
    Cap = 2
    NoCursor = NoCursor
    NoTotal = NoTotal
    PageRows = 1
    MaxWrites = 2
    Slips = {1, 2}
    Periods = {1, 2}
    Currencies = {"EUR", "USD"}
    States = {"done", "cancelled"}
    Category <- MCCategory
    EvidenceRequests <- MCEvidenceRequests
    Payrolls <- MCPayrolls
    Chunk = 1
    MaxLines = 3
    MaxTime = 2
    Employees = {1, 2}
    FirstDay = 2
    LastDay = 4
    ContextRequests <- MCContextRequests
    Histories <- MCHistories
    NewContracts <- MCNewContracts
    RuleInfo <- MCRuleInfo
    AnalysisTools = {"compare", "analyze", "detect", "pack", "explain"}
    Threshold = 5
    MinHistory = 6
    AnalysisLines = 9
    Comparisons <- MCComparisons
INVARIANT SnapshotRead
INVARIANT CollectedSnapshot
INVARIANT QuietCollectionSucceeds
INVARIANT PagesOfOneSnapshot
INVARIANT QuietAnswerExact
INVARIANT NoFalseRefusal
INVARIANT TotalsAgree
INVARIANT ChangesFound
CHECK_DEADLOCK FALSE
