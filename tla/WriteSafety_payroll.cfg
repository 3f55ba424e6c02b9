\* Payroll failure classification: every safety property.
SPECIFICATION Spec
CONSTANTS
    r1 = r1
    r2 = r2
    r3 = r3
    k1 = k1
    Requests = {r1, r2, r3}
    Keys = {k1}
    Companies <- MCCompanies
    Payloads <- MCPayloads
    AllowedCompanies <- MCAllowedCompanies
    Commands <- ContendedAndSeen
    Adapter = "payroll"
    TTL = 2
    MaxClock = 3
    NoKey = NoKey
    NoRequest = NoRequest
    NoTime = NoTime
SYMMETRY Symmetry
INVARIANT TypeOK
INVARIANT AtMostOncePerRetention
INVARIANT FailureMeansNotApplied
INVARIANT SuccessMeansApplied
INVARIANT JournalMatchesAudit
PROPERTY UnresolvedStaysBlocked
PROPERTY ImplementsWriteOnce
CHECK_DEADLOCK FALSE
