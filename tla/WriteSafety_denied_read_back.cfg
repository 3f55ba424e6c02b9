\* Accounting classifies every permission denial as a known failure.
SPECIFICATION Spec
CONSTANTS
    r1 = r1
    r2 = r2
    r3 = r3
    k1 = k1
    Requests = {r1, r2}
    Keys = {k1}
    Companies <- MCCompanies
    Payloads <- MCPayloads
    AllowedCompanies <- MCAllowedCompanies
    Commands <- Contended
    Adapter = "accounting"
    TTL = 2
    MaxClock = 3
    NoKey = NoKey
    NoRequest = NoRequest
    NoTime = NoTime
CHECK_DEADLOCK FALSE
INVARIANT FailureMeansNotApplied
