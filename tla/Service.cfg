\* Every part of the service, and its progress under fairness.
SPECIFICATION AllSpec
CONSTANTS
    t1 = t1
    t2 = t2
    t3 = t3
    t4 = t4
    t5 = t5
    t6 = t6
    a = a
    b = b
    r1 = r1
    r2 = r2
    r3 = r3
    k1 = k1
    Audits <- MCAudits
    Files <- MCFiles
    Procs = {"app", "maintenance"}
    Connectors = {"a", "b"}
    KeyVersions = {1, 2}
    MaxRuns = 3
    Clients = {a, b}
    MaxRequests = 2
    Window = 2
    MaxTime = 5
    MaxArrivals = 4
    Kinds = {"capabilities", "accounting", "payroll", "invalid"}
    MaxCancels = 2
    Requests = {r1, r2}
    Keys = {k1}
    Companies <- MCCompanies
    Payloads <- MCPayloads
    AllowedCompanies <- MCAllowedCompanies
    Commands <- MCCommands
    Adapter = "accounting"
    TTL = 2
    MaxClock = 2
    NoKey = NoKey
    NoRequest = NoRequest
    NoTime = NoTime
CHECK_DEADLOCK FALSE
INVARIANT OneTransition
INVARIANT RotationSound
INVARIANT OpenedIsMigrated
INVARIANT LimitExact
INVARIANT OnRecord
PROPERTY EverythingEnds
PROPERTY OneChain
PROPERTY WritesRemembered
