SPECIFICATION Spec
CONSTANTS
    s1 = s1
    s2 = s2
    w1 = w1
    w2 = w2
    client = client
    Workers = {w1, w2}
    StorageKind = "postgresql"
    Sessions = {s1}
    Clients = {client}
    ClientOf <- MCClientOf
    Selections = {"one", "all"}
    AuthorizationTTL = 2
    SessionTTL = 2
    AccessTTL = 1
    RefreshTTL = 2
    MaxClock = 1
    MaxConnectors = 1
    MaxPairs = 2
    NoSession = NoSession
    NoSelection = NoSelection
SYMMETRY MCSymmetry
INVARIANT SingleUse
