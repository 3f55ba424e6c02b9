SPECIFICATION Spec
CONSTANTS
    s1 = s1
    s2 = s2
    w1 = w1
    w2 = w2
    client = client
    Workers = {w1, w2}
    StorageKind = "local"
    Sessions = {s1, s2}
    Clients = {client}
    ClientOf <- MCClientOf
    Selections = {"one", "all"}
    AuthorizationTTL = 2
    SessionTTL = 2
    AccessTTL = 1
    RefreshTTL = 2
    MaxClock = 2
    MaxConnectors = 2
    MaxPairs = 3
    NoSession = NoSession
    NoSelection = NoSelection
SYMMETRY MCSymmetry
INVARIANT SingleUse
INVARIANT OneAcceptedPair
INVARIANT ReplacementAtomic
INVARIANT ActiveAuthority
PROPERTY SelectionStable
