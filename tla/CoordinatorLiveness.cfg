SPECIFICATION FairSpec
CONSTANTS
    d1 = d1
    d2 = d2
    d3 = d3
    d4 = d4
    s1 = s1
    s2 = s2
    k1 = k1
    k2 = k2
    c1 = c1
    c2 = c2
    Dispatches = {d1, d2, d4}
    Conversations = {c1, c2}
    Sessions = {s1, s2}
    NoSession = NoSession
    Scopes = {k1, k2}
    NoScope = NoScope
    NoDispatch = NoDispatch
    TargetOf <- SpreadTargets
    ScopeOf <- SpreadScopes
    MaxFaults = 0
    MayThrow = FALSE
PROPERTIES TargetedNotStranded ImplementsFairGate
CHECK_DEADLOCK FALSE
