SPECIFICATION Spec
CONSTANTS
    k1 = k1
    i1 = i1
    i2 = i2
    u1 = u1
    u2 = u2
    events = events
    request = request
    Keys = {k1}
    Deliveries = {i1, i2}
    Studios = {u1, u2}
    Handlers = {events, request}
    Events = events
    NoKey = NoKey
    NoDelivery = NoDelivery
    MaxAsks = 2
    MaxStarts <- TwoLives
    MaxFaults = 1
SYMMETRY Symmetry
INVARIANTS RunsAreAccounted ClaimsAreHeld
CHECK_DEADLOCK FALSE
