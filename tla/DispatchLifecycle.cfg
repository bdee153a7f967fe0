SPECIFICATION FairSpec
CONSTANTS
    d1 = d1
    d2 = d2
    s1 = s1
    s2 = s2
    a1 = a1
    a2 = a2
    Dispatches = {d1, d2}
    Sessions = {s1, s2}
    Answers = {a1, a2}
    NoSession = NoSession
    NoDispatch = NoDispatch
    NoTurn = NoTurn
    TargetOf <- MixedTargets
    StaleGate = FALSE
    MaxReviews = 2
    MaxMishaps = 1
INVARIANTS WaitingIsResumable ReviewsAreOwned StateIsSound
PROPERTIES PortReopens
