SPECIFICATION FairAdmissionSpec
CONSTANTS
    m1 = m1
    m2 = m2
    c1 = c1
    c2 = c2
    s1 = s1
    s2 = s2
    v1 = v1
    Messages = {m1, m2}
    Commands = {c1, c2}
    Snapshots = {v1}
    SessionIds = {s1, s2}
    NoRun = NoRun
    MaxAttempts = 2
INVARIANTS StateIsSound QueuesKeepTheirOrder
PROPERTIES StateUnderARunIsSettled ImplementsSessionGate RequestsEnd
CHECK_DEADLOCK FALSE
