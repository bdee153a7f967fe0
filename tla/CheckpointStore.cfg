SPECIFICATION FairSpec
CONSTANTS
    put1 = put1
    put2 = put2
    ask2 = ask2
    task2 = task2
    gc1 = gc1
    list1 = list1
    a = a
    b = b
    c = c
    d = d
    k1 = k1
    k2 = k2
    Puts = {put1, put2}
    Writes = {ask2, task2}
    Sweeps = {gc1}
    Lists = {list1}
    Lives = 3
    Objects = {a, b, c, d}
    Keys = {k1, k2}
    SpecialKeys = {k1}
    LastCheckpoint = 2
    CheckpointOf <- Checkpointed
    Content <- Contents
    KeyOf <- WriteKeys
    ValueOf <- WriteValues
    NoTask = NoTask
    NoValue = NoValue
    MaxMishaps = 2
INVARIANTS StoreIsWhole AcceptedStays OneWriter
PROPERTIES LocksAreRecovered
CHECK_DEADLOCK FALSE
