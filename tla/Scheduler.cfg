SPECIFICATION FairSpec
CONSTANTS
    a1 = a1
    a2 = a2
    u1 = u1
    u2 = u2
    Schedules = {a1, a2}
    Studios = {u1, u2}
    NoSchedule = NoSchedule
    MaxStarts = 2
    MaxFaults = 2
INVARIANTS NeverSentTwice RowsTellTheTruth
PROPERTIES SchedulesSettle
CHECK_DEADLOCK FALSE
