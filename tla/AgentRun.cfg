SPECIFICATION FairSpec
CONSTANTS
    write = write
    look = look
    deny = deny
    key = key
    Calls = {write, look, deny}
    Batches <- Replies
    Keys = {key}
    NoKey = NoKey
    KeyOf <- KeyOfCall
    PolicyOf <- Policies
    Reusable = {write}
    Trusted = {look}
    MaxReplies = 2
    MaxAnswers = 2
    MaxRuns = 2
    MaxItems = 2
    MaxPlan = 2
    MaxIterations = 2
    MaxTurns = 2
INVARIANTS StateIsSound AcceptedWasDelivered EvidenceIsKept NothingRunsUnasked RefusalsStand GrantsAreRemembered
PROPERTIES RunsEnd
CHECK_DEADLOCK FALSE
