SPECIFICATION FairSpec
CONSTANTS
    p1 = p1
    p2 = p2
    c1 = c1
    Order <- TwoPlugins
    Declared = {p2}
    outside = outside
    Subscribers = {p1, outside}
    Contributions = {c1}
    OwnerOf <- Owners
    TargetOf <- Targets
    Events = {e1}
    Activated = activated
    NoEvent = NoEvent
INVARIANTS NothingOutlivesTheCore HooksAreJoined
PROPERTIES StoppedPluginsHearNothing ShutdownSettles
CHECK_DEADLOCK FALSE
