\* One page and its lives: calls that cross, stale answers, cancels, leaves and failures.
SPECIFICATION FairSpec
CONSTANTS
    Slots = {c1, c2}
    c1 = c1
    c2 = c2
    NoSlot = NoSlot
    Quiet = Quiet
    Waiting = Waiting
    Failed = Failed
    Missing = Missing
    Ok = Ok
    MaxTasks = 2
    MaxMounts = 2
    Setups <- MCSetups
INVARIANTS
    OneLiveLoop
PROPERTIES
    RunningTaskFollowed
    BusyEnds
    AnchorReleased
CHECK_DEADLOCK FALSE
