\* One task, two runners of which one may crash, and only sweeps and claims fair.
SPECIFICATION FairSpec
CONSTANTS
    Tasks = {t1}
    Runners = {r1, r2}
    Mortal = {r1}
    Aged = {t1}
    NoTask = NoTask
    NoRunner = NoRunner
    NoLock = NoLock
    LateCap = 2
PROPERTIES
    AbandonedIsReaped
    PendingIsClaimed
CHECK_DEADLOCK FALSE
