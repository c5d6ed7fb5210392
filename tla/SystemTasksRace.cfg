\* Two tasks of one lock type and two runners; every interleaving, no crash.
SPECIFICATION Spec
CONSTANTS
    Tasks = {t1, t2}
    Runners = {r1, r2}
    Mortal = {}
    Aged = {}
    NoTask = NoTask
    NoRunner = NoRunner
    NoLock = NoLock
    LateCap = 2
INVARIANTS
    TypeOK
    TaskInv
    ExecutedByOneRunner
    AtMostOneLateBatch
    ExecutorKeepsLease
PROPERTIES
    LeaseEndsWithTask
    ImplementsSlot
SYMMETRY Symmetry
CHECK_DEADLOCK FALSE
