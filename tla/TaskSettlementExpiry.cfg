\* The submission dies and its reserve expires.
SPECIFICATION Spec
CONSTANTS
    w1 = w1
    w2 = w2
    Workers = {w1, w2}
    Prepaid = 2
    Actuals = {0, 1, 3}
    Setups <- MCExpirySetups
CHECK_DEADLOCK FALSE
INVARIANTS
    NeverOverRefunded
