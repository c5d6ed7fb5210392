\* One task submission: forced pre-consume, no marks, Rollback after the settle.
SPECIFICATION Spec
CONSTANTS
    Requests = {r1}
    TaskRequests = {r1}
    Estimates = {0, 2, 3}
    Charges = {0, 1, 4}
    WalletQuota = 3
    TokenQuota = 4
    NoReq = NoReq
PROPERTIES
    LedgerImplementsContract
CHECK_DEADLOCK FALSE
