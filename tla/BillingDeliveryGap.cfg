\* A crash between the write and the delivery mark.
SPECIFICATION Spec
CONSTANTS
    Requests = {r1}
    TaskRequests = {}
    Estimates = {2}
    Charges = {1}
    WalletQuota = 2
    TokenQuota = 2
    NoReq = NoReq
INVARIANT CrashKeepsReceivedReserve
CHECK_DEADLOCK FALSE
