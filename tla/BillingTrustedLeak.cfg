\* A trusted session whose top-up fails.
SPECIFICATION Spec
CONSTANTS
    Requests = {r1}
    TaskRequests = {}
    Estimates = {2}
    Charges = {1}
    WalletQuota = 2
    TokenQuota = 2
    NoReq = NoReq
INVARIANT FailedRequestClosesReserve
CHECK_DEADLOCK FALSE
