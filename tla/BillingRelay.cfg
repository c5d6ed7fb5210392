\* One relay request: trust bypass, zero estimate, top-ups, delivery marks, recovery.
SPECIFICATION FairSpec
CONSTANTS
    Requests = {r1}
    TaskRequests = {}
    Estimates = {0, 2, 3}
    Charges = {0, 1, 4}
    WalletQuota = 3
    TokenQuota = 4
    NoReq = NoReq
INVARIANTS
    TypeOK
    LedgerInv
    WalletMatchesLedger
    TokenMatchesLedger
PROPERTIES
    RolledBackIsFinal
    RecoveryKeepsDelivered
    LedgerImplementsContract
    SpooledChargeIsDecided
    CrashedReserveCloses
CHECK_DEADLOCK FALSE
