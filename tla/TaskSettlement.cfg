\* One task: overlapping passes, failing, dying and overtaken submissions.
SPECIFICATION FairSpec
CONSTANTS
    w1 = w1
    w2 = w2
    Workers = {w1, w2}
    Prepaid = 2
    Actuals = {0, 1, 3}
    Setups <- MCSetups
CHECK_DEADLOCK FALSE
INVARIANTS
    MoneyMatchesTask
PROPERTIES
    PendingRefundPaid
    SuccessSettles
