\* One payment attempt and one refund, which may fail, with concurrent handlers
\* of which one may die: the refund ledger, and the liveness of the webhooks.
CONSTANTS
    Orders = {o1}
    Amounts = {1}
    Gids = {g1}
    Pays = {k1}
    Refs = {r1}
    Procs = {p1, p2}
    Null = Null
    MaxAborts = 1
    BareOrderPaid = FALSE
SPECIFICATION FairSpec
CHECK_DEADLOCK FALSE
INVARIANTS RefundLedger AckedRefundRecorded
PROPERTIES SafetyNet RefundReconciled
