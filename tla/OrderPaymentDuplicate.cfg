\* Verify and webhook of one payment at the same time.
CONSTANTS
    Orders = {o1}
    Amounts = {1}
    Gids = {g1}
    Pays = {k1}
    Refs = {}
    Procs = {p1, p2}
    Null = Null
    MaxAborts = 0
    BareOrderPaid = FALSE
SPECIFICATION Spec
CHECK_DEADLOCK FALSE
INVARIANT NoDuplicateCapturedEvent
