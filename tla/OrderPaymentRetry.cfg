\* A failed attempt followed by a successful one on the same gateway order.
CONSTANTS
    Orders = {o1}
    Amounts = {1}
    Gids = {g1}
    Pays = {k1, k2}
    Refs = {}
    Procs = {p1}
    Null = Null
    MaxAborts = 0
    BareOrderPaid = FALSE
SPECIFICATION FairSpec
CHECK_DEADLOCK FALSE
PROPERTY SafetyNet
