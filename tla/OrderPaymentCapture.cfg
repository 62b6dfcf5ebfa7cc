\* One food order whose amount changes: two gateway orders and two payment
\* attempts, two concurrent handlers of which one may die.
CONSTANTS
    Orders = {o1}
    Amounts = {1, 2}
    Gids = {g1, g2}
    Pays = {k1, k2}
    Refs = {}
    Procs = {p1, p2}
    Null = Null
    MaxAborts = 1
    BareOrderPaid = TRUE
SPECIFICATION Spec
SYMMETRY Symmetry
CHECK_DEADLOCK FALSE
INVARIANTS TypeOK StatusAnnounced CaptureBacked AckedIsAnnounced
