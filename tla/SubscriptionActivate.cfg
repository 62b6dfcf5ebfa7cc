\* One order, a failed and a successful attempt, a refund, and retries.
CONSTANTS
    Restaurants = {r1}
    Plans = {n1}
    Gids = {g1}
    Pays = {k1, k2}
    Sids = {s1, s2}
    Procs = {p1, p2}
    Pods = {}
    MaxAborts = 1
    Null = Null
SPECIFICATION Spec
SYMMETRY Symmetry
CHECK_DEADLOCK FALSE
INVARIANTS TypeOK SuccessIsComplete ActivationClaimedOnce AckedIsActivated
