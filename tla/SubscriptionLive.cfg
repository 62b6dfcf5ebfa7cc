\* A failed and a successful attempt on one order, and one expiry job.
CONSTANTS
    Restaurants = {r1}
    Plans = {n1}
    Gids = {g1}
    Pays = {k1, k2}
    Sids = {s1, s2}
    Procs = {p1}
    Pods = {d1}
    MaxAborts = 1
    Null = Null
SPECIFICATION FairSpec
CHECK_DEADLOCK FALSE
INVARIANTS ExpiryAnnounced ExpiredOncePerPod
PROPERTIES PaidIsActivated PastDueIsExpired
