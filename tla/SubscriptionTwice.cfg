\* Two attempts on one order whose handlers overlap.
CONSTANTS
    Restaurants = {r1}
    Plans = {n1}
    Gids = {g1}
    Pays = {k1, k2}
    Sids = {s1, s2}
    Procs = {p1, p2}
    Pods = {}
    MaxAborts = 0
    Null = Null
SPECIFICATION Spec
CHECK_DEADLOCK FALSE
INVARIANT ActivatedOnce
