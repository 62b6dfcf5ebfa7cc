\* Two requests at a time, two keys for one order, and one fault: with a refund
\* id more than faults, the gateway never runs out of ids.
CONSTANTS
    o1 = o1
    Orders = {o1}
    Keys = {k1, k2}
    OrderOf <- SameOrder
    Procs = {p1, p2}
    Refs = {r1, r2}
    MaxFaults = 1
    Null = Null
SPECIFICATION FairSpec
INVARIANTS TypeOK OverlapNeedsFault AnswersAgree
PROPERTIES ImplementsRefundOnce RetrySettles
