\* Two handlers at a time and two lost connections.
CONSTANTS
    MaxRequests = 2
    MaxBreaks = 2
SPECIFICATION FairSpec
CHECK_DEADLOCK FALSE
INVARIANTS TypeOK ServedIsConnected
PROPERTIES OnlyOrphansRunLate 
