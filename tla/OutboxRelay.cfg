\* Redis is reachable and no run outlives the lock's time to live; crashes,
\* orphaned locks, and more pending events than a batch holds.
CONSTANTS
    podA = podA  podB = podB  a1 = a1  a2 = a2  b1 = b1
    Pods = {podA, podB}
    Runs <- ThreeRuns
    PodOf <- ThreePodOf
    MaxEvents = 2
    BatchSize = 1
    MaxRetries = 2
    MaxFaults = 1
    MaxReplays = 1
    SlowRuns = FALSE
    RedisFails = FALSE
    Null = Null
SPECIFICATION FairSpec
INVARIANTS TypeOK OneRelay DuplicateNeedsFault
PROPERTIES ImplementsOutboxQueue EventuallySettled
