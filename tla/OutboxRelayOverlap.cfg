\* Runs outlive the lock and Redis is unreachable at times: runs overlap.
CONSTANTS
    podA = podA  podB = podB  a1 = a1  a2 = a2  b1 = b1
    Pods = {podA, podB}
    Runs <- TwoRuns
    PodOf <- TwoPodOf
    MaxEvents = 2
    BatchSize = 2
    MaxRetries = 2
    MaxFaults = 1
    MaxReplays = 0
    SlowRuns = TRUE
    RedisFails = TRUE
    Null = Null
SPECIFICATION Spec
INVARIANTS PublishedWasDelivered DeadLetterEarned OvertakeNeedsFailure
