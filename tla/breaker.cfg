CONSTANTS
    k1 = k1  k2 = k2  k3 = k3  k4 = k4
    Calls = {k1, k2, k3, k4}
    FailureThreshold = 5
    SuccessThreshold = 2
    HalfOpenMaxCalls = 3
    FailureCap = 7
SPECIFICATION FairSpec
CHECK_DEADLOCK FALSE
INVARIANTS TypeOK FailuresAreConsecutive ProbesLimited
PROPERTY ProbingEnds
