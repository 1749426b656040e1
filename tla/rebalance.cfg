SPECIFICATION FairSpec
CONSTANTS
    k1 = k1
    k2 = k2
    k3 = k3
    v1 = v1
    v2 = v2
    v3 = v3
    w1 = w1
    w2 = w2
    None = None
    Keys = {k1, k2, k3}
    Volumes = {v1, v2, v3}
    Workers = {w1, w2}
    Capacity = 1
    Recorded <- MCRecorded
    Target <- MCTarget
CHECK_DEADLOCK FALSE
INVARIANT TypeOK
INVARIANT SuccessMeansPlaced
INVARIANT AllHandled
PROPERTY NeverLost
PROPERTY IndexTruthful
PROPERTY RebalanceReturns
