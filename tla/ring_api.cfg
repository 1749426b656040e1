SPECIFICATION FairSpec
CONSTANTS
    h1 = h1
    h2 = h2
    h3 = h3
    k1 = k1
    k2 = k2
    k3 = k3
    k4 = k4
    t1 = t1
    HostNames = {h1, h2, h3}
    Keys = {k1, k2, k3, k4}
    Threads = {t1}
    replicationFactor = 2
    hash <- MCHash
    MaxHostLoad = 3
    MinHostLoad <- Minus1
    MaxTotalLoad = 4
    MinTotalLoad <- Minus2
    LoadValues = {0, 2}
INVARIANT TypeOK
INVARIANT RingWellFormed
INVARIANT WalkInsideRing
PROPERTY ImplementsRing
PROPERTY GetLeastFirstEligible
PROPERTY AccountingKept
PROPERTY GetLeastReturnsWhenCovered
