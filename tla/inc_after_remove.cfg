SPECIFICATION RequestsSpec
CONSTANTS
    h1 = h1
    h2 = h2
    k1 = k1
    k2 = k2
    c1 = c1
    c2 = c2
    c3 = c3
    a1 = a1
    HostNames = {h1, h2}
    Keys = {k1, k2}
    Clients = {c1, c2, c3}
    Admins = {a1}
    Monitors = {}
    Threads = {c1, c2, c3, a1}
    replicationFactor = 2
    hash <- MCHash
    MaxHostLoad = 3
    MinHostLoad <- Minus3
    MaxTotalLoad = 3
    MinTotalLoad <- Minus3
    LoadValues = {0}
INVARIANT IncNeverPanics
