SPECIFICATION Spec
CONSTANTS
    v1 = v1
    Keys <- MCKeys
    Values <- MCValues
    MaxLevel = 3
    Impls = {"ordered", "func"}
    None = None
    Panic = Panic
INVARIANT TypeOK
INVARIANT WellFormed
INVARIANT SearchesCorrect
INVARIANT RandomLevelFits
PROPERTY ImplementsSortedMap
PROPERTY IteratorKeepsPath
