SPECIFICATION Spec
CONSTANTS
    Keys <- MCKeys
    Values <- MCValues
    Options <- MCOptions
    Secrets <- MCSecrets
    Encryptors = {"AES"}
    Hashers = {"hash"}
    TTLs = {0, 1}
    Rooms = {5, 16}
    MaxTime = 1
    MaxData = 12
    MaxIndex = 8
    Nil = Nil
    Junk = Junk
INVARIANT TypeOK
INVARIANT ReadIsWritten
INVARIANT IndexPointsAtItem
