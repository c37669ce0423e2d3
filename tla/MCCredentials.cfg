CONSTANTS
    Workers = {w1, w2}
    MaxTime = 2
    Lives = {0, 2}
    MaxGrants = 2
    MaxMade = 1
    NoRow = NoRow
    NoToken = NoToken
    NoAnswer = NoAnswer
SPECIFICATION Spec
SYMMETRY Symmetry
INVARIANTS
    TypeOK
    ServedTokenIsLive
    CachedGrantIsLive
