CONSTANTS
    Workers = {w1}
    MaxTime = 0
    Lives = {0, 2}
    MaxGrants = 1
    MaxMade = 2
    NoRow = NoRow
    NoToken = NoToken
    NoAnswer = NoAnswer
SPECIFICATION Spec
SYMMETRY Symmetry
INVARIANTS
    DeletedIsNotServed
