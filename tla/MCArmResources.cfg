SPECIFICATION Spec
CONSTANTS
    Rules <- MCRules
    Clients = {c1, c2}
    Values = {v1, v2}
    MaxWrites = 3
    Missing = Missing
    Null = Null
    Empty = Empty
    Preset = Preset
    Masked = Masked
    NoRow = NoRow
    NoOne = NoOne
SYMMETRY Symmetry
CHECK_DEADLOCK FALSE
INVARIANTS TypeOK ConditionHoldsAtWrite RevokedKeyStaysRevoked NoDanglingReference
PROPERTIES PatchKeepsTheRest 
