CONSTANTS
    Names <- MCNames
    Bases <- MCBases
    Logical <- MCLogical
    Lookalike <- MCLookalike
    Releases = {r1}
    Kinds = {"operation", "operationPolicy"}
    NoRow = NoRow
SPECIFICATION Spec
INVARIANTS
    CloneIsWhole
