CONSTANTS
    Names <- MCNames
    Bases <- MCBases
    Logical <- MCLogical
    Lookalike <- MCLookalike
    Releases = {r1}
    Kinds = {"operation", "operationPolicy", "policy"}
    NoRow = NoRow
SPECIFICATION Spec
CONSTRAINT SomeBare
INVARIANTS
    TypeOK
    LiveWasPromoted
    ReleasesAreWhole
PROPERTIES
    NothingLeftBehind
