\* Policies that share a key and disagree on max-count.
SPECIFICATION FairSpec
CONSTANTS
    Requests = {r1, r2, r3}
    MaxCounts <- McMaxCounts
    MaxNested = 2
    MaxSemaphores = 4
INVARIANTS TypeOK SemaphoreBound ReleaseNeverBlocks
PROPERTIES SlotsComeBack
