SPECIFICATION Spec
CONSTANTS
    K = 1
    Replicas = {r1, r2}
    Hashes = {1, 2, 3, 4, 5}
    ForeignBlocks <- TreesAndMerges
SYMMETRY MCSymmetry
INVARIANTS TypeOK CachesAgree AnticoneExact LinearSortComplete
PROPERTIES CacheStable ForkChoiceMonotone
