SPECIFICATION Spec
CONSTANTS
    K = 1
    Replicas = {r1}
    Hashes = {1, 2, 3, 4}
    ForeignBlocks <- MCForeign
INVARIANT BlueAnticoneWithinK
