SPECIFICATION Spec
CONSTANTS
    Addr <- MCAddr
    DEV_TREASURY_ADDRESS = "dev"
    Txs <- MCTxs
    INITIAL_BLOCK_REWARD = 2000
    DEV_TAX_PERCENTAGE = 5
    BLOCKS_PER_ERA = 4
    TRANSACTION_FEE = 100
    MAX_U64 = 1000000
    K = 1
    Nodes = {"a", "b"}
    MinerOf <- MCMinerOf
    Hashes = {1, 2, 3}
    TARGET_INTERVAL = 1
    WINDOW_SIZE = 9
    INITIAL_TARGET = 16
    BATCH = 1
    ORPHAN_POOL_MAX = 2
    MAX_SYNC_BLOCKS = 2
    MAX_FUTURE_DRIFT_SECS = 1
    ForeignBlocks <- NoForeign
    MaxTime = 0
    MaxConnects <- Never
    MaxRestarts <- Never
    MaxDiskErrors <- Never
    MAX_U128 = 1000
    CanCrashMidway = FALSE
CHECK_DEADLOCK FALSE
INVARIANTS LedgersConverge
