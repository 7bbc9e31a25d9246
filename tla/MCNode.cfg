SPECIFICATION Spec
CONSTANTS
    Addr <- MCAddr
    DEV_TREASURY_ADDRESS = "dev"
    Txs <- MCTxs
    INITIAL_BLOCK_REWARD = 2000
    DEV_TAX_PERCENTAGE = 5
    BLOCKS_PER_ERA = 4
    TRANSACTION_FEE = 100
    MAX_U64 = 1000000
    K = 1
    Nodes = {"a"}
    MinerOf <- OneMiner
    Hashes = {1}
    TARGET_INTERVAL = 1
    WINDOW_SIZE = 4
    INITIAL_TARGET = 16
    BATCH = 1
    ORPHAN_POOL_MAX = 2
    MAX_SYNC_BLOCKS = 2
    MAX_FUTURE_DRIFT_SECS = 1
    ForeignBlocks <- MCForeign
    MaxTime = 1
    MaxConnects <- Never
    MaxRestarts <- Twice
    MaxDiskErrors <- Once
    MAX_U128 = 1000
    CanCrashMidway = TRUE
CHECK_DEADLOCK FALSE
INVARIANTS TypeOK LedgerBacked HistoryTopological OrphansCounted NoOrphanForgotten
    SyncAnswersAttach
PROPERTY RestartKeepsLedger
