SPECIFICATION Spec
CONSTANTS
    Addr = {"a", "b", "dev"}
    DEV_TREASURY_ADDRESS = "dev"
    Txs <- MCTxs
    INITIAL_BLOCK_REWARD = 100
    DEV_TAX_PERCENTAGE = 5
    BLOCKS_PER_ERA = 100
    TRANSACTION_FEE = 2
    MAX_U64 = 1000
    Miners = {"a", "b"}
    ValidSigs = {1, 3}
    Resplit <- MCResplit
    MaxHeight = 2
    MaxTxs = 4
    MaxMined = 2
CHECK_DEADLOCK FALSE
INVARIANTS HashNamesOneBlock
