SPECIFICATION Spec
CONSTANTS
    Addr <- MCAddr
    DEV_TREASURY_ADDRESS = "dev"
    Txs <- MCTxs
    INITIAL_BLOCK_REWARD = 83238
    DEV_TAX_PERCENTAGE = 5
    BLOCKS_PER_ERA = 2
    TRANSACTION_FEE = 100
    MAX_U64 = 122800
    Miner = "miner"
    BATCH = 2
    Submitted <- MCSubmitted
    PeerBlocks <- MCPeerBlocks
    Heights = {1, 2}
    MaxBlocks <- MCMaxBlocks
INVARIANTS TypeOK SupplyConserved NoncesContiguous NoDoubleSpend SelectionSound LoopsMatchCalls
PROPERTY LedgerIsAtomic
