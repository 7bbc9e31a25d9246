SPECIFICATION Spec
CONSTANTS
    Tools = {"t1", "t2"}
    Wallets = {"miner", "other"}
    MINER_WALLET_PATH = "miner"
    Passwords = {"pw", "pw2"}
    Commands <- MCCommands
    NodePasswords = {"pw", "unset"}
    InitialKeys = 1
    InitialWallets <- MCInitialWallets
    ConfigFiles <- MCConfigFiles
    ListedPeers = {"listed"}
    DefaultSeeds = {"default"}
    MaxStarts = 2
CHECK_DEADLOCK FALSE
INVARIANTS TypeOK RewardsDurable OnePeerId CopiesFaithful SeedsVouched
PROPERTIES KeysSurvive HealthyStarts
