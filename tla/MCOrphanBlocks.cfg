SPECIFICATION OrphanFairSpec
CONSTANTS
    Block <- MCBlock
    Root = "r"
    NoBlock = "none"
    Prev <- MCPrev
    Anc <- MCAnc
    Height <- MCHeight
    ChainTrust <- MCChainTrust
    Tx = {"base"}
    NoTx = "notx"
    Outpoint = {"base1"}
    TxOf <- MCTxOf
    Ins <- MCIns
    Generated = {"base"}
    Vtx <- MCVtx
    Sound <- MCSound
    Minted <- MCMinted
    OutTotal <- MCOutTotal
    Stake <- MCStake
    NoStake = "pow"
    MaxOrphanBlocks = 2
    fImporting = FALSE
    fDemiNodes = FALSE
    fDemiSelf = FALSE
    nCoinbaseMaturity = 1
    RollingStart = 5
    TempDepth = 2
    SyncSpan = 3
    BlockReward = 2
    RollbackHeights = {}
    MyStakes = {}
    DiskFaults = FALSE
INVARIANTS
    OrphanMapsAgree
    OrphanBlocksBounded
    NoStaleStake
    AcceptedParentsHaveNoOrphans
PROPERTIES
    OrphanChainsWhole
    ProcessBlockReturns
