SPECIFICATION LookupSpec
CONSTANTS
    Block <- MCBlock
    Root = "r"
    NoBlock = "none"
    Prev <- MCPrev
    Anc <- MCAnc
    Height <- MCHeight
    ChainTrust <- MCChainTrust
    Tx <- MCTx
    NoTx = "notx"
    Outpoint <- MCOutpoint
    TxOf <- MCTxOf
    Ins <- MCIns
    Generated = {"base"}
    Vtx <- MCVtx
    Sound <- MCSound
    Minted <- MCMinted
    OutTotal <- MCOutTotal
    fDemiNodes = TRUE
    fDemiSelf = FALSE
    nCoinbaseMaturity = 0
    RollingStart = 6
    TempDepth = 0
    SyncSpan = 9
    BlockReward = 2
    RollbackHeights <- MCRollbackHeights
    MyStakes = {}
    DiskFaults = FALSE
    sysUpgrade_01 = 4
    Size <- MCSize
    NUM_BLOCKS_FOR_MEDIAN_BLOCK = 3
    Confirming = {"b1"}
INVARIANT SizesOfBestChain
