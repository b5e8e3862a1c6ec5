SPECIFICATION Spec
CONSTANTS
    Block <- MCBlock
    Root = "r"
    NoBlock = "none"
    Prev <- MCPrev
    Anc <- MCAnc
    Height <- MCHeight
    ChainTrust <- MCChainTrust
    Tx <- MCTx
    NoTx = "notx"
    Outpoint <- MCOutpoint
    TxOf <- MCTxOf
    Ins <- MCIns
    Generated = {"base", "s"}
    Vtx <- MCVtx
    Sound <- MCSoundBlock
    Minted <- MCMinted
    OutTotal <- MCOutTotal
    fDemiNodes = TRUE
    fDemiSelf = FALSE
    nCoinbaseMaturity = 1
    RollingStart = 6
    TempDepth = 1
    SyncSpan = 3
    BlockReward = 2
    RollbackHeights <- MCRollbackHeights
    MyStakes = {"a2"}
    DiskFaults = FALSE
INVARIANT DiskBeforeMemory
