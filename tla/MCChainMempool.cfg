SPECIFICATION PoolSpec
CONSTANTS
    Block <- MCBlock
    Root = "r"
    NoBlock = "none"
    Prev <- MCPrev
    Anc <- MCAnc
    Height <- MCHeight
    ChainTrust <- MCChainTrust
    Tx <- MCTx
    NoTx = "notx"
    Outpoint <- MCOutpoint
    TxOf <- MCTxOf
    Ins <- MCIns
    Generated = {"base"}
    Vtx <- MCVtx
    Sound <- MCBlock
    Minted <- MCMinted
    OutTotal <- MCOutTotal
    Relayable <- MCTx
    fDemiNodes = FALSE
    fDemiSelf = FALSE
    nCoinbaseMaturity = 1
    RollingStart = 5
    TempDepth = 1
    SyncSpan = 3
    BlockReward = 2
    RollbackHeights = {5}
    MyStakes = {}
    DiskFaults = TRUE
INVARIANTS
    PoolIndexExact
    PoolOffChain
PROPERTIES
    ReorganizeClearsConflicts
    RootsResurrected
