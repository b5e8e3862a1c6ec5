SPECIFICATION FairSpec
CONSTANTS
    Tx <- MCTx
    NoTx = "notx"
    Outpoint <- MCOutpoint
    TxOf <- MCTxOf
    Ins <- MCIns
    Standard = {"a", "b", "c", "d", "e", "f"}
    Paying = {"a", "b", "c", "d", "e"}
    Small = {"a", "b", "c", "d", "f"}
    MAX_ORPHAN_TRANSACTIONS = 2
    Genesis = {"g"}
CHECK_DEADLOCK FALSE
INVARIANTS
    OrphanIndexExact
PROPERTIES
    DependantsProcessed
    HandlerReturns
