SPECIFICATION Spec
CONSTANTS
    Holder = {"mining", "send"}
    Miner = {"mining"}
    nKeys = 2
    MaxKeys = 7
INVARIANTS
    KeysSurviveStop
    FileNeverMixed
    KeptKeysStayOut
    PoolServes
    PoolRenewed
