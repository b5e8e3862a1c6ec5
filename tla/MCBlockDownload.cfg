SPECIFICATION DownloadFairSpec
CONSTANTS
    p = p
    q = q
    x = x
    y = y
    NoNode = NoNode
    Node = {p, q}
    Hash = {x, y}
    LocalNode = {q}
    QueueLimit = 1
    BanScore = 20
    MAX_BLOCKS_IN_TRANSIT_PER_PEER = 1
    BLOCK_DOWNLOAD_TIMEOUT = 1
    MaxTime = 2
INVARIANTS
    MapsMatchLists
    ListedOnce
PROPERTIES
    SendMessagesReturns
