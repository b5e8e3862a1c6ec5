SPECIFICATION Spec
CONSTANTS
    host1 = host1
    host2 = host2
    host3 = host3
    port1 = port1
    port2 = port2
    Service <- MCService
    Source = {1, 2}
    Host <- MCHost
    NewBucket = {1, 2}
    TriedBucket = {1}
    GetNewBucket <- MCNewBucket
    GetTriedBucket <- MCTriedBucket
    ADDRMAN_NEW_BUCKET_SIZE = 1
    ADDRMAN_TRIED_BUCKET_SIZE = 2
    ADDRMAN_NEW_BUCKETS_PER_ADDRESS = 2
    ADDRMAN_TRIED_ENTRIES_INSPECT_ON_EVICT = 2
    ADDRMAN_GETADDR_MAX_PCT = 25
    MaxIds = 4
    MaxTime = 1
SYMMETRY Symmetry
INVARIANTS
    CheckPasses
    BucketsBounded
PROPERTIES
    TriedNeverDeleted
    ReloadKeepsTables
