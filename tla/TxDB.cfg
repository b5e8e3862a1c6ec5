SPECIFICATION DbSpec
CONSTANTS
    User = {"writer", "other"}
    Key = {"hashBestChain", "tx"}
    Value = {"v"}
    Absent = "absent"
    Untouched = "untouched"
    MaxBatch = 2
PROPERTY ActsAsStore
