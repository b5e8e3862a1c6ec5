SPECIFICATION XNodeSpec
CONSTANTS
    Vin = {"x", "y"}
    MaxSig = 2
    MIN_DSEE = 1
    MIN_DSEEP = 1
    PING = 1
    EXPIRATION = 2
    REMOVAL = 3
INVARIANTS
    OneEntryPerCollateral
PROPERTIES
    NewestKept
    SilentLeave
    HeardCountAgain
