CONSTANTS
    A1 = A1
    A2 = A2
    A3 = A3
    ANY = ANY
    Addrs <- MCAddrs
    BT_ADDR_ANY <- ANY
    CONFIG_BT_MAX_PAIRED = 2
    OverwriteOldestBuilds = {TRUE}
    SAVE_AGING_COUNTER_ON_PAIRING = TRUE
    KeyTypes = {0, 8}
    MaxCounter = 5
    MaxBoots = 1
    MaxBadRecords = 1
SPECIFICATION Spec
PROPERTY EvictsLeastRecentlyUsed
