CONSTANTS
    A1 = A1
    A2 = A2
    A3 = A3
    ANY = ANY
    Addrs <- MCAddrs
    BT_ADDR_ANY <- ANY
    CONFIG_BT_MAX_PAIRED = 2
    OverwriteOldestBuilds = {TRUE, FALSE}
    SAVE_AGING_COUNTER_ON_PAIRING = TRUE
    KeyTypes = {0, 8}
    MaxCounter = 5
    MaxBoots = 2
    MaxBadRecords = 1
SPECIFICATION Spec
INVARIANTS TypeOK PoolMatchesStore CounterAhead LoadNeverDerefsNull
PROPERTY EvictsLeastRecentlyUsedBeforeReboot
