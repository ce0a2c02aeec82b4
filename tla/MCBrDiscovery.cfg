CONSTANTS
    B1 = B1
    B2 = B2
    B0 = B0
    Addrs <- MCAddrs
    NoAddr <- B0
    ResultSizes = {1, 2}
    Rssis <- MCRssis
    MaxReports = 2
    MaxStarts = 1
    MaxCmdFails = 0
    MaxEvents = 2
SPECIFICATION Spec
INVARIANT TypeOK
PROPERTY DiscoveryCompletes
