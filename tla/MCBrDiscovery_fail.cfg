CONSTANTS
    B1 = B1
    B2 = B2
    B0 = B0
    Addrs <- MCAddrs
    NoAddr <- B0
    ResultSizes = {2}
    Rssis <- MCRssis
    MaxReports = 2
    MaxStarts = 1
    MaxCmdFails = 1
    MaxEvents = 2
SPECIFICATION Spec
PROPERTY DiscoveryCompletes
