CONSTANTS
    B1 = B1
    B2 = B2
    B0 = B0
    Addrs <- MCAddrs
    NoAddr <- B0
    ResultSizes = {1}
    Rssis <- MCRssis
    MaxReports = 1
    MaxStarts = 2
    MaxCmdFails = 0
    MaxEvents = 2
SPECIFICATION Spec
PROPERTY RemoteNameAnswered
