CONSTANTS
    P = P
    D = D
    U1 = U1
    U2 = U2
    Prov <- P
    Dev <- D
    Uuids <- MCUuids
    DevUuid <- U1
    LinkIds = {1}
    PduLens = {10}
    MaxSends = 1
    AdvBufCount = 6
    MaxAllocFails = 0
    XactTimeout = 1
    MaxInFlight = 1
    Alternate = TRUE
SPECIFICATION Spec
PROPERTY LinkReleased
