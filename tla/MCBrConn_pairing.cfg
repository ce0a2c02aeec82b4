CONSTANTS
    P1 = P1
    P2 = P2
    T1 = T1
    T2 = T2
    Nil = Nil
    Peers = {P1, P2}
    Callers = {T1}
    NoConn = Nil
    KeySizes = {6, 7}
    ReqLevels = {1, 3}
    MaxAcl = 1
    MaxSco = 1
    MaxCmdFails = 1
SPECIFICATION Spec
INVARIANT PairingAnswered
