------------------------------ MODULE MCBrConn ------------------------------
EXTENDS BrConn

CONSTANTS P1, P2, T1, T2, Nil

====
