------------------------------ MODULE MCKeysBr ------------------------------
EXTENDS KeysBr

CONSTANTS A1, A2, A3, ANY

MCAddrs == {A1, A2, A3}

=============================================================================
