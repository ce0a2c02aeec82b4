---------------------------- MODULE MCBrDiscovery ----------------------------
EXTENDS BrDiscovery

CONSTANTS B1, B2, B0

MCAddrs == {B1, B2}

\* Received signal strengths in dBm, as the controller reports them.
MCRssis == {-70, -40}

=============================================================================
