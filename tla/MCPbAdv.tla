------------------------------ MODULE MCPbAdv ------------------------------
(* PbAdv instantiated for TLC: the two nodes and the UUIDs are model       *)
(* values; the device owns U1, and a Link Open may also name U2.           *)
EXTENDS PbAdv

CONSTANTS P, D, U1, U2

MCUuids == {U1, U2}
=============================================================================
