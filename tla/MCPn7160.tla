------------------------------ MODULE MCPn7160 ------------------------------
(***************************************************************************)
(* Instances of NfcTransportPn7160 for TLC.                                *)
(***************************************************************************)
EXTENDS NfcTransportPn7160

CONSTANTS b1, b2, b3

TwoBufs == {b1, b2}
ThreeBufs == {b1, b2, b3}
NoFaults == {}
AllFaults == NciFaultNames
=============================================================================
