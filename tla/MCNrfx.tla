------------------------------- MODULE MCNrfx -------------------------------
(***************************************************************************)
(* Instances of NfcTransportNrfx for TLC.                                  *)
(***************************************************************************)
EXTENDS NrfxPipe, TLC

CONSTANTS b1, b2, u1, u2

OneBuf == {b1}
TwoBufs == {b1, b2}
BufSymmetry == Permutations(Bufs)
OneUid == {u1}
TwoUids == {u1, u2}
MainOnly == {"main"}
AuxOnly == {"aux"}
NoFaults == {}
AllFaults == FaultNames
\* Failures that leave the transport as it was before the call.
CleanFaults == {"setup", "fwi", "nfcid1"}
ShortFrags == {2}
MixedFrags == {1, 3}
=============================================================================
