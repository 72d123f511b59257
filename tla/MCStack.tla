------------------------------- MODULE MCStack -------------------------------
(***************************************************************************)
(* An instance of NfcStack for TLC: two services with an AID each, an AID  *)
(* nobody registers, a RAM backend with fewer slots than there are tags.   *)
(***************************************************************************)
EXTENDS NfcStack, TLC

CONSTANTS a1, a2, a3, ndef, emv, t1, t2, t3, card

MCAids == {a1, a2, a3}
MCSvcs == {ndef, emv}
MCTags == {t1, t2, t3}
TagSymmetry == Permutations(MCTags)
MCCards == {card}
MCProfiles == <<[aid |-> a1, svc |-> ndef], [aid |-> a2, svc |-> emv]>>
MCImportBlobs == {ndef :> Bad @@ emv :> card}
=============================================================================
