---------------------------- MODULE PollerTagProofs ----------------------------
(***************************************************************************)
(* What one exchange and one step of a poller do, lost or not: the part     *)
(* that all pollers share, and MIFARE Classic, ISO 15693-3 with SLIX,       *)
(* MIFARE Ultralight and FeliCa.  PollerWalkProofs has the pollers over     *)
(* ISO-DEP and the theorems about the walk.                                 *)
(***************************************************************************)
EXTENDS Iso15693Tag, ClassicTag, FelicaTag, UltralightTag, Integers, TLAPS

\* Most leaves are first-order: Zenon first, the SMT solver for the others.
USE ZenonT(3), SMTT(30)

-----------------------------------------------------------------------------
(* The walk: the shapes, and which image the reader holds at which step.    *)

\* the steps before an entry has matched
Before ==
    {"unlock", "password", "w_zero", "w_data", "w_nlen", "detect", "detect_v1", "detect_key", "detect_version"}

WalkInv ==
    /\ DOMAIN card = {"kind", "m", "s"}
    /\ DOMAIN rd = {"p", "step", "i", "flag", "err", "word"} /\ rd.p \in 1..9
    /\ lost \in Nat
    /\ "kind" \in DOMAIN img
    /\ rd.step \in Before => img = NoImage
    /\ rd.step \notin Before => img.kind = Pollers[rd.p] \/ (rd.step = "done" /\ img = NoImage)

\* what a step of the pollers of `kinds` leaves alone
Kept(kinds) ==
    /\ card'.kind = card.kind /\ card'.m = card.m
    /\ card.kind \notin kinds => card'.s = card.s
    /\ img'.kind \in kinds \cup {"none"}
    /\ "ndef" \in kinds \/ rd'.step \notin {"w_data", "w_nlen"}

\* nfc_reader_session_transceive: the card's answer, no answer, or a loss.
LEMMA Outcome ==
  ASSUME NEW a, NEW o \in Exchange(a)
  PROVE  \/ o.ret = "ok" /\ a.rx.k # "none" /\ o.s = a.s /\ o.rx = a.rx /\ o.n = lost
         \/ o.ret = "ETIMEDOUT" /\ a.rx.k = "none" /\ o.s = a.s /\ o.rx = a.rx /\ o.n = lost
         \/ o.ret \in {"ETIMEDOUT", "EIO"} /\ o.s \in {card.s, a.s} /\ o.n = lost + 1
BY DEF Exchange

LEMMA Card ==
  ASSUME WalkInv, NEW a, NEW o \in Exchange(a), After(o)
  PROVE  /\ DOMAIN card' = {"kind", "m", "s"} /\ lost' \in Nat
         /\ card'.kind = card.kind /\ card'.m = card.m
         /\ a.s = card.s => card'.s = card.s
BY Outcome DEF After, WalkInv

LEMMA PollerNames ==
  ASSUME NEW p \in DOMAIN Pollers
  PROVE  p \in 1..9 /\ Pollers[p] \in {"ndef", "ultralight", "classic", "felica", "slix", "iso15693_3", "desfire", "emv", "aliro"}
BY DEF Pollers

\* A step of the poller of an entry: it has matched, or gone on to the next entry, or
\* it goes on.
Moves(kind) ==
    /\ Pollers[rd.p] = kind
    /\ DOMAIN rd' = DOMAIN rd
    /\ \/ rd.step \in Before /\ rd'.p = rd.p /\ rd'.step \in Before \ {"w_data", "w_nlen"} /\ img' = img
       \/ rd.step \in Before /\ rd'.p \in 1..9 /\ rd'.step \in {"detect", "done"} /\ img' = img
       \/ /\ rd'.p = rd.p /\ rd'.step \notin Before
          /\ "kind" \in DOMAIN img' /\ img'.kind = kind

LEMMA Walking ==
  ASSUME WalkInv, NEW kind, Moves(kind), NEW a, NEW o \in Exchange(a), After(o)
  PROVE  /\ WalkInv' /\ card'.kind = card.kind /\ card'.m = card.m /\ (a.s = card.s => card'.s = card.s)
         /\ img'.kind \in {kind, "none"} /\ rd'.step \notin {"w_data", "w_nlen"}
<1>1. /\ DOMAIN card' = {"kind", "m", "s"} /\ lost' \in Nat
      /\ card'.kind = card.kind /\ card'.m = card.m
      /\ a.s = card.s => card'.s = card.s
  BY Card
<1>2. DOMAIN rd' = {"p", "step", "i", "flag", "err", "word"} /\ rd'.p \in 1..9 /\ "kind" \in DOMAIN img'
  BY DEF WalkInv, Moves, Before
<1>3. rd'.step \in Before => img' = NoImage
  BY DEF WalkInv, Moves, Before
<1>4. rd'.step \notin Before => img'.kind = Pollers[rd'.p] \/ (rd'.step = "done" /\ img' = NoImage)
  BY DEF WalkInv, Moves, Before
<1>5. img'.kind \in {kind, "none"} /\ rd'.step \notin {"w_data", "w_nlen"}
  BY DEF WalkInv, Moves, Before, NoImage
<1> QED BY <1>1, <1>2, <1>3, <1>4, <1>5 DEF WalkInv

LEMMA DetectMoves ==
  ASSUME WalkInv, NEW kind, At(kind, "detect")
  PROVE  /\ NotMatched => Moves(kind)
         /\ \A blank : Matched(blank) /\ "kind" \in DOMAIN blank /\ blank.kind = kind => Moves(kind)
<1>1. NotMatched => Moves(kind)
  <2>1. Len(Pollers) = 9
    BY DEF Pollers
  <2> QED BY <2>1 DEF WalkInv, At, Moves, Before, NotMatched
<1>2. ASSUME NEW blank, Matched(blank), "kind" \in DOMAIN blank, blank.kind = kind PROVE Moves(kind)
  BY <1>2 DEF WalkInv, At, Moves, Before, Matched
<1> QED BY <1>1, <1>2

\* the reader stays with its entry and has matched
Stays == DOMAIN rd' = DOMAIN rd /\ rd'.p = rd.p /\ rd'.step \notin Before

LEMMA Stay ==
  ASSUME WalkInv
  PROVE  /\ \A st : st \notin Before => (Goto(st) => Stays)
         /\ \A st, i : st \notin Before => (Loop(st, i) => Stays)
         /\ \A st : st \notin Before => (ReadOk(st) => Stays)
         /\ \A e : ReadFails(e) => Stays
<1>1. "done" \notin Before
  BY DEF Before
<1> QED BY <1>1, Zenon DEF WalkInv, Stays, Goto, Loop, ReadOk, ReadFails

LEMMA ReadMoves ==
  ASSUME WalkInv, NEW kind, Pollers[rd.p] = kind, rd.step \notin Before \cup {"done"},
         "kind" \in DOMAIN img', img'.kind = img.kind, Stays
  PROVE  Moves(kind)
BY DEF WalkInv, Moves, Stays

LEMMA ClassicWalk ==
  ASSUME WalkInv, ClassicNext
  PROVE  WalkInv' /\ Kept({"classic"})
<1>1. PICK op, a, b : \E o \in Exchange(ClAnswer(op, a, b)) : After(o)
  BY Zenon DEF ClassicNext, ClassicDetect, ClassicType, ClassicNt, ClassicAuth, ClassicBlock
<1>2. card.kind # "classic" => ClAnswer(op, a, b).s = card.s
  BY DEF ClAnswer, Silent, Answer
<1>3. ASSUME ClassicDetect PROVE Moves("classic")
  BY <1>3, DetectMoves DEF ClassicDetect, ClBlank
<1>4. ClNextSector => Stays
  BY Stay DEF ClNextSector, Before
<1>5. ASSUME NEW ty, ClassicType(ty, "read", "probe1k") \/ ClassicType(ty, "probe1k", "nt") PROVE Moves("classic")
  <2>1. Pollers[rd.p] = "classic" /\ rd.step \notin Before \cup {"done"}
    BY <1>5 DEF ClassicType, At, Before
  <2>2. "kind" \in DOMAIN img' /\ img'.kind = img.kind
    BY <1>5, Zenon DEF ClassicType, WalkInv
  <2>3. Stays
    BY <1>5, Stay DEF ClassicType, Before
  <2> QED BY <2>1, <2>2, <2>3, ReadMoves
<1>6. ASSUME ClassicNt PROVE Moves("classic")
  <2>1. Pollers[rd.p] = "classic" /\ rd.step \notin Before \cup {"done"}
    BY <1>6 DEF ClassicNt, At, Before
  <2>2. "kind" \in DOMAIN img' /\ img'.kind = img.kind
    BY <1>6, Zenon DEF ClassicNt, WalkInv
  <2>3. Stays
    BY <1>6, Stay, <1>4 DEF ClassicNt, Before
  <2> QED BY <2>1, <2>2, <2>3, ReadMoves
<1>7. ASSUME ClassicAuth PROVE Moves("classic")
  <2>1. Pollers[rd.p] = "classic" /\ rd.step \notin Before \cup {"done"}
    BY <1>7 DEF ClassicAuth, At, Before
  <2>2. "kind" \in DOMAIN img' /\ img'.kind = img.kind
    BY <1>7, Zenon DEF ClassicAuth, WalkInv
  <2>3. Stays
    BY <1>7, Stay, <1>4, Zenon DEF ClassicAuth, Stays, WalkInv, Before
  <2> QED BY <2>1, <2>2, <2>3, ReadMoves
<1>8. ASSUME ClassicBlock PROVE Moves("classic")
  <2>1. Pollers[rd.p] = "classic" /\ rd.step \notin Before \cup {"done"}
    BY <1>8 DEF ClassicBlock, At, Before
  <2>2. "kind" \in DOMAIN img' /\ img'.kind = img.kind
    BY <1>8, Zenon DEF ClassicBlock, WalkInv
  <2>3. Stays
    BY <1>8, Stay, <1>4 DEF ClassicBlock, Stays, WalkInv, At, Before
  <2> QED BY <2>1, <2>2, <2>3, ReadMoves
<1> QED BY <1>1, <1>2, <1>3, <1>5, <1>6, <1>7, <1>8, Walking DEF Kept, ClassicNext

LEMMA FelicaWalk ==
  ASSUME WalkInv, FelicaNext
  PROVE  WalkInv' /\ Kept({"felica"})
<1>1. PICK op, a, b : \E o \in Exchange(FeAnswer(op, a, b)) : After(o)
  BY Zenon DEF FelicaNext, FelicaDetect, FelicaPoll, FelicaBlock
<1>2. card.kind # "felica" => FeAnswer(op, a, b).s = card.s
  BY DEF FeAnswer, Silent, Answer
<1>3. ASSUME FelicaDetect PROVE Moves("felica")
  BY <1>3, DetectMoves DEF FelicaDetect, FeBlank
<1>4. ASSUME FelicaPoll PROVE Moves("felica")
  <2>1. Pollers[rd.p] = "felica" /\ rd.step \notin Before \cup {"done"}
    BY <1>4 DEF FelicaPoll, At, Before
  <2>2. "kind" \in DOMAIN img' /\ img'.kind = img.kind
    BY <1>4, Zenon DEF FelicaPoll, WalkInv
  <2>3. Stays
    BY <1>4, Stay DEF FelicaPoll, Before
  <2> QED BY <2>1, <2>2, <2>3, ReadMoves
<1>5. ASSUME FelicaBlock PROVE Moves("felica")
  <2>1. Pollers[rd.p] = "felica" /\ rd.step \notin Before \cup {"done"}
    BY <1>5 DEF FelicaBlock, At, Before
  <2>2. "kind" \in DOMAIN img' /\ img'.kind = img.kind
    BY <1>5, Zenon DEF FelicaBlock, FeTake, WalkInv
  <2>3. Stays
    BY <1>5, Stay DEF FelicaBlock, Before
  <2> QED BY <2>1, <2>2, <2>3, ReadMoves
<1> QED BY <1>1, <1>2, <1>3, <1>4, <1>5, Walking DEF Kept, FelicaNext

LEMMA UltralightWalk ==
  ASSUME WalkInv, UltralightNext
  PROVE  WalkInv' /\ Kept({"ultralight"})
<1>1. PICK op, a : \E o \in Exchange(UlAnswer(op, a)) : After(o)
  BY Zenon DEF UltralightNext, UltralightDetect, UltralightVersion, UltralightCProbe, UltralightProbe41,
         UltralightCAuth, UltralightCCont, UltralightPwd, UltralightPwdDefault, UltralightPage, UltralightSig,
         UltralightCounter, UltralightTearing, UlSays
<1>2. card.kind # "ultralight" => UlAnswer(op, a).s = card.s
  BY DEF UlAnswer, Silent, Answer
<1>3. ASSUME UltralightDetect PROVE Moves("ultralight")
  BY <1>3, DetectMoves DEF UltralightDetect, UlBlank
<1>4. \A im : UlPagesDone(im) => Stays
  BY Stay DEF UlPagesDone, Before
<1>5. \A im, i, auth, why : rd' = UlBefore(im, i, auth, why) => Stays
  <2>1. \A i, auth, w : rd' = [rd EXCEPT !.step = "pwd", !.i = i, !.flag = auth, !.word = w] => Stays
    BY DEF Stays, WalkInv, Before
  <2>2. \A i, auth : rd' = [rd EXCEPT !.step = "page", !.i = i, !.flag = auth] => Stays
    BY DEF Stays, WalkInv, Before
  <2> QED BY <2>1, <2>2, Zenon DEF UlBefore
<1>6. \A ok : UlTried(ok) => Stays
  <2>1. rd' = [rd EXCEPT !.step = "page", !.flag = TRUE] => Stays
    BY DEF Stays, WalkInv, Before
  <2> QED BY <1>4, <1>5, <2>1 DEF UlTried
<1>7. \A ty, ver : UlIdentified(ty, ver) => Stays /\ "kind" \in DOMAIN img' /\ img'.kind = img.kind
  BY DEF UlIdentified, Stays, WalkInv, Before
<1>8. ASSUME UltralightVersion PROVE Moves("ultralight")
  <2>1. Pollers[rd.p] = "ultralight" /\ rd.step \notin Before \cup {"done"}
    BY <1>8 DEF UltralightVersion, At, Before
  <2>2. "kind" \in DOMAIN img' /\ img'.kind = img.kind
    BY <1>8, <1>7 DEF UltralightVersion, WalkInv
  <2>3. Stays
    BY <1>8, Stay, <1>7 DEF UltralightVersion, Before
  <2> QED BY <2>1, <2>2, <2>3, ReadMoves
<1>9. ASSUME UltralightCProbe PROVE Moves("ultralight")
  <2>1. Pollers[rd.p] = "ultralight" /\ rd.step \notin Before \cup {"done"}
    BY <1>9 DEF UltralightCProbe, At, Before
  <2>2. "kind" \in DOMAIN img' /\ img'.kind = img.kind
    BY <1>9, <1>7 DEF UltralightCProbe, WalkInv
  <2>3. Stays
    BY <1>9, Stay, <1>7 DEF UltralightCProbe, Before
  <2> QED BY <2>1, <2>2, <2>3, ReadMoves
<1>10. ASSUME UltralightProbe41 PROVE Moves("ultralight")
  <2>1. Pollers[rd.p] = "ultralight" /\ rd.step \notin Before \cup {"done"}
    BY <1>10 DEF UltralightProbe41, At, Before
  <2>2. "kind" \in DOMAIN img' /\ img'.kind = img.kind
    BY <1>10, <1>7 DEF UltralightProbe41, WalkInv
  <2>3. Stays
    BY <1>10, Stay, <1>7 DEF UltralightProbe41, Before
  <2> QED BY <2>1, <2>2, <2>3, ReadMoves
<1>11. ASSUME UltralightCAuth PROVE Moves("ultralight")
  <2>1. Pollers[rd.p] = "ultralight" /\ rd.step \notin Before \cup {"done"}
    BY <1>11 DEF UltralightCAuth, At, Before
  <2>2. "kind" \in DOMAIN img' /\ img'.kind = img.kind
    BY <1>11, Zenon DEF UltralightCAuth, WalkInv
  <2>3. Stays
    BY <1>11, Stay DEF UltralightCAuth, Before
  <2> QED BY <2>1, <2>2, <2>3, ReadMoves
<1>12. ASSUME UltralightCCont PROVE Moves("ultralight")
  <2>1. Pollers[rd.p] = "ultralight" /\ rd.step \notin Before \cup {"done"}
    BY <1>12 DEF UltralightCCont, At, Before
  <2>2. "kind" \in DOMAIN img' /\ img'.kind = img.kind
    BY <1>12, Zenon DEF UltralightCCont, WalkInv
  <2>3. Stays
    BY <1>12, Stay DEF UltralightCCont, Before
  <2> QED BY <2>1, <2>2, <2>3, ReadMoves
<1>13. ASSUME UltralightPwd PROVE Moves("ultralight")
  <2>1. Pollers[rd.p] = "ultralight" /\ rd.step \notin Before \cup {"done"}
    BY <1>13 DEF UltralightPwd, At, Before
  <2>2. "kind" \in DOMAIN img' /\ img'.kind = img.kind
    BY <1>13, Zenon DEF UltralightPwd, WalkInv
  <2>3. Stays
    BY <1>13, Stay, <1>6 DEF UltralightPwd, Before
  <2> QED BY <2>1, <2>2, <2>3, ReadMoves
<1>14. ASSUME UltralightPwdDefault PROVE Moves("ultralight")
  <2>1. Pollers[rd.p] = "ultralight" /\ rd.step \notin Before \cup {"done"}
    BY <1>14 DEF UltralightPwdDefault, At, Before
  <2>2. "kind" \in DOMAIN img' /\ img'.kind = img.kind
    BY <1>14, Zenon DEF UltralightPwdDefault, WalkInv
  <2>3. Stays
    BY <1>14, Stay, <1>6 DEF UltralightPwdDefault, Before
  <2> QED BY <2>1, <2>2, <2>3, ReadMoves
<1>15. ASSUME UltralightPage PROVE Moves("ultralight")
  <2>1. Pollers[rd.p] = "ultralight" /\ rd.step \notin Before \cup {"done"}
    BY <1>15 DEF UltralightPage, At, Before
  <2>2. "kind" \in DOMAIN img' /\ img'.kind = img.kind
    BY <1>15, Zenon DEF UltralightPage, UlCopy, WalkInv
  <2>3. Stays
    <3>1. rd' = [rd EXCEPT !.step = "pwd", !.word = "retry"] => Stays
      BY DEF Stays, WalkInv, Before
    <3> QED BY <1>15, <1>4, <1>5, <3>1 DEF UltralightPage
  <2> QED BY <2>1, <2>2, <2>3, ReadMoves
<1>16. ASSUME UltralightSig PROVE Moves("ultralight")
  <2>1. Pollers[rd.p] = "ultralight" /\ rd.step \notin Before \cup {"done"}
    BY <1>16 DEF UltralightSig, At, Before
  <2>2. "kind" \in DOMAIN img' /\ img'.kind = img.kind
    BY <1>16, Zenon DEF UltralightSig, WalkInv
  <2>3. Stays
    BY <1>16, Stay DEF UltralightSig, Before
  <2> QED BY <2>1, <2>2, <2>3, ReadMoves
<1>17. ASSUME UltralightCounter PROVE Moves("ultralight")
  <2>1. Pollers[rd.p] = "ultralight" /\ rd.step \notin Before \cup {"done"}
    BY <1>17 DEF UltralightCounter, At, Before
  <2>2. "kind" \in DOMAIN img' /\ img'.kind = img.kind
    BY <1>17, Zenon DEF UltralightCounter, WalkInv
  <2>3. Stays
    BY <1>17, Stay DEF UltralightCounter, Before
  <2> QED BY <2>1, <2>2, <2>3, ReadMoves
<1>18. ASSUME UltralightTearing PROVE Moves("ultralight")
  <2>1. Pollers[rd.p] = "ultralight" /\ rd.step \notin Before \cup {"done"}
    BY <1>18 DEF UltralightTearing, At, Before
  <2>2. "kind" \in DOMAIN img' /\ img'.kind = img.kind
    BY <1>18, Zenon DEF UltralightTearing, WalkInv
  <2>3. Stays
    BY <1>18, Stay DEF UltralightTearing, Before
  <2> QED BY <2>1, <2>2, <2>3, ReadMoves
<1> QED BY <1>1, <1>2, <1>3, <1>8, <1>9, <1>10, <1>11, <1>12, <1>13, <1>14, <1>15, <1>16, <1>17, <1>18, Walking
       DEF Kept, UltralightNext

LEMMA IsoWalk ==
  ASSUME WalkInv, IsoNext
  PROVE  WalkInv' /\ Kept({"iso15693_3", "slix"})
<1>1. PICK c : \E o \in Exchange(IsoAnswer(c)) : After(o)
  BY Zenon DEF IsoNext, IsoDetect, IsoInventory, IsoSysinfo, IsoBlock, IsoSecurity, SlixNxp, SlixSignature,
         SlixGetRandom, SlixSetPassword
<1>2. card.kind \notin {"iso15693_3", "slix"} => IsoAnswer(c).s = card.s
  BY DEF IsoAnswer, Silent, Answer
<1>3. ASSUME IsoDetect PROVE Moves(Pollers[rd.p])
  <2>1. At(Pollers[rd.p], "detect")
    BY <1>3 DEF IsoDetect, AtIso, At
  <2> QED BY <1>3, <2>1, DetectMoves DEF IsoDetect, IsoBlank
<1>4. IsoRead => Stays
  BY Stay DEF IsoRead, Before
<1>5. ASSUME IsoInventory PROVE Moves(Pollers[rd.p])
  <2>1. rd.step \notin Before \cup {"done"}
    BY <1>5 DEF IsoInventory, AtIso, At, Before
  <2>2. "kind" \in DOMAIN img' /\ img'.kind = img.kind
    BY <1>5, Zenon DEF IsoInventory, WalkInv
  <2>3. Stays
    BY <1>5, Stay DEF IsoInventory, Before
  <2> QED BY <2>1, <2>2, <2>3, ReadMoves
<1>6. ASSUME IsoSysinfo PROVE Moves(Pollers[rd.p])
  <2>1. rd.step \notin Before \cup {"done"}
    BY <1>6 DEF IsoSysinfo, AtIso, At, Before
  <2>2. "kind" \in DOMAIN img' /\ img'.kind = img.kind
    BY <1>6, Zenon DEF IsoSysinfo, WalkInv
  <2>3. Stays
    BY <1>6, Stay, <1>4 DEF IsoSysinfo, Before
  <2> QED BY <2>1, <2>2, <2>3, ReadMoves
<1>7. ASSUME IsoBlock PROVE Moves(Pollers[rd.p])
  <2>1. rd.step \notin Before \cup {"done"}
    BY <1>7 DEF IsoBlock, AtIso, At, Before
  <2>2. "kind" \in DOMAIN img' /\ img'.kind = img.kind
    BY <1>7, Zenon DEF IsoBlock, WalkInv
  <2>3. Stays
    BY <1>7, Stay DEF IsoBlock, Before
  <2> QED BY <2>1, <2>2, <2>3, ReadMoves
<1>8. ASSUME IsoSecurity PROVE Moves(Pollers[rd.p])
  <2>1. rd.step \notin Before \cup {"done"}
    BY <1>8 DEF IsoSecurity, AtIso, At, Before
  <2>2. "kind" \in DOMAIN img' /\ img'.kind = img.kind
    BY <1>8, Zenon DEF IsoSecurity, WalkInv
  <2>3. Stays
    BY <1>8, Stay, <1>4 DEF IsoSecurity, Before
  <2> QED BY <2>1, <2>2, <2>3, ReadMoves
<1>9. ASSUME SlixNxp PROVE Moves(Pollers[rd.p])
  <2>1. rd.step \notin Before \cup {"done"}
    BY <1>9 DEF SlixNxp, At, Before
  <2>2. "kind" \in DOMAIN img' /\ img'.kind = img.kind
    BY <1>9, Zenon DEF SlixNxp, WalkInv
  <2>3. Stays
    BY <1>9, Stay DEF SlixNxp, Before
  <2> QED BY <2>1, <2>2, <2>3, ReadMoves
<1>10. ASSUME SlixSignature PROVE Moves(Pollers[rd.p])
  <2>1. rd.step \notin Before \cup {"done"}
    BY <1>10 DEF SlixSignature, At, Before
  <2>2. "kind" \in DOMAIN img' /\ img'.kind = img.kind
    BY <1>10, Zenon DEF SlixSignature, WalkInv
  <2>3. Stays
    BY <1>10, Stay, Zenon DEF SlixSignature, Before
  <2> QED BY <2>1, <2>2, <2>3, ReadMoves
<1>11. ASSUME IsoDetect \/ IsoInventory \/ IsoSysinfo \/ IsoBlock \/ IsoSecurity \/ SlixNxp \/ SlixSignature
       PROVE  Pollers[rd.p] \in {"iso15693_3", "slix"}
  BY <1>11, Zenon DEF IsoDetect, IsoInventory, IsoSysinfo, IsoBlock, IsoSecurity, SlixNxp, SlixSignature, AtIso, At
<1>12. ASSUME SlixGetRandom \/ \E pwd : SlixSetPassword(pwd)
       PROVE  /\ DOMAIN rd' = DOMAIN rd /\ rd'.p = rd.p /\ img' = img
              /\ rd.step \in Before /\ rd'.step \in Before \ {"w_data", "w_nlen"}
  BY <1>12, Zenon DEF SlixGetRandom, SlixSetPassword, WalkInv, Before, Goto
<1>13. ASSUME SlixGetRandom \/ \E pwd : SlixSetPassword(pwd)
       PROVE  Moves(Pollers[rd.p]) /\ img'.kind = "none"
  BY <1>12, <1>13 DEF Moves, WalkInv, NoImage
<1>14. PICK o \in Exchange(IsoAnswer(c)) : After(o)
  BY <1>1
<1>15. Moves(Pollers[rd.p]) => /\ WalkInv' /\ card'.kind = card.kind /\ card'.m = card.m
         /\ (IsoAnswer(c).s = card.s => card'.s = card.s) /\ img'.kind \in {Pollers[rd.p], "none"}
         /\ rd'.step \notin {"w_data", "w_nlen"}
  BY <1>14, Walking
<1> QED BY <1>2, <1>3, <1>5, <1>6, <1>7, <1>8, <1>9, <1>10, <1>11, <1>13, <1>15 DEF Kept, IsoNext

-----------------------------------------------------------------------------
(* MIFARE Classic: the session is open for the sectors of the default key   *)
(* only, and every block of the image was read in one.                      *)

ClSession(m, s) == DOMAIN s = {"pend", "auth", "blk"} /\ (s.auth => m.key[ClSectorOf(s.blk)] = "default")

ClReadBlock(m, b, d) == d = b + 1 /\ b < ClTotal(m.type) /\ m.key[ClSectorOf(b)] = "default"

ClImage(m, im) ==
    /\ DOMAIN im = {"kind", "type", "uid", "data", "keyA", "keyB"}
    /\ \A b \in DOMAIN im.data : im.data[b] # 0 => ClReadBlock(m, b, im.data[b])

ClInv ==
    /\ card.kind = "classic" => ClSession(card.m, card.s)
    /\ img.kind = "classic" => card.kind = "classic" /\ ClImage(card.m, img)

\* classic_listener_on_tag_cmd, for a reader that has the default key only.
LEMMA ClassicListener ==
  ASSUME NEW m, NEW s, ClSession(m, s), NEW op, NEW a, NEW b, op = "cl_nr_ar" => a = "default"
  PROVE  LET ans == ClassicOn(m, s, [op |-> op, a |-> a, b |-> b])
         IN  /\ ClSession(m, ans.s)
             /\ op = "cl_read" /\ ans.rx.k # "none" => ClReadBlock(m, a, ans.rx.data)
BY DEF ClassicOn, ClSession, ClReadBlock, ClReadable, ClAuthOk, ClIdle, Answer, Silent

LEMMA ClassicExchange ==
  ASSUME WalkInv, ClInv, NEW op, NEW a, NEW b, op = "cl_nr_ar" => a = "default",
         NEW o \in Exchange(ClAnswer(op, a, b)), After(o)
  PROVE  /\ card'.kind = card.kind /\ card'.m = card.m
         /\ card'.kind = "classic" => ClSession(card'.m, card'.s)
         /\ o.ret = "ok" => card.kind = "classic" /\ (op = "cl_read" => ClReadBlock(card.m, a, o.rx.data))
<1>1. card'.kind = card.kind /\ card'.m = card.m /\ card'.s = o.s
  BY DEF After, WalkInv
<1>2. CASE card.kind # "classic"
  BY <1>1, <1>2, Outcome DEF ClAnswer, Silent, Answer
<1>3. CASE card.kind = "classic"
  <2>1. ClAnswer(op, a, b) = ClassicOn(card.m, card.s, [op |-> op, a |-> a, b |-> b]) /\ ClSession(card.m, card.s)
    BY <1>3 DEF ClAnswer, ClInv
  <2> QED BY <1>1, <1>3, <2>1, Outcome, ClassicListener
<1> QED BY <1>2, <1>3

LEMMA ClassicKeeps ==
  ASSUME WalkInv, ClInv, ClassicNext
  PROVE  ClInv'
<1>1. ASSUME ClassicDetect PROVE ClInv'
  <2>1. PICK o \in Exchange(ClAnswer("cl_auth", 0, 0)) :
            After(o) /\ IF o.ret = "ok" THEN Matched(ClBlank(card.m)) ELSE NotMatched
    BY <1>1 DEF ClassicDetect
  <2>2. img = NoImage
    BY <1>1 DEF ClassicDetect, At, WalkInv, Before
  <2>3. ClImage(card.m, ClBlank(card.m))
    BY DEF ClImage, ClBlank
  <2> QED BY <2>1, <2>2, <2>3, ClassicExchange DEF ClInv, Matched, NotMatched, NoImage
<1>2. ASSUME NEW ty, NEW step, NEW next, ClassicType(ty, step, next), step \in {"read", "probe1k"} PROVE ClInv'
  <2>1. PICK o \in Exchange(ClAnswer("cl_auth", ClProbe(ty), 0)) :
            After(o) /\ (img' = img \/ \E x : img' = [img EXCEPT !.type = x])
    BY <1>2, Zenon DEF ClassicType
  <2>2. ASSUME ClImage(card.m, img) PROVE ClImage(card.m, img') /\ img'.kind = img.kind
    BY <2>1, <2>2 DEF ClImage
  <2>3. img.kind = "classic"
    BY <1>2 DEF ClassicType, At, WalkInv, Before
  <2> QED BY <2>1, <2>2, <2>3, ClassicExchange DEF ClInv
<1>3. ASSUME ClassicNt PROVE ClInv'
  <2>1. PICK o \in Exchange(ClAnswer("cl_auth", ClFirst(rd.i), 0)) : After(o) /\ img' = img
    BY <1>3, Zenon DEF ClassicNt
  <2> QED BY <2>1, ClassicExchange DEF ClInv
<1>4. ASSUME ClassicAuth PROVE ClInv'
  <2>1. PICK o \in Exchange(ClAnswer("cl_nr_ar", "default", img.uid)) :
            After(o) /\ (img' = img \/ img' = [img EXCEPT !.keyA = @ \cup {rd.i}])
    BY <1>4, Zenon DEF ClassicAuth
  <2>2. ASSUME ClImage(card.m, img) PROVE ClImage(card.m, img') /\ img'.kind = img.kind
    BY <2>1, <2>2 DEF ClImage
  <2>3. img.kind = "classic"
    BY <1>4 DEF ClassicAuth, At, WalkInv, Before
  <2> QED BY <2>1, <2>2, <2>3, ClassicExchange DEF ClInv
<1>5. ASSUME ClassicBlock PROVE ClInv'
  <2>1. PICK o \in Exchange(ClAnswer("cl_read", rd.word, 0)) :
            /\ After(o)
            /\ \/ img' = img
               \/ o.ret = "ok" /\ \E u, k : img' = [img EXCEPT !.data[rd.word] = o.rx.data, !.uid = u, !.keyB = k]
    BY <1>5, Zenon DEF ClassicBlock
  <2>2. o.ret = "ok" => ClReadBlock(card.m, rd.word, o.rx.data)
    BY <2>1, ClassicExchange, Zenon
  <2>3. ASSUME ClImage(card.m, img) PROVE ClImage(card.m, img') /\ img'.kind = img.kind
    BY <2>1, <2>2, <2>3, ZenonT(60) DEF ClImage
  <2>4. img.kind = "classic"
    BY <1>5 DEF ClassicBlock, At, WalkInv, Before
  <2> QED BY <2>1, <2>3, <2>4, ClassicExchange, Zenon DEF ClInv
<1> QED BY <1>1, <1>2, <1>3, <1>4, <1>5 DEF ClassicNext

-----------------------------------------------------------------------------
(* ISO 15693-3 and SLIX: every block of the image is blank or the card's,   *)
(* and a SLIX card that has given its uid is out of privacy mode.           *)

IsoImage(m, im) ==
    /\ DOMAIN im = {"kind", "uid", "info", "count", "data", "sec", "nxp", "sig", "hidden"}
    /\ im.uid \in {"none", m.uid} /\ im.count \in {0, m.count}
    /\ DOMAIN im.data = 1..im.count /\ DOMAIN im.sec = 1..im.count
    /\ \A b \in 1..im.count : im.data[b] \in {0, b} /\ im.sec[b] \in {0, m.sec[b]}

IsoInv ==
    /\ card.kind = "slix" => DOMAIN card.s = {"privacy", "random"}
    /\ img.kind \in {"iso15693_3", "slix"} =>
           /\ card.kind \in {"iso15693_3", "slix"} /\ IsoImage(card.m, img)
           /\ rd.step \in {"blocks", "security"} => rd.i \in Nat
    /\ img.kind = "slix" => card.kind = "slix" /\ (img.uid # "none" => ~card.s.privacy)

\* what an answer says of the model
IsoSaid(m, op, a, b, rx) ==
    /\ op = "iso_inventory" => rx.uid = m.uid
    /\ op = "iso_sysinfo" => rx.count = CountOnWire(m.count) /\ rx.info = m.info
    /\ op = "iso_read" /\ rx.k = "block" => rx.data = a + 1 /\ a < m.count
    /\ op = "iso_security" /\ rx.k = "sec" =>
           IsoSecurityRange(m, a, b) /\ rx.sec = [i \in 1..(b - a + 1) |-> m.sec[a + i]]

\* iso15693_3_listener_on_tag_cmd and slix_listener_on_tag_cmd: what an answer says.
LEMMA IsoListener ==
  ASSUME card.kind \in {"iso15693_3", "slix"}, card.kind = "slix" => DOMAIN card.s = {"privacy", "random"},
         NEW op, NEW a, NEW b, NEW ans, ans = IsoAnswer([op |-> op, a |-> a, b |-> b])
  PROVE  /\ card.kind = "slix" => DOMAIN ans.s = {"privacy", "random"} /\ (~card.s.privacy => ~ans.s.privacy)
         /\ op = "iso_inventory" => ans.s = card.s
         /\ ans.rx.k # "none" =>
                /\ op = "iso_inventory" /\ card.kind = "slix" => ~card.s.privacy
                /\ IsoSaid(card.m, op, a, b, ans.rx)
<1>1. CASE card.kind = "iso15693_3"
  BY <1>1 DEF IsoAnswer, IsoOn, IsoError, IsoSaid, Answer, Silent
<1>2. CASE card.kind = "slix"
  <2>1. ans = SlixOn(card.m, card.s, [op |-> op, a |-> a, b |-> b])
    BY <1>2 DEF IsoAnswer
  <2> QED BY <1>2, <2>1 DEF SlixOn, IsoOn, IsoError, IsoSaid, Answer, Silent
<1> QED BY <1>1, <1>2

LEMMA IsoExchange ==
  ASSUME WalkInv, IsoInv, NEW op, NEW a, NEW b, NEW o \in Exchange(IsoAnswer([op |-> op, a |-> a, b |-> b])), After(o)
  PROVE  /\ card'.kind = card.kind /\ card'.m = card.m
         /\ card.kind = "slix" =>
                DOMAIN card'.s = {"privacy", "random"} /\ (~card.s.privacy => ~card'.s.privacy)
         /\ o.ret = "ok" =>
                /\ card.kind \in {"iso15693_3", "slix"}
                /\ op = "iso_inventory" /\ card.kind = "slix" => ~card'.s.privacy
                /\ IsoSaid(card.m, op, a, b, o.rx)
<1>1. card'.kind = card.kind /\ card'.m = card.m /\ card'.s = o.s
  BY DEF After, WalkInv
<1>2. CASE card.kind \notin {"iso15693_3", "slix"}
  BY <1>1, <1>2, Outcome DEF IsoAnswer, Silent, Answer
<1>3. CASE card.kind \in {"iso15693_3", "slix"}
  <2>1. card.kind = "slix" => DOMAIN card.s = {"privacy", "random"}
    BY DEF IsoInv
  <2>2. PICK ans : ans = IsoAnswer([op |-> op, a |-> a, b |-> b])
    OBVIOUS
  <2>3. o \in Exchange(ans)
    BY <2>2
  <2> QED BY <1>1, <1>3, <2>1, <2>2, <2>3, Outcome, IsoListener
<1> QED BY <1>2, <1>3

LEMMA IsoCmds ==
  ASSUME NEW op, NEW a, NEW b
  PROVE  /\ [IsoCmd(op) EXCEPT !.a = a] = [op |-> op, a |-> a, b |-> 0]
         /\ [IsoCmd(op) EXCEPT !.a = a, !.b = b] = [op |-> op, a |-> a, b |-> b]
<1>1. [IsoCmd(op) EXCEPT !.a = a] = [op |-> op, a |-> a, b |-> 0]
  BY DEF IsoCmd
<1>2. [[op |-> op, a |-> a, b |-> 0] EXCEPT !.b = b] = [op |-> op, a |-> a, b |-> b]
  OBVIOUS
<1>3. [IsoCmd(op) EXCEPT !.a = a, !.b = b] = [[IsoCmd(op) EXCEPT !.a = a] EXCEPT !.b = b]
  BY Zenon
<1> QED BY <1>1, <1>2, <1>3, Zenon

LEMMA IsoKeeps ==
  ASSUME WalkInv, IsoInv, card.kind \in {"iso15693_3", "slix"} => IsoModelOk(card.kind, card.m), IsoNext
  PROVE  IsoInv'
<1>0. card.kind \in {"iso15693_3", "slix"} =>
          IsoModelOk(card.kind, card.m) /\ card.m.count \in Nat /\ card.m.count < 257
  BY DEF IsoModelOk
<1>1. ASSUME IsoDetect PROVE IsoInv'
  <2>1. PICK o \in Exchange(IsoAnswer([op |-> "iso_inventory", a |-> 0, b |-> 0])) :
            /\ After(o)
            /\ IF o.ret = "ok" /\ (At("slix", "detect") => o.rx.uid \in SlixUids)
               THEN Matched(IsoBlank(Pollers[rd.p])) ELSE NotMatched
    BY <1>1, Zenon DEF IsoDetect, IsoCmd
  <2>2. img = NoImage /\ rd.step = "detect" /\ (At("slix", "detect") <=> Pollers[rd.p] = "slix")
    BY <1>1 DEF IsoDetect, AtIso, At, WalkInv, Before
  <2>3. \A k : IsoImage(card.m, IsoBlank(k)) /\ IsoBlank(k).uid = "none" /\ IsoBlank(k).kind = k
    BY DEF IsoImage, IsoBlank
  <2>4. CASE NotMatched
    BY <2>1, <2>2, <2>4, IsoExchange DEF IsoInv, NotMatched, NoImage
  <2>5. CASE o.ret = "ok" /\ (At("slix", "detect") => o.rx.uid \in SlixUids) /\ Matched(IsoBlank(Pollers[rd.p]))
    <3>1. img' = IsoBlank(Pollers[rd.p]) /\ rd'.step = "read"
      BY <2>5 DEF Matched, WalkInv
    <3>2. card.kind \in {"iso15693_3", "slix"} /\ card'.kind = card.kind /\ card'.m = card.m /\ o.rx.uid = card.m.uid
      <4>1. IsoSaid(card.m, "iso_inventory", 0, 0, o.rx)
        BY <2>1, <2>5, IsoExchange
      <4>2. o.rx.uid = card.m.uid
        BY <4>1 DEF IsoSaid
      <4> QED BY <4>2, <2>1, <2>5, IsoExchange
    <3>3. Pollers[rd.p] = "slix" => card.kind = "slix"
      BY <3>2, <2>2, <2>5, <1>0 DEF IsoModelOk
    <3> QED BY <3>1, <3>2, <3>3, <2>1, <2>3, IsoExchange DEF IsoInv
  <2> QED BY <2>1, <2>4, <2>5
<1>2. ASSUME IsoInventory PROVE IsoInv'
  <2>1. PICK o \in Exchange(IsoAnswer([op |-> "iso_inventory", a |-> 0, b |-> 0])) :
            /\ After(o)
            /\ IF o.ret = "ok" THEN Goto("sysinfo") /\ img' = [img EXCEPT !.uid = o.rx.uid]
               ELSE ReadFails(o.ret) /\ UNCHANGED img
    BY <1>2, Zenon DEF IsoInventory, IsoCmd
  <2>2. img.kind \in {"iso15693_3", "slix"}
    BY <1>2 DEF IsoInventory, AtIso, At, WalkInv, Before
  <2>3. rd'.step \notin {"blocks", "security"}
    BY <2>1, Zenon DEF Goto, ReadFails, WalkInv
  <2>4. IsoImage(card.m, img') /\ img'.kind = img.kind /\ (img'.uid = img.uid \/ o.ret = "ok")
    <3>1. o.ret = "ok" => o.rx.uid = card.m.uid
      <4>1. o.ret = "ok" => IsoSaid(card.m, "iso_inventory", 0, 0, o.rx)
        BY <2>1, IsoExchange
      <4> QED BY <4>1 DEF IsoSaid
    <3> QED BY <2>1, <2>2, <3>1 DEF IsoInv, IsoImage
  <2> QED BY <2>1, <2>2, <2>3, <2>4, IsoExchange DEF IsoInv
<1>3. ASSUME IsoSysinfo PROVE IsoInv'
  <2>1. PICK o \in Exchange(IsoAnswer([op |-> "iso_sysinfo", a |-> 0, b |-> 0])) :
            /\ After(o)
            /\ \/ /\ o.ret = "ok" /\ o.rx.count <= IsoMaxBlk
                  /\ Loop("blocks", 0)
                  /\ img' = [img EXCEPT !.info = o.rx.info, !.count = o.rx.count,
                                        !.data = [i \in 1..o.rx.count |-> 0], !.sec = [i \in 1..o.rx.count |-> 0]]
               \/ ((\E e : ReadFails(e)) \/ (\E st \in {"nxp", "clone"} : ReadOk(st))) /\ UNCHANGED img
    BY <1>3, Zenon DEF IsoSysinfo, IsoCmd, IsoRead
  <2>2. img.kind \in {"iso15693_3", "slix"}
    BY <1>3 DEF IsoSysinfo, AtIso, At, WalkInv, Before
  <2>3. rd'.step \in {"blocks", "security"} => rd'.i \in Nat
    <3>1. Loop("blocks", 0) => rd'.i \in Nat
      BY DEF Loop, WalkInv
    <3>2. (\E e : ReadFails(e)) \/ (\E st \in {"nxp", "clone"} : ReadOk(st)) => rd'.step \in {"done", "nxp", "clone"}
      BY Zenon DEF ReadFails, ReadOk, WalkInv
    <3> QED BY <2>1, <3>1, <3>2
  <2>4. IsoImage(card.m, img') /\ img'.kind = img.kind /\ img'.uid = img.uid
    <3>1. CASE UNCHANGED img
      BY <2>2, <3>1 DEF IsoInv
    <3>2. CASE /\ o.ret = "ok" /\ o.rx.count <= IsoMaxBlk
               /\ img' = [img EXCEPT !.info = o.rx.info, !.count = o.rx.count,
                                     !.data = [i \in 1..o.rx.count |-> 0], !.sec = [i \in 1..o.rx.count |-> 0]]
      <4>1. o.rx.count = CountOnWire(card.m.count)
        <5>1. IsoSaid(card.m, "iso_sysinfo", 0, 0, o.rx)
          BY <2>1, <3>2, IsoExchange
        <5> QED BY <5>1 DEF IsoSaid
      <4>2. o.rx.count = card.m.count
        BY <4>1, <3>2, <2>2, <1>0, IsoAssumption DEF CountOnWire, IsoInv
      <4> QED BY <4>2, <3>2, <2>2 DEF IsoInv, IsoImage
    <3> QED BY <2>1, <3>1, <3>2
  <2> QED BY <2>1, <2>2, <2>3, <2>4, IsoExchange DEF IsoInv
<1>4. ASSUME IsoBlock PROVE IsoInv'
  <2>1. PICK o \in Exchange(IsoAnswer([op |-> "iso_read", a |-> rd.i, b |-> 0])) :
            /\ After(o)
            /\ \/ /\ o.ret = "ok" /\ o.rx.k = "block"
                  /\ img' = [img EXCEPT !.data[rd.i + 1] = o.rx.data]
                  /\ Loop("blocks", rd.i + 1) \/ Loop("security", 0)
               \/ ((\E e : ReadFails(e)) \/ Loop("security", 0)) /\ UNCHANGED img
    BY <1>4, IsoCmds, Zenon DEF IsoBlock
  <2>2. img.kind \in {"iso15693_3", "slix"} /\ rd.i \in Nat
    BY <1>4 DEF IsoBlock, AtIso, At, WalkInv, IsoInv, Before
  <2>3. rd'.step \in {"blocks", "security"} => rd'.i \in Nat
    <3>1. (\E e : ReadFails(e)) => rd'.step = "done"
      BY DEF ReadFails, WalkInv
    <3>2. Loop("blocks", rd.i + 1) => rd'.i \in Nat
      BY <2>2 DEF Loop, WalkInv
    <3>3. Loop("security", 0) => rd'.i \in Nat
      BY DEF Loop, WalkInv
    <3> QED BY <2>1, <3>1, <3>2, <3>3
  <2>4. IsoImage(card.m, img') /\ img'.kind = img.kind /\ img'.uid = img.uid
    <3>1. o.ret = "ok" /\ o.rx.k = "block" => o.rx.data = rd.i + 1
      <4>1. o.ret = "ok" => IsoSaid(card.m, "iso_read", rd.i, 0, o.rx)
        BY <2>1, IsoExchange
      <4> QED BY <4>1 DEF IsoSaid
    <3>2. IsoImage(card.m, img)
      BY <2>2 DEF IsoInv
    <3>3. CASE o.ret = "ok" /\ o.rx.k = "block" /\ img' = [img EXCEPT !.data[rd.i + 1] = o.rx.data]
      <4>1. DOMAIN img' = DOMAIN img /\ img'.kind = img.kind /\ img'.uid = img.uid /\ img'.count = img.count
            /\ img'.sec = img.sec /\ img'.data = [img.data EXCEPT ![rd.i + 1] = rd.i + 1]
        BY <3>1, <3>2, <3>3 DEF IsoImage
      <4> QED BY <3>2, <4>1 DEF IsoImage
    <3> QED BY <2>1, <3>2, <3>3
  <2> QED BY <2>1, <2>2, <2>3, <2>4, IsoExchange DEF IsoInv
<1>5. ASSUME IsoSecurity PROVE IsoInv'
  <2> DEFINE left == img.count - rd.i
             batch == IF left > IsoBatch THEN IsoBatch ELSE left
             last == batch - 1
  <2>1. PICK o \in Exchange(IsoAnswer([op |-> "iso_security", a |-> rd.i, b |-> last])) :
            /\ After(o)
            /\ \/ /\ o.ret = "ok" /\ IsoSecurityOk(o.rx, batch)
                  /\ img' = [img EXCEPT !.sec = [j \in DOMAIN @ |-> IF j \in (rd.i + 1)..(rd.i + batch)
                                                                     THEN o.rx.sec[j - rd.i] ELSE @[j]]]
                  /\ Loop("security", rd.i + IsoBatch) \/ (\E st \in {"nxp", "clone"} : ReadOk(st))
               \/ ((\E e : ReadFails(e)) \/ (\E st \in {"nxp", "clone"} : ReadOk(st))) /\ UNCHANGED img
    BY <1>5, IsoCmds, Zenon DEF IsoSecurity, IsoRead, IsoBatchByte
  <2>2. img.kind \in {"iso15693_3", "slix"} /\ rd.i \in Nat /\ IsoImage(card.m, img)
    BY <1>5 DEF IsoSecurity, AtIso, At, WalkInv, IsoInv, Before
  <2>3. batch \in Int
    BY <1>0, <2>2, IsoAssumption DEF IsoImage, IsoInv
  <2> HIDE DEF batch
  <2>4. rd'.step \in {"blocks", "security"} => rd'.i \in Nat
    <3>1. Loop("security", rd.i + IsoBatch) => rd'.i \in Nat
      BY <2>2, IsoAssumption DEF Loop, WalkInv
    <3>2. (\E e : ReadFails(e)) \/ (\E st \in {"nxp", "clone"} : ReadOk(st)) => rd'.step \in {"done", "nxp", "clone"}
      BY Zenon DEF ReadFails, ReadOk, WalkInv
    <3> QED BY <2>1, <3>1, <3>2
  <2>5. IsoImage(card.m, img') /\ img'.kind = img.kind /\ img'.uid = img.uid
    <3>1. ASSUME o.ret = "ok", IsoSecurityOk(o.rx, batch), NEW j \in (rd.i + 1)..(rd.i + batch)
          PROVE  o.rx.sec[j - rd.i] = card.m.sec[j]
      <4>1. IsoSaid(card.m, "iso_security", rd.i, last, o.rx)
        BY <2>1, <3>1, IsoExchange
      <4>2. IsoSecurityRange(card.m, rd.i, last) /\ o.rx.sec = [i \in 1..(last - rd.i + 1) |-> card.m.sec[rd.i + i]]
        BY <3>1, <4>1 DEF IsoSaid, IsoSecurityOk
      <4>3. last - rd.i + 1 = batch
        BY <2>2, <2>3, <3>1, <4>2 DEF IsoSecurityRange, IsoSecurityOk
      <4> QED BY <2>2, <2>3, <3>1, <4>2, <4>3
    <3>2. CASE /\ o.ret = "ok" /\ IsoSecurityOk(o.rx, batch)
               /\ img' = [img EXCEPT !.sec = [j \in DOMAIN @ |-> IF j \in (rd.i + 1)..(rd.i + batch)
                                                                  THEN o.rx.sec[j - rd.i] ELSE @[j]]]
      <4>1. DOMAIN img' = DOMAIN img /\ img'.kind = img.kind /\ img'.uid = img.uid /\ img'.count = img.count
            /\ img'.data = img.data /\ DOMAIN img'.sec = DOMAIN img.sec
        BY <2>2, <3>2 DEF IsoImage
      <4>2. \A j \in DOMAIN img.sec : img'.sec[j] = IF j \in (rd.i + 1)..(rd.i + batch) THEN card.m.sec[j] ELSE img.sec[j]
        BY <2>2, <3>1, <3>2 DEF IsoImage
      <4> QED BY <2>2, <4>1, <4>2 DEF IsoImage
    <3> QED BY <2>1, <2>2, <3>2
  <2> QED BY <2>1, <2>2, <2>4, <2>5, IsoExchange DEF IsoInv
<1>6. ASSUME SlixNxp \/ SlixSignature PROVE IsoInv'
  <2>1. PICK op : \E o \in Exchange(IsoAnswer([op |-> op, a |-> 0, b |-> 0])) : After(o)
    BY <1>6, Zenon DEF SlixNxp, SlixSignature, IsoCmd
  <2>2. img' = img \/ (\E x : img' = [img EXCEPT !.nxp = x]) \/ (\E x : img' = [img EXCEPT !.sig = x])
    BY <1>6, Zenon DEF SlixNxp, SlixSignature
  <2>3. img.kind = "slix" /\ rd'.step \in {"signature", "clone"}
    BY <1>6, Zenon DEF SlixNxp, SlixSignature, At, Goto, ReadOk, WalkInv, Before
  <2>4. IsoImage(card.m, img') /\ img'.kind = img.kind /\ img'.uid = img.uid
    BY <2>2, <2>3 DEF IsoInv, IsoImage
  <2> QED BY <2>1, <2>3, <2>4, IsoExchange DEF IsoInv
<1>7. ASSUME SlixGetRandom \/ \E pwd : SlixSetPassword(pwd) PROVE IsoInv'
  <2>1. PICK op, a : \E o \in Exchange(IsoAnswer([op |-> op, a |-> a, b |-> 0])) : After(o)
    <3>1. ASSUME SlixGetRandom PROVE \E o \in Exchange(IsoAnswer([op |-> "slix_random", a |-> 0, b |-> 0])) : After(o)
      BY <3>1, Zenon DEF SlixGetRandom, IsoCmd
    <3>2. ASSUME NEW pwd, SlixSetPassword(pwd)
          PROVE  \E o \in Exchange(IsoAnswer([op |-> "slix_password", a |-> Xor(pwd, rd.word), b |-> 0])) : After(o)
      BY <3>2, IsoCmds, Zenon DEF SlixSetPassword
    <3> QED BY <1>7, <3>1, <3>2, Zenon
  <2>2. img' = NoImage
    BY <1>7, Zenon DEF SlixGetRandom, SlixSetPassword, WalkInv, Before
  <2> QED BY <2>1, <2>2, IsoExchange DEF IsoInv, NoImage
<1> QED BY <1>1, <1>2, <1>3, <1>4, <1>5, <1>6, <1>7, Zenon DEF IsoNext

-----------------------------------------------------------------------------
(* MIFARE Ultralight: a session is authenticated with a password the reader *)
(* could know, so a guarded page that was read was open to it.              *)

\* the password is one the reader tries without having it, or is not guarded itself
UlOpen(m) ==
    \/ UlCardConfig(m).pwd \in {DefaultPwd, 0}
    \/ ~NeedsAuth(UlCardConfig(m), PwdPage(UlTotal[m.type]))

UlSession(m, s) == s.auth = "success" => \A p : NeedsAuth(UlCardConfig(m), p) => UlOpen(m)

UlGot(m, p, d) == p \in DOMAIN m.pages /\ d = m.pages[p] /\ (NeedsAuth(UlCardConfig(m), p) => UlOpen(m))

UlImage(m, im) ==
    /\ DOMAIN im = {"kind", "type", "pages", "read", "ver", "sig", "cnt", "tear"}
    /\ HasPassword(im.type) => im.type = m.type
    /\ im.type # "none" => im.type \in DOMAIN UlTotal /\ DOMAIN im.pages = 0..(UlTotal[im.type] - 1)
    /\ \A p \in DOMAIN im.pages : p \in Nat /\ (im.pages[p] # 0 => UlGot(m, p, im.pages[p]))
    /\ im.cnt \in Seq(Nat) /\ \A n \in DOMAIN im.cnt : im.cnt[n] \in {0, m.cnt[n]}

UlInv ==
    /\ card.kind = "ultralight" => UlSession(card.m, card.s)
    /\ img.kind = "ultralight" =>
           /\ card.kind = "ultralight" /\ UlImage(card.m, img)
           /\ rd.step \in {"page", "pwd", "pwd_default", "cnt", "tear"} => rd.i \in Nat

\* what an answer says of the model
UlSaid(m, op, a, rx) ==
    /\ op = "ul_read" /\ rx.k = "pages" => \A j \in 0..3 : rx.pages[j] # 0 => UlGot(m, a + j, rx.pages[j])
    /\ op = "ul_version" => rx.ver = m.ver
    /\ op = "ul_cnt" => a < Len(m.cnt) /\ rx.v = m.cnt[a + 1]

\* ultralight_t2_handle_pwd_auth: a password out of the image, the default one or zeros
\* opens what it may open.
LEMMA UlPassword ==
  ASSUME NEW m, NEW pwd, UlPwdOk(m, pwd), pwd \in {DefaultPwd, 0} \/ ~NeedsAuth(UlCardConfig(m), PwdPage(UlTotal[m.type]))
  PROVE  UlOpen(m)
BY DEF UlPwdOk, UlOpen

\* a type without configuration pages guards nothing
LEMMA UlNoPassword ==
  ASSUME NEW m, ~HasPassword(m.type), NEW p
  PROVE  ~NeedsAuth(UlCardConfig(m), p)
BY Zenon DEF UlCardConfig, UlConfig, NeedsAuth, Protected

LEMMA UlReadSaid ==
  ASSUME NEW m, NEW s, UlModelOk(m), UlSession(m, s), NEW a \in Nat, NEW j \in 0..3,
         UlRead(m, s, a).k = "pages", UlRead(m, s, a).pages[j] # 0
  PROVE  UlGot(m, a + j, UlRead(m, s, a).pages[j])
<1>1. UlReadable(m, s, a) /\ a + j < UlTotal[m.type] /\ UlRead(m, s, a).pages[j] = m.pages[a + j]
  BY DEF UlRead
<1>2. a + j \in DOMAIN m.pages
  <2>1. DOMAIN m.pages = 0..(UlTotal[m.type] - 1) /\ m.type \in DOMAIN UlTotal
    BY DEF UlModelOk
  <2>2. UlTotal[m.type] \in Nat
    BY <2>1 DEF UlTotal
  <2> QED BY <1>1, <2>1, <2>2
<1>3. s.auth = "success" \/ ~NeedsAuth(UlCardConfig(m), a + j)
  BY <1>1 DEF UlReadable
<1> QED BY <1>1, <1>2, <1>3 DEF UlGot, UlSession

\* ultralight_listener_t2_on_tag_cmd
LEMMA UlListener ==
  ASSUME NEW m, NEW s, UlModelOk(m), UlSession(m, s), NEW op, NEW a, op = "ul_read" => a \in Nat,
         op = "ul_pwd" => a \in {DefaultPwd, 0} \/ ~NeedsAuth(UlCardConfig(m), PwdPage(UlTotal[m.type])) \/ UlOpen(m),
         NEW ans, ans = UltralightOn(m, s, [op |-> op, a |-> a])
  PROVE  UlSession(m, ans.s) /\ (ans.rx.k # "none" => UlSaid(m, op, a, ans.rx))
<1>1. CASE op = "ul_read"
  <2>1. ans.s = s /\ ans.rx = UlRead(m, s, a)
    BY <1>1 DEF UltralightOn, Answer
  <2> QED BY <1>1, <2>1, UlReadSaid DEF UlSaid
<1>2. CASE op = "ul_pwd"
  <2>1. UlPwdOk(m, a) => UlOpen(m)
    BY <1>2, UlPassword
  <2>2. ans.s = s \/ UlPwdOk(m, a)
    BY <1>2 DEF UltralightOn, Answer, Silent
  <2> QED BY <1>2, <2>1, <2>2 DEF UlSession, UlSaid
<1>3. CASE op \in {"ul_auth", "ul_cont"}
  <2>1. ans.s = s \/ m.type = "MFUL_C"
    BY <1>3 DEF UltralightOn, Answer, Silent
  <2>2. m.type = "MFUL_C" => UlSession(m, ans.s)
    BY UlNoPassword DEF UlSession, HasPassword
  <2> QED BY <1>3, <2>1, <2>2 DEF UlSaid
<1>4. CASE op \notin {"ul_read", "ul_pwd", "ul_auth", "ul_cont"}
  BY <1>4 DEF UltralightOn, Answer, Silent, UlSaid
<1> QED BY <1>1, <1>2, <1>3, <1>4

LEMMA UlExchange ==
  ASSUME WalkInv, UlInv, card.kind = "ultralight" => UlModelOk(card.m), NEW op, NEW a, op = "ul_read" => a \in Nat,
         op = "ul_pwd" /\ card.kind = "ultralight" =>
             a \in {DefaultPwd, 0} \/ ~NeedsAuth(UlCardConfig(card.m), PwdPage(UlTotal[card.m.type])) \/ UlOpen(card.m),
         NEW o \in Exchange(UlAnswer(op, a)), After(o)
  PROVE  /\ card'.kind = card.kind /\ card'.m = card.m
         /\ card.kind = "ultralight" => UlSession(card'.m, card'.s)
         /\ o.ret = "ok" => card.kind = "ultralight" /\ UlSaid(card.m, op, a, o.rx)
<1>1. card'.kind = card.kind /\ card'.m = card.m /\ card'.s = o.s
  BY DEF After, WalkInv
<1>2. CASE card.kind # "ultralight"
  BY <1>1, <1>2, Outcome DEF UlAnswer, Silent, Answer
<1>3. CASE card.kind = "ultralight"
  <2>1. UlModelOk(card.m) /\ UlSession(card.m, card.s)
    BY <1>3 DEF UlInv
  <2>2. PICK ans : ans = UltralightOn(card.m, card.s, [op |-> op, a |-> a])
    OBVIOUS
  <2>3. o \in Exchange(ans)
    BY <1>3, <2>2 DEF UlAnswer
  <2> QED BY <1>1, <1>3, <2>1, <2>2, <2>3, Outcome, UlListener
<1> QED BY <1>2, <1>3

\* the loop over the pages keeps its page number
LEMMA UlLoop ==
  ASSUME WalkInv
  PROVE  /\ \A im, i, auth, why : i \in Nat /\ rd' = UlBefore(im, i, auth, why) => rd'.i \in Nat
         /\ \A im : UlPagesDone(im) => rd'.step \in {"sig", "clone"}
         /\ \A ok : rd.i \in Nat /\ UlTried(ok) =>
                (rd'.step \in {"page", "pwd", "pwd_default", "cnt", "tear"} => rd'.i \in Nat)
<1>1. \A im, i, auth, why : i \in Nat /\ rd' = UlBefore(im, i, auth, why) => rd'.i \in Nat
  <2>1. \A i, x, y, z : rd' = [rd EXCEPT !.step = x, !.i = i, !.flag = y, !.word = z] => rd'.i = i
    BY DEF WalkInv
  <2>2. \A i, x, y : rd' = [rd EXCEPT !.step = x, !.i = i, !.flag = y] => rd'.i = i
    BY DEF WalkInv
  <2>3. SUFFICES ASSUME NEW im, NEW i \in Nat, NEW auth, NEW why, rd' = UlBefore(im, i, auth, why) PROVE rd'.i \in Nat
    OBVIOUS
  <2>4. \/ rd' = [rd EXCEPT !.step = "pwd", !.i = i, !.flag = auth, !.word = "config"]
        \/ rd' = [rd EXCEPT !.step = "pwd", !.i = i, !.flag = auth, !.word = "needed"]
        \/ rd' = [rd EXCEPT !.step = "page", !.i = i, !.flag = auth]
    BY <2>3, Zenon DEF UlBefore
  <2> QED BY <2>1, <2>2, <2>3, <2>4, Zenon
<1>2. \A im : UlPagesDone(im) => rd'.step \in {"sig", "clone"}
  BY Zenon DEF UlPagesDone, Goto, ReadOk, WalkInv
<1>3. ASSUME NEW ok, rd.i \in Nat, UlTried(ok), rd'.step \in {"page", "pwd", "pwd_default", "cnt", "tear"}
      PROVE  rd'.i \in Nat
  <2>1. rd' = [rd EXCEPT !.step = "page", !.flag = TRUE] => rd'.i = rd.i
    BY DEF WalkInv
  <2> QED BY <1>1, <1>2, <1>3, <2>1 DEF UlTried
<1> QED BY <1>1, <1>2, <1>3

LEMMA UlKeeps ==
  ASSUME WalkInv, UlInv, card.kind = "ultralight" => UlModelOk(card.m), UltralightNext
  PROVE  UlInv'
<1>0. card.kind = "ultralight" => UlModelOk(card.m)
  OBVIOUS
<1>1. ASSUME UltralightDetect PROVE UlInv'
  <2>1. PICK o \in Exchange(UlAnswer("ul_read", 0)) :
            /\ After(o)
            /\ IF o.ret = "ok" /\ o.rx.k = "pages" THEN Matched(UlBlank) ELSE NotMatched
    BY <1>1, Zenon DEF UltralightDetect, UlSays
  <2>2. img = NoImage
    BY <1>1 DEF UltralightDetect, At, WalkInv, Before
  <2>3. UlImage(card.m, UlBlank)
    BY DEF UlImage, UlBlank, HasPassword
  <2>4. card'.kind = card.kind /\ card'.m = card.m /\ (card.kind = "ultralight" => UlSession(card'.m, card'.s))
        /\ (o.ret = "ok" => card.kind = "ultralight")
    BY <2>1, UlExchange
  <2> QED BY <2>1, <2>2, <2>3, <2>4 DEF UlInv, Matched, NotMatched, NoImage, WalkInv
<1>2. \A ty, ver : UlIdentified(ty, ver) /\ img.kind = "ultralight" /\ ty \in DOMAIN UlTotal /\ (HasPassword(ty) => ty = card.m.type) =>
          /\ UlImage(card.m, img') /\ img'.kind = "ultralight" /\ rd'.i = 0
  <2>1. SUFFICES ASSUME NEW ty, NEW ver, UlIdentified(ty, ver), img.kind = "ultralight",
                        ty \in DOMAIN UlTotal, HasPassword(ty) => ty = card.m.type
                 PROVE  UlImage(card.m, img') /\ img'.kind = "ultralight" /\ rd'.i = 0
    OBVIOUS
  <2>2. rd'.i = 0
    BY <2>1 DEF UlIdentified, WalkInv
  <2>3. UlImage(card.m, img)
    BY <2>1 DEF UlInv
  <2>4. \A p \in 0..(UlTotal[ty] - 1) : p \in Nat
    OBVIOUS
  <2>5. ty # "none"
    BY <2>1 DEF UlTotal
  <2>6. /\ DOMAIN img' = DOMAIN img /\ img'.kind = img.kind /\ img'.type = ty /\ img'.cnt = img.cnt
        /\ img'.pages = [p \in 0..(UlTotal[ty] - 1) |-> 0]
    BY <2>1, <2>3 DEF UlIdentified, UlImage
  <2> QED BY <2>1, <2>2, <2>3, <2>4, <2>5, <2>6 DEF UlImage
<1>3. ASSUME UltralightVersion PROVE UlInv'
  <2>1. PICK o \in Exchange(UlAnswer("ul_version", 0)) :
            /\ After(o)
            /\ \/ o.ret = "ok" /\ o.rx.ver \in DOMAIN UlTotal /\ UlIdentified(o.rx.ver, o.rx.ver)
               \/ Goto("c_probe") /\ \E v : img' = [img EXCEPT !.ver = v]
    BY <1>3, Zenon DEF UltralightVersion, UlSays
  <2>2. img.kind = "ultralight"
    BY <1>3 DEF UltralightVersion, At, WalkInv, Before
  <2>3. card.kind = "ultralight" /\ UlModelOk(card.m) /\ UlImage(card.m, img)
    BY <1>0, <2>2 DEF UlInv
  <2>4. card'.kind = card.kind /\ card'.m = card.m /\ UlSession(card'.m, card'.s)
        /\ (o.ret = "ok" => UlSaid(card.m, "ul_version", 0, o.rx))
    BY <2>1, <2>3, UlExchange
  <2>5. CASE o.ret = "ok" /\ o.rx.ver \in DOMAIN UlTotal /\ UlIdentified(o.rx.ver, o.rx.ver)
    <3>1. o.rx.ver = card.m.type
      BY <2>3, <2>4, <2>5 DEF UlSaid, UlModelOk
    <3>2. UlImage(card.m, img') /\ img'.kind = "ultralight" /\ rd'.i = 0
      BY <1>2, <2>2, <2>5, <3>1
    <3> QED BY <2>3, <2>4, <3>2 DEF UlInv
  <2>6. CASE Goto("c_probe") /\ \E v : img' = [img EXCEPT !.ver = v]
    <3>1. UlImage(card.m, img') /\ img'.kind = "ultralight"
      BY <2>2, <2>3, <2>6 DEF UlImage
    <3> QED BY <2>3, <2>4, <2>6, <3>1 DEF UlInv, Goto, WalkInv
  <2> QED BY <2>1, <2>5, <2>6
<1>4. ASSUME UltralightCProbe \/ UltralightProbe41 PROVE UlInv'
  <2>1. PICK op, a : \E o \in Exchange(UlAnswer(op, a)) : After(o) /\ op \in {"ul_auth", "ul_read"} /\ a \in {0, UlProbe}
    BY <1>4, Zenon DEF UltralightCProbe, UltralightProbe41, UlSays
  <2>2. (\E ty \in {"MFUL_C", "NTAG203", "ORIGIN"} : UlIdentified(ty, img.ver)) \/ (Goto("probe41") /\ img' = img)
    BY <1>4, Zenon DEF UltralightCProbe, UltralightProbe41
  <2>3. img.kind = "ultralight"
    BY <1>4 DEF UltralightCProbe, UltralightProbe41, At, WalkInv, Before
  <2>4. card.kind = "ultralight" /\ UlImage(card.m, img)
    BY <2>3 DEF UlInv
  <2>5. card'.kind = card.kind /\ card'.m = card.m /\ UlSession(card'.m, card'.s)
    <3>1. UlProbe \in Nat
      BY DEF UlProbe, UlTotal
    <3> QED BY <2>1, <2>4, <3>1, UlExchange
  <2>6. CASE \E ty \in {"MFUL_C", "NTAG203", "ORIGIN"} : UlIdentified(ty, img.ver)
    <3>1. UlImage(card.m, img') /\ img'.kind = "ultralight" /\ rd'.i = 0
      BY <1>2, <2>3, <2>6 DEF HasPassword, UlTotal
    <3> QED BY <2>4, <2>5, <3>1 DEF UlInv
  <2>7. CASE Goto("probe41") /\ img' = img
    BY <2>3, <2>4, <2>5, <2>7 DEF UlInv, Goto, WalkInv
  <2> QED BY <2>2, <2>6, <2>7
<1>5. ASSUME UltralightCAuth \/ UltralightCCont PROVE UlInv'
  <2>1. PICK op : \E o \in Exchange(UlAnswer(op, 0)) : After(o) /\ op \in {"ul_auth", "ul_cont"}
    BY <1>5, Zenon DEF UltralightCAuth, UltralightCCont, UlSays
  <2>2. img' = img /\ (Goto("cont") \/ Loop("page", 0))
    BY <1>5, Zenon DEF UltralightCAuth, UltralightCCont
  <2>3. img.kind = "ultralight"
    BY <1>5 DEF UltralightCAuth, UltralightCCont, At, WalkInv, Before
  <2>4. rd'.step = "cont" \/ rd'.i = 0
    BY <2>2, Zenon DEF Goto, Loop, WalkInv
  <2>5. card'.kind = card.kind /\ card'.m = card.m /\ (card.kind = "ultralight" => UlSession(card'.m, card'.s))
    BY <2>1, UlExchange
  <2> QED BY <2>2, <2>3, <2>4, <2>5 DEF UlInv
<1>6. ASSUME UltralightPwd \/ UltralightPwdDefault PROVE UlInv'
  <2>1. img.kind = "ultralight" /\ rd.i \in Nat
    BY <1>6 DEF UltralightPwd, UltralightPwdDefault, At, WalkInv, UlInv, Before
  <2>2. card.kind = "ultralight" /\ UlModelOk(card.m) /\ UlImage(card.m, img)
    BY <1>0, <2>1 DEF UlInv
  <2>3. PICK pwd \in {DefaultPwd, UlKnown(img).pwd} : \E o \in Exchange(UlAnswer("ul_pwd", pwd)) : After(o)
    BY <1>6, Zenon DEF UltralightPwd, UltralightPwdDefault, UlSays
  <2>4. pwd \in {DefaultPwd, 0} \/ ~NeedsAuth(UlCardConfig(card.m), PwdPage(UlTotal[card.m.type])) \/ UlOpen(card.m)
    <3>1. CASE pwd # DefaultPwd /\ HasPassword(img.type)
      <4>1. img.type = card.m.type /\ UlTotal[img.type] \in Nat /\ UlTotal[img.type] > 20
        BY <2>2, <3>1 DEF UlImage, HasPassword, UlTotal
      <4> DEFINE page == PwdPage(UlTotal[img.type])
      <4>2. page \in Nat
        BY <4>1 DEF PwdPage
      <4>3. pwd \in {0, img.pages[page] % 100}
        BY <2>3, <3>1 DEF UlKnown, UlConfig
      <4>4. CASE img.pages[page] = 0
        BY <4>3, <4>4
      <4>5. CASE img.pages[page] # 0
        <5>1. page \in DOMAIN img.pages
          BY <2>2, <3>1, <4>1 DEF UlImage, HasPassword, PwdPage
        <5>2. UlGot(card.m, page, img.pages[page])
          BY <2>2, <4>5, <5>1 DEF UlImage
        <5> QED BY <4>1, <5>2 DEF UlGot
      <4> QED BY <4>4, <4>5
    <3>2. CASE ~HasPassword(img.type)
      BY <2>3, <3>2 DEF UlKnown, UlConfig
    <3> QED BY <3>1, <3>2
  <2>5. card'.kind = card.kind /\ card'.m = card.m /\ UlSession(card'.m, card'.s)
    BY <2>2, <2>3, <2>4, UlExchange
  <2>6. img' = img /\ (Goto("pwd_default") \/ \E ok : UlTried(ok))
    BY <1>6, Zenon DEF UltralightPwd, UltralightPwdDefault
  <2>7. rd'.step \in {"page", "pwd", "pwd_default", "cnt", "tear"} => rd'.i \in Nat
    <3>1. Goto("pwd_default") => rd'.i = rd.i
      BY DEF Goto, WalkInv
    <3> QED BY <2>1, <2>6, <3>1, UlLoop
  <2> QED BY <2>1, <2>2, <2>5, <2>6, <2>7 DEF UlInv
<1>7. ASSUME UltralightPage PROVE UlInv'
  <2>1. img.kind = "ultralight" /\ rd.i \in Nat
    BY <1>7 DEF UltralightPage, At, WalkInv, UlInv, Before
  <2>2. card.kind = "ultralight" /\ UlModelOk(card.m) /\ UlImage(card.m, img)
    BY <1>0, <2>1 DEF UlInv
  <2>3. PICK o \in Exchange(UlAnswer("ul_read", rd.i)) :
            /\ After(o)
            /\ \/ /\ o.ret = "ok" /\ o.rx.k = "pages" /\ img' = UlCopy(img, rd.i, o.rx.pages)
                  /\ (\E auth : rd' = UlBefore(img', rd.i + 4, auth, "config")) \/ UlPagesDone(img')
               \/ /\ UNCHANGED img
                  /\ rd' = [rd EXCEPT !.step = "pwd", !.word = "retry"] \/ UlPagesDone(img)
    BY <1>7, Zenon DEF UltralightPage, UlSays
  <2>4. card'.kind = card.kind /\ card'.m = card.m /\ UlSession(card'.m, card'.s)
        /\ (o.ret = "ok" => UlSaid(card.m, "ul_read", rd.i, o.rx))
    BY <2>1, <2>2, <2>3, UlExchange
  <2>5. rd'.step \in {"page", "pwd", "pwd_default", "cnt", "tear"} => rd'.i \in Nat
    <3>1. rd' = [rd EXCEPT !.step = "pwd", !.word = "retry"] => rd'.i = rd.i
      BY DEF WalkInv
    <3>2. rd.i + 4 \in Nat
      BY <2>1
    <3> QED BY <2>1, <2>3, <3>1, <3>2, UlLoop
  <2>6. CASE UNCHANGED img
    BY <2>1, <2>2, <2>4, <2>5, <2>6 DEF UlInv
  <2>7. CASE o.ret = "ok" /\ o.rx.k = "pages" /\ img' = UlCopy(img, rd.i, o.rx.pages)
    <3>1. /\ DOMAIN img' = DOMAIN img /\ img'.kind = img.kind /\ img'.type = img.type /\ img'.cnt = img.cnt
          /\ img'.pages = [p \in DOMAIN img.pages |->
                              IF p \in rd.i..(rd.i + 3) THEN o.rx.pages[p - rd.i] ELSE img.pages[p]]
      BY <2>2, <2>7 DEF UlCopy, UlImage
    <3>2. ASSUME NEW p \in DOMAIN img.pages, p \in rd.i..(rd.i + 3), o.rx.pages[p - rd.i] # 0
          PROVE  UlGot(card.m, p, o.rx.pages[p - rd.i])
      <4>1. p - rd.i \in 0..3 /\ rd.i + (p - rd.i) = p
        BY <2>1, <3>2
      <4> QED BY <2>4, <2>7, <3>2, <4>1 DEF UlSaid
    <3>3. UlImage(card.m, img')
      BY <2>2, <3>1, <3>2 DEF UlImage
    <3> QED BY <2>1, <2>2, <2>4, <2>5, <3>1, <3>3 DEF UlInv
  <2> QED BY <2>3, <2>6, <2>7
<1>8. ASSUME UltralightSig \/ UltralightTearing PROVE UlInv'
  <2>1. img.kind = "ultralight"
    BY <1>8 DEF UltralightSig, UltralightTearing, At, WalkInv, Before
  <2>2. card.kind = "ultralight" /\ UlImage(card.m, img)
    BY <2>1 DEF UlInv
  <2>3. PICK op, a : \E o \in Exchange(UlAnswer(op, a)) : After(o) /\ op \in {"ul_sig", "ul_tear"}
    BY <1>8, Zenon DEF UltralightSig, UltralightTearing, UlSays
  <2>4. card'.kind = card.kind /\ card'.m = card.m /\ UlSession(card'.m, card'.s)
    BY <2>2, <2>3, UlExchange
  <2>5. img' = img \/ (\E x : img' = [img EXCEPT !.sig = x]) \/ (\E x : img' = [img EXCEPT !.tear = x])
    BY <1>8, Zenon DEF UltralightSig, UltralightTearing
  <2>6. UlImage(card.m, img') /\ img'.kind = "ultralight"
    BY <2>1, <2>2, <2>5 DEF UlImage
  <2>7. rd'.step \in {"page", "pwd", "pwd_default", "cnt", "tear"} => rd'.i \in Nat
    <3>1. Loop("cnt", 0) \/ (rd.step = "tear" /\ Loop("tear", rd.i + 1)) \/ ReadOk("clone")
      BY <1>8, Zenon DEF UltralightSig, UltralightTearing, At
    <3>2. rd.step = "tear" => rd.i \in Nat
      BY <2>1 DEF UlInv
    <3>3. (Loop("cnt", 0) => rd'.i = 0) /\ (Loop("tear", rd.i + 1) => rd'.i = rd.i + 1)
          /\ (ReadOk("clone") => rd'.step = "clone")
      BY Zenon DEF Loop, ReadOk, WalkInv
    <3> QED BY <3>1, <3>2, <3>3
  <2> QED BY <2>1, <2>2, <2>4, <2>6, <2>7 DEF UlInv
<1>9. ASSUME UltralightCounter PROVE UlInv'
  <2>1. img.kind = "ultralight" /\ rd.i \in Nat
    BY <1>9 DEF UltralightCounter, At, WalkInv, UlInv, Before
  <2>2. card.kind = "ultralight" /\ UlModelOk(card.m) /\ UlImage(card.m, img)
    BY <1>0, <2>1 DEF UlInv
  <2>3. PICK o \in Exchange(UlAnswer("ul_cnt", rd.i)) :
            /\ After(o)
            /\ img' = IF o.ret = "ok" THEN [img EXCEPT !.cnt = UlPut(@, rd.i + 1, o.rx.v)] ELSE img
            /\ Loop("cnt", rd.i + 1) \/ Loop("tear", 0)
    BY <1>9, Zenon DEF UltralightCounter, UlSays
  <2>4. card'.kind = card.kind /\ card'.m = card.m /\ UlSession(card'.m, card'.s)
        /\ (o.ret = "ok" => UlSaid(card.m, "ul_cnt", rd.i, o.rx))
    BY <2>2, <2>3, UlExchange
  <2>5. rd'.i \in Nat
    <3>1. (Loop("cnt", rd.i + 1) => rd'.i = rd.i + 1) /\ (Loop("tear", 0) => rd'.i = 0)
      BY Zenon DEF Loop, WalkInv
    <3> QED BY <2>1, <2>3, <3>1
  <2>6. UlImage(card.m, img') /\ img'.kind = "ultralight"
    <3>1. CASE o.ret = "ok"
      <4>1. rd.i < Len(card.m.cnt) /\ o.rx.v = card.m.cnt[rd.i + 1] /\ card.m.cnt \in Seq(Nat)
        BY <2>2, <2>4, <3>1 DEF UlSaid, UlModelOk
      <4> DEFINE new == UlPut(img.cnt, rd.i + 1, o.rx.v)
      <4>2. new \in Seq(Nat) /\ \A n \in DOMAIN new : new[n] \in {0, card.m.cnt[n]}
        <5>1. o.rx.v \in Nat /\ rd.i + 1 \in Nat
          BY <2>1, <4>1
        <5>2. DOMAIN new = 1..(rd.i + 1)
          BY DEF UlPut
        <5>3. \A n \in 1..(rd.i + 1) : new[n] \in Nat /\ new[n] \in {0, card.m.cnt[n]}
          <6>1. img.cnt \in Seq(Nat) /\ \A n \in DOMAIN img.cnt : img.cnt[n] \in {0, card.m.cnt[n]}
            BY <2>2 DEF UlImage
          <6>2. \A n \in 1..Len(img.cnt) : img.cnt[n] \in Nat /\ img.cnt[n] \in {0, card.m.cnt[n]}
            BY <6>1
          <6>3. \A n \in 1..(rd.i + 1) :
                    new[n] = IF n = rd.i + 1 THEN o.rx.v ELSE IF n <= Len(img.cnt) THEN img.cnt[n] ELSE 0
            BY DEF UlPut
          <6>4. Len(img.cnt) \in Nat
            BY <6>1
          <6> HIDE DEF new
          <6> QED BY <4>1, <5>1, <6>2, <6>3, <6>4
        <5>4. new \in [1..(rd.i + 1) -> Nat]
          BY <5>3, Zenon DEF UlPut
        <5> QED BY <5>1, <5>2, <5>3, <5>4
      <4>3. DOMAIN img' = DOMAIN img /\ img'.kind = img.kind /\ img'.type = img.type /\ img'.pages = img.pages
            /\ img'.cnt = new
        BY <2>2, <2>3, <3>1 DEF UlImage
      <4> HIDE DEF new
      <4> QED BY <2>1, <2>2, <4>2, <4>3 DEF UlImage
    <3>2. CASE o.ret # "ok"
      BY <2>1, <2>2, <2>3, <3>2
    <3> QED BY <3>1, <3>2
  <2> QED BY <2>1, <2>2, <2>4, <2>5, <2>6 DEF UlInv
<1> QED BY <1>1, <1>3, <1>4, <1>5, <1>6, <1>7, <1>8, <1>9, Zenon DEF UltralightNext

-----------------------------------------------------------------------------
(* FeliCa: the poller's wire numbers have gaps, and the block it reads with  *)
(* the n-th of them is the n-th of the dump.                                 *)

\* The wire number of each dump index, in closed form.
FeWireAt(n) == IF n <= 14 THEN n ELSE IF n <= 23 THEN n + 113 ELSE IF n <= 26 THEN n + 120 ELSE 160

LEMMA FeWires == FeWire = [n \in 0..27 |-> FeWireAt(n)]
<1> DEFINE Steps(wire) == wire = [n \in 0..27 |-> IF n = 0 THEN 0 ELSE FeNextBlock(wire[n - 1])]
           W == [n \in 0..27 |-> FeWireAt(n)]
           F == CHOOSE wire : Steps(wire)
<1>1. \A n \in 1..27 : FeNextBlock(FeWireAt(n - 1)) = FeWireAt(n)
  BY DEF FeNextBlock, FeWireAt, FeReg, FeRc, FeMc, FeWcnt, FeState, FeCrcCheck
<1>2. FeWireAt(0) = 0
  BY DEF FeWireAt
<1>3. Steps(W)
  BY <1>1, <1>2
<1>4. Steps(F)
  <2> HIDE DEF Steps
  <2> QED BY <1>3
<1>5. F[0] = 0 /\ \A n \in 1..27 : F[n] = FeNextBlock(F[n - 1])
  <2> HIDE DEF F
  <2>1. F = [n \in 0..27 |-> IF n = 0 THEN 0 ELSE FeNextBlock(F[n - 1])]
    BY <1>4
  <2>2. \A n \in 0..27 : F[n] = IF n = 0 THEN 0 ELSE FeNextBlock(F[n - 1])
    BY <2>1
  <2> QED BY <2>2
<1>6. FeWire = [n \in 0..27 |-> F[n]]
  BY DEF FeWire, FeTotal
<1> DEFINE Right(n) == F[n] = FeWireAt(n)
<1>7. Right(0) /\ \A n \in 1..27 : Right(n - 1) => Right(n)
  <2> HIDE DEF F, W, Steps
  <2> QED BY <1>1, <1>2, <1>5
<1> HIDE DEF Right
<1>8. Right(0) /\ Right(1) /\ Right(2) /\ Right(3) /\ Right(4) /\ Right(5) /\ Right(6) /\ Right(7)
  BY <1>7
<1>9. Right(8) /\ Right(9) /\ Right(10) /\ Right(11) /\ Right(12) /\ Right(13) /\ Right(14)
  BY <1>7, <1>8
<1>10. Right(15) /\ Right(16) /\ Right(17) /\ Right(18) /\ Right(19) /\ Right(20) /\ Right(21)
  BY <1>7, <1>9
<1>11. Right(22) /\ Right(23) /\ Right(24) /\ Right(25) /\ Right(26) /\ Right(27)
  BY <1>7, <1>10
<1>12. \A n \in 0..27 : Right(n)
  BY <1>8, <1>9, <1>10, <1>11
<1>13. \A n \in 0..27 : F[n] = FeWireAt(n)
  <2> HIDE DEF F
  <2> QED BY <1>12 DEF Right
<1> HIDE DEF F
<1> QED BY <1>6, <1>13

LEMMA FeDump ==
  ASSUME NEW n \in 0..27
  PROVE  /\ FeWire[n] = FeWireAt(n) /\ FeDumpIndex(FeWire[n]) = n /\ FeExists(FeWire[n])
         /\ n < 27 => FeNextBlock(FeWire[n]) = FeWire[n + 1]
<1>1. DOMAIN FeWire = 0..27 /\ \A k \in 0..27 : FeWire[k] = FeWireAt(k)
  BY FeWires
<1>2. \A k, j \in 0..27 : FeWireAt(k) = FeWireAt(j) => k = j
  BY DEF FeWireAt
<1>3. FeDumpIndex(FeWire[n]) = n
  BY <1>1, <1>2 DEF FeDumpIndex
<1>4. FeExists(FeWire[n])
  BY <1>1 DEF FeExists, FeWireAt, FeReg, FeRc, FeMc, FeWcnt, FeState, FeCrcCheck
<1>5. n < 27 => FeNextBlock(FeWireAt(n)) = FeWireAt(n + 1)
  BY DEF FeNextBlock, FeWireAt, FeReg, FeRc, FeMc, FeWcnt, FeState, FeCrcCheck
<1> QED BY <1>1, <1>3, <1>4, <1>5

\* what the n-th block of the image is, and what a block can be
FeOwn(m, n) == [k |-> "block", sf1 |-> 0, data |-> IF FeWire[n - 1] = FeRc THEN 0 ELSE FeContent(m, n - 1)]
FeBlocks == [k : {"block"}, sf1 : {0}, data : Nat]

FeInv ==
    img.kind = "felica" =>
        /\ card.kind = "felica" /\ DOMAIN img = {"kind", "idm", "pmm", "read", "blocks"}
        /\ img.blocks \in Seq(FeBlocks) /\ img.read = Len(img.blocks)
        /\ \A n \in DOMAIN img.blocks : img.blocks[n] = FeOwn(card.m, n)
        /\ rd.step = "read" => img.blocks = <<>>
        /\ rd.step \in {"block", "clone"} => img.idm = card.m.idm /\ img.pmm = card.m.pmm /\ img.pmm = "lite"
        /\ rd.step = "block" => Len(img.blocks) < 28 /\ rd.i = FeWire[Len(img.blocks)]
        /\ rd.step = "clone" => Len(img.blocks) = 28

LEMMA FeExchange ==
  ASSUME WalkInv, NEW op, NEW a, NEW b, NEW o \in Exchange(FeAnswer(op, a, b)), After(o)
  PROVE  /\ card'.kind = card.kind /\ card'.m = card.m
         /\ o.ret = "ok" => /\ card.kind = "felica"
                            /\ op = "fe_poll" => o.rx.idm = card.m.idm /\ o.rx.pmm = card.m.pmm
                            /\ op = "fe_read" => o.rx = FeRead(card.m, b) /\ o.rx.k = "block"
<1>1. card'.kind = card.kind /\ card'.m = card.m
  BY DEF After, WalkInv
<1>2. PICK ans : ans = FeAnswer(op, a, b)
  OBVIOUS
<1>3. o.ret = "ok" => o.rx = ans.rx /\ ans.rx.k # "none"
  BY <1>2, Outcome
<1>4. ans.rx.k # "none" => /\ card.kind = "felica"
                           /\ op = "fe_poll" => ans.rx.idm = card.m.idm /\ ans.rx.pmm = card.m.pmm
                           /\ op = "fe_read" => ans.rx = FeRead(card.m, b)
  BY <1>2 DEF FeAnswer, FelicaOn, Answer, Silent
<1>5. FeRead(card.m, b).k \in {"none", "block"}
  BY DEF FeRead
<1> QED BY <1>1, <1>3, <1>4, <1>5

LEMMA FeKeeps ==
  ASSUME WalkInv, FeInv, card.kind = "felica" => FelicaModelOk(card.m), FelicaNext
  PROVE  FeInv'
<1>1. ASSUME FelicaDetect PROVE FeInv'
  <2>1. PICK o \in Exchange(FeAnswer("fe_poll", "any", 0)) : After(o) /\ IF o.ret = "ok" THEN Matched(FeBlank) ELSE NotMatched
    BY <1>1, Zenon DEF FelicaDetect
  <2>2. img = NoImage
    BY <1>1 DEF FelicaDetect, At, WalkInv, Before
  <2>3. After(o)
    BY <2>1
  <2>4. card'.kind = card.kind /\ card'.m = card.m /\ (o.ret = "ok" => card.kind = "felica")
    BY <2>3, FeExchange
  <2>5. CASE o.ret = "ok"
    <3>1. img' = [kind |-> "felica", idm |-> "none", pmm |-> "none", read |-> 0, blocks |-> <<>>]
      BY <2>1, <2>5, Zenon DEF Matched, FeBlank
    <3>2. rd'.step = "read"
      BY <2>1, <2>5 DEF Matched, WalkInv
    <3> QED BY <2>4, <2>5, <3>1, <3>2 DEF FeInv
  <2>6. CASE o.ret # "ok"
    BY <2>1, <2>2, <2>6 DEF FeInv, NotMatched, NoImage
  <2> QED BY <2>5, <2>6
<1>2. ASSUME FelicaPoll PROVE FeInv'
  <2>1. PICK o \in Exchange(FeAnswer("fe_poll", "any", 0)) :
            /\ After(o)
            /\ \/ (\E e : ReadFails(e)) /\ img' = img
               \/ /\ o.ret = "ok" /\ img' = [img EXCEPT !.idm = o.rx.idm, !.pmm = o.rx.pmm]
                  /\ (\E e : ReadFails(e)) \/ (o.rx.pmm = "lite" /\ Loop("block", 0))
    BY <1>2, Zenon DEF FelicaPoll
  <2>2. img.kind = "felica" /\ rd.step = "read"
    BY <1>2 DEF FelicaPoll, At, WalkInv, Before, Pollers
  <2>3. After(o)
    BY <2>1
  <2>4. card'.kind = card.kind /\ card'.m = card.m /\ (o.ret = "ok" => o.rx.idm = card.m.idm /\ o.rx.pmm = card.m.pmm)
    BY <2>3, FeExchange
  <2>5. (\A e : ReadFails(e) => rd'.step = "done") /\ (Loop("block", 0) => rd'.step = "block" /\ rd'.i = 0)
    BY Zenon DEF ReadFails, Loop, WalkInv
  <2>6. FeWire[0] = 0
    BY FeDump DEF FeWireAt
  <2>7. CASE (\E e : ReadFails(e)) /\ img' = img
    <3>1. rd'.step = "done"
      BY <2>5, <2>7, Zenon
    <3> QED BY <2>2, <2>4, <2>7, <3>1 DEF FeInv
  <2>8. CASE /\ o.ret = "ok" /\ img' = [img EXCEPT !.idm = o.rx.idm, !.pmm = o.rx.pmm]
             /\ (\E e : ReadFails(e)) \/ (o.rx.pmm = "lite" /\ Loop("block", 0))
    <3>1. rd'.step = "done" \/ (rd'.step = "block" /\ rd'.i = 0 /\ o.rx.pmm = "lite")
      BY <2>5, <2>8, Zenon
    <3>2. DOMAIN img = {"kind", "idm", "pmm", "read", "blocks"} /\ img.blocks = <<>> /\ img.read = Len(img.blocks)
      BY <2>2 DEF FeInv
    <3>3. /\ DOMAIN img' = DOMAIN img /\ img'.kind = img.kind /\ img'.blocks = img.blocks /\ img'.read = img.read
          /\ img'.idm = card.m.idm /\ img'.pmm = card.m.pmm
      BY <2>4, <2>8, <3>2
    <3>4. card'.kind = "felica"
      BY <2>2, <2>4 DEF FeInv
    <3>5. /\ img'.blocks \in Seq(FeBlocks) /\ Len(img'.blocks) = 0 /\ img'.read = 0
          /\ img'.blocks = <<>> /\ DOMAIN img'.blocks = {}
      BY <3>2, <3>3
    <3> QED BY <2>4, <2>6, <2>8, <3>1, <3>2, <3>3, <3>4, <3>5 DEF FeInv
  <2> QED BY <2>1, <2>7, <2>8
<1>3. ASSUME FelicaBlock PROVE FeInv'
  <2>1. PICK o \in Exchange(FeAnswer("fe_read", img.idm, rd.i)) :
            /\ After(o)
            /\ \/ (\E e : ReadFails(e)) /\ img' = img
               \/ /\ o.ret = "ok" /\ img' = FeTake(img, o.rx)
                  /\ IF Len(img'.blocks) < FeTotal THEN Loop("block", FeNextBlock(rd.i)) ELSE ReadOk("clone")
    BY <1>3, Zenon DEF FelicaBlock
  <2>2. img.kind = "felica" /\ rd.step = "block"
    BY <1>3 DEF FelicaBlock, At, WalkInv, Before, Pollers
  <2>3. After(o)
    BY <2>1
  <2>4. card'.kind = card.kind /\ card'.m = card.m /\ (o.ret = "ok" => o.rx = FeRead(card.m, rd.i) /\ o.rx.k = "block")
    BY <2>3, FeExchange
  <2>5. (\A e : ReadFails(e) => rd'.step = "done")
    BY DEF ReadFails, WalkInv
  <2>6. CASE (\E e : ReadFails(e)) /\ img' = img
    <3>1. rd'.step = "done"
      BY <2>5, <2>6, Zenon
    <3> QED BY <2>2, <2>4, <2>6, <3>1 DEF FeInv
  <2>7. CASE /\ o.ret = "ok" /\ img' = FeTake(img, o.rx)
             /\ IF Len(img'.blocks) < FeTotal THEN Loop("block", FeNextBlock(rd.i)) ELSE ReadOk("clone")
    <3> DEFINE len == Len(img.blocks)
    <3>1. /\ DOMAIN img = {"kind", "idm", "pmm", "read", "blocks"} /\ img.blocks \in Seq(FeBlocks)
          /\ len \in 0..27 /\ rd.i = FeWire[len] /\ img.read = len /\ card.kind = "felica"
          /\ \A n \in DOMAIN img.blocks : img.blocks[n] = FeOwn(card.m, n)
          /\ img.idm = card.m.idm /\ img.pmm = card.m.pmm /\ img.pmm = "lite"
      <4>1. img.blocks \in Seq(FeBlocks) /\ Len(img.blocks) < 28
        BY <2>2 DEF FeInv
      <4> HIDE DEF len
      <4>2. len \in 0..27
        <5>1. len \in Nat /\ len < 28
          BY <4>1 DEF len
        <5> QED BY <5>1
      <4> USE DEF len
      <4> QED BY <2>2, <4>1, <4>2 DEF FeInv
    <3>2. FeDumpIndex(rd.i) = len /\ (len < 27 => FeNextBlock(rd.i) = FeWire[len + 1])
      BY <3>1, FeDump, Zenon
    <3>3. o.rx = FeOwn(card.m, len + 1)
      BY <2>4, <2>7, <3>1, <3>2 DEF FeRead, FeOwn
    <3>4. FeOwn(card.m, len + 1) \in FeBlocks /\ FeOwn(card.m, len + 1).sf1 = 0
      BY <3>1 DEF FeOwn, FeBlocks, FeContent
    <3>5. /\ DOMAIN img' = DOMAIN img /\ img'.kind = img.kind /\ img'.idm = img.idm /\ img'.pmm = img.pmm
          /\ img'.blocks = Append(img.blocks, FeOwn(card.m, len + 1)) /\ img'.read = len + 1
      BY <2>7, <3>1, <3>3, <3>4 DEF FeTake
    <3>6. /\ img'.blocks \in Seq(FeBlocks) /\ Len(img'.blocks) = len + 1
          /\ \A n \in DOMAIN img'.blocks : img'.blocks[n] = FeOwn(card.m, n)
      BY <3>1, <3>4, <3>5
    <3>7. \/ rd'.step = "block" /\ rd'.i = FeWire[len + 1] /\ len + 1 < 28
          \/ rd'.step = "clone" /\ len + 1 = 28
      <4>1. CASE len + 1 < 28
        <5>1. Loop("block", FeNextBlock(rd.i))
          BY <2>7, <3>6, <4>1 DEF FeTotal
        <5>2. rd'.step = "block" /\ rd'.i = FeNextBlock(rd.i)
          BY <5>1 DEF Loop, WalkInv
        <5> QED BY <3>1, <3>2, <4>1, <5>2
      <4>2. CASE len + 1 = 28
        <5>1. ReadOk("clone")
          BY <2>7, <3>6, <4>2 DEF FeTotal
        <5> QED BY <4>2, <5>1 DEF ReadOk, WalkInv
      <4>3. len + 1 < 28 \/ len + 1 = 28
        <5> HIDE DEF len
        <5> QED BY <3>1
      <4> QED BY <4>1, <4>2, <4>3
    <3> QED BY <2>2, <2>4, <3>1, <3>5, <3>6, <3>7 DEF FeInv
  <2> QED BY <2>1, <2>6, <2>7
<1> QED BY <1>1, <1>2, <1>3 DEF FelicaNext

=============================================================================
