--------------------------- MODULE PollerWalkProofs ---------------------------
(***************************************************************************)
(* Theorems about PollerWalk, for every set of cards that CardsAssumption  *)
(* admits, any number of lost exchanges and any size of batch, image and   *)
(* frame.                                                                  *)
(***************************************************************************)
EXTENDS PollerWalk, PollerTagProofs

\* Most leaves are first-order: Zenon first, the SMT solver for the others.
USE ZenonT(3), SMTT(30)

-----------------------------------------------------------------------------
(* The pollers over ISO-DEP: which card a step leaves alone                 *)

LEMMA DepKeeps ==
  ASSUME NEW kind, card.kind # kind
  PROVE  \A own, c : DepAnswer(kind, own, c).s = card.s
BY DEF DepAnswer, Silent, Refused, Answer

LEMMA AliroWalk ==
  ASSUME WalkInv, AliroNext
  PROVE  WalkInv' /\ Kept({"aliro"})
<1>1. PICK op : \E o \in AlSays(op) : After(o)
  BY Zenon DEF AliroNext, AliroDetect, AliroMandatory, AliroOptional
<1>2. PICK own, c : \E o \in Exchange(DepAnswer("aliro", own, c)) : After(o)
  BY <1>1 DEF AlSays
<1>3. ASSUME AliroDetect PROVE Moves("aliro")
  BY <1>3, DetectMoves DEF AliroDetect, AlBlank
<1>4. ASSUME AliroMandatory("read", "select", "auth0") \/ AliroMandatory("auth0", "al_auth0", "auth1") PROVE Moves("aliro")
  <2>1. Pollers[rd.p] = "aliro" /\ rd.step \notin Before \cup {"done"}
    BY <1>4 DEF AliroMandatory, At, Before
  <2>2. "kind" \in DOMAIN img' /\ img'.kind = img.kind
    BY <1>4, Zenon DEF AliroMandatory, AlAppend, WalkInv
  <2>3. Stays
    BY <1>4, Stay DEF AliroMandatory, Before
  <2> QED BY <2>1, <2>2, <2>3, ReadMoves
<1>5. ASSUME AliroOptional("auth1", "al_auth1", "exchange") \/ AliroOptional("exchange", "al_exchange", "clone") PROVE Moves("aliro")
  <2>1. Pollers[rd.p] = "aliro" /\ rd.step \notin Before \cup {"done"}
    BY <1>5 DEF AliroOptional, At, Before
  <2>2. "kind" \in DOMAIN img' /\ img'.kind = img.kind
    BY <1>5, Zenon DEF AliroOptional, AlAppend, WalkInv
  <2>3. Stays
    BY <1>5, Stay DEF AliroOptional, Before
  <2> QED BY <2>1, <2>2, <2>3, ReadMoves
<1> QED BY <1>2, <1>3, <1>4, <1>5, DepKeeps, Walking DEF Kept, AliroNext

LEMMA EmvWalk ==
  ASSUME WalkInv, EmvNext
  PROVE  WalkInv' /\ Kept({"emv"})
<1>1. PICK op, a : \E o \in EmvSays(op, a) : After(o)
  BY Zenon DEF EmvNext, EmvDetect, EmvOpen, EmvRecords, EmvStep, Step
<1>2. PICK own, c : \E o \in Exchange(DepAnswer("emv", own, c)) : After(o)
  BY <1>1 DEF EmvSays
<1>3. ASSUME EmvDetect PROVE Moves("emv")
  BY <1>3, DetectMoves DEF EmvDetect, EmvStep, Step, NoMatch, EmvBlank
<1>4. ASSUME EmvOpen PROVE Moves("emv")
  <2>1. Pollers[rd.p] = "emv" /\ rd.step \notin Before \cup {"done"}
    BY <1>4, Zenon DEF EmvOpen, EmvStep, Step, At, Before
  <2>2. "kind" \in DOMAIN img' /\ img'.kind = img.kind
    <3>1. \/ img' = img \/ (\E x : img' = [img EXCEPT !.aid = x])
          \/ (\E x, y : img' = [img EXCEPT !.first = x, !.last = y])
      BY <1>4, Zenon DEF EmvOpen, EmvStep, Step, Continue, Fails
    <3> QED BY <3>1, Zenon DEF WalkInv
  <2>3. Stays
    BY <1>4, Stay, Zenon DEF EmvOpen, EmvStep, Step, Continue, Fails, Before
  <2> QED BY <2>1, <2>2, <2>3, ReadMoves
<1>5. ASSUME EmvRecords PROVE Moves("emv")
  <2>1. Pollers[rd.p] = "emv" /\ rd.step \notin Before \cup {"done"}
    BY <1>5 DEF EmvRecords, EmvStep, Step, At, Before
  <2>2. "kind" \in DOMAIN img' /\ img'.kind = img.kind
    BY <1>5, Zenon DEF EmvRecords, EmvStep, Step, Fails, WalkInv
  <2>3. Stays
    BY <1>5, Stay DEF EmvRecords, EmvStep, Step, Fails, Before
  <2> QED BY <2>1, <2>2, <2>3, ReadMoves
<1> QED BY <1>2, <1>3, <1>4, <1>5, DepKeeps, Walking DEF Kept, EmvNext

LEMMA NdefWalk ==
  ASSUME WalkInv, NdefNext
  PROVE  WalkInv' /\ Kept({"ndef"})
<1>1. PICK op, a, b : \E o \in NdefSays(op, a, b) : After(o)
  BY Zenon DEF NdefNext, NdefDetect, NdefSelectApp, NdefCc, NdefSelectFile, NdefNlen, NdefChunks, NdefWriter,
         NdefTries, NdefSelect, NdefStep, Step
<1>2. PICK own, c : \E o \in Exchange(DepAnswer("ndef", own, c)) : After(o)
  BY <1>1 DEF NdefSays
<1>3. ASSUME NdefDetect PROVE Moves("ndef")
  <2>1. rd.step \in Before /\ Pollers[rd.p] = "ndef" /\ (Matched(NdefBlank) \/ Continue("detect_v1") \/ NotMatched)
    BY <1>3, Zenon DEF NdefDetect, NdefTries, NoMatch, Before, At
  <2>2. Matched(NdefBlank) => Moves("ndef")
    BY <2>1 DEF Matched, NdefBlank, Moves, WalkInv, Before
  <2>3. Continue("detect_v1") => Moves("ndef")
    BY <2>1 DEF Continue, Goto, Moves, WalkInv, Before
  <2>4. NotMatched => Moves("ndef")
    <3>1. Len(Pollers) = 9
      BY DEF Pollers
    <3> QED BY <2>1, <3>1 DEF WalkInv, Moves, NotMatched
  <2> QED BY <2>1, <2>2, <2>3, <2>4
<1>4. ASSUME NdefSelectApp PROVE Moves("ndef")
  <2>1. Pollers[rd.p] = "ndef" /\ rd.step \notin Before \cup {"done"}
    BY <1>4 DEF NdefSelectApp, NdefTries, At, Before
  <2>2. "kind" \in DOMAIN img' /\ img'.kind = img.kind
    BY <1>4, Zenon DEF NdefSelectApp, NdefTries, Continue, Fails, WalkInv
  <2>3. Stays
    BY <1>4, Stay DEF NdefSelectApp, NdefTries, Continue, Fails, Before
  <2> QED BY <2>1, <2>2, <2>3, ReadMoves
<1>5. ASSUME NdefCc PROVE Moves("ndef")
  <2>1. Pollers[rd.p] = "ndef" /\ rd.step \notin Before \cup {"done"}
    BY <1>5 DEF NdefCc, NdefStep, Step, At, Before
  <2>2. "kind" \in DOMAIN img' /\ img'.kind = img.kind
    BY <1>5, Zenon DEF NdefCc, NdefStep, Step, Continue, Fails, WalkInv
  <2>3. Stays
    BY <1>5, Stay DEF NdefCc, NdefStep, Step, Continue, Fails, Before
  <2> QED BY <2>1, <2>2, <2>3, ReadMoves
<1>6. ASSUME NdefSelectFile PROVE Moves("ndef")
  <2>1. Pollers[rd.p] = "ndef" /\ rd.step \notin Before \cup {"done"}
    BY <1>6 DEF NdefSelectFile, NdefStep, Step, At, Before
  <2>2. "kind" \in DOMAIN img' /\ img'.kind = img.kind
    BY <1>6, Zenon DEF NdefSelectFile, NdefStep, Step, Continue, Fails, WalkInv
  <2>3. Stays
    BY <1>6, Stay DEF NdefSelectFile, NdefStep, Step, Continue, Fails, Before
  <2> QED BY <2>1, <2>2, <2>3, ReadMoves
<1>7. ASSUME NdefNlen PROVE Moves("ndef")
  <2>1. Pollers[rd.p] = "ndef" /\ rd.step \notin Before \cup {"done"}
    BY <1>7 DEF NdefNlen, NdefStep, Step, At, Before
  <2>2. "kind" \in DOMAIN img' /\ img'.kind = img.kind
    BY <1>7, Zenon DEF NdefNlen, NdefStep, Step, Fails, WalkInv
  <2>3. Stays
    BY <1>7, Stay DEF NdefNlen, NdefStep, Step, Fails, Before
  <2> QED BY <2>1, <2>2, <2>3, ReadMoves
<1>8. ASSUME NdefChunks PROVE Moves("ndef")
  <2>1. Pollers[rd.p] = "ndef" /\ rd.step \notin Before \cup {"done"}
    BY <1>8 DEF NdefChunks, NdefStep, Step, At, Before
  <2>2. "kind" \in DOMAIN img' /\ img'.kind = img.kind
    BY <1>8, Zenon DEF NdefChunks, NdefStep, Step, Fails, WalkInv
  <2>3. Stays
    <3>1. (\E e : ReadFails(e)) \/ (\E i : Loop("chunk", i)) \/ ReadOk("clone")
      BY <1>8, Zenon DEF NdefChunks, NdefStep, Step, Fails
    <3> QED BY <3>1, Stay DEF Before
  <2> QED BY <2>1, <2>2, <2>3, ReadMoves
<1>9. ASSUME NdefWriter PROVE WalkInv' /\ Kept({"ndef"})
  <2>1. DOMAIN rd' = DOMAIN rd /\ rd'.p = rd.p /\ rd.step \in Before /\ rd'.step \in Before /\ img' = img
    BY <1>9 DEF NdefWriter, WalkInv, Before, Goto
  <2>2. DOMAIN card' = {"kind", "m", "s"} /\ lost' \in Nat /\ card'.kind = card.kind /\ card'.m = card.m /\ card.kind = "ndef"
    BY <1>2, <1>9, Card DEF NdefWriter
  <2> QED BY <2>1, <2>2 DEF Kept, WalkInv, NoImage
<1> QED BY <1>2, <1>3, <1>4, <1>5, <1>6, <1>7, <1>8, <1>9, DepKeeps, Walking DEF Kept, NdefNext

LEMMA DesfireWalk ==
  ASSUME WalkInv, DesfireNext
  PROVE  WalkInv' /\ Kept({"desfire"})
<1>1. PICK op, a, b : \E o \in DfSays(op, a, b) : After(o)
  BY Zenon DEF DesfireNext, DesfireDetect, DesfireSelect, DesfireVersion, DesfirePicc, DesfireApps, DesfireApp,
         DesfireFile, DesfireData, DfStep, Step
<1>2. PICK own, c : \E o \in Exchange(DepAnswer("desfire", own, c)) : After(o)
  BY <1>1 DEF DfSays
<1>3. ASSUME DesfireDetect PROVE Moves("desfire")
  <2>1. /\ rd.step \in Before /\ Pollers[rd.p] = "desfire"
        /\ Matched(DfBlank) \/ Continue("detect_key") \/ Continue("detect_version") \/ NotMatched
    BY <1>3, Zenon DEF DesfireDetect, DfStep, Step, NoMatch, Before, At
  <2>2. Matched(DfBlank) => Moves("desfire")
    BY <2>1 DEF Matched, DfBlank, Moves, WalkInv, Before
  <2>3. Continue("detect_key") \/ Continue("detect_version") => Moves("desfire")
    BY <2>1 DEF Continue, Goto, Moves, WalkInv, Before
  <2>4. NotMatched => Moves("desfire")
    <3>1. Len(Pollers) = 9
      BY DEF Pollers
    <3> QED BY <2>1, <3>1 DEF WalkInv, Moves, NotMatched
  <2> QED BY <2>1, <2>2, <2>3, <2>4
<1>4. \A e : DfSkipApp(e) => Stays /\ "kind" \in DOMAIN img' /\ img'.kind = img.kind
  BY Stay DEF DfSkipApp, Before, WalkInv
<1>5. \A im : DfNextFile(im) => Stays /\ img' = im
  BY Stay DEF DfNextFile, Before
<1>6. \A im, f, ok : "kind" \in DOMAIN im => "kind" \in DOMAIN DfPut(im, f, ok) /\ DfPut(im, f, ok).kind = im.kind
  BY DEF DfPut
<1>7. ASSUME DesfireSelect PROVE Moves("desfire")
  <2>1. Pollers[rd.p] = "desfire" /\ rd.step \notin Before \cup {"done"}
    BY <1>7 DEF DesfireSelect, DfStep, Step, At, Before
  <2>2. "kind" \in DOMAIN img' /\ img'.kind = img.kind
    BY <1>7, Zenon DEF DesfireSelect, DfStep, Step, Continue, Fails, WalkInv
  <2>3. Stays
    BY <1>7, Stay, Zenon DEF DesfireSelect, DfStep, Step, Continue, Fails, Before
  <2> QED BY <2>1, <2>2, <2>3, ReadMoves
<1>8. ASSUME DesfireVersion PROVE Moves("desfire")
  <2>1. Pollers[rd.p] = "desfire" /\ rd.step \notin Before \cup {"done"}
    BY <1>8 DEF DesfireVersion, At, Before
  <2>2. "kind" \in DOMAIN img' /\ img'.kind = img.kind
    BY <1>8, Zenon DEF DesfireVersion, Fails, WalkInv
  <2>3. Stays
    BY <1>8, Stay, Zenon DEF DesfireVersion, Fails, Before
  <2> QED BY <2>1, <2>2, <2>3, ReadMoves
<1>9. ASSUME DesfirePicc PROVE Moves("desfire")
  <2>1. Pollers[rd.p] = "desfire" /\ rd.step \notin Before \cup {"done"}
    BY <1>9 DEF DesfirePicc, DfStep, Step, At, Before
  <2>2. "kind" \in DOMAIN img' /\ img'.kind = img.kind
    BY <1>9, Zenon DEF DesfirePicc, DfStep, Step, Continue, Fails, WalkInv
  <2>3. Stays
    BY <1>9, Stay, Zenon DEF DesfirePicc, DfStep, Step, Continue, Fails, Before
  <2> QED BY <2>1, <2>2, <2>3, ReadMoves
<1>10. ASSUME DesfireApps PROVE Moves("desfire")
  <2>1. Pollers[rd.p] = "desfire" /\ rd.step \notin Before \cup {"done"}
    BY <1>10 DEF DesfireApps, DfStep, Step, At, Before
  <2>2. "kind" \in DOMAIN img' /\ img'.kind = img.kind
    BY <1>10, Zenon DEF DesfireApps, DfStep, Step, Continue, Fails, WalkInv
  <2>3. Stays
    <3>1. (\E e : ReadFails(e)) \/ (\E x : rd' = [rd EXCEPT !.step = "app", !.word = x])
      BY <1>10, Zenon DEF DesfireApps, DfStep, Step, Fails
    <3> QED BY <3>1, Stay, Zenon DEF Stays, WalkInv, Before
  <2> QED BY <2>1, <2>2, <2>3, ReadMoves
<1>11. ASSUME DesfireApp PROVE Moves("desfire")
  <2>1. Pollers[rd.p] = "desfire" /\ rd.step \notin Before \cup {"done"}
    BY <1>11, Zenon DEF DesfireApp, DfStep, Step, At, Before
  <2>2. "kind" \in DOMAIN img' /\ img'.kind = img.kind
    BY <1>11, <1>4, Zenon DEF DesfireApp, DfStep, Step, Continue, Fails, WalkInv
  <2>3. Stays
    <3>1. \/ Goto("settings") \/ Goto("files") \/ ReadOk("clone") \/ (\E e : DfSkipApp(e))
          \/ \E w : rd' = [rd EXCEPT !.step = "file", !.i = 1, !.word = w]
      BY <1>11, Zenon DEF DesfireApp, DfStep, Step
    <3>2. (\E w : rd' = [rd EXCEPT !.step = "file", !.i = 1, !.word = w]) => Stays
      BY DEF Stays, WalkInv, Before
    <3> QED BY <3>1, <3>2, Stay, <1>4, Zenon DEF Before
  <2> QED BY <2>1, <2>2, <2>3, ReadMoves
<1>12. ASSUME DesfireFile PROVE Moves("desfire")
  <2>1. Pollers[rd.p] = "desfire" /\ rd.step \notin Before \cup {"done"}
    BY <1>12 DEF DesfireFile, DfStep, Step, At, Before
  <2>2. "kind" \in DOMAIN img' /\ img'.kind = img.kind
    <3>1. img' = img \/ (\E f : img' = DfPut(img, f, TRUE))
      <4>1. (\E im : DfNextFile(im) /\ (im = img \/ \E f : im = DfPut(img, f, TRUE))) \/ (\E f : img' = DfPut(img, f, TRUE))
        BY <1>12, Zenon DEF DesfireFile, DfStep, Step
      <4> QED BY <4>1, <1>5, Zenon
    <3> QED BY <3>1, <1>6, Zenon DEF WalkInv
  <2>3. Stays
    BY <1>12, Stay, <1>5, Zenon DEF DesfireFile, DfStep, Step, Continue, Fails, Before
  <2> QED BY <2>1, <2>2, <2>3, ReadMoves
<1>13. ASSUME DesfireData PROVE Moves("desfire")
  <2>1. Pollers[rd.p] = "desfire" /\ rd.step \notin Before \cup {"done"}
    BY <1>13 DEF DesfireData, DfStep, Step, At, Before
  <2>2. "kind" \in DOMAIN img' /\ img'.kind = img.kind
    <3>1. \E files, f, ok : img' = DfPut([img EXCEPT !.apps[1].files = files], f, ok)
      <4>1. \E files, f, ok : DfNextFile(DfPut([img EXCEPT !.apps[1].files = files], f, ok))
        BY <1>13, Zenon DEF DesfireData, DfStep, Step
      <4>2. PICK files, f, ok : DfNextFile(DfPut([img EXCEPT !.apps[1].files = files], f, ok))
        BY <4>1, Zenon
      <4>3. img' = DfPut([img EXCEPT !.apps[1].files = files], f, ok)
        BY <4>2, <1>5
      <4> QED BY <4>3, Zenon
    <3> QED BY <3>1, <1>6 DEF WalkInv
  <2>3. Stays
    BY <1>13, Stay, <1>5, Zenon DEF DesfireData, DfStep, Step, Continue, Fails, Before
  <2> QED BY <2>1, <2>2, <2>3, ReadMoves
<1> QED BY <1>2, <1>3, <1>7, <1>8, <1>9, <1>10, <1>11, <1>12, <1>13, DepKeeps, Walking DEF Kept, DesfireNext

-----------------------------------------------------------------------------
(* MIFARE DESFire: a file of the image is a file of the one application,    *)
(* free and plain if it has any data, with the length its settings give.    *)

DfRead(m, f) ==
    \E g \in Range(m.apps[1].files) :
        f = [g EXCEPT !.len = g.size] /\ g.size <= g.len /\ g.free /\ (g.size # 0 => g.plain)

\* a file whose settings are read and whose data is not
DfFetched(m, s, f) ==
    /\ s.app = 1 /\ DfHas(m, s, f.id)
    /\ f = [DfFile(m, s, f.id) EXCEPT !.len = 0] /\ f.free /\ f.size # 0

DfFilesRead(m, files, n) == files \in Seq(DfFiles) /\ \A i \in 1..n : DfRead(m, files[i])

DfInv ==
    img.kind = "desfire" =>
        /\ card.kind = "desfire" /\ DOMAIN img = {"kind", "ver", "mem", "free", "apps"}
        /\ rd.step \in {"read", "key", "version", "more", "memory", "master", "apps", "app"} => img.apps = <<>>
        /\ rd.step = "app" => Len(card.m.apps) = 1 /\ rd.word = card.m.apps[1].id
        /\ rd.step \in {"settings", "files", "file", "data"} =>
               Len(card.m.apps) = 1 /\ card.s.app = 1 /\ img.apps # <<>>
        /\ img.apps # <<>> =>
               /\ DOMAIN img.apps = {1} /\ DOMAIN img.apps[1] = {"id", "ks", "files"}
               /\ rd.step # "data" => DfFilesRead(card.m, img.apps[1].files, Len(img.apps[1].files))
               /\ rd.step = "data" => /\ DfFilesRead(card.m, img.apps[1].files, Len(img.apps[1].files) - 1)
                                      /\ Len(img.apps[1].files) > 0
                                      /\ DfFetched(card.m, card.s, img.apps[1].files[Len(img.apps[1].files)])

\* what an accepted answer says of the model and the session
DfSaid(m, s, op, a, b, rx) ==
    /\ op = "df_memory" => rx.mem = m.mem
    /\ op = "df_settings" => IF s.app = 0 THEN rx.free = m.free ELSE rx.ks = DfApp(m, s).ks
    /\ op = "df_apps" => rx.ids = [i \in DOMAIN m.apps |-> m.apps[i].id]
    /\ op = "df_app" => DfIndex(m, a) # 0
    /\ op = "df_files" => s.app # 0 /\ rx.ids = [i \in DOMAIN DfApp(m, s).files |-> DfApp(m, s).files[i].id]
    /\ op = "df_file" => DfHas(m, s, a) /\ rx.f = [DfFile(m, s, a) EXCEPT !.len = 0]
    /\ op \in {"df_data", "df_value", "df_records"} => DfHas(m, s, a) /\ DfServes(DfFile(m, s, a), b) /\ rx.len = b

\* desfire_listener_on_apdu
LEMMA DfListener ==
  ASSUME NEW m, NEW s, NEW op, NEW a, NEW b, NEW ans, ans = DesfireOn(m, s, Cmd(op, a, b))
  PROVE  /\ op \notin {"select", "df_version", "df_more", "df_app"} => ans.s = s
         /\ ans.rx.k = "ok" => /\ DfSaid(m, s, op, a, b, ans.rx)
                               /\ op = "df_app" => ans.s.app = DfIndex(m, a)
<1> DEFINE dir == DfDirectory(m, s, Cmd(op, a, b))
<1>0. op \in {"select", "df_key_version", "df_version", "df_more", "df_app", "df_data", "df_value", "df_records"}
          => dir = Refused(s)
  BY DEF DfDirectory, Cmd
<1>1. CASE op \in {"select", "df_key_version", "df_version", "df_more"}
  <2>1. op \in {"select", "df_version", "df_more", "df_app"} \/ ans = Answer(s, [k |-> "ok"])
    BY <1>1 DEF DesfireOn, Cmd
  <2> QED BY <1>1, <2>1 DEF Answer, DfSaid
<1>2. CASE op = "df_app"
  <2>1. ans = dir \/ (DfIndex(m, a) # 0 /\ ans = Answer([DfIdle EXCEPT !.app = DfIndex(m, a)], [k |-> "ok"]))
    BY <1>2 DEF DesfireOn, Cmd
  <2> HIDE DEF dir
  <2> QED BY <1>0, <1>2, <2>1 DEF Answer, Refused, DfSaid, DfIdle
<1>3. CASE op \in {"df_data", "df_value", "df_records"}
  <2>1. \/ ans = dir
        \/ DfHas(m, s, a) /\ DfServes(DfFile(m, s, a), b) /\ ans = Answer(s, [k |-> "ok", len |-> b])
    BY <1>3 DEF DesfireOn, Cmd
  <2> HIDE DEF dir
  <2> QED BY <1>0, <1>3, <2>1 DEF Answer, Refused, DfSaid
<1>4. CASE op \notin {"select", "df_key_version", "df_version", "df_more", "df_app", "df_data", "df_value", "df_records"}
  <2>1. ans = DfDirectory(m, s, Cmd(op, a, b))
    BY <1>4 DEF DesfireOn, Cmd
  <2> QED BY <1>4, <2>1 DEF DfDirectory, Cmd, Answer, Refused, DfSaid
<1> QED BY <1>1, <1>2, <1>3, <1>4

\* the AIDs of the applications behind the router, none of them shared
LEMMA AidsOf ==
  /\ DOMAIN Aids = {"ndef", "desfire", "emv", "aliro"}
  /\ Aids["ndef"] = {"NDEF_v2"} /\ Aids["desfire"] = {"NDEF_v1"} /\ Aids["emv"] = {"PPSE", "VISA"} /\ Aids["aliro"] = {"ALIRO"}
BY DEF Aids

\* A card that is not of the poller's kind accepts the SELECT of its own AID only.
LEMMA DepOther ==
  ASSUME NEW kind, card.kind # kind, NEW own, NEW op, NEW a, NEW b, NEW ans, ans = DepAnswer(kind, own, Cmd(op, a, b))
  PROVE  /\ ans.s = card.s
         /\ ans.rx.k \in {"none", "sw"} \/ (op = "select" /\ card.kind \in DOMAIN Aids /\ a \in Aids[card.kind])
BY DEF DepAnswer, Silent, Refused, Answer, Cmd

LEMMA DepOwn ==
  ASSUME NEW kind \in {"ndef", "desfire", "emv", "aliro"}, card.kind = kind, NEW own, NEW op, NEW a, NEW b,
         op = "select" => a \in Aids[kind]
  PROVE  DepAnswer(kind, own, Cmd(op, a, b)) = own
<1>1. kind \in DOMAIN Aids
  BY AidsOf
<1> QED BY <1>1 DEF DepAnswer, Cmd

LEMMA DfExchange ==
  ASSUME WalkInv, NEW op, NEW a, NEW b, op = "select" => a = "NDEF_v1", NEW o \in DfSays(op, a, b), After(o)
  PROVE  /\ card'.kind = card.kind /\ card'.m = card.m
         /\ op \notin {"select", "df_version", "df_more", "df_app"} => card'.s = card.s
         /\ o.ret = "ok" /\ o.rx.k # "sw" => card.kind = "desfire"
         /\ Accepted(o) => /\ card.kind = "desfire" /\ DfSaid(card.m, card.s, op, a, b, o.rx)
                           /\ op = "df_app" => card'.s.app = DfIndex(card.m, a)
<1>1. card'.kind = card.kind /\ card'.m = card.m /\ card'.s = o.s
  BY DEF After, WalkInv
<1>2. PICK own : /\ own = IF card.kind = "desfire" THEN DesfireOn(card.m, card.s, Cmd(op, a, b)) ELSE Silent(card.s)
                 /\ o \in Exchange(DepAnswer("desfire", own, Cmd(op, a, b)))
  BY DEF DfSays
<1>3. PICK ans : ans = DepAnswer("desfire", own, Cmd(op, a, b))
  OBVIOUS
<1>4. CASE card.kind # "desfire"
  <2>1. /\ ans.s = card.s
        /\ ans.rx.k \in {"none", "sw"} \/ (op = "select" /\ card.kind \in DOMAIN Aids /\ a \in Aids[card.kind])
    BY <1>3, <1>4, DepOther
  <2>2. ans.rx.k \in {"none", "sw"}
    BY <1>4, <2>1, AidsOf
  <2> QED BY <1>1, <1>2, <1>3, <1>4, <2>1, <2>2, Outcome DEF Accepted
<1>5. CASE card.kind = "desfire"
  <2>1. ans = DesfireOn(card.m, card.s, Cmd(op, a, b))
    <3>1. op = "select" => a \in Aids["desfire"]
      BY AidsOf
    <3> QED BY <1>2, <1>3, <1>5, <3>1, DepOwn
  <2>2. o \in Exchange(ans)
    BY <1>2, <1>3
  <2>3. /\ op \notin {"select", "df_version", "df_more", "df_app"} => ans.s = card.s
        /\ ans.rx.k = "ok" => /\ DfSaid(card.m, card.s, op, a, b, ans.rx)
                              /\ op = "df_app" => ans.s.app = DfIndex(card.m, a)
    BY <2>1, DfListener
  <2> QED BY <1>1, <1>5, <2>2, <2>3, Outcome DEF Accepted
<1> QED BY <1>4, <1>5

\* the files of an image, when one is put behind the first n
LEMMA DfAppended ==
  ASSUME NEW m, NEW files, DfFilesRead(m, files, Len(files)), NEW f \in DfFiles
  PROVE  /\ Append(files, f) \in Seq(DfFiles) /\ Len(Append(files, f)) = Len(files) + 1
         /\ Append(files, f)[Len(files) + 1] = f
         /\ \A i \in 1..Len(files) : DfRead(m, Append(files, f)[i])
         /\ DfRead(m, f) => DfFilesRead(m, Append(files, f), Len(Append(files, f)))
<1>1. files \in Seq(DfFiles) /\ \A i \in 1..Len(files) : DfRead(m, files[i])
  BY DEF DfFilesRead
<1>2. /\ Append(files, f) \in Seq(DfFiles) /\ Len(Append(files, f)) = Len(files) + 1
      /\ Append(files, f)[Len(files) + 1] = f /\ \A i \in 1..Len(files) : Append(files, f)[i] = files[i]
  BY <1>1
<1>3. \A i \in 1..(Len(files) + 1) : i \in 1..Len(files) \/ i = Len(files) + 1
  BY <1>1
<1> QED BY <1>1, <1>2, <1>3 DEF DfFilesRead

LEMMA DfFrontRead ==
  ASSUME NEW m, NEW files, Len(files) > 0, DfFilesRead(m, files, Len(files) - 1)
  PROVE  DfFilesRead(m, SubSeq(files, 1, Len(files) - 1), Len(SubSeq(files, 1, Len(files) - 1)))
<1>1. files \in Seq(DfFiles) /\ \A i \in 1..(Len(files) - 1) : DfRead(m, files[i])
  BY DEF DfFilesRead
<1>2. /\ SubSeq(files, 1, Len(files) - 1) \in Seq(DfFiles)
      /\ Len(SubSeq(files, 1, Len(files) - 1)) = Len(files) - 1
      /\ \A i \in 1..(Len(files) - 1) : SubSeq(files, 1, Len(files) - 1)[i] = files[i]
  <2> DEFINE n == Len(files) - 1
  <2>1. n \in Nat /\ n <= Len(files)
    BY <1>1
  <2>2. \A i \in 1..n : files[i] \in DfFiles
    BY <1>1, <2>1
  <2> HIDE DEF n
  <2>3. SubSeq(files, 1, n) = [i \in 1..n |-> files[i]]
    BY <1>1, <2>1
  <2>4. SubSeq(files, 1, n) \in Seq(DfFiles) /\ Len(SubSeq(files, 1, n)) = n
    BY <2>1, <2>2, <2>3
  <2> QED BY <2>3, <2>4 DEF n
<1> QED BY <1>1, <1>2 DEF DfFilesRead

\* READ_FILE_SETTINGS and then READ_DATA give a file of the card
LEMMA DfFileOf ==
  ASSUME NEW m, NEW s, DesfireModelOk(m), Len(m.apps) = 1, s.app = 1, NEW id, DfHas(m, s, id),
         NEW g, g = DfFile(m, s, id)
  PROVE  /\ g \in DfFiles /\ g \in Range(m.apps[1].files) /\ g.id = id
         /\ [g EXCEPT !.len = 0] \in DfFiles /\ [g EXCEPT !.len = g.size] \in DfFiles
<1>1. m.apps[1].files \in Seq(DfFiles)
  <2>1. m.apps[1] \in DfApps
    BY DEF DesfireModelOk
  <2> QED BY <2>1 DEF DfApps
<1>2. g \in Range(m.apps[1].files) /\ g.id = id
  BY DEF DfHas, DfFile, DfApp
<1>3. Range(m.apps[1].files) \subseteq DfFiles
  BY <1>1 DEF Range
<1> QED BY <1>2, <1>3 DEF DfFiles

LEMMA DfKeeps ==
  ASSUME WalkInv, DfInv, ModelOk(card.kind, card.m), DesfireNext
  PROVE  DfInv'
<1>0. /\ card'.kind = card.kind /\ card'.m = card.m
      /\ card.kind = "desfire" => DesfireModelOk(card.m) /\ card.m.apps \in Seq(DfApps)
  <2>1. PICK op, a, b : \E o \in DfSays(op, a, b) : After(o)
    BY Zenon DEF DesfireNext, DesfireDetect, DesfireSelect, DesfireVersion, DesfirePicc, DesfireApps, DesfireApp,
           DesfireFile, DesfireData, DfStep, Step
  <2> QED BY <2>1 DEF After, WalkInv, ModelOk, DesfireModelOk
\* before the applications are listed
<1>1. ASSUME img.kind = "desfire", img.apps = <<>>, DOMAIN img' = DOMAIN img, img'.kind = img.kind, img'.apps = <<>>,
             rd'.step \in {"key", "version", "more", "memory", "master", "apps", "clone", "done"}
      PROVE  DfInv'
  BY <1>0, <1>1 DEF DfInv
<1>2. ASSUME DesfireDetect PROVE DfInv'
  <2>1. img = NoImage
    BY <1>2, Zenon DEF DesfireDetect, DfStep, Step, At, WalkInv, Before
  <2>2. img' = img \/ \E o \in DfSays("df_version", 0, 0) : After(o) /\ o.ret = "ok" /\ o.rx.k # "sw" /\ Matched(DfBlank)
    BY <1>2, Zenon DEF DesfireDetect, DfStep, Step, Continue, NoMatch, NotMatched
  <2>3. CASE img' = img
    BY <2>1, <2>3 DEF DfInv, NoImage
  <2>4. CASE img' # img
    <3>1. PICK o \in DfSays("df_version", 0, 0) : After(o) /\ o.ret = "ok" /\ o.rx.k # "sw" /\ Matched(DfBlank)
      BY <2>2, <2>4
    <3>2. card.kind = "desfire"
      BY <3>1, DfExchange
    <3>3. rd'.step = "read" /\ img' = DfBlank
      BY <3>1 DEF Matched, WalkInv
    <3> QED BY <1>0, <3>2, <3>3 DEF DfInv, DfBlank
  <2> QED BY <2>3, <2>4
<1>3. ASSUME DesfireSelect \/ DesfireVersion \/ DesfirePicc PROVE DfInv'
  <2>1. Pollers[rd.p] = "desfire" /\ rd.step \in {"read", "key", "version", "more", "memory", "master"}
    BY <1>3, Zenon DEF DesfireSelect, DesfireVersion, DesfirePicc, DfStep, Step, At
  <2>2. img.kind = "desfire" /\ img.apps = <<>> /\ DOMAIN img = {"kind", "ver", "mem", "free", "apps"}
    BY <2>1 DEF WalkInv, Before, DfInv
  <2>3. \/ img' = img \/ (\E x : img' = [img EXCEPT !.ver = x]) \/ (\E x : img' = [img EXCEPT !.mem = x])
        \/ (\E x : img' = [img EXCEPT !.free = x])
    BY <1>3, Zenon DEF DesfireSelect, DesfireVersion, DesfirePicc, DfStep, Step, Continue, Fails
  <2>4. (\E st \in {"key", "version", "more", "memory", "master", "apps"} : Goto(st)) \/ (\E e : ReadFails(e)) \/ ReadOk("clone")
    BY <1>3, Zenon DEF DesfireSelect, DesfireVersion, DesfirePicc, DfStep, Step, Continue, Fails
  <2>5. rd'.step \in {"key", "version", "more", "memory", "master", "apps", "clone", "done"}
    <3>1. \A st : Goto(st) \/ ReadOk(st) => rd'.step = st
      BY Zenon DEF Goto, ReadOk, WalkInv
    <3>2. \A e : ReadFails(e) => rd'.step = "done"
      BY DEF ReadFails, WalkInv
    <3> QED BY <2>4, <3>1, <3>2
  <2>6. DOMAIN img' = DOMAIN img /\ img'.kind = img.kind /\ img'.apps = <<>>
    BY <2>2, <2>3
  <2> QED BY <1>1, <2>2, <2>5, <2>6
<1>4. ASSUME DesfireApps PROVE DfInv'
  <2>1. PICK o \in DfSays("df_apps", 0, 0) :
            /\ After(o) /\ img' = img
            /\ \/ \E e : ReadFails(e)
               \/ /\ Accepted(o) /\ Len(o.rx.ids) # 0 /\ ~(Len(o.rx.ids) > DfMaxApps)
                  /\ rd' = [rd EXCEPT !.step = "app", !.word = o.rx.ids[1]]
    BY <1>4, Zenon DEF DesfireApps, DfStep, Step, Fails
  <2>2. img.kind = "desfire" /\ img.apps = <<>> /\ card.kind = "desfire"
    BY <1>4 DEF DesfireApps, DfStep, Step, At, WalkInv, Before, DfInv
  <2>3. CASE \E e : ReadFails(e)
    <3>1. rd'.step = "done"
      BY <2>3 DEF ReadFails, WalkInv
    <3> QED BY <1>1, <2>1, <2>2, <3>1
  <2>4. CASE /\ Accepted(o) /\ Len(o.rx.ids) # 0 /\ ~(Len(o.rx.ids) > DfMaxApps)
             /\ rd' = [rd EXCEPT !.step = "app", !.word = o.rx.ids[1]]
    <3>1. DfSaid(card.m, card.s, "df_apps", 0, 0, o.rx)
      BY <2>1, <2>4, DfExchange
    <3>2. o.rx.ids = [i \in DOMAIN card.m.apps |-> card.m.apps[i].id]
      BY <3>1 DEF DfSaid
    <3>3. card.m.apps \in Seq(DfApps) /\ Len(card.m.apps) \in Nat /\ DOMAIN card.m.apps = 1..Len(card.m.apps)
      BY <1>0, <2>2
    <3>4. Len(o.rx.ids) = Len(card.m.apps)
      BY <3>2, <3>3
    <3>5. Len(card.m.apps) = 1 /\ o.rx.ids[1] = card.m.apps[1].id
      <4>1. Len(card.m.apps) # 0 /\ ~(Len(card.m.apps) > 1)
        BY <2>4, <3>4, Zenon DEF DfMaxApps
      <4>2. \A k \in Nat : k # 0 /\ ~(k > 1) => k = 1
        OBVIOUS
      <4>3. Len(card.m.apps) = 1
        BY <3>3, <4>1, <4>2, Zenon
      <4> QED BY <3>2, <3>3, <4>3
    <3>6. rd'.step = "app" /\ rd'.word = card.m.apps[1].id
      BY <2>4, <3>5 DEF WalkInv
    <3> QED BY <1>0, <2>1, <2>2, <3>5, <3>6 DEF DfInv
  <2> QED BY <2>1, <2>3, <2>4
<1>5. ASSUME DesfireApp, rd.step = "app" PROVE DfInv'
  <2>1. PICK o \in DfSays("df_app", rd.word, 0) :
            /\ After(o)
            /\ \/ /\ Accepted(o) /\ Goto("settings")
                  /\ img' = [img EXCEPT !.apps = <<[id |-> rd.word, ks |-> 0, files |-> <<>>]>>]
               \/ \E e : DfSkipApp(e)
    BY <1>5, Zenon DEF DesfireApp, DfStep, Step, At
  <2>2. Pollers[rd.p] = "desfire"
    BY <1>5, Zenon DEF DesfireApp, DfStep, Step, At
  <2>3. /\ img.kind = "desfire" /\ img.apps = <<>> /\ card.kind = "desfire"
        /\ DOMAIN img = {"kind", "ver", "mem", "free", "apps"}
        /\ Len(card.m.apps) = 1 /\ rd.word = card.m.apps[1].id
    BY <1>5, <2>2 DEF WalkInv, Before, DfInv
  <2>4. CASE \E e : DfSkipApp(e)
    <3>1. rd'.step = "clone" /\ DOMAIN img' = DOMAIN img /\ img'.kind = img.kind /\ img'.apps = <<>>
      BY <2>3, <2>4 DEF DfSkipApp, ReadOk, WalkInv
    <3> QED BY <1>1, <2>3, <3>1
  <2>5. CASE /\ Accepted(o) /\ Goto("settings")
             /\ img' = [img EXCEPT !.apps = <<[id |-> rd.word, ks |-> 0, files |-> <<>>]>>]
    <3>1. card'.s.app = DfIndex(card.m, rd.word) /\ DfSaid(card.m, card.s, "df_app", rd.word, 0, o.rx)
      BY <2>1, <2>5, DfExchange
    <3>2. DfIndex(card.m, rd.word) = 1
      <4>1. DOMAIN card.m.apps = {1}
        BY <1>0, <2>3
      <4> QED BY <2>3, <4>1 DEF DfIndex
    <3>3. /\ rd'.step = "settings" /\ DOMAIN img' = DOMAIN img /\ img'.kind = img.kind
          /\ img'.apps = <<[id |-> rd.word, ks |-> 0, files |-> <<>>]>>
      BY <2>3, <2>5 DEF Goto, WalkInv
    <3>4. DOMAIN img'.apps = {1} /\ DOMAIN img'.apps[1] = {"id", "ks", "files"} /\ img'.apps[1].files = <<>> /\ img'.apps # <<>>
      BY <3>3
    <3>5. DfFilesRead(card.m, <<>>, Len(<<>>))
      BY DEF DfFilesRead
    <3> QED BY <1>0, <2>3, <3>1, <3>2, <3>3, <3>4, <3>5 DEF DfInv
  <2> QED BY <2>1, <2>4, <2>5
\* while the application is read
<1>6. ASSUME img.kind = "desfire", rd.step \in {"settings", "files", "file"}, img'.kind = img.kind, DOMAIN img' = DOMAIN img,
             DOMAIN img'.apps = {1}, img'.apps # <<>>, DOMAIN img'.apps[1] = {"id", "ks", "files"},
             img'.apps[1].files = img.apps[1].files, card'.s = card.s, rd'.step \in {"files", "file", "clone"}
      PROVE  DfInv'
  BY <1>0, <1>6 DEF DfInv
<1>7. ASSUME DesfireApp, rd.step = "settings" PROVE DfInv'
  <2>1. PICK o \in DfSays("df_settings", 0, 0) :
            /\ After(o)
            /\ \/ Goto("files") /\ img' = [img EXCEPT !.apps[1].ks = o.rx.ks]
               \/ \E e : DfSkipApp(e)
    BY <1>7, Zenon DEF DesfireApp, DfStep, Step, At
  <2>2. Pollers[rd.p] = "desfire"
    BY <1>7, Zenon DEF DesfireApp, DfStep, Step, At
  <2>3. /\ img.kind = "desfire" /\ card.kind = "desfire" /\ DOMAIN img = {"kind", "ver", "mem", "free", "apps"}
        /\ DOMAIN img.apps = {1} /\ DOMAIN img.apps[1] = {"id", "ks", "files"}
    BY <1>7, <2>2 DEF WalkInv, Before, DfInv
  <2>4. CASE \E e : DfSkipApp(e)
    <3>1. rd'.step = "clone" /\ DOMAIN img' = DOMAIN img /\ img'.kind = img.kind /\ img'.apps = <<>>
      BY <2>3, <2>4 DEF DfSkipApp, ReadOk, WalkInv
    <3> QED BY <1>0, <2>3, <3>1 DEF DfInv
  <2>5. CASE Goto("files") /\ img' = [img EXCEPT !.apps[1].ks = o.rx.ks]
    <3>1. card'.s = card.s
      BY <2>1, DfExchange
    <3>2. /\ rd'.step = "files" /\ img'.kind = img.kind /\ DOMAIN img' = DOMAIN img /\ DOMAIN img'.apps = {1}
          /\ DOMAIN img'.apps[1] = {"id", "ks", "files"} /\ img'.apps[1].files = img.apps[1].files
      BY <2>3, <2>5 DEF Goto, WalkInv
    <3>3. img'.apps # <<>>
      BY <3>2
    <3> QED BY <1>6, <1>7, <2>3, <3>1, <3>2, <3>3
  <2> QED BY <2>1, <2>4, <2>5
<1>8. ASSUME DesfireApp, rd.step = "files" PROVE DfInv'
  <2>1. PICK o \in DfSays("df_files", 0, 0) :
            /\ After(o)
            /\ \/ \E e : DfSkipApp(e)
               \/ ReadOk("clone") /\ img' = img
               \/ (\E w : rd' = [rd EXCEPT !.step = "file", !.i = 1, !.word = w]) /\ img' = img
    BY <1>8, Zenon DEF DesfireApp, DfStep, Step, At
  <2>2. Pollers[rd.p] = "desfire"
    BY <1>8, Zenon DEF DesfireApp, DfStep, Step, At
  <2>3. /\ img.kind = "desfire" /\ card.kind = "desfire" /\ DOMAIN img = {"kind", "ver", "mem", "free", "apps"}
        /\ DOMAIN img.apps = {1} /\ DOMAIN img.apps[1] = {"id", "ks", "files"} /\ img.apps # <<>>
    BY <1>8, <2>2 DEF WalkInv, Before, DfInv
  <2>4. CASE \E e : DfSkipApp(e)
    <3>1. rd'.step = "clone" /\ DOMAIN img' = DOMAIN img /\ img'.kind = img.kind /\ img'.apps = <<>>
      BY <2>3, <2>4 DEF DfSkipApp, ReadOk, WalkInv
    <3> QED BY <1>0, <2>3, <3>1 DEF DfInv
  <2>5. CASE img' = img /\ (ReadOk("clone") \/ \E w : rd' = [rd EXCEPT !.step = "file", !.i = 1, !.word = w])
    <3>0. After(o)
      BY <2>1, Zenon
    <3>1. card'.s = card.s
      BY <3>0, DfExchange
    <3>2. rd'.step \in {"clone", "file"}
      BY <2>5, Zenon DEF ReadOk, WalkInv
    <3> QED BY <1>6, <1>8, <2>3, <2>5, <3>1, <3>2, Zenon
  <2> QED BY <2>1, <2>4, <2>5, Zenon
<1>9. ASSUME NEW im, DfNextFile(im), img.kind = "desfire", rd.step \in {"file", "data"}, im.kind = img.kind, DOMAIN im = DOMAIN img,
             DOMAIN im.apps = {1}, DOMAIN im.apps[1] = {"id", "ks", "files"}, card'.s = card.s,
             DfFilesRead(card.m, im.apps[1].files, Len(im.apps[1].files))
      PROVE  DfInv'
  <2>1. img' = im /\ rd'.step \in {"file", "clone"}
    BY <1>9, Zenon DEF DfNextFile, Loop, ReadOk, WalkInv
  <2>2. im.apps # <<>>
    BY <1>9
  <2>3. card.kind = "desfire" /\ DOMAIN img = {"kind", "ver", "mem", "free", "apps"} /\ Len(card.m.apps) = 1 /\ card.s.app = 1
    BY <1>9 DEF DfInv
  <2> QED BY <1>0, <1>9, <2>1, <2>2, <2>3 DEF DfInv
<1>10. ASSUME DesfireFile PROVE DfInv'
  <2>1. PICK o \in DfSays("df_file", rd.word[rd.i], 0) :
            /\ After(o)
            /\ \/ DfNextFile(img)
               \/ Accepted(o) /\ o.rx.f.free /\ o.rx.f.size = 0 /\ DfNextFile(DfPut(img, o.rx.f, TRUE))
               \/ /\ Accepted(o) /\ ~(~o.rx.f.free \/ o.rx.f.size > DfMaxSize) /\ ~(o.rx.f.free /\ o.rx.f.size = 0)
                  /\ Goto("data") /\ img' = DfPut(img, o.rx.f, TRUE)
    BY <1>10, Zenon DEF DesfireFile, DfStep, Step
  <2>2. Pollers[rd.p] = "desfire" /\ rd.step = "file"
    BY <1>10, Zenon DEF DesfireFile, DfStep, Step, At
  <2>3. /\ img.kind = "desfire" /\ card.kind = "desfire" /\ DOMAIN img = {"kind", "ver", "mem", "free", "apps"}
        /\ DOMAIN img.apps = {1} /\ DOMAIN img.apps[1] = {"id", "ks", "files"}
        /\ Len(card.m.apps) = 1 /\ card.s.app = 1
        /\ DfFilesRead(card.m, img.apps[1].files, Len(img.apps[1].files))
    BY <2>2 DEF WalkInv, Before, DfInv
  <2>4. After(o)
    BY <2>1
  <2>5. card'.s = card.s /\ (Accepted(o) => DfSaid(card.m, card.s, "df_file", rd.word[rd.i], 0, o.rx))
    BY <2>4, DfExchange
  <2>6. CASE DfNextFile(img)
    BY <1>9, <2>2, <2>3, <2>5, <2>6
  <2>7. CASE Accepted(o) /\ ~DfNextFile(img)
    <3> DEFINE f == o.rx.f
               g == DfFile(card.m, card.s, rd.word[rd.i])
               new == DfPut(img, f, TRUE)
    <3>1. DfHas(card.m, card.s, rd.word[rd.i]) /\ f = [g EXCEPT !.len = 0]
      BY <2>5, <2>7 DEF DfSaid
    <3>2. /\ g \in DfFiles /\ g \in Range(card.m.apps[1].files) /\ g.id = rd.word[rd.i] /\ f \in DfFiles
          /\ [g EXCEPT !.len = g.size] \in DfFiles
      BY <1>0, <2>3, <3>1, DfFileOf
    <3>3. /\ new.kind = img.kind /\ DOMAIN new = DOMAIN img /\ DOMAIN new.apps = {1}
          /\ DOMAIN new.apps[1] = {"id", "ks", "files"} /\ new.apps[1].files = Append(img.apps[1].files, f)
      BY <2>3 DEF DfPut
    <3> HIDE DEF new, g, f
    <3>4. f.id = g.id /\ f.free = g.free /\ f.size = g.size /\ f.len = 0
      BY <3>1, <3>2 DEF DfFiles
    <3>5. CASE f.free /\ f.size = 0 /\ DfNextFile(new)
      <4>1. DfRead(card.m, f)
        <5>1. g.size = 0 /\ g.len \in Nat /\ g.free
          BY <3>2, <3>4, <3>5 DEF DfFiles
        <5>2. f = [g EXCEPT !.len = g.size]
          BY <3>1, <5>1
        <5>3. g.size <= g.len
          BY <5>1
        <5> QED BY <3>2, <5>1, <5>2, <5>3, Zenon DEF DfRead
      <4>2. DfFilesRead(card.m, new.apps[1].files, Len(new.apps[1].files))
        BY <2>3, <3>2, <3>3, <4>1, DfAppended
      <4> QED BY <1>9, <2>2, <2>3, <2>5, <3>3, <3>5, <4>2, Zenon
    <3>6. CASE f.free /\ f.size # 0 /\ Goto("data") /\ img' = new
      <4>1. rd'.step = "data"
        BY <3>6 DEF Goto, WalkInv
      <4>2. DfFetched(card.m, card.s, f)
        BY <2>3, <3>1, <3>2, <3>4, <3>6 DEF DfFetched, g
      <4> DEFINE files == img.apps[1].files
      <4>3. /\ Append(files, f) \in Seq(DfFiles) /\ Len(Append(files, f)) = Len(files) + 1
            /\ Append(files, f)[Len(files) + 1] = f
            /\ \A i \in 1..Len(files) : DfRead(card.m, Append(files, f)[i])
        BY <2>3, <3>2, DfAppended
      <4>4. Len(files) \in Nat
        BY <2>3 DEF DfFilesRead
      <4> HIDE DEF files
      <4>5. DfFilesRead(card.m, Append(files, f), Len(Append(files, f)) - 1) /\ Len(Append(files, f)) > 0
            /\ Append(files, f)[Len(Append(files, f))] = f
        BY <4>3, <4>4 DEF DfFilesRead
      <4>6. new.apps # <<>>
        BY <3>3
      <4>7. new.apps[1].files = Append(files, f)
        BY <3>3 DEF files
      <4> QED BY <1>0, <2>3, <2>5, <3>3, <3>6, <4>1, <4>2, <4>5, <4>6, <4>7, ZenonT(40) DEF DfInv
    <3>7. (f.free /\ f.size = 0 /\ DfNextFile(new)) \/ (f.free /\ f.size # 0 /\ Goto("data") /\ img' = new)
      BY <2>1, <2>7, Zenon DEF f, new
    <3> QED BY <3>5, <3>6, <3>7
  <2> QED BY <2>1, <2>6, <2>7, Zenon
<1>11. ASSUME DesfireData PROVE DfInv'
  <2> DEFINE n == Len(img.apps[1].files)
             f == img.apps[1].files[n]
             rest == [img EXCEPT !.apps[1].files = SubSeq(@, 1, n - 1)]
  <2>1. PICK o \in DfSays(DfReadOp[f.type], f.id, f.size) :
            /\ After(o)
            /\ \/ Accepted(o) /\ DfNextFile(DfPut(rest, [f EXCEPT !.len = o.rx.len], TRUE))
               \/ DfNextFile(DfPut(rest, f, FALSE))
    BY <1>11, Zenon DEF DesfireData, DfStep, Step
  <2>2. Pollers[rd.p] = "desfire" /\ rd.step = "data"
    BY <1>11, Zenon DEF DesfireData, DfStep, Step, At
  <2>3. /\ img.kind = "desfire" /\ card.kind = "desfire" /\ DOMAIN img = {"kind", "ver", "mem", "free", "apps"}
        /\ DOMAIN img.apps = {1} /\ DOMAIN img.apps[1] = {"id", "ks", "files"}
        /\ Len(card.m.apps) = 1 /\ card.s.app = 1
        /\ DfFilesRead(card.m, img.apps[1].files, n - 1) /\ n > 0 /\ DfFetched(card.m, card.s, f)
    BY <2>2 DEF WalkInv, Before, DfInv
  <2> DEFINE front == SubSeq(img.apps[1].files, 1, n - 1)
  <2>4. /\ rest.kind = img.kind /\ DOMAIN rest = DOMAIN img /\ DOMAIN rest.apps = {1}
        /\ DOMAIN rest.apps[1] = {"id", "ks", "files"} /\ rest.apps[1].files = front
    BY <2>3
  <2>5. DfFilesRead(card.m, front, Len(front))
    BY <2>3, DfFrontRead
  <2> HIDE DEF front, rest, f, n
  <2> DEFINE g == DfFile(card.m, card.s, f.id)
  <2>6. DfHas(card.m, card.s, f.id) /\ f = [g EXCEPT !.len = 0] /\ f.free /\ f.size # 0
    BY <2>3 DEF DfFetched
  <2>7. g \in DfFiles /\ g \in Range(card.m.apps[1].files) /\ [g EXCEPT !.len = g.size] \in DfFiles
    BY <1>0, <2>3, <2>6, DfFileOf
  <2> HIDE DEF g
  <2>8. f.type = g.type /\ f.size = g.size /\ g.free
    BY <2>6, <2>7 DEF DfFiles
  <2>9. DfReadOp[f.type] \in {"df_data", "df_value", "df_records"}
    BY <2>7, <2>8 DEF DfFiles, DfReadOp
  <2>10. After(o)
    BY <2>1
  <2>11. card'.s = card.s /\ (Accepted(o) => DfSaid(card.m, card.s, DfReadOp[f.type], f.id, f.size, o.rx))
    BY <2>9, <2>10, DfExchange
  <2>12. CASE DfNextFile(DfPut(rest, f, FALSE))
    <3>1. DfNextFile(rest)
      BY <2>12 DEF DfPut
    <3> QED BY <1>9, <2>2, <2>3, <2>4, <2>5, <2>11, <3>1
  <2>13. CASE Accepted(o) /\ DfNextFile(DfPut(rest, [f EXCEPT !.len = o.rx.len], TRUE))
    <3>1. DfServes(g, f.size) /\ o.rx.len = f.size
      BY <2>9, <2>11, <2>13 DEF DfSaid, g
    <3> DEFINE h == [f EXCEPT !.len = o.rx.len]
               new == DfPut(rest, h, TRUE)
    <3>2. h = [g EXCEPT !.len = g.size]
      BY <2>6, <2>7, <2>8, <3>1, Zenon DEF DfFiles
    <3>3. /\ new.kind = rest.kind /\ DOMAIN new = DOMAIN rest /\ DOMAIN new.apps = {1}
          /\ DOMAIN new.apps[1] = {"id", "ks", "files"} /\ new.apps[1].files = Append(front, h)
      BY <2>3, <2>4 DEF DfPut
    <3>4. DfRead(card.m, h)
      BY <2>7, <2>8, <3>1, <3>2, Zenon DEF DfRead, DfServes
    <3>5. h \in DfFiles
      BY <2>7, <3>2
    <3>6. DfNextFile(new)
      BY <2>13, Zenon
    <3> HIDE DEF h, new
    <3>7. DfFilesRead(card.m, new.apps[1].files, Len(new.apps[1].files))
      BY <2>5, <3>3, <3>4, <3>5, DfAppended
    <3> QED BY <1>9, <2>2, <2>3, <2>4, <2>11, <3>3, <3>6, <3>7, Zenon
  <2> QED BY <2>1, <2>12, <2>13, Zenon
<1>12. DesfireApp => rd.step \in {"app", "settings", "files"}
  BY Zenon DEF DesfireApp, DfStep, Step, At
<1> QED BY <1>2, <1>3, <1>4, <1>5, <1>7, <1>8, <1>10, <1>11, <1>12, Zenon DEF DesfireNext

-----------------------------------------------------------------------------
(* EMV: the records of the image are records of the card.                   *)

EmvInv ==
    img.kind = "emv" =>
        /\ card.kind = "emv" /\ DOMAIN img = {"kind", "aid", "first", "last", "recs", "pan"}
        /\ img.recs \in Seq(Nat) /\ \A n \in DOMAIN img.recs : img.recs[n] \in Range(card.m.recs)

\* what an accepted answer says of the model
EmvSaid(m, op, a, rx) ==
    /\ op = "select" /\ a = "PPSE" => rx.aid = m.aid
    /\ op = "select" /\ a # "PPSE" => a = m.aid
    /\ op = "emv_gpo" => rx.first = m.first /\ rx.last = m.last
    /\ op = "emv_record" => a \in m.first..m.last /\ rx.rec = EmvRecord(m, a)

LEMMA EmvExchange ==
  ASSUME WalkInv, NEW op, NEW a, op = "select" /\ card.kind # "emv" => a = "PPSE", NEW o \in EmvSays(op, a), After(o)
  PROVE  /\ card'.kind = card.kind /\ card'.m = card.m
         /\ Accepted(o) => card.kind = "emv" /\ EmvSaid(card.m, op, a, o.rx)
<1>1. card'.kind = card.kind /\ card'.m = card.m
  BY DEF After, WalkInv
<1>2. PICK own : /\ own = IF card.kind = "emv" THEN EmvOn(card.m, card.s, Cmd(op, a, 0)) ELSE Silent(card.s)
                 /\ o \in Exchange(DepAnswer("emv", own, Cmd(op, a, 0)))
  BY DEF EmvSays
<1>3. PICK ans : ans = DepAnswer("emv", own, Cmd(op, a, 0))
  OBVIOUS
<1>4. CASE card.kind # "emv"
  <2>1. ans.rx.k \in {"none", "sw"} \/ (op = "select" /\ card.kind \in DOMAIN Aids /\ a \in Aids[card.kind])
    BY <1>3, <1>4, DepOther
  <2>2. ans.rx.k \in {"none", "sw"}
    BY <1>4, <2>1, AidsOf
  <2> QED BY <1>1, <1>2, <1>3, <1>4, <2>2, Outcome DEF Accepted
<1>5. CASE card.kind = "emv"
  <2>1. ans.rx.k = "ok" => EmvSaid(card.m, op, a, ans.rx)
    <3>1. CASE op = "select" /\ a \notin Aids["emv"]
      BY <1>3, <1>5, <3>1, AidsOf DEF DepAnswer, Refused, Answer, Cmd
    <3>2. CASE op = "select" => a \in Aids["emv"]
      <4>1. ans = EmvOn(card.m, card.s, Cmd(op, a, 0))
        BY <1>2, <1>3, <1>5, <3>2, DepOwn
      <4> QED BY <4>1 DEF EmvOn, EmvSelect, EmvPlace, EmvSaid, Refused, Answer, Cmd
    <3> QED BY <3>1, <3>2
  <2> QED BY <1>1, <1>2, <1>3, <1>5, <2>1, Outcome DEF Accepted
<1> QED BY <1>4, <1>5

LEMMA EmvKeeps ==
  ASSUME WalkInv, EmvInv, ModelOk(card.kind, card.m), EmvNext
  PROVE  EmvInv'
<1>1. ASSUME EmvDetect PROVE EmvInv'
  <2>1. PICK o \in EmvSays("select", "PPSE") : After(o) /\ IF Accepted(o) THEN Matched(EmvBlank) ELSE NotMatched
    BY <1>1, Zenon DEF EmvDetect, EmvStep, Step, NoMatch
  <2>2. img = NoImage
    BY <1>1 DEF EmvDetect, EmvStep, Step, At, WalkInv, Before
  <2>3. After(o)
    BY <2>1
  <2>4. card'.kind = card.kind /\ card'.m = card.m /\ (Accepted(o) => card.kind = "emv")
    BY <2>3, EmvExchange
  <2>5. CASE Accepted(o)
    <3>1. img' = [kind |-> "emv", aid |-> "none", first |-> 0, last |-> 0, recs |-> <<>>, pan |-> 0]
      BY <2>1, <2>5, Zenon DEF Matched, EmvBlank
    <3> QED BY <2>4, <2>5, <3>1 DEF EmvInv
  <2>6. CASE ~Accepted(o)
    BY <2>1, <2>2, <2>6 DEF EmvInv, NotMatched, NoImage
  <2> QED BY <2>5, <2>6
<1>2. ASSUME EmvOpen PROVE EmvInv'
  <2>1. PICK op, a : \E o \in EmvSays(op, a) : After(o)
    BY <1>2, Zenon DEF EmvOpen, EmvStep, Step
  <2>2. card'.kind = card.kind /\ card'.m = card.m
    BY <2>1 DEF After, WalkInv
  <2>3. img.kind = "emv"
    BY <1>2, Zenon DEF EmvOpen, EmvStep, Step, At, WalkInv, Before
  <2>4. img' = img \/ (\E x : img' = [img EXCEPT !.aid = x]) \/ (\E x, y : img' = [img EXCEPT !.first = x, !.last = y])
    BY <1>2, Zenon DEF EmvOpen, EmvStep, Step, Continue, Fails
  <2> QED BY <2>2, <2>3, <2>4, Zenon DEF EmvInv
<1>3. ASSUME EmvRecords PROVE EmvInv'
  <2>1. PICK o \in EmvSays("emv_record", rd.i) :
            /\ After(o)
            /\ \/ img' = img
               \/ Accepted(o) /\ \E x : img' = [img EXCEPT !.recs = EmvPut(@, o.rx.rec), !.pan = x]
    BY <1>3, Zenon DEF EmvRecords, EmvStep, Step, Fails
  <2>2. img.kind = "emv"
    BY <1>3 DEF EmvRecords, EmvStep, Step, At, WalkInv, Before
  <2>3. /\ card.kind = "emv" /\ DOMAIN img = {"kind", "aid", "first", "last", "recs", "pan"}
        /\ img.recs \in Seq(Nat) /\ \A n \in DOMAIN img.recs : img.recs[n] \in Range(card.m.recs)
    BY <2>2 DEF EmvInv
  <2>4. card'.kind = card.kind /\ card'.m = card.m
    BY <2>1, Zenon DEF After, WalkInv
  <2>5. CASE img' = img
    BY <2>3, <2>4, <2>5 DEF EmvInv
  <2>6. CASE Accepted(o) /\ \E x : img' = [img EXCEPT !.recs = EmvPut(@, o.rx.rec), !.pan = x]
    <3>1. EmvSaid(card.m, "emv_record", rd.i, o.rx) /\ EmvModelOk(card.m)
      BY <2>1, <2>3, <2>6, EmvExchange, Zenon DEF ModelOk
    <3>2. /\ rd.i \in Nat /\ rd.i >= 1 /\ card.m.recs \in Seq(Nat)
          /\ o.rx.rec = IF rd.i <= Len(card.m.recs) THEN card.m.recs[rd.i] ELSE 0
      BY <3>1 DEF EmvSaid, EmvModelOk, EmvRecord, EmvMaxRecords
    <3>3. o.rx.rec # 0 => o.rx.rec \in Range(card.m.recs) /\ o.rx.rec \in Nat
      BY <3>2 DEF Range
    <3>4. DOMAIN img' = DOMAIN img /\ img'.kind = img.kind /\ img'.recs = EmvPut(img.recs, o.rx.rec)
      BY <2>3, <2>6
    <3>5. img'.recs \in Seq(Nat) /\ \A n \in DOMAIN img'.recs : img'.recs[n] \in Range(card.m.recs)
      BY <2>3, <3>3, <3>4 DEF EmvPut
    <3> QED BY <2>3, <2>4, <3>4, <3>5 DEF EmvInv
  <2> QED BY <2>1, <2>5, <2>6, Zenon
<1> QED BY <1>1, <1>2, <1>3 DEF EmvNext

-----------------------------------------------------------------------------
(* NDEF: the writer leaves the old message, the new one or none, and the    *)
(* reader fills the image from the front.                                   *)

NdNewData == [p \in 1..NdefMax |-> NdefNew.mark]

\* the file of a card that was put down with `old`, at a step
NdSession(old, s, step) ==
    /\ DOMAIN s = {"file", "nlen", "data"}
    /\ \/ s.data = old.data /\ s.nlen \in {0, old.nlen} /\ step # "w_nlen"
       \/ s.data = NdNewData /\ s.nlen \in {0, NdefMax}
    /\ step \in {"w_data", "w_nlen"} => s.nlen = 0
    /\ s.nlen \in Nat /\ s.data \in [1..NdefMax -> Nat]

\* the image that is filled from such a file
NdImage ==
    /\ DOMAIN img = {"kind", "mle", "nlen", "data"}
    /\ rd.step \in {"read_cc", "select_ndef", "read_nlen", "chunk", "clone"} => card.kind = "ndef"
    /\ rd.step \in {"read", "read_v1", "select_cc", "read_cc", "select_ndef", "read_nlen"} => img.nlen = 0 /\ img.data = <<>>
    /\ rd.step \in {"select_ndef", "read_nlen", "chunk", "clone"} => img.mle = card.m.mle
    /\ rd.step \in {"chunk", "clone"} => img.nlen = card.s.nlen /\ img.nlen <= NdefMax
    /\ rd.step = "chunk" => rd.i \in Nat /\ rd.i < img.nlen /\ img.data = SubSeq(card.s.data, 1, rd.i)
    /\ rd.step = "clone" => img.data = SubSeq(card.s.data, 1, img.nlen)

LEMMA LeastOfThree ==
  ASSUME NEW a \in Int, NEW b \in Int, NEW c \in Int
  PROVE  /\ Least({a, b, c}) \in {a, b, c}
         /\ Least({a, b, c}) <= a /\ Least({a, b, c}) <= b /\ Least({a, b, c}) <= c
<1> DEFINE S == {a, b, c}
<1>1. \E x \in S : \A y \in S : x <= y
  <2>1. (a <= b /\ a <= c) \/ (b <= a /\ b <= c) \/ (c <= a /\ c <= b)
    OBVIOUS
  <2> QED BY <2>1
<1>2. Least(S) \in S /\ \A y \in S : Least(S) <= y
  BY <1>1 DEF Least
<1> QED BY <1>2

LEMMA SameSeq ==
  ASSUME NEW x \in Seq(Nat), NEW y \in Seq(Nat), Len(x) = Len(y), \A j \in 1..Len(x) : x[j] = y[j]
  PROVE  x = y
OBVIOUS

LEMMA Behind ==
  ASSUME NEW x \in Seq(Nat), NEW y \in Seq(Nat)
  PROVE  /\ x \o y \in Seq(Nat) /\ Len(x \o y) = Len(x) + Len(y)
         /\ \A j \in 1..(Len(x) + Len(y)) : (x \o y)[j] = IF j <= Len(x) THEN x[j] ELSE y[j - Len(x)]
OBVIOUS

LEMMA NoCells == \A d : SubSeq(d, 1, 0) = <<>>
OBVIOUS

LEMMA AllCells ==
  ASSUME NEW d \in Seq(Nat)
  PROVE  SubSeq(d, 1, Len(d)) = d
OBVIOUS

\* A chunk goes behind what the image has.
LEMMA NdGrows ==
  ASSUME NEW d \in [1..NdefMax -> Nat], NEW i \in Nat, NEW n \in Nat, i + n <= NdefMax
  PROVE  SubSeq(d, 1, i) \o SubSeq([j \in 1..n |-> d[i + j]], 1, n) = SubSeq(d, 1, i + n)
<1>1. NdefMax \in Nat
  BY NdefAssumption
<1>2. d \in Seq(Nat) /\ Len(d) = NdefMax
  BY <1>1
<1> DEFINE e == [j \in 1..n |-> d[i + j]]
<1>3. e \in Seq(Nat) /\ Len(e) = n
  BY <1>1
<1>4. /\ SubSeq(d, 1, i) \in Seq(Nat) /\ Len(SubSeq(d, 1, i)) = i /\ \A j \in 1..i : SubSeq(d, 1, i)[j] = d[j]
  BY <1>1, <1>2
<1>5. /\ SubSeq(d, 1, i + n) \in Seq(Nat) /\ Len(SubSeq(d, 1, i + n)) = i + n
      /\ \A j \in 1..(i + n) : SubSeq(d, 1, i + n)[j] = d[j]
  BY <1>1, <1>2
<1>6. SubSeq(e, 1, n) \in Seq(Nat) /\ Len(SubSeq(e, 1, n)) = n /\ \A j \in 1..n : SubSeq(e, 1, n)[j] = d[i + j]
  BY <1>3
<1> HIDE DEF e
<1> DEFINE x == SubSeq(d, 1, i)
           y == SubSeq(e, 1, n)
           z == SubSeq(d, 1, i + n)
<1>7. \A j \in 1..i : x[j] = z[j]
  BY <1>4, <1>5
<1>8. \A j \in 1..n : y[j] = z[i + j]
  BY <1>5, <1>6
<1>9. x \in Seq(Nat) /\ y \in Seq(Nat) /\ z \in Seq(Nat) /\ Len(x) = i /\ Len(y) = n /\ Len(z) = i + n
  BY <1>4, <1>5, <1>6
<1> HIDE DEF x, y, z
<1>10. /\ x \o y \in Seq(Nat) /\ Len(x \o y) = i + n
       /\ \A j \in 1..(i + n) : (x \o y)[j] = IF j <= i THEN x[j] ELSE y[j - i]
  BY <1>9, Behind, Zenon
<1>11. ASSUME NEW j \in 1..(i + n) PROVE (x \o y)[j] = z[j]
  <2>1. (x \o y)[j] = IF j <= i THEN x[j] ELSE y[j - i]
    BY <1>10
  <2> QED BY <1>7, <1>8, <2>1
<1>12. x \o y = z
  BY <1>9, <1>10, <1>11, SameSeq, Zenon
<1> QED BY <1>12 DEF x, y, z, e

\* what an accepted answer says of the model and the file
NdSaid(m, s, op, a, b, rx) ==
    /\ op = "nd_cc" => rx.mle = m.mle
    /\ op = "nd_read" => rx = NdefRead(s, a, b)

LEMMA NdExchange ==
  ASSUME WalkInv, NEW op, NEW a, NEW b, op = "select" => a \in {"NDEF_v1", "NDEF_v2"}, NEW o \in NdefSays(op, a, b), After(o),
         card.kind = "ndef" => DOMAIN card.s = {"file", "nlen", "data"}
  PROVE  /\ card'.kind = card.kind /\ card'.m = card.m
         /\ card.kind = "ndef" => DOMAIN card'.s = {"file", "nlen", "data"}
         /\ card.kind = "ndef" /\ op # "nd_update" => card'.s.nlen = card.s.nlen /\ card'.s.data = card.s.data
         /\ card.kind = "ndef" /\ op = "nd_update" =>
                \/ card'.s = NdefUpdate(card.s, Cmd(op, a, b))
                \/ card'.s = card.s /\ ~Accepted(o)
         /\ Accepted(o) /\ op # "select" => card.kind = "ndef" /\ NdSaid(card.m, card.s, op, a, b, o.rx)
<1>1. card'.kind = card.kind /\ card'.m = card.m /\ card'.s = o.s
  BY DEF After, WalkInv
<1>2. PICK own : /\ own = IF card.kind = "ndef" THEN NdefOn(card.m, card.s, Cmd(op, a, b)) ELSE Silent(card.s)
                 /\ o \in Exchange(DepAnswer("ndef", own, Cmd(op, a, b)))
  BY DEF NdefSays
<1>3. PICK ans : ans = DepAnswer("ndef", own, Cmd(op, a, b))
  OBVIOUS
<1>4. /\ o.s \in {card.s, ans.s}
      /\ Accepted(o) => o.rx = ans.rx /\ ans.rx.k = "ok" /\ o.s = ans.s
  BY <1>2, <1>3, Outcome DEF Accepted
<1>5. CASE card.kind # "ndef"
  <2>1. ans.rx.k \in {"none", "sw"} \/ op = "select"
    BY <1>3, <1>5, DepOther
  <2> QED BY <1>1, <1>4, <1>5, <2>1
<1>6. CASE card.kind = "ndef"
  <2>1. CASE op = "select" /\ a \notin Aids["ndef"]
    <3>1. ans.s = card.s /\ ans.rx.k = "sw"
      BY <1>3, <1>6, <2>1, AidsOf DEF DepAnswer, Refused, Answer, Cmd
    <3> QED BY <1>1, <1>4, <1>6, <2>1, <3>1
  <2>2. CASE op = "select" => a \in Aids["ndef"]
    <3>1. ans = NdefOn(card.m, card.s, Cmd(op, a, b))
      BY <1>2, <1>3, <1>6, <2>2, DepOwn
    <3>2. /\ op # "nd_update" => ans.s.nlen = card.s.nlen /\ ans.s.data = card.s.data /\ DOMAIN ans.s = DOMAIN card.s
          /\ op = "nd_update" => ans.s = NdefUpdate(card.s, Cmd(op, a, b)) \/ (ans.s = card.s /\ ans.rx.k = "sw")
          /\ ans.rx.k = "ok" => NdSaid(card.m, card.s, op, a, b, ans.rx)
      BY <1>6, <3>1 DEF NdefOn, NdSaid, Refused, Answer, Cmd
    <3>3. DOMAIN NdefUpdate(card.s, Cmd(op, a, b)) = DOMAIN card.s
      BY DEF NdefUpdate
    <3> QED BY <1>1, <1>4, <1>6, <3>2, <3>3
  <2> QED BY <2>1, <2>2
<1> QED BY <1>5, <1>6

\* Who does not write leaves the file.
LEMMA NdCalm ==
  ASSUME NEW old, NEW s, NEW t, NEW step, NEW next, NdSession(old, s, step), next \notin {"w_data", "w_nlen"},
         DOMAIN t = {"file", "nlen", "data"}, t.nlen = s.nlen, t.data = s.data
  PROVE  NdSession(old, t, next)
BY DEF NdSession

\* A step of the reader that changes at most the CC of the image.
LEMMA NdSteps ==
  ASSUME WalkInv
  PROVE  /\ \A e : ReadFails(e) => rd'.step = "done"
         /\ \A st : Goto(st) => rd'.step = st
         /\ \A st, i : Loop(st, i) => rd'.step = st /\ rd'.i = i
         /\ \A st : ReadOk(st) => rd'.step = st
         /\ NotMatched => rd'.step \in {"done", "detect"}
         /\ \A blank : Matched(blank) => rd'.step = "read"
BY Zenon DEF WalkInv, ReadFails, Goto, Loop, ReadOk, NotMatched, Matched

LEMMA NdFindKeeps ==
  ASSUME WalkInv, NEW old, card.kind = "ndef" => NdSession(old, card.s, rd.step), img.kind = "ndef" => NdImage,
         NdefDetect \/ NdefSelectApp
  PROVE  (card'.kind = "ndef" => NdSession(old, card'.s, rd'.step)) /\ (img'.kind = "ndef" => NdImage')
<1>0. card.kind = "ndef" => DOMAIN card.s = {"file", "nlen", "data"}
  BY DEF NdSession
<1>1. ASSUME NdefDetect
      PROVE  (card'.kind = "ndef" => NdSession(old, card'.s, rd'.step)) /\ (img'.kind = "ndef" => NdImage')
  <2>1. PICK aid \in {"NDEF_v1", "NDEF_v2"} : \E o \in NdefSays("select", aid, 0) :
            After(o) /\ (Matched(NdefBlank) \/ Continue("detect_v1") \/ NotMatched)
    BY <1>1, Zenon DEF NdefDetect, NdefTries, NdefSelect, NoMatch
  <2>2. PICK o \in NdefSays("select", aid, 0) : After(o) /\ (Matched(NdefBlank) \/ Continue("detect_v1") \/ NotMatched)
    BY <2>1, Zenon
  <2>3. After(o)
    BY <2>2
  <2>4. /\ card'.kind = card.kind /\ card'.m = card.m
        /\ card.kind = "ndef" => /\ DOMAIN card'.s = {"file", "nlen", "data"}
                                 /\ card'.s.nlen = card.s.nlen /\ card'.s.data = card.s.data
    BY <1>0, <2>3, NdExchange
  <2>5. rd'.step \in {"read", "detect_v1", "done", "detect"} /\ (Matched(NdefBlank) => rd'.step = "read")
    BY <2>2, NdSteps DEF Continue
  <2>6. card'.kind = "ndef" => NdSession(old, card'.s, rd'.step)
    BY <2>4, <2>5, NdCalm
  <2>7. img = NoImage
    BY <1>1 DEF NdefDetect, NdefTries, At, WalkInv, Before
  <2>8. CASE Matched(NdefBlank)
    <3>1. img' = [kind |-> "ndef", mle |-> 0, nlen |-> 0, data |-> <<>>] /\ rd'.step = "read"
      BY <2>5, <2>8, Zenon DEF Matched, NdefBlank
    <3> QED BY <2>6, <3>1 DEF NdImage
  <2>9. CASE ~Matched(NdefBlank)
    BY <2>2, <2>6, <2>7, <2>9 DEF Continue, NotMatched, NoImage
  <2> QED BY <2>8, <2>9
<1>2. ASSUME NdefSelectApp
      PROVE  (card'.kind = "ndef" => NdSession(old, card'.s, rd'.step)) /\ (img'.kind = "ndef" => NdImage')
  <2>1. PICK aid \in {"NDEF_v1", "NDEF_v2"} : \E o \in NdefSays("select", aid, 0) :
            After(o) /\ (Continue("select_cc") \/ Continue("read_v1") \/ \E e : Fails(e))
    BY <1>2, Zenon DEF NdefSelectApp, NdefTries, NdefSelect
  <2>2. PICK o \in NdefSays("select", aid, 0) : After(o) /\ (Continue("select_cc") \/ Continue("read_v1") \/ \E e : Fails(e))
    BY <2>1, Zenon
  <2>3. After(o)
    BY <2>2
  <2>4. /\ card'.kind = card.kind /\ card'.m = card.m
        /\ card.kind = "ndef" => /\ DOMAIN card'.s = {"file", "nlen", "data"}
                                 /\ card'.s.nlen = card.s.nlen /\ card'.s.data = card.s.data
    BY <1>0, <2>3, NdExchange
  <2>5. rd'.step \in {"select_cc", "read_v1", "done"} /\ img' = img
    BY <2>2, NdSteps, Zenon DEF Continue, Fails
  <2>6. card'.kind = "ndef" => NdSession(old, card'.s, rd'.step)
    BY <2>4, <2>5, NdCalm
  <2>7. img.kind = "ndef" /\ rd.step \in {"read", "read_v1"}
    BY <1>2 DEF NdefSelectApp, NdefTries, At, WalkInv, Before, Pollers
  <2> QED BY <2>5, <2>6, <2>7 DEF NdImage
<1> QED BY <1>1, <1>2

LEMMA NdFilesKeep ==
  ASSUME WalkInv, NEW old, card.kind = "ndef" => NdSession(old, card.s, rd.step), img.kind = "ndef" => NdImage,
         NdefCc \/ NdefSelectFile
  PROVE  (card'.kind = "ndef" => NdSession(old, card'.s, rd'.step)) /\ (img'.kind = "ndef" => NdImage')
<1>0. card.kind = "ndef" => DOMAIN card.s = {"file", "nlen", "data"}
  BY DEF NdSession
<1> DEFINE Went(op, o) ==
        /\ After(o)
        /\ \/ \E e : Fails(e)
           \/ Accepted(o) /\ rd.step = "select_cc" /\ Continue("read_cc")
           \/ Accepted(o) /\ rd.step = "read_cc" /\ op = "nd_cc" /\ Goto("select_ndef") /\ img' = [img EXCEPT !.mle = o.rx.mle]
           \/ Accepted(o) /\ rd.step = "select_ndef" /\ Continue("read_nlen")
<1>1. PICK op \in {"nd_file", "nd_cc"} : \E a : \E o \in NdefSays(op, a, 0) : Went(op, o)
  BY Zenon DEF NdefCc, NdefSelectFile, NdefStep, Step, At
<1>2. PICK a : \E o \in NdefSays(op, a, 0) : Went(op, o)
  BY <1>1, Zenon
<1>11. PICK o \in NdefSays(op, a, 0) : Went(op, o)
  BY <1>2, Zenon
<1>3. After(o)
  BY <1>11
<1>4. /\ card'.kind = card.kind /\ card'.m = card.m
      /\ card.kind = "ndef" => /\ DOMAIN card'.s = {"file", "nlen", "data"}
                               /\ card'.s.nlen = card.s.nlen /\ card'.s.data = card.s.data
      /\ Accepted(o) => card.kind = "ndef" /\ (op = "nd_cc" => o.rx.mle = card.m.mle)
  BY <1>0, <1>3, NdExchange DEF NdSaid
<1>5. img.kind = "ndef"
  BY DEF NdefCc, NdefSelectFile, NdefStep, Step, At, WalkInv, Before, Pollers
<1>6. NdImage
  BY <1>5
<1>7. \/ rd'.step = "done" /\ img' = img
      \/ card.kind = "ndef" /\ rd.step = "select_cc" /\ rd'.step = "read_cc" /\ img' = img
      \/ card.kind = "ndef" /\ rd.step = "read_cc" /\ rd'.step = "select_ndef" /\ img' = [img EXCEPT !.mle = card.m.mle]
      \/ card.kind = "ndef" /\ rd.step = "select_ndef" /\ rd'.step = "read_nlen" /\ img' = img
  <2>1. CASE \E e : Fails(e)
    BY <2>1, NdSteps, Zenon DEF Fails
  <2>2. CASE ~(\E e : Fails(e))
    BY <1>11, <1>4, <2>2, NdSteps DEF Continue
  <2> QED BY <2>1, <2>2
<1>8. card'.kind = "ndef" => NdSession(old, card'.s, rd'.step)
  BY <1>4, <1>7, NdCalm
<1>9. CASE img' = img
  BY <1>4, <1>6, <1>7, <1>8, <1>9 DEF NdImage
<1>10. CASE card.kind = "ndef" /\ rd.step = "read_cc" /\ rd'.step = "select_ndef" /\ img' = [img EXCEPT !.mle = card.m.mle]
  <2>1. /\ DOMAIN img' = DOMAIN img /\ img'.kind = img.kind /\ img'.mle = card.m.mle
        /\ img'.nlen = img.nlen /\ img'.data = img.data
    BY <1>6, <1>10 DEF NdImage
  <2> QED BY <1>4, <1>6, <1>8, <1>10, <2>1 DEF NdImage
<1> QED BY <1>7, <1>9, <1>10

LEMMA NdNlenKeeps ==
  ASSUME WalkInv, NEW old, card.kind = "ndef" => NdSession(old, card.s, rd.step), img.kind = "ndef" => NdImage, NdefNlen
  PROVE  (card'.kind = "ndef" => NdSession(old, card'.s, rd'.step)) /\ (img'.kind = "ndef" => NdImage')
<1>0. card.kind = "ndef" => DOMAIN card.s = {"file", "nlen", "data"}
  BY DEF NdSession
<1>1. PICK o \in NdefSays("nd_read", 0, 1) :
          /\ After(o)
          /\ \/ \E e : Fails(e)
             \/ /\ Accepted(o) /\ ~(o.rx.nlen > NdefMax) /\ img' = [img EXCEPT !.nlen = o.rx.nlen]
                /\ IF o.rx.nlen = 0 THEN ReadOk("clone") ELSE Loop("chunk", 0)
  BY Zenon DEF NdefNlen, NdefStep, Step
<1>2. img.kind = "ndef" /\ rd.step = "read_nlen"
  BY DEF NdefNlen, NdefStep, Step, At, WalkInv, Before, Pollers
<1>3. NdImage /\ card.kind = "ndef" /\ img.nlen = 0 /\ img.data = <<>>
  BY <1>2 DEF NdImage
<1>4. After(o)
  BY <1>1
<1>5. /\ card'.kind = card.kind /\ card'.m = card.m /\ DOMAIN card'.s = {"file", "nlen", "data"}
      /\ card'.s.nlen = card.s.nlen /\ card'.s.data = card.s.data
      /\ Accepted(o) => o.rx.nlen = card.s.nlen
  <2>1. /\ card'.kind = card.kind /\ card'.m = card.m /\ DOMAIN card'.s = {"file", "nlen", "data"}
        /\ card'.s.nlen = card.s.nlen /\ card'.s.data = card.s.data
        /\ Accepted(o) => NdSaid(card.m, card.s, "nd_read", 0, 1, o.rx)
    BY <1>0, <1>3, <1>4, NdExchange
  <2>2. NdSaid(card.m, card.s, "nd_read", 0, 1, o.rx) => o.rx.nlen = card.s.nlen
    BY DEF NdSaid, NdefRead
  <2> QED BY <2>1, <2>2
<1>6. CASE \E e : Fails(e)
  <2>1. rd'.step = "done" /\ img' = img
    BY <1>6, NdSteps, Zenon DEF Fails
  <2>2. NdSession(old, card'.s, rd'.step)
    BY <1>3, <1>5, <2>1, NdCalm, Zenon
  <2> QED BY <1>3, <1>5, <2>1, <2>2 DEF NdImage
<1>7. CASE /\ Accepted(o) /\ ~(o.rx.nlen > NdefMax) /\ img' = [img EXCEPT !.nlen = o.rx.nlen]
           /\ IF o.rx.nlen = 0 THEN ReadOk("clone") ELSE Loop("chunk", 0)
  <2>1. \/ card.s.nlen = 0 /\ rd'.step = "clone"
        \/ card.s.nlen # 0 /\ rd'.step = "chunk" /\ rd'.i = 0
    BY <1>5, <1>7, NdSteps
  <2>2. /\ DOMAIN img' = DOMAIN img /\ img'.kind = img.kind /\ img'.mle = img.mle
        /\ img'.nlen = card.s.nlen /\ img'.data = <<>>
    BY <1>3, <1>5, <1>7 DEF NdImage
  <2>3. NdSession(old, card'.s, rd'.step)
    BY <1>3, <1>5, <2>1, NdCalm, Zenon
  <2>4. card.s.nlen \in Nat /\ card.s.nlen <= NdefMax
    BY <1>3, <1>5, <1>7, NdefAssumption DEF NdSession
  <2>5. SubSeq(card.s.data, 1, 0) = <<>>
    BY NoCells
  <2>6. img'.mle = card.m.mle
    BY <1>2, <1>3, <2>2 DEF NdImage
  <2> QED BY <1>3, <1>5, <2>1, <2>2, <2>3, <2>4, <2>5, <2>6 DEF NdImage
<1> QED BY <1>1, <1>6, <1>7

\* The chunk the poller asks for is what the listener sends.
LEMMA NdAsked ==
  ASSUME NEW left \in Nat \ {0}, NEW mle \in Nat, NEW i \in Nat, i + left <= NdefMax
  PROVE  /\ NdefChunk(left, mle) \in 1..left
         /\ NdefReadLen(i + 1, NdefChunk(left, mle)) = NdefChunk(left, mle)
<1>1. NdefCap \in Nat \ {0} /\ NdefMax \in Nat
  BY NdefAssumption
<1> DEFINE k == IF mle < 2 THEN 1 ELSE mle - 1
<1>2. k \in Nat /\ k >= 1
  OBVIOUS
<1> HIDE DEF k
<1>3. /\ Least({left, k, NdefCap}) \in {left, k, NdefCap} /\ Least({left, k, NdefCap}) <= left
      /\ Least({left, k, NdefCap}) <= NdefCap
  <2>1. left \in Int /\ k \in Int /\ NdefCap \in Int
    BY <1>1, <1>2
  <2> QED BY <2>1, LeastOfThree
<1>4. NdefChunk(left, mle) = Least({left, k, NdefCap})
  BY DEF NdefChunk, k
<1>5. NdefChunk(left, mle) \in 1..left /\ NdefChunk(left, mle) <= NdefCap
  BY <1>1, <1>2, <1>3, <1>4
<1> DEFINE n == NdefChunk(left, mle)
           rest == NdefMax + 1 - (i + 1)
<1> HIDE DEF n
<1>6. n \in Int /\ rest \in Int /\ NdefCap \in Int /\ n <= rest /\ n <= NdefCap
  BY <1>1, <1>5 DEF n
<1> HIDE DEF rest
<1>7. /\ Least({n, rest, NdefCap}) \in {n, rest, NdefCap}
      /\ Least({n, rest, NdefCap}) <= n
  BY <1>6, LeastOfThree
<1>8. Least({n, rest, NdefCap}) = n
  BY <1>6, <1>7
<1> QED BY <1>5, <1>8 DEF NdefReadLen, n, rest

LEMMA NdReadOf ==
  ASSUME NEW s, NEW off, off # 0, NEW ne
  PROVE  NdefRead(s, off, ne).data = [j \in 1..NdefReadLen(off, ne) |-> s.data[off + j - 1]]
<1>1. NdefRead(s, off, ne) = [k |-> "ok", data |-> [j \in 1..NdefReadLen(off, ne) |-> s.data[off + j - 1]]]
  BY DEF NdefRead
<1> QED BY <1>1

LEMMA NdChunkKeeps ==
  ASSUME WalkInv, NEW old, card.kind = "ndef" => NdSession(old, card.s, rd.step), img.kind = "ndef" => NdImage,
         ModelOk(card.kind, card.m), NdefChunks
  PROVE  (card'.kind = "ndef" => NdSession(old, card'.s, rd'.step)) /\ (img'.kind = "ndef" => NdImage')
<1>0. card.kind = "ndef" => DOMAIN card.s = {"file", "nlen", "data"}
  BY DEF NdSession
<1> DEFINE n == NdefChunk(img.nlen - rd.i, img.mle)
<1>1. PICK o \in NdefSays("nd_read", rd.i + 1, n) :
          /\ After(o)
          /\ \/ \E e : Fails(e)
             \/ /\ Accepted(o) /\ img' = [img EXCEPT !.data = @ \o SubSeq(o.rx.data, 1, n)]
                /\ IF rd.i + n < img.nlen THEN Loop("chunk", rd.i + n) ELSE ReadOk("clone")
  BY Zenon DEF NdefChunks, NdefStep, Step
<1>2. img.kind = "ndef" /\ rd.step = "chunk"
  BY DEF NdefChunks, NdefStep, Step, At, WalkInv, Before, Pollers
<1>3. /\ NdImage /\ card.kind = "ndef" /\ img.nlen = card.s.nlen /\ img.nlen <= NdefMax
      /\ rd.i \in Nat /\ rd.i < img.nlen /\ img.data = SubSeq(card.s.data, 1, rd.i) /\ img.mle = card.m.mle
  BY <1>2 DEF NdImage
<1>4. card.s.nlen \in Nat /\ card.s.data \in [1..NdefMax -> Nat] /\ NdefMax \in Nat /\ card.m.mle \in Nat
  BY <1>3, NdefAssumption DEF NdSession, ModelOk, NdefModelOk
<1>5. n \in 1..(img.nlen - rd.i) /\ NdefReadLen(rd.i + 1, n) = n
  <2>1. img.nlen - rd.i \in Nat \ {0} /\ img.mle \in Nat /\ rd.i + (img.nlen - rd.i) <= NdefMax
    BY <1>3, <1>4
  <2> QED BY <1>3, <2>1, NdAsked, Zenon
<1> HIDE DEF n
<1>6. After(o)
  BY <1>1
<1>7. /\ card'.kind = card.kind /\ card'.m = card.m /\ DOMAIN card'.s = {"file", "nlen", "data"}
      /\ card'.s.nlen = card.s.nlen /\ card'.s.data = card.s.data
      /\ Accepted(o) => NdSaid(card.m, card.s, "nd_read", rd.i + 1, n, o.rx)
  BY <1>0, <1>3, <1>6, NdExchange
<1>8. CASE \E e : Fails(e)
  <2>1. rd'.step = "done" /\ img' = img
    BY <1>8, NdSteps, Zenon DEF Fails
  <2>2. NdSession(old, card'.s, rd'.step)
    BY <1>3, <1>7, <2>1, NdCalm, Zenon
  <2> QED BY <1>3, <1>7, <2>1, <2>2 DEF NdImage
<1>9. CASE /\ Accepted(o) /\ img' = [img EXCEPT !.data = @ \o SubSeq(o.rx.data, 1, n)]
           /\ IF rd.i + n < img.nlen THEN Loop("chunk", rd.i + n) ELSE ReadOk("clone")
  <2>1. o.rx = NdefRead(card.s, rd.i + 1, n)
    BY <1>7, <1>9 DEF NdSaid
  <2>2. o.rx.data = [j \in 1..n |-> card.s.data[rd.i + 1 + j - 1]]
    <3>1. rd.i + 1 # 0
      BY <1>3
    <3>2. NdefRead(card.s, rd.i + 1, n).data = [j \in 1..NdefReadLen(rd.i + 1, n) |-> card.s.data[rd.i + 1 + j - 1]]
      BY <3>1, NdReadOf
    <3> QED BY <1>5, <2>1, <3>2, Zenon
  <2>3. o.rx.data = [j \in 1..n |-> card.s.data[rd.i + j]]
    <3>1. \A j \in 1..n : rd.i + 1 + j - 1 = rd.i + j
      BY <1>3, <1>5
    <3> QED BY <2>2, <3>1, Zenon
  <2>4. img.data \o SubSeq(o.rx.data, 1, n) = SubSeq(card.s.data, 1, rd.i + n)
    <3>1. n \in Nat /\ rd.i + n <= NdefMax
      <4>1. rd.i \in Nat /\ img.nlen \in Nat /\ NdefMax \in Nat /\ img.nlen <= NdefMax /\ n \in 1..(img.nlen - rd.i)
        BY <1>3, <1>4, <1>5
      <4> QED BY <4>1
    <3>2. SubSeq(card.s.data, 1, rd.i) \o SubSeq([j \in 1..n |-> card.s.data[rd.i + j]], 1, n)
              = SubSeq(card.s.data, 1, rd.i + n)
      BY <1>3, <1>4, <3>1, NdGrows, Zenon
    <3> QED BY <1>3, <2>3, <3>2, Zenon
  <2>5. /\ DOMAIN img' = DOMAIN img /\ img'.kind = img.kind /\ img'.mle = img.mle
        /\ img'.nlen = img.nlen /\ img'.data = SubSeq(card.s.data, 1, rd.i + n)
    BY <1>3, <1>9, <2>4, Zenon DEF NdImage
  <2>6. \/ rd'.step = "chunk" /\ rd'.i = rd.i + n /\ rd'.i \in Nat /\ rd'.i < img.nlen
        \/ rd'.step = "clone" /\ rd.i + n = img.nlen
    <3>1. n \in Nat /\ rd.i \in Nat /\ img.nlen \in Nat /\ rd.i + n <= img.nlen
      BY <1>3, <1>4, <1>5
    <3>2. (rd'.step = "chunk" /\ rd'.i = rd.i + n /\ rd.i + n < img.nlen) \/ (rd'.step = "clone" /\ ~(rd.i + n < img.nlen))
      BY <1>9, NdSteps, Zenon
    <3> QED BY <3>1, <3>2
  <2>7. NdSession(old, card'.s, rd'.step)
    BY <1>3, <1>7, <2>6, NdCalm, Zenon
  <2> QED BY <1>3, <1>7, <2>5, <2>6, <2>7, Zenon DEF NdImage
<1> QED BY <1>1, <1>8, <1>9, Zenon

LEMMA NdWriteKeeps ==
  ASSUME WalkInv, NEW old, card.kind = "ndef" => NdSession(old, card.s, rd.step),
         old.nlen \in Nat, old.data \in [1..NdefMax -> Nat], NdefWriter
  PROVE  (card'.kind = "ndef" => NdSession(old, card'.s, rd'.step)) /\ (img'.kind = "ndef" => NdImage')
<1>1. card.kind = "ndef" /\ NdSession(old, card.s, rd.step) /\ img' = img
  BY DEF NdefWriter
<1>2. DOMAIN card.s = {"file", "nlen", "data"} /\ card.s.data \in [1..NdefMax -> Nat] /\ NdefMax \in Nat /\ card.s.nlen \in Nat
  BY <1>1, NdefAssumption DEF NdSession
<1>3. PICK w \in {<<"w_zero", 0, 0, "w_data">>, <<"w_data", 1, <<NdefNew.len, NdefNew.mark>>, "w_nlen">>,
                  <<"w_nlen", 0, NdefNew.len, "detect">>} :
          /\ rd.step = w[1]
          /\ \E o \in NdefSays("nd_update", w[2], w[3]) : After(o) /\ Goto(IF Accepted(o) THEN w[4] ELSE "detect")
  BY Zenon DEF NdefWriter
<1>4. PICK o \in NdefSays("nd_update", w[2], w[3]) : After(o) /\ Goto(IF Accepted(o) THEN w[4] ELSE "detect")
  BY <1>3, Zenon
<1>5. After(o)
  BY <1>4
<1>6. img = NoImage
  BY <1>3 DEF WalkInv, Before
<1>7. rd'.step = IF Accepted(o) THEN w[4] ELSE "detect"
  BY <1>4, NdSteps, Zenon
<1>8. /\ card'.kind = card.kind
      /\ card'.s = NdefUpdate(card.s, Cmd("nd_update", w[2], w[3])) \/ (card'.s = card.s /\ ~Accepted(o))
  BY <1>1, <1>2, <1>5, NdExchange
<1>9. NdefNew.len = NdefMax /\ NdefNew.mark = 2
  BY DEF NdefNew
<1>10. NdNewData \in [1..NdefMax -> Nat]
  BY <1>2, <1>9 DEF NdNewData
<1>11. NdSession(old, card'.s, rd'.step)
  <2>1. CASE card'.s = card.s /\ ~Accepted(o)
    BY <1>1, <1>2, <1>7, <2>1, NdCalm, Zenon
  <2>2. CASE w = <<"w_zero", 0, 0, "w_data">> /\ card'.s = NdefUpdate(card.s, Cmd("nd_update", w[2], w[3]))
    <3>1. card'.s = [card.s EXCEPT !.nlen = 0]
      BY <2>2 DEF NdefUpdate, Cmd
    <3>2. rd'.step \in {"w_data", "detect"}
      BY <1>7, <2>2
    <3>3. DOMAIN card'.s = {"file", "nlen", "data"} /\ card'.s.nlen = 0 /\ card'.s.data = card.s.data
      BY <1>2, <3>1
    <3> QED BY <1>1, <3>2, <3>3 DEF NdSession
  <2>3. CASE /\ w = <<"w_data", 1, <<NdefNew.len, NdefNew.mark>>, "w_nlen">>
             /\ card'.s = NdefUpdate(card.s, Cmd("nd_update", w[2], w[3]))
    <3>1. w[2] = 1 /\ w[3] = <<NdefMax, NdefNew.mark>> /\ w[1] = "w_data" /\ w[4] = "w_nlen"
      BY <1>9, <2>3
    <3>2. card'.s = [card.s EXCEPT !.data = [p \in DOMAIN @ |-> IF p >= 1 /\ p < 1 + NdefMax THEN NdefNew.mark ELSE @[p]]]
      BY <2>3, <3>1 DEF NdefUpdate, Cmd
    <3>3. /\ DOMAIN card'.s = {"file", "nlen", "data"} /\ card'.s.nlen = card.s.nlen
          /\ card'.s.data = [p \in 1..NdefMax |-> IF p >= 1 /\ p < 1 + NdefMax THEN NdefNew.mark ELSE card.s.data[p]]
      BY <1>2, <3>2
    <3>4. card'.s.data = NdNewData
      BY <1>2, <3>3 DEF NdNewData
    <3>5. card.s.nlen = 0
      BY <1>1, <1>3, <3>1 DEF NdSession
    <3>6. rd'.step \in {"w_nlen", "detect"}
      BY <1>7, <3>1
    <3> QED BY <1>10, <3>3, <3>4, <3>5, <3>6 DEF NdSession
  <2>4. CASE w = <<"w_nlen", 0, NdefNew.len, "detect">> /\ card'.s = NdefUpdate(card.s, Cmd("nd_update", w[2], w[3]))
    <3>1. w[2] = 0 /\ w[3] = NdefMax /\ w[1] = "w_nlen" /\ w[4] = "detect"
      BY <1>9, <2>4
    <3>2. card'.s = [card.s EXCEPT !.nlen = NdefMax]
      BY <2>4, <3>1 DEF NdefUpdate, Cmd
    <3>3. DOMAIN card'.s = {"file", "nlen", "data"} /\ card'.s.nlen = NdefMax /\ card'.s.data = card.s.data
      BY <1>2, <3>2
    <3>4. card.s.data = NdNewData
      BY <1>1, <1>3, <3>1 DEF NdSession
    <3>5. rd'.step = "detect"
      BY <1>7, <3>1
    <3> QED BY <1>2, <1>10, <3>3, <3>4, <3>5 DEF NdSession
  <2> QED BY <1>3, <1>8, <2>1, <2>2, <2>3, <2>4
<1> QED BY <1>1, <1>6, <1>11 DEF NoImage

LEMMA NdKeeps ==
  ASSUME WalkInv, NEW old, card.kind = "ndef" => NdSession(old, card.s, rd.step), img.kind = "ndef" => NdImage,
         card.kind = "ndef" => old.nlen \in Nat /\ old.data \in [1..NdefMax -> Nat], ModelOk(card.kind, card.m), NdefNext
  PROVE  (card'.kind = "ndef" => NdSession(old, card'.s, rd'.step)) /\ (img'.kind = "ndef" => NdImage')
<1>1. NdefWriter => card.kind = "ndef"
  BY DEF NdefWriter
<1> QED BY <1>1, NdFindKeeps, NdFilesKeep, NdNlenKeeps, NdChunkKeeps, NdWriteKeeps DEF NdefNext

-----------------------------------------------------------------------------
(* The walk over a card, whatever is lost.                                  *)

NdInv ==
    /\ card.kind = "ndef" => NdSession(first.card.s, card.s, rd.step)
    /\ img.kind = "ndef" => NdImage

ImageInv == ClInv /\ IsoInv /\ UlInv /\ DfInv /\ EmvInv /\ FeInv /\ NdInv

WalkingInv ==
    /\ WalkInv /\ first.card \in Cards /\ first.p \in {1, 2} /\ turn \in {1, 2}
    /\ turn = 1 => card.kind = first.card.kind /\ card.m = first.card.m /\ ImageInv

LEMMA FirstIsOk ==
  ASSUME WalkingInv
  PROVE  CardOk(first.card)
BY CardsAssumption DEF WalkingInv

LEMMA ModelIsOk ==
  ASSUME WalkingInv, turn = 1
  PROVE  ModelOk(card.kind, card.m)
BY FirstIsOk DEF WalkingInv, CardOk

\* A step of the pollers of some kinds leaves what is known of the others.
LEMMA OthersKeep ==
  ASSUME ImageInv, first' = first, NEW kinds, Kept(kinds)
  PROVE  /\ "classic" \notin kinds => ClInv'
         /\ "iso15693_3" \notin kinds /\ "slix" \notin kinds => IsoInv'
         /\ "ultralight" \notin kinds => UlInv'
         /\ "desfire" \notin kinds => DfInv'
         /\ "emv" \notin kinds => EmvInv'
         /\ "felica" \notin kinds => FeInv'
         /\ "ndef" \notin kinds => NdInv'
<1>1. /\ card'.kind = card.kind /\ card'.m = card.m /\ (card.kind \notin kinds => card'.s = card.s)
      /\ \A k : k # "none" /\ k \notin kinds => img'.kind # k
      /\ "ndef" \in kinds \/ rd'.step \notin {"w_data", "w_nlen"}
  BY DEF Kept
<1>2. "classic" \notin kinds => ClInv'
  BY <1>1 DEF ImageInv, ClInv
<1>3. "iso15693_3" \notin kinds /\ "slix" \notin kinds => IsoInv'
  BY <1>1 DEF ImageInv, IsoInv
<1>4. "ultralight" \notin kinds => UlInv'
  BY <1>1 DEF ImageInv, UlInv
<1>5. ("desfire" \notin kinds => DfInv') /\ ("emv" \notin kinds => EmvInv') /\ ("felica" \notin kinds => FeInv')
  BY <1>1 DEF DfInv, EmvInv, FeInv
<1>6. "ndef" \notin kinds => NdInv'
  <2> SUFFICES ASSUME "ndef" \notin kinds PROVE NdInv'
    OBVIOUS
  <2>1. card.kind = "ndef" => NdSession(first.card.s, card.s, rd'.step)
    BY <1>1 DEF ImageInv, NdInv, NdSession
  <2> QED BY <1>1, <2>1 DEF NdInv
<1> QED BY <1>2, <1>3, <1>4, <1>5, <1>6

LEMMA ReadKeeps ==
  ASSUME WalkingInv, Read
  PROVE  WalkingInv'
<1>1. first' = first /\ turn' = turn
  BY DEF Read
<1>2. WalkInv
  BY DEF WalkingInv
<1> DEFINE Holds == WalkInv' /\ card'.kind = card.kind /\ card'.m = card.m /\ (turn = 1 => ImageInv')
<1>3. Holds
  <2>1. turn = 1 => ModelOk(card.kind, card.m) /\ ImageInv
    BY ModelIsOk DEF WalkingInv
  <2>2. CASE ClassicNext
    <3>1. WalkInv' /\ Kept({"classic"})
      BY <1>2, <2>2, ClassicWalk
    <3>2. turn = 1 => ClInv'
      BY <1>2, <2>1, <2>2, ClassicKeeps DEF ImageInv
    <3> QED BY <1>1, <2>1, <3>1, <3>2, OthersKeep, Zenon DEF ImageInv, Kept
  <2>3. CASE IsoNext
    <3>1. WalkInv' /\ Kept({"iso15693_3", "slix"})
      BY <1>2, <2>3, IsoWalk
    <3>2. turn = 1 => IsoInv'
      BY <1>2, <2>1, <2>3, IsoKeeps DEF ImageInv, ModelOk
    <3> QED BY <1>1, <2>1, <3>1, <3>2, OthersKeep, Zenon DEF ImageInv, Kept
  <2>4. CASE FelicaNext
    <3>1. WalkInv' /\ Kept({"felica"})
      BY <1>2, <2>4, FelicaWalk
    <3>2. turn = 1 => FeInv'
      BY <1>2, <2>1, <2>4, FeKeeps DEF ImageInv, ModelOk
    <3> QED BY <1>1, <2>1, <3>1, <3>2, OthersKeep, Zenon DEF ImageInv, Kept
  <2>5. CASE UltralightNext
    <3>1. WalkInv' /\ Kept({"ultralight"})
      BY <1>2, <2>5, UltralightWalk
    <3>2. turn = 1 => UlInv'
      BY <1>2, <2>1, <2>5, UlKeeps DEF ImageInv, ModelOk
    <3> QED BY <1>1, <2>1, <3>1, <3>2, OthersKeep, Zenon DEF ImageInv, Kept
  <2>6. CASE NdefNext
    <3>1. WalkInv' /\ Kept({"ndef"})
      BY <1>2, <2>6, NdefWalk
    <3>2. ASSUME turn = 1 PROVE NdInv'
      <4>1. PICK old : old = first.card.s
        OBVIOUS
      <4>2. (card.kind = "ndef" => NdSession(old, card.s, rd.step)) /\ (img.kind = "ndef" => NdImage)
        BY <2>1, <3>2, <4>1 DEF ImageInv, NdInv
      <4>3. card.kind = "ndef" => old.nlen \in Nat /\ old.data \in [1..NdefMax -> Nat]
        BY <3>2, <4>1, FirstIsOk DEF WalkingInv, CardOk, Fresh
      <4>4. (card'.kind = "ndef" => NdSession(old, card'.s, rd'.step)) /\ (img'.kind = "ndef" => NdImage')
        BY <1>2, <2>1, <2>6, <3>2, <4>2, <4>3, NdKeeps
      <4> QED BY <1>1, <4>1, <4>4 DEF NdInv
    <3>3. turn = 1 => NdInv'
      BY <3>2
    <3>4. turn = 1 => ClInv' /\ IsoInv' /\ UlInv' /\ DfInv' /\ EmvInv' /\ FeInv'
      BY <1>1, <2>1, <3>1, OthersKeep
    <3>5. card'.kind = card.kind /\ card'.m = card.m
      BY <3>1 DEF Kept
    <3> QED BY <3>1, <3>3, <3>4, <3>5 DEF ImageInv
  <2>7. CASE DesfireNext
    <3>1. WalkInv' /\ Kept({"desfire"})
      BY <1>2, <2>7, DesfireWalk
    <3>2. turn = 1 => DfInv'
      BY <1>2, <2>1, <2>7, DfKeeps DEF ImageInv
    <3> QED BY <1>1, <2>1, <3>1, <3>2, OthersKeep, Zenon DEF ImageInv, Kept
  <2>8. CASE EmvNext
    <3>1. WalkInv' /\ Kept({"emv"})
      BY <1>2, <2>8, EmvWalk
    <3>2. turn = 1 => EmvInv'
      BY <1>2, <2>1, <2>8, EmvKeeps DEF ImageInv
    <3> QED BY <1>1, <2>1, <3>1, <3>2, OthersKeep, Zenon DEF ImageInv, Kept
  <2>9. CASE AliroNext
    <3>1. WalkInv' /\ Kept({"aliro"})
      BY <1>2, <2>9, AliroWalk
    <3> QED BY <1>1, <2>1, <3>1, OthersKeep, Zenon DEF ImageInv, Kept
  <2> QED BY <2>2, <2>3, <2>4, <2>5, <2>6, <2>7, <2>8, <2>9 DEF Read
<1> HIDE DEF Holds
<1>4. WalkInv' /\ card'.kind = card.kind /\ card'.m = card.m /\ (turn = 1 => ImageInv')
  BY <1>3 DEF Holds
<1> QED BY <1>1, <1>4 DEF WalkingInv

LEMMA CloneKeeps ==
  ASSUME WalkingInv, Clone
  PROVE  WalkingInv'
<1>1. card' = card /\ img' = img /\ lost' = lost /\ first' = first /\ turn' = turn /\ rd.step = "clone"
  BY DEF Clone
<1>2. \E e : rd' = [rd EXCEPT !.step = "done", !.err = e]
  BY Zenon DEF Clone, ReadFails
<1>3. rd'.step = "done" /\ rd'.p = rd.p /\ DOMAIN rd' = DOMAIN rd
  BY <1>2 DEF WalkingInv, WalkInv
<1>4. WalkInv'
  BY <1>1, <1>3 DEF WalkingInv, WalkInv, Before
<1>5. ASSUME turn = 1 PROVE ImageInv'
  <2>1. ClInv' /\ UlInv' /\ IsoInv'
    BY <1>1, <1>3, <1>5 DEF WalkingInv, ImageInv, ClInv, UlInv, IsoInv
  <2>2. DfInv'
    BY <1>1, <1>3, <1>5 DEF WalkingInv, ImageInv, DfInv
  <2>3. EmvInv'
    BY <1>1, <1>3, <1>5 DEF WalkingInv, ImageInv, EmvInv
  <2>4. FeInv'
    BY <1>1, <1>3, <1>5 DEF WalkingInv, ImageInv, FeInv
  <2>5. NdInv'
    BY <1>1, <1>3, <1>5 DEF WalkingInv, ImageInv, NdInv, NdSession, NdImage
  <2> QED BY <2>1, <2>2, <2>3, <2>4, <2>5 DEF ImageInv
<1> QED BY <1>1, <1>4, <1>5 DEF WalkingInv

LEMMA LoadKeeps ==
  ASSUME WalkingInv, Load
  PROVE  WalkingInv'
<1>1. first' = first /\ lost' = lost /\ turn = 1 /\ rd.step = "done"
  BY DEF Load
<1>2. CASE turn' = 2 /\ img' = NoImage /\ card' = CardOf(stored)
           /\ rd' = [rd EXCEPT !.p = first.p, !.step = "detect", !.err = "none", !.word = 0]
  <2>1. DOMAIN card' = {"kind", "m", "s"}
    BY <1>2 DEF CardOf
  <2>2. DOMAIN rd' = DOMAIN rd /\ rd'.p \in 1..9 /\ rd'.step = "detect"
    BY <1>2 DEF WalkingInv, WalkInv
  <2>3. "kind" \in DOMAIN img'
    BY <1>2 DEF NoImage
  <2>4. WalkInv'
    BY <1>1, <1>2, <2>1, <2>2, <2>3 DEF WalkingInv, WalkInv, Before
  <2> QED BY <1>1, <1>2, <2>4 DEF WalkingInv
<1>3. CASE card' = card /\ turn' = turn /\ img' = img /\ rd' = [rd EXCEPT !.err = "EBADMSG_load"]
  <2>1. rd'.step = rd.step /\ rd'.p = rd.p /\ DOMAIN rd' = DOMAIN rd /\ rd'.i = rd.i /\ rd'.word = rd.word
    BY <1>3 DEF WalkingInv, WalkInv
  <2>2. WalkInv'
    BY <1>1, <1>3, <2>1 DEF WalkingInv, WalkInv
  <2>3. ClInv' /\ UlInv' /\ IsoInv' /\ DfInv' /\ EmvInv' /\ FeInv' /\ NdInv'
    <3>1. ClInv' /\ UlInv' /\ IsoInv'
      BY <1>1, <1>3, <2>1 DEF WalkingInv, ImageInv, ClInv, UlInv, IsoInv
    <3>2. DfInv' /\ EmvInv'
      BY <1>1, <1>3, <2>1 DEF WalkingInv, ImageInv, DfInv, EmvInv
    <3>3. FeInv' /\ NdInv'
      BY <1>1, <1>3, <2>1 DEF WalkingInv, ImageInv, FeInv, NdInv, NdImage
    <3> QED BY <3>1, <3>2, <3>3
  <2> QED BY <1>1, <1>3, <2>2, <2>3 DEF WalkingInv, ImageInv
<1> QED BY <1>2, <1>3 DEF Load

LEMMA WalkingStarts ==
  ASSUME Init
  PROVE  WalkingInv
<1>1. PICK p \in {1, 2}, step \in {"detect", "unlock", "w_zero"} :
          rd = [p |-> p, step |-> step, i |-> 0, flag |-> FALSE, err |-> "none", word |-> 0]
  BY Zenon DEF Init
<1>2. card \in Cards /\ img = NoImage /\ lost = 0 /\ turn = 1 /\ first = [card |-> card, p |-> rd.p]
  BY DEF Init
<1>3. CardOk(card)
  BY <1>2, CardsAssumption
<1>4. img.kind = "none" /\ "kind" \in DOMAIN img
  BY <1>2 DEF NoImage
<1>5. WalkInv
  BY <1>1, <1>2, <1>3, <1>4 DEF WalkInv, CardOk, Before
<1>6. ClInv /\ IsoInv /\ DfInv /\ EmvInv /\ FeInv
  BY <1>3, <1>4 DEF CardOk, Fresh, ClInv, ClSession, ClIdle, IsoInv, DfInv, EmvInv, FeInv
<1>7. UlInv
  <2>1. \A page : UlLoaded(card.m).auth = "success" => ~NeedsAuth(UlCardConfig(card.m), page)
    BY DEF UlLoaded, NeedsAuth
  <2> QED BY <1>3, <1>4, <2>1 DEF CardOk, Fresh, UlInv, UlSession
<1>8. NdInv
  BY <1>1, <1>2, <1>3, <1>4 DEF CardOk, Fresh, NdInv, NdSession
<1> QED BY <1>1, <1>2, <1>5, <1>6, <1>7, <1>8 DEF WalkingInv, ImageInv

LEMMA Walks == Spec => []WalkingInv
<1>1. Init => WalkingInv
  BY WalkingStarts
<1>2. WalkingInv /\ [Next]_vars => WalkingInv'
  <2> SUFFICES ASSUME WalkingInv, [Next]_vars PROVE WalkingInv'
    OBVIOUS
  <2>1. CASE vars' = vars
    <3>1. card' = card /\ img' = img /\ rd' = rd /\ lost' = lost /\ first' = first /\ turn' = turn
      BY <2>1 DEF vars, linkVars
    <3>2. WalkInv'
      BY <3>1 DEF WalkingInv, WalkInv
    <3>3. turn = 1 => ClInv' /\ IsoInv'
      BY <3>1 DEF WalkingInv, ImageInv, ClInv, IsoInv
    <3>4. turn = 1 => UlInv' /\ DfInv'
      BY <3>1 DEF WalkingInv, ImageInv, UlInv, DfInv
    <3>5. turn = 1 => EmvInv' /\ FeInv'
      BY <3>1 DEF WalkingInv, ImageInv, EmvInv, FeInv
    <3>6. turn = 1 => NdInv'
      BY <3>1 DEF WalkingInv, ImageInv, NdInv, NdImage
    <3> QED BY <3>1, <3>2, <3>3, <3>4, <3>5, <3>6 DEF WalkingInv, ImageInv
  <2> QED BY <2>1, ReadKeeps, CloneKeeps, LoadKeeps DEF Next
<1> QED BY <1>1, <1>2, PTL DEF Spec

\* Nothing that a key guards reaches an image: the Classic, Ultralight, DESFire and
\* SLIX pollers and listeners together, with any exchange lost.
THEOREM GuardedStaysOutHolds == Spec => []GuardedStaysOut
<1>1. WalkingInv => GuardedStaysOut
  <2> SUFFICES ASSUME WalkingInv, turn = 1 PROVE GuardedStaysOut
    BY DEF GuardedStaysOut
  <2>1. ClInv /\ IsoInv /\ UlInv /\ DfInv
    BY DEF WalkingInv, ImageInv
  <2>2. img.kind = "classic" =>
            \A b \in DOMAIN img.data : img.data[b] # 0 => card.m.key[ClSectorOf(b)] = "default"
    BY <2>1 DEF ClInv, ClImage, ClReadBlock
  <2>3. img.kind = "ultralight" =>
            \A p \in DOMAIN img.pages :
                img.pages[p] # 0 /\ NeedsAuth(UlCardConfig(card.m), p) =>
                    \/ UlCardConfig(card.m).pwd \in {DefaultPwd, 0}
                    \/ ~NeedsAuth(UlCardConfig(card.m), PwdPage(UlTotal[card.m.type]))
    BY <2>1 DEF UlInv, UlImage, UlGot, UlOpen
  <2>4. img.kind = "desfire" => \A a \in Range(img.apps) : \A f \in Range(a.files) : f.len # 0 => f.plain /\ f.free
    <3> SUFFICES ASSUME img.kind = "desfire", NEW a \in Range(img.apps), NEW f \in Range(a.files), f.len # 0
                 PROVE  f.plain /\ f.free
      OBVIOUS
    <3>1. img.apps # <<>>
      BY DEF Range
    <3>2. a = img.apps[1]
      BY <2>1, <3>1 DEF DfInv, Range
    <3>3. PICK n \in DOMAIN a.files : f = a.files[n]
      BY DEF Range
    <3>4. a.files \in Seq(DfFiles) /\ n \in 1..Len(a.files)
      BY <2>1, <3>1, <3>2, <3>3 DEF DfInv, DfFilesRead
    <3>5. DfRead(card.m, f) \/ DfFetched(card.m, card.s, f)
      BY <2>1, <3>1, <3>2, <3>3, <3>4 DEF DfInv, DfFilesRead
    <3>6. f \in DfFiles
      BY <3>3, <3>4
    <3>7. DOMAIN f = {"id", "type", "plain", "free", "size", "len"}
      BY <3>6 DEF DfFiles
    <3>8. \A g, x : f = [g EXCEPT !.len = x] => f.len = x /\ g.free = f.free /\ g.plain = f.plain
      BY <3>7
    <3>9. ~DfFetched(card.m, card.s, f)
      BY <3>8 DEF DfFetched
    <3> QED BY <3>5, <3>8, <3>9, Zenon DEF DfRead
  <2>5. img.kind = "slix" /\ img.uid # "none" => ~card.s.privacy
    BY <2>1 DEF IsoInv
  <2> QED BY <2>2, <2>3, <2>4, <2>5 DEF GuardedStaysOut
<1> QED BY <1>1, Walks, PTL

\* Whatever is lost, an image has nothing that is not the card's: the blocks, pages,
\* files and records of every poller, and one whole message of an NDEF file that a
\* phone was writing.
THEOREM FromTheCardHolds == Spec => []FromTheCard
<1>1. WalkingInv => FromTheCard
  <2> SUFFICES ASSUME WalkingInv, turn = 1, img.kind = card.kind PROVE FromTheCard
    BY DEF FromTheCard
  <2>1. ClInv /\ IsoInv /\ UlInv /\ DfInv /\ EmvInv /\ FeInv /\ NdInv
    BY DEF WalkingInv, ImageInv
  <2>2. CASE img.kind \in {"iso15693_3", "slix"}
    <3>1. IsoImage(card.m, img)
      BY <2>1, <2>2 DEF IsoInv
    <3> QED BY <2>2, <3>1 DEF FromTheCard, IsoImage
  <2>3. CASE img.kind = "classic"
    <3>1. \A b \in DOMAIN img.data : img.data[b] # 0 => img.data[b] = b + 1 /\ b < ClTotal(card.m.type)
      BY <2>1, <2>3 DEF ClInv, ClImage, ClReadBlock
    <3> QED BY <2>3, <3>1 DEF FromTheCard
  <2>4. CASE img.kind = "felica"
    <3>1. \A n \in DOMAIN img.blocks : img.blocks[n].data \in {0, FeContent(card.m, n - 1)}
      BY <2>1, <2>4 DEF FeInv, FeOwn
    <3> QED BY <2>4, <3>1 DEF FromTheCard
  <2>5. CASE img.kind = "ultralight"
    <3>1. UlImage(card.m, img)
      BY <2>1, <2>5 DEF UlInv
    <3> QED BY <2>5, <3>1 DEF FromTheCard, UlImage, UlGot
  <2>6. CASE img.kind = "ndef"
    <3> SUFFICES ASSUME rd.step = "clone"
                 PROVE  \/ img.nlen = NdefNew.len /\ \A n \in 1..img.nlen : img.data[n] = NdefNew.mark
                        \/ img.nlen \in {0, first.card.s.nlen} /\ img.data = SubSeq(first.card.s.data, 1, img.nlen)
      BY <2>6 DEF FromTheCard
    <3>1. img.nlen = card.s.nlen /\ img.data = SubSeq(card.s.data, 1, img.nlen) /\ NdSession(first.card.s, card.s, rd.step)
      BY <2>1, <2>6 DEF NdInv, NdImage
    <3>2. CASE card.s.data = first.card.s.data /\ card.s.nlen \in {0, first.card.s.nlen}
      BY <3>1, <3>2
    <3>3. CASE card.s.data = NdNewData /\ card.s.nlen = 0
      <4>1. SubSeq(card.s.data, 1, 0) = <<>> /\ SubSeq(first.card.s.data, 1, 0) = <<>>
        BY NoCells
      <4> QED BY <3>1, <3>3, <4>1
    <3>4. CASE card.s.data = NdNewData /\ card.s.nlen = NdefMax
      <4>1. NdNewData \in Seq(Nat) /\ Len(NdNewData) = NdefMax /\ \A n \in 1..NdefMax : NdNewData[n] = NdefNew.mark
        BY NdefAssumption DEF NdNewData, NdefNew
      <4>2. SubSeq(NdNewData, 1, NdefMax) = NdNewData
        BY <4>1, AllCells
      <4> QED BY <3>1, <3>4, <4>1, <4>2 DEF NdefNew
    <3> QED BY <3>1, <3>2, <3>3, <3>4 DEF NdSession
  <2>7. CASE img.kind = "desfire"
    <3> SUFFICES ASSUME rd.step = "clone", NEW a \in Range(img.apps), NEW f \in Range(a.files)
                 PROVE  \E g \in Range(card.m.apps[1].files) : f = [g EXCEPT !.len = g.size] /\ g.size <= g.len
      BY <2>7 DEF FromTheCard
    <3>1. img.apps # <<>>
      BY DEF Range
    <3>2. a = img.apps[1] /\ DfFilesRead(card.m, a.files, Len(a.files))
      BY <2>1, <2>7, <3>1 DEF DfInv, Range
    <3>3. DfRead(card.m, f)
      BY <3>2 DEF DfFilesRead, Range
    <3> QED BY <3>3, Zenon DEF DfRead
  <2>8. CASE img.kind = "emv"
    <3>1. \A n \in DOMAIN img.recs : img.recs[n] \in Range(card.m.recs)
      BY <2>1, <2>8 DEF EmvInv
    <3> QED BY <2>8, <3>1 DEF FromTheCard
  <2>9. CASE img.kind \notin {"iso15693_3", "slix", "classic", "felica", "ultralight", "ndef", "desfire", "emv"}
    BY <2>9 DEF FromTheCard
  <2> QED BY <2>2, <2>3, <2>4, <2>5, <2>6, <2>7, <2>8, <2>9
<1> QED BY <1>1, Walks, PTL
=============================================================================
