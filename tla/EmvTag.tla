-------------------------------- MODULE EmvTag --------------------------------
(***************************************************************************)
(* EMV (src/nfc/protocols/emv).  The model of a card is [aid, first, last, *)
(* recs]: the application's AID, the range of records its AFL announces,   *)
(* and the records (0: empty) by their place in the image.  A record is    *)
(* the mark of its content; the image takes PAN and track 2 from the last  *)
(* record that has them, and here every record has.                        *)
(***************************************************************************)
EXTENDS IsoDepLink

EmvMaxRecords == 2   \* CONFIG_NFC_EMV_MAX_RECORDS

EmvBlank == [kind |-> "emv", aid |-> "none", first |-> 0, last |-> 0, recs |-> <<>>, pan |-> 0]

\* records are numbered from 1, and record_data has EmvMaxRecords places
EmvModelOk(m) == m.first \in 1..EmvMaxRecords /\ m.last \in 0..EmvMaxRecords /\ m.recs \in Seq(Nat)

-----------------------------------------------------------------------------
(* The listener: session [st]                                               *)

\* emv_listener_on_select
EmvSelect(m, aid) ==
    IF aid = "PPSE" THEN Answer([st |-> "PPSE"], [k |-> "ok", aid |-> m.aid])
    ELSE IF aid = m.aid THEN Answer([st |-> "APP"], [k |-> "ok"])
    ELSE Refused([st |-> "IDLE"])

\* a place beyond record_count holds zeros
EmvRecord(m, place) == IF place <= Len(m.recs) THEN m.recs[place] ELSE 0

\* record number to place in record_data
EmvPlace(rec) == rec

\* emv_listener_on_apdu
EmvOn(m, s, c) ==
    CASE c.op = "select" -> EmvSelect(m, c.a)
      [] c.op = "emv_gpo" /\ s.st = "APP" -> Answer([st |-> "GPO"], [k |-> "ok", first |-> m.first, last |-> m.last])
      [] c.op = "emv_record" /\ s.st = "GPO" /\ c.a \in m.first..m.last ->
             Answer(s, [k |-> "ok", rec |-> EmvRecord(m, EmvPlace(c.a))])
      [] OTHER -> Refused(s)

\* emv_serialize
EmvBlob(im) ==
    [kind |-> "emv", aid |-> im.aid, first |-> im.first, last |-> im.last, recs |-> im.recs, pan |-> im.pan]

\* emv_deserialize, and what emv_listener_rebuild_wire serves of it
EmvModel(b) == [aid |-> b.aid, first |-> b.first, last |-> b.last, recs |-> b.recs]

EmvSays(op, a) ==
    Exchange(DepAnswer("emv", IF card.kind = "emv" THEN EmvOn(card.m, card.s, Cmd(op, a, 0)) ELSE Silent(card.s),
                       Cmd(op, a, 0)))

-----------------------------------------------------------------------------
(* The poller                                                               *)

EmvStep(step, op, a, Then(_), Else(_)) == Step("emv", step, EmvSays(op, a), Then, Else)

\* emv_poller_detect
EmvDetect == EmvStep("detect", "select", "PPSE", LAMBDA rx : Matched(EmvBlank), NoMatch)

\* emv_poller_read: the PPSE, the application it names, the processing options
EmvOpen ==
    \/ EmvStep("read", "select", "PPSE", LAMBDA rx : Goto("app") /\ img' = [img EXCEPT !.aid = rx.aid], Fails)
    \/ EmvStep("app", "select", img.aid, LAMBDA rx : Continue("gpo"), Fails)
    \/ EmvStep("gpo", "emv_gpo", 0,
               LAMBDA rx : /\ img' = [img EXCEPT !.first = rx.first, !.last = rx.last]
                           /\ IF rx.first <= rx.last THEN Loop("record", rx.first) ELSE ReadOk("clone"),
               Fails)

\* emv_poller_parse_record_tlv: PAN and track 2 of the last record that has them
EmvPan(pan, rec) == IF rec = 0 THEN pan ELSE rec

\* an empty record takes no place, so those behind it move up
EmvPut(recs, rec) == IF rec = 0 THEN recs ELSE Append(recs, rec)

\* ... and the records the AFL announces, as long as there is room
EmvRecords ==
    EmvStep("record", "emv_record", rd.i,
            LAMBDA rx : /\ img' = [img EXCEPT !.recs = EmvPut(@, rx.rec), !.pan = EmvPan(@, rx.rec)]
                        /\ IF rd.i < img.last /\ Len(img'.recs) < EmvMaxRecords
                           THEN Loop("record", rd.i + 1) ELSE ReadOk("clone"),
            Fails)

EmvNext == EmvDetect \/ EmvOpen \/ EmvRecords
=============================================================================
