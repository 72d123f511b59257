------------------------------- MODULE NdefTag -------------------------------
(***************************************************************************)
(* The NDEF type 4 tag (src/nfc/protocols/ndef).  The NDEF file is a cell  *)
(* for NLEN and NdefMax cells for the message; a cell of the message has 0 *)
(* (padding) or a mark of the message it belongs to.  The file can be      *)
(* written, so it is part of the card's session: [file, nlen, data].       *)
(***************************************************************************)
EXTENDS IsoDepLink

CONSTANTS
    NdefMax,  \* CONFIG_NFC_NDEF_MAX_SIZE
    NdefCap   \* NFC_TRANSPORT_MAX_RESPONSE_LEN less the status

ASSUME NdefAssumption == NdefMax \in Nat \ {0} /\ NdefCap \in Nat \ {0}

Least(S) == CHOOSE x \in S : \A y \in S : x <= y

NdefBlank == [kind |-> "ndef", mle |-> 0, nlen |-> 0, data |-> <<>>]

\* what the listener holds besides the file
NdefModelOk(m) == m.mle \in Nat

-----------------------------------------------------------------------------
(* The listener                                                             *)

\* ndef_listener_init, ndef_listener_pad_ndef_file: a file with a message of n
\* cells with the mark v
NdefFile(n, v) == [file |-> "none", nlen |-> n, data |-> [p \in 1..NdefMax |-> IF p <= n THEN v ELSE 0]]

\* ndef_listener_handle_read_binary: how much it sends; the buffer is
\* sent, not only the message
NdefReadLen(off, ne) == Least({ne, NdefMax + 1 - off, NdefCap})

NdefRead(s, off, ne) ==
    IF off = 0 THEN [k |-> "ok", nlen |-> s.nlen]
    ELSE [k |-> "ok", data |-> [j \in 1..NdefReadLen(off, ne) |-> s.data[off + j - 1]]]

\* Wrong variant: an NLEN of zero is acknowledged and not stored.
NdefKeepsNlen(s, c) ==
    IF c.a = 0 THEN [s EXCEPT !.nlen = IF c.b = 0 THEN @ ELSE c.b]
    ELSE [s EXCEPT !.data = [p \in DOMAIN @ |-> IF p >= c.a /\ p < c.a + c.b[1] THEN c.b[2] ELSE @[p]]]

\* ndef_listener_handle_update_binary; NLEN, or c.b[1] cells with the
\* mark c.b[2] from cell c.a on
NdefUpdate(s, c) ==
    IF c.a = 0 THEN [s EXCEPT !.nlen = c.b]
    ELSE [s EXCEPT !.data = [p \in DOMAIN @ |-> IF p >= c.a /\ p < c.a + c.b[1] THEN c.b[2] ELSE @[p]]]

\* ndef_listener_on_select, ndef_listener_on_apdu
NdefOn(m, s, c) ==
    CASE c.op = "select" -> Answer([s EXCEPT !.file = "none"], [k |-> "ok"])
      [] c.op = "nd_file" -> Answer([s EXCEPT !.file = c.a], [k |-> "ok"])
      [] c.op = "nd_cc" /\ s.file = "cc" -> Answer(s, [k |-> "ok", mle |-> m.mle])
      [] c.op = "nd_read" /\ s.file = "ndef" -> Answer(s, NdefRead(s, c.a, c.b))
      [] c.op = "nd_update" /\ s.file = "ndef" /\ m.writable -> Answer(NdefUpdate(s, c), [k |-> "ok"])
      [] OTHER -> Refused(s)

NdefSays(op, a, b) ==
    Exchange(DepAnswer("ndef", IF card.kind = "ndef" THEN NdefOn(card.m, card.s, Cmd(op, a, b)) ELSE Silent(card.s),
                       Cmd(op, a, b)))

\* ndef_serialize: the CC, NLEN and the message without the padding
NdefBlob(im) == [kind |-> "ndef", mle |-> im.mle, nlen |-> im.nlen, data |-> im.data]

\* ndef_deserialize and the listener's padding
NdefReload(b) ==
    [NdefFile(b.nlen, 0) EXCEPT !.data = [p \in DOMAIN @ |-> IF p <= b.nlen THEN b.data[p] ELSE 0]]

-----------------------------------------------------------------------------
(* The poller                                                               *)

\* nfc_reader_session_transceive of a SELECT
NdefSelect(aid) == NdefSays("select", aid, 0)

\* One of the two SELECTs that ndef_poller_detect and ndef_poller_read make: what
\* follows when it is accepted, when it is refused, and when no answer comes
NdefTries(step, aid, ok, refused, gone(_)) ==
    /\ At("ndef", step)
    /\ \E o \in NdefSelect(aid) :
           /\ After(o)
           /\ CASE Accepted(o) -> ok [] o.ret = "ok" /\ ~Accepted(o) -> refused [] OTHER -> gone(o.ret)

NdefDetect ==
    \/ NdefTries("detect", "NDEF_v2", Matched(NdefBlank), Continue("detect_v1"), NoMatch)
    \/ NdefTries("detect_v1", "NDEF_v1", Matched(NdefBlank), NotMatched, NoMatch)

\* ndef_poller_select_app
NdefSelectApp ==
    \/ NdefTries("read", "NDEF_v2", Continue("select_cc"), Continue("read_v1"), Fails)
    \/ NdefTries("read_v1", "NDEF_v1", Continue("select_cc"), Fails("EIO"), Fails)

\* ndef_poller_transceive: an answer that is not 9000 is -EIO
NdefStep(step, op, a, b, Then(_)) == Step("ndef", step, NdefSays(op, a, b), Then, Fails)

\* the capability container
NdefCc ==
    \/ NdefStep("select_cc", "nd_file", "cc", 0, LAMBDA rx : Continue("read_cc"))
    \/ NdefStep("read_cc", "nd_cc", 0, 0,
                LAMBDA rx : Goto("select_ndef") /\ img' = [img EXCEPT !.mle = rx.mle])

\* ndef_poller_select_ndef_file
NdefSelectFile == NdefStep("select_ndef", "nd_file", "ndef", 0, LAMBDA rx : Continue("read_nlen"))

\* the NLEN, which must fit the image
NdefNlen ==
    NdefStep("read_nlen", "nd_read", 0, 1,
        LAMBDA rx : IF rx.nlen > NdefMax THEN Fails("ENOSPC")
                    ELSE /\ img' = [img EXCEPT !.nlen = rx.nlen]
                         /\ IF rx.nlen = 0 THEN ReadOk("clone") ELSE Loop("chunk", 0))

\* ndef_poller_cc_mle, ndef_poller_read_chunk_le
NdefChunk(left, mle) == Least({left, IF mle < 2 THEN 1 ELSE mle - 1, NdefCap})

\* the loop over the chunks of the message
NdefChunks ==
    LET n == NdefChunk(img.nlen - rd.i, img.mle)
    IN  NdefStep("chunk", "nd_read", rd.i + 1, n,
            LAMBDA rx : IF Len(rx.data) < n THEN Fails("EIO")
                        ELSE /\ img' = [img EXCEPT !.data = @ \o SubSeq(rx.data, 1, n)]
                             /\ IF rd.i + n < img.nlen THEN Loop("chunk", rd.i + n) ELSE ReadOk("clone"))

-----------------------------------------------------------------------------
(* A phone that has selected the NDEF file replaces the message before the  *)
(* walk the way type 4 tags are written: NLEN zero, the message, NLEN.  It  *)
(* stops where an exchange fails.                                           *)

NdefNew == [len |-> NdefMax, mark |-> 2]

NdefWriter ==
    /\ card.kind = "ndef" /\ UNCHANGED img
    /\ \E w \in {<<"w_zero", 0, 0, "w_data">>, <<"w_data", 1, <<NdefNew.len, NdefNew.mark>>, "w_nlen">>,
                 <<"w_nlen", 0, NdefNew.len, "detect">>} :
           /\ rd.step = w[1]
           /\ \E o \in NdefSays("nd_update", w[2], w[3]) :
                  After(o) /\ Goto(IF Accepted(o) THEN w[4] ELSE "detect")

NdefNext == NdefDetect \/ NdefSelectApp \/ NdefCc \/ NdefSelectFile \/ NdefNlen \/ NdefChunks \/ NdefWriter
=============================================================================
