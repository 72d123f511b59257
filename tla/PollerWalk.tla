------------------------------ MODULE PollerWalk ------------------------------
(***************************************************************************)
(* nfc_reader_pollers_run (src/nfc/reader/nfc_reader_poller_registry.c)    *)
(* over an emulated card: the walk over the pollers, the clone function of *)
(* the one that matches (read, bind to the listener, nfc_store_save), then *)
(* the stored tag loaded into a listener and, where that works, walked     *)
(* over again as a card.                                                   *)
(***************************************************************************)
EXTENDS Iso15693Tag, ClassicTag, FelicaTag, UltralightTag, NdefTag, DesfireTag, EmvTag, AliroReader

CONSTANT Cards    \* the cards a walk may find: [kind, m, s]

-----------------------------------------------------------------------------
(* What the listener of each protocol can hold, and the session it is in    *)
(* when it is put in front of a reader.                                     *)

ModelOk(kind, m) ==
    /\ kind \in {"iso15693_3", "slix"} => IsoModelOk(kind, m)
    /\ kind = "classic" => ClassicModelOk(m)
    /\ kind = "felica" => FelicaModelOk(m)
    /\ kind = "ultralight" => UlModelOk(m)
    /\ kind = "ndef" => NdefModelOk(m)
    /\ kind = "desfire" => DesfireModelOk(m)
    /\ kind = "emv" => EmvModelOk(m)

\* the session of a listener that was just loaded; an NDEF card may be selected, as a
\* phone that wrote it leaves it
Fresh(c) ==
    /\ c.kind = "slix" => DOMAIN c.s = {"privacy", "random"} /\ c.s.privacy \in BOOLEAN
    /\ c.kind = "classic" => c.s = ClIdle
    /\ c.kind = "ultralight" => c.s = UlLoaded(c.m)
    /\ c.kind = "ndef" => /\ DOMAIN c.s = {"file", "nlen", "data"}
                          /\ c.s.nlen \in Nat /\ c.s.data \in [1..NdefMax -> Nat]
    /\ c.kind = "desfire" => c.s = DfIdle

CardOk(c) ==
    DOMAIN c = {"kind", "m", "s"} /\ c.kind \in Range(Pollers) /\ ModelOk(c.kind, c.m) /\ Fresh(c)

ASSUME CardsAssumption == \A c \in Cards : CardOk(c)

VARIABLES
    first,   \* what the walk began with: [card, p]
    turn,    \* 1: the walk over the card, 2: the walk over its clone
    stored   \* the blob nfc_store_save wrote in the first walk

vars == <<linkVars, first, turn, stored>>

\* CONFIG_NFC_PROTOCOL_NDEF decides whether the first entry is in the table.  A
\* phone may have written the card, or an application have lifted its privacy mode.
Init ==
    /\ card \in Cards
    /\ \E p \in {1, 2} :
           \E step \in {"detect"} \cup (CASE card.kind = "slix" -> {"unlock"} [] card.kind = "ndef" -> {"w_zero"}
                                          [] OTHER -> {}) :
               rd = [p |-> p, step |-> step, i |-> 0, flag |-> FALSE, err |-> "none", word |-> 0]
    /\ img = NoImage /\ lost = 0 /\ stored = NoImage /\ turn = 1
    /\ first = [card |-> card, p |-> rd.p]

-----------------------------------------------------------------------------
(* The rest of the clone functions                                          *)

\* The services of these have no user_ctx and their serialize takes it for the
\* model, so nfc_store_save returns -EIO.
Contextless == {"classic", "felica", "iso15693_3", "slix"}

\* the serialize function of the image's service
Blob(im) ==
    CASE im.kind = "ultralight" -> UlBlob(im) [] im.kind = "ndef" -> NdefBlob(im)
      [] im.kind = "desfire" -> DfBlob(im) [] im.kind = "emv" -> EmvBlob(im) [] OTHER -> AlBlob(im)

\* *_poller_clone after the read: the image is bound to a listener that was down,
\* and nfc_store_save
Clone ==
    /\ rd.step = "clone"
    /\ \/ img.kind \in Contextless /\ ReadFails("EIO_save") /\ UNCHANGED stored
       \/ img.kind \notin Contextless /\ ReadFails("ok") /\ stored' = IF turn = 1 THEN Blob(img) ELSE stored
    /\ UNCHANGED <<card, img, lost, first, turn>>

\* the listener whose deserialize function has taken a blob
CardOf(b) ==
    CASE b.kind = "ultralight" -> [kind |-> b.kind, m |-> UlModel(b), s |-> UlLoaded(UlModel(b))]
      [] b.kind = "ndef" -> [kind |-> b.kind, m |-> [mle |-> b.mle, writable |-> TRUE], s |-> NdefReload(b)]
      [] b.kind = "desfire" -> [kind |-> b.kind, m |-> DfModel(b), s |-> DfIdle]
      [] b.kind = "emv" -> [kind |-> b.kind, m |-> EmvModel(b), s |-> [st |-> "IDLE"]]
      [] OTHER -> [kind |-> b.kind, m |-> [verified |-> FALSE], s |-> [st |-> "IDLE"]]

\* nfc_store_load, and the listener in front of a second reader.  Only what was
\* read without a loss is walked over again.
Load ==
    /\ rd.step = "done" /\ rd.err = "ok" /\ lost = 0 /\ turn = 1
    /\ UNCHANGED <<lost, first, stored>>
    /\ IF stored.kind = "desfire" => DfReloads(stored)
       THEN /\ turn' = 2 /\ img' = NoImage
            /\ card' = CardOf(stored)
            /\ rd' = [rd EXCEPT !.p = first.p, !.step = "detect", !.err = "none", !.word = 0]
       ELSE UNCHANGED <<card, turn, img>> /\ rd' = [rd EXCEPT !.err = "EBADMSG_load"]

-----------------------------------------------------------------------------

Read ==
    /\ IsoNext \/ ClassicNext \/ FelicaNext \/ UltralightNext \/ NdefNext \/ DesfireNext \/ EmvNext \/ AliroNext
    /\ UNCHANGED <<first, turn, stored>>

Next == Read \/ Clone \/ Load

Spec == Init /\ [][Next]_vars /\ WF_vars(Next)

-----------------------------------------------------------------------------
(* Properties.  What a poller must make of a card is stated as a function   *)
(* from the card to the image, with no exchange in it.                      *)

\* detect or read gave up
GaveUp == rd.step = "done" /\ rd.err \notin {"ok", "EIO_save", "EBADMSG_load"}

\* Every byte of an image is the card's, whatever is lost on the way: a block or page
\* of the image is blank or it is the card's own at that place, a file is one of the
\* card's with as many bytes as its settings give, and the cells
\* of an NDEF message come from one message and are as many as its NLEN says.
FromTheCard ==
    turn = 1 /\ img.kind = card.kind =>
        CASE img.kind \in {"iso15693_3", "slix"} ->
                /\ img.uid \in {"none", card.m.uid} /\ img.count \in {0, card.m.count}
                /\ \A b \in DOMAIN img.data : img.data[b] \in {0, b} /\ img.sec[b] \in {0, card.m.sec[b]}
          [] img.kind = "classic" ->
                \A b \in DOMAIN img.data : img.data[b] # 0 => img.data[b] = b + 1 /\ b < ClTotal(card.m.type)
          [] img.kind = "felica" -> \A n \in DOMAIN img.blocks : img.blocks[n].data \in {0, FeContent(card.m, n - 1)}
          [] img.kind = "ultralight" ->
                /\ \A p \in DOMAIN img.pages :
                       img.pages[p] # 0 => p \in DOMAIN card.m.pages /\ img.pages[p] = card.m.pages[p]
                /\ \A n \in DOMAIN img.cnt : img.cnt[n] \in {0, card.m.cnt[n]}
          [] img.kind = "ndef" /\ rd.step = "clone" ->
                \/ img.nlen = NdefNew.len /\ \A n \in 1..img.nlen : img.data[n] = NdefNew.mark
                \/ img.nlen \in {0, first.card.s.nlen} /\ img.data = SubSeq(first.card.s.data, 1, img.nlen)
          [] img.kind = "desfire" /\ rd.step = "clone" ->
                \A a \in Range(img.apps) : \A f \in Range(a.files) :
                    \E g \in Range(card.m.apps[1].files) : f = [g EXCEPT !.len = g.size] /\ g.size <= g.len
          [] img.kind = "emv" -> \A n \in DOMAIN img.recs : img.recs[n] \in Range(card.m.recs)
          [] OTHER -> TRUE

\* What a key guards never reaches an image: no block of a sector whose key A is not
\* the default one, no page that AUTH0 protects unless the card's password is the
\* default one, is zeros (a password page that was not read yet is tried as it is in
\* the image) or can be read from the card, no file that wants encryption or a key,
\* nothing of a SLIX card in privacy mode.
GuardedStaysOut ==
    turn = 1 =>
        /\ img.kind = "classic" =>
               \A b \in DOMAIN img.data : img.data[b] # 0 => card.m.key[ClSectorOf(b)] = "default"
        /\ img.kind = "ultralight" =>
               \A p \in DOMAIN img.pages :
                   img.pages[p] # 0 /\ NeedsAuth(UlCardConfig(card.m), p) =>
                       \/ UlCardConfig(card.m).pwd \in {DefaultPwd, 0}
                       \/ ~NeedsAuth(UlCardConfig(card.m), PwdPage(UlTotal[card.m.type]))
        /\ img.kind = "desfire" => \A a \in Range(img.apps) : \A f \in Range(a.files) : f.len # 0 => f.plain /\ f.free
        /\ img.kind = "slix" /\ img.uid # "none" => ~card.s.privacy

\* the records of an EMV card in the order its AFL announces them
EmvAnnounced(m) ==
    SelectSeq([n \in 1..(IF m.first <= m.last THEN m.last - m.first + 1 ELSE 0) |-> EmvRecord(m, m.first + n - 1)],
              LAMBDA rec : rec # 0)

\* the sectors a poller with the default key opens.  After block 0 of a card with
\* seven bytes of uid it goes on with the four it has cut them to.
ClOpen(m) == {sec \in DOMAIN m.key : m.key[sec] = "default" /\ (m.uid = "seven" => sec = 0)}

DfOpen(f) == f.free /\ f.size <= DfMaxSize /\ (f.size = 0 \/ (f.plain /\ f.size <= f.len))

\* the image of a card that is read
ImageOf(c) ==
    CASE c.kind \in {"iso15693_3", "slix"} ->
            [IsoBlank(c.kind) EXCEPT !.uid = c.m.uid, !.info = c.m.info, !.count = c.m.count,
                !.data = [b \in 1..c.m.count |-> b], !.sec = c.m.sec,
                !.nxp = IF c.m.uid = "SLIX2" THEN c.m.nxp ELSE 0,
                !.sig = IF c.m.uid = "SLIX2" THEN <<0, c.m.sig[1]>> ELSE <<0, 0>>]
      [] c.kind = "classic" ->
            [ClBlank(c.m) EXCEPT !.type = c.m.type, !.uid = ClUid(c.m), !.keyA = ClOpen(c.m), !.keyB = ClOpen(c.m),
                !.data = [b \in DOMAIN @ |-> IF b < ClTotal(c.m.type) /\ ClSectorOf(b) \in ClOpen(c.m) THEN b + 1 ELSE 0]]
      [] c.kind = "felica" ->
            [FeBlank EXCEPT !.idm = c.m.idm, !.pmm = c.m.pmm, !.read = FeTotal,
                !.blocks = [n \in 1..FeTotal |-> [k |-> "block", sf1 |-> 0,
                                data |-> IF FeWire[n - 1] = FeRc THEN 0 ELSE FeContent(c.m, n - 1)]]]
      [] c.kind = "ndef" -> [NdefBlank EXCEPT !.mle = c.m.mle, !.nlen = c.s.nlen, !.data = SubSeq(c.s.data, 1, c.s.nlen)]
      [] c.kind = "desfire" ->
            [DfBlank EXCEPT !.ver = c.m.ver, !.mem = c.m.mem, !.free = c.m.free,
                !.apps = IF ~c.m.free THEN <<>>
                         ELSE [n \in DOMAIN c.m.apps |-> [c.m.apps[n] EXCEPT !.files = SelectSeq(@, DfOpen)]]]
      [] c.kind = "emv" ->
            LET recs == EmvAnnounced(c.m)
            IN  [EmvBlank EXCEPT !.aid = c.m.aid, !.first = c.m.first, !.last = c.m.last, !.recs = recs,
                    !.pan = IF recs = <<>> THEN 0 ELSE recs[Len(recs)]]
      [] OTHER -> [AlBlank EXCEPT !.pubkey = "key", !.transcript = <<"select", "al_auth0", "al_auth1", "al_exchange">>]

\* the cards that cannot be read, and the error
Unreadable(c) ==
    CASE c.kind = "slix" /\ c.s.privacy -> "ENOTSUP"
      [] c.kind \in {"iso15693_3", "slix"} /\ c.m.count \notin 1..IsoMaxBlk -> "EIO"
      [] c.kind = "classic" /\ c.m.key[0] # "default" -> "EIO"
      [] c.kind = "felica" /\ c.m.pmm # "lite" -> "ENOTSUP"
      [] c.kind = "felica" /\ c.m.total < FeTotal -> "ETIMEDOUT"
      [] c.kind = "ndef" /\ first.p = 2 -> "ENOTSUP"
      [] c.kind = "ndef" /\ c.s.nlen > NdefMax -> "ENOSPC"
      [] c.kind = "desfire" /\ first.p = 1 -> "EIO"
      [] c.kind = "desfire" /\ c.m.free /\ c.m.apps = <<>> -> "EBADMSG"
      [] c.kind = "emv" /\ c.m.aid \notin Aids["emv"] -> "EIO"
      [] c.kind = "aliro" /\ c.m.verified -> "EIO"
      [] OTHER -> "none"

\* Of an Ultralight card: the pages up to the first that is refused.  One that
\* protects no page and whose type is told is read whole; one that refuses its
\* first pages is not detected.
UlReadsTheCard(c) ==
    LET guarded == {p \in DOMAIN c.m.pages : NeedsAuth(UlCardConfig(c.m), p)}
    IN  /\ rd.step = "clone" =>
               /\ \A p \in 0..(img.read - 1) : img.pages[p] = IF p \in DOMAIN c.m.pages THEN c.m.pages[p] ELSE 0
               /\ guarded = {} => img.type = c.m.type \/ c.m.type = "ORIGIN"
               /\ guarded = {} /\ img.type = c.m.type =>
                      /\ img.read = UlTotal[img.type]
                      /\ img.ver # "none" => img.sig = c.m.sig /\ img.cnt = c.m.cnt /\ img.tear = c.m.tear
        /\ GaveUp => rd.err = "ENOTSUP" /\ guarded \cap 0..3 # {}

\* When nothing is lost the walk ends with the poller of the card's protocol and with
\* the whole card in the image, or with the error of a card that is known not to be
\* readable.
ReadsTheCard ==
    lost = 0 /\ turn = 1 =>
        IF card.kind = "ultralight" THEN UlReadsTheCard(card)
        ELSE /\ rd.step = "clone" => img = ImageOf(card) /\ Unreadable(card) = "none"
             /\ GaveUp => rd.err = Unreadable(card)

\* A clone cannot be told from what was stored: whoever walks over the loaded tag
\* would store the same blob again.  Two do not come back: an Ultralight ORIGIN,
\* which answers past its end with zeros and so is taken for an NTAG203, and an EMV
\* image whose AFL begins behind the first record, or had an empty one.
CloneReadsAlike ==
    lost = 0 /\ turn = 2 =>
        /\ ~GaveUp
        /\ \/ rd.step # "clone" \/ Blob(img) = stored
           \/ stored.kind = "ultralight" /\ UlTypeOf(stored.total) = "ORIGIN" /\ img.type = "NTAG203"
           \/ stored.kind = "emv" /\ stored.last # Len(stored.recs)

\* A walk ends, whatever card it meets and whatever is lost.
WalkEnds == <>[](rd.step = "done")
=============================================================================
