----------------------------- MODULE Iso15693Tag -----------------------------
(***************************************************************************)
(* ISO 15693-3 and its child NXP SLIX (src/nfc/protocols/iso15693_3 and    *)
(* slix).  A block's content is its number plus one, so that a block that  *)
(* was never read (zeros) and one copied to the wrong place both show.     *)
(* DSFID, AFI, IC reference and block size, which travel together, are     *)
(* `info`; capabilities, passwords and lock bits, which the poller never   *)
(* reads, are `hidden` and `pwd`.                                          *)
(***************************************************************************)
EXTENDS TagLink

CONSTANTS
    IsoBatch,   \* ISO15693_BLOCKS_PER_QUERY
    IsoMaxBlk   \* ISO15693_BLOCKS_MAX

ASSUME IsoAssumption == IsoBatch \in Nat \ {0} /\ IsoMaxBlk \in 1..255

IsoCmd(op) == [op |-> op, a |-> 0, b |-> 0]

\* iso15693_3_data_reset, slix_data_reset
IsoBlank(kind) ==
    [kind |-> kind, uid |-> "none", info |-> 0, count |-> 0, data |-> <<>>, sec |-> <<>>,
     nxp |-> 0, sig |-> <<0, 0>>, hidden |-> 0]

-----------------------------------------------------------------------------
(* The listeners                                                            *)

\* the one-byte block count of GET SYSTEM INFORMATION, and back
CountOnWire(count) == ((count + 255) % 256) + 1

IsoError(s) == Answer(s, [k |-> "err"])

\* iso15693_3_listener_handle_get_blocks_security: first and LAST block
IsoSecurityRange(m, first, last) == first < m.count /\ last < m.count /\ first <= last

\* iso15693_3_listener_on_tag_cmd
IsoOn(m, s, c) ==
    CASE c.op = "iso_inventory" -> Answer(s, [k |-> "inv", uid |-> m.uid])
      [] c.op = "iso_sysinfo" -> Answer(s, [k |-> "sys", info |-> m.info, count |-> CountOnWire(m.count)])
      [] c.op = "iso_read" /\ c.a < m.count -> Answer(s, [k |-> "block", data |-> c.a + 1])
      [] c.op = "iso_security" /\ IsoSecurityRange(m, c.a, c.b) ->
             Answer(s, [k |-> "sec", sec |-> [i \in 1..(c.b - c.a + 1) |-> m.sec[c.a + i]]])
      [] c.op \in {"iso_read", "iso_security"} -> IsoError(s)
      [] OTHER -> Silent(s)

Xor(a, b) == [i \in DOMAIN a |-> (a[i] + b[i]) % 2]

\* slix_listener_handle_set_password, for the privacy password
SlixPasswordOk(m, s, xored) == m.acceptAll \/ Xor(xored, s.random) = m.pwd

\* slix_listener_on_tag_cmd: the custom commands, the privacy mode, the parent
SlixOn(m, s, c) ==
    CASE c.op = "slix_nxp" -> Answer(s, [k |-> "nxp", nxp |-> m.nxp])
      [] c.op = "slix_signature" -> Answer(s, [k |-> "sig", bytes |-> <<0>> \o m.sig])
      [] c.op = "slix_random" -> Answer([s EXCEPT !.random = m.random], [k |-> "random", random |-> m.random])
      [] c.op = "slix_password" /\ SlixPasswordOk(m, s, c.a) ->
             Answer([s EXCEPT !.privacy = FALSE], [k |-> "ack"])
      [] c.op = "slix_password" -> Silent(s)
      [] c.op = "iso_inventory" /\ s.privacy -> Silent(s)
      [] OTHER -> IsoOn(m, s, c)

IsoAnswer(c) == IF card.kind = "slix" THEN SlixOn(card.m, card.s, c)
                ELSE IF card.kind = "iso15693_3" THEN IsoOn(card.m, card.s, c)
                ELSE Silent(card.s)

-----------------------------------------------------------------------------
(* The pollers.  Both share the walk over the parent.                       *)

AtIso(step) == At("iso15693_3", step) \/ At("slix", step)

\* slix_type_from_uid
SlixUids == {"SLIX", "SLIX2"}

\* The uid tells a SLIX card; the block count fits the byte of the system information.
IsoModelOk(kind, m) ==
    /\ m.uid # "none" /\ (kind = "slix" <=> m.uid \in SlixUids)
    /\ m.count \in Nat /\ m.count <= 256 /\ DOMAIN m.sec = 1..m.count
    /\ m.sig \in Seq(Nat) /\ Len(m.sig) = 2

\* slix_poller_detect, iso15693_3_poller_detect
IsoDetect ==
    /\ AtIso("detect")
    /\ \E o \in Exchange(IsoAnswer(IsoCmd("iso_inventory"))) :
           /\ After(o)
           /\ IF o.ret = "ok" /\ (At("slix", "detect") => o.rx.uid \in SlixUids)
              THEN Matched(IsoBlank(Pollers[rd.p])) ELSE NotMatched

\* slix_poller_read goes on after its parent
IsoRead == ReadOk(IF At("slix", rd.step) /\ img.uid = "SLIX2" THEN "nxp" ELSE "clone")

IsoInventory ==
    /\ AtIso("read")
    /\ \E o \in Exchange(IsoAnswer(IsoCmd("iso_inventory"))) :
           /\ After(o)
           /\ IF o.ret = "ok" THEN Goto("sysinfo") /\ img' = [img EXCEPT !.uid = o.rx.uid]
              ELSE ReadFails(o.ret) /\ UNCHANGED img

\* iso15693_3_poller_get_system_info.  No answer is as good as one without the
\* memory size: the read ends with the uid only.
IsoSysinfo ==
    /\ AtIso("sysinfo")
    /\ \E o \in Exchange(IsoAnswer(IsoCmd("iso_sysinfo"))) :
           /\ After(o)
           /\ \/ /\ o.ret = "ok" /\ o.rx.count <= IsoMaxBlk
                 /\ Loop("blocks", 0)
                 /\ img' = [img EXCEPT !.info = o.rx.info, !.count = o.rx.count,
                                       !.data = [i \in 1..o.rx.count |-> 0], !.sec = [i \in 1..o.rx.count |-> 0]]
              \/ o.ret = "ok" /\ o.rx.count > IsoMaxBlk /\ ReadFails("EIO") /\ UNCHANGED img
              \/ o.ret = "ETIMEDOUT" /\ IsoRead /\ UNCHANGED img
              \/ o.ret = "EIO" /\ ReadFails("EIO") /\ UNCHANGED img

\* the loop over the blocks; a block that times out ends it
IsoBlock ==
    /\ AtIso("blocks")
    /\ \E o \in Exchange(IsoAnswer([IsoCmd("iso_read") EXCEPT !.a = rd.i])) :
           /\ After(o)
           /\ \/ /\ o.ret = "ok" /\ o.rx.k = "block"
                 /\ img' = [img EXCEPT !.data[rd.i + 1] = o.rx.data]
                 /\ IF rd.i + 1 < img.count THEN Loop("blocks", rd.i + 1) ELSE Loop("security", 0)
              \/ o.ret = "ETIMEDOUT" /\ Loop("security", 0) /\ UNCHANGED img
              \/ o.ret = "EIO" /\ ReadFails("EIO") /\ UNCHANGED img

\* iso15693_3_poller_get_blocks_security: first block and NUMBER of blocks less one
IsoBatchByte(start, batch) == batch - 1

\* iso15693_3_poller_get_blocks_security_response_parse
IsoSecurityOk(rx, batch) == rx.k = "sec" /\ Len(rx.sec) = batch

IsoSecurity ==
    /\ AtIso("security")
    /\ LET left == img.count - rd.i
           batch == IF left > IsoBatch THEN IsoBatch ELSE left
           cmd == [IsoCmd("iso_security") EXCEPT !.a = rd.i, !.b = IsoBatchByte(rd.i, batch)]
       IN  \E o \in Exchange(IsoAnswer(cmd)) :
               /\ After(o)
               /\ \/ /\ o.ret = "ok" /\ IsoSecurityOk(o.rx, batch)
                     /\ img' = [img EXCEPT !.sec = [j \in DOMAIN @ |-> IF j \in (rd.i + 1)..(rd.i + batch)
                                                                        THEN o.rx.sec[j - rd.i] ELSE @[j]]]
                     /\ IF rd.i + IsoBatch < img.count THEN Loop("security", rd.i + IsoBatch) ELSE IsoRead
                  \/ o.ret = "ok" /\ ~IsoSecurityOk(o.rx, batch) /\ ReadFails("EIO") /\ UNCHANGED img
                  \/ o.ret = "ETIMEDOUT" /\ IsoRead /\ UNCHANGED img
                  \/ o.ret = "EIO" /\ ReadFails("EIO") /\ UNCHANGED img

\* slix_poller_read: the NXP system information, which may fail
SlixNxp ==
    /\ At("slix", "nxp")
    /\ \E o \in Exchange(IsoAnswer(IsoCmd("slix_nxp"))) :
           /\ After(o) /\ Goto("signature")
           /\ img' = IF o.ret = "ok" THEN [img EXCEPT !.nxp = o.rx.nxp] ELSE img

\* ... and the signature: the first bytes of the answer, its flag byte included
SlixSignature ==
    /\ At("slix", "signature")
    /\ \E o \in Exchange(IsoAnswer(IsoCmd("slix_signature"))) :
           /\ After(o) /\ ReadOk("clone")
           /\ img' = IF o.ret = "ok" THEN [img EXCEPT !.sig = SubSeq(o.rx.bytes, 1, Len(@))] ELSE img

-----------------------------------------------------------------------------
(* slix_poller_get_random_number and slix_poller_set_password: an           *)
(* application may lift the privacy mode before it walks.                   *)

SlixGetRandom ==
    /\ rd.step = "unlock" /\ card.kind = "slix"
    /\ \E o \in Exchange(IsoAnswer(IsoCmd("slix_random"))) :
           /\ After(o)
           /\ rd' = IF o.ret = "ok" THEN [rd EXCEPT !.step = "password", !.word = o.rx.random]
                    ELSE [rd EXCEPT !.step = "detect"]
           /\ UNCHANGED img

SlixSetPassword(pwd) ==
    /\ rd.step = "password"
    /\ \E o \in Exchange(IsoAnswer([IsoCmd("slix_password") EXCEPT !.a = Xor(pwd, rd.word)])) :
           After(o) /\ Goto("detect") /\ UNCHANGED img

IsoNext ==
    \/ IsoDetect \/ IsoInventory \/ IsoSysinfo \/ IsoBlock \/ IsoSecurity
    \/ SlixNxp \/ SlixSignature \/ SlixGetRandom
    \/ \E pwd \in {<<0, 1>>, <<1, 1>>} : SlixSetPassword(pwd)
=============================================================================
