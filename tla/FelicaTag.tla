------------------------------ MODULE FelicaTag ------------------------------
(***************************************************************************)
(* FeliCa Lite (src/nfc/protocols/felica).  The 28 blocks have the block   *)
(* numbers of the wire, with their gaps, and the indices 0 to 27 of the    *)
(* dump.  A block's content is its dump index plus one; a block that was   *)
(* captured with an error status (sf1) is zeros.                           *)
(***************************************************************************)
EXTENDS TagLink

FeTotal == 28    \* FELICA_BLOCKS_LITE_TOTAL
FeReg == 14      \* the last block of each range, and the first of the next
FeRc == 128
FeMc == 136
FeWcnt == 144
FeState == 146
FeCrcCheck == 160

\* felica_poller_lite_next_block_index
FeNextBlock(b) ==
    CASE b = FeReg -> FeRc [] b = FeMc -> FeWcnt [] b = FeState -> FeCrcCheck [] OTHER -> b + 1

\* the wire number of each dump index, and felica_poller_lite_wire_to_dump_index
FeWire ==
    LET wire[n \in 0..(FeTotal - 1)] == IF n = 0 THEN 0 ELSE FeNextBlock(wire[n - 1])
    IN  [n \in 0..(FeTotal - 1) |-> wire[n]]
FeDumpIndex(wire) ==
    IF \E n \in DOMAIN FeWire : FeWire[n] = wire THEN CHOOSE n \in DOMAIN FeWire : FeWire[n] = wire ELSE wire

FeBlank == [kind |-> "felica", idm |-> "none", pmm |-> "none", read |-> 0, blocks |-> <<>>]

\* what the listener holds
FelicaModelOk(m) == m.total \in Nat /\ m.failed \subseteq Nat

-----------------------------------------------------------------------------
(* The listener, which has no session                                       *)

\* felica_listener_block_exists
FeExists(wire) == wire \in (0..FeReg) \cup (FeRc..FeMc) \cup (FeWcnt..FeState) \cup {FeCrcCheck}

FeContent(m, dump) == IF dump \in m.failed THEN 0 ELSE dump + 1

\* felica_listener_handle_read: RC reads as zeros, the status is always good,
\* and a block past the end of the model gets no answer
FeRead(m, wire) ==
    IF wire = FeRc THEN [k |-> "block", sf1 |-> 0, data |-> 0]
    ELSE IF FeDumpIndex(wire) >= m.total THEN [k |-> "none"]
    ELSE [k |-> "block", sf1 |-> 0, data |-> FeContent(m, FeDumpIndex(wire))]

\* felica_listener_on_tag_cmd
FelicaOn(m, s, c) ==
    CASE c.op = "fe_poll" -> Answer(s, [k |-> "poll", idm |-> m.idm, pmm |-> m.pmm])
      [] c.op = "fe_read" /\ c.a = m.idm /\ FeExists(c.b) -> Answer(s, FeRead(m, c.b))
      [] OTHER -> Silent(s)

FeAnswer(op, idm, wire) ==
    IF card.kind = "felica" THEN FelicaOn(card.m, card.s, [op |-> op, a |-> idm, b |-> wire]) ELSE Silent(card.s)

-----------------------------------------------------------------------------
(* The poller                                                               *)

\* felica_poller_detect
FelicaDetect ==
    /\ At("felica", "detect")
    /\ \E o \in Exchange(FeAnswer("fe_poll", "any", 0)) :
           After(o) /\ IF o.ret = "ok" THEN Matched(FeBlank) ELSE NotMatched

\* felica_poller_poll, then the workflow the pmm tells: only FeliCa Lite is read
FelicaPoll ==
    /\ At("felica", "read")
    /\ \E o \in Exchange(FeAnswer("fe_poll", "any", 0)) :
           /\ After(o)
           /\ \/ o.ret # "ok" /\ ReadFails(o.ret) /\ UNCHANGED img
              \/ /\ o.ret = "ok" /\ img' = [img EXCEPT !.idm = o.rx.idm, !.pmm = o.rx.pmm]
                 /\ IF o.rx.pmm = "lite" THEN Loop("block", 0) ELSE ReadFails("ENOTSUP")

\* one block into the image; only a good status counts it as read
FeTake(im, rx) ==
    [im EXCEPT !.blocks = Append(@, IF rx.sf1 = 0 THEN rx ELSE [rx EXCEPT !.data = 0]),
               !.read = IF rx.sf1 = 0 THEN @ + 1 ELSE @]

\* felica_poller_read_lite_blocks; rd.i is the wire number of the next block
FelicaBlock ==
    /\ At("felica", "block")
    /\ \E o \in Exchange(FeAnswer("fe_read", img.idm, rd.i)) :
           /\ After(o)
           /\ \/ o.ret # "ok" /\ ReadFails(o.ret) /\ UNCHANGED img
              \/ /\ o.ret = "ok" /\ img' = FeTake(img, o.rx)
                 /\ IF Len(img'.blocks) < FeTotal THEN Loop("block", FeNextBlock(rd.i)) ELSE ReadOk("clone")

FelicaNext == FelicaDetect \/ FelicaPoll \/ FelicaBlock
=============================================================================
