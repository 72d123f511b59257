------------------------------ MODULE ClassicTag ------------------------------
(***************************************************************************)
(* MIFARE Classic (src/nfc/protocols/classic).  The cipher is symbolic: an *)
(* authentication succeeds when both sides hold the same key and derive    *)
(* the same cuid from the uid.  The three sizes are scaled down: a small   *)
(* sector has two blocks, a big one (the sectors from ClBig on, which only *)
(* a 4K card has) three.  A block's content is its number plus one; the    *)
(* last block of a sector is its trailer.                                  *)
(***************************************************************************)
EXTENDS TagLink

ClBig == 4
ClSectors == [MINI |-> 2, C1K |-> 3, C4K |-> 5]

\* classic_get_total_sectors_num, classic_get_first_block_num_of_sector,
\* classic_get_blocks_num_in_sector, classic_get_sector_by_block
ClBlocksIn(sector) == IF sector < ClBig THEN 2 ELSE 3
ClFirst(sector) == 2 * sector
ClTotal(type) == ClFirst(ClSectors[type]) + (IF ClSectors[type] > ClBig THEN 1 ELSE 0)
ClSectorOf(block) == IF block < ClFirst(ClBig) THEN block \div 2 ELSE ClBig
ClTrailer(sector) == ClFirst(sector) + ClBlocksIn(sector) - 1

\* the probes of classic_poller_detect_type: the last block but one of each size
ClProbe(type) == ClTotal(type) - 2

\* The uid a poller takes from block 0: four bytes, or seven behind the cascade
\* byte 0x88.  A seven-byte uid that is not behind one is cut to four bytes.
ClUid(m) == IF m.uid = "seven" THEN "cut" ELSE m.uid

ClBlank(m) ==
    [kind |-> "classic", type |-> "none", uid |-> m.uid, data |-> [b \in 0..(ClTotal("C4K") - 1) |-> 0],
     keyA |-> {}, keyB |-> {}]

\* what the listener holds
ClassicModelOk(m) == m.type \in DOMAIN ClSectors /\ m.key \in [0..(ClSectors[m.type] - 1) -> STRING]

-----------------------------------------------------------------------------
(* The listener: session [pend, auth, blk]                                  *)

ClIdle == [pend |-> FALSE, auth |-> FALSE, blk |-> 0]

\* classic_listener_handle_read: only within the sector the reader is in
ClReadable(m, s, block) ==
    s.auth /\ block < ClTotal(m.type) /\ ClSectorOf(block) = ClSectorOf(s.blk)

\* classic_listener_handle_auth_second
ClAuthOk(m, s, key, uid) == s.pend /\ key = m.key[ClSectorOf(s.blk)] /\ uid = m.uid

\* classic_listener_on_tag_cmd
ClassicOn(m, s, c) ==
    CASE c.op = "cl_auth" /\ c.a < ClTotal(m.type) ->
             Answer([pend |-> TRUE, auth |-> FALSE, blk |-> c.a], [k |-> "nt"])
      [] c.op = "cl_auth" -> Silent(ClIdle)
      [] c.op = "cl_nr_ar" /\ ClAuthOk(m, s, c.a, c.b) -> Answer([s EXCEPT !.pend = FALSE, !.auth = TRUE], [k |-> "at"])
      [] c.op = "cl_nr_ar" /\ s.pend -> Silent(ClIdle)
      [] c.op = "cl_read" /\ ClReadable(m, s, c.a) -> Answer(s, [k |-> "block", data |-> c.a + 1])
      [] OTHER -> Silent(s)

ClAnswer(op, a, b) ==
    IF card.kind = "classic" THEN ClassicOn(card.m, card.s, [op |-> op, a |-> a, b |-> b]) ELSE Silent(card.s)

-----------------------------------------------------------------------------
(* The poller                                                               *)

\* classic_poller_detect
ClassicDetect ==
    /\ At("classic", "detect")
    /\ \E o \in Exchange(ClAnswer("cl_auth", 0, 0)) :
           After(o) /\ IF o.ret = "ok" THEN Matched(ClBlank(card.m)) ELSE NotMatched

\* classic_poller_detect_type: the 4K probe, the 1K probe, else MINI
ClassicType(type, step, next) ==
    /\ At("classic", step)
    /\ \E o \in Exchange(ClAnswer("cl_auth", ClProbe(type), 0)) :
           /\ After(o)
           /\ IF o.ret = "ok" THEN Loop("nt", 0) /\ img' = [img EXCEPT !.type = type]
              ELSE IF next = "nt" THEN Loop("nt", 0) /\ img' = [img EXCEPT !.type = "MINI"]
              ELSE Goto(next) /\ UNCHANGED img

\* the sector loop of classic_poller_read goes on, or ends; without block 0 the
\* read fails
ClNextSector ==
    IF rd.i + 1 < ClSectors[img.type] THEN Loop("nt", rd.i + 1)
    ELSE IF img.data[0] = 0 THEN ReadFails("EIO") ELSE ReadOk("clone")

\* classic_poller_get_nt: the first half of classic_poller_auth
ClassicNt ==
    /\ At("classic", "nt")
    /\ \E o \in Exchange(ClAnswer("cl_auth", ClFirst(rd.i), 0)) :
           /\ After(o) /\ UNCHANGED img
           /\ IF o.ret = "ok" THEN Goto("nr_ar") ELSE ClNextSector

\* classic_poller_auth: the default key and the uid of the image; a sector that
\* refuses it is skipped
ClassicAuth ==
    /\ At("classic", "nr_ar")
    /\ \E o \in Exchange(ClAnswer("cl_nr_ar", "default", img.uid)) :
           /\ After(o)
           /\ IF o.ret = "ok"
              THEN /\ img' = [img EXCEPT !.keyA = @ \cup {rd.i}]
                   /\ rd' = [rd EXCEPT !.step = "block", !.word = ClFirst(rd.i)]
              ELSE UNCHANGED img /\ ClNextSector

\* classic_set_key_found, type B, when the trailer has been read
ClNoteKey(block, sector) == IF block = ClTrailer(sector) THEN {sector} ELSE {}

\* classic_poller_read_block and what the loop does with the block
ClassicBlock ==
    /\ At("classic", "block")
    /\ \E o \in Exchange(ClAnswer("cl_read", rd.word, 0)) :
           /\ After(o)
           /\ IF o.ret # "ok" THEN ReadFails(o.ret) /\ UNCHANGED img
              ELSE /\ img' = [img EXCEPT !.data[rd.word] = o.rx.data,
                                         !.uid = IF rd.word = 0 THEN ClUid(card.m) ELSE @,
                                         !.keyB = @ \cup ClNoteKey(rd.word, rd.i)]
                   /\ IF rd.word < ClTrailer(rd.i) THEN rd' = [rd EXCEPT !.word = @ + 1]
                      ELSE ClNextSector

ClassicNext ==
    \/ ClassicDetect
    \/ ClassicType("C4K", "read", "probe1k") \/ ClassicType("C1K", "probe1k", "nt")
    \/ ClassicNt \/ ClassicAuth \/ ClassicBlock
=============================================================================
