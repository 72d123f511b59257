------------------------------ MODULE DesfireTag ------------------------------
(***************************************************************************)
(* MIFARE DESFire (src/nfc/protocols/desfire).  The model of a card is     *)
(* [ver, mem, free, apps]: the version (three frames on the wire), the     *)
(* free memory, whether the directory is free, and the applications        *)
(* [id, ks, files]; a file is [id, type, plain, free, size, len], size the *)
(* size its settings give and len the length of its data.  The content of  *)
(* a file is abstracted to its length.  The commands that list never ask   *)
(* for a key, so the poller's branches for AUTHENTICATION_ERROR there are  *)
(* left out.                                                               *)
(***************************************************************************)
EXTENDS IsoDepLink, Functions

DfMaxApps == 1   \* CONFIG_NFC_DESFIRE_MAX_APPS
DfMaxFiles == 2  \* CONFIG_NFC_DESFIRE_MAX_FILES_PER_APP
DfMaxSize == 2   \* CONFIG_NFC_DESFIRE_MAX_FILE_SIZE, scaled down

DfBlank == [kind |-> "desfire", ver |-> <<>>, mem |-> 0, free |-> FALSE, apps |-> <<>>]

-----------------------------------------------------------------------------
(* The listener: session [app, pend], the selected application (0: none)    *)
(* and the frame of the version that comes next (0: none is pending)        *)

DfIdle == [app |-> 0, pend |-> 0]

\* Wrong variant: a SELECT of the AID leaves a version half sent.
DfSelectedKeeps(s) == [s EXCEPT !.app = 0]

\* desfire_listener_session_reset, for the SELECT of the AID
DfSelected(s) == DfIdle

\* desfire_listener_cmd_get_version: the command and the additional frame
DfVersion(m, s) ==
    LET frame == IF s.pend = 0 THEN 1 ELSE s.pend
    IN  IF frame = 3 THEN Answer([s EXCEPT !.pend = 0], [k |-> "ok", data |-> <<m.ver[3]>>])
        ELSE Answer([s EXCEPT !.pend = frame + 1], [k |-> "more", data |-> <<m.ver[frame]>>])

\* desfire_listener_selected_app, desfire_listener_find_file
DfApp(m, s) == m.apps[s.app]
DfHas(m, s, id) == s.app # 0 /\ \E f \in Range(DfApp(m, s).files) : f.id = id
DfFile(m, s, id) == CHOOSE f \in Range(DfApp(m, s).files) : f.id = id

\* desfire_listener_cmd_select_application: index of the application, 0 if none
DfIndex(m, id) ==
    IF \E i \in DOMAIN m.apps : m.apps[i].id = id THEN CHOOSE i \in DOMAIN m.apps : m.apps[i].id = id ELSE 0

\* desfire_listener_check_file_auth and the boundary of READ_DATA, READ_RECORDS
\* and GET_VALUE.  No command ever reaches the state AUTHENTICATED.
DfServes(f, n) == f.plain /\ n <= f.len

\* READ_DATA, GET_VALUE (always the whole value) and READ_RECORDS
DfReadOp == [data |-> "df_data", value |-> "df_value", records |-> "df_records"]

\* what the listener holds
DfFiles ==
    [id : Nat, type : DOMAIN DfReadOp, plain : BOOLEAN, free : BOOLEAN, size : Nat, len : Nat]

DfApps == [id : STRING, ks : Nat, files : Seq(DfFiles)]

DesfireModelOk(m) == m.apps \in Seq(DfApps)

\* the commands that list what there is: the free memory, the key settings, the
\* applications, the files and the settings of a file
DfDirectory(m, s, c) ==
    CASE c.op = "df_memory" -> Answer(s, [k |-> "ok", mem |-> m.mem])
      [] c.op = "df_settings" /\ s.app = 0 -> Answer(s, [k |-> "ok", free |-> m.free])
      [] c.op = "df_settings" /\ s.app # 0 -> Answer(s, [k |-> "ok", ks |-> DfApp(m, s).ks])
      [] c.op = "df_apps" -> Answer(s, [k |-> "ok", ids |-> [i \in DOMAIN m.apps |-> m.apps[i].id]])
      [] c.op = "df_files" /\ s.app # 0 ->
             Answer(s, [k |-> "ok", ids |-> [i \in DOMAIN DfApp(m, s).files |-> DfApp(m, s).files[i].id]])
      [] c.op = "df_file" /\ DfHas(m, s, c.a) ->
             Answer(s, [k |-> "ok", f |-> [DfFile(m, s, c.a) EXCEPT !.len = 0]])
      [] OTHER -> Refused(s)

\* desfire_listener_on_select, desfire_listener_on_apdu
DesfireOn(m, s, c) ==
    CASE c.op = "select" -> Answer(DfSelected(s), [k |-> "ok"])
      [] c.op = "df_key_version" -> Answer(s, [k |-> "ok"])
      [] c.op = "df_version" \/ (c.op = "df_more" /\ s.pend # 0) -> DfVersion(m, s)
      [] c.op = "df_app" /\ DfIndex(m, c.a) # 0 -> Answer([DfIdle EXCEPT !.app = DfIndex(m, c.a)], [k |-> "ok"])
      [] /\ c.op \in {"df_data", "df_value", "df_records"} /\ DfHas(m, s, c.a)
         /\ c.op \in {"df_data", DfReadOp[DfFile(m, s, c.a).type]} /\ DfServes(DfFile(m, s, c.a), c.b) ->
             Answer(s, [k |-> "ok", len |-> c.b])
      [] OTHER -> DfDirectory(m, s, c)

\* desfire_serialize
DfBlob(im) == [kind |-> "desfire", ver |-> im.ver, mem |-> im.mem, free |-> im.free, apps |-> im.apps]

\* desfire_deserialize wants twelve bytes for a file, one more than an empty file has
DfReloads(b) == \A a \in Range(b.apps) : a.files # <<>> => a.files[Len(a.files)].len # 0
DfModel(b) == [ver |-> b.ver, mem |-> b.mem, free |-> b.free, apps |-> b.apps]

DfSays(op, a, b) ==
    Exchange(DepAnswer("desfire",
        IF card.kind = "desfire" THEN DesfireOn(card.m, card.s, Cmd(op, a, b)) ELSE Silent(card.s), Cmd(op, a, b)))

-----------------------------------------------------------------------------
(* The poller                                                               *)

\* desfire_poller_i_transceive and the test of the status
DfStep(step, op, a, b, Then(_), Else(_)) == Step("desfire", step, DfSays(op, a, b), Then, Else)

\* desfire_poller_detect: SELECT, GET_KEY_VERSION, and the first frame of
\* GET_VERSION, which leaves the rest pending in the card
DesfireDetect ==
    \/ DfStep("detect", "select", "NDEF_v1", 0, LAMBDA rx : Continue("detect_key"), NoMatch)
    \/ DfStep("detect_key", "df_key_version", 0, 0, LAMBDA rx : Continue("detect_version"), NoMatch)
    \/ /\ At("desfire", "detect_version")
       /\ \E o \in DfSays("df_version", 0, 0) :
              After(o) /\ IF o.ret = "ok" /\ o.rx.k # "sw" THEN Matched(DfBlank) ELSE NotMatched

\* desfire_poller_select and the key version; whatever goes wrong with that one
\* is -EIO
DesfireSelect ==
    \/ DfStep("read", "select", "NDEF_v1", 0, LAMBDA rx : Continue("key"), Fails)
    \/ DfStep("key", "df_key_version", 0, 0, LAMBDA rx : Continue("version"), LAMBDA e : Fails("EIO"))

\* desfire_poller_i_send_chunks, then desfire_poller_parse_version
DesfireVersion ==
    /\ At("desfire", "version") \/ At("desfire", "more")
    /\ \E o \in DfSays(IF rd.step = "more" THEN "df_more" ELSE "df_version", 0, 0) :
           /\ After(o)
           /\ CASE o.ret # "ok" -> Fails(o.ret)
                [] o.ret = "ok" /\ o.rx.k = "sw" -> Fails("EIO")
                [] o.ret = "ok" /\ o.rx.k = "more" -> Goto("more") /\ img' = [img EXCEPT !.ver = @ \o o.rx.data]
                [] OTHER -> /\ img' = [img EXCEPT !.ver = @ \o o.rx.data]
                            /\ IF Len(img'.ver) < 3 THEN ReadFails("EBADMSG") ELSE Goto("memory")

\* READ_FREE_MEMORY may fail.  The master key settings must come; a status other than
\* OK, like a directory that is not free, ends the read without applications.
DesfirePicc ==
    \/ DfStep("memory", "df_memory", 0, 0,
              LAMBDA rx : Goto("master") /\ img' = [img EXCEPT !.mem = rx.mem], LAMBDA e : Continue("master"))
    \/ /\ At("desfire", "master")
       /\ \E o \in DfSays("df_settings", 0, 0) :
              /\ After(o)
              /\ CASE o.ret # "ok" -> Fails(o.ret)
                   [] Accepted(o) -> /\ img' = [img EXCEPT !.free = o.rx.free]
                                     /\ IF o.rx.free THEN Goto("apps") ELSE ReadOk("clone")
                   [] OTHER -> ReadOk("clone") /\ UNCHANGED img

\* desfire_poller_i_read_application_ids: none is -EBADMSG, more than the image
\* has room for is -ENOSPC
DesfireApps ==
    DfStep("apps", "df_apps", 0, 0,
        LAMBDA rx : CASE Len(rx.ids) = 0 -> Fails("EBADMSG")
                      [] Len(rx.ids) > DfMaxApps -> Fails("ENOSPC")
                      [] OTHER -> rd' = [rd EXCEPT !.step = "app", !.word = rx.ids[1]] /\ UNCHANGED img,
        Fails)

\* an application that cannot be selected or listed is left out
DfSkipApp(e) == ReadOk("clone") /\ img' = [img EXCEPT !.apps = <<>>]

\* desfire_poller_i_select_application and the first half of
\* desfire_poller_read_application; rd.word is the list of files afterwards
DesfireApp ==
    \/ DfStep("app", "df_app", rd.word, 0,
              LAMBDA rx : Goto("settings") /\ img' = [img EXCEPT !.apps = <<[id |-> rd.word, ks |-> 0, files |-> <<>>]>>],
              DfSkipApp)
    \/ DfStep("settings", "df_settings", 0, 0,
              LAMBDA rx : Goto("files") /\ img' = [img EXCEPT !.apps[1].ks = rx.ks], DfSkipApp)
    \/ DfStep("files", "df_files", 0, 0,
              LAMBDA rx : CASE Len(rx.ids) > DfMaxFiles -> DfSkipApp("ENOSPC")
                            [] Len(rx.ids) = 0 -> ReadOk("clone") /\ UNCHANGED img
                            [] OTHER -> /\ rd' = [rd EXCEPT !.step = "file", !.i = 1, !.word = rx.ids]
                                        /\ UNCHANGED img,
              DfSkipApp)

\* the loop over the files goes on, with the image im
DfNextFile(im) ==
    img' = im /\ IF rd.i < Len(rd.word) THEN Loop("file", rd.i + 1) ELSE ReadOk("clone")

\* a file that was read takes the next place; one that was not leaves it
DfPut(im, f, ok) == IF ok THEN [im EXCEPT !.apps[1].files = Append(@, f)] ELSE im

\* desfire_poller_i_read_file_settings: a file that needs a key or is too large
\* is skipped, an empty one is not read
DesfireFile ==
    DfStep("file", "df_file", rd.word[rd.i], 0,
        LAMBDA rx : CASE ~rx.f.free \/ rx.f.size > DfMaxSize -> DfNextFile(img)
                      [] rx.f.free /\ rx.f.size = 0 -> DfNextFile(DfPut(img, rx.f, TRUE))
                      [] OTHER -> Goto("data") /\ img' = DfPut(img, rx.f, TRUE),
        LAMBDA e : DfNextFile(img))

\* desfire_poller_i_read_file_data, _value or _records.  While it runs the file
\* is in its place, which is taken back if it fails.
DesfireData ==
    LET n == Len(img.apps[1].files)
        f == img.apps[1].files[n]
        rest == [img EXCEPT !.apps[1].files = SubSeq(@, 1, n - 1)]
    IN  DfStep("data", DfReadOp[f.type], f.id, f.size,
            LAMBDA rx : DfNextFile(DfPut(rest, [f EXCEPT !.len = rx.len], TRUE)),
            LAMBDA e : DfNextFile(DfPut(rest, f, FALSE)))

DesfireNext ==
    \/ DesfireDetect \/ DesfireSelect \/ DesfireVersion \/ DesfirePicc \/ DesfireApps \/ DesfireApp
    \/ DesfireFile \/ DesfireData
=============================================================================
