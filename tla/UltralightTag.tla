---------------------------- MODULE UltralightTag ----------------------------
(***************************************************************************)
(* MIFARE Ultralight and NTAG21x, type 2 (src/nfc/protocols/ultralight:    *)
(* ultralight_poller.c, ultralight_poller_i.c, ultralight_listener_t2.c,   *)
(* ultralight.c).  The page counts are scaled down and keep their order    *)
(* and their residue modulo the four pages of a READ, which decides which  *)
(* configuration pages are known when the last chunk is asked for.  A      *)
(* page's content is its number plus one; a configuration page holds 100   *)
(* plus its byte.                                                          *)
(***************************************************************************)
EXTENDS TagLink

\* ultralight_pages_total_for_type: 16, 20, 41, 42, 45, 135, 231 and 48 pages
UlTotal == [ORIGIN |-> 8, UL11 |-> 12, UL21 |-> 17, NTAG203 |-> 18, NTAG213 |-> 21,
            NTAG215 |-> 27, NTAG216 |-> 31, MFUL_C |-> 24]
UlProbe == UlTotal["NTAG203"] - 1   \* page 41
UlExtra == 3                        \* ULTRALIGHT_COUNTER_NUM, ULTRALIGHT_TEARING_FLAG_NUM
NoAuth0 == 99                       \* ULTRALIGHT_AUTH0_NONE
DefaultPwd == 99                    \* FF FF FF FF

\* type_from_pages_total
UlTypeOf(total) == CHOOSE t \in DOMAIN UlTotal : UlTotal[t] = total

\* ultralight_type_has_password_config
HasPassword(type) == type \in {"NTAG213", "NTAG215", "NTAG216"}

\* ultralight_config_page_indices
Auth0Page(total) == total - 4
AccessPage(total) == total - 3
PwdPage(total) == total - 2

\* the pages of a card that has been set up with a configuration
UlPages(type, auth0, prot, authlim, pwd) ==
    LET n == UlTotal[type]
    IN  [p \in 0..(n - 1) |->
            CASE HasPassword(type) /\ p = Auth0Page(n) -> 100 + auth0
              [] HasPassword(type) /\ p = AccessPage(n) -> 100 + (IF prot THEN 8 ELSE 0) + authlim
              [] HasPassword(type) /\ p = PwdPage(n) -> 100 + pwd
              [] type = "MFUL_C" /\ p = Auth0Page(n) -> pwd     \* ULTRALIGHT_C_KEY_PAGE
              [] OTHER -> p + 1]

\* ultralight_parse_config: from what has been read so far
UlConfig(type, pages, read) ==
    LET n == UlTotal[type]
        valid == HasPassword(type) /\ read > Auth0Page(n)
        byte(p) == IF valid THEN pages[p] % 100 ELSE 0
    IN  [valid |-> valid, auth0 |-> byte(Auth0Page(n)), prot |-> byte(AccessPage(n)) >= 8,
         authlim |-> byte(AccessPage(n)) % 8, pwd |-> byte(PwdPage(n))]

\* ultralight_read_protection_enabled, ultralight_page_needs_auth
Protected(cfg) == cfg.valid /\ cfg.auth0 # NoAuth0
NeedsAuth(cfg, page) == Protected(cfg) /\ cfg.prot /\ page >= cfg.auth0

UlBlank ==
    [kind |-> "ultralight", type |-> "none", pages |-> <<>>, read |-> 0, ver |-> "none",
     sig |-> 0, cnt |-> <<>>, tear |-> <<>>]

\* A version that is known is the one of the type, and tells it.
UlModelOk(m) ==
    /\ m.type \in DOMAIN UlTotal /\ m.pages \in [0..(UlTotal[m.type] - 1) -> Nat]
    /\ m.ver \in DOMAIN UlTotal => m.ver = m.type
    /\ m.sig \in Nat /\ m.cnt \in Seq(Nat) /\ m.tear \in Seq(Nat)

-----------------------------------------------------------------------------
(* The listener: session [auth], one of idle, wait, success                 *)

UlCardConfig(m) == UlConfig(m.type, m.pages, UlTotal[m.type])

\* ultralight_listener_t2_deserialize: a card that protects nothing starts
\* authenticated
UlLoaded(m) ==
    [auth |-> IF UlCardConfig(m).valid /\ (~Protected(UlCardConfig(m)) \/ ~UlCardConfig(m).prot)
              THEN "success" ELSE "idle"]

\* ultralight_serialize: neither the type nor the number of pages read is written
UlBlob(im) ==
    [kind |-> "ultralight", total |-> UlTotal[im.type], pages |-> im.pages, ver |-> im.ver, sig |-> im.sig,
     cnt |-> im.cnt, tear |-> im.tear]

\* Wrong variant: the tearing flags stay where they are.
UlModelUntorn(b) ==
    [type |-> UlTypeOf(b.total), pages |-> b.pages, ver |-> b.ver, sig |-> b.sig, cnt |-> b.cnt, tear |-> <<>>]

\* ultralight_deserialize: the type is told from the number of pages
UlModel(b) ==
    [type |-> UlTypeOf(b.total), pages |-> b.pages, ver |-> b.ver, sig |-> b.sig, cnt |-> b.cnt, tear |-> b.tear]

\* Wrong variant: only the first page of a READ is looked at.
UlFirstReadable(m, s, page) == s.auth = "success" \/ ~NeedsAuth(UlCardConfig(m), page)

\* ultralight_t2_page_readable, for each of the four pages that exist
UlReadable(m, s, page) ==
    \A p \in page..(page + 3) :
        p < UlTotal[m.type] => s.auth = "success" \/ ~NeedsAuth(UlCardConfig(m), p)

\* ultralight_t2_handle_read: past the end the answer is zeros; a protected page
\* gets a one-byte refusal
UlRead(m, s, page) ==
    IF UlReadable(m, s, page)
    THEN [k |-> "pages", pages |-> [j \in 0..3 |-> IF page + j < UlTotal[m.type] THEN m.pages[page + j] ELSE 0]]
    ELSE [k |-> "nak"]

\* ultralight_t2_handle_pwd_auth
UlPwdOk(m, pwd) == UlCardConfig(m).valid /\ pwd = UlCardConfig(m).pwd

\* the 3DES key of the model (ultralight_3des_get_key)
UlKey(m) == m.pages[Auth0Page(UlTotal["MFUL_C"])]

\* ultralight_listener_t2_on_tag_cmd
UltralightOn(m, s, c) ==
    CASE c.op = "ul_read" -> Answer(s, UlRead(m, s, c.a))
      [] c.op = "ul_version" /\ m.ver # "none" -> Answer(s, [k |-> "version", ver |-> m.ver])
      [] c.op = "ul_sig" /\ m.sig # 0 -> Answer(s, [k |-> "sig", sig |-> m.sig])
      [] c.op = "ul_cnt" /\ c.a < Len(m.cnt) -> Answer(s, [k |-> "cnt", v |-> m.cnt[c.a + 1]])
      [] c.op = "ul_tear" /\ c.a < Len(m.tear) -> Answer(s, [k |-> "tear", v |-> m.tear[c.a + 1]])
      [] c.op = "ul_pwd" /\ UlPwdOk(m, c.a) -> Answer([auth |-> "success"], [k |-> "pack"])
      [] c.op = "ul_auth" /\ m.type = "MFUL_C" -> Answer([auth |-> "wait"], [k |-> "rndB"])
      [] c.op = "ul_cont" /\ m.type = "MFUL_C" /\ s.auth = "wait" ->
             IF c.a = UlKey(m) THEN Answer([auth |-> "success"], [k |-> "rndA"]) ELSE Silent([auth |-> "idle"])
      [] OTHER -> Silent(s)

UlAnswer(op, a) ==
    IF card.kind = "ultralight" THEN UltralightOn(card.m, card.s, [op |-> op, a |-> a]) ELSE Silent(card.s)

-----------------------------------------------------------------------------
(* The poller: what it is and how many pages it has                         *)

UlSays(op, a) == Exchange(UlAnswer(op, a))

\* ultralight_poller_detect
UltralightDetect ==
    /\ At("ultralight", "detect")
    /\ \E o \in UlSays("ul_read", 0) :
           After(o) /\ IF o.ret = "ok" /\ o.rx.k = "pages" THEN Matched(UlBlank) ELSE NotMatched

\* the type is known: the image gets its size, and an Ultralight C is asked to
\* authenticate first
UlIdentified(type, ver) ==
    /\ img' = [img EXCEPT !.type = type, !.ver = ver, !.pages = [p \in 0..(UlTotal[type] - 1) |-> 0]]
    /\ rd' = [rd EXCEPT !.step = IF type = "MFUL_C" THEN "auth" ELSE "page", !.i = 0, !.flag = FALSE]

\* ultralight_poller_identify_type: GET_VERSION (ultralight_type_from_version)
UltralightVersion ==
    /\ At("ultralight", "read")
    /\ \E o \in UlSays("ul_version", 0) :
           /\ After(o)
           /\ IF o.ret = "ok" /\ o.rx.ver \in DOMAIN UlTotal THEN UlIdentified(o.rx.ver, o.rx.ver)
              ELSE /\ Goto("c_probe")
                   /\ img' = [img EXCEPT !.ver = IF o.ret = "ok" /\ o.rx.ver # "zero" THEN o.rx.ver ELSE @]

\* ... ultralight_poller_i_authentication_test
UltralightCProbe ==
    /\ At("ultralight", "c_probe")
    /\ \E o \in UlSays("ul_auth", 0) :
           /\ After(o)
           /\ IF o.ret = "ok" THEN UlIdentified("MFUL_C", img.ver) ELSE Goto("probe41") /\ UNCHANGED img

\* ... and the page only an NTAG203 has
UltralightProbe41 ==
    /\ At("ultralight", "probe41")
    /\ \E o \in UlSays("ul_read", UlProbe) :
           After(o) /\ UlIdentified(IF o.ret = "ok" /\ o.rx.k = "pages" THEN "NTAG203" ELSE "ORIGIN", img.ver)

\* ultralight_poller_i_authenticate with a key of zeros: both halves.  Its
\* result changes nothing that is read afterwards.
UltralightCAuth ==
    /\ At("ultralight", "auth")
    /\ \E o \in UlSays("ul_auth", 0) :
           After(o) /\ UNCHANGED img /\ IF o.ret = "ok" THEN Goto("cont") ELSE Loop("page", 0)

UltralightCCont ==
    /\ At("ultralight", "cont")
    /\ \E o \in UlSays("ul_cont", 0) : After(o) /\ UNCHANGED img /\ Loop("page", 0)

-----------------------------------------------------------------------------
(* ultralight_poller_read_pages.  rd.i is the first page of the chunk,      *)
(* rd.flag tells whether the poller is authenticated and rd.word why it     *)
(* tries a password.                                                        *)

UlKnown(im) == UlConfig(im.type, im.pages, im.read)

\* ultralight_poller_read after the pages
UlPagesDone(im) ==
    IF im.read = UlTotal[im.type] /\ im.ver # "none" THEN Goto("sig") ELSE ReadOk("clone")

\* what comes before the READ of chunk i: a password, or nothing
UlBefore(im, i, auth, why) ==
    IF ~auth /\ why = "config" /\ Protected(UlKnown(im)) /\ i >= Auth0Page(UlTotal[im.type])
    THEN [rd EXCEPT !.step = "pwd", !.i = i, !.flag = auth, !.word = "config"]
    ELSE IF ~auth /\ NeedsAuth(UlKnown(im), i)
    THEN [rd EXCEPT !.step = "pwd", !.i = i, !.flag = auth, !.word = "needed"]
    ELSE [rd EXCEPT !.step = "page", !.i = i, !.flag = auth]

\* the end of ultralight_poller_try_pwd_auth
UlTried(ok) ==
    CASE rd.word = "config" -> rd' = UlBefore(img, rd.i, ok, "needed")
      [] rd.word # "config" /\ ok -> rd' = [rd EXCEPT !.step = "page", !.flag = TRUE]
      [] OTHER -> UlPagesDone(img)

\* ultralight_poller_try_pwd_auth: the password that was read ...
UltralightPwd ==
    /\ At("ultralight", "pwd")
    /\ \E o \in UlSays("ul_pwd", UlKnown(img).pwd) :
           /\ After(o) /\ UNCHANGED img
           /\ IF o.ret # "ok" /\ UlKnown(img).authlim = 0 THEN Goto("pwd_default") ELSE UlTried(o.ret = "ok")

\* ... and the default one when no limit would lock the card
UltralightPwdDefault ==
    /\ At("ultralight", "pwd_default")
    /\ \E o \in UlSays("ul_pwd", DefaultPwd) : After(o) /\ UNCHANGED img /\ UlTried(o.ret = "ok")

\* ultralight_poller_copy_read_chunk
UlCopy(im, i, chunk) ==
    [im EXCEPT !.pages = [p \in DOMAIN @ |-> IF p \in i..(i + 3) THEN chunk[p - i] ELSE @[p]],
               !.read = IF i + 4 < UlTotal[im.type] THEN i + 4 ELSE UlTotal[im.type]]

\* a READ; one that is refused ends the loop after one try with a password
UltralightPage ==
    /\ At("ultralight", "page")
    /\ \E o \in UlSays("ul_read", rd.i) :
           /\ After(o)
           /\ IF o.ret = "ok" /\ o.rx.k = "pages"
              THEN /\ img' = UlCopy(img, rd.i, o.rx.pages)
                   /\ IF rd.i + 4 < UlTotal[img.type] THEN rd' = UlBefore(img', rd.i + 4, rd.flag, "config")
                      ELSE UlPagesDone(img')
              ELSE /\ UNCHANGED img
                   /\ IF ~rd.flag /\ UlKnown(img).valid THEN rd' = [rd EXCEPT !.step = "pwd", !.word = "retry"]
                      ELSE UlPagesDone(img)

-----------------------------------------------------------------------------
(* The tail of ultralight_poller_read                                       *)

UltralightSig ==
    /\ At("ultralight", "sig")
    /\ \E o \in UlSays("ul_sig", 0) :
           After(o) /\ Loop("cnt", 0) /\ img' = IF o.ret = "ok" THEN [img EXCEPT !.sig = o.rx.sig] ELSE img

\* entry i of an array whose length is the last entry read
UlPut(seq, i, v) == [j \in 1..i |-> IF j = i THEN v ELSE IF j <= Len(seq) THEN seq[j] ELSE 0]

UltralightCounter ==
    /\ At("ultralight", "cnt")
    /\ \E o \in UlSays("ul_cnt", rd.i) :
           /\ After(o)
           /\ img' = IF o.ret = "ok" THEN [img EXCEPT !.cnt = UlPut(@, rd.i + 1, o.rx.v)] ELSE img
           /\ IF rd.i + 1 < UlExtra THEN Loop("cnt", rd.i + 1) ELSE Loop("tear", 0)

UltralightTearing ==
    /\ At("ultralight", "tear")
    /\ \E o \in UlSays("ul_tear", rd.i) :
           /\ After(o)
           /\ img' = IF o.ret = "ok" THEN [img EXCEPT !.tear = UlPut(@, rd.i + 1, o.rx.v)] ELSE img
           /\ IF rd.i + 1 < UlExtra THEN Loop("tear", rd.i + 1) ELSE ReadOk("clone")

UltralightNext ==
    \/ UltralightDetect \/ UltralightVersion \/ UltralightCProbe \/ UltralightProbe41
    \/ UltralightCAuth \/ UltralightCCont \/ UltralightPwd \/ UltralightPwdDefault \/ UltralightPage
    \/ UltralightSig \/ UltralightCounter \/ UltralightTearing
=============================================================================
