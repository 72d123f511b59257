------------------------------- MODULE MCWalk -------------------------------
(***************************************************************************)
(* The cards of the runs of PollerWalk.                                    *)
(***************************************************************************)
EXTENDS PollerWalk

IsoModel(uid, count, acceptAll) ==
    [uid |-> uid, info |-> 1, count |-> count, sec |-> [i \in 1..count |-> i % 2], nxp |-> 1, sig |-> <<1, 2>>,
     random |-> <<1, 0>>, pwd |-> <<0, 1>>, acceptAll |-> acceptAll]

IsoCards ==
    {[kind |-> "iso15693_3", m |-> IsoModel("other", n, FALSE), s |-> 0] : n \in {0, 1, 2, 5}}
    \cup {[kind |-> "slix", m |-> IsoModel(uid, n, all), s |-> [privacy |-> pr, random |-> <<0, 0>>]] :
              uid \in {"SLIX", "SLIX2"}, n \in {1, 2}, all \in {FALSE}, pr \in BOOLEAN}
    \cup {[kind |-> "slix", m |-> IsoModel("SLIX", 1, TRUE), s |-> [privacy |-> TRUE, random |-> <<0, 0>>]]}

\* the cards whose block security takes more than one query
LongCards ==
    {[kind |-> "iso15693_3", m |-> IsoModel("other", n, FALSE), s |-> 0] : n \in {3, 4}}
    \cup {[kind |-> "slix", m |-> IsoModel("SLIX", n, FALSE), s |-> [privacy |-> FALSE, random |-> <<0, 0>>]] :
              n \in {3, 4}}

\* the sectors whose key A is not the default one
ClassicCards ==
    {[kind |-> "classic", s |-> ClIdle,
      m |-> [type |-> t, uid |-> u,
             key |-> [sec \in 0..(ClSectors[t] - 1) |-> IF sec \in other THEN "other" ELSE "default"]]] :
         t \in {"MINI", "C1K", "C4K"}, u \in {"four", "cascade", "seven"}, other \in {{}, {0}, {1}}}

FelicaCards ==
    {[kind |-> "felica", s |-> 0, m |-> [idm |-> "idm", pmm |-> pmm, total |-> n, failed |-> f]] :
         <<pmm, n, f>> \in {<<"lite", 28, {}>>, <<"lite", 28, {3, 15}>>, <<"lite", 27, {}>>,
                            <<"standard", 28, {}>>, <<"unknown", 28, {}>>}}

UlCard(type, ver, cfg, sig, cnt, tear) ==
    LET m == [type |-> type, pages |-> UlPages(type, cfg[1], cfg[2], cfg[3], cfg[4]), ver |-> ver, sig |-> sig,
              cnt |-> cnt, tear |-> tear]
    IN  [kind |-> "ultralight", m |-> m, s |-> UlLoaded(m)]

Open == <<NoAuth0, FALSE, 0, DefaultPwd>>

UltralightCards ==
    {UlCard("ORIGIN", v, Open, 0, <<>>, <<>>) : v \in {"none", "zero", "unknown"}}
    \cup {UlCard(t, t, Open, 1, <<1, 2, 3>>, <<4>>) : t \in {"UL11", "UL21", "NTAG213", "NTAG215", "NTAG216"}}
    \cup {UlCard("NTAG203", "none", Open, 0, <<>>, <<>>), UlCard("NTAG213", "none", <<6, TRUE, 0, 5>>, 0, <<>>, <<>>)}
    \cup {UlCard("MFUL_C", "none", <<0, FALSE, 0, key>>, 0, <<>>, <<>>) : key \in {0, 7}}
    \* AUTH0 before the first page, in a chunk, at a chunk, at and behind the configuration
    \cup {UlCard(t, t, <<auth0, prot, lim, pwd>>, 0, <<1>>, <<>>) :
              t \in {"NTAG213", "NTAG215"}, auth0 \in {2, 6, 8, UlTotal["NTAG213"] - 1}, prot \in {TRUE},
              lim \in {0, 1}, pwd \in {DefaultPwd, 5}}
    \cup {UlCard("NTAG215", "NTAG215", <<UlTotal["NTAG215"] - k, prot, 0, pwd>>, 0, <<>>, <<>>) :
              k \in {1, 3}, prot \in BOOLEAN, pwd \in {0, 5}}

NdefCards ==
    {[kind |-> "ndef", m |-> [mle |-> mle, writable |-> w], s |-> [NdefFile(n, 1) EXCEPT !.file = "ndef"]] :
         mle \in {0, 3, 9}, w \in BOOLEAN, n \in {0, 1, 3, NdefMax, NdefMax + 1}}

File(id, type, plain, free, size, len) ==
    [id |-> id, type |-> type, plain |-> plain, free |-> free, size |-> size, len |-> len]

FileLists ==
    {<<>>, <<File(1, "data", TRUE, TRUE, 2, 2)>>, <<File(1, "data", TRUE, TRUE, 0, 0)>>,
     <<File(1, "data", TRUE, TRUE, 0, 0), File(2, "value", TRUE, TRUE, 1, 1)>>,
     <<File(1, "data", FALSE, TRUE, 2, 2), File(2, "records", TRUE, TRUE, 1, 1)>>,
     <<File(1, "data", TRUE, FALSE, 2, 2), File(2, "data", TRUE, TRUE, 1, 1)>>,
     <<File(1, "records", TRUE, TRUE, 3, 2), File(2, "data", TRUE, TRUE, 2, 1)>>}

DesfireCards ==
    {[kind |-> "desfire", s |-> DfIdle, m |-> [ver |-> <<1, 2, 3>>, mem |-> 1, free |-> free, apps |-> apps]] :
         <<free, apps>> \in {<<FALSE, <<>>>>, <<TRUE, <<>>>>}
                            \cup {<<TRUE, <<[id |-> "a", ks |-> 1, files |-> fl]>>>> : fl \in FileLists}}

EmvCards ==
    {[kind |-> "emv", s |-> [st |-> "IDLE"], m |-> [aid |-> aid, first |-> r[1], last |-> r[2], recs |-> recs]] :
         aid \in {"VISA", "other"}, r \in {<<1, 1>>, <<1, 2>>, <<2, 2>>, <<2, 1>>}, recs \in {<<1>>, <<1, 2>>, <<0, 2>>}}

AliroCards == {[kind |-> "aliro", s |-> [st |-> "IDLE"], m |-> [verified |-> v]] : v \in BOOLEAN}

AllCards ==
    IsoCards \cup ClassicCards \cup FelicaCards \cup UltralightCards \cup NdefCards \cup DesfireCards
        \cup EmvCards \cup AliroCards
=============================================================================
