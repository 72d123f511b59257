------------------------------ MODULE IsoDepLink ------------------------------
(***************************************************************************)
(* The ISO-DEP cards: NDEF (type 4), DESFire, EMV and Aliro.  A card has   *)
(* one application behind the AID router, so a SELECT of an AID that is    *)
(* not its own is refused and leaves its session alone, and any other      *)
(* C-APDU of a protocol that is not its own gets an error status.  An      *)
(* answer has k = "ok" (the status the poller wants), "more" (DESFire's    *)
(* additional frame) or "sw" (any other status).                           *)
(***************************************************************************)
EXTENDS TagLink

\* The AIDs stack_register_listen_profiles gives each service.  The one of DESFire
\* is the AID of an NDEF application of mapping version 1.
Aids == [ndef |-> {"NDEF_v2"}, desfire |-> {"NDEF_v1"}, emv |-> {"PPSE", "VISA"}, aliro |-> {"ALIRO"}]

Cmd(op, a, b) == [op |-> op, a |-> a, b |-> b]
Refused(s) == Answer(s, [k |-> "sw"])

\* What the card answers to a command of the poller of `kind`, if `own` is what
\* a card of that kind would
DepAnswer(kind, own, c) ==
    IF card.kind \notin DOMAIN Aids THEN Silent(card.s)
    ELSE IF c.op = "select" /\ c.a \notin Aids[card.kind] THEN Refused(card.s)
    ELSE IF card.kind = kind THEN own
    ELSE IF c.op = "select" THEN Answer(card.s, [k |-> "ok"])
    ELSE Refused(card.s)

Accepted(o) == o.ret = "ok" /\ o.rx.k = "ok"

\* the errno of an exchange that is not accepted
Errno(o) == IF o.ret = "ok" THEN "EIO" ELSE o.ret

\* One exchange of an ISO-DEP poller: what follows when the card accepts the
\* command, and when it does not
Step(entry, step, outcomes, Then(_), Else(_)) ==
    /\ At(entry, step)
    /\ \E o \in outcomes : After(o) /\ IF Accepted(o) THEN Then(o.rx) ELSE Else(Errno(o))

NoMatch(e) == NotMatched
=============================================================================
