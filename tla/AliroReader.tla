----------------------------- MODULE AliroReader -----------------------------
(***************************************************************************)
(* The Aliro poller (src/nfc/protocols/aliro/aliro_poller.c) and the       *)
(* listener as it sees it: the session is s_state of aliro_listener.c, and *)
(* a command that is deferred to the crypto work item has been answered    *)
(* when the exchange is over.  AliroListener has the listener step by      *)
(* step.                                                                   *)
(***************************************************************************)
EXTENDS IsoDepLink

AlBlank == [kind |-> "aliro", pubkey |-> "none", transcript |-> <<>>]

\* the state that expects a command, and the one after its answer
AlExpects == [al_auth0 |-> "AUTH0", al_auth1 |-> "AUTH1", al_exchange |-> "EXCHANGE"]
AlAfter == [al_auth0 |-> "AUTH1", al_auth1 |-> "EXCHANGE", al_exchange |-> "DONE"]

\* a command that is not expected ends the session, unless it is over already
AlOutOfOrder(s) == IF s.st = "DONE" THEN s ELSE [st |-> "ERROR"]

\* aliro_listener_on_select, aliro_listener_on_apdu, aliro_listener_crypto_handler
AliroOn(m, s, c) ==
    CASE c.op = "select" -> Answer([st |-> "AUTH0"], [k |-> "ok"])
      [] c.op # "select" /\ s.st = AlExpects[c.op] /\ ~m.verified -> Answer([st |-> AlAfter[c.op]], [k |-> "ok"])
      [] OTHER -> Refused(AlOutOfOrder(s))

\* aliro_serialize; aliro_deserialize gives the listener no transcript to serve
AlBlob(im) == [kind |-> "aliro", pubkey |-> im.pubkey, transcript |-> im.transcript]

AlSays(op) ==
    LET c == Cmd(op, "ALIRO", 0)
    IN  Exchange(DepAnswer("aliro", IF card.kind = "aliro" THEN AliroOn(card.m, card.s, c) ELSE Silent(card.s), c))

AlAppend(im, what) == [im EXCEPT !.transcript = Append(@, what)]

\* aliro_poller_detect
AliroDetect ==
    /\ At("aliro", "detect")
    /\ \E o \in AlSays("select") : After(o) /\ IF Accepted(o) THEN Matched(AlBlank) ELSE NotMatched

\* aliro_poller_read: SELECT and AUTH0, without which there is no image
AliroMandatory(step, op, next) ==
    /\ At("aliro", step)
    /\ \E o \in AlSays(op) :
           /\ After(o)
           /\ IF Accepted(o)
              THEN /\ Goto(next)
                   /\ img' = [AlAppend(img, op) EXCEPT !.pubkey = IF op = "al_auth0" THEN "key" ELSE @]
              ELSE ReadFails(Errno(o)) /\ UNCHANGED img

\* ... AUTH1 and EXCHANGE, which go to the transcript if they are answered
AliroOptional(step, op, next) ==
    /\ At("aliro", step)
    /\ \E o \in AlSays(op) :
           /\ After(o)
           /\ img' = IF Accepted(o) THEN AlAppend(img, op) ELSE img
           /\ IF next = "clone" THEN ReadOk("clone") ELSE Goto(next)

AliroNext ==
    \/ AliroDetect
    \/ AliroMandatory("read", "select", "auth0") \/ AliroMandatory("auth0", "al_auth0", "auth1")
    \/ AliroOptional("auth1", "al_auth1", "exchange") \/ AliroOptional("exchange", "al_exchange", "clone")
=============================================================================
