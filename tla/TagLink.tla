------------------------------- MODULE TagLink -------------------------------
(***************************************************************************)
(* What every poller and every listener of src/nfc/protocols shares: the   *)
(* registry's walk over the pollers (nfc_reader_poller_registry.c), the    *)
(* exchange of one command and one answer (nfc_reader_session_transceive)  *)
(* and the image the poller fills.  The card is an emulated one: the       *)
(* listener of some protocol with a model m and a session s.  A module per *)
(* protocol has the listener as an operator from model, session and        *)
(* command to session and answer, and the poller as actions, one for each  *)
(* exchange.                                                               *)
(***************************************************************************)
EXTENDS Naturals, Sequences

CONSTANT MaxLost  \* bound: exchanges that fail

ASSUME MaxLostAssumption == MaxLost \in Nat

VARIABLES
    card,  \* the card: [kind, m, s]
    rd,    \* the reader: entry of the walk, step in it, loop index, flag, error, and
           \* word, what else the step has in hand
    img,   \* the image being read (the `out` of *_poller_read)
    lost   \* exchanges that have failed

linkVars == <<card, rd, img, lost>>

\* s_pollers, in the order of the table
Pollers == <<"ndef", "ultralight", "classic", "felica", "slix", "iso15693_3", "desfire", "emv", "aliro">>

NoImage == [kind |-> "none"]

At(entry, step) == rd.p \in DOMAIN Pollers /\ Pollers[rd.p] = entry /\ rd.step = step

-----------------------------------------------------------------------------
(* An answer of a listener is [s, rx]; rx.k = "none" when it sends nothing. *)

Answer(s, rx) == [s |-> s, rx |-> rx]
Silent(s) == Answer(s, [k |-> "none"])

\* nfc_reader_session_transceive.  The answer arrives, or nothing comes, or the
\* frame is lost on the way to the card or back.
Exchange(a) ==
    {[ret |-> IF a.rx.k = "none" THEN "ETIMEDOUT" ELSE "ok", s |-> a.s, rx |-> a.rx, n |-> lost]}
    \cup (IF lost < MaxLost
          THEN {[ret |-> e, s |-> s, rx |-> [k |-> "none"], n |-> lost + 1] :
                    e \in {"ETIMEDOUT", "EIO"}, s \in {card.s, a.s}}
          ELSE {})

After(o) == card' = [card EXCEPT !.s = o.s] /\ lost' = o.n

-----------------------------------------------------------------------------
(* Where the walk goes next                                                 *)

Goto(step) == rd' = [rd EXCEPT !.step = step]
Loop(step, i) == rd' = [rd EXCEPT !.step = step, !.i = i]

\* detect returned 0: the entry's clone function is called, which resets and reads
Matched(blank) == rd' = [rd EXCEPT !.step = "read"] /\ img' = blank

\* Wrong variant: an entry that did not match is tried again.
NotMatchedRetries ==
    /\ rd' = IF rd.p = Len(Pollers) THEN [rd EXCEPT !.step = "done", !.err = "ENOTSUP"]
             ELSE [rd EXCEPT !.step = "detect"]
    /\ UNCHANGED img

\* detect failed: the next entry, or -ENOTSUP after the last
NotMatched ==
    /\ rd' = IF rd.p = Len(Pollers) THEN [rd EXCEPT !.step = "done", !.err = "ENOTSUP"]
             ELSE [rd EXCEPT !.p = @ + 1, !.step = "detect"]
    /\ UNCHANGED img

ReadOk(step) == rd' = [rd EXCEPT !.step = step, !.i = 0, !.flag = FALSE]
ReadFails(e) == rd' = [rd EXCEPT !.step = "done", !.err = e]

\* the same with the image as it is
Continue(step) == Goto(step) /\ UNCHANGED img
Fails(e) == ReadFails(e) /\ UNCHANGED img
=============================================================================
