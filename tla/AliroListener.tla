----------------------------- MODULE AliroListener -----------------------------
(***************************************************************************)
(* The Aliro listen service (src/nfc/protocols/aliro/aliro_listener.c).    *)
(* Its callbacks run on the work queue thread, and so does the crypto work *)
(* item it defers an accepted command to, so each is one step.  Whether a  *)
(* step answers the reader or defers is stated by Accepts.                 *)
(***************************************************************************)
EXTENDS Naturals

CONSTANTS
    ExpeditedAid,     \* aliro_expedited_aid
    ProtocolVerified  \* CONFIG_NFC_ALIRO_PROTOCOL_VERIFIED

VARIABLES
    al_state,                     \* s_state of the file
    s_crypto_inflight,
    s_auth1_sig, s_exchange_data  \* "none" (zeroed), or whether it verifies

aliroVars == <<al_state, s_crypto_inflight, s_auth1_sig, s_exchange_data>>

AliroStates == {"IDLE", "AWAIT_AUTH0", "AWAIT_AUTH1", "AWAIT_EXCHANGE", "DONE", "ERROR"}

\* The commands on_apdu tells apart; data that is "short" is not copied.
AliroCommands ==
    [ins : {"AUTH1", "EXCHANGE"}, data : {"good", "bad", "short"}]
        \cup [ins : {"AUTH0", "other INS", "other CLA"}, data : {"short"}]

ExpectedIn == [AUTH0 |-> "AWAIT_AUTH0", AUTH1 |-> "AWAIT_AUTH1", EXCHANGE |-> "AWAIT_EXCHANGE"]

AliroInit ==
    /\ al_state = "IDLE" /\ s_crypto_inflight = FALSE
    /\ s_auth1_sig = "none" /\ s_exchange_data = "none"

\* Wrong variant: the signature of the last session is not wiped.
AliroResetKeepsData(state) ==
    /\ al_state' = state /\ s_crypto_inflight' = FALSE
    /\ UNCHANGED <<s_auth1_sig, s_exchange_data>>

\* aliro_listener_reset, then the state on_select goes to
AliroReset(state) ==
    /\ al_state' = state /\ s_crypto_inflight' = FALSE
    /\ s_auth1_sig' = "none" /\ s_exchange_data' = "none"

\* aliro_listener_on_select
AliroOnSelect(aid) == AliroReset(IF aid = ExpeditedAid THEN "AWAIT_AUTH0" ELSE "IDLE")

\* aliro_listener_on_apdu: the command goes to the crypto work item
Accepts(cmd) ==
    /\ cmd.ins \in DOMAIN ExpectedIn /\ al_state = ExpectedIn[cmd.ins]
    /\ ~s_crypto_inflight
    /\ cmd.ins = "EXCHANGE" => cmd.data # "short"

\* aliro_listener_on_apdu
AliroOnApdu(cmd) ==
    \/ /\ Accepts(cmd)
       /\ s_crypto_inflight' = TRUE
       /\ s_auth1_sig' = IF cmd.ins = "AUTH1" /\ cmd.data # "short" THEN cmd.data ELSE s_auth1_sig
       /\ s_exchange_data' = IF cmd.ins = "EXCHANGE" THEN cmd.data ELSE s_exchange_data
       /\ UNCHANGED al_state
    \/ /\ ~Accepts(cmd)
       /\ al_state' = IF al_state = "DONE" THEN "DONE" ELSE "ERROR"
       /\ UNCHANGED <<s_crypto_inflight, s_auth1_sig, s_exchange_data>>

\* The state the crypto handler leaves, by the one it finds
AfterCrypto ==
    CASE ProtocolVerified -> "ERROR"
      [] al_state = "AWAIT_AUTH0" -> "AWAIT_AUTH1"
      [] al_state = "AWAIT_AUTH1" /\ s_auth1_sig = "good" -> "AWAIT_EXCHANGE"
      [] al_state = "AWAIT_EXCHANGE" /\ s_exchange_data = "good" -> "DONE"
      [] OTHER -> "ERROR"

\* Wrong variant: a refusal forgets to clear s_crypto_inflight.
CryptoHandlerKeepsInflight ==
    /\ al_state' = AfterCrypto /\ s_crypto_inflight' = (AfterCrypto = "ERROR")
    /\ UNCHANGED <<s_auth1_sig, s_exchange_data>>

\* aliro_listener_crypto_handler, which always sends a response
CryptoHandler ==
    /\ al_state' = AfterCrypto /\ s_crypto_inflight' = FALSE
    /\ UNCHANGED <<s_auth1_sig, s_exchange_data>>
=============================================================================
