------------------------------ MODULE ListenPath ------------------------------
(***************************************************************************)
(* The listen path of a started stack: the transport as ApduPipe promises  *)
(* it, the APDU assembler (src/nfc/framing/apdu_assembler.c), the router   *)
(* and the Aliro service, with a second service that answers every command *)
(* at once.  All of it but the reader runs on the work queue thread.       *)
(***************************************************************************)
EXTENDS ApduPipe

CONSTANTS
    NdefAid, AliroAid, StepupAid, UnknownAid,  \* AIDs a SELECT may carry
    Ndef, Aliro,                               \* the services
    Other                                      \* not a SELECT by AID

ASSUME ListenAssumption ==
    /\ Ndef # Aliro /\ NULL \notin {Ndef, Aliro, "crypto", "apdu", "field_on", "field_off"}
    /\ {"6A82", "6986"} \cap {Ndef, Aliro} = {}
    /\ Other \notin {NdefAid, AliroAid, StepupAid, UnknownAid}

VARIABLES
    r_state, s_table, s_active_svc, selected, cleared, answer,     \* AidRouter
    al_state, s_crypto_inflight, s_auth1_sig, s_exchange_data,     \* AliroListener
    handled,   \* on_apdu has dealt with the current C-APDU
    owed,      \* the C-APDU the crypto work item is to answer
    resp,      \* the last response: what it answers, what its reader sent
    evidence,  \* data of Aliro commands accepted since the last SELECT
    merged     \* a field-off found the item of an earlier one still queued

Router == INSTANCE AidRouter WITH
    Aids <- {NdefAid, AliroAid, StepupAid, UnknownAid}, Svcs <- {Ndef, Aliro}, MaxAids <- 3

Service == INSTANCE AliroListener WITH ExpeditedAid <- AliroAid, ProtocolVerified <- FALSE

routerVars == <<r_state, s_table, s_active_svc, selected, cleared, answer>>
aliroVars == <<al_state, s_crypto_inflight, s_auth1_sig, s_exchange_data>>
ghosts == <<owed, resp, evidence, merged>>
vars == <<pipeVars, routerVars, aliroVars, handled, ghosts>>

\* The state nfc_stack_init and nfc_stack_start leave: stack_register_listen_
\* profiles has filled the table, nothing has been received.
Init ==
    /\ fifo = <<>> /\ wq = <<>> /\ running = NULL /\ canceling = NULL
    /\ current = NULL /\ registered = TRUE
    /\ reader = [field |-> FALSE, sess |-> 0, ser |-> 0, sending |-> FALSE, waiting |-> FALSE]
    /\ r_state = "INITIALIZED" /\ s_active_svc = NULL
    /\ s_table = <<[aid |-> NdefAid, svc |-> Ndef], [aid |-> AliroAid, svc |-> Aliro],
                   [aid |-> StepupAid, svc |-> Aliro]>>
    /\ selected = {} /\ cleared = FALSE /\ answer = NULL
    /\ Service!AliroInit
    /\ handled = FALSE /\ owed = NULL /\ resp = [answers |-> 0, got_by |-> 0]
    /\ evidence = {} /\ merged = FALSE

-----------------------------------------------------------------------------

ReaderStep ==
    /\ \/ (PipeFieldOn \/ ReceiveApdu \/ LoseApdu) /\ UNCHANGED merged
       \/ PipeFieldOff /\ merged' = (merged \/ Queued("field_off"))
    /\ UNCHANGED <<routerVars, aliroVars, handled, owed, resp, evidence>>

QueueStep ==
    /\ TakeWork \/ DeliverApdu \/ (running \in {"field_on", "apdu"} /\ EndWork)
    /\ UNCHANGED <<routerVars, aliroVars, handled, ghosts>>

\* Wrong variant: the service is not told.
ServiceNotTold(svc) == UNCHANGED aliroVars

\* on_deselect or on_field_off of a service: only Aliro has a session to reset
ServiceEnded(svc) == IF svc = Aliro THEN Service!AliroReset("IDLE") ELSE UNCHANGED aliroVars

\* Wrong variant: the services are told but the router keeps its selection.
FieldOffUnrouted ==
    /\ running = "field_off" /\ EndWork
    /\ ServiceEnded(s_active_svc)
    /\ UNCHANGED <<routerVars, handled, ghosts>>

\* apdu_assembler_on_field_off_handler
FieldOffWork ==
    /\ running = "field_off" /\ EndWork
    /\ Router!AidRouterFieldOff
    /\ ServiceEnded(s_active_svc)
    /\ UNCHANGED <<handled, ghosts>>

\* nfc_transport_send_response for the C-APDU a
Answer(a) ==
    IF reader.waiting
    THEN Respond /\ resp' = [answers |-> a.ser, got_by |-> reader.ser]
    ELSE UNCHANGED <<pipeVars, resp>>

\* apdu_assembler_on_apdu_handler: a frame that apdu_parse rejects
RejectFrame ==
    /\ Answer(current)
    /\ UNCHANGED <<routerVars, aliroVars, owed, evidence>>

\* apdu_assembler_on_apdu_handler: a SELECT by AID
SelectApdu(aid) ==
    /\ Router!AidRouterDispatch(aid)
    /\ Answer(current)
    /\ \/ answer' = Aliro /\ Service!AliroOnSelect(aid)
       \/ answer' = Ndef /\ ServiceEnded(s_active_svc)
       \/ answer' = "6A82" /\ UNCHANGED aliroVars
    /\ evidence' = IF answer' = Aliro THEN {} ELSE evidence
    /\ UNCHANGED owed

\* apdu_assembler_on_apdu_handler: any other command.  Aliro defers those it
\* accepts to s_crypto_work.
OtherApdu(cmd) ==
    /\ Router!AidRouterDispatch(Other)
    /\ IF answer' = Aliro
       THEN /\ Service!AliroOnApdu(cmd)
            /\ IF Service!Accepts(cmd)
               THEN /\ SubmitWork("crypto") /\ owed' = current
                    /\ evidence' = evidence \cup {cmd} /\ UNCHANGED resp
               ELSE Answer(current) /\ UNCHANGED <<owed, evidence>>
       ELSE Answer(current) /\ UNCHANGED <<aliroVars, owed, evidence>>

OnApdu ==
    /\ current # NULL /\ ~handled
    /\ \/ RejectFrame
       \/ \E aid \in {NdefAid, AliroAid, StepupAid, UnknownAid} : SelectApdu(aid)
       \/ \E cmd \in Service!AliroCommands : OtherApdu(cmd)
    /\ handled' = TRUE /\ UNCHANGED merged

OnApduReturn ==
    /\ handled /\ ReturnApdu
    /\ handled' = FALSE
    /\ UNCHANGED <<routerVars, aliroVars, ghosts>>

\* s_crypto_work: the handler sends its response and returns
CryptoWork ==
    /\ running = "crypto" /\ ~handled
    /\ Service!CryptoHandler
    /\ Answer(owed)
    /\ handled' = TRUE
    /\ UNCHANGED <<routerVars, owed, evidence, merged>>

CryptoReturn ==
    /\ running = "crypto" /\ handled /\ EndWork
    /\ handled' = FALSE
    /\ UNCHANGED <<routerVars, aliroVars, ghosts>>

QueueThread == QueueStep \/ FieldOffWork \/ OnApdu \/ OnApduReturn \/ CryptoWork \/ CryptoReturn

Next == ReaderStep \/ QueueThread

Spec == Init /\ [][Next]_vars

\* The queue thread goes on as long as it has work.
FairSpec == Spec /\ WF_vars(QueueThread)

-----------------------------------------------------------------------------
(* Properties *)

\* Aliro reaches DONE only when a good AUTH1 signature and good EXCHANGE data
\* came in since the SELECT that began its session: nothing of an earlier
\* session counts, not even when its crypto work item runs late
\* (aliro_listener_reset wipes both).
DoneIsEarned ==
    al_state = "DONE" =>
        {[ins |-> "AUTH1", data |-> "good"], [ins |-> "EXCHANGE", data |-> "good"]} \subseteq evidence

\* s_crypto_inflight is set only while the crypto work item is on its way, so
\* the service never refuses commands for a job that will not end.
InflightIsPending == s_crypto_inflight => Queued("crypto") \/ running = "crypto"

\* An Aliro session is in progress only while the router sends APDUs there:
\* it never outlives a field-off or the selection of another service.
SessionIsRouted ==
    al_state \in {"AWAIT_AUTH0", "AWAIT_AUTH1", "AWAIT_EXCHANGE", "DONE"} => s_active_svc = Aliro

\* A C-APDU that made it into the fifo is answered, directly or by the crypto
\* work item, unless its reader leaves first.
EveryApduAnswered == (reader.waiting /\ \E i \in DOMAIN fifo : fifo[i].ser = reader.ser) ~> ~reader.waiting

\* A deferred response is sent only while the session of its command lives.
DeferredInSession ==
    [][CryptoWork => resp' = resp \/ resp'.answers = resp'.got_by]_vars

\* A selection ends with the field: when no reader is there and the queue has
\* done its work, no service is selected, though field-offs and C-APDUs are different
\* work items and do not keep the order of the interrupts.  Two field-offs that became
\* one item are the exception: the SELECT between them may run after it.
SelectionEndsWithField == ~merged /\ ~reader.field /\ wq = <<>> /\ running = NULL => s_active_svc = NULL
=============================================================================
