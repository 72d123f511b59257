------------------------------- MODULE NfcStack -------------------------------
(***************************************************************************)
(* The lifecycle of the listen stack (src/nfc/nfc_stack/nfc_stack.c) with   *)
(* what it composes: the AID router, the tag store, the models of the      *)
(* protocol listeners, and the transport as the stack sees it.  Two        *)
(* threads act: the shell thread calls nfc_stack_* and the store; the work  *)
(* queue serves the APDUs of a started stack and runs the reader's clone   *)
(* (src/nfc/reader), which shares the listeners, the store and the         *)
(* transport with the stack.  A thread runs from one call of the           *)
(* controller, or wait for another thread, to the next in one step: what   *)
(* it tested before such a call may no longer hold after it.               *)
(***************************************************************************)
EXTENDS AidRouter, FiniteSets

CONSTANTS
    Profiles,     \* the table of stack_register_listen_profiles: <<[aid, svc]>>
    Ndef,         \* the service whose init refuses a second call
    Tags,         \* slot names
    SlotCount,    \* CONFIG_NFC_STORE_RAM_SLOT_COUNT
    Cards,        \* contents a card may have
    Default,      \* the content of a listener that was never given one
    Bad,          \* a content serialize accepts and deserialize refuses
    Updates,      \* contents an UPDATE BINARY may leave in the NDEF file
    ImportBlobs,  \* blobs the shell may import
    GivesUp       \* nfc read may time out and hand the shell back

ASSUME StackAssumption ==
    /\ Profiles \in Seq([aid : Aids, svc : Svcs]) /\ Ndef \in Svcs
    /\ SlotCount \in Nat /\ NULL \notin Tags /\ GivesUp \in BOOLEAN
    /\ {Default, Bad} \cap Cards = {} /\ Default # Bad /\ Updates \subseteq Cards \cup {Bad}

Bodies == Cards \cup {Default, Bad}

Blobs == UNION {[D -> Bodies] : D \in SUBSET Svcs}

\* a blob that is imported has the entries of some services, and a slot that is free
\* is not one that holds something
ASSUME BlobAssumption == ImportBlobs \subseteq Blobs /\ NULL \notin [tag : Tags, blob : Blobs]

VARIABLES
    k_state, s_active_tag,                \* nfc_stack.c
    asm_state,                            \* apdu_assembler.c
    tr_state,                             \* the transport: its state and session
    overlap,                              \* history: a discovery overlapped the start of the stack that is started
    ops,                                  \* s_ops_registered
    up,                                   \* the listeners that are initialised
    model,                                \* s_model of each listener
    st_state, s_backend, s_ready, s_slots,
    s_staging,                            \* s_staging_buf, while some call has yet to read it
    s_store_ready,                        \* nfc_reader_engine.c
    shell,                                \* the shell thread: [at, tag, alone]
    wq                                    \* the queue's clone: [at, tag, svc, card]

Store == INSTANCE NfcStore

storeVars == <<st_state, s_backend, s_ready, s_slots>>
cardVars == <<up, model>>
vars == <<routerVars, k_state, s_active_tag, asm_state, tr_state, overlap, ops, cardVars, storeVars,
          s_staging, s_store_ready, shell, wq>>

ShellIdle == [at |-> "idle", tag |-> NULL, alone |-> TRUE]
WqIdle == [at |-> "idle", tag |-> NULL, svc |-> NULL, card |-> NULL]

ShellStages == shell.at \in {"load", "save"}
QueueStages == wq.at = "store"

\* What the staging buffer holds matters while a call is between its halves
Staged(blob, read) == IF read THEN blob ELSE <<>>

Init ==
    /\ RouterInit /\ Store!StoreDown
    /\ k_state = "UNINITIALIZED" /\ s_active_tag = NULL /\ asm_state = "UNINITIALIZED"
    /\ tr_state = "UNINITIALIZED" /\ overlap = FALSE /\ ops = FALSE
    /\ up = {} /\ model = [svc \in Svcs |-> Default]
    /\ s_staging = <<>> /\ s_store_ready = FALSE
    /\ shell = ShellIdle /\ wq = WqIdle

-----------------------------------------------------------------------------
(* nfc_stack_init, one call at a time: shell.at is the call to make next.  *)

\* Enters nfc_stack_init
InitBegin ==
    /\ shell.at = "idle" /\ k_state = "UNINITIALIZED"
    /\ k_state' = "INITIALIZED" /\ s_active_tag' = NULL
    /\ shell' = [shell EXCEPT !.at = "asm"]
    /\ UNCHANGED <<routerVars, asm_state, tr_state, overlap, ops, cardVars, storeVars, s_staging,
                   s_store_ready, wq>>

\* Wrong variant: the router stays initialised when a later call fails.
UnwindKeepsRouter(done) ==
    /\ asm_state' = IF "asm" \in done THEN "UNINITIALIZED" ELSE asm_state
    /\ UNCHANGED routerVars
    /\ IF "store" \in done THEN Store!StoreShutdown ELSE UNCHANGED storeVars
    /\ IF "transport" \in done
       THEN tr_state' = "UNINITIALIZED" /\ ops' = FALSE ELSE UNCHANGED <<tr_state, ops>>
    /\ up' = IF "listeners" \in done THEN {} ELSE up
    /\ k_state' = "UNINITIALIZED" /\ overlap' = FALSE /\ shell' = ShellIdle
    /\ UNCHANGED <<s_active_tag, model, s_staging, s_store_ready, wq>>

\* The labels fail_listeners .. fail: what is done so far is shut down
Unwind(done) ==
    /\ asm_state' = IF "asm" \in done THEN "UNINITIALIZED" ELSE asm_state
    /\ IF "router" \in done THEN AidRouterShutdown ELSE UNCHANGED routerVars
    /\ IF "store" \in done THEN Store!StoreShutdown ELSE UNCHANGED storeVars
    /\ IF "transport" \in done
       THEN tr_state' = "UNINITIALIZED" /\ ops' = FALSE ELSE UNCHANGED <<tr_state, ops>>
    /\ up' = IF "listeners" \in done THEN {} ELSE up
    /\ k_state' = "UNINITIALIZED" /\ overlap' = FALSE /\ shell' = ShellIdle
    /\ UNCHANGED <<s_active_tag, model, s_staging, s_store_ready, wq>>

\* apdu_assembler_init and aid_router_init; neither takes -EALREADY
InitFront ==
    /\ shell.at = "asm"
    /\ IF asm_state = "INITIALIZED" THEN Unwind({})
       ELSE IF r_state = "INITIALIZED" THEN Unwind({"asm"})
       ELSE /\ AidRouterInit
            /\ asm_state' = "INITIALIZED" /\ shell' = [shell EXCEPT !.at = "store"]
            /\ UNCHANGED <<k_state, s_active_tag, tr_state, overlap, ops, cardVars, storeVars, s_staging,
                           s_store_ready, wq>>

\* nfc_store_init, then nfc_store_ram_init
InitStore ==
    /\ \/ shell.at = "store" /\ Store!StoreInit /\ shell' = [shell EXCEPT !.at = "ram"]
       \/ shell.at = "ram" /\ Store!RamInit /\ shell' = [shell EXCEPT !.at = "transport"]
    /\ UNCHANGED <<routerVars, k_state, s_active_tag, asm_state, tr_state, overlap, ops, cardVars, s_staging,
                   s_store_ready, wq>>

\* nfc_transport_init has something to do; otherwise it returns -EALREADY
Connectable == tr_state \in {"UNINITIALIZED", "STOPPED"}

\* nfc_transport_init up to its calls of the controller
InitTransport ==
    /\ shell.at = "transport"
    /\ shell' = [shell EXCEPT !.at = IF Connectable THEN "connect" ELSE "listeners"]
    /\ UNCHANGED <<routerVars, k_state, s_active_tag, asm_state, tr_state, overlap, ops, cardVars,
                   storeVars, s_staging, s_store_ready, wq>>

\* the controller connects and takes its settings, or refuses
InitConnect ==
    /\ shell.at = "connect"
    /\ \/ Unwind({"asm", "router", "store"})
       \/ /\ tr_state' = "INITIALIZED" /\ shell' = [shell EXCEPT !.at = "listeners"]
          /\ UNCHANGED <<routerVars, k_state, s_active_tag, asm_state, overlap, ops, cardVars, storeVars,
                         s_staging, s_store_ready, wq>>

Everything == {"asm", "router", "store", "transport", "listeners"}

\* stack_init_protocol_listeners without models: NDEF keeps its own if it is up
InitListeners ==
    /\ shell.at = "listeners"
    /\ model' = [svc \in Svcs |-> IF svc = Ndef /\ Ndef \in up THEN model[Ndef] ELSE Default]
    /\ up' = Svcs
    /\ shell' = [shell EXCEPT !.at = "callbacks"]
    /\ UNCHANGED <<routerVars, k_state, s_active_tag, asm_state, tr_state, overlap, ops, storeVars, s_staging,
                   s_store_ready, wq>>

\* nfc_transport_register_callbacks: -EBUSY while started, -ENODEV when down
InitCallbacks ==
    /\ shell.at = "callbacks"
    /\ \/ tr_state \notin {"INITIALIZED", "STOPPED"} /\ Unwind(Everything)
       \/ /\ tr_state \in {"INITIALIZED", "STOPPED"}
          /\ ops' = TRUE /\ shell' = [shell EXCEPT !.at = "register"]
          /\ UNCHANGED <<routerVars, k_state, s_active_tag, asm_state, tr_state, overlap, cardVars, storeVars,
                         s_staging, s_store_ready, wq>>

\* stack_register_listen_profiles, one aid_router_register per step; it fails
\* when the table is full
InitRegister ==
    LET n == Len(s_table)
    IN  /\ shell.at = "register"
        /\ IF n < Len(Profiles) /\ n >= MaxAids THEN Unwind(Everything)
           ELSE /\ IF n < Len(Profiles)
                   THEN AidRouterRegister(Profiles[n + 1].aid, Profiles[n + 1].svc) /\ UNCHANGED shell
                   ELSE shell' = ShellIdle /\ UNCHANGED routerVars
                /\ UNCHANGED <<k_state, s_active_tag, asm_state, tr_state, overlap, ops, cardVars, storeVars,
                               s_staging, s_store_ready, wq>>

StackInit ==
    \/ InitBegin \/ InitFront \/ InitStore \/ InitTransport \/ InitConnect
    \/ InitListeners \/ InitCallbacks \/ InitRegister

-----------------------------------------------------------------------------
(* The other calls of the shell thread                                     *)

\* The queue is between a test of the transport and the assignment after the calls
\* of the controller that follow the test
Discovering == wq.at \in {"connect", "poll", "end"}

\* So is the shell thread, in nfc_transport_start
Starting == shell.at \in {"listen", "session"}

\* nfc_stack_start says STARTED, then nfc_transport_start tests the session ...
StackStart ==
    /\ shell.at = "idle" /\ k_state \in {"INITIALIZED", "STOPPED"}
    /\ IF tr_state \in {"INITIALIZED", "STOPPED"}
       THEN k_state' = "STARTED" /\ shell' = [shell EXCEPT !.at = "listen"] /\ overlap' = Discovering
       ELSE k_state' = "ERROR" /\ UNCHANGED <<shell, overlap>>
    /\ UNCHANGED <<routerVars, s_active_tag, asm_state, tr_state, ops, cardVars, storeVars, s_staging,
                   s_store_ready, wq>>

\* ... the controller refuses, or listens, from where on the nRF one delivers ...
StartListen ==
    /\ shell.at = "listen"
    /\ \/ k_state' = "ERROR" /\ overlap' = FALSE /\ shell' = ShellIdle
       \/ shell' = [shell EXCEPT !.at = "session"] /\ UNCHANGED <<k_state, overlap>>
    /\ UNCHANGED <<routerVars, s_active_tag, asm_state, tr_state, ops, cardVars, storeVars, s_staging,
                   s_store_ready, wq>>

\* ... and the session becomes the listener's, whatever it is by then
StartDone ==
    /\ shell.at = "session"
    /\ tr_state' = "LISTEN" /\ shell' = ShellIdle
    /\ UNCHANGED <<routerVars, k_state, s_active_tag, asm_state, overlap, ops, cardVars, storeVars,
                   s_staging, s_store_ready, wq>>

\* nfc_stack_stop up to the controller; without a listen session it has none to call
StackStop ==
    /\ shell.at = "idle" /\ k_state \in {"STARTED", "ERROR"}
    /\ IF tr_state = "LISTEN"
       THEN shell' = [shell EXCEPT !.at = "stop"] /\ UNCHANGED <<k_state, overlap>>
       ELSE k_state' = "STOPPED" /\ overlap' = FALSE /\ UNCHANGED shell
    /\ UNCHANGED <<routerVars, s_active_tag, asm_state, tr_state, ops, cardVars, storeVars, s_staging,
                   s_store_ready, wq>>

\* Wrong variant: a transport that fails to stop leaves the stack started.
StopFailureForgotten ==
    /\ shell.at = "stop"
    /\ tr_state' = "STOPPED" /\ k_state' \in {"STOPPED", "STARTED"} /\ AidRouterFieldOff
    /\ overlap' = FALSE /\ shell' = ShellIdle
    /\ UNCHANGED <<s_active_tag, asm_state, ops, cardVars, storeVars, s_staging, s_store_ready, wq>>

\* The PN7160 transport reports a field off, the nRF one does not; either ends its
\* session even when the controller reports an error.
StopDone ==
    /\ shell.at = "stop"
    /\ tr_state' = "STOPPED" /\ k_state' \in {"STOPPED", "ERROR"}
    /\ \/ AidRouterFieldOff
       \/ answer' = NULL /\ UNCHANGED <<r_state, s_table, s_active_svc, selected, cleared>>
    /\ overlap' = FALSE /\ shell' = ShellIdle
    /\ UNCHANGED <<s_active_tag, asm_state, ops, cardVars, storeVars, s_staging, s_store_ready, wq>>

StartStop == StackStart \/ StartListen \/ StartDone \/ StackStop \/ StopDone

\* nfc_stack_shutdown
StackShutdown == shell.at = "idle" /\ k_state # "UNINITIALIZED" /\ Unwind(Everything)

\* Wrong variant: load and save are let through while the stack listens.
MayLoadOrSaveAlways == shell.at = "idle" /\ k_state \in {"INITIALIZED", "STOPPED", "STARTED"}

\* nfc_stack_load and nfc_stack_save return -EBUSY while the stack is started
\* (so does nfc_store_check_quiescent), -ENODEV in ERROR or before init
MayLoadOrSave == shell.at = "idle" /\ k_state \in {"INITIALIZED", "STOPPED"}

\* nfc_stack_load up to the blob in the staging buffer
LoadFetch(tag) ==
    /\ MayLoadOrSave /\ Store!Readable(tag)
    /\ s_staging' = Store!RamBlob(tag)
    /\ shell' = [at |-> "load", tag |-> tag, alone |-> wq.at = "idle"]
    /\ UNCHANGED <<routerVars, k_state, s_active_tag, asm_state, tr_state, overlap, ops, cardVars, storeVars,
                   s_store_ready, wq>>

Refused == {svc \in DOMAIN s_staging : s_staging[svc] = Bad}

\* Wrong variant: a service the blob has no entry for loses its model.
LoadReplacesAll ==
    /\ shell.at = "load"
    /\ model' = s_staging
    /\ s_active_tag' = IF Refused = {} THEN shell.tag ELSE s_active_tag
    /\ s_staging' = Staged(s_staging, QueueStages) /\ shell' = ShellIdle
    /\ UNCHANGED <<routerVars, k_state, asm_state, tr_state, overlap, ops, up, storeVars, s_store_ready, wq>>

\* The entries go to their services.  A refused one may have reset the model;
\* the rest is loaded all the same, and only the tag is not taken over.
LoadApply ==
    /\ shell.at = "load"
    /\ \E wiped \in SUBSET Refused :
           model' = [svc \in Svcs |-> IF svc \in DOMAIN s_staging \ Refused THEN s_staging[svc]
                                     ELSE IF svc \in wiped THEN Default ELSE model[svc]]
    /\ s_active_tag' = IF Refused = {} THEN shell.tag ELSE s_active_tag
    /\ s_staging' = Staged(s_staging, QueueStages) /\ shell' = ShellIdle
    /\ UNCHANGED <<routerVars, k_state, asm_state, tr_state, overlap, ops, up, storeVars, s_store_ready, wq>>

\* nfc_stack_save up to the blob in the staging buffer
SaveStage(tag) ==
    /\ MayLoadOrSave /\ st_state = "INITIALIZED"
    /\ s_staging' = model
    /\ shell' = [at |-> "save", tag |-> tag, alone |-> wq.at = "idle"]
    /\ UNCHANGED <<routerVars, k_state, s_active_tag, asm_state, tr_state, overlap, ops, cardVars, storeVars,
                   s_store_ready, wq>>

\* Wrong variant: the tag is taken over though the slot was not written.
SaveWriteUnchecked ==
    /\ shell.at = "save"
    /\ Store!SaveCb(shell.tag, s_staging) \/ Store!SaveCbFails(shell.tag)
    /\ s_active_tag' = shell.tag
    /\ s_staging' = Staged(s_staging, QueueStages) /\ shell' = ShellIdle
    /\ UNCHANGED <<routerVars, k_state, asm_state, tr_state, overlap, ops, cardVars, s_store_ready, wq>>

\* the rest of nfc_stack_save
SaveWrite ==
    /\ shell.at = "save"
    /\ \/ Store!SaveCb(shell.tag, s_staging) /\ s_active_tag' = shell.tag
       \/ Store!SaveCbFails(shell.tag) /\ UNCHANGED s_active_tag
    /\ s_staging' = Staged(s_staging, QueueStages) /\ shell' = ShellIdle
    /\ UNCHANGED <<routerVars, k_state, asm_state, tr_state, overlap, ops, cardVars, s_store_ready, wq>>

\* nfc_store_ram_import, from the shell
Import(tag, blob) ==
    /\ shell.at = "idle" /\ Store!RamImport(tag, blob)
    /\ UNCHANGED <<routerVars, k_state, s_active_tag, asm_state, tr_state, overlap, ops, cardVars, s_staging,
                   s_store_ready, shell, wq>>

\* nfc_store_peek_entry_meta
Peek(tag) ==
    /\ shell.at = "idle" /\ k_state # "STARTED" /\ Store!Readable(tag)
    /\ s_staging' = Staged(Store!RamBlob(tag), QueueStages)
    /\ UNCHANGED <<routerVars, k_state, s_active_tag, asm_state, tr_state, overlap, ops, cardVars, storeVars,
                   s_store_ready, shell, wq>>

\* nfc_reader_read_start with nfc_reader_store_ensure; the shell waits for it
ReadStart(tag) ==
    /\ shell.at = "idle" /\ wq.at = "idle"
    /\ IF s_store_ready THEN UNCHANGED storeVars
       ELSE IF s_ready THEN Store!StoreInit ELSE Store!RamInit
    /\ s_store_ready' = TRUE
    /\ wq' = [WqIdle EXCEPT !.at = "read", !.tag = tag]
    /\ shell' = [shell EXCEPT !.at = "wait"]
    /\ UNCHANGED <<routerVars, k_state, s_active_tag, asm_state, tr_state, overlap, ops, cardVars, s_staging>>

\* nfc_applet_read_wait returns when the read is over, or times out
ReadWait ==
    /\ shell.at = "wait" /\ (wq.at = "idle" \/ GivesUp)
    /\ shell' = ShellIdle
    /\ UNCHANGED <<routerVars, k_state, s_active_tag, asm_state, tr_state, overlap, ops, cardVars, storeVars,
                   s_staging, s_store_ready, wq>>

-----------------------------------------------------------------------------
(* The work queue                                                          *)

\* nfc_stack_on_apdu and nfc_stack_on_field_off: through the assembler to the
\* router, when nothing else runs on the queue.  The nRF controller delivers before
\* nfc_transport_start has made the session its own.
Serving ==
    /\ tr_state = "LISTEN" \/ shell.at = "session"
    /\ ops /\ asm_state = "INITIALIZED" /\ wq.at = "idle"

Serve ==
    /\ Serving
    /\ AidRouterFieldOff \/ \E apdu \in Aids \cup {Other} : AidRouterDispatch(apdu)
    /\ UNCHANGED <<k_state, s_active_tag, asm_state, tr_state, overlap, ops, cardVars, storeVars, s_staging,
                   s_store_ready, shell, wq>>

\* An UPDATE BINARY of the NDEF listener; nfc_stack_on_service_dirty then puts
\* the body in the staging buffer, for a commit callback that does nothing
NdefUpdate(body) ==
    /\ Serving /\ s_active_svc = Ndef /\ AidRouterDispatch(Other)
    /\ model' = [model EXCEPT ![Ndef] = body]
    /\ s_staging' = IF s_active_tag # NULL /\ st_state = "INITIALIZED"
                    THEN Staged([svc \in {Ndef} |-> body], ShellStages) ELSE s_staging
    /\ UNCHANGED <<k_state, s_active_tag, asm_state, tr_state, overlap, ops, up, storeVars, s_store_ready,
                   shell, wq>>

\* read_work_handler, nfc_reader_discover_once: nfc_transport_init when the transport is
\* not up, then nfc_transport_discover_start, which tests the session ...
DiscoverOnce ==
    /\ wq.at = "read"
    /\ \/ Connectable /\ wq' = [wq EXCEPT !.at = "connect"]
       \/ tr_state = "INITIALIZED" /\ wq' = [wq EXCEPT !.at = "poll"]
    /\ overlap' = (overlap \/ Starting)
    /\ UNCHANGED <<routerVars, k_state, s_active_tag, asm_state, tr_state, ops, cardVars, storeVars,
                   s_staging, s_store_ready, shell>>

DiscoverConnect ==
    /\ wq.at = "connect"
    /\ tr_state' = "INITIALIZED" /\ wq' = [wq EXCEPT !.at = "poll"]
    /\ UNCHANGED <<routerVars, k_state, s_active_tag, asm_state, overlap, ops, cardVars, storeVars,
                   s_staging, s_store_ready, shell>>

\* ... and makes it the reader's once the controller polls, whatever it has become
\* meanwhile.  A transport that was shut down has no device: only another shutdown
\* ends that session.
DiscoverStart ==
    /\ wq.at = "poll"
    /\ tr_state' = IF tr_state = "UNINITIALIZED" THEN "ORPHAN" ELSE "POLL"
    /\ wq' = IF tr_state = "UNINITIALIZED" THEN WqIdle ELSE [wq EXCEPT !.at = "tag"]
    /\ UNCHANGED <<routerVars, k_state, s_active_tag, asm_state, overlap, ops, cardVars, storeVars,
                   s_staging, s_store_ready, shell>>

\* nfc_transport_discover_wait finds a card
DiscoverWait(svc, card) ==
    /\ wq.at = "tag"
    /\ wq' = [wq EXCEPT !.at = "clone", !.svc = svc, !.card = card]
    /\ UNCHANGED <<routerVars, k_state, s_active_tag, asm_state, tr_state, overlap, ops, cardVars,
                   storeVars, s_staging, s_store_ready, shell>>

\* nfc_transport_discover_stop ends the reader's session if it is still the reader's
SessionEnd == wq' = IF tr_state = "POLL" THEN [WqIdle EXCEPT !.at = "end"] ELSE WqIdle

DiscoverStop ==
    /\ wq.at = "end"
    /\ tr_state' = "STOPPED" /\ wq' = WqIdle
    /\ UNCHANGED <<routerVars, k_state, s_active_tag, asm_state, overlap, ops, cardVars, storeVars,
                   s_staging, s_store_ready, shell>>

\* the session is taken, the controller refuses, or no card shows up
DiscoverFails ==
    /\ \/ wq.at = "read" /\ tr_state \in {"LISTEN", "POLL", "ORPHAN"} /\ wq' = WqIdle
       \/ wq.at \in {"connect", "poll"} /\ wq' = WqIdle
       \/ wq.at = "tag" /\ SessionEnd
    /\ UNCHANGED <<routerVars, k_state, s_active_tag, asm_state, tr_state, overlap, ops, cardVars,
                   storeVars, s_staging, s_store_ready, shell>>

Discover ==
    \/ DiscoverOnce \/ DiscoverConnect \/ DiscoverStart \/ DiscoverStop \/ DiscoverFails
    \/ \E svc \in Svcs, card \in Cards : DiscoverWait(svc, card)

\* the clone function of the poller: read the card, make it the listener's model
CloneInit ==
    /\ wq.at = "clone" /\ tr_state = "POLL"
    /\ IF wq.svc = Ndef /\ Ndef \in up THEN UNCHANGED cardVars
       ELSE model' = [model EXCEPT ![wq.svc] = wq.card] /\ up' = up \cup {wq.svc}
    /\ wq' = [wq EXCEPT !.at = "stage"]
    /\ UNCHANGED <<routerVars, k_state, s_active_tag, asm_state, tr_state, overlap, ops, storeVars, s_staging,
                   s_store_ready, shell>>

\* Wrong variant: the clone stages every service, as nfc_stack_save does.
CloneStageAll ==
    /\ wq.at = "stage"
    /\ k_state # "STARTED" /\ st_state = "INITIALIZED" /\ (wq.svc = Ndef => Ndef \in up)
    /\ s_staging' = model
    /\ wq' = [wq EXCEPT !.at = "store"]
    /\ UNCHANGED <<routerVars, k_state, s_active_tag, asm_state, tr_state, overlap, ops, cardVars, storeVars,
                   s_store_ready, shell>>

\* nfc_store_save of that one listener, up to the blob in the staging buffer
CloneStage ==
    /\ wq.at = "stage"
    /\ k_state # "STARTED" /\ st_state = "INITIALIZED" /\ (wq.svc = Ndef => Ndef \in up)
    /\ s_staging' = [svc \in {wq.svc} |-> model[svc]]
    /\ wq' = [wq EXCEPT !.at = "store"]
    /\ UNCHANGED <<routerVars, k_state, s_active_tag, asm_state, tr_state, overlap, ops, cardVars, storeVars,
                   s_store_ready, shell>>

\* the save callback, whose peek finds what was just saved, and nfc_reader_session_end
CloneStore ==
    /\ wq.at = "store" /\ Store!SaveCb(wq.tag, s_staging) /\ SessionEnd
    /\ s_staging' = Staged(s_staging, ShellStages)
    /\ UNCHANGED <<routerVars, k_state, s_active_tag, asm_state, tr_state, overlap, ops, cardVars,
                   s_store_ready, shell>>

\* the card cannot be read, or the store refuses
CloneFails ==
    /\ \/ wq.at = "clone"
       \/ wq.at = "stage" /\ (k_state = "STARTED" \/ st_state # "INITIALIZED" \/ (wq.svc = Ndef /\ Ndef \notin up))
       \/ wq.at = "store" /\ Store!SaveCbFails(wq.tag)
    /\ SessionEnd
    /\ s_staging' = Staged(s_staging, ShellStages)
    /\ UNCHANGED <<routerVars, k_state, s_active_tag, asm_state, tr_state, overlap, ops, cardVars,
                   storeVars, s_store_ready, shell>>

-----------------------------------------------------------------------------
Shell ==
    \/ StackInit \/ StartStop \/ StackShutdown \/ LoadApply \/ SaveWrite \/ ReadWait
    \/ \E tag \in Tags : LoadFetch(tag) \/ SaveStage(tag) \/ Peek(tag) \/ ReadStart(tag)
    \/ \E tag \in Tags, blob \in ImportBlobs : Import(tag, blob)

Queue ==
    \/ Serve \/ Discover \/ CloneInit \/ CloneStage \/ CloneStore \/ CloneFails
    \/ \E body \in Updates : NdefUpdate(body)

Next == Shell \/ Queue

Spec == Init /\ [][Next]_vars

-----------------------------------------------------------------------------
(* Properties *)

\* Every variable keeps its type.
TypeOK ==
    /\ RouterTypeOK
    /\ k_state \in {"UNINITIALIZED", "INITIALIZED", "STARTED", "STOPPED", "ERROR"}
    /\ s_active_tag \in Tags \cup {NULL}
    /\ {asm_state, st_state} \subseteq {"UNINITIALIZED", "INITIALIZED"}
    /\ tr_state \in {"UNINITIALIZED", "INITIALIZED", "LISTEN", "POLL", "STOPPED", "ORPHAN"}
    /\ {overlap, ops, s_ready, s_store_ready} \subseteq BOOLEAN
    /\ up \subseteq Svcs /\ model \in [Svcs -> Bodies]
    /\ s_backend \in {"inert", "ram"} /\ s_staging \in Blobs
    /\ s_slots \in [Store!Slots -> {NULL} \cup [tag : Tags, blob : Blobs]]
    /\ shell \in [at : {"idle", "asm", "store", "ram", "transport", "connect", "listeners", "callbacks", "register",
                        "listen", "session", "stop", "load", "save", "wait"}, tag : Tags \cup {NULL}, alone : BOOLEAN]
    /\ wq \in [at : {"idle", "read", "connect", "poll", "tag", "clone", "stage", "store", "end"}, tag : Tags \cup {NULL},
               svc : Svcs \cup {NULL}, card : Cards \cup {NULL}]

InInit == shell.at \in {"asm", "store", "ram", "transport", "connect", "listeners", "callbacks", "register"}

\* Outside nfc_stack_init the stack is up with every part of it up and every
\* profile registered once and in order, or it is down with the assembler and
\* the router down, so that a retry of a failed init is not refused: the fail
\* labels undo what was done, whatever the reader did to the shared parts.
LifecycleAgrees ==
    ~InInit =>
        IF k_state = "UNINITIALIZED"
        THEN asm_state = "UNINITIALIZED" /\ r_state = "UNINITIALIZED" /\ s_table = <<>> /\ ~ops
        ELSE /\ asm_state = "INITIALIZED" /\ r_state = "INITIALIZED" /\ st_state = "INITIALIZED"
             /\ s_table = Profiles /\ ops /\ up = Svcs /\ tr_state # "UNINITIALIZED"

\* Nothing is served unless the stack says STARTED, at every point of a start, a stop
\* and a discovery of the other thread: that is what lets load, save and clone rely on
\* the state.  And once nfc_stack_start is over the stack says STARTED only while the
\* transport listens, unless the queue was between its test of the transport and its
\* assignment while nfc_transport_start was between its own: a test and its assignment
\* are not one step, and then the session is that of the thread that assigned last.
ListenAgrees ==
    /\ tr_state = "LISTEN" \/ Starting => k_state = "STARTED"
    /\ k_state = "STARTED" /\ ~Starting /\ ~overlap => tr_state = "LISTEN"

\* A tag names one slot of the RAM backend: what a save replaced never comes back
\* (nfc_store_ram_save_cb searches the tag before it takes a free slot).
OneSlotPerTag == \A tag \in Tags : Cardinality(Store!Holding(tag)) <= 1

\* s_active_tag names a slot that exists: it is taken over only when the load
\* or the save went through.
ActiveTagStored == s_active_tag # NULL => Store!Holding(s_active_tag) # {}

\* The load or the save that ends with this step returns 0
Returns0 ==
    /\ shell'.at = "idle"
    /\ \/ shell.at = "load" /\ Refused = {}
       \/ shell.at = "save" /\ s_backend = "ram" /\ Store!RoomFor(shell.tag)

\* When the reader's clone does not run meanwhile, a load that succeeds gives
\* every service of the slot the slot's content, and a save that succeeds
\* leaves in the slot what the services hold: the staging buffer is nobody
\* else's between the two halves, and a started stack does not change a model.
LoadSaveFaithful ==
    [][Returns0 /\ shell.alone
         => \E i \in Store!Slots :
                /\ s_slots'[i] # NULL /\ s_slots'[i].tag = shell.tag
                /\ \A svc \in DOMAIN s_slots'[i].blob : model'[svc] = s_slots'[i].blob[svc]]_vars

\* Only nfc_stack_shutdown and a failed nfc_stack_init take the RAM backend from the
\* store: the reader's nfc_reader_store_ensure and a second nfc_store_init, which
\* puts the inert callbacks into a store that is down, never do.
BackendKept == [][s_backend = "ram" /\ s_backend' = "inert" => k_state # "UNINITIALIZED" /\ k_state' = "UNINITIALIZED"]_vars

\* A clone the shell thread waits for stores under its tag what its listener holds,
\* and, but for the NDEF listener that keeps its model, that is the card: staging
\* buffer, listener and store are nobody else's from discovery to save.
CloneFaithful ==
    [][wq.at = "store" /\ shell.at = "wait" /\ s_slots' # s_slots
         => /\ \E i \in Store!Slots :
                   s_slots'[i] = [tag |-> wq.tag, blob |-> [svc \in {wq.svc} |-> model[svc]]]
            /\ wq.svc # Ndef => model[wq.svc] = wq.card]_vars

\* What `nfc read` stores under a tag is the card it has just read.
CloneSavesTag ==
    [][wq.at = "store" /\ s_slots' # s_slots /\ wq'.at # "store"
         => \E i \in Store!Slots :
                s_slots'[i] = [tag |-> wq.tag, blob |-> [svc \in {wq.svc} |-> wq.card]]]_vars
=============================================================================
