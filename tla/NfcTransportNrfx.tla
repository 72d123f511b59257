--------------------------- MODULE NfcTransportNrfx ---------------------------
(***************************************************************************)
(* The listen transport on the nRF NFCT peripheral                         *)
(* (src/nfc/hal/nfc_transport_nrfx.c), with the pool of APDU buffers       *)
(* (nfc_apdu_pool.c) and the fragment assembler (nfc_apdu_asm.c).          *)
(*                                                                         *)
(* Four actors interleave.                                                 *)
(*  - The ISR: nfc_t4t_event_cb, called by the T4T library while it        *)
(*    emulates.  An ISR runs to completion, so an event is one step.       *)
(*  - The work queue thread nfc_stack_wq, which runs one work item at a    *)
(*    time and calls the registered ops from it.                           *)
(*  - "main": the thread that calls init, register_callbacks, start, stop  *)
(*    and shutdown.  The API documents these as serialized by the caller.  *)
(*  - "aux": a second thread that may call set_uid, which is documented    *)
(*    as thread safe.  UidThreads says which threads call it.              *)
(*                                                                         *)
(* The T4T library and the reader in front of the antenna are outside the  *)
(* repository; they are modelled from how the code uses them.              *)
(***************************************************************************)
EXTENDS Naturals, Sequences, FiniteSets

CONSTANTS
    Bufs,        \* the net_bufs of nfc_apdu_pool
    NULL,        \* the C null pointer, and "no value"
    BufCap,      \* CONFIG_NFC_APDU_BUF_SIZE, in units of fragment length
    FragLens,    \* lengths a fragment may have
    Uids,        \* valid NFCID1 values
    UidThreads,  \* threads that call nfc_transport_set_uid
    Faults,      \* library calls that may fail: see FaultNames
    MaxFrags,    \* bound: fragments of one C-APDU
    MaxSerial,   \* bound: C-APDUs the reader starts to send
    MaxSess      \* bound: RF field sessions

Threads == {"main", "aux"}
FaultNames == {"setup", "fwi", "nfcid1", "start", "stop"}

ASSUME BufsAssumption == NULL \notin Bufs /\ NULL \notin Uids /\ NULL \notin {"field_on", "field_off", "apdu"}
ASSUME LengthsAssumption == BufCap \in Nat /\ FragLens \subseteq Nat
ASSUME EnvAssumption == UidThreads \subseteq Threads /\ Faults \subseteq FaultNames
ASSUME BoundsAssumption == MaxFrags \in Nat /\ MaxSerial \in Nat /\ MaxSess \in Nat

VARIABLES
    s_state, s_session, s_ops_registered, s_pending_uid,
    s_uid_mutex,            \* the thread that holds it, or NULL
    s_cur_buf, s_asm_drop,  \* assembly state shared by the ISR and the threads
    s_apdu_fifo,
    pool,                   \* the free buffers of nfc_apdu_pool
    data,                   \* what each buffer holds
    wq,                     \* work items queued on nfc_stack_wq
    running,                \* the item whose handler the queue thread is in
    handling,               \* the buffer apdu_work_handler took from the fifo
    leaving,                \* apdu_work_handler has seen the fifo empty
    answered,               \* the callee has answered that buffer's APDU
    pc, arg,                \* where each thread is, and its uid argument
    to_cancel, canceling,   \* progress of the k_work_cancel_sync calls
    after_stop,             \* where nfc_transport_stop returns to
    t4t, nfcid1,            \* state of the T4T library (external)
    rdr                     \* the reader in the field (external)

apiVars == <<s_state, s_session, s_ops_registered, s_pending_uid, s_uid_mutex>>
bufVars == <<s_cur_buf, s_asm_drop, s_apdu_fifo, pool, data>>
wqVars == <<wq, running, handling, leaving, answered>>
thrVars == <<pc, arg, to_cancel, canceling, after_stop>>
libVars == <<t4t, nfcid1>>
vars == <<apiVars, bufVars, wqVars, thrVars, libVars, rdr>>

Works == {"field_on", "field_off", "apdu"}
States == {"UNINITIALIZED", "INITIALIZED", "STARTED", "STOPPED"}
Drops == {"OK", "NOBUF", "OVERSIZE"}
MainLabels == {"idle", "start_emu", "start_session", "stop_lock", "stop_cancel", "stop_drain",
               "down_cancel", "down_drain", "down_done"}
UidLabels == {"uid_lock", "uid_apply", "uid_start", "uid_restore"}

\* A fragment of the reader's C-APDU number ser: its place in the C-APDU,
\* whether it is the last one, and the field session it was sent in.
Fragments == [ser : 0..MaxSerial, idx : 0..MaxFrags, last : BOOLEAN, sess : 0..MaxSess]
Contents == [len : 0..BufCap, frags : Seq(Fragments)]
Empty == [len |-> 0, frags |-> <<>>]
Range(f) == {f[x] : x \in DOMAIN f}

QuietReader(sess, ser) == [field |-> FALSE, sess |-> sess, ser |-> ser, idx |-> 0, waiting |-> FALSE]

Init ==
    /\ s_state = "UNINITIALIZED" /\ s_session = "NONE"
    /\ s_ops_registered = FALSE /\ s_pending_uid = NULL /\ s_uid_mutex = NULL
    /\ s_cur_buf = NULL /\ s_asm_drop = "OK" /\ s_apdu_fifo = <<>>
    /\ pool = Bufs /\ data = [b \in Bufs |-> Empty]
    /\ wq = <<>> /\ running = NULL /\ handling = NULL /\ leaving = FALSE /\ answered = FALSE
    /\ pc = [t \in Threads |-> "idle"] /\ arg = [t \in Threads |-> NULL]
    /\ to_cancel = <<>> /\ canceling = NULL /\ after_stop = "idle"
    /\ t4t = "down" /\ nfcid1 = NULL
    /\ rdr = QuietReader(0, 0)

-----------------------------------------------------------------------------
(* Zephyr's work queue and buffer pool, as the code uses them *)

\* Wrong variant: an item that runs cannot be queued again.
SubmitUnlessRunning(w) == wq' = IF w \in Range(wq) \/ w \in {canceling, running} THEN wq ELSE Append(wq, w)

\* k_work_submit_to_queue: an item that is queued already stays where it is,
\* one that is being cancelled is refused, one that is running is queued again.
Submit(w) == wq' = IF w \in Range(wq) \/ w = canceling THEN wq ELSE Append(wq, w)

\* The queue without the item w, which is in it at most once.
WithoutWork(q, w) ==
    IF w \notin Range(q) THEN q
    ELSE LET k == CHOOSE i \in DOMAIN q : q[i] = w
         IN  SubSeq(q, 1, k - 1) \o SubSeq(q, k + 1, Len(q))

\* net_buf_unref by the one owner of each buffer in B.  net_buf_alloc resets a
\* buffer, so what a free one holds does not matter: it is kept Empty.
Unref(B) ==
    /\ pool' = pool \cup B
    /\ data' = [b \in Bufs |-> IF b \in B THEN Empty ELSE data[b]]

\* Wrong variants: the buffer is not given back; the pointer to it is kept.
DiscardWithoutUnref == s_cur_buf' = NULL /\ s_asm_drop' = "OK" /\ UNCHANGED <<s_apdu_fifo, pool, data>>
DiscardKeepsPointer == s_asm_drop' = "OK" /\ Unref({s_cur_buf} \ {NULL}) /\ UNCHANGED <<s_cur_buf, s_apdu_fifo>>

\* discard_cur_buf
DiscardCurBuf ==
    /\ s_cur_buf' = NULL
    /\ s_asm_drop' = "OK"
    /\ Unref({s_cur_buf} \ {NULL})
    /\ UNCHANGED s_apdu_fifo

-----------------------------------------------------------------------------
(* The interrupt: nfc_t4t_event_cb *)

FieldOn ==
    /\ t4t = "emulating" /\ ~rdr.field /\ rdr.sess < MaxSess
    /\ rdr' = [QuietReader(rdr.sess + 1, rdr.ser) EXCEPT !.field = TRUE]
    /\ DiscardCurBuf
    /\ Submit("field_on")
    /\ UNCHANGED <<apiVars, running, handling, leaving, answered, thrVars, libVars>>

FieldOff ==
    /\ t4t = "emulating" /\ rdr.field
    /\ rdr' = QuietReader(rdr.sess, rdr.ser)
    /\ DiscardCurBuf
    /\ Submit("field_off")
    /\ UNCHANGED <<apiVars, running, handling, leaving, answered, thrVars, libVars>>

\* The next fragment the reader sends.  ISO-DEP is half duplex: a reader that
\* has sent a whole C-APDU waits for the response, or leaves the field.
NextFragment(last) ==
    [ser  |-> IF rdr.idx = 0 THEN rdr.ser + 1 ELSE rdr.ser,
     idx  |-> rdr.idx + 1, last |-> last, sess |-> rdr.sess]

ReaderSends(frag) ==
    /\ t4t = "emulating" /\ rdr.field /\ ~rdr.waiting
    /\ frag.ser <= MaxSerial
    /\ frag.idx < MaxFrags \/ frag.last
    /\ frag.idx <= MaxFrags

ReaderAfter(frag) ==
    [rdr EXCEPT !.ser = frag.ser, !.idx = IF frag.last THEN 0 ELSE frag.idx, !.waiting = frag.last]

\* Wrong variant: off by one.
FragFitsOffByOne(b, len) == data[b].len + len <= BufCap + 1

\* nfc_apdu_frag_fits
FragFits(b, len) == data[b].len + len <= BufCap

\* nfc_hal_on_fragment while a C-APDU is being dropped, or when the pool has
\* no buffer for a new one: the fragment is lost.  The end of an oversized
\* C-APDU is answered 6700 from the interrupt.
FragmentDropped(last) ==
    LET drop == IF s_asm_drop = "OK" THEN "NOBUF" ELSE s_asm_drop
        frag == NextFragment(last)
        sent == last /\ drop = "OVERSIZE"
    IN  /\ ReaderSends(frag)
        /\ s_cur_buf = NULL
        /\ s_asm_drop = "OK" => pool = {}
        /\ s_asm_drop' = IF last THEN "OK" ELSE drop
        /\ rdr' = [ReaderAfter(frag) EXCEPT !.waiting = last /\ ~sent]
        /\ UNCHANGED <<apiVars, s_cur_buf, s_apdu_fifo, pool, data, wqVars, thrVars, libVars>>

\* The buffer nfc_hal_on_fragment fills: the one of this C-APDU, or for the
\* first fragment one of the pool.
Target(b) ==
    /\ s_asm_drop = "OK"
    /\ b = s_cur_buf \/ (s_cur_buf = NULL /\ b \in pool)

\* nfc_hal_on_fragment: the fragment fits.  The last one hands the buffer to
\* the fifo and submits the work that drains it.
FragmentStored(b, len, last) ==
    LET frag == NextFragment(last)
    IN  /\ ReaderSends(frag)
        /\ Target(b) /\ FragFits(b, len)
        /\ pool' = pool \ {b}
        /\ data' = [data EXCEPT ![b] = [len |-> @.len + len, frags |-> Append(@.frags, frag)]]
        /\ s_cur_buf' = IF last THEN NULL ELSE b
        /\ s_apdu_fifo' = IF last THEN Append(s_apdu_fifo, b) ELSE s_apdu_fifo
        /\ IF last THEN Submit("apdu") ELSE UNCHANGED wq
        /\ rdr' = ReaderAfter(frag)
        /\ UNCHANGED <<apiVars, s_asm_drop, running, handling, leaving, answered, thrVars, libVars>>

\* Wrong variant: that the rest is to be dropped is not noted.
OversizeForgotten(b, len, last) ==
    LET frag == NextFragment(last)
    IN  /\ ReaderSends(frag)
        /\ Target(b) /\ ~FragFits(b, len)
        /\ Unref({b})
        /\ s_cur_buf' = NULL
        /\ rdr' = [ReaderAfter(frag) EXCEPT !.waiting = FALSE]
        /\ UNCHANGED <<apiVars, s_asm_drop, s_apdu_fifo, wqVars, thrVars, libVars>>

\* nfc_hal_on_fragment: the fragment does not fit.  The buffer goes back to
\* the pool and the rest of the C-APDU is dropped.
FragmentOversize(b, len, last) ==
    LET frag == NextFragment(last)
    IN  /\ ReaderSends(frag)
        /\ Target(b) /\ ~FragFits(b, len)
        /\ Unref({b})
        /\ s_cur_buf' = NULL
        /\ s_asm_drop' = IF last THEN "OK" ELSE "OVERSIZE"
        /\ rdr' = [ReaderAfter(frag) EXCEPT !.waiting = FALSE]
        /\ UNCHANGED <<apiVars, s_apdu_fifo, wqVars, thrVars, libVars>>

Fragment(last) ==
    \/ FragmentDropped(last)
    \/ \E b \in Bufs, len \in FragLens : FragmentStored(b, len, last) \/ FragmentOversize(b, len, last)

Isr == FieldOn \/ FieldOff \/ \E last \in BOOLEAN : Fragment(last)

-----------------------------------------------------------------------------
(* The work queue thread *)

WqTake ==
    /\ running = NULL /\ wq # <<>>
    /\ running' = Head(wq) /\ wq' = Tail(wq)
    /\ UNCHANGED <<apiVars, bufVars, handling, leaving, answered, thrVars, libVars, rdr>>

\* field_on_work_handler and field_off_work_handler
FieldOnWork ==
    /\ running = "field_on"
    /\ running' = NULL
    /\ UNCHANGED <<apiVars, bufVars, wq, handling, leaving, answered, thrVars, libVars, rdr>>

FieldOffWork ==
    /\ running = "field_off"
    /\ running' = NULL
    /\ UNCHANGED <<apiVars, bufVars, wq, handling, leaving, answered, thrVars, libVars, rdr>>

\* apdu_work_handler: k_fifo_get, then on_apdu if the ops are registered
ApduWorkGet ==
    /\ running = "apdu" /\ handling = NULL /\ ~leaving /\ s_apdu_fifo # <<>>
    /\ s_apdu_fifo' = Tail(s_apdu_fifo)
    /\ IF s_ops_registered
       THEN handling' = Head(s_apdu_fifo) /\ UNCHANGED <<pool, data>>
       ELSE Unref({Head(s_apdu_fifo)}) /\ UNCHANGED handling
    /\ answered' = FALSE
    /\ UNCHANGED <<apiVars, s_cur_buf, s_asm_drop, wq, running, leaving, thrVars, libVars, rdr>>

\* The last k_fifo_get, which finds nothing, and the handler's return
ApduWorkEmpty ==
    /\ running = "apdu" /\ handling = NULL /\ ~leaving /\ s_apdu_fifo = <<>>
    /\ leaving' = TRUE
    /\ UNCHANGED <<apiVars, bufVars, wq, running, handling, answered, thrVars, libVars, rdr>>

ApduWorkEnd ==
    /\ leaving
    /\ running' = NULL /\ leaving' = FALSE
    /\ UNCHANGED <<apiVars, bufVars, wq, handling, answered, thrVars, libVars, rdr>>

\* nfc_transport_send_response from the callee of on_apdu.  Outside a listen
\* session it fails with -ENODEV; the library drops a response nobody waits for.
SendResponse ==
    /\ handling # NULL /\ ~answered
    /\ answered' = TRUE
    /\ IF s_session = "LISTEN" /\ t4t = "emulating" /\ rdr.waiting
       THEN rdr' = [rdr EXCEPT !.waiting = FALSE]
       ELSE UNCHANGED rdr
    /\ UNCHANGED <<apiVars, bufVars, wq, running, handling, leaving, thrVars, libVars>>

\* The callee of on_apdu owns the buffer and unrefs it before it returns.
ApduUnref ==
    /\ handling # NULL
    /\ Unref({handling})
    /\ handling' = NULL
    /\ answered' = FALSE
    /\ UNCHANGED <<apiVars, s_cur_buf, s_asm_drop, s_apdu_fifo, wq, running, leaving, thrVars, libVars, rdr>>

WqThread ==
    \/ WqTake \/ FieldOnWork \/ FieldOffWork
    \/ ApduWorkGet \/ ApduWorkEmpty \/ ApduWorkEnd \/ SendResponse \/ ApduUnref

-----------------------------------------------------------------------------
(* The T4T library as the code sees it.  Calls it does not expect to fail do *)
(* not; what it answers to a call out of order is not known here: either.   *)

MayFail(call) == call \in Faults

EmulationStartOk == t4t # "down" /\ t4t' = "emulating"
EmulationStartFails == (MayFail("start") \/ t4t # "ready") /\ UNCHANGED t4t

\* Once it has stopped there are no more events; the reader gets no answer.
EmulationStopOk ==
    /\ t4t' = IF t4t = "emulating" THEN "ready" ELSE t4t
    /\ rdr' = IF t4t = "emulating" THEN QuietReader(rdr.sess, rdr.ser) ELSE rdr
EmulationStopFails == (MayFail("stop") \/ t4t # "emulating") /\ UNCHANGED <<t4t, rdr>>

\* nfc_t4t_done
T4tDone == t4t' = "down" /\ nfcid1' = NULL /\ rdr' = QuietReader(rdr.sess, rdr.ser)

-----------------------------------------------------------------------------
(* The API, called from threads *)

Goto(t, l) == pc' = [pc EXCEPT ![t] = l]
Lock(t) == s_uid_mutex = NULL /\ s_uid_mutex' = t

Unlock(t) == s_uid_mutex' = IF s_uid_mutex = t THEN NULL ELSE s_uid_mutex
cancelVars == <<to_cancel, canceling, after_stop>>

\* nfc_transport_init.  k_fifo_init and k_work_init forget what was queued:
\* a buffer still in the fifo then has no owner.  k_work_init of an item that
\* is queued cuts the list the queue keeps: nothing of it is left, or its
\* head.  That the queue may then lose items submitted later is not modelled.
InitDone(result) ==
    CASE result = "ok"    -> /\ t4t' = IF t4t = "down" THEN "ready" ELSE t4t
                             /\ s_session' = "NONE" /\ s_state' = "INITIALIZED"
                             /\ UNCHANGED <<nfcid1, rdr>>
      [] result = "setup" -> /\ MayFail("setup") \/ t4t # "down"
                             /\ UNCHANGED <<s_state, s_session, libVars, rdr>>
      [] result = "fwi"   -> /\ MayFail("fwi")
                             /\ T4tDone
                             /\ UNCHANGED <<s_state, s_session>>

TransportInit(result) ==
    /\ pc["main"] = "idle"
    /\ s_state \in {"UNINITIALIZED", "STOPPED"}
    /\ s_apdu_fifo' = <<>>
    /\ wq' = <<>> \/ (wq # <<>> /\ wq' = <<Head(wq)>>)
    /\ s_uid_mutex' = NULL
    /\ InitDone(result)
    /\ UNCHANGED <<s_ops_registered, s_pending_uid, s_cur_buf, s_asm_drop, pool, data,
                   running, handling, leaving, answered, thrVars>>

RegisterCallbacks(registered) ==
    /\ pc["main"] = "idle"
    /\ s_state \notin {"UNINITIALIZED", "STARTED"}
    /\ s_ops_registered' = registered
    /\ UNCHANGED <<s_state, s_session, s_pending_uid, s_uid_mutex, bufVars, wqVars, thrVars, libVars, rdr>>

\* Wrong variant: the uid is remembered but not given to the library.
ApplyNfcid1Forgotten(uid) == s_pending_uid' = uid /\ UNCHANGED nfcid1

\* apply_nfcid1
ApplyNfcid1Ok(uid) == s_pending_uid' = uid /\ nfcid1' = uid
ApplyNfcid1Fails == MayFail("nfcid1") /\ UNCHANGED <<s_pending_uid, nfcid1>>

\* nfc_transport_start, up to the call of nfc_t4t_emulation_start
Start(uid) ==
    LET apply == IF uid # NULL THEN uid ELSE s_pending_uid
    IN  /\ pc["main"] = "idle"
        /\ s_state # "UNINITIALIZED" /\ s_session = "NONE"
        /\ \/ /\ IF apply = NULL THEN UNCHANGED <<s_pending_uid, nfcid1>> ELSE ApplyNfcid1Ok(apply)
              /\ Goto("main", "start_emu")
           \/ apply # NULL /\ ApplyNfcid1Fails /\ UNCHANGED pc
        /\ UNCHANGED <<s_state, s_session, s_ops_registered, s_uid_mutex, bufVars, wqVars,
                       arg, cancelVars, t4t, rdr>>

StartEmulation ==
    /\ pc["main"] = "start_emu"
    /\ \/ EmulationStartOk /\ Goto("main", "start_session")
       \/ EmulationStartFails /\ Goto("main", "idle")
    /\ UNCHANGED <<apiVars, bufVars, wqVars, arg, cancelVars, nfcid1, rdr>>

StartSession ==
    /\ pc["main"] = "start_session"
    /\ s_session' = "LISTEN" /\ s_state' = "STARTED"
    /\ Goto("main", "idle")
    /\ UNCHANGED <<s_ops_registered, s_pending_uid, s_uid_mutex, bufVars, wqVars, arg, cancelVars, libVars, rdr>>

\* nfc_transport_stop, and nfc_transport_shutdown, which stops first
BeginStop(then) ==
    /\ pc["main"] = "idle"
    /\ s_state # "UNINITIALIZED" /\ s_session = "LISTEN"
    /\ Goto("main", "stop_lock") /\ after_stop' = then
    /\ UNCHANGED <<apiVars, bufVars, wqVars, arg, to_cancel, canceling, libVars, rdr>>

Stop == BeginStop("idle")

\* Wrong variant: the handler of APDUs is not cancelled.
AllWorksButApdu == <<"field_on", "field_off">>

AllWorks == <<"field_on", "field_off", "apdu">>

Shutdown ==
    \/ BeginStop("down_cancel")
    \/ /\ pc["main"] = "idle"
       /\ s_session # "LISTEN"
       /\ Goto("main", "down_cancel") /\ to_cancel' = AllWorks
       /\ UNCHANGED <<apiVars, bufVars, wqVars, arg, canceling, after_stop, libVars, rdr>>

\* The mutex, nfc_t4t_emulation_stop and discard_cur_buf.  An error of the
\* library is recorded and returned, but the stop goes on.
StopEmulation ==
    /\ pc["main"] = "stop_lock"
    /\ Lock("main")
    /\ EmulationStopOk \/ EmulationStopFails
    /\ DiscardCurBuf
    /\ Goto("main", "stop_cancel") /\ to_cancel' = AllWorks
    /\ UNCHANGED <<s_state, s_session, s_ops_registered, s_pending_uid, wqVars, arg, canceling,
                   after_stop, nfcid1>>

\* k_work_cancel_sync unqueues the item, then waits until it does not run.
CancelBegin ==
    /\ pc["main"] \in {"stop_cancel", "down_cancel"}
    /\ canceling = NULL /\ to_cancel # <<>>
    /\ canceling' = Head(to_cancel) /\ to_cancel' = Tail(to_cancel)
    /\ wq' = WithoutWork(wq, Head(to_cancel))
    /\ UNCHANGED <<apiVars, bufVars, running, handling, leaving, answered, pc, arg, after_stop, libVars, rdr>>

CancelEnd ==
    /\ pc["main"] \in {"stop_cancel", "down_cancel"}
    /\ canceling # NULL /\ running # canceling
    /\ canceling' = NULL
    /\ IF to_cancel # <<>> THEN UNCHANGED <<pc, bufVars>>
       ELSE \/ pc["main"] = "stop_cancel" /\ Goto("main", "stop_drain") /\ UNCHANGED bufVars
            \/ pc["main"] = "down_cancel" /\ Goto("main", "down_drain") /\ DiscardCurBuf
    /\ UNCHANGED <<apiVars, wqVars, arg, to_cancel, after_stop, libVars, rdr>>

\* Wrong variant: the head of the fifo is looked at and not taken.
DrainPeeks ==
    /\ pc["main"] \in {"stop_drain", "down_drain"}
    /\ s_apdu_fifo # <<>>
    /\ UNCHANGED vars

\* The loop that empties the fifo, in stop and in shutdown
DrainOne ==
    /\ pc["main"] \in {"stop_drain", "down_drain"}
    /\ s_apdu_fifo # <<>>
    /\ s_apdu_fifo' = Tail(s_apdu_fifo)
    /\ Unref({Head(s_apdu_fifo)})
    /\ UNCHANGED <<apiVars, s_cur_buf, s_asm_drop, wqVars, thrVars, libVars, rdr>>

StopFinish ==
    /\ pc["main"] = "stop_drain" /\ s_apdu_fifo = <<>>
    /\ s_session' = "NONE" /\ s_state' = "STOPPED"
    /\ Unlock("main")
    /\ Goto("main", after_stop)
    /\ to_cancel' = IF after_stop = "idle" THEN <<>> ELSE AllWorks
    /\ after_stop' = "idle"
    /\ UNCHANGED <<s_ops_registered, s_pending_uid, bufVars, wqVars, arg, canceling, libVars, rdr>>

ShutdownDrained ==
    /\ pc["main"] = "down_drain" /\ s_apdu_fifo = <<>>
    /\ Goto("main", "down_done")
    /\ UNCHANGED <<apiVars, bufVars, wqVars, arg, cancelVars, libVars, rdr>>

ShutdownDone ==
    /\ pc["main"] = "down_done"
    /\ T4tDone
    /\ s_session' = "NONE" /\ s_state' = "UNINITIALIZED"
    /\ s_ops_registered' = FALSE /\ s_pending_uid' = NULL
    /\ Goto("main", "idle")
    /\ UNCHANGED <<s_uid_mutex, bufVars, wqVars, arg, cancelVars>>

\* nfc_transport_set_uid.  The session is read before the mutex is taken.
SetUid(t, uid) ==
    /\ pc[t] = "idle" /\ t \in UidThreads
    /\ s_state # "UNINITIALIZED"
    /\ IF s_session = "LISTEN"
       THEN /\ Goto(t, "uid_lock") /\ arg' = [arg EXCEPT ![t] = uid]
            /\ UNCHANGED s_pending_uid
       ELSE /\ s_pending_uid' = uid
            /\ UNCHANGED <<pc, arg>>
    /\ UNCHANGED <<s_state, s_session, s_ops_registered, s_uid_mutex, bufVars, wqVars, cancelVars, libVars, rdr>>

SetUidStop(t) ==
    /\ pc[t] = "uid_lock"
    /\ \/ EmulationStopOk /\ Lock(t) /\ Goto(t, "uid_apply") /\ UNCHANGED arg
       \/ /\ s_uid_mutex = NULL /\ EmulationStopFails /\ UNCHANGED s_uid_mutex
          /\ Goto(t, "idle") /\ arg' = [arg EXCEPT ![t] = NULL]
    /\ UNCHANGED <<s_state, s_session, s_ops_registered, s_pending_uid, bufVars, wqVars, cancelVars, nfcid1>>

SetUidApply(t) ==
    /\ pc[t] = "uid_apply"
    /\ DiscardCurBuf
    /\ \/ ApplyNfcid1Ok(arg[t]) /\ Goto(t, "uid_start")
       \/ ApplyNfcid1Fails /\ Goto(t, "uid_restore")
    /\ UNCHANGED <<s_state, s_session, s_ops_registered, s_uid_mutex, wqVars, arg, cancelVars, t4t, rdr>>

\* A restart that fails with the new uid ends the session; one that fails
\* after the uid was refused is not noticed.
SetUidStart(t) ==
    /\ \/ pc[t] = "uid_start" /\ EmulationStartFails /\ s_state' = "STOPPED" /\ s_session' = "NONE"
       \/ pc[t] = "uid_start" /\ EmulationStartOk /\ UNCHANGED <<s_state, s_session>>
       \/ /\ pc[t] = "uid_restore" /\ (EmulationStartOk \/ EmulationStartFails)
          /\ UNCHANGED <<s_state, s_session>>
    /\ Unlock(t) /\ Goto(t, "idle") /\ arg' = [arg EXCEPT ![t] = NULL]
    /\ UNCHANGED <<s_ops_registered, s_pending_uid, bufVars, wqVars, cancelVars, nfcid1, rdr>>

Results == {"ok", "setup", "fwi"}

\* The calls that begin an operation, and the steps that carry one on.
ApiCall ==
    \/ \E r \in Results : TransportInit(r)
    \/ \E r \in BOOLEAN : RegisterCallbacks(r)
    \/ \E u \in Uids \cup {NULL} : Start(u)
    \/ Stop \/ Shutdown
    \/ \E t \in Threads, u \in Uids : SetUid(t, u)

MainStep ==
    \/ StartEmulation \/ StartSession
    \/ StopEmulation \/ CancelBegin \/ CancelEnd \/ DrainOne \/ StopFinish
    \/ ShutdownDrained \/ ShutdownDone

UidStep(t) == SetUidStop(t) \/ SetUidApply(t) \/ SetUidStart(t)

Next == Isr \/ WqThread \/ ApiCall \/ MainStep \/ \E t \in Threads : UidStep(t)

\* The queue thread is never starved for ever, and a call that has begun goes
\* on; nothing makes a thread begin a call, or a reader come.  k_mutex_unlock
\* hands the mutex to a thread that waits for it, so a waiter gets its turn:
\* strong fairness for the two steps that lock.
Fairness ==
    /\ WF_vars(WqTake) /\ WF_vars(FieldOnWork \/ FieldOffWork)
    /\ WF_vars(ApduWorkGet \/ ApduWorkEmpty \/ ApduWorkEnd) /\ WF_vars(ApduUnref)
    /\ WF_vars(MainStep) /\ SF_vars(StopEmulation)
    /\ \A t \in Threads : WF_vars(UidStep(t)) /\ SF_vars(SetUidStop(t))

Spec == Init /\ [][Next]_vars
FairSpec == Spec /\ Fairness

-----------------------------------------------------------------------------
(* Properties *)

BufOrNull == Bufs \cup {NULL}
Readers == [field : BOOLEAN, sess : 0..MaxSess, ser : 0..MaxSerial, idx : 0..MaxFrags, waiting : BOOLEAN]

\* Every variable keeps its type.
TypeOK ==
    /\ s_state \in States /\ s_session \in {"NONE", "LISTEN"}
    /\ s_ops_registered \in BOOLEAN /\ s_pending_uid \in Uids \cup {NULL}
    /\ s_uid_mutex \in Threads \cup {NULL}
    /\ s_cur_buf \in BufOrNull /\ s_asm_drop \in Drops /\ s_apdu_fifo \in Seq(Bufs)
    /\ pool \subseteq Bufs /\ data \in [Bufs -> Contents]
    /\ wq \in Seq(Works) /\ running \in Works \cup {NULL}
    /\ handling \in BufOrNull /\ leaving \in BOOLEAN /\ answered \in BOOLEAN
    /\ pc \in [Threads -> MainLabels \cup UidLabels] /\ arg \in [Threads -> Uids \cup {NULL}]
    /\ to_cancel \in Seq(Works) /\ canceling \in Works \cup {NULL} /\ after_stop \in {"idle", "down_cancel"}
    /\ t4t \in {"down", "ready", "emulating"} /\ nfcid1 \in Uids \cup {NULL}
    /\ rdr \in Readers

\* A buffer has at most one owner: the pool, the interrupt that fills it, the
\* fifo (once) or the callee of on_apdu.  No two net_buf_unref of one buffer,
\* whatever the interrupt, the queue and two API threads do and whichever
\* library calls fail (discard_cur_buf, nfc_hal_on_fragment, apdu_work_handler
\* and the drain loops each take the buffer away from the others first).
OneOwner ==
    /\ \A i, j \in DOMAIN s_apdu_fifo : s_apdu_fifo[i] = s_apdu_fifo[j] => i = j
    /\ Range(s_apdu_fifo) \cap pool = {}
    /\ s_cur_buf # NULL => s_cur_buf \notin pool \cup Range(s_apdu_fifo) \cup {handling}
    /\ handling # NULL => handling \notin pool \cup Range(s_apdu_fifo)

\* A buffer has at least one owner: none is lost, however often the transport
\* is stopped, re-initialised or shut down.
NoLeak == Bufs \subseteq pool \cup {s_cur_buf, handling} \cup Range(s_apdu_fifo)

\* What on_apdu is given is one whole C-APDU as the reader sent it: all its
\* fragments, in order, and nothing of another one.  A field change, a stop or
\* a uid rotation in the middle of a C-APDU, and the fragments dropped for want
\* of a buffer, never leave half of it in front of the next
\* (nfc_hal_on_fragment with discard_cur_buf).
AssembledWhole ==
    \A b \in Range(s_apdu_fifo) \cup ({handling} \ {NULL}) :
        LET f == data[b].frags
        IN  /\ f # <<>>
            /\ \A i \in DOMAIN f : f[i].ser = f[1].ser /\ f[i].idx = i /\ (f[i].last <=> i = Len(f))

Idle == \A t \in Threads : pc[t] = "idle"

\* When stop or shutdown has returned the transport is silent: no emulation, no
\* APDU half assembled or queued, no handler running or about to run, so nothing
\* is delivered to the ops any more, and the next nfc_transport_init initialises
\* no work item and no fifo that still holds something.
StoppedIsQuiet ==
    Idle /\ s_state # "STARTED" =>
        /\ t4t # "emulating"
        /\ s_cur_buf = NULL /\ s_apdu_fifo = <<>> /\ handling = NULL
        /\ wq = <<>> /\ running = NULL

\* While the transport listens and no call is in progress, the reader sees the
\* uid that was set last, by start or by set_uid, before or during the session.
UidInForce == Idle /\ s_state = "STARTED" => t4t = "emulating" /\ nfcid1 = s_pending_uid

\* Every call returns: stop and shutdown wait for a handler that ends, and
\* the mutex they share with set_uid is always given back.
CallsReturn == \A t \in Threads : pc[t] # "idle" ~> pc[t] = "idle"

=============================================================================
