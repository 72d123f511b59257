------------------------------- MODULE ApduPipe -------------------------------
(***************************************************************************)
(* What the listen transport promises to the layers above it: the way from *)
(* the reader to the callee of on_apdu as nfc_transport.h describes it,    *)
(* without buffers, fragments or the steps of the API calls.  Whole        *)
(* C-APDUs queue up in arrival order and are handed over one at a time on  *)
(* the one work queue; the field events are work items of the same queue.  *)
(* NrfxPipe shows that NfcTransportNrfx implements this specification;     *)
(* ListenPath puts the router and a service on top of it.                  *)
(***************************************************************************)
EXTENDS Naturals, Sequences

CONSTANTS
    NULL,
    Deferred,   \* work items of services (nfc_transport_submit_work)
    MaxSerial,  \* bound: C-APDUs the reader starts to send
    MaxSess     \* bound: RF field sessions

VARIABLES
    fifo,        \* C-APDUs received and not yet taken
    wq,          \* work items queued on nfc_stack_wq
    running,     \* the item whose handler the queue thread is in
    canceling,   \* the item k_work_cancel_sync waits for
    current,     \* the C-APDU the callee of on_apdu works on
    registered,  \* callbacks are registered
    reader       \* the reader in the field

pipeVars == <<fifo, wq, running, canceling, current, registered, reader>>

\* C-APDU number ser, and the field session it was sent in
CApdu(ser, sess) == [ser |-> ser, sess |-> sess]
Gone(r) == [r EXCEPT !.field = FALSE, !.sending = FALSE, !.waiting = FALSE]
TransportWorks == {"field_on", "field_off", "apdu"}
Queued(w) == \E i \in DOMAIN wq : wq[i] = w

PipeInit ==
    /\ fifo = <<>> /\ wq = <<>> /\ running = NULL /\ canceling = NULL
    /\ current = NULL /\ registered = FALSE
    /\ reader = [field |-> FALSE, sess |-> 0, ser |-> 0, sending |-> FALSE, waiting |-> FALSE]

\* k_work_submit_to_queue
Enqueue(w) == wq' = IF Queued(w) \/ w = canceling THEN wq ELSE Append(wq, w)

-----------------------------------------------------------------------------
(* The reader.  It sends a C-APDU in one or more fragments and then waits.  *)

PipeFieldOn ==
    /\ ~reader.field /\ reader.sess < MaxSess
    /\ reader' = [Gone(reader) EXCEPT !.field = TRUE, !.sess = @ + 1]
    /\ Enqueue("field_on")
    /\ UNCHANGED <<fifo, running, canceling, current, registered>>

PipeFieldOff ==
    /\ reader.field
    /\ reader' = Gone(reader)
    /\ Enqueue("field_off")
    /\ UNCHANGED <<fifo, running, canceling, current, registered>>

SerialOfNext == IF reader.sending THEN reader.ser ELSE reader.ser + 1

MaySend == reader.field /\ ~reader.waiting /\ SerialOfNext <= MaxSerial

BeginApdu ==
    /\ MaySend
    /\ reader' = [reader EXCEPT !.ser = SerialOfNext, !.sending = TRUE]
    /\ UNCHANGED <<fifo, wq, running, canceling, current, registered>>

\* The last fragment arrives: the C-APDU joins the fifo.
ReceiveApdu ==
    /\ MaySend
    /\ reader' = [reader EXCEPT !.ser = SerialOfNext, !.sending = FALSE, !.waiting = TRUE]
    /\ fifo' = Append(fifo, CApdu(SerialOfNext, reader.sess))
    /\ Enqueue("apdu")
    /\ UNCHANGED <<running, canceling, current, registered>>

\* The last fragment arrives of a C-APDU that found no buffer, or that was too
\* long for one and is answered 6700.
LoseApdu ==
    /\ MaySend
    /\ \E waits \in BOOLEAN :
           reader' = [reader EXCEPT !.ser = SerialOfNext, !.sending = FALSE, !.waiting = waits]
    /\ UNCHANGED <<fifo, wq, running, canceling, current, registered>>

-----------------------------------------------------------------------------
(* The work queue thread *)

TakeWork ==
    /\ running = NULL /\ wq # <<>>
    /\ running' = Head(wq) /\ wq' = Tail(wq)
    /\ UNCHANGED <<fifo, canceling, current, registered, reader>>

\* Wrong variant: the handler returns after one C-APDU.
EndWorkAfterOne ==
    /\ running # NULL /\ current = NULL
    /\ running' = NULL
    /\ UNCHANGED <<fifo, wq, canceling, current, registered, reader>>

EndWork ==
    /\ running # NULL /\ current = NULL
    /\ running = "apdu" => fifo = <<>>
    /\ running' = NULL
    /\ UNCHANGED <<fifo, wq, canceling, current, registered, reader>>

\* Wrong variant: the C-APDU is looked at and stays in the fifo.
DeliverWithoutGet ==
    /\ running = "apdu" /\ current = NULL /\ fifo # <<>>
    /\ current' = IF registered THEN Head(fifo) ELSE NULL
    /\ UNCHANGED <<fifo, wq, running, canceling, registered, reader>>

\* The oldest C-APDU is handed to on_apdu, or dropped when nobody listens.
DeliverApdu ==
    /\ running = "apdu" /\ current = NULL /\ fifo # <<>>
    /\ current' = IF registered THEN Head(fifo) ELSE NULL
    /\ fifo' = Tail(fifo)
    /\ UNCHANGED <<wq, running, canceling, registered, reader>>

\* nfc_transport_send_response, from on_apdu or from a deferred work item
Respond ==
    /\ current # NULL \/ running \in Deferred
    /\ reader.waiting
    /\ reader' = [reader EXCEPT !.waiting = FALSE]
    /\ UNCHANGED <<fifo, wq, running, canceling, current, registered>>

ReturnApdu ==
    /\ current # NULL
    /\ current' = NULL
    /\ UNCHANGED <<fifo, wq, running, canceling, registered, reader>>

\* nfc_transport_submit_work
SubmitWork(w) ==
    /\ w \in Deferred
    /\ Enqueue(w)
    /\ UNCHANGED <<fifo, running, canceling, current, registered, reader>>

-----------------------------------------------------------------------------
(* What stop, shutdown, init and register_callbacks do to the pipe.  Only   *)
(* work items of the transport are cancelled.  C-APDUs are thrown away only *)
(* when no reader is in the field.                                          *)

StopField ==
    /\ reader' = Gone(reader)
    /\ UNCHANGED <<fifo, wq, running, canceling, current, registered>>

CancelWork(w) ==
    /\ canceling = NULL
    /\ canceling' = w
    /\ Queued(w) => \E i \in DOMAIN wq : wq[i] = w /\ wq' = SubSeq(wq, 1, i - 1) \o SubSeq(wq, i + 1, Len(wq))
    /\ ~Queued(w) => UNCHANGED wq
    /\ UNCHANGED <<fifo, running, current, registered, reader>>

CancelDone ==
    /\ canceling # NULL /\ running # canceling
    /\ canceling' = NULL
    /\ UNCHANGED <<fifo, wq, running, current, registered, reader>>

DropApdu ==
    /\ ~reader.field /\ fifo # <<>>
    /\ fifo' = Tail(fifo)
    /\ UNCHANGED <<wq, running, canceling, current, registered, reader>>

\* register_callbacks; shutdown releases the field and the callbacks together
Register(r) ==
    /\ registered' = r
    /\ reader' \in {reader, Gone(reader)}
    /\ UNCHANGED <<fifo, wq, running, canceling, current>>

PipeNext ==
    \/ PipeFieldOn \/ PipeFieldOff \/ BeginApdu \/ ReceiveApdu \/ LoseApdu
    \/ TakeWork \/ EndWork \/ DeliverApdu \/ Respond \/ ReturnApdu
    \/ \E w \in Deferred : SubmitWork(w)
    \/ StopField \/ CancelDone \/ DropApdu
    \/ \E w \in TransportWorks : CancelWork(w)
    \/ \E r \in BOOLEAN : Register(r)

PipeSpec == PipeInit /\ [][PipeNext]_pipeVars

-----------------------------------------------------------------------------
(* Properties *)

\* C-APDUs are handed over in the order the reader sent them and none twice:
\* the one being handled is older than those in the fifo, which are in order,
\* and no newer than the reader's last.
InOrder ==
    LET q == (IF current = NULL THEN <<>> ELSE <<current>>) \o fifo
    IN  \A i, j \in DOMAIN q : (i < j => q[i].ser < q[j].ser) /\ q[i].ser <= reader.ser

=============================================================================
