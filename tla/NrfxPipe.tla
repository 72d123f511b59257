------------------------------- MODULE NrfxPipe -------------------------------
(***************************************************************************)
(* NfcTransportNrfx implements ApduPipe: a buffer stands for the C-APDU    *)
(* whose first fragment it holds.                                          *)
(***************************************************************************)
EXTENDS NfcTransportNrfx

\* NULL is no C-APDU.
ASSUME NullAssumption == \A ser \in 0..MaxSerial, sess \in 0..MaxSess : NULL # [ser |-> ser, sess |-> sess]

CApduIn(b) == [ser |-> data[b].frags[1].ser, sess |-> data[b].frags[1].sess]

PipeFifo == [i \in DOMAIN s_apdu_fifo |-> CApduIn(s_apdu_fifo[i])]
PipeCurrent == IF handling = NULL THEN NULL ELSE CApduIn(handling)
\* A handler that has seen the fifo empty does nothing more.
PipeRunning == IF leaving THEN NULL ELSE running
ReaderSeen(r) ==
    [field |-> r.field, sess |-> r.sess, ser |-> r.ser, sending |-> r.idx > 0, waiting |-> r.waiting]

Pipe == INSTANCE ApduPipe WITH
    Deferred   <- {},
    fifo       <- PipeFifo,
    running    <- PipeRunning,
    current    <- PipeCurrent,
    registered <- s_ops_registered,
    reader     <- ReaderSeen(rdr)

\* With buffers that come and go, fragments dropped or too long, an interrupt
\* that preempts every step, stops, uid rotations and re-initialisations, the
\* nRF backend still is the pipe: no C-APDU overtakes another, is handed over
\* twice, is lost once it is in the fifo while the field is on, or waits in it
\* without its work item being queued or running.
ImplementsPipe == Pipe!PipeSpec
=============================================================================
