-------------------------- MODULE NfcTransportPn7160 --------------------------
(***************************************************************************)
(* The transport on the PN7160 controller                                  *)
(* (src/nfc/hal/nfc_transport_pn7160.c).  There is no interrupt: a work    *)
(* item of nfc_stack_wq, s_listen_recv_work, loops on a blocking receive   *)
(* and queues whole C-APDUs for s_apdu_work, an item of the same queue.    *)
(* One thread calls the API (all of it is @caller_sync); it interleaves    *)
(* with the queue thread.  The NCI driver is outside the repository.       *)
(***************************************************************************)
EXTENDS Naturals, Sequences

CONSTANTS
    Bufs,      \* the net_bufs of nfc_apdu_pool
    NULL,
    NciFaults, \* driver calls that may fail: see NciFaultNames
    MaxFrames  \* bound: frames the controller receives

NciFaultNames == {"connect", "discovery_start", "discovery_stop", "listen_start", "listen_stop", "recv"}

ASSUME Pn7160Assumption == NULL \notin Bufs \cup {"recv", "apdu"} /\ NciFaults \subseteq NciFaultNames /\ MaxFrames \in Nat

VARIABLES
    s_dev,                  \* the device is bound
    s_state, s_session, s_ops_registered,
    s_listen_recv_stop, s_apdu_fifo,
    pool,                   \* the free buffers of nfc_apdu_pool
    wq, running,            \* nfc_stack_wq: queued items, item being run
    recv_at,                \* where the receive loop is
    recv_failed,            \* the loop gave up since the last start: on an error, or because
                            \* it ran before the session was set
    handling,               \* the buffer on_apdu works on
    pc, to_cancel, canceling, after_stop,
    chip,                   \* what the controller does (external)
    frames                  \* frames received so far (external)

apiVars == <<s_dev, s_state, s_session, s_ops_registered>>
bufVars == <<s_apdu_fifo, pool>>
wqVars == <<wq, running, recv_at, handling>>
thrVars == <<pc, to_cancel, canceling, after_stop>>
vars == <<apiVars, s_listen_recv_stop, bufVars, wqVars, recv_failed, thrVars, chip, frames>>

Works == {"recv", "apdu"}
Range(f) == {f[x] : x \in DOMAIN f}
MayFail(call) == call \in NciFaults
Goto(l) == pc' = l

Init ==
    /\ s_dev = FALSE /\ s_state = "UNINITIALIZED" /\ s_session = "NONE" /\ s_ops_registered = FALSE
    /\ s_listen_recv_stop = FALSE /\ s_apdu_fifo = <<>> /\ pool = Bufs
    /\ wq = <<>> /\ running = NULL /\ recv_at = "check" /\ recv_failed = FALSE /\ handling = NULL
    /\ pc = "idle" /\ to_cancel = <<>> /\ canceling = NULL /\ after_stop = "idle"
    /\ chip = "down" /\ frames = 0

Submit(w) == wq' = IF w \in Range(wq) \/ w = canceling THEN wq ELSE Append(wq, w)

\* what k_work_cancel_sync leaves of the queue
Unqueued(w) ==
    IF w \in Range(wq)
    THEN LET i == CHOOSE k \in DOMAIN wq : wq[k] = w
         IN  [j \in 1..(Len(wq) - 1) |-> IF j < i THEN wq[j] ELSE wq[j + 1]]
    ELSE wq

-----------------------------------------------------------------------------
(* The queue thread *)

WqTake ==
    /\ running = NULL /\ wq # <<>>
    /\ running' = Head(wq) /\ wq' = Tail(wq)
    /\ recv_at' = "check"
    /\ UNCHANGED <<apiVars, s_listen_recv_stop, bufVars, handling, recv_failed, thrVars, chip, frames>>

\* listen_recv_work_handler: the condition of its loop
RecvCheck ==
    /\ running = "recv" /\ recv_at = "check"
    /\ IF ~s_listen_recv_stop /\ s_session = "LISTEN"
       THEN recv_at' = "recv" /\ UNCHANGED <<running, recv_failed>>
       ELSE running' = NULL /\ recv_failed' = (recv_failed \/ pc = "start_session") /\ UNCHANGED recv_at
    /\ UNCHANGED <<apiVars, s_listen_recv_stop, bufVars, wq, handling, thrVars, chip, frames>>

\* Wrong variant: a time-out ends the loop.
RecvTimeoutEnds ==
    /\ running = "recv" /\ recv_at = "recv"
    /\ running' = NULL
    /\ UNCHANGED <<apiVars, s_listen_recv_stop, bufVars, wq, recv_at, handling, recv_failed, thrVars, chip, frames>>

\* pn7160_nci_card_mode_recv times out after 500 ms: go round again
RecvTimeout ==
    /\ running = "recv" /\ recv_at = "recv"
    /\ recv_at' = "check"
    /\ UNCHANGED <<apiVars, s_listen_recv_stop, bufVars, wq, running, handling, recv_failed, thrVars, chip, frames>>

\* pn7160_nci_card_mode_recv fails otherwise: the loop ends
RecvError ==
    /\ running = "recv" /\ recv_at = "recv" /\ MayFail("recv")
    /\ running' = NULL /\ recv_failed' = TRUE
    /\ UNCHANGED <<apiVars, s_listen_recv_stop, bufVars, wq, recv_at, handling, thrVars, chip, frames>>

\* A frame comes, and listen_on_apdu_fragment drops it for want of a buffer,
\* answers 6700 if it is too long, or queues it for s_apdu_work.
RecvFrame ==
    /\ running = "recv" /\ recv_at = "recv" /\ chip = "listening" /\ frames < MaxFrames
    /\ frames' = frames + 1
    /\ recv_at' = "check"
    /\ \/ UNCHANGED <<bufVars, wq>>
       \/ \E b \in pool : /\ pool' = pool \ {b}
                          /\ s_apdu_fifo' = Append(s_apdu_fifo, b)
                          /\ Submit("apdu")
    /\ UNCHANGED <<apiVars, s_listen_recv_stop, running, handling, recv_failed, thrVars, chip>>

\* apdu_work_handler
ApduWork ==
    /\ running = "apdu" /\ handling = NULL
    /\ IF s_apdu_fifo = <<>>
       THEN running' = NULL /\ UNCHANGED <<bufVars, handling>>
       ELSE /\ s_apdu_fifo' = Tail(s_apdu_fifo)
            /\ IF s_ops_registered
               THEN handling' = Head(s_apdu_fifo) /\ UNCHANGED pool
               ELSE pool' = pool \cup {Head(s_apdu_fifo)} /\ UNCHANGED handling
            /\ UNCHANGED running
    /\ UNCHANGED <<apiVars, s_listen_recv_stop, wq, recv_at, recv_failed, thrVars, chip, frames>>

\* The callee of on_apdu unrefs the buffer before it returns.
ApduUnref ==
    /\ handling # NULL
    /\ pool' = pool \cup {handling} /\ handling' = NULL
    /\ UNCHANGED <<apiVars, s_listen_recv_stop, s_apdu_fifo, wq, running, recv_at, recv_failed, thrVars, chip, frames>>

WqThread == WqTake \/ RecvCheck \/ RecvTimeout \/ RecvError \/ RecvFrame \/ ApduWork \/ ApduUnref

-----------------------------------------------------------------------------
(* The API *)

\* nfc_transport_init.  A failure of the driver leaves s_dev bound.
TransportInit ==
    /\ pc = "idle" /\ s_state \in {"UNINITIALIZED", "STOPPED"}
    /\ s_dev' = TRUE
    /\ \/ /\ chip' = "idle"
          /\ s_apdu_fifo' = <<>>
          /\ s_session' = "NONE" /\ s_state' = "INITIALIZED"
       \/ MayFail("connect") /\ UNCHANGED <<chip, s_apdu_fifo, s_session, s_state>>
    /\ UNCHANGED <<s_ops_registered, s_listen_recv_stop, pool, wqVars, recv_failed, thrVars, frames>>

RegisterCallbacks(registered) ==
    /\ pc = "idle" /\ s_state \notin {"UNINITIALIZED", "STARTED"}
    /\ s_ops_registered' = registered
    /\ UNCHANGED <<s_dev, s_state, s_session, s_listen_recv_stop, bufVars, wqVars, recv_failed, thrVars, chip, frames>>

MayBegin == pc = "idle" /\ s_dev /\ s_state # "UNINITIALIZED" /\ s_session = "NONE"

DiscoverStart ==
    /\ MayBegin
    /\ \/ chip' = "polling" /\ s_session' = "POLL" /\ s_state' = "STARTED"
       \/ MayFail("discovery_start") /\ UNCHANGED <<chip, s_session, s_state>>
    /\ UNCHANGED <<s_dev, s_ops_registered, s_listen_recv_stop, bufVars, wqVars, recv_failed, thrVars, frames>>

\* Wrong variant: the two assignments are mixed up.
EndPollSwapped ==
    /\ chip' = "idle"
    /\ s_session' = "STOPPED" /\ s_state' = "NONE"
    /\ UNCHANGED <<s_dev, s_ops_registered, bufVars, wqVars, recv_failed, frames>>

\* nfc_transport_discover_stop: an error of the driver is returned, but the
\* session is over.
EndPoll ==
    /\ \/ chip' = "idle"
       \/ MayFail("discovery_stop") /\ UNCHANGED chip
    /\ s_session' = "NONE" /\ s_state' = "STOPPED"
    /\ UNCHANGED <<s_dev, s_ops_registered, bufVars, wqVars, recv_failed, frames>>

DiscoverStop ==
    /\ pc = "idle" /\ s_dev /\ s_session = "POLL"
    /\ EndPoll
    /\ UNCHANGED <<s_listen_recv_stop, thrVars>>

\* nfc_transport_start, up to on_field_on.  The receive item is submitted
\* before the session it checks for is set.
Start ==
    /\ MayBegin
    /\ \/ /\ chip' = "listening"
          /\ s_listen_recv_stop' = FALSE /\ recv_failed' = FALSE
          /\ Submit("recv")
          /\ Goto("start_session")
       \/ MayFail("listen_start") /\ UNCHANGED <<chip, s_listen_recv_stop, recv_failed, wq, pc>>
    /\ UNCHANGED <<apiVars, bufVars, running, recv_at, handling, to_cancel, canceling, after_stop, frames>>

StartSession ==
    /\ pc = "start_session"
    /\ s_session' = "LISTEN" /\ s_state' = "STARTED"
    /\ Goto("idle")
    /\ UNCHANGED <<s_dev, s_ops_registered, s_listen_recv_stop, bufVars, wqVars, recv_failed,
                   to_cancel, canceling, after_stop, chip, frames>>

\* Wrong variant: the loop is not told to end.
BeginStopUntold(then) ==
    /\ pc = "idle" /\ s_dev /\ s_session = "LISTEN"
    /\ Goto("stop_cancel") /\ to_cancel' = <<"recv", "apdu">> /\ after_stop' = then
    /\ UNCHANGED <<apiVars, s_listen_recv_stop, bufVars, wqVars, recv_failed, canceling, chip, frames>>

\* nfc_transport_stop, and nfc_transport_shutdown while listening
BeginStop(then) ==
    /\ pc = "idle" /\ s_dev /\ s_session = "LISTEN"
    /\ s_listen_recv_stop' = TRUE
    /\ Goto("stop_cancel") /\ to_cancel' = <<"recv", "apdu">> /\ after_stop' = then
    /\ UNCHANGED <<apiVars, bufVars, wqVars, recv_failed, canceling, chip, frames>>

Stop == BeginStop("idle")

\* Where nfc_transport_shutdown is once no session is left
BeginDown ==
    /\ s_listen_recv_stop' = FALSE
    /\ Goto("down_cancel") /\ to_cancel' = <<"recv", "apdu">>
    /\ UNCHANGED <<canceling, after_stop>>

\* nfc_transport_shutdown
Shutdown ==
    \/ BeginStop("down_cancel")
    \/ pc = "idle" /\ s_session = "POLL" /\ EndPoll /\ BeginDown
    \/ /\ pc = "idle" /\ s_session = "NONE"
       /\ BeginDown
       /\ UNCHANGED <<apiVars, bufVars, wqVars, recv_failed, chip, frames>>

\* k_work_cancel_sync unqueues the item, then waits until it does not run.
CancelBegin ==
    /\ pc \in {"stop_cancel", "down_cancel"} /\ canceling = NULL /\ to_cancel # <<>>
    /\ canceling' = Head(to_cancel) /\ to_cancel' = Tail(to_cancel)
    /\ wq' = Unqueued(Head(to_cancel))
    /\ UNCHANGED <<apiVars, s_listen_recv_stop, bufVars, running, recv_at, handling, recv_failed, pc, after_stop, chip, frames>>

\* Wrong variant: a handler that runs is not waited for.
CancelEndUnsynced ==
    /\ canceling # NULL
    /\ canceling' = NULL
    /\ Goto(IF to_cancel # <<>> THEN pc ELSE IF pc = "stop_cancel" THEN "stop_drain" ELSE "down_drain")
    /\ UNCHANGED <<apiVars, s_listen_recv_stop, bufVars, wqVars, recv_failed, to_cancel, after_stop, chip, frames>>

CancelEnd ==
    /\ canceling # NULL /\ running # canceling
    /\ canceling' = NULL
    /\ Goto(IF to_cancel # <<>> THEN pc ELSE IF pc = "stop_cancel" THEN "stop_drain" ELSE "down_drain")
    /\ UNCHANGED <<apiVars, s_listen_recv_stop, bufVars, wqVars, recv_failed, to_cancel, after_stop, chip, frames>>

\* Wrong variant: the buffers in the fifo are not given back.
DrainWithoutUnref == s_apdu_fifo' = <<>> /\ UNCHANGED pool

\* listen_drain_apdu_fifo
Drain == s_apdu_fifo' = <<>> /\ pool' = pool \cup Range(s_apdu_fifo)

\* The rest of nfc_transport_stop
StopFinish ==
    /\ pc = "stop_drain"
    /\ Drain
    /\ \/ chip' = "idle"
       \/ MayFail("listen_stop") /\ UNCHANGED chip
    /\ s_session' = "NONE" /\ s_state' = "STOPPED"
    /\ after_stop' = "idle"
    /\ \/ after_stop = "idle" /\ Goto("idle") /\ UNCHANGED <<to_cancel, s_listen_recv_stop>>
       \/ /\ after_stop = "down_cancel" /\ Goto("down_cancel")
          /\ to_cancel' = <<"recv", "apdu">> /\ s_listen_recv_stop' = FALSE
    /\ UNCHANGED <<s_dev, s_ops_registered, wqVars, recv_failed, canceling, frames>>

\* The rest of nfc_transport_shutdown.  The controller is not told anything.
ShutdownFinish ==
    /\ pc = "down_drain"
    /\ Drain
    /\ s_session' = "NONE" /\ s_state' = "UNINITIALIZED"
    /\ s_dev' = FALSE /\ s_ops_registered' = FALSE
    /\ Goto("idle")
    /\ UNCHANGED <<s_listen_recv_stop, wqVars, recv_failed, to_cancel, canceling, after_stop, chip, frames>>

ApiCall ==
    \/ TransportInit \/ (\E r \in BOOLEAN : RegisterCallbacks(r))
    \/ DiscoverStart \/ DiscoverStop \/ Start \/ Stop \/ Shutdown

MainStep == StartSession \/ CancelBegin \/ CancelEnd \/ StopFinish \/ ShutdownFinish

Next == WqThread \/ ApiCall \/ MainStep

Spec == Init /\ [][Next]_vars

\* The queue thread runs when it has something to do, and a call that has
\* begun goes on.
FairSpec == Spec /\ WF_vars(WqThread) /\ WF_vars(MainStep)

-----------------------------------------------------------------------------
(* Properties *)

\* Every variable keeps its type.
TypeOK ==
    /\ s_dev \in BOOLEAN /\ s_ops_registered \in BOOLEAN /\ s_listen_recv_stop \in BOOLEAN
    /\ s_state \in {"UNINITIALIZED", "INITIALIZED", "STARTED", "STOPPED"}
    /\ s_session \in {"NONE", "POLL", "LISTEN"}
    /\ s_apdu_fifo \in Seq(Bufs) /\ pool \subseteq Bufs /\ handling \in Bufs \cup {NULL}
    /\ wq \in Seq(Works) /\ running \in Works \cup {NULL}
    /\ recv_at \in {"check", "recv"} /\ recv_failed \in BOOLEAN
    /\ pc \in {"idle", "start_session", "stop_cancel", "stop_drain", "down_cancel", "down_drain"}
    /\ to_cancel \in Seq(Works) /\ canceling \in Works \cup {NULL} /\ after_stop \in {"idle", "down_cancel"}
    /\ chip \in {"down", "idle", "polling", "listening"} /\ frames \in 0..MaxFrames

\* Every buffer has exactly one owner, the pool, the fifo (once) or the callee
\* of on_apdu, whatever fails and whenever the transport is stopped.
ExactlyOneOwner ==
    /\ \A i, j \in DOMAIN s_apdu_fifo : s_apdu_fifo[i] = s_apdu_fifo[j] => i = j
    /\ Range(s_apdu_fifo) \cap pool = {}
    /\ handling # NULL => handling \notin pool \cup Range(s_apdu_fifo)
    /\ Bufs \subseteq pool \cup Range(s_apdu_fifo) \cup {handling}

\* Between calls the state tells the session: STARTED while there is one, and
\* the controller then does what the session says.  When there is none, no
\* item of the transport is queued or running and no C-APDU is kept.
SessionAgrees ==
    pc = "idle" =>
        /\ s_state = "STARTED" <=> s_session # "NONE"
        /\ s_session = "POLL" => chip = "polling"
        /\ s_session = "LISTEN" => chip = "listening"
        /\ s_session = "NONE" => wq = <<>> /\ running = NULL /\ s_apdu_fifo = <<>> /\ handling = NULL

\* stop and shutdown return: the receive loop they wait for sees the flag.
StopReturns == pc # "idle" ~> pc = "idle"

\* A started listen session has a receive loop, queued or running, through every time-out
\* and frame, unless the loop gave up: on an error of the controller, or because
\* nfc_transport_start queues it before it sets the session the loop looks at.
ListenReceives ==
    pc = "idle" /\ s_session = "LISTEN" => recv_failed \/ running = "recv" \/ "recv" \in Range(wq)

\* A C-APDU in the fifo reaches on_apdu (or is drained by a stop).
ApduDispatched == \A b \in Bufs : b \in Range(s_apdu_fifo) ~> b \notin Range(s_apdu_fifo)
=============================================================================
