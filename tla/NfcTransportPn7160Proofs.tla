----------------------- MODULE NfcTransportPn7160Proofs -----------------------
(***************************************************************************)
(* Proofs about NfcTransportPn7160: for any set of buffers, any number of   *)
(* frames and any set of failing driver calls, every buffer has exactly one *)
(* owner, nothing of a session is left when it is over, and a session that  *)
(* listens has its receive loop.                                            *)
(***************************************************************************)
EXTENDS NfcTransportPn7160, TLAPS

\* Most leaves are first-order: Zenon first, the SMT solver for the others.
USE ZenonT(3), SMTT(30)

\* no item is queued twice
UniqueWork == \A i, j \in DOMAIN wq : wq[i] = wq[j] => i = j

\* The types the proof needs
TypeInv ==
    /\ s_session \in {"NONE", "POLL", "LISTEN"}
    /\ s_apdu_fifo \in Seq(Bufs) /\ pool \subseteq Bufs /\ handling \in Bufs \cup {NULL}
    /\ wq \in Seq(Works) /\ UniqueWork /\ running \in Works \cup {NULL}
    /\ pc \in {"idle", "start_session", "stop_cancel", "stop_drain", "down_cancel", "down_drain"}

\* Nothing of a session is left
Quiet == wq = <<>> /\ running = NULL /\ s_apdu_fifo = <<>> /\ handling = NULL

\* Where there is a session, and where nothing can be left of one.  Between the receive
\* item and the session it looks for, only that item can be there.
Sessions ==
    /\ pc = "idle" /\ s_session # "LISTEN" => Quiet
    /\ pc \in {"down_cancel", "down_drain"} => Quiet /\ s_session = "NONE"
    /\ pc = "start_session" => /\ s_session = "NONE" /\ s_apdu_fifo = <<>> /\ handling = NULL
                               /\ running # "apdu" /\ "apdu" \notin Range(wq)
    /\ pc \in {"stop_cancel", "stop_drain"} => s_session = "LISTEN"
    /\ pc = "stop_drain" => wq = <<>> /\ running = NULL

\* How far the two cancellations have come: an item that has been cancelled is not
\* queued, and no longer runs once its cancellation is over.  The receive item goes
\* first, since it is what submits the other.
Cancels ==
    /\ canceling # NULL => pc \in {"stop_cancel", "down_cancel"}
    /\ pc \in {"stop_cancel", "down_cancel"} =>
         \/ to_cancel = <<"recv", "apdu">> /\ canceling = NULL
         \/ to_cancel = <<"apdu">> /\ canceling = "recv" /\ "recv" \notin Range(wq)
         \/ to_cancel = <<"apdu">> /\ canceling = NULL /\ "recv" \notin Range(wq) /\ running # "recv"
         \/ to_cancel = <<>> /\ canceling = "apdu" /\ Range(wq) = {} /\ running # "recv"

\* What the handlers rely on: a buffer is with on_apdu only while its item runs, and the
\* receive loop is in its receive only while there is a session.
Handlers ==
    /\ handling # NULL => running = "apdu"
    /\ running = "recv" /\ recv_at = "recv" => s_session = "LISTEN"

\* State and controller tell the session between calls.
Agrees ==
    /\ pc = "idle" =>
         /\ s_state = "STARTED" <=> s_session # "NONE"
         /\ s_session = "POLL" => chip = "polling"
         /\ s_session = "LISTEN" => chip = "listening"
    /\ pc = "start_session" => chip = "listening"

TransportInv == TypeInv /\ Sessions /\ Cancels /\ Handlers /\ Agrees /\ ExactlyOneOwner

-----------------------------------------------------------------------------
(* What the operations on the queue do to what is queued                    *)

\* k_work_submit_to_queue adds its item, once; an item being cancelled is refused.
LEMMA SubmitFacts ==
    ASSUME wq \in Seq(Works), UniqueWork, NEW w \in Works, Submit(w)
    PROVE  /\ wq' \in Seq(Works) /\ UniqueWork'
           /\ Range(wq)' \subseteq Range(wq) \cup {w}
<1>1. CASE w \in Range(wq) \/ w = canceling
  <2>1. wq' = wq
    BY <1>1 DEF Submit
  <2> QED BY <2>1 DEF UniqueWork, Range
<1>2. CASE ~(w \in Range(wq) \/ w = canceling)
  <2>1. wq' = Append(wq, w)
    BY <1>2 DEF Submit
  <2>2. wq' \in Seq(Works) /\ DOMAIN wq' = 1..(Len(wq) + 1) /\ DOMAIN wq = 1..Len(wq) /\ Len(wq) \in Nat
    BY <2>1
  <2>3. \A i \in DOMAIN wq' : wq'[i] = IF i \in DOMAIN wq THEN wq[i] ELSE w
    BY <2>1, <2>2
  <2>4. UniqueWork'
    BY <1>2, <2>2, <2>3 DEF UniqueWork, Range
  <2>5. Range(wq)' \subseteq Range(wq) \cup {w}
    BY <2>2, <2>3 DEF Range
  <2> QED BY <2>2, <2>4, <2>5
<1> QED BY <1>1, <1>2

\* The queue thread takes the first item out.
LEMMA TakeFacts ==
    ASSUME wq \in Seq(Works), UniqueWork, wq # <<>>, wq' = Tail(wq)
    PROVE  /\ wq' \in Seq(Works) /\ UniqueWork'
           /\ Head(wq) \in Works /\ Head(wq) \in Range(wq) /\ Range(wq)' \subseteq Range(wq)
<1>1. Len(wq) \in Nat \ {0} /\ DOMAIN wq = 1..Len(wq) /\ Head(wq) = wq[1] /\ Head(wq) \in Works
  OBVIOUS
<1>2. wq' \in Seq(Works) /\ DOMAIN wq' = 1..(Len(wq) - 1)
  BY <1>1
<1>3. \A i \in DOMAIN wq' : wq'[i] = wq[i + 1]
  BY <1>1, <1>2
<1>4. UniqueWork'
  BY <1>1, <1>2, <1>3 DEF UniqueWork
<1>5. Range(wq)' \subseteq Range(wq)
  BY <1>1, <1>2, <1>3 DEF Range
<1>6. Head(wq) \in Range(wq)
  BY <1>1 DEF Range
<1> QED BY <1>1, <1>2, <1>4, <1>5, <1>6

\* k_work_cancel_sync takes its item out.
LEMMA UnqueuedFacts ==
    ASSUME wq \in Seq(Works), UniqueWork, NEW w \in Works, wq' = Unqueued(w)
    PROVE  /\ wq' \in Seq(Works) /\ UniqueWork'
           /\ w \notin Range(wq)' /\ Range(wq)' \subseteq Range(wq)
<1>1. CASE w \notin Range(wq)
  <2>1. wq' = wq
    BY <1>1 DEF Unqueued
  <2> QED BY <1>1, <2>1 DEF UniqueWork, Range
<1>2. CASE w \in Range(wq)
  <2> DEFINE i == CHOOSE k \in DOMAIN wq : wq[k] = w
  <2>1. i \in DOMAIN wq /\ wq[i] = w
    BY <1>2 DEF Range
  <2>2. wq' = [j \in 1..(Len(wq) - 1) |-> IF j < i THEN wq[j] ELSE wq[j + 1]]
    BY <1>2 DEF Unqueued
  <2> HIDE DEF i
  <2>3. Len(wq) \in Nat \ {0} /\ DOMAIN wq = 1..Len(wq) /\ i \in 1..Len(wq)
    BY <2>1
  <2>4. DOMAIN wq' = 1..(Len(wq) - 1) /\ \A j \in DOMAIN wq' : wq'[j] = IF j < i THEN wq[j] ELSE wq[j + 1]
    BY <2>2
  <2>5. wq' \in Seq(Works)
    <3>1. \A j \in 1..(Len(wq) - 1) : (IF j < i THEN wq[j] ELSE wq[j + 1]) \in Works
      BY <2>3
    <3> QED BY <2>2, <2>3, <3>1
  <2>6. UniqueWork'
    BY <2>3, <2>4 DEF UniqueWork
  <2>7. \A j \in DOMAIN wq' : wq'[j] # w /\ wq'[j] \in Range(wq)
    BY <2>1, <2>3, <2>4 DEF Range, UniqueWork
  <2>8. w \notin Range(wq)' /\ Range(wq)' \subseteq Range(wq)
    BY <2>7 DEF Range
  <2> QED BY <2>5, <2>6, <2>8
<1> QED BY <1>1, <1>2

\* A step that leaves the queue alone leaves what is queued.
LEMMA SameQueue ==
    ASSUME UNCHANGED wq
    PROVE  (UniqueWork' <=> UniqueWork) /\ Range(wq)' = Range(wq)
BY DEF UniqueWork, Range

\* A queue with nothing in it is empty.
LEMMA EmptyQueue ==
    ASSUME wq \in Seq(Works), Range(wq) = {}
    PROVE  wq = <<>>
<1>1. \A i \in DOMAIN wq : wq[i] \in Range(wq)
  BY DEF Range
<1>2. DOMAIN wq = {} /\ DOMAIN wq = 1..Len(wq) /\ Len(wq) \in Nat
  BY <1>1
<1>3. Len(wq) = 0
  BY <1>2
<1> QED BY <1>3

-----------------------------------------------------------------------------
(* Who owns a buffer                                                        *)

\* A step that leaves the buffers where they are.
LEMMA SameOwners ==
    ASSUME ExactlyOneOwner, UNCHANGED <<s_apdu_fifo, pool, handling>>
    PROVE  ExactlyOneOwner'
BY DEF ExactlyOneOwner, Range

\* A frame moves a buffer from the pool to the end of the fifo.
LEMMA ReceiveOwners ==
    ASSUME ExactlyOneOwner, TypeInv, NEW b \in pool, pool' = pool \ {b}, s_apdu_fifo' = Append(s_apdu_fifo, b), UNCHANGED handling
    PROVE  ExactlyOneOwner' /\ s_apdu_fifo' \in Seq(Bufs) /\ pool' \subseteq Bufs
<1>1. b \in Bufs /\ Len(s_apdu_fifo) \in Nat /\ DOMAIN s_apdu_fifo = 1..Len(s_apdu_fifo)
  BY DEF TypeInv
<1>2. s_apdu_fifo' \in Seq(Bufs) /\ DOMAIN s_apdu_fifo' = 1..(Len(s_apdu_fifo) + 1)
  BY <1>1 DEF TypeInv
<1>3. \A i \in DOMAIN s_apdu_fifo' : s_apdu_fifo'[i] = IF i \in DOMAIN s_apdu_fifo THEN s_apdu_fifo[i] ELSE b
  BY <1>1, <1>2 DEF TypeInv
<1>4. Range(s_apdu_fifo)' = Range(s_apdu_fifo) \cup {b}
  <2>1. \A x : x \in Range(s_apdu_fifo)' => x \in Range(s_apdu_fifo) \cup {b}
    BY <1>1, <1>2, <1>3 DEF Range
  <2>2. \A x : x \in Range(s_apdu_fifo) => x \in Range(s_apdu_fifo)'
    BY <1>1, <1>2, <1>3 DEF Range
  <2>3. Len(s_apdu_fifo) + 1 \in DOMAIN s_apdu_fifo' /\ s_apdu_fifo'[Len(s_apdu_fifo) + 1] = b
    BY <1>1, <1>2, <1>3
  <2>4. b \in Range(s_apdu_fifo)'
    BY <2>3 DEF Range
  <2> QED BY <2>1, <2>2, <2>4
<1>5. b \notin Range(s_apdu_fifo) /\ b # handling
  BY <1>1, Pn7160Assumption DEF ExactlyOneOwner, TypeInv
<1>6. \A i, j \in DOMAIN s_apdu_fifo' : s_apdu_fifo'[i] = s_apdu_fifo'[j] => i = j
  BY <1>1, <1>2, <1>3, <1>5 DEF ExactlyOneOwner, Range
<1>7. /\ (Range(s_apdu_fifo) \cap pool)' = {}
      /\ (handling # NULL => handling \notin pool \cup Range(s_apdu_fifo))'
      /\ (Bufs \subseteq pool \cup Range(s_apdu_fifo) \cup {handling})'
  BY <1>4, <1>5 DEF ExactlyOneOwner
<1>8. pool' \subseteq Bufs
  BY DEF TypeInv
<1> QED BY <1>2, <1>6, <1>7, <1>8 DEF ExactlyOneOwner

\* apdu_work_handler takes the oldest buffer out of the fifo, for the callee of on_apdu or
\* back to the pool.
LEMMA GetOwners ==
    ASSUME ExactlyOneOwner, TypeInv, handling = NULL, s_apdu_fifo # <<>>, s_apdu_fifo' = Tail(s_apdu_fifo),
           \/ handling' = Head(s_apdu_fifo) /\ pool' = pool
           \/ handling' = handling /\ pool' = pool \cup {Head(s_apdu_fifo)}
    PROVE  /\ ExactlyOneOwner' /\ s_apdu_fifo' \in Seq(Bufs) /\ pool' \subseteq Bufs
           /\ handling' \in Bufs \cup {NULL}
<1>1. /\ Len(s_apdu_fifo) \in Nat \ {0} /\ DOMAIN s_apdu_fifo = 1..Len(s_apdu_fifo)
      /\ Head(s_apdu_fifo) = s_apdu_fifo[1] /\ Head(s_apdu_fifo) \in Bufs
  BY DEF TypeInv
<1>2. s_apdu_fifo' \in Seq(Bufs) /\ DOMAIN s_apdu_fifo' = 1..(Len(s_apdu_fifo) - 1)
  BY <1>1 DEF TypeInv
<1>3. \A i \in DOMAIN s_apdu_fifo' : s_apdu_fifo'[i] = s_apdu_fifo[i + 1]
  BY <1>1, <1>2 DEF TypeInv
<1>4. Range(s_apdu_fifo)' = Range(s_apdu_fifo) \ {Head(s_apdu_fifo)}
  <2>1. \A x : x \in Range(s_apdu_fifo)' => x \in Range(s_apdu_fifo) /\ x # Head(s_apdu_fifo)
    BY <1>1, <1>2, <1>3 DEF Range, ExactlyOneOwner
  <2>2. ASSUME NEW x \in Range(s_apdu_fifo), x # Head(s_apdu_fifo) PROVE x \in Range(s_apdu_fifo)'
    <3>1. PICK i \in DOMAIN s_apdu_fifo : s_apdu_fifo[i] = x
      BY DEF Range
    <3>2. i - 1 \in DOMAIN s_apdu_fifo' /\ s_apdu_fifo'[i - 1] = x
      BY <1>1, <1>2, <1>3, <2>2, <3>1
    <3> QED BY <3>2 DEF Range
  <2> QED BY <2>1, <2>2
<1>5. Head(s_apdu_fifo) \in Range(s_apdu_fifo)
  BY <1>1 DEF Range
<1>6. \A i, j \in DOMAIN s_apdu_fifo' : s_apdu_fifo'[i] = s_apdu_fifo'[j] => i = j
  BY <1>1, <1>2, <1>3 DEF ExactlyOneOwner
<1>7. /\ (Range(s_apdu_fifo) \cap pool)' = {}
      /\ (handling # NULL => handling \notin pool \cup Range(s_apdu_fifo))'
      /\ (Bufs \subseteq pool \cup Range(s_apdu_fifo) \cup {handling})'
  BY <1>1, <1>4, <1>5, Pn7160Assumption DEF ExactlyOneOwner
<1>8. pool' \subseteq Bufs /\ handling' \in Bufs \cup {NULL}
  BY <1>1 DEF TypeInv
<1> QED BY <1>2, <1>6, <1>7, <1>8 DEF ExactlyOneOwner

\* The callee of on_apdu gives its buffer back.
LEMMA UnrefOwners ==
    ASSUME ExactlyOneOwner, TypeInv, handling # NULL, pool' = pool \cup {handling}, handling' = NULL, UNCHANGED s_apdu_fifo
    PROVE  ExactlyOneOwner' /\ pool' \subseteq Bufs
<1>1. handling \in Bufs /\ pool' \subseteq Bufs
  BY DEF TypeInv
<1>2. Range(s_apdu_fifo)' = Range(s_apdu_fifo)
  BY DEF Range
<1> QED BY <1>1, <1>2 DEF ExactlyOneOwner

\* listen_drain_apdu_fifo gives the whole fifo back.
LEMMA DrainOwners ==
    ASSUME ExactlyOneOwner, TypeInv, Drain, UNCHANGED handling
    PROVE  ExactlyOneOwner' /\ s_apdu_fifo' \in Seq(Bufs) /\ pool' \subseteq Bufs
<1>1. s_apdu_fifo' = <<>> /\ pool' = pool \cup Range(s_apdu_fifo) /\ s_apdu_fifo' \in Seq(Bufs)
  BY DEF Drain
<1>2. Range(s_apdu_fifo)' = {} /\ DOMAIN s_apdu_fifo' = {}
  BY <1>1 DEF Range
<1>3. Range(s_apdu_fifo) \subseteq Bufs
  BY DEF TypeInv, Range
<1>4. pool' \subseteq Bufs
  BY <1>1, <1>3 DEF TypeInv
<1>5. ExactlyOneOwner'
  BY <1>1, <1>2 DEF ExactlyOneOwner
<1> QED BY <1>1, <1>4, <1>5

-----------------------------------------------------------------------------
(* The invariant holds and every step keeps it                              *)

\* NULL stands for no work item and no buffer.
LEMMA NullIsNoWork == NULL \notin Works /\ NULL \notin Bufs
BY Pn7160Assumption DEF Works

\* The transport begins idle, with every buffer in the pool.
LEMMA InitInv == Init => TransportInv
<1> SUFFICES ASSUME Init PROVE TransportInv
  OBVIOUS
<1>1. Range(wq) = {} /\ Range(s_apdu_fifo) = {} /\ DOMAIN s_apdu_fifo = {} /\ UniqueWork
  BY DEF Init, Range, UniqueWork
<1>2. TypeInv
  BY <1>1 DEF Init, TypeInv
<1>3. Sessions /\ Cancels /\ Handlers /\ Agrees
  BY DEF Init, Sessions, Cancels, Handlers, Agrees, Quiet
<1>4. ExactlyOneOwner
  BY <1>1 DEF Init, ExactlyOneOwner
<1> QED BY <1>2, <1>3, <1>4 DEF TransportInv

\* The queue thread takes an item.
LEMMA TakeInv == TransportInv /\ WqTake => TransportInv'
<1> SUFFICES ASSUME TransportInv, WqTake PROVE TransportInv'
  OBVIOUS
<1> USE DEF TransportInv
<1>1. /\ running = NULL /\ wq # <<>> /\ running' = Head(wq) /\ wq' = Tail(wq) /\ recv_at' = "check"
      /\ UNCHANGED <<s_state, s_session, s_apdu_fifo, pool, handling, pc, to_cancel, canceling, chip>>
  BY DEF WqTake, apiVars, bufVars, thrVars
<1>2. /\ wq' \in Seq(Works) /\ UniqueWork'
      /\ Head(wq) \in Works /\ Head(wq) \in Range(wq) /\ Range(wq)' \subseteq Range(wq)
  BY <1>1, TakeFacts DEF TypeInv
<1>3. TypeInv'
  BY <1>1, <1>2 DEF TypeInv
<1>4. Sessions'
  BY <1>1, <1>2 DEF Sessions, Quiet, TypeInv
<1>5. Cancels'
  <2>1. Range(wq) = {} => Range(wq)' = {}
    BY <1>2
  <2>2. "recv" \notin Range(wq) => "recv" \notin Range(wq)' /\ running' # "recv"
    BY <1>1, <1>2
  <2>3. Range(wq) = {} => running' # "recv"
    BY <2>2
  <2> QED BY <1>1, <2>1, <2>2, <2>3 DEF Cancels
<1>6. Handlers' /\ Agrees'
  <2>1. handling' = NULL
    BY <1>1, NullIsNoWork DEF Handlers, Works
  <2>2. Handlers'
    BY <1>1, <2>1 DEF Handlers
  <2>3. Agrees'
    BY <1>1 DEF Agrees
  <2> QED BY <2>2, <2>3
<1>7. ExactlyOneOwner'
  BY <1>1, SameOwners
<1> QED BY <1>3, <1>4, <1>5, <1>6, <1>7

\* The receive loop, apart from the frames it receives.
LEMMA LoopInv == TransportInv /\ (RecvCheck \/ RecvTimeout \/ RecvError) => TransportInv'
<1> SUFFICES ASSUME TransportInv, RecvCheck \/ RecvTimeout \/ RecvError PROVE TransportInv'
  OBVIOUS
<1> USE DEF TransportInv
<1>1. /\ running = "recv" /\ running' \in {"recv", NULL}
      /\ UNCHANGED <<s_state, s_session, s_apdu_fifo, pool, handling, wq, pc, to_cancel, canceling, chip>>
  BY DEF RecvCheck, RecvTimeout, RecvError, apiVars, bufVars, thrVars
<1>2. running' = "recv" /\ recv_at' = "recv" => s_session = "LISTEN"
  BY NullIsNoWork DEF RecvCheck, RecvTimeout, RecvError, Works
<1>3. (UniqueWork' <=> UniqueWork) /\ Range(wq)' = Range(wq)
  BY <1>1, SameQueue
<1>4. TypeInv'
  BY <1>1, <1>3 DEF TypeInv, Works
<1>5. Sessions'
  BY <1>1, <1>3, NullIsNoWork DEF Sessions, Quiet, Works
<1>6. Cancels'
  BY <1>1, <1>3 DEF Cancels
<1>7. Handlers' /\ Agrees'
  BY <1>1, <1>2 DEF Handlers, Agrees
<1>8. ExactlyOneOwner'
  BY <1>1, SameOwners
<1> QED BY <1>4, <1>5, <1>6, <1>7, <1>8

\* A frame is received while there is a session, and the item it submits is not yet
\* cancelled since the loop still runs.
LEMMA FrameInv == TransportInv /\ RecvFrame => TransportInv'
<1> SUFFICES ASSUME TransportInv, RecvFrame PROVE TransportInv'
  OBVIOUS
<1> USE DEF TransportInv
<1>1. /\ running = "recv" /\ recv_at = "recv" /\ recv_at' = "check"
      /\ UNCHANGED <<s_state, s_session, running, handling, pc, to_cancel, canceling, chip>>
  BY DEF RecvFrame, apiVars, thrVars
<1>2. s_session = "LISTEN" /\ pc \notin {"start_session", "down_cancel", "down_drain", "stop_drain"}
  BY <1>1, NullIsNoWork DEF Handlers, Sessions, Quiet, Works
<1>3. "apdu" \in Works /\ "recv" # "apdu"
  BY DEF Works
<1>4. /\ wq' \in Seq(Works) /\ UniqueWork' /\ Range(wq)' \subseteq Range(wq) \cup {"apdu"}
      /\ ExactlyOneOwner' /\ s_apdu_fifo' \in Seq(Bufs) /\ pool' \subseteq Bufs
  <2>1. CASE UNCHANGED <<s_apdu_fifo, pool, wq>>
    BY <1>1, <2>1, SameQueue, SameOwners DEF TypeInv
  <2>2. ASSUME NEW b \in pool, pool' = pool \ {b}, s_apdu_fifo' = Append(s_apdu_fifo, b), Submit("apdu")
        PROVE  /\ wq' \in Seq(Works) /\ UniqueWork' /\ Range(wq)' \subseteq Range(wq) \cup {"apdu"}
               /\ ExactlyOneOwner' /\ s_apdu_fifo' \in Seq(Bufs) /\ pool' \subseteq Bufs
    <3>1. wq' \in Seq(Works) /\ UniqueWork' /\ Range(wq)' \subseteq Range(wq) \cup {"apdu"}
      BY <1>3, <2>2, SubmitFacts DEF TypeInv
    <3>2. ExactlyOneOwner' /\ s_apdu_fifo' \in Seq(Bufs) /\ pool' \subseteq Bufs
      BY <1>1, <2>2, ReceiveOwners
    <3> QED BY <3>1, <3>2
  <2> QED BY <2>1, <2>2 DEF RecvFrame, bufVars
<1>5. TypeInv'
  BY <1>1, <1>4 DEF TypeInv
<1>6. Sessions' /\ Agrees'
  BY <1>1, <1>2 DEF Sessions, Agrees
<1>7. Cancels'
  BY <1>1, <1>2, <1>4 DEF Cancels
<1>8. Handlers'
  BY <1>1 DEF Handlers
<1> QED BY <1>4, <1>5, <1>6, <1>7, <1>8

\* apdu_work_handler and the callee of on_apdu run only while there is a session.
LEMMA ApduInv == TransportInv /\ (ApduWork \/ ApduUnref) => TransportInv'
<1> SUFFICES ASSUME TransportInv, ApduWork \/ ApduUnref PROVE TransportInv'
  OBVIOUS
<1> USE DEF TransportInv
<1>1. /\ running = "apdu"
      /\ UNCHANGED <<s_state, s_session, wq, recv_at, pc, to_cancel, canceling, chip>>
  BY DEF ApduWork, ApduUnref, Handlers, apiVars, thrVars
<1>2. s_session = "LISTEN" /\ pc \notin {"start_session", "down_cancel", "down_drain", "stop_drain"}
  BY <1>1, NullIsNoWork DEF Sessions, Quiet, Works, TypeInv
<1>3. /\ running' \in {"apdu", NULL} /\ (handling' # NULL => running' = "apdu")
      /\ ExactlyOneOwner' /\ s_apdu_fifo' \in Seq(Bufs) /\ pool' \subseteq Bufs /\ handling' \in Bufs \cup {NULL}
  <2>1. CASE ApduWork /\ s_apdu_fifo = <<>>
    <3>1. running' = NULL /\ handling = NULL /\ UNCHANGED <<s_apdu_fifo, pool, handling>>
      BY <2>1 DEF ApduWork, bufVars
    <3> QED BY <3>1, SameOwners DEF TypeInv
  <2>2. CASE ApduWork /\ s_apdu_fifo # <<>>
    <3>1. /\ handling = NULL /\ s_apdu_fifo' = Tail(s_apdu_fifo) /\ running' = running
          /\ \/ handling' = Head(s_apdu_fifo) /\ pool' = pool
             \/ handling' = handling /\ pool' = pool \cup {Head(s_apdu_fifo)}
      BY <2>2 DEF ApduWork
    <3> QED BY <1>1, <2>2, <3>1, GetOwners
  <2>3. CASE ApduUnref
    <3>1. handling # NULL /\ pool' = pool \cup {handling} /\ handling' = NULL /\ UNCHANGED <<s_apdu_fifo, running>>
      BY <2>3 DEF ApduUnref
    <3> QED BY <1>1, <3>1, UnrefOwners DEF TypeInv
  <2> QED BY <2>1, <2>2, <2>3
<1>4. (UniqueWork' <=> UniqueWork) /\ Range(wq)' = Range(wq)
  BY <1>1, SameQueue
<1>5. TypeInv'
  BY <1>1, <1>3, <1>4 DEF TypeInv, Works
<1>6. Sessions' /\ Agrees'
  BY <1>1, <1>2 DEF Sessions, Agrees
<1>7. Cancels'
  BY <1>1, <1>3, <1>4, NullIsNoWork DEF Cancels, Works
<1>8. Handlers'
  BY <1>1, <1>3, NullIsNoWork DEF Handlers, Works
<1> QED BY <1>3, <1>5, <1>6, <1>7, <1>8

\* A call of the API that leaves queue and buffers alone.
LEMMA CallInv ==
    ASSUME TransportInv, UNCHANGED <<pool, wq, running, recv_at, handling, to_cancel, canceling, s_apdu_fifo>>,
           pc = "idle", pc' = "idle",
           s_session' \in {"NONE", "POLL", "LISTEN"},
           s_session' = s_session \/ (s_session # "LISTEN" /\ s_session' # "LISTEN"),
           Agrees'
    PROVE  TransportInv'
<1> USE DEF TransportInv
<1>1. (UniqueWork' <=> UniqueWork) /\ Range(wq)' = Range(wq)
  BY SameQueue
<1>2. TypeInv'
  BY <1>1 DEF TypeInv
<1>3. Sessions' /\ Cancels'
  BY <1>1 DEF Sessions, Cancels, Quiet
<1>4. Handlers'
  BY NullIsNoWork DEF Handlers, Sessions, Quiet, Works
<1>5. ExactlyOneOwner'
  BY SameOwners
<1> QED BY <1>2, <1>3, <1>4, <1>5

\* nfc_transport_init empties a fifo that is empty.
LEMMA InitCallInv == TransportInv /\ TransportInit => TransportInv'
<1> SUFFICES ASSUME TransportInv, TransportInit PROVE TransportInv'
  OBVIOUS
<1>1. pc = "idle" /\ s_session = "NONE" /\ s_apdu_fifo = <<>>
  BY DEF TransportInit, TransportInv, Agrees, Sessions, Quiet
<1>2. /\ UNCHANGED <<pool, wq, running, recv_at, handling, to_cancel, canceling, s_apdu_fifo, pc>>
      /\ s_session' = "NONE"
  BY <1>1 DEF TransportInit, wqVars, thrVars
<1>3. Agrees'
  BY <1>1, <1>2 DEF TransportInit, TransportInv, Agrees
<1> QED BY <1>1, <1>2, <1>3, CallInv

\* register_callbacks, discover_start and discover_stop
LEMMA OtherCallInv == TransportInv /\ ((\E r \in BOOLEAN : RegisterCallbacks(r)) \/ DiscoverStart \/ DiscoverStop) => TransportInv'
<1> SUFFICES ASSUME TransportInv, (\E r \in BOOLEAN : RegisterCallbacks(r)) \/ DiscoverStart \/ DiscoverStop
             PROVE  TransportInv'
  OBVIOUS
<1>1. pc = "idle" /\ UNCHANGED <<pool, wq, running, recv_at, handling, to_cancel, canceling, s_apdu_fifo, pc>>
  BY DEF RegisterCallbacks, DiscoverStart, DiscoverStop, EndPoll, MayBegin, bufVars, wqVars, thrVars
<1>2. /\ s_session' \in {"NONE", "POLL", "LISTEN"}
      /\ s_session' = s_session \/ (s_session # "LISTEN" /\ s_session' # "LISTEN")
  BY DEF RegisterCallbacks, DiscoverStart, DiscoverStop, EndPoll, MayBegin, TransportInv, TypeInv
<1>3. Agrees'
  BY <1>1 DEF RegisterCallbacks, DiscoverStart, DiscoverStop, EndPoll, MayBegin, TransportInv, Agrees
<1> QED BY <1>1, <1>2, <1>3, CallInv

\* nfc_transport_start queues the receive item before there is a session.
LEMMA StartInv == TransportInv /\ Start => TransportInv'
<1> SUFFICES ASSUME TransportInv, Start PROVE TransportInv'
  OBVIOUS
<1> USE DEF TransportInv
<1>1. /\ pc = "idle" /\ s_session = "NONE" /\ Quiet /\ canceling = NULL
      /\ UNCHANGED <<s_state, s_session, pool, running, recv_at, handling, to_cancel, canceling, s_apdu_fifo>>
  BY DEF Start, MayBegin, Sessions, Cancels, apiVars, bufVars
<1>2. CASE pc' = "start_session" /\ chip' = "listening" /\ Submit("recv")
  <2>1. "recv" \in Works /\ "recv" # "apdu"
    BY DEF Works
  <2>2. wq' \in Seq(Works) /\ UniqueWork' /\ Range(wq)' \subseteq Range(wq) \cup {"recv"}
    BY <1>2, <2>1, SubmitFacts DEF TypeInv
  <2>3. Range(wq) = {}
    BY <1>1 DEF Quiet, Range
  <2>4. TypeInv'
    BY <1>1, <1>2, <2>2 DEF TypeInv
  <2>5. Sessions'
    BY <1>1, <1>2, <2>2, <2>3, NullIsNoWork DEF Sessions, Quiet, Works
  <2>6. Cancels' /\ Agrees'
    BY <1>1, <1>2 DEF Cancels, Agrees
  <2>7. Handlers'
    BY <1>1 DEF Handlers
  <2> QED BY <1>1, <2>4, <2>5, <2>6, <2>7, SameOwners
<1>3. CASE UNCHANGED <<chip, wq, pc>>
  <2>1. Agrees'
    BY <1>1, <1>3 DEF Agrees
  <2> QED BY <1>1, <1>3, <2>1, CallInv DEF TypeInv
<1> QED BY <1>2, <1>3 DEF Start, Goto

\* ... which the rest of nfc_transport_start sets.
LEMMA StartSessionInv == TransportInv /\ StartSession => TransportInv'
<1> SUFFICES ASSUME TransportInv, StartSession PROVE TransportInv'
  OBVIOUS
<1> USE DEF TransportInv
<1>1. /\ pc = "start_session" /\ pc' = "idle" /\ s_session' = "LISTEN" /\ s_state' = "STARTED"
      /\ UNCHANGED <<pool, wq, running, recv_at, handling, to_cancel, canceling, s_apdu_fifo, chip>>
  BY DEF StartSession, Goto, bufVars, wqVars
<1>2. (UniqueWork' <=> UniqueWork) /\ Range(wq)' = Range(wq)
  BY <1>1, SameQueue
<1>3. TypeInv'
  BY <1>1, <1>2 DEF TypeInv
<1>4. Sessions' /\ Cancels' /\ Handlers' /\ Agrees'
  BY <1>1 DEF Sessions, Cancels, Handlers, Agrees
<1> QED BY <1>1, <1>3, <1>4, SameOwners

\* nfc_transport_stop, and nfc_transport_shutdown while listening, begin.
LEMMA BeginStopInv == TransportInv /\ (\E then \in {"idle", "down_cancel"} : BeginStop(then)) => TransportInv'
<1> SUFFICES ASSUME TransportInv, \E then \in {"idle", "down_cancel"} : BeginStop(then) PROVE TransportInv'
  OBVIOUS
<1> USE DEF TransportInv
<1>1. /\ pc = "idle" /\ pc' = "stop_cancel" /\ s_session = "LISTEN" /\ to_cancel' = <<"recv", "apdu">>
      /\ UNCHANGED <<s_session, pool, wq, running, recv_at, handling, canceling, s_apdu_fifo>>
  BY DEF BeginStop, Goto, apiVars, bufVars, wqVars
<1>2. (UniqueWork' <=> UniqueWork) /\ Range(wq)' = Range(wq)
  BY <1>1, SameQueue
<1>3. TypeInv'
  BY <1>1, <1>2 DEF TypeInv
<1>4. Sessions' /\ Handlers' /\ Agrees'
  BY <1>1 DEF Sessions, Handlers, Agrees
<1>5. Cancels'
  BY <1>1 DEF Cancels
<1> QED BY <1>1, <1>3, <1>4, <1>5, SameOwners

\* nfc_transport_shutdown without a listen session begins when nothing is left.
LEMMA BeginDownInv ==
    ASSUME TransportInv, pc = "idle", s_session # "LISTEN", s_session' = "NONE", BeginDown, UNCHANGED <<bufVars, wqVars>>
    PROVE  TransportInv'
<1> USE DEF TransportInv
<1>1. /\ pc' = "down_cancel" /\ to_cancel' = <<"recv", "apdu">> /\ canceling = NULL
      /\ UNCHANGED <<pool, wq, running, recv_at, handling, canceling, s_apdu_fifo>>
  BY DEF BeginDown, Goto, bufVars, wqVars, Cancels
<1>2. Quiet /\ Quiet'
  BY <1>1 DEF Sessions, Quiet
<1>3. (UniqueWork' <=> UniqueWork) /\ Range(wq)' = Range(wq)
  BY <1>1, SameQueue
<1>4. TypeInv'
  BY <1>1, <1>3 DEF TypeInv
<1>5. Sessions' /\ Agrees'
  BY <1>1, <1>2 DEF Sessions, Agrees
<1>6. Cancels'
  BY <1>1 DEF Cancels
<1>7. Handlers'
  BY <1>2, NullIsNoWork DEF Handlers, Quiet, Works
<1> QED BY <1>1, <1>4, <1>5, <1>6, <1>7, SameOwners

\* A cancellation takes its item out of the queue.
LEMMA CancelBeginInv == TransportInv /\ CancelBegin => TransportInv'
<1> SUFFICES ASSUME TransportInv, CancelBegin PROVE TransportInv'
  OBVIOUS
<1> USE DEF TransportInv
<1>1. /\ pc \in {"stop_cancel", "down_cancel"} /\ canceling = NULL /\ to_cancel # <<>>
      /\ canceling' = Head(to_cancel) /\ to_cancel' = Tail(to_cancel) /\ wq' = Unqueued(Head(to_cancel))
      /\ UNCHANGED <<s_state, s_session, pool, running, recv_at, handling, s_apdu_fifo, pc, chip>>
  BY DEF CancelBegin, apiVars, bufVars
<1>2. \/ to_cancel = <<"recv", "apdu">> /\ canceling' = "recv" /\ to_cancel' = <<"apdu">>
      \/ /\ to_cancel = <<"apdu">> /\ canceling' = "apdu" /\ to_cancel' = <<>>
         /\ "recv" \notin Range(wq) /\ running # "recv"
  <2>1. Head(<<"recv", "apdu">>) = "recv" /\ Tail(<<"recv", "apdu">>) = <<"apdu">>
    OBVIOUS
  <2>2. Head(<<"apdu">>) = "apdu" /\ Tail(<<"apdu">>) = <<>>
    OBVIOUS
  <2>3. \/ to_cancel = <<"recv", "apdu">>
        \/ to_cancel = <<"apdu">> /\ "recv" \notin Range(wq) /\ running # "recv"
    BY <1>1, NullIsNoWork DEF Cancels, Works
  <2> QED BY <1>1, <2>1, <2>2, <2>3
<1>3. canceling' \in Works /\ wq' = Unqueued(canceling')
  BY <1>1, <1>2 DEF Works
<1>4. wq' \in Seq(Works) /\ UniqueWork' /\ canceling' \notin Range(wq)' /\ Range(wq)' \subseteq Range(wq)
  BY <1>3, UnqueuedFacts DEF TypeInv
<1>5. Range(wq) \subseteq Works
  BY DEF Range, TypeInv
<1>6. TypeInv'
  BY <1>1, <1>4 DEF TypeInv
<1>7. Sessions' /\ Agrees'
  <2>1. wq = <<>> => wq' = <<>>
    BY <1>4, EmptyQueue, <1>3 DEF Unqueued, Range
  <2> QED BY <1>1, <2>1 DEF Sessions, Agrees, Quiet
<1>8. Cancels'
  <2>1. canceling' = "apdu" /\ "recv" \notin Range(wq) => Range(wq)' = {}
    BY <1>4, <1>5 DEF Works
  <2> QED BY <1>1, <1>2, <1>4, <2>1 DEF Cancels
<1>9. Handlers'
  BY <1>1 DEF Handlers
<1> QED BY <1>1, <1>6, <1>7, <1>8, <1>9, SameOwners

\* A cancellation ends when its item does not run; after the second nothing runs.
LEMMA CancelEndInv == TransportInv /\ CancelEnd => TransportInv'
<1> SUFFICES ASSUME TransportInv, CancelEnd PROVE TransportInv'
  OBVIOUS
<1> USE DEF TransportInv
<1>1. /\ canceling # NULL /\ running # canceling /\ canceling' = NULL
      /\ pc' = IF to_cancel # <<>> THEN pc ELSE IF pc = "stop_cancel" THEN "stop_drain" ELSE "down_drain"
      /\ UNCHANGED <<s_state, s_session, pool, wq, running, recv_at, handling, s_apdu_fifo, to_cancel, chip>>
  BY DEF CancelEnd, Goto, apiVars, bufVars, wqVars
<1>2. /\ pc \in {"stop_cancel", "down_cancel"}
      /\ \/ to_cancel = <<"apdu">> /\ canceling = "recv" /\ "recv" \notin Range(wq)
         \/ to_cancel = <<>> /\ canceling = "apdu" /\ Range(wq) = {} /\ running # "recv"
  BY <1>1 DEF Cancels
<1>3. (UniqueWork' <=> UniqueWork) /\ Range(wq)' = Range(wq)
  BY <1>1, SameQueue
<1>4. TypeInv'
  BY <1>1, <1>2, <1>3 DEF TypeInv
<1>5. CASE to_cancel = <<"apdu">>
  <2>1. pc' = pc /\ canceling = "recv" /\ "recv" \notin Range(wq)
    BY <1>1, <1>2, <1>5
  <2>2. Sessions' /\ Agrees'
    BY <1>1, <1>2, <1>3, <2>1 DEF Sessions, Agrees, Quiet
  <2>3. Cancels'
    BY <1>1, <1>2, <1>3, <1>5, <2>1 DEF Cancels
  <2>4. Handlers'
    BY <1>1 DEF Handlers
  <2> QED BY <1>1, <1>4, <2>2, <2>3, <2>4, SameOwners
<1>6. CASE to_cancel = <<>>
  <2>1. /\ canceling = "apdu" /\ Range(wq) = {} /\ running # "recv"
        /\ pc' = IF pc = "stop_cancel" THEN "stop_drain" ELSE "down_drain"
    BY <1>1, <1>2, <1>6
  <2>2. wq = <<>>
    BY <2>1, EmptyQueue DEF TypeInv
  <2>3. running = NULL
    BY <1>1, <2>1 DEF TypeInv, Works
  <2>4. Sessions' /\ Agrees'
    BY <1>1, <1>2, <1>3, <2>1, <2>2, <2>3 DEF Sessions, Agrees, Quiet
  <2>5. Cancels' /\ Handlers'
    BY <1>1, <1>2, <2>1 DEF Cancels, Handlers
  <2> QED BY <1>1, <1>4, <2>4, <2>5, SameOwners
<1> QED BY <1>2, <1>5, <1>6

\* The rest of nfc_transport_stop and nfc_transport_shutdown: nothing runs, so the drain
\* leaves nothing.
LEMMA FinishInv == TransportInv /\ (StopFinish \/ ShutdownFinish) => TransportInv'
<1> SUFFICES ASSUME TransportInv, StopFinish \/ ShutdownFinish PROVE TransportInv'
  OBVIOUS
<1> USE DEF TransportInv
<1>1. /\ pc \in {"stop_drain", "down_drain"} /\ Drain /\ s_session' = "NONE" /\ s_state' # "STARTED"
      /\ UNCHANGED <<wq, running, recv_at, handling, canceling>>
      /\ pc' = "idle" \/ (pc' = "down_cancel" /\ to_cancel' = <<"recv", "apdu">>)
  BY DEF StopFinish, ShutdownFinish, Goto, wqVars
<1>2. wq = <<>> /\ running = NULL /\ handling = NULL /\ canceling = NULL
  BY <1>1, NullIsNoWork DEF Sessions, Quiet, Handlers, Cancels, Works
<1>3. ExactlyOneOwner' /\ s_apdu_fifo' \in Seq(Bufs) /\ pool' \subseteq Bufs
  BY <1>1, DrainOwners
<1>4. Quiet'
  BY <1>1, <1>2 DEF Quiet, Drain
<1>5. (UniqueWork' <=> UniqueWork) /\ Range(wq)' = Range(wq)
  BY <1>1, SameQueue
<1>6. TypeInv'
  BY <1>1, <1>3, <1>5 DEF TypeInv
<1>7. Sessions' /\ Agrees'
  BY <1>1, <1>4 DEF Sessions, Agrees
<1>8. Cancels'
  BY <1>1, <1>2 DEF Cancels
<1>9. Handlers'
  BY <1>4, NullIsNoWork DEF Handlers, Quiet, Works
<1> QED BY <1>3, <1>6, <1>7, <1>8, <1>9

\* Stuttering.
LEMMA StutterInv == TransportInv /\ UNCHANGED vars => TransportInv'
<1> SUFFICES ASSUME TransportInv, UNCHANGED vars PROVE TransportInv'
  OBVIOUS
<1> USE DEF TransportInv
<1>1. UNCHANGED <<s_state, s_session, s_apdu_fifo, pool, wq, running, recv_at, handling, pc, to_cancel, canceling, chip>>
  BY DEF vars, apiVars, bufVars, wqVars, thrVars
<1>2. (UniqueWork' <=> UniqueWork) /\ Range(wq)' = Range(wq)
  BY <1>1, SameQueue
<1>3. TypeInv' /\ Sessions' /\ Cancels' /\ Handlers' /\ Agrees'
  BY <1>1, <1>2 DEF TypeInv, Sessions, Cancels, Handlers, Agrees, Quiet
<1> QED BY <1>1, <1>3, SameOwners

\* nfc_transport_shutdown, from any session.
LEMMA ShutdownInv == TransportInv /\ Shutdown => TransportInv'
<1> SUFFICES ASSUME TransportInv, Shutdown PROVE TransportInv'
  OBVIOUS
<1>1. CASE BeginStop("down_cancel")
  BY <1>1, BeginStopInv
<1>2. CASE pc = "idle" /\ s_session = "POLL" /\ EndPoll /\ BeginDown
  <2>1. s_session # "LISTEN" /\ s_session' = "NONE" /\ UNCHANGED <<bufVars, wqVars>>
    BY <1>2 DEF EndPoll
  <2> QED BY <1>2, <2>1, BeginDownInv
<1>3. CASE pc = "idle" /\ s_session = "NONE" /\ BeginDown /\ UNCHANGED <<apiVars, bufVars, wqVars>>
  <2>1. s_session # "LISTEN" /\ s_session' = "NONE" /\ UNCHANGED <<bufVars, wqVars>>
    BY <1>3 DEF apiVars
  <2> QED BY <1>3, <2>1, BeginDownInv
<1> QED BY <1>1, <1>2, <1>3 DEF Shutdown

\* The invariant holds in every reachable state.
LEMMA TransportSafe == Spec => []TransportInv
<1>1. TransportInv /\ [Next]_vars => TransportInv'
  <2> SUFFICES ASSUME TransportInv, [Next]_vars PROVE TransportInv'
    OBVIOUS
  <2>1. CASE WqThread
    BY <2>1, TakeInv, LoopInv, FrameInv, ApduInv DEF WqThread
  <2>2. CASE ApiCall
    BY <2>2, InitCallInv, OtherCallInv, StartInv, BeginStopInv, ShutdownInv DEF ApiCall, Stop
  <2>3. CASE MainStep
    BY <2>3, StartSessionInv, CancelBeginInv, CancelEndInv, FinishInv DEF MainStep
  <2>4. CASE UNCHANGED vars
    BY <2>4, StutterInv
  <2> QED BY <2>1, <2>2, <2>3, <2>4 DEF Next
<1> QED BY InitInv, <1>1, PTL DEF Spec

\* For any buffers, frames and failures every buffer has exactly one owner.
THEOREM Pn7160Safety == Spec => []ExactlyOneOwner
<1>1. TransportInv => ExactlyOneOwner
  BY DEF TransportInv
<1> QED BY TransportSafe, <1>1, PTL

\* Between calls state, session, controller and what is queued agree: a session that is
\* over (nfc_transport_stop, nfc_transport_shutdown) leaves no work item and no C-APDU.
THEOREM SessionSafety == Spec => []SessionAgrees
<1>1. TransportInv => SessionAgrees
  BY DEF TransportInv, Sessions, Agrees, Quiet, SessionAgrees
<1> QED BY TransportSafe, <1>1, PTL

-----------------------------------------------------------------------------
(* The receive loop of a listen session                                     *)

\* What is queued stays queued, but for the item that the queue thread takes.
LEMMA TakeKeeps ==
    ASSUME wq \in Seq(Works), wq # <<>>, wq' = Tail(wq), NEW w \in Range(wq)
    PROVE  w = Head(wq) \/ w \in Range(wq)'
<1>1. PICK i \in DOMAIN wq : wq[i] = w
  BY DEF Range
<1>2. Len(wq) \in Nat \ {0} /\ i \in 1..Len(wq) /\ DOMAIN wq' = 1..(Len(wq) - 1)
  BY <1>1
<1>3. CASE i = 1
  BY <1>1, <1>3
<1>4. CASE i # 1
  <2>1. i - 1 \in DOMAIN wq' /\ wq'[i - 1] = w
    BY <1>1, <1>2, <1>4
  <2> QED BY <2>1 DEF Range
<1> QED BY <1>3, <1>4

\* A submission loses nothing, and what is not being cancelled is queued after it.
LEMMA SubmitKeeps ==
    ASSUME wq \in Seq(Works), NEW w \in Works, Submit(w)
    PROVE  Range(wq) \subseteq Range(wq)' /\ (w # canceling => w \in Range(wq)')
<1>1. CASE w \in Range(wq) \/ w = canceling
  <2>1. wq' = wq
    BY <1>1 DEF Submit
  <2> QED BY <1>1, <2>1 DEF Range
<1>2. CASE ~(w \in Range(wq) \/ w = canceling)
  <2>1. wq' = Append(wq, w)
    BY <1>2 DEF Submit
  <2>2. DOMAIN wq' = 1..(Len(wq) + 1) /\ DOMAIN wq = 1..Len(wq) /\ Len(wq) \in Nat
    BY <2>1
  <2>3. wq'[Len(wq) + 1] = w /\ \A i \in DOMAIN wq : wq'[i] = wq[i]
    BY <2>1, <2>2
  <2> QED BY <2>2, <2>3 DEF Range
<1> QED BY <1>1, <1>2

\* From the submission of the receive item to the stop, the item is there or has given up,
\* and nobody has told it to end.
Receiving ==
    pc = "start_session" \/ (pc = "idle" /\ s_session = "LISTEN") =>
        ~s_listen_recv_stop /\ (recv_failed \/ running = "recv" \/ "recv" \in Range(wq))

\* The queue thread: only the receive item itself ends the receive loop.
LEMMA WqReceives == TransportInv /\ Receiving /\ WqThread => Receiving'
<1> SUFFICES ASSUME TransportInv, Receiving, WqThread PROVE Receiving'
  OBVIOUS
<1>1. UNCHANGED <<pc, s_session, s_listen_recv_stop>>
  BY DEF WqThread, WqTake, RecvCheck, RecvTimeout, RecvError, RecvFrame, ApduWork, ApduUnref, apiVars, thrVars
<1>2. wq \in Seq(Works) /\ "apdu" \in Works
  BY DEF TransportInv, TypeInv, Works
<1>3. CASE WqTake
  <2>1. wq # <<>> /\ wq' = Tail(wq) /\ running = NULL /\ running' = Head(wq) /\ UNCHANGED recv_failed
    BY <1>3 DEF WqTake
  <2>2. running # "recv"
    BY <2>1, NullIsNoWork DEF Works
  <2>3. "recv" \in Range(wq) => running' = "recv" \/ "recv" \in Range(wq)'
    BY <1>2, <2>1, TakeKeeps
  <2> QED BY <1>1, <2>1, <2>2, <2>3 DEF Receiving
<1>4. CASE RecvFrame
  <2>1. UNCHANGED <<running, recv_failed>> /\ (UNCHANGED wq \/ Submit("apdu"))
    BY <1>4 DEF RecvFrame
  <2>2. Range(wq) \subseteq Range(wq)'
    BY <1>2, <2>1, SubmitKeeps, SameQueue
  <2> QED BY <1>1, <2>1, <2>2 DEF Receiving
<1>5. CASE RecvCheck \/ RecvTimeout \/ RecvError \/ ApduWork \/ ApduUnref
  <2>1. Range(wq)' = Range(wq)
    BY <1>5, SameQueue DEF RecvCheck, RecvTimeout, RecvError, ApduWork, ApduUnref
  <2>2. CASE RecvCheck
    <3>1. CASE ~s_listen_recv_stop /\ s_session = "LISTEN"
      BY <1>1, <2>1, <2>2, <3>1 DEF RecvCheck, Receiving
    <3>2. CASE ~(~s_listen_recv_stop /\ s_session = "LISTEN")
      <4>1. recv_failed' = (recv_failed \/ pc = "start_session")
        BY <2>2, <3>2 DEF RecvCheck
      <4>2. pc = "start_session" => recv_failed'
        BY <4>1
      <4>3. ~(pc = "idle" /\ s_session = "LISTEN")
        BY <3>2 DEF Receiving
      <4> QED BY <1>1, <4>2, <4>3 DEF Receiving
    <3> QED BY <3>1, <3>2
  <2>3. CASE RecvError
    BY <1>1, <2>1, <2>3 DEF RecvError, Receiving
  <2>4. CASE RecvTimeout \/ ApduWork \/ ApduUnref
    <3>1. UNCHANGED recv_failed /\ (running = "recv" => running' = "recv")
      BY <2>4 DEF RecvTimeout, ApduWork, ApduUnref
    <3> QED BY <1>1, <2>1, <3>1 DEF Receiving
  <2> QED BY <1>5, <2>2, <2>3, <2>4
<1> QED BY <1>3, <1>4, <1>5 DEF WqThread

\* The API: only nfc_transport_start begins a listen session, and it queues the item.
LEMMA ApiReceives == TransportInv /\ Receiving /\ (ApiCall \/ MainStep \/ UNCHANGED vars) => Receiving'
<1> SUFFICES ASSUME TransportInv, Receiving, ApiCall \/ MainStep \/ UNCHANGED vars PROVE Receiving'
  OBVIOUS
<1>1. CASE Start
  <2>1. pc = "idle" /\ s_session = "NONE" /\ UNCHANGED <<s_session, running>>
    BY <1>1 DEF Start, MayBegin, apiVars
  <2>2. CASE pc' = "start_session"
    <3>1. s_listen_recv_stop' = FALSE /\ Submit("recv")
      BY <1>1, <2>1, <2>2 DEF Start, Goto
    <3>2. canceling # "recv"
      BY <2>1, NullIsNoWork DEF TransportInv, Cancels, Works
    <3>3. "recv" \in Range(wq)'
      BY <3>1, <3>2, SubmitKeeps DEF TransportInv, TypeInv, Works
    <3> QED BY <3>1, <3>3 DEF Receiving
  <2>3. CASE pc' # "start_session"
    BY <2>1, <2>3 DEF Receiving
  <2> QED BY <2>2, <2>3
<1>2. CASE StartSession \/ (\E r \in BOOLEAN : RegisterCallbacks(r)) \/ UNCHANGED vars
  <2>1. UNCHANGED <<s_listen_recv_stop, recv_failed, running, wq>>
    BY <1>2 DEF StartSession, RegisterCallbacks, vars, wqVars
  <2>2. Range(wq)' = Range(wq)
    BY <2>1, SameQueue
  <2>3. pc' = "start_session" \/ (pc' = "idle" /\ s_session' = "LISTEN") =>
        pc = "start_session" \/ (pc = "idle" /\ s_session = "LISTEN")
    BY <1>2 DEF StartSession, RegisterCallbacks, vars, apiVars, thrVars
  <2> QED BY <2>1, <2>2, <2>3 DEF Receiving
<1>3. CASE TransportInit
  <2>1. pc = "idle" /\ pc' = "idle" /\ s_session' # "LISTEN"
    BY <1>3 DEF TransportInit, thrVars, TransportInv, Agrees
  <2> QED BY <2>1 DEF Receiving
<1>4. CASE DiscoverStart \/ DiscoverStop
  <2>1. pc' = "idle" /\ s_session' # "LISTEN"
    BY <1>4 DEF DiscoverStart, DiscoverStop, MayBegin, EndPoll, thrVars
  <2> QED BY <2>1 DEF Receiving
<1>5. CASE Stop \/ Shutdown
  <2>1. pc' \in {"stop_cancel", "down_cancel"}
    BY <1>5 DEF Stop, Shutdown, BeginStop, BeginDown, Goto
  <2> QED BY <2>1 DEF Receiving
<1>6. CASE CancelBegin
  <2>1. pc' \in {"stop_cancel", "down_cancel"}
    BY <1>6 DEF CancelBegin
  <2> QED BY <2>1 DEF Receiving
<1>7. CASE CancelEnd
  <2>1. pc' \in {"stop_cancel", "down_cancel", "stop_drain", "down_drain"}
    BY <1>7 DEF CancelEnd, Goto, TransportInv, Cancels
  <2> QED BY <2>1 DEF Receiving
<1>8. CASE StopFinish \/ ShutdownFinish
  <2>1. pc' # "start_session" /\ s_session' = "NONE"
    BY <1>8 DEF StopFinish, ShutdownFinish, Goto
  <2> QED BY <2>1 DEF Receiving
<1> QED BY <1>1, <1>2, <1>3, <1>4, <1>5, <1>6, <1>7, <1>8 DEF ApiCall, MainStep

\* For any frames and failures, a listen session has its receive loop, queued or running,
\* unless the loop gave up; a time-out or a frame never ends it.
THEOREM ReceiveSafety == Spec => []ListenReceives
<1>1. Init => Receiving
  BY DEF Init, Receiving
<1>2. TransportInv /\ Receiving /\ [Next]_vars => Receiving'
  BY WqReceives, ApiReceives DEF Next
<1>3. Receiving => ListenReceives
  BY DEF Receiving, ListenReceives
<1> QED BY TransportSafe, <1>1, <1>2, <1>3, PTL DEF Spec

-----------------------------------------------------------------------------
(* Types                                                                    *)

\* The types that TypeInv and Cancels leave out
RestInv ==
    /\ {s_dev, s_ops_registered, s_listen_recv_stop, recv_failed} \subseteq BOOLEAN
    /\ s_state \in {"UNINITIALIZED", "INITIALIZED", "STARTED", "STOPPED"}
    /\ recv_at \in {"check", "recv"}
    /\ to_cancel \in Seq(Works) /\ canceling \in Works \cup {NULL} /\ after_stop \in {"idle", "down_cancel"}
    /\ chip \in {"down", "idle", "polling", "listening"} /\ frames \in 0..MaxFrames

\* Every step keeps them.
LEMMA RestStep == RestInv /\ [Next]_vars => RestInv'
<1> SUFFICES ASSUME RestInv, [Next]_vars PROVE RestInv'
  OBVIOUS
<1> DEFINE calls == <<s_dev, s_ops_registered, s_listen_recv_stop, s_state>>
           places == <<to_cancel, canceling, after_stop>>
<1>0. <<"recv", "apdu">> \in Seq(Works) /\ "recv" \in Works /\ "apdu" \in Works
  BY DEF Works
<1>1. CASE WqThread
  <2>1. UNCHANGED <<calls, places, chip>>
    BY <1>1 DEF WqThread, WqTake, RecvCheck, RecvTimeout, RecvError, RecvFrame, ApduWork, ApduUnref, apiVars, thrVars
  <2>2. recv_failed' \in BOOLEAN
    BY <1>1 DEF RestInv, WqThread, WqTake, RecvCheck, RecvTimeout, RecvError, RecvFrame, ApduWork, ApduUnref
  <2>3. recv_at' \in {"check", "recv"}
    BY <1>1 DEF RestInv, WqThread, WqTake, RecvCheck, RecvTimeout, RecvError, RecvFrame, ApduWork, ApduUnref
  <2>4. frames' \in 0..MaxFrames
    BY <1>1, Pn7160Assumption
       DEF RestInv, WqThread, WqTake, RecvCheck, RecvTimeout, RecvError, RecvFrame, ApduWork, ApduUnref
  <2> QED BY <2>1, <2>2, <2>3, <2>4 DEF RestInv
<1>2. CASE ApiCall
  <2>1. UNCHANGED <<recv_at, frames>>
    BY <1>2 DEF ApiCall, TransportInit, RegisterCallbacks, DiscoverStart, DiscoverStop, EndPoll, Start, Stop, Shutdown,
                BeginStop, BeginDown, wqVars
  <2>2. CASE TransportInit \/ DiscoverStart \/ DiscoverStop \/ Start \/ \E r \in BOOLEAN : RegisterCallbacks(r)
    <3>1. UNCHANGED places
      BY <2>2 DEF TransportInit, RegisterCallbacks, DiscoverStart, DiscoverStop, EndPoll, Start, thrVars
    <3>2. {s_dev', s_ops_registered', s_listen_recv_stop', recv_failed'} \subseteq BOOLEAN
      BY <2>2 DEF TransportInit, RegisterCallbacks, DiscoverStart, DiscoverStop, EndPoll, Start, RestInv, apiVars
    <3>3. s_state' \in {"UNINITIALIZED", "INITIALIZED", "STARTED", "STOPPED"}
          /\ chip' \in {"down", "idle", "polling", "listening"}
      BY <2>2 DEF TransportInit, RegisterCallbacks, DiscoverStart, DiscoverStop, EndPoll, Start, RestInv, apiVars
    <3> QED BY <2>1, <3>1, <3>2, <3>3 DEF RestInv
  <2>3. CASE Stop \/ Shutdown
    <3>1. to_cancel' = <<"recv", "apdu">> /\ UNCHANGED <<s_dev, s_ops_registered, recv_failed, canceling>>
      BY <2>3 DEF Stop, Shutdown, BeginStop, BeginDown, EndPoll, apiVars
    <3>2. s_listen_recv_stop' \in BOOLEAN /\ after_stop' \in {"idle", "down_cancel"}
      BY <2>3 DEF Stop, Shutdown, BeginStop, BeginDown, RestInv
    <3>3. s_state' \in {s_state, "STOPPED"} /\ chip' \in {chip, "idle"}
      BY <2>3 DEF Stop, Shutdown, BeginStop, BeginDown, EndPoll, apiVars
    <3> QED BY <1>0, <2>1, <3>1, <3>2, <3>3 DEF RestInv
  <2> QED BY <1>2, <2>2, <2>3 DEF ApiCall
<1>3. CASE MainStep
  <2>1. UNCHANGED <<recv_at, recv_failed, frames>>
    BY <1>3 DEF MainStep, StartSession, CancelBegin, CancelEnd, StopFinish, ShutdownFinish, wqVars
  <2>2. {s_dev', s_ops_registered', s_listen_recv_stop'} \subseteq BOOLEAN
    BY <1>3 DEF MainStep, StartSession, CancelBegin, CancelEnd, StopFinish, ShutdownFinish, RestInv, apiVars
  <2>3. /\ s_state' \in {s_state, "STARTED", "STOPPED", "UNINITIALIZED"} /\ chip' \in {chip, "idle"}
        /\ after_stop' \in {after_stop, "idle"}
    BY <1>3 DEF MainStep, StartSession, CancelBegin, CancelEnd, StopFinish, ShutdownFinish, apiVars
  <2>4. to_cancel' \in Seq(Works) /\ canceling' \in Works \cup {NULL}
    <3>1. CASE CancelBegin
      <4>1. to_cancel \in Seq(Works) /\ to_cancel # <<>>
        BY <3>1 DEF CancelBegin, RestInv
      <4>2. Head(to_cancel) \in Works /\ Tail(to_cancel) \in Seq(Works)
        BY <4>1
      <4> QED BY <3>1, <4>2 DEF CancelBegin
    <3>2. CASE StartSession \/ CancelEnd \/ ShutdownFinish
      BY <3>2 DEF StartSession, CancelEnd, ShutdownFinish, RestInv
    <3>3. CASE StopFinish
      BY <1>0, <3>3 DEF StopFinish, RestInv
    <3> QED BY <1>3, <3>1, <3>2, <3>3 DEF MainStep
  <2> QED BY <2>1, <2>2, <2>3, <2>4 DEF RestInv
<1>4. CASE UNCHANGED vars
  BY <1>4 DEF vars, apiVars, thrVars, wqVars, RestInv
<1> QED BY <1>1, <1>2, <1>3, <1>4 DEF Next

\* Every variable keeps its type.
THEOREM TypeSafety == Spec => []TypeOK
<1>1. Init => RestInv
  <2> SUFFICES ASSUME Init PROVE RestInv
    OBVIOUS
  <2>1. {s_dev, s_ops_registered, s_listen_recv_stop, recv_failed} \subseteq BOOLEAN
    BY DEF Init
  <2>2. 0 \in 0..MaxFrames
    BY Pn7160Assumption
  <2>3. to_cancel \in Seq(Works)
    BY DEF Init
  <2> QED BY <2>1, <2>2, <2>3 DEF Init, RestInv
<1>2. TransportInv /\ RestInv => TypeOK
  <2> SUFFICES ASSUME TransportInv, RestInv PROVE TypeOK
    OBVIOUS
  <2>1. s_dev \in BOOLEAN /\ s_ops_registered \in BOOLEAN /\ s_listen_recv_stop \in BOOLEAN /\ recv_failed \in BOOLEAN
    BY DEF RestInv
  <2> QED BY <2>1 DEF TransportInv, TypeInv, RestInv, TypeOK
<1> QED BY TransportSafe, RestStep, <1>1, <1>2, PTL DEF Spec
=============================================================================
