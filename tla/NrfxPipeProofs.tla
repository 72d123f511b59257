---------------------------- MODULE NrfxPipeProofs ----------------------------
(***************************************************************************)
(* Proof that NfcTransportNrfx implements ApduPipe, step by step, under    *)
(* the invariant of NfcTransportNrfxProofs: what holds of the pipe holds of the   *)
(* nRF backend, for every pool, every reader and every bound.              *)
(***************************************************************************)
EXTENDS NrfxPipe, NfcTransportNrfxProofs

\* Most leaves are first-order: Zenon first, the SMT solver for the others.
USE ZenonT(3), SMTT(30)

PipeStep == Pipe!PipeNext \/ UNCHANGED Pipe!pipeVars

-----------------------------------------------------------------------------
(* What the steps of the transport look like through the mapping            *)

\* A step that changes nothing the pipe shows.
LEMMA PipeSame ==
    ASSUME UNCHANGED <<PipeFifo, wq, PipeRunning, canceling, PipeCurrent, s_ops_registered, ReaderSeen(rdr)>>
    PROVE  PipeStep
BY DEF PipeStep, Pipe!pipeVars

\* k_work_submit_to_queue
LEMMA SubmitIsEnqueue ==
    ASSUME NEW w PROVE Submit(w) => Pipe!Enqueue(w)
BY DEF Submit, Pipe!Enqueue, Pipe!Queued, Range

\* A buffer that is held stands for a C-APDU.
LEMMA HeldIsApdu ==
    ASSUME OwnInv, NEW b \in Held
    PROVE  /\ CApduIn(b) # NULL
           /\ CApduIn(b).ser = data[b].frags[1].ser /\ CApduIn(b).sess = data[b].frags[1].sess
<1>1. data[b] \in Contents /\ data[b].frags # <<>>
  BY HeldType DEF OwnInv, BufType, Filled
<1>2. data[b].frags \in Seq(Fragments)
  BY <1>1 DEF Contents
<1>3. data[b].frags[1] \in Fragments
  BY <1>1, <1>2
<1>4. data[b].frags[1].ser \in 0..MaxSerial /\ data[b].frags[1].sess \in 0..MaxSess
  BY <1>3 DEF Fragments
<1> QED BY <1>4, NullAssumption DEF CApduIn

\* The C-APDUs of the pipe stay when the buffers that hold them do.
LEMMA ApdusKept ==
    ASSUME OwnInv, UNCHANGED <<s_apdu_fifo, handling>>, \A b \in Held : data'[b] = data[b]
    PROVE  UNCHANGED <<PipeFifo, PipeCurrent>>
<1>1. \A i \in DOMAIN s_apdu_fifo : CApduIn(s_apdu_fifo[i])' = CApduIn(s_apdu_fifo[i])
  BY DEF Held, Range, CApduIn
<1>2. handling # NULL => CApduIn(handling)' = CApduIn(handling)
  BY DEF Held, CApduIn
<1> QED BY <1>1, <1>2 DEF PipeFifo, PipeCurrent

\* discard_cur_buf takes a buffer nobody else holds.
LEMMA DiscardKeeps ==
    ASSUME OwnInv, DiscardCurBuf, UNCHANGED handling
    PROVE  UNCHANGED <<PipeFifo, PipeCurrent>>
<1>1. \A b \in Held : b # s_cur_buf \/ s_cur_buf = NULL
  BY DEF OwnInv, OneOwner, Held
<1>2. Held \subseteq Bufs /\ NULL \notin Held
  BY HeldType, BufsAssumption
<1>3. \A b \in Held : data'[b] = data[b]
  BY <1>1, <1>2 DEF DiscardCurBuf, Unref
<1> QED BY <1>3, ApdusKept DEF DiscardCurBuf

\* The oldest C-APDU leaves the fifo.
LEMMA FifoTail ==
    ASSUME OwnInv, s_apdu_fifo # <<>>, s_apdu_fifo' = Tail(s_apdu_fifo),
           \A b \in Bufs \ {Head(s_apdu_fifo)} : data'[b] = data[b]
    PROVE  PipeFifo # <<>> /\ PipeFifo' = Tail(PipeFifo) /\ Head(PipeFifo) = CApduIn(Head(s_apdu_fifo))
<1> DEFINE q == s_apdu_fifo
           p == PipeFifo
           T == Range(p)
<1>1. q \in Seq(Bufs) /\ Injective(q) /\ Len(q) \in Nat \ {0} /\ DOMAIN q = 1..Len(q) /\ Head(q) = q[1]
  BY DEF OwnInv, BufType, OneOwner, Injective
<1>2. p = [i \in 1..Len(q) |-> CApduIn(q[i])]
  BY <1>1 DEF PipeFifo
<1>3. p \in Seq(T) /\ Len(p) = Len(q)
  BY <1>1, <1>2 DEF Range
<1>4. p # <<>> /\ Head(p) = CApduIn(q[1])
  BY <1>1, <1>2, <1>3
<1>5. Len(q') = Len(q) - 1 /\ DOMAIN q' = 1..(Len(q) - 1) /\ \A i \in 1..(Len(q) - 1) : q'[i] = q[i + 1]
  BY <1>1
<1>6. \A i \in 1..(Len(q) - 1) : i + 1 \in DOMAIN q /\ q[i + 1] \in Bufs \ {Head(q)}
  BY <1>1 DEF Injective
<1>7. \A i \in 1..(Len(q) - 1) : CApduIn(q[i])' = CApduIn(q[i + 1])
  BY <1>5, <1>6 DEF CApduIn
<1>8. p' = [i \in 1..(Len(q) - 1) |-> CApduIn(q[i + 1])]
  BY <1>5, <1>7 DEF PipeFifo
<1>9. Tail(p) = [i \in 1..(Len(q) - 1) |-> p[i + 1]]
  <2> HIDE DEF p, q, T
  <2>1. Tail(p) \in Seq(T) /\ DOMAIN Tail(p) = 1..(Len(q) - 1) /\ Len(Tail(p)) = Len(q) - 1
    BY <1>1, <1>3, <1>4
  <2>2. \A i \in 1..(Len(q) - 1) : Tail(p)[i] = p[i + 1]
    BY <1>1, <1>3, <1>4
  <2>3. Tail(p) \in [1..(Len(q) - 1) -> T]
    BY <2>1, SeqIsFunction, Zenon
  <2> QED BY <2>1, <2>2, <2>3, Zenon
<1>10. \A i \in 1..(Len(q) - 1) : p[i + 1] = CApduIn(q[i + 1])
  BY <1>1, <1>2
<1> QED BY <1>1, <1>4, <1>8, <1>9, <1>10

\* A C-APDU joins the fifo.
LEMMA FifoAppend ==
    ASSUME OwnInv, NEW b \in Bufs, b \notin Held, s_apdu_fifo' = Append(s_apdu_fifo, b),
           \A c \in Bufs \ {b} : data'[c] = data[c]
    PROVE  PipeFifo' = Append(PipeFifo, CApduIn(b)')
<1> DEFINE q == s_apdu_fifo
           p == PipeFifo
           x == CApduIn(b)'
           T == Range(p) \cup {x}
<1>1. q \in Seq(Bufs) /\ Len(q) \in Nat /\ DOMAIN q = 1..Len(q)
  BY DEF OwnInv, BufType
<1>2. p = [i \in 1..Len(q) |-> CApduIn(q[i])]
  BY <1>1 DEF PipeFifo
<1>3. p \in Seq(T) /\ Len(p) = Len(q)
  BY <1>1, <1>2 DEF Range
<1>4. /\ DOMAIN q' = 1..(Len(q) + 1) /\ q'[Len(q) + 1] = b
      /\ \A i \in 1..Len(q) : q'[i] = q[i] /\ q[i] \in Bufs \ {b}
  <2>1. \A i \in 1..Len(q) : q[i] \in Bufs /\ q[i] # b
    BY <1>1 DEF Held, Range
  <2> QED BY <1>1, <2>1
<1>5. \A i \in 1..(Len(q) + 1) : CApduIn(q[i])' = IF i \in 1..Len(q) THEN CApduIn(q[i]) ELSE x
  <2>1. \A i \in 1..(Len(q) + 1) : i \in 1..Len(q) \/ i = Len(q) + 1
    BY <1>1
  <2> QED BY <1>4, <2>1 DEF CApduIn
<1>6. p' = [i \in 1..(Len(q) + 1) |-> CApduIn(q[i])']
  BY <1>4 DEF PipeFifo
<1>7. /\ Append(p, x) \in [1..(Len(q) + 1) -> T] /\ Append(p, x)[Len(q) + 1] = x
      /\ \A i \in 1..Len(q) : Append(p, x)[i] = p[i]
  <2> HIDE DEF p, q, x
  <2>0. x \in T
    OBVIOUS
  <2> HIDE DEF T
  <2>1. Append(p, x) \in Seq(T) /\ Len(Append(p, x)) = Len(q) + 1
    BY <1>3, <2>0
  <2>2. Append(p, x) \in [1..(Len(q) + 1) -> T]
    BY <2>1, SeqIsFunction, Zenon
  <2>3. Append(p, x)[Len(q) + 1] = x /\ \A i \in 1..Len(q) : Append(p, x)[i] = p[i]
    BY <1>1, <1>3, <2>0
  <2> QED BY <2>2, <2>3
<1>8. \A i \in 1..(Len(q) + 1) : Append(p, x)[i] = CApduIn(q[i])'
  <2>1. \A i \in 1..(Len(q) + 1) : i \in 1..Len(q) \/ (i = Len(q) + 1 /\ i \notin 1..Len(q))
    BY <1>1
  <2> QED BY <1>2, <1>5, <1>7, <2>1
<1> QED BY <1>6, <1>7, <1>8, Zenon

-----------------------------------------------------------------------------
(* The reader                                                               *)

PipeReaders == [field : BOOLEAN, sess : Nat, ser : Nat, sending : BOOLEAN, waiting : BOOLEAN]

\* Two readers of the pipe that agree in every field are the same.
LEMMA ReaderEqual ==
    ASSUME NEW r \in PipeReaders, NEW t \in PipeReaders, t.field = r.field, t.sess = r.sess, t.ser = r.ser,
           t.sending = r.sending, t.waiting = r.waiting
    PROVE  t = r
BY DEF PipeReaders

\* A reader as the pipe shows it.
LEMMA ReaderShown ==
    ASSUME NEW r \in Readers
    PROVE  /\ r.sess \in Nat /\ r.ser \in Nat /\ r.idx \in Nat
           /\ ReaderSeen(r) \in PipeReaders
           /\ ReaderSeen(r).field = r.field /\ ReaderSeen(r).sess = r.sess /\ ReaderSeen(r).ser = r.ser
           /\ ReaderSeen(r).waiting = r.waiting
           /\ r.idx = 0 => ReaderSeen(r).sending = FALSE
           /\ r.idx # 0 => ReaderSeen(r).sending = TRUE
<1>1. r.sess \in Nat /\ r.ser \in Nat /\ r.idx \in Nat
  BY BoundsAssumption DEF Readers
<1>2. r.field \in BOOLEAN /\ r.waiting \in BOOLEAN
  BY DEF Readers
<1>3. ReaderSeen(r) \in PipeReaders
  BY <1>1, <1>2 DEF ReaderSeen, PipeReaders
<1>4. ReaderSeen(r).sending \in BOOLEAN
  BY <1>3 DEF PipeReaders
<1>5. ASSUME r.idx = 0 PROVE ReaderSeen(r).sending = FALSE
  <2>1. ~(r.idx > 0)
    BY <1>1, <1>5
  <2>2. ~ReaderSeen(r).sending
    BY <2>1, Zenon DEF ReaderSeen
  <2> QED BY <1>4, <2>2
<1>6. ASSUME r.idx # 0 PROVE ReaderSeen(r).sending = TRUE
  <2>1. r.idx > 0
    BY <1>1, <1>6
  <2>2. ReaderSeen(r).sending
    BY <2>1, Zenon DEF ReaderSeen
  <2> QED BY <1>4, <2>2
<1>7. /\ ReaderSeen(r).field = r.field /\ ReaderSeen(r).sess = r.sess /\ ReaderSeen(r).ser = r.ser
      /\ ReaderSeen(r).waiting = r.waiting
  BY DEF ReaderSeen
<1> QED BY <1>1, <1>3, <1>5, <1>6, <1>7, Zenon

\* A reader of the pipe that has gone.
LEMMA GoneShown ==
    ASSUME NEW r \in PipeReaders
    PROVE  /\ Pipe!Gone(r) \in PipeReaders /\ Pipe!Gone(r).sess = r.sess /\ Pipe!Gone(r).ser = r.ser
           /\ Pipe!Gone(r).field = FALSE /\ Pipe!Gone(r).sending = FALSE /\ Pipe!Gone(r).waiting = FALSE
BY Zenon DEF PipeReaders, Pipe!Gone

\* The reader leaves, as a field-off, a stop of the emulation and nfc_t4t_done have it.
LEMMA ReaderGone ==
    ASSUME NEW r \in Readers
    PROVE  ReaderSeen(QuietReader(r.sess, r.ser)) = Pipe!Gone(ReaderSeen(r))
<1> DEFINE q == QuietReader(r.sess, r.ser)
<1>1. q \in Readers /\ q.field = FALSE /\ q.sess = r.sess /\ q.ser = r.ser /\ q.idx = 0 /\ q.waiting = FALSE
  BY BoundsAssumption DEF QuietReader, Readers
<1> HIDE DEF q
<1> DEFINE t == ReaderSeen(q)
           g == Pipe!Gone(ReaderSeen(r))
<1>2. t \in PipeReaders /\ t.field = FALSE /\ t.sess = r.sess /\ t.ser = r.ser /\ t.sending = FALSE /\ t.waiting = FALSE
  BY <1>1, ReaderShown, Zenon
<1>3. g \in PipeReaders /\ g.field = FALSE /\ g.sess = r.sess /\ g.ser = r.ser /\ g.sending = FALSE /\ g.waiting = FALSE
  BY ReaderShown, GoneShown, Zenon
<1> HIDE DEF t, g
<1>4. t = g
  BY <1>2, <1>3, ReaderEqual, Zenon
<1> QED BY <1>4 DEF q, t, g

\* The serial number of the reader's next C-APDU.
LEMMA NextShown ==
    ASSUME rdr \in Readers, NEW last
    PROVE  NextFragment(last).ser = Pipe!SerialOfNext /\ Pipe!SerialOfNext \in Nat
<1>1. rdr.idx = 0 => Pipe!SerialOfNext = rdr.ser + 1
  BY ReaderShown, Zenon DEF Pipe!SerialOfNext
<1>2. rdr.idx # 0 => Pipe!SerialOfNext = rdr.ser
  BY ReaderShown, Zenon DEF Pipe!SerialOfNext
<1>3. NextFragment(last).ser = IF rdr.idx = 0 THEN rdr.ser + 1 ELSE rdr.ser
  BY DEF NextFragment
<1>4. rdr.ser \in Nat
  BY ReaderShown, Zenon
<1> QED BY <1>1, <1>2, <1>3, <1>4

\* Field on and field off.
LEMMA FieldIsPipe ==
    ASSUME QuietInv, FieldOn \/ FieldOff PROVE PipeStep
<1>1. rdr \in Readers /\ OwnInv
  BY DEF QuietInv, OwnerInv, CtlType
<1>2. UNCHANGED <<PipeFifo, PipeCurrent>>
  BY <1>1, DiscardKeeps DEF FieldOn, FieldOff
<1>3. UNCHANGED <<PipeRunning, canceling, s_ops_registered>>
  BY DEF FieldOn, FieldOff, PipeRunning, thrVars, apiVars
<1>4. CASE FieldOn
  <2> DEFINE gone == Pipe!Gone(ReaderSeen(rdr))
             on == [gone EXCEPT !.field = TRUE, !.sess = @ + 1]
  <2>1. gone \in PipeReaders /\ gone.sess = rdr.sess /\ gone.ser = rdr.ser /\ gone.sending = FALSE /\ gone.waiting = FALSE
    BY <1>1, ReaderShown, GoneShown, ZenonT(60)
  <2>2. /\ on \in PipeReaders /\ on.field = TRUE /\ on.sess = rdr.sess + 1 /\ on.ser = rdr.ser
        /\ on.sending = FALSE /\ on.waiting = FALSE
    <3> HIDE DEF gone
    <3>1. on = [gone EXCEPT !.field = TRUE, !.sess = gone.sess + 1] /\ gone.sess + 1 \in Nat
      BY <2>1 DEF PipeReaders
    <3> QED BY <2>1, <3>1, Zenon DEF PipeReaders
  <2>3. /\ rdr' \in Readers /\ rdr'.field = TRUE /\ rdr'.sess = rdr.sess + 1 /\ rdr'.ser = rdr.ser
        /\ rdr'.idx = 0 /\ rdr'.waiting = FALSE
    <3>1. rdr.sess + 1 \in 0..MaxSess
      BY <1>1, <1>4, BoundsAssumption DEF FieldOn, Readers
    <3>2. rdr' = [field |-> TRUE, sess |-> rdr.sess + 1, ser |-> rdr.ser, idx |-> 0, waiting |-> FALSE]
      BY <1>4, Zenon DEF FieldOn, QuietReader
    <3>3. rdr.ser \in 0..MaxSerial /\ 0 \in 0..MaxFrags
      BY <1>1, BoundsAssumption DEF Readers
    <3> QED BY <3>1, <3>2, <3>3 DEF Readers
  <2>4. ReaderSeen(rdr)' = on
    <3> HIDE DEF on
    <3> DEFINE t == ReaderSeen(rdr')
    <3>1. /\ t \in PipeReaders /\ t.field = TRUE /\ t.sess = rdr.sess + 1 /\ t.ser = rdr.ser
          /\ t.sending = FALSE /\ t.waiting = FALSE
      BY <2>3, ReaderShown, Zenon
    <3> HIDE DEF t
    <3>2. t = on
      BY <2>2, <3>1, ReaderEqual, Zenon
    <3> QED BY <3>2 DEF ReaderSeen, t
  <2>5. ~ReaderSeen(rdr).field /\ ReaderSeen(rdr).sess < MaxSess
    BY <1>1, <1>4, ReaderShown, Zenon DEF FieldOn
  <2>6. Pipe!Enqueue("field_on")
    BY <1>4, SubmitIsEnqueue DEF FieldOn
  <2>7. Pipe!PipeFieldOn
    BY <1>2, <1>3, <2>4, <2>5, <2>6 DEF Pipe!PipeFieldOn
  <2> QED BY <2>7 DEF PipeStep, Pipe!PipeNext
<1>5. CASE FieldOff
  <2>1. ReaderSeen(rdr).field
    BY <1>1, <1>5, ReaderShown, Zenon DEF FieldOff
  <2>2. ReaderSeen(rdr)' = Pipe!Gone(ReaderSeen(rdr))
    <3>1. rdr' = QuietReader(rdr.sess, rdr.ser)
      BY <1>5 DEF FieldOff
    <3>2. ReaderSeen(rdr') = Pipe!Gone(ReaderSeen(rdr))
      BY <1>1, <3>1, ReaderGone
    <3> QED BY <3>2 DEF ReaderSeen
  <2>3. Pipe!Enqueue("field_off")
    BY <1>5, SubmitIsEnqueue DEF FieldOff
  <2>4. Pipe!PipeFieldOff
    BY <1>2, <1>3, <2>1, <2>2, <2>3 DEF Pipe!PipeFieldOff
  <2> QED BY <2>4 DEF PipeStep, Pipe!PipeNext
<1> QED BY <1>4, <1>5

\* A reader that goes on with its C-APDU, or has sent all of it.
LEMMA SendShown ==
    ASSUME rdr \in Readers, NEW r \in Readers, r.field = rdr.field, r.sess = rdr.sess, r.ser = Pipe!SerialOfNext
    PROVE  /\ r.idx # 0 /\ r.waiting = rdr.waiting =>
                  ReaderSeen(r) = [ReaderSeen(rdr) EXCEPT !.ser = Pipe!SerialOfNext, !.sending = TRUE]
           /\ r.idx = 0 /\ r.waiting = TRUE =>
                  ReaderSeen(r) = [ReaderSeen(rdr) EXCEPT !.ser = Pipe!SerialOfNext, !.sending = FALSE, !.waiting = TRUE]
           /\ r.idx = 0 /\ r.waiting = FALSE =>
                  ReaderSeen(r) = [ReaderSeen(rdr) EXCEPT !.ser = Pipe!SerialOfNext, !.sending = FALSE, !.waiting = FALSE]
<1> DEFINE n == Pipe!SerialOfNext
           old == ReaderSeen(rdr)
           new == ReaderSeen(r)
<1>1. n \in Nat
  BY NextShown
<1>2. old \in PipeReaders /\ old.field = rdr.field /\ old.sess = rdr.sess /\ old.waiting = rdr.waiting
  BY ReaderShown, Zenon
<1>3. /\ new \in PipeReaders /\ new.field = old.field /\ new.sess = old.sess /\ new.ser = n /\ new.waiting = r.waiting
      /\ (r.idx = 0 => new.sending = FALSE) /\ (r.idx # 0 => new.sending = TRUE)
  BY ReaderShown, Zenon
<1> HIDE DEF n, old, new
<1>4. ASSUME r.idx # 0, r.waiting = rdr.waiting PROVE new = [old EXCEPT !.ser = n, !.sending = TRUE]
  <2> DEFINE t == [old EXCEPT !.ser = n, !.sending = TRUE]
  <2>1. /\ t \in PipeReaders /\ t.field = old.field /\ t.sess = old.sess /\ t.ser = n
        /\ t.sending = TRUE /\ t.waiting = old.waiting
    BY <1>1, <1>2, Zenon DEF PipeReaders
  <2> HIDE DEF t
  <2>2. new = t
    BY <1>2, <1>3, <1>4, <2>1, ReaderEqual, Zenon
  <2> QED BY <2>2 DEF t
<1>5. ASSUME r.idx = 0, r.waiting = TRUE PROVE new = [old EXCEPT !.ser = n, !.sending = FALSE, !.waiting = TRUE]
  <2> DEFINE t == [old EXCEPT !.ser = n, !.sending = FALSE, !.waiting = TRUE]
  <2>1. /\ t \in PipeReaders /\ t.field = old.field /\ t.sess = old.sess /\ t.ser = n
        /\ t.sending = FALSE /\ t.waiting = TRUE
    BY <1>1, <1>2, Zenon DEF PipeReaders
  <2> HIDE DEF t
  <2>2. new = t
    BY <1>3, <1>5, <2>1, ReaderEqual, Zenon
  <2> QED BY <2>2 DEF t
<1>6. ASSUME r.idx = 0, r.waiting = FALSE PROVE new = [old EXCEPT !.ser = n, !.sending = FALSE, !.waiting = FALSE]
  <2> DEFINE t == [old EXCEPT !.ser = n, !.sending = FALSE, !.waiting = FALSE]
  <2>1. /\ t \in PipeReaders /\ t.field = old.field /\ t.sess = old.sess /\ t.ser = n
        /\ t.sending = FALSE /\ t.waiting = FALSE
    BY <1>1, <1>2, Zenon DEF PipeReaders
  <2> HIDE DEF t
  <2>2. new = t
    BY <1>3, <1>6, <2>1, ReaderEqual, Zenon
  <2> QED BY <2>2 DEF t
<1> QED BY <1>4, <1>5, <1>6, Zenon DEF n, old, new

\* A fragment that does not hand over a C-APDU: the reader begins or goes on with one, or
\* has sent all of one that was dropped.
LEMMA FragmentShown ==
    ASSUME rdr \in Readers, rdr' \in Readers, NEW last \in BOOLEAN, ReaderSends(NextFragment(last)),
           rdr'.field = rdr.field, rdr'.sess = rdr.sess, rdr'.ser = NextFragment(last).ser,
           last => rdr'.idx = 0, ~last => rdr'.idx # 0 /\ rdr'.waiting = FALSE
    PROVE  /\ Pipe!MaySend /\ rdr'.ser = Pipe!SerialOfNext
           /\ UNCHANGED <<PipeFifo, wq, PipeRunning, canceling, PipeCurrent, s_ops_registered>> => PipeStep
<1>1. rdr'.ser = Pipe!SerialOfNext /\ NextFragment(last).ser = Pipe!SerialOfNext
  BY NextShown
<1>2. Pipe!MaySend
  BY <1>1, ReaderShown, Zenon DEF Pipe!MaySend, ReaderSends
<1>3. rdr.waiting = FALSE
  BY DEF ReaderSends, Readers
<1> SUFFICES ASSUME UNCHANGED <<PipeFifo, wq, PipeRunning, canceling, PipeCurrent, s_ops_registered>> PROVE PipeStep
  BY <1>1, <1>2
<1>4. CASE ~last
  <2>1. ReaderSeen(rdr') = [ReaderSeen(rdr) EXCEPT !.ser = Pipe!SerialOfNext, !.sending = TRUE]
    BY <1>1, <1>3, <1>4, SendShown, Zenon
  <2>2. ReaderSeen(rdr)' = [ReaderSeen(rdr) EXCEPT !.ser = Pipe!SerialOfNext, !.sending = TRUE]
    BY <2>1 DEF ReaderSeen
  <2>3. Pipe!BeginApdu
    BY <1>2, <2>2 DEF Pipe!BeginApdu
  <2> QED BY <2>3 DEF PipeStep, Pipe!PipeNext
<1>5. CASE last
  <2>1. rdr'.waiting = TRUE \/ rdr'.waiting = FALSE
    BY DEF Readers
  <2>2. \/ ReaderSeen(rdr') = [ReaderSeen(rdr) EXCEPT !.ser = Pipe!SerialOfNext, !.sending = FALSE, !.waiting = TRUE]
        \/ ReaderSeen(rdr') = [ReaderSeen(rdr) EXCEPT !.ser = Pipe!SerialOfNext, !.sending = FALSE, !.waiting = FALSE]
    BY <1>1, <1>5, <2>1, SendShown, Zenon
  <2>3. \E waits \in BOOLEAN :
            ReaderSeen(rdr') = [ReaderSeen(rdr) EXCEPT !.ser = Pipe!SerialOfNext, !.sending = FALSE, !.waiting = waits]
    BY <2>2, Zenon
  <2>4. \E waits \in BOOLEAN :
            ReaderSeen(rdr)' = [ReaderSeen(rdr) EXCEPT !.ser = Pipe!SerialOfNext, !.sending = FALSE, !.waiting = waits]
    BY <2>3, Zenon DEF ReaderSeen
  <2>5. Pipe!LoseApdu
    BY <1>2, <2>4, Zenon DEF Pipe!LoseApdu
  <2> QED BY <2>5 DEF PipeStep, Pipe!PipeNext
<1> QED BY <1>4, <1>5

\* What a fragment makes of the reader, in the three cases of nfc_hal_on_fragment.
LEMMA AfterFragment ==
    ASSUME rdr \in Readers, NEW last \in BOOLEAN
    PROVE  LET r == ReaderAfter(NextFragment(last))
           IN  /\ r.field = rdr.field /\ r.sess = rdr.sess /\ r.ser = NextFragment(last).ser
               /\ (last => r.idx = 0) /\ (~last => r.idx # 0)
               /\ r.waiting = last
               /\ \A w \in BOOLEAN : LET t == [r EXCEPT !.waiting = w]
                                     IN  /\ t.field = rdr.field /\ t.sess = rdr.sess /\ t.ser = NextFragment(last).ser
                                         /\ (last => t.idx = 0) /\ (~last => t.idx # 0)
                                         /\ t.waiting = w
<1> DEFINE frag == NextFragment(last)
           r == ReaderAfter(frag)
<1>1. frag.idx = rdr.idx + 1 /\ frag.last = last /\ rdr.idx \in Nat
  BY ReaderShown, Zenon DEF NextFragment
<1> HIDE DEF frag
<1>2. r = [rdr EXCEPT !.ser = frag.ser, !.idx = IF last THEN 0 ELSE frag.idx, !.waiting = last]
  BY <1>1 DEF ReaderAfter
<1>3. /\ r.field = rdr.field /\ r.sess = rdr.sess /\ r.ser = frag.ser
      /\ r.idx = (IF last THEN 0 ELSE frag.idx) /\ r.waiting = last
  BY <1>2 DEF Readers
<1>4. DOMAIN r = {"field", "sess", "ser", "idx", "waiting"}
  BY <1>2 DEF Readers
<1> HIDE DEF r
<1>5. ASSUME NEW w \in BOOLEAN
      PROVE  LET t == [r EXCEPT !.waiting = w]
             IN  t.field = r.field /\ t.sess = r.sess /\ t.ser = r.ser /\ t.idx = r.idx /\ t.waiting = w
  BY <1>4
<1> QED BY <1>1, <1>3, <1>5 DEF r, frag

\* A fragment is dropped.
LEMMA DroppedIsPipe ==
    ASSUME QuietInv, CtlType', NEW last \in BOOLEAN, FragmentDropped(last) PROVE PipeStep
<1>1. rdr \in Readers /\ rdr' \in Readers
  BY DEF QuietInv, OwnerInv, CtlType
<1>2. UNCHANGED <<PipeFifo, wq, PipeRunning, canceling, PipeCurrent, s_ops_registered>>
  BY DEF FragmentDropped, PipeFifo, PipeRunning, PipeCurrent, CApduIn, wqVars, thrVars, apiVars
<1>3. ReaderSends(NextFragment(last))
  BY DEF FragmentDropped
<1>4. PICK w \in BOOLEAN : (~last => w = FALSE) /\ rdr' = [ReaderAfter(NextFragment(last)) EXCEPT !.waiting = w]
  BY Zenon DEF FragmentDropped
<1>5. /\ rdr'.field = rdr.field /\ rdr'.sess = rdr.sess /\ rdr'.ser = NextFragment(last).ser
      /\ (last => rdr'.idx = 0) /\ (~last => rdr'.idx # 0 /\ rdr'.waiting = FALSE)
  BY <1>1, <1>4, AfterFragment
<1> QED BY <1>1, <1>2, <1>3, <1>5, FragmentShown, Zenon

\* A fragment does not fit.
LEMMA OversizeIsPipe ==
    ASSUME QuietInv, CtlType', NEW last \in BOOLEAN, NEW b \in Bufs, NEW len \in FragLens, FragmentOversize(b, len, last)
    PROVE  PipeStep
<1>1. rdr \in Readers /\ rdr' \in Readers /\ OwnInv
  BY DEF QuietInv, OwnerInv, CtlType
<1>2. b \notin Held /\ Held \subseteq Bufs
  BY <1>1, HeldType, BufsAssumption DEF FragmentOversize, Target, OwnInv, OneOwner, Held
<1>3. \A c \in Held : data'[c] = data[c]
  BY <1>2 DEF FragmentOversize, Unref
<1>4. UNCHANGED <<PipeFifo, PipeCurrent>>
  BY <1>1, <1>3, ApdusKept DEF FragmentOversize, wqVars
<1>5. UNCHANGED <<wq, PipeRunning, canceling, s_ops_registered>>
  BY DEF FragmentOversize, PipeRunning, wqVars, thrVars, apiVars
<1>6. ReaderSends(NextFragment(last)) /\ rdr' = [ReaderAfter(NextFragment(last)) EXCEPT !.waiting = FALSE]
  BY DEF FragmentOversize
<1>7. /\ rdr'.field = rdr.field /\ rdr'.sess = rdr.sess /\ rdr'.ser = NextFragment(last).ser
      /\ (last => rdr'.idx = 0) /\ (~last => rdr'.idx # 0 /\ rdr'.waiting = FALSE)
  BY <1>1, <1>6, AfterFragment
<1> QED BY <1>1, <1>4, <1>5, <1>6, <1>7, FragmentShown

\* A fragment is stored; the last one hands the buffer over.
LEMMA StoredIsPipe ==
    ASSUME QuietInv, CtlType', NEW last \in BOOLEAN, NEW b \in Bufs, NEW len \in FragLens, FragmentStored(b, len, last)
    PROVE  PipeStep
<1> DEFINE frag == NextFragment(last)
<1>1. rdr \in Readers /\ rdr' \in Readers /\ OwnInv /\ rdr.sess \in Nat
  BY ReaderShown, Zenon DEF QuietInv, OwnerInv, CtlType
<1>2. b \notin Held /\ Held \subseteq Bufs
  BY <1>1, HeldType, BufsAssumption DEF FragmentStored, Target, OwnInv, OneOwner, Held
<1>3. \A c \in Bufs \ {b} : data'[c] = data[c]
  BY <1>1 DEF FragmentStored, OwnInv, BufType
<1>4. UNCHANGED <<handling, PipeRunning, canceling, s_ops_registered>>
  BY DEF FragmentStored, PipeRunning, thrVars, apiVars
<1>5. ReaderSends(frag) /\ rdr' = ReaderAfter(frag)
  BY DEF FragmentStored
<1>6. /\ rdr'.field = rdr.field /\ rdr'.sess = rdr.sess /\ rdr'.ser = frag.ser
      /\ (last => rdr'.idx = 0) /\ (~last => rdr'.idx # 0) /\ rdr'.waiting = last
  BY <1>1, <1>5, AfterFragment
<1>7. CASE ~last
  <2>1. UNCHANGED <<s_apdu_fifo, wq>>
    BY <1>7 DEF FragmentStored
  <2>2. UNCHANGED <<PipeFifo, PipeCurrent>>
    BY <1>1, <1>2, <1>3, <1>4, <2>1, ApdusKept
  <2>3. rdr'.waiting = FALSE
    BY <1>6, <1>7
  <2> QED BY <1>1, <1>4, <1>5, <1>6, <1>7, <2>1, <2>2, <2>3, FragmentShown, Zenon
<1>8. CASE last
  <2>1. s_apdu_fifo' = Append(s_apdu_fifo, b) /\ Submit("apdu")
    BY <1>8 DEF FragmentStored
  <2>2. PipeFifo' = Append(PipeFifo, CApduIn(b)')
    BY <1>1, <1>2, <1>3, <2>1, FifoAppend
  <2>3. UNCHANGED PipeCurrent
    BY <1>2, <1>3, <1>4 DEF PipeCurrent, CApduIn, Held
  <2>4. Pipe!MaySend /\ rdr'.ser = Pipe!SerialOfNext /\ frag.ser = Pipe!SerialOfNext
    BY <1>1, <1>5, <1>6, <1>8, FragmentShown, Zenon
  <2>5. rdr'.waiting = TRUE
    BY <1>6, <1>8
  <2>6. ReaderSeen(rdr') = [ReaderSeen(rdr) EXCEPT !.ser = Pipe!SerialOfNext, !.sending = FALSE, !.waiting = TRUE]
    BY <1>1, <1>6, <1>8, <2>4, <2>5, SendShown, Zenon
  <2>7. ReaderSeen(rdr)' = [ReaderSeen(rdr) EXCEPT !.ser = Pipe!SerialOfNext, !.sending = FALSE, !.waiting = TRUE]
    BY <2>6 DEF ReaderSeen
  <2>8. CApduIn(b)' = Pipe!CApdu(Pipe!SerialOfNext, ReaderSeen(rdr).sess)
    <3> DEFINE f == data[b].frags
    <3>1. /\ f \in Seq(Fragments) /\ data'[b].frags = Append(f, frag)
          /\ \A i \in DOMAIN f : f[i].ser = frag.ser /\ f[i].sess = rdr.sess
      BY StoredContinues DEF QuietInv
    <3>2. frag.sess = rdr.sess
      BY DEF NextFragment
    <3> HIDE DEF f, frag
    <3>4. Append(f, frag)[1].ser = frag.ser /\ Append(f, frag)[1].sess = rdr.sess
      <4>1. CASE f = <<>>
        <5>1. Append(f, frag)[1] = frag
          BY <4>1
        <5> QED BY <3>2, <5>1
      <4>2. CASE f # <<>>
        <5>1. 1 \in DOMAIN f /\ Append(f, frag)[1] = f[1]
          BY <3>1, <4>2
        <5> QED BY <3>1, <5>1
      <4> QED BY <4>1, <4>2
    <3>5. CApduIn(b)' = [ser |-> frag.ser, sess |-> rdr.sess]
      BY <3>1, <3>4 DEF CApduIn
    <3> QED BY <1>1, <2>4, <3>5, ReaderShown, Zenon DEF Pipe!CApdu
  <2>9. Pipe!ReceiveApdu
    BY <1>4, <2>1, <2>2, <2>3, <2>4, <2>7, <2>8, SubmitIsEnqueue DEF Pipe!ReceiveApdu
  <2> QED BY <2>9 DEF PipeStep, Pipe!PipeNext
<1> QED BY <1>7, <1>8

-----------------------------------------------------------------------------
(* The work queue thread                                                    *)

\* The buffers of the pipe are where they were, and so is the reader.
LEMMA SameShown ==
    /\ UNCHANGED <<s_apdu_fifo, data>> => UNCHANGED PipeFifo
    /\ UNCHANGED <<handling, data>> => UNCHANGED PipeCurrent
    /\ UNCHANGED <<running, leaving>> => UNCHANGED PipeRunning
    /\ UNCHANGED rdr => UNCHANGED ReaderSeen(rdr)
BY DEF PipeFifo, PipeCurrent, PipeRunning, ReaderSeen, CApduIn

\* A work item is taken, and a handler of a field event or an empty fifo ends one.
LEMMA ItemIsPipe ==
    ASSUME QuietInv, WqTake \/ FieldOnWork \/ FieldOffWork \/ ApduWorkEmpty \/ ApduWorkEnd PROVE PipeStep
<1> USE DEF apiVars, bufVars, thrVars
<1>1. /\ leaving => running = "apdu"
      /\ handling # NULL => running = "apdu"
      /\ NULL \notin {"field_on", "field_off", "apdu"}
  BY BufsAssumption DEF QuietInv, Queueing
<1>2. UNCHANGED <<PipeFifo, canceling, PipeCurrent, s_ops_registered, ReaderSeen(rdr)>>
  BY SameShown DEF WqTake, FieldOnWork, FieldOffWork, ApduWorkEmpty, ApduWorkEnd
<1>3. CASE WqTake
  <2>1. PipeRunning = NULL /\ PipeRunning' = Head(wq)
    BY <1>1, <1>3 DEF WqTake, PipeRunning
  <2>2. Pipe!TakeWork
    BY <1>2, <1>3, <2>1 DEF WqTake, Pipe!TakeWork
  <2> QED BY <2>2 DEF PipeStep, Pipe!PipeNext
<1>4. CASE FieldOnWork \/ FieldOffWork
  <2>1. PipeRunning \in {"field_on", "field_off"} /\ PipeRunning' = NULL /\ PipeCurrent = NULL
    BY <1>1, <1>4 DEF FieldOnWork, FieldOffWork, PipeRunning, PipeCurrent
  <2>2. UNCHANGED wq
    BY <1>4 DEF FieldOnWork, FieldOffWork
  <2>3. Pipe!EndWork
    BY <1>1, <1>2, <2>1, <2>2 DEF Pipe!EndWork
  <2> QED BY <2>3 DEF PipeStep, Pipe!PipeNext
<1>5. CASE ApduWorkEmpty
  <2>1. PipeRunning = "apdu" /\ PipeRunning' = NULL /\ PipeCurrent = NULL
    BY <1>5 DEF ApduWorkEmpty, PipeRunning, PipeCurrent
  <2>2. PipeFifo = <<>>
    BY <1>5 DEF ApduWorkEmpty, PipeFifo
  <2>3. UNCHANGED wq
    BY <1>5 DEF ApduWorkEmpty
  <2>4. Pipe!EndWork
    BY <1>1, <1>2, <2>1, <2>2, <2>3 DEF Pipe!EndWork
  <2> QED BY <2>4 DEF PipeStep, Pipe!PipeNext
<1>6. CASE ApduWorkEnd
  <2>1. UNCHANGED <<PipeRunning, wq>>
    BY <1>6 DEF ApduWorkEnd, PipeRunning
  <2> QED BY <1>2, <2>1, PipeSame
<1> QED BY <1>3, <1>4, <1>5, <1>6

\* k_fifo_get: the oldest C-APDU is handed over, or dropped when nobody listens.
LEMMA GetIsPipe ==
    ASSUME QuietInv, ApduWorkGet PROVE PipeStep
<1> USE DEF apiVars, thrVars
<1> DEFINE b == Head(s_apdu_fifo)
<1>1. OwnInv /\ s_apdu_fifo # <<>> /\ s_apdu_fifo' = Tail(s_apdu_fifo) /\ handling = NULL
  BY DEF QuietInv, OwnerInv, ApduWorkGet
<1>2. b \in Bufs /\ b # NULL
  BY <1>1, RangeTail, BufsAssumption DEF OwnInv, BufType
<1> HIDE DEF b
<1>3. \A c \in Bufs \ {b} : data'[c] = data[c]
  BY DEF ApduWorkGet, Unref, b
<1>4. PipeFifo # <<>> /\ PipeFifo' = Tail(PipeFifo) /\ Head(PipeFifo) = CApduIn(b)
  BY <1>1, <1>3, FifoTail DEF b
<1>5. PipeRunning = "apdu" /\ PipeCurrent = NULL /\ UNCHANGED <<PipeRunning, wq, canceling, s_ops_registered>>
  BY DEF ApduWorkGet, PipeRunning, PipeCurrent
<1>6. UNCHANGED ReaderSeen(rdr)
  BY SameShown DEF ApduWorkGet
<1>7. PipeCurrent' = IF s_ops_registered THEN Head(PipeFifo) ELSE NULL
  <2>1. CASE s_ops_registered
    <3>1. handling' = b /\ UNCHANGED data
      BY <2>1 DEF ApduWorkGet, b
    <3> QED BY <1>2, <1>4, <2>1, <3>1 DEF PipeCurrent, CApduIn
  <2>2. CASE ~s_ops_registered
    <3>1. handling' = NULL
      BY <1>1, <2>2 DEF ApduWorkGet
    <3> QED BY <2>2, <3>1 DEF PipeCurrent
  <2> QED BY <2>1, <2>2
<1>8. Pipe!DeliverApdu
  BY <1>4, <1>5, <1>6, <1>7 DEF Pipe!DeliverApdu
<1> QED BY <1>8 DEF PipeStep, Pipe!PipeNext

\* The callee of on_apdu has a C-APDU in hand.
LEMMA HandlingShown ==
    ASSUME QuietInv, handling # NULL PROVE PipeCurrent # NULL /\ PipeCurrent = CApduIn(handling) /\ handling \in Held
BY HeldIsApdu DEF QuietInv, OwnerInv, Held, PipeCurrent

\* nfc_transport_send_response: the reader gets its answer, or nobody waits for one.
LEMMA ResponseIsPipe ==
    ASSUME QuietInv, CtlType', SendResponse PROVE PipeStep
<1> USE DEF apiVars, bufVars, thrVars
<1>1. UNCHANGED <<PipeFifo, wq, PipeRunning, canceling, PipeCurrent, s_ops_registered>>
  BY SameShown DEF SendResponse
<1>2. PipeCurrent # NULL
  BY HandlingShown DEF SendResponse
<1>3. CASE UNCHANGED rdr
  BY <1>1, <1>3, SameShown, PipeSame
<1>4. CASE rdr.waiting /\ rdr' = [rdr EXCEPT !.waiting = FALSE]
  <2>1. rdr \in Readers /\ rdr' \in Readers
    BY DEF QuietInv, OwnerInv, CtlType
  <2>2. /\ rdr'.field = rdr.field /\ rdr'.sess = rdr.sess /\ rdr'.ser = rdr.ser /\ rdr'.idx = rdr.idx
        /\ rdr'.waiting = FALSE
    BY <1>4, <2>1 DEF Readers
  <2> DEFINE old == ReaderSeen(rdr)
             new == ReaderSeen(rdr')
             t == [old EXCEPT !.waiting = FALSE]
  <2>3. old \in PipeReaders /\ old.waiting
    BY <1>4, <2>1, ReaderShown, Zenon
  <2>4. /\ new \in PipeReaders /\ new.field = old.field /\ new.sess = old.sess /\ new.ser = old.ser
        /\ new.sending = old.sending /\ new.waiting = FALSE
    BY <2>1, <2>2, ReaderShown, Zenon
  <2> HIDE DEF old, new
  <2>5. /\ t \in PipeReaders /\ t.field = old.field /\ t.sess = old.sess /\ t.ser = old.ser
        /\ t.sending = old.sending /\ t.waiting = FALSE
    BY <2>3, Zenon DEF PipeReaders
  <2>6. new = [old EXCEPT !.waiting = FALSE]
    <3> HIDE DEF t
    <3>1. new = t
      BY <2>4, <2>5, ReaderEqual, Zenon
    <3> QED BY <3>1 DEF t
  <2>7. ReaderSeen(rdr)' = [ReaderSeen(rdr) EXCEPT !.waiting = FALSE]
    BY <2>6 DEF ReaderSeen, old, new
  <2>8. ReaderSeen(rdr).waiting
    BY <2>3 DEF old
  <2>9. Pipe!Respond
    BY <1>1, <1>2, <2>7, <2>8 DEF Pipe!Respond
  <2> QED BY <2>9 DEF PipeStep, Pipe!PipeNext
<1> QED BY <1>3, <1>4 DEF SendResponse

\* The callee of on_apdu gives its buffer back.
LEMMA UnrefIsPipe ==
    ASSUME QuietInv, ApduUnref PROVE PipeStep
<1> USE DEF apiVars, thrVars
<1>1. OwnInv /\ OneOwner /\ handling # NULL
  BY DEF QuietInv, OwnerInv, OwnInv, ApduUnref
<1>2. \A i \in DOMAIN s_apdu_fifo : s_apdu_fifo[i] \in Bufs /\ s_apdu_fifo[i] # handling
  BY <1>1 DEF OwnInv, BufType, OneOwner, Range
<1>3. \A i \in DOMAIN s_apdu_fifo : data'[s_apdu_fifo[i]] = data[s_apdu_fifo[i]]
  BY <1>2 DEF ApduUnref, Unref
<1>4. UNCHANGED PipeFifo
  BY <1>3 DEF ApduUnref, PipeFifo, CApduIn
<1>5. PipeCurrent # NULL /\ PipeCurrent' = NULL
  BY <1>1, HandlingShown DEF ApduUnref, PipeCurrent
<1>6. UNCHANGED <<wq, PipeRunning, canceling, s_ops_registered, ReaderSeen(rdr)>>
  BY SameShown DEF ApduUnref
<1>7. Pipe!ReturnApdu
  BY <1>4, <1>5, <1>6 DEF Pipe!ReturnApdu
<1> QED BY <1>7 DEF PipeStep, Pipe!PipeNext

-----------------------------------------------------------------------------
(* The API                                                                  *)

\* A call that leaves the queue and the C-APDUs alone, and the reader too or takes it
\* out of the field.
LEMMA StopIsPipe ==
    ASSUME QuietInv, UNCHANGED <<PipeFifo, wq, PipeRunning, canceling, PipeCurrent, s_ops_registered>>,
           UNCHANGED rdr \/ rdr' = QuietReader(rdr.sess, rdr.ser)
    PROVE  PipeStep
<1>1. rdr \in Readers
  BY DEF QuietInv, OwnerInv, CtlType
<1>2. CASE UNCHANGED rdr
  BY <1>2, SameShown, PipeSame
<1>3. CASE rdr' = QuietReader(rdr.sess, rdr.ser)
  <2>1. ReaderSeen(rdr') = Pipe!Gone(ReaderSeen(rdr))
    BY <1>1, <1>3, ReaderGone
  <2>2. ReaderSeen(rdr)' = Pipe!Gone(ReaderSeen(rdr))
    BY <2>1 DEF ReaderSeen
  <2>3. Pipe!StopField
    BY <2>2 DEF Pipe!StopField
  <2> QED BY <2>3 DEF PipeStep, Pipe!PipeNext
<1> QED BY <1>2, <1>3

\* nfc_transport_init finds the queue and the fifo empty: nothing is forgotten.
LEMMA InitIsPipe ==
    ASSUME QuietInv, NEW result \in Results, TransportInit(result) PROVE PipeStep
<1>1. Main = "idle" /\ s_session = "NONE"
  BY DEF TransportInit, QuietInv, OwnerInv, Control, Main, CtlType
<1>2. wq = <<>> /\ s_apdu_fifo = <<>>
  BY <1>1 DEF QuietInv, Queueing, Drained
<1>3. UNCHANGED <<wq, s_apdu_fifo, data, running, handling, leaving, canceling, s_ops_registered>>
  BY <1>2 DEF TransportInit, thrVars
<1>4. UNCHANGED rdr \/ rdr' = QuietReader(rdr.sess, rdr.ser)
  BY Zenon DEF TransportInit, InitDone, Results, T4tDone
<1> QED BY <1>3, <1>4, SameShown, StopIsPipe

\* nfc_transport_register_callbacks
LEMMA RegisterIsPipe ==
    ASSUME NEW r \in BOOLEAN, RegisterCallbacks(r) PROVE PipeStep
<1>1. UNCHANGED <<PipeFifo, wq, PipeRunning, canceling, PipeCurrent, ReaderSeen(rdr)>>
  BY SameShown DEF RegisterCallbacks, bufVars, wqVars, thrVars
<1>2. s_ops_registered' = r
  BY DEF RegisterCallbacks
<1>3. Pipe!Register(r)
  BY <1>1, <1>2 DEF Pipe!Register
<1> QED BY <1>3 DEF PipeStep, Pipe!PipeNext

\* Calls and steps that only move the calling thread, its session or its uid.
LEMMA MovesArePipe ==
    ASSUME \/ \E u \in Uids \cup {NULL} : Start(u)
           \/ Stop \/ Shutdown
           \/ \E t \in Threads, u \in Uids : SetUid(t, u)
           \/ StartEmulation \/ StartSession \/ StopFinish \/ ShutdownDrained
           \/ \E t \in Threads : SetUidStart(t)
    PROVE  PipeStep
<1>1. UNCHANGED <<bufVars, wqVars, canceling, s_ops_registered, rdr>>
  BY DEF Start, Stop, Shutdown, BeginStop, SetUid, StartEmulation, StartSession, StopFinish, ShutdownDrained,
         SetUidStart, cancelVars, apiVars
<1> QED BY <1>1, SameShown, PipeSame DEF bufVars, wqVars

\* The steps that discard the half assembled C-APDU, and stop the emulation or not.
LEMMA DiscardIsPipe ==
    ASSUME QuietInv, StopEmulation \/ \E t \in Threads : SetUidApply(t) PROVE PipeStep
<1>1. DiscardCurBuf /\ UNCHANGED <<wqVars, canceling, s_ops_registered>>
  BY DEF StopEmulation, SetUidApply, cancelVars
<1>2. UNCHANGED <<PipeFifo, PipeCurrent>>
  BY <1>1, DiscardKeeps DEF QuietInv, OwnerInv, wqVars
<1>3. UNCHANGED rdr \/ rdr' = QuietReader(rdr.sess, rdr.ser)
  BY DEF StopEmulation, SetUidApply, EmulationStopOk, EmulationStopFails
<1> QED BY <1>1, <1>2, <1>3, SameShown, StopIsPipe DEF wqVars

\* nfc_transport_set_uid stops the emulation.
LEMMA UidStopIsPipe ==
    ASSUME QuietInv, NEW t \in Threads, SetUidStop(t) PROVE PipeStep
<1>1. UNCHANGED <<bufVars, wqVars, canceling, s_ops_registered>>
  BY DEF SetUidStop, cancelVars
<1>2. UNCHANGED rdr \/ rdr' = QuietReader(rdr.sess, rdr.ser)
  BY DEF SetUidStop, EmulationStopOk, EmulationStopFails
<1> QED BY <1>1, <1>2, SameShown, StopIsPipe DEF bufVars, wqVars

\* k_work_cancel_sync takes the item out of the queue.
LEMMA CancelIsPipe ==
    ASSUME QuietInv, CancelBegin PROVE PipeStep
<1> DEFINE w == Head(to_cancel)
<1>1. canceling = NULL /\ canceling' = w /\ wq' = WithoutWork(wq, w) /\ to_cancel # <<>>
  BY DEF CancelBegin
<1>2. w \in Pipe!TransportWorks
  BY <1>1, RangeTail DEF QuietInv, OwnerInv, CtlType, Works, Pipe!TransportWorks
<1>3. UNCHANGED <<PipeFifo, PipeRunning, PipeCurrent, s_ops_registered, ReaderSeen(rdr)>>
  BY SameShown DEF CancelBegin, bufVars, apiVars
<1> HIDE DEF w
<1>4. CASE w \in Range(wq)
  <2>1. Pipe!Queued(w)
    BY <1>4 DEF Pipe!Queued, Range
  <2> DEFINE k == CHOOSE i \in DOMAIN wq : wq[i] = w
  <2>2. k \in DOMAIN wq /\ wq[k] = w
    BY <1>4 DEF Range
  <2>3. wq' = SubSeq(wq, 1, k - 1) \o SubSeq(wq, k + 1, Len(wq))
    BY <1>1, <1>4, Zenon DEF WithoutWork
  <2> HIDE DEF k
  <2>4. Pipe!CancelWork(w)
    BY <1>1, <1>3, <2>1, <2>2, <2>3, Zenon DEF Pipe!CancelWork
  <2> QED BY <1>2, <2>4 DEF PipeStep, Pipe!PipeNext
<1>5. CASE w \notin Range(wq)
  <2>1. ~Pipe!Queued(w)
    BY <1>5 DEF Pipe!Queued, Range
  <2>2. UNCHANGED wq
    BY <1>1, <1>5 DEF WithoutWork
  <2>3. Pipe!CancelWork(w)
    BY <1>1, <1>3, <2>1, <2>2 DEF Pipe!CancelWork
  <2> QED BY <1>2, <2>3 DEF PipeStep, Pipe!PipeNext
<1> QED BY <1>4, <1>5

\* It has waited until the item does not run.
LEMMA CancelledIsPipe ==
    ASSUME QuietInv, CancelEnd PROVE PipeStep
<1>1. canceling # NULL /\ running # canceling /\ canceling' = NULL
  BY DEF CancelEnd
<1>2. PipeRunning # canceling
  BY <1>1 DEF PipeRunning
<1>3. UNCHANGED <<wq, handling, PipeRunning, s_ops_registered, ReaderSeen(rdr)>>
  BY SameShown DEF CancelEnd, wqVars, apiVars
<1>4. UNCHANGED <<PipeFifo, PipeCurrent>>
  <2>1. CASE DiscardCurBuf
    BY <1>3, <2>1, DiscardKeeps DEF QuietInv, OwnerInv
  <2>2. CASE UNCHANGED bufVars
    BY <1>3, <2>2, SameShown DEF bufVars
  <2> QED BY <2>1, <2>2 DEF CancelEnd
<1>5. Pipe!CancelDone
  BY <1>1, <1>2, <1>3, <1>4 DEF Pipe!CancelDone
<1> QED BY <1>5 DEF PipeStep, Pipe!PipeNext

\* The drain throws C-APDUs away only when no reader is in the field.
LEMMA DrainIsPipe ==
    ASSUME QuietInv, DrainOne PROVE PipeStep
<1>1. OwnInv /\ s_apdu_fifo # <<>> /\ s_apdu_fifo' = Tail(s_apdu_fifo)
  BY DEF QuietInv, OwnerInv, DrainOne
<1>2. \A c \in Bufs \ {Head(s_apdu_fifo)} : data'[c] = data[c]
  BY DEF DrainOne, Unref
<1>3. PipeFifo # <<>> /\ PipeFifo' = Tail(PipeFifo)
  BY <1>1, <1>2, FifoTail
<1>4. running = NULL /\ handling = NULL
  <2>1. running = NULL
    BY DEF DrainOne, Main, QuietInv, Queueing
  <2> QED BY <2>1, BufsAssumption DEF QuietInv, Queueing
<1>5. UNCHANGED <<wq, PipeRunning, canceling, PipeCurrent, s_ops_registered, ReaderSeen(rdr)>>
  BY <1>4, SameShown DEF DrainOne, wqVars, thrVars, apiVars, PipeCurrent
<1>6. ~ReaderSeen(rdr).field
  <2>1. ~rdr.field
    BY DEF DrainOne, Main, QuietInv, Control, Hushed, Assembly
  <2> QED BY <2>1 DEF ReaderSeen
<1>7. Pipe!DropApdu
  BY <1>3, <1>5, <1>6 DEF Pipe!DropApdu
<1> QED BY <1>7 DEF PipeStep, Pipe!PipeNext

\* The end of nfc_transport_shutdown releases the field and the callbacks.
LEMMA DoneIsPipe ==
    ASSUME QuietInv, ShutdownDone PROVE PipeStep
<1>1. rdr \in Readers /\ rdr' = QuietReader(rdr.sess, rdr.ser)
  BY DEF QuietInv, OwnerInv, CtlType, ShutdownDone, T4tDone
<1>2. ReaderSeen(rdr') = Pipe!Gone(ReaderSeen(rdr))
  BY <1>1, ReaderGone
<1>3. ReaderSeen(rdr)' = Pipe!Gone(ReaderSeen(rdr))
  BY <1>2 DEF ReaderSeen
<1>4. UNCHANGED <<PipeFifo, wq, PipeRunning, canceling, PipeCurrent>> /\ s_ops_registered' = FALSE
  BY SameShown DEF ShutdownDone, bufVars, wqVars, cancelVars
<1>5. Pipe!Register(FALSE)
  BY <1>3, <1>4 DEF Pipe!Register
<1> QED BY <1>5, Zenon DEF PipeStep, Pipe!PipeNext

-----------------------------------------------------------------------------
(* The refinement                                                           *)

\* The transport begins as an empty pipe.
LEMMA PipeStart == Init => Pipe!PipeInit
<1> SUFFICES ASSUME Init PROVE Pipe!PipeInit
  OBVIOUS
<1>1. PipeFifo = <<>> /\ PipeRunning = NULL /\ PipeCurrent = NULL
  BY DEF Init, PipeFifo, PipeRunning, PipeCurrent
<1>2. rdr \in Readers /\ rdr.field = FALSE /\ rdr.sess = 0 /\ rdr.ser = 0 /\ rdr.idx = 0 /\ rdr.waiting = FALSE
  BY BoundsAssumption DEF Init, QuietReader, Readers
<1> DEFINE r == ReaderSeen(rdr)
           t == [field |-> FALSE, sess |-> 0, ser |-> 0, sending |-> FALSE, waiting |-> FALSE]
<1>3. r \in PipeReaders /\ r.field = FALSE /\ r.sess = 0 /\ r.ser = 0 /\ r.sending = FALSE /\ r.waiting = FALSE
  BY <1>2, ReaderShown, Zenon
<1>4. t \in PipeReaders /\ t.field = FALSE /\ t.sess = 0 /\ t.ser = 0 /\ t.sending = FALSE /\ t.waiting = FALSE
  BY DEF PipeReaders
<1>5. r = t
  <2> HIDE DEF r, t
  <2> QED BY <1>3, <1>4, ReaderEqual, Zenon
<1> QED BY <1>1, <1>5 DEF Init, Pipe!PipeInit

\* Every step of the transport is a step of the pipe or one it does not show.
LEMMA PipeSteps ==
    ASSUME QuietInv, CtlType', [Next]_vars PROVE PipeStep
<1>1. CASE Isr
  BY <1>1, FieldIsPipe, DroppedIsPipe, StoredIsPipe, OversizeIsPipe DEF Isr, Fragment
<1>2. CASE WqThread
  BY <1>2, ItemIsPipe, GetIsPipe, ResponseIsPipe, UnrefIsPipe DEF WqThread
<1>3. CASE ApiCall
  BY <1>3, InitIsPipe, RegisterIsPipe, MovesArePipe DEF ApiCall
<1>4. CASE MainStep
  BY <1>4, MovesArePipe, DiscardIsPipe, CancelIsPipe, CancelledIsPipe, DrainIsPipe, DoneIsPipe DEF MainStep
<1>5. CASE \E t \in Threads : UidStep(t)
  BY <1>5, UidStopIsPipe, DiscardIsPipe, MovesArePipe DEF UidStep
<1>6. CASE UNCHANGED vars
  BY <1>6, SameShown, PipeSame DEF vars, apiVars, bufVars, wqVars, thrVars
<1> QED BY <1>1, <1>2, <1>3, <1>4, <1>5, <1>6 DEF Next

\* The nRF backend implements the pipe, when one thread makes the calls and the library
\* starts and stops the emulation when it is asked to: with fragments, buffers that run
\* out, preemption between any two steps, stops, uid rotations and re-initialisations, no
\* C-APDU overtakes another, is delivered twice, passes for one of another field session
\* or is thrown away while a reader is in the field.
THEOREM PipeRefinement == ASSUME Serialized PROVE Spec => ImplementsPipe
<1>1. QuietInv /\ QuietInv' /\ [Next]_vars => [Pipe!PipeNext]_(Pipe!pipeVars)
  <2> SUFFICES ASSUME QuietInv, QuietInv', [Next]_vars PROVE [Pipe!PipeNext]_(Pipe!pipeVars)
    OBVIOUS
  <2>1. CtlType'
    BY DEF QuietInv, OwnerInv
  <2> QED BY <2>1, PipeSteps DEF PipeStep
<1> QED BY <1>1, PipeStart, QuietSafe, PTL DEF Spec, ImplementsPipe, Pipe!PipeSpec
=============================================================================
