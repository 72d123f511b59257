------------------------ MODULE NfcTransportNrfxProofs ------------------------
(***************************************************************************)
(* Proofs about NfcTransportNrfx, for every pool, every reader and every   *)
(* bound.  First what holds of any threads and any failure.  Then, when    *)
(* one thread makes all the calls and the library starts and stops the     *)
(* emulation whenever it is asked to: whatever the interrupt, the queue,   *)
(* the reader and the other failures do, a stopped transport is quiet, the *)
(* uid that was set is in force, no buffer is lost and no C-APDU is torn.  *)
(***************************************************************************)
EXTENDS NfcTransportNrfx, Integers, TLAPS

\* Most leaves are first-order: Zenon first, the SMT solver for the others.
USE ZenonT(3), SMTT(30)

Injective(s) == \A i, j \in DOMAIN s : s[i] = s[j] => i = j

LEMMA SeqIsFunction ==
    ASSUME NEW S, NEW s \in Seq(S)
    PROVE  s \in [1..Len(s) -> S]
OBVIOUS

LEMMA LenConcat ==
    ASSUME NEW S, NEW s \in Seq(S), NEW t \in Seq(S)
    PROVE  Len(s \o t) = Len(s) + Len(t)
OBVIOUS

\* The range of a sequence after the fifo operations of the code.
LEMMA RangeAppend ==
    ASSUME NEW S, NEW s \in Seq(S), NEW x \in S
    PROVE  /\ Append(s, x) \in Seq(S)
           /\ Range(Append(s, x)) = Range(s) \cup {x}
           /\ Injective(s) /\ x \notin Range(s) => Injective(Append(s, x))
<1>1. Append(s, x) \in Seq(S)
  OBVIOUS
<1>2. Range(Append(s, x)) = Range(s) \cup {x}
  <2>1. ASSUME NEW i \in DOMAIN Append(s, x) PROVE Append(s, x)[i] \in Range(s) \cup {x}
    BY <2>1 DEF Range
  <2>2. ASSUME NEW i \in DOMAIN s PROVE i \in DOMAIN Append(s, x) /\ Append(s, x)[i] = s[i]
    BY <2>2
  <2>3. Len(s) + 1 \in DOMAIN Append(s, x) /\ Append(s, x)[Len(s) + 1] = x
    OBVIOUS
  <2> QED BY <2>1, <2>2, <2>3 DEF Range
<1>3. ASSUME Injective(s), x \notin Range(s) PROVE Injective(Append(s, x))
  BY <1>3 DEF Injective, Range
<1> QED BY <1>1, <1>2, <1>3

\* What k_fifo_get and a drain leave: the tail of a sequence holds its other
\* elements, and if none is repeated not the first.
LEMMA RangeTail ==
    ASSUME NEW S, NEW s \in Seq(S), s # <<>>
    PROVE  /\ Tail(s) \in Seq(S) /\ Head(s) \in S
           /\ Head(s) \in Range(s)
           /\ Range(Tail(s)) \subseteq Range(s)
           /\ Range(s) = Range(Tail(s)) \cup {Head(s)}
           /\ Injective(s) => Injective(Tail(s)) /\ Head(s) \notin Range(Tail(s))
<1>1. Tail(s) \in Seq(S) /\ Head(s) \in S /\ 1 \in DOMAIN s /\ Head(s) = s[1]
  OBVIOUS
<1>2. ASSUME NEW i \in DOMAIN Tail(s) PROVE i + 1 \in DOMAIN s /\ Tail(s)[i] = s[i + 1] /\ i + 1 # 1
  BY <1>2
<1>3. ASSUME NEW i \in DOMAIN s, i # 1 PROVE i - 1 \in DOMAIN Tail(s) /\ s[i] = Tail(s)[i - 1]
  BY <1>3
<1>4. Head(s) \in Range(s)
  BY <1>1 DEF Range
<1>5. Range(Tail(s)) \subseteq Range(s)
  BY <1>2 DEF Range
<1>6. Range(s) = Range(Tail(s)) \cup {Head(s)}
  <2>1. ASSUME NEW i \in DOMAIN s PROVE s[i] \in Range(Tail(s)) \cup {Head(s)}
    BY <2>1, <1>1, <1>3, Zenon DEF Range
  <2> QED BY <2>1, <1>4, <1>5 DEF Range
<1>7. ASSUME Injective(s) PROVE Injective(Tail(s)) /\ Head(s) \notin Range(Tail(s))
  <2>1. ASSUME NEW i \in DOMAIN Tail(s), NEW j \in DOMAIN Tail(s), Tail(s)[i] = Tail(s)[j] PROVE i = j
    BY <2>1, <1>2, <1>7 DEF Injective
  <2>2. ASSUME NEW i \in DOMAIN Tail(s) PROVE Tail(s)[i] # Head(s)
    BY <2>2, <1>1, <1>2, <1>7 DEF Injective
  <2> QED BY <2>1, <2>2 DEF Injective, Range
<1> QED BY <1>1, <1>4, <1>5, <1>6, <1>7

\* WithoutWork gives a sequence of work items again.
LEMMA WithoutWorkType ==
    ASSUME NEW S, NEW q \in Seq(S), NEW w
    PROVE  WithoutWork(q, w) \in Seq(S)
<1>1. CASE w \notin Range(q)
  BY <1>1 DEF WithoutWork
<1>2. CASE w \in Range(q)
  <2> DEFINE k == CHOOSE i \in DOMAIN q : q[i] = w
  <2>1. k \in DOMAIN q
    BY <1>2 DEF Range
  <2>2. k \in 1..Len(q)
    BY <2>1
  <2> HIDE DEF k
  <2>3. SubSeq(q, 1, k - 1) \in Seq(S) /\ SubSeq(q, k + 1, Len(q)) \in Seq(S)
    BY <2>2
  <2>4. SubSeq(q, 1, k - 1) \o SubSeq(q, k + 1, Len(q)) \in Seq(S)
    BY <2>3
  <2> QED BY <1>2, <2>4 DEF WithoutWork, k
<1> QED BY <1>1, <1>2

-----------------------------------------------------------------------------
(* The inductive invariant behind OneOwner: the types, OneOwner itself, and *)
(* that a buffer in the fifo or with the callee holds a fragment, so that   *)
(* it stands for a C-APDU.                                                  *)

BufType ==
    /\ s_cur_buf \in BufOrNull /\ s_asm_drop \in Drops /\ s_apdu_fifo \in Seq(Bufs)
    /\ pool \subseteq Bufs /\ data \in [Bufs -> Contents] /\ handling \in BufOrNull

CtlType ==
    /\ s_state \in States /\ s_session \in {"NONE", "LISTEN"}
    /\ s_ops_registered \in BOOLEAN /\ s_pending_uid \in Uids \cup {NULL}
    /\ s_uid_mutex \in Threads \cup {NULL}
    /\ wq \in Seq(Works) /\ running \in Works \cup {NULL} /\ leaving \in BOOLEAN /\ answered \in BOOLEAN
    /\ pc \in [Threads -> MainLabels \cup UidLabels] /\ arg \in [Threads -> Uids \cup {NULL}]
    /\ to_cancel \in Seq(Works) /\ canceling \in Works \cup {NULL} /\ after_stop \in {"idle", "down_cancel"}
    /\ t4t \in {"down", "ready", "emulating"} /\ nfcid1 \in Uids \cup {NULL}
    /\ rdr \in Readers

Held == Range(s_apdu_fifo) \cup ({handling} \ {NULL})
Filled == \A b \in Held : data[b].frags # <<>>

OwnInv == BufType /\ OneOwner /\ Filled
OwnerInv == CtlType /\ OwnInv

\* The type invariant splits into control state and buffers.
LEMMA TypeParts == TypeOK <=> CtlType /\ BufType
BY DEF TypeOK, CtlType, BufType

\* The items that stop and shutdown cancel are work items.
LEMMA AllWorksType == AllWorks \in Seq(Works) /\ <<>> \in Seq(Works)
BY DEF AllWorks, Works

\* The API calls and the steps of the threads keep the control types.
LEMMA CtlApi ==
    ASSUME CtlType, ApiCall PROVE CtlType'
<1> USE BufsAssumption DEF CtlType, cancelVars, thrVars, wqVars, libVars, apiVars, Goto, Threads,
        MainLabels, UidLabels
<1>1. ASSUME NEW r \in Results, TransportInit(r) PROVE CtlType'
  <2>1. wq' \in Seq(Works)
    <3>1. wq # <<>> => Head(wq) \in Works
      OBVIOUS
    <3>2. CASE wq' = <<>>
      BY <3>2
    <3>3. CASE wq # <<>> /\ wq' = <<Head(wq)>>
      BY <3>1, <3>3
    <3> QED BY <1>1, <3>2, <3>3 DEF TransportInit
  <2>2. QuietReader(rdr.sess, rdr.ser) \in Readers
    BY BoundsAssumption DEF QuietReader, Readers
  <2>3. CASE r = "ok"
    BY <1>1, <2>1, <2>3 DEF TransportInit, InitDone, States
  <2>4. CASE r = "setup"
    BY <1>1, <2>1, <2>4 DEF TransportInit, InitDone
  <2>5. CASE r = "fwi"
    BY <1>1, <2>1, <2>2, <2>5 DEF TransportInit, InitDone, T4tDone
  <2> QED BY <2>3, <2>4, <2>5 DEF Results
<1>2. ASSUME NEW r \in BOOLEAN, RegisterCallbacks(r) PROVE CtlType'
  BY <1>2 DEF RegisterCallbacks
<1>3. ASSUME NEW u \in Uids \cup {NULL}, Start(u) PROVE CtlType'
  BY <1>3 DEF Start, ApplyNfcid1Ok, ApplyNfcid1Fails
<1>4. ASSUME Stop PROVE CtlType'
  BY <1>4 DEF Stop, BeginStop
<1>5. ASSUME Shutdown PROVE CtlType'
  BY <1>5, AllWorksType DEF Shutdown, BeginStop
<1>6. ASSUME NEW t \in Threads, NEW u \in Uids, SetUid(t, u) PROVE CtlType'
  BY <1>6 DEF SetUid
<1> QED BY <1>1, <1>2, <1>3, <1>4, <1>5, <1>6 DEF ApiCall

\* The later steps of start, stop and shutdown keep the control types.
LEMMA CtlMain ==
    ASSUME CtlType, MainStep PROVE CtlType'
<1> USE BufsAssumption DEF CtlType, cancelVars, thrVars, wqVars, libVars, apiVars, Goto, Threads,
        MainLabels, UidLabels
<1>q. QuietReader(rdr.sess, rdr.ser) \in Readers
  BY BoundsAssumption DEF QuietReader, Readers
<1>1. ASSUME StartEmulation PROVE CtlType'
  BY <1>1 DEF StartEmulation, EmulationStartOk, EmulationStartFails
<1>2. ASSUME StartSession PROVE CtlType'
  BY <1>2 DEF StartSession, States
<1>3. ASSUME StopEmulation PROVE CtlType'
  BY <1>3, <1>q, AllWorksType DEF StopEmulation, EmulationStopOk, EmulationStopFails, Lock
<1>4. ASSUME CancelBegin PROVE CtlType'
  <2>1. wq' \in Seq(Works)
    BY <1>4, WithoutWorkType DEF CancelBegin
  <2> QED BY <1>4, <2>1 DEF CancelBegin
<1>5. ASSUME CancelEnd PROVE CtlType'
  BY <1>5 DEF CancelEnd
<1>6. ASSUME DrainOne PROVE CtlType'
  BY <1>6 DEF DrainOne
<1>7. ASSUME StopFinish PROVE CtlType'
  BY <1>7, AllWorksType DEF StopFinish, Unlock, States
<1>8. ASSUME ShutdownDrained PROVE CtlType'
  BY <1>8 DEF ShutdownDrained
<1>9. ASSUME ShutdownDone PROVE CtlType'
  BY <1>9, <1>q, Zenon DEF ShutdownDone, T4tDone, States
<1> QED BY <1>1, <1>2, <1>3, <1>4, <1>5, <1>6, <1>7, <1>8, <1>9 DEF MainStep

\* The steps of set_uid keep the control types.
LEMMA CtlUid ==
    ASSUME CtlType, NEW t \in Threads, UidStep(t) PROVE CtlType'
<1> USE BufsAssumption DEF CtlType, cancelVars, thrVars, wqVars, libVars, apiVars, Goto, Threads,
        MainLabels, UidLabels
<1>q. QuietReader(rdr.sess, rdr.ser) \in Readers
  BY BoundsAssumption DEF QuietReader, Readers
<1>1. ASSUME SetUidStop(t) PROVE CtlType'
  BY <1>1, <1>q DEF SetUidStop, EmulationStopOk, EmulationStopFails, Lock
<1>2. ASSUME SetUidApply(t) PROVE CtlType'
  BY <1>2 DEF SetUidApply, ApplyNfcid1Ok, ApplyNfcid1Fails
<1>3. ASSUME SetUidStart(t) PROVE CtlType'
  BY <1>3 DEF SetUidStart, EmulationStartOk, EmulationStartFails, Unlock, States
<1> QED BY <1>1, <1>2, <1>3 DEF UidStep

\* Submitting a work item keeps the type of the queue.
LEMMA SubmitType ==
    ASSUME wq \in Seq(Works), NEW w \in Works, Submit(w) PROVE wq' \in Seq(Works)
BY DEF Submit

\* The fragment the reader sends next is one within the bounds.
LEMMA FragmentType ==
    ASSUME rdr \in Readers, NEW last \in BOOLEAN, ReaderSends(NextFragment(last))
    PROVE  /\ NextFragment(last) \in Fragments
           /\ ReaderAfter(NextFragment(last)) \in Readers
           /\ [ReaderAfter(NextFragment(last)) EXCEPT !.waiting = FALSE] \in Readers
<1> DEFINE frag == NextFragment(last)
<1>1. /\ rdr.field \in BOOLEAN /\ rdr.sess \in 0..MaxSess /\ rdr.ser \in 0..MaxSerial
      /\ rdr.idx \in 0..MaxFrags /\ rdr.waiting \in BOOLEAN
  BY DEF Readers
<1>2. frag.ser \in 0..MaxSerial /\ frag.idx \in 0..MaxFrags /\ frag.last \in BOOLEAN /\ frag.sess \in 0..MaxSess
  BY <1>1, BoundsAssumption DEF NextFragment, ReaderSends
<1>3. frag \in Fragments
  BY <1>2 DEF NextFragment, Fragments
<1>4. (IF frag.last THEN 0 ELSE frag.idx) \in 0..MaxFrags
  BY <1>2, BoundsAssumption
<1> HIDE DEF frag
<1>5. ReaderAfter(frag) \in Readers
  BY <1>1, <1>2, <1>4, Zenon DEF ReaderAfter, Readers
<1>6. [ReaderAfter(frag) EXCEPT !.waiting = FALSE] \in Readers
  BY <1>5, Zenon DEF Readers
<1> QED BY <1>3, <1>5, <1>6 DEF frag

\* The interrupt keeps the control types.
LEMMA CtlIsr ==
    ASSUME CtlType, Isr PROVE CtlType'
<1> USE BufsAssumption DEF CtlType, thrVars, wqVars, libVars, apiVars
<1>1. ASSUME FieldOn PROVE CtlType'
  <2>1. wq' \in Seq(Works)
    BY <1>1, SubmitType DEF FieldOn, Works
  <2>2. rdr' \in Readers
    <3>1. rdr.sess + 1 \in 0..MaxSess /\ rdr.ser \in 0..MaxSerial
      BY <1>1, BoundsAssumption DEF FieldOn, Readers
    <3>2. QuietReader(rdr.sess + 1, rdr.ser) \in Readers
      BY <3>1, BoundsAssumption DEF QuietReader, Readers
    <3> QED BY <1>1, <3>2, Zenon DEF FieldOn, Readers
  <2> QED BY <1>1, <2>1, <2>2 DEF FieldOn
<1>2. ASSUME FieldOff PROVE CtlType'
  <2>1. wq' \in Seq(Works)
    BY <1>2, SubmitType DEF FieldOff, Works
  <2>2. rdr' \in Readers
    BY <1>2, BoundsAssumption DEF FieldOff, QuietReader, Readers
  <2> QED BY <1>2, <2>1, <2>2 DEF FieldOff
<1>3. ASSUME NEW last \in BOOLEAN, FragmentDropped(last) PROVE CtlType'
  <2>2. rdr' \in Readers
    <3>1. ReaderAfter(NextFragment(last)) \in Readers
      BY <1>3, FragmentType, Zenon DEF FragmentDropped
    <3> QED BY <1>3, <3>1, Zenon DEF FragmentDropped, Readers
  <2> QED BY <1>3, <2>2 DEF FragmentDropped
<1>4. ASSUME NEW last \in BOOLEAN, NEW b \in Bufs, NEW len \in FragLens, FragmentStored(b, len, last)
      PROVE  CtlType'
  <2>1. wq' \in Seq(Works)
    BY <1>4, SubmitType DEF FragmentStored, Works
  <2>2. rdr' \in Readers
    BY <1>4, FragmentType, Zenon DEF FragmentStored
  <2> QED BY <1>4, <2>1, <2>2 DEF FragmentStored
<1>5. ASSUME NEW last \in BOOLEAN, NEW b \in Bufs, NEW len \in FragLens, FragmentOversize(b, len, last)
      PROVE  CtlType'
  <2>1. rdr' \in Readers
    <3>1. ReaderAfter(NextFragment(last)) \in Readers
      BY <1>5, FragmentType DEF FragmentOversize
    <3> QED BY <1>5, <3>1, Zenon DEF FragmentOversize, Readers
  <2> QED BY <1>5, <2>1 DEF FragmentOversize
<1> QED BY <1>1, <1>2, <1>3, <1>4, <1>5 DEF Isr, Fragment

\* The queue thread keeps the control types.
LEMMA CtlWq ==
    ASSUME OwnerInv, WqThread PROVE CtlType'
<1> USE BufsAssumption DEF OwnerInv, CtlType, thrVars, wqVars, libVars, apiVars
<1>1. ASSUME WqTake PROVE CtlType'
  BY <1>1 DEF WqTake
<1>2. ASSUME FieldOnWork \/ FieldOffWork PROVE CtlType'
  BY <1>2 DEF FieldOnWork, FieldOffWork
<1>3. ASSUME ApduWorkGet \/ ApduWorkEmpty \/ ApduWorkEnd \/ ApduUnref PROVE CtlType'
  BY <1>3, ZenonT(60) DEF ApduWorkGet, ApduWorkEmpty, ApduWorkEnd, ApduUnref
<1>4. ASSUME SendResponse PROVE CtlType'
  <2>1. rdr' \in Readers
    BY <1>4, Zenon DEF SendResponse, Readers
  <2> QED BY <1>4, <2>1 DEF SendResponse
<1> QED BY <1>1, <1>2, <1>3, <1>4 DEF WqThread

\* Control types over one step of the transport.
LEMMA CtlStep ==
    ASSUME OwnerInv, [Next]_vars PROVE CtlType'
<1>1. CASE UNCHANGED vars
  BY <1>1 DEF OwnerInv, CtlType, vars, thrVars, wqVars, libVars, apiVars
<1>2. CtlType
  BY DEF OwnerInv
<1> QED BY <1>1, <1>2, CtlApi, CtlMain, CtlUid, CtlIsr, CtlWq DEF Next

-----------------------------------------------------------------------------
(* Ownership, one lemma for each way in which a buffer changes hands *)

\* Nobody's buffer changes.
LEMMA OwnSame ==
    ASSUME OwnInv, UNCHANGED <<s_cur_buf, s_apdu_fifo, pool, data, handling>>, s_asm_drop' \in Drops
    PROVE  OwnInv'
BY DEF OwnInv, BufType, OneOwner, Filled, Held

\* What is in the fifo or with the callee of on_apdu is a buffer.
LEMMA HeldType == ASSUME OwnInv PROVE Held \subseteq Bufs
BY DEF OwnInv, BufType, BufOrNull, Held, Range

\* Unref puts buffers that are in nobody else's hands back in the pool.
LEMMA UnrefType ==
    ASSUME OwnInv, NEW B \in SUBSET Bufs, Unref(B)
    PROVE  /\ pool' \subseteq Bufs /\ data' \in [Bufs -> Contents]
           /\ \A b \in Bufs \ B : data'[b] = data[b]
BY LengthsAssumption DEF OwnInv, BufType, Unref, Empty, Contents

\* discard_cur_buf, from the interrupt or from a thread, keeps one owner.
LEMMA OwnDiscard ==
    ASSUME OwnInv, DiscardCurBuf, UNCHANGED handling PROVE OwnInv'
<1> DEFINE B == {s_cur_buf} \ {NULL}
<1>1. B \in SUBSET Bufs /\ Unref(B)
  BY DEF OwnInv, BufType, BufOrNull, DiscardCurBuf
<1>2. pool' \subseteq Bufs /\ data' \in [Bufs -> Contents] /\ \A b \in Bufs \ B : data'[b] = data[b]
  BY <1>1, UnrefType
<1>3. BufType'
  BY <1>2 DEF OwnInv, BufType, BufOrNull, DiscardCurBuf, Drops
<1>4. Held' = Held /\ Held \subseteq Bufs \ B
  BY DEF OwnInv, BufType, BufOrNull, OneOwner, Held, DiscardCurBuf, Range
<1>5. OneOwner'
  BY <1>1, <1>4 DEF OwnInv, OneOwner, DiscardCurBuf, Unref, Held
<1>6. Filled'
  BY <1>2, <1>4 DEF OwnInv, Filled
<1> QED BY <1>3, <1>5, <1>6 DEF OwnInv

\* The buffer at the head of the fifo leaves it: to the callee of on_apdu ...
LEMMA OwnHandOver ==
    ASSUME OwnInv, s_apdu_fifo # <<>>, s_apdu_fifo' = Tail(s_apdu_fifo),
           handling = NULL, handling' = Head(s_apdu_fifo),
           UNCHANGED <<s_cur_buf, s_asm_drop, pool, data>>
    PROVE  OwnInv'
<1>1. s_apdu_fifo \in Seq(Bufs) /\ Injective(s_apdu_fifo)
  BY DEF OwnInv, BufType, OneOwner, Injective
<1>2. /\ s_apdu_fifo' \in Seq(Bufs) /\ handling' \in Bufs
      /\ Range(s_apdu_fifo) = Range(s_apdu_fifo') \cup {handling'}
      /\ Injective(s_apdu_fifo') /\ handling' \notin Range(s_apdu_fifo')
  BY <1>1, RangeTail
<1>3. BufType'
  BY <1>2 DEF OwnInv, BufType, BufOrNull
<1>4. OneOwner'
  BY <1>2, <1>3 DEF OwnInv, OneOwner, Injective
<1>5. Filled'
  BY <1>2 DEF OwnInv, Filled, Held
<1> QED BY <1>3, <1>4, <1>5 DEF OwnInv

\* ... or back to the pool.
LEMMA OwnDropHead ==
    ASSUME OwnInv, s_apdu_fifo # <<>>, s_apdu_fifo' = Tail(s_apdu_fifo),
           Unref({Head(s_apdu_fifo)}), UNCHANGED <<s_cur_buf, s_asm_drop, handling>>
    PROVE  OwnInv'
<1> DEFINE h == Head(s_apdu_fifo)
<1>1. s_apdu_fifo \in Seq(Bufs) /\ Injective(s_apdu_fifo)
  BY DEF OwnInv, BufType, OneOwner, Injective
<1>2. /\ s_apdu_fifo' \in Seq(Bufs) /\ h \in Bufs
      /\ Range(s_apdu_fifo) = Range(s_apdu_fifo') \cup {h}
      /\ Injective(s_apdu_fifo') /\ h \notin Range(s_apdu_fifo')
  BY <1>1, RangeTail
<1> HIDE DEF h
<1>3. pool' \subseteq Bufs /\ data' \in [Bufs -> Contents] /\ \A b \in Bufs \ {h} : data'[b] = data[b]
  BY <1>2, UnrefType DEF h
<1>4. BufType'
  BY <1>2, <1>3 DEF OwnInv, BufType
<1>5. pool' = pool \cup {h}
  BY DEF Unref, h
<1>6. OneOwner'
  BY <1>2, <1>5 DEF OwnInv, OneOwner, Injective
<1>7. Held' \subseteq Held /\ h \notin Held' /\ Held \subseteq Bufs
  BY <1>2 DEF OwnInv, OneOwner, Held, BufType, BufOrNull, Range
<1>8. Filled'
  BY <1>3, <1>7 DEF OwnInv, Filled
<1> QED BY <1>4, <1>6, <1>8 DEF OwnInv

\* The callee of on_apdu returns its buffer.
LEMMA OwnUnref ==
    ASSUME OwnInv, handling # NULL, Unref({handling}), handling' = NULL,
           UNCHANGED <<s_cur_buf, s_asm_drop, s_apdu_fifo>>
    PROVE  OwnInv'
<1>1. handling \in Bufs
  BY DEF OwnInv, BufType, BufOrNull
<1>2. pool' \subseteq Bufs /\ data' \in [Bufs -> Contents] /\ \A b \in Bufs \ {handling} : data'[b] = data[b]
  BY <1>1, UnrefType
<1>3. BufType'
  BY <1>2 DEF OwnInv, BufType, BufOrNull
<1>4. OneOwner'
  BY <1>1, BufsAssumption DEF OwnInv, OneOwner, Unref
<1>5. Held' \subseteq Held /\ handling \notin Held' /\ Held \subseteq Bufs
  BY <1>1, BufsAssumption DEF OwnInv, OneOwner, Held, BufType, BufOrNull, Range
<1>6. Filled'
  BY <1>2, <1>5 DEF OwnInv, Filled
<1> QED BY <1>3, <1>4, <1>6 DEF OwnInv

\* k_fifo_init forgets the buffers of the fifo; it gives none of them away.
LEMMA OwnForget ==
    ASSUME OwnInv, s_apdu_fifo' = <<>>, UNCHANGED <<s_cur_buf, s_asm_drop, pool, data, handling>>
    PROVE  OwnInv'
<1>1. s_apdu_fifo' \in Seq(Bufs) /\ DOMAIN s_apdu_fifo' = {} /\ Range(s_apdu_fifo') = {}
  BY DEF Range
<1> QED BY <1>1 DEF OwnInv, BufType, OneOwner, Filled, Held

\* A fragment is stored in the buffer being filled or in a fresh one, and the
\* last one moves the buffer to the fifo.
LEMMA OwnStored ==
    ASSUME OwnInv, rdr \in Readers, NEW last \in BOOLEAN, NEW b \in Bufs, NEW len \in FragLens,
           FragmentStored(b, len, last)
    PROVE  OwnInv'
<1> DEFINE frag == NextFragment(last)
<1>1. frag \in Fragments
  BY FragmentType, Zenon DEF FragmentStored
<1> HIDE DEF frag
<1>2. b \notin Range(s_apdu_fifo) /\ b # handling /\ b # NULL
  BY BufsAssumption DEF FragmentStored, Target, OwnInv, OneOwner
<1>0. data[b].len \in 0..BufCap /\ data[b].frags \in Seq(Fragments)
  BY DEF OwnInv, BufType, Contents
<1>3. data[b].len + len \in 0..BufCap
  BY <1>0, LengthsAssumption DEF FragmentStored, FragFits
<1>4. Append(data[b].frags, frag) \in Seq(Fragments) /\ Append(data[b].frags, frag) # <<>>
  BY <1>0, <1>1
<1>5. /\ data' = [data EXCEPT ![b] = [len |-> data[b].len + len, frags |-> Append(data[b].frags, frag)]]
      /\ pool' = pool \ {b} /\ handling' = handling /\ s_asm_drop' = s_asm_drop
      /\ s_cur_buf = NULL \/ s_cur_buf = b
  BY DEF FragmentStored, Target, frag
<1>6. /\ data' \in [Bufs -> Contents] /\ data'[b].frags # <<>>
      /\ \A c \in Bufs \ {b} : data'[c] = data[c]
  BY <1>3, <1>4, <1>5 DEF OwnInv, BufType, Contents
<1>7. CASE last
  <2>1. s_apdu_fifo' = Append(s_apdu_fifo, b) /\ s_cur_buf' = NULL
    BY <1>7 DEF FragmentStored
  <2>2. s_apdu_fifo \in Seq(Bufs) /\ Injective(s_apdu_fifo)
    BY DEF OwnInv, BufType, OneOwner, Injective
  <2>3. /\ s_apdu_fifo' \in Seq(Bufs) /\ Range(s_apdu_fifo') = Range(s_apdu_fifo) \cup {b}
        /\ Injective(s_apdu_fifo')
    BY <1>2, <2>1, <2>2, RangeAppend
  <2>4. BufType'
    BY <1>5, <1>6, <2>1, <2>3 DEF OwnInv, BufType, BufOrNull
  <2>5. OneOwner'
    BY <1>2, <1>5, <2>1, <2>3 DEF OwnInv, OneOwner, Injective
  <2>6. Held' = Held \cup {b} /\ Held \subseteq Bufs
    BY <1>5, <2>3, HeldType DEF Held
  <2>7. Filled'
    BY <1>6, <2>6 DEF OwnInv, Filled
  <2> QED BY <2>4, <2>5, <2>7 DEF OwnInv
<1>8. CASE ~last
  <2>1. s_apdu_fifo' = s_apdu_fifo /\ s_cur_buf' = b
    BY <1>8 DEF FragmentStored
  <2>2. BufType'
    BY <1>5, <1>6, <2>1 DEF OwnInv, BufType, BufOrNull
  <2>3. OneOwner'
    BY <1>2, <1>5, <2>1 DEF OwnInv, OneOwner
  <2>4. Held' = Held /\ Held \subseteq Bufs \ {b}
    BY <1>2, <1>5, <2>1 DEF OwnInv, BufType, BufOrNull, Held, Range
  <2>5. Filled'
    BY <1>6, <2>4 DEF OwnInv, Filled
  <2> QED BY <2>2, <2>3, <2>5 DEF OwnInv
<1> QED BY <1>7, <1>8

\* A fragment that does not fit gives the buffer back, once.
LEMMA OwnOversize ==
    ASSUME OwnInv, NEW last \in BOOLEAN, NEW b \in Bufs, NEW len \in FragLens,
           FragmentOversize(b, len, last), UNCHANGED handling
    PROVE  OwnInv'
<1>1. b \notin Held /\ b # NULL
  BY BufsAssumption DEF FragmentOversize, Target, OwnInv, OneOwner, Held
<1>2. pool' \subseteq Bufs /\ data' \in [Bufs -> Contents] /\ \A c \in Bufs \ {b} : data'[c] = data[c]
  BY UnrefType DEF FragmentOversize
<1>3. BufType'
  BY <1>2 DEF FragmentOversize, OwnInv, BufType, BufOrNull, Drops
<1>4. OneOwner'
  BY <1>1 DEF FragmentOversize, Unref, OwnInv, OneOwner, Held
<1>5. Held' = Held /\ Held \subseteq Bufs \ {b}
  BY <1>1 DEF FragmentOversize, OwnInv, BufType, BufOrNull, Held, Range
<1>6. Filled'
  BY <1>2, <1>5 DEF OwnInv, Filled
<1> QED BY <1>3, <1>4, <1>6 DEF OwnInv

\* Every step keeps one owner for each buffer.
LEMMA OwnStep ==
    ASSUME OwnerInv, [Next]_vars PROVE OwnInv'
<1> USE DEF bufVars, wqVars
<1>o. OwnInv /\ rdr \in Readers /\ s_asm_drop \in Drops
  BY DEF OwnerInv, CtlType, OwnInv, BufType
<1>1. ASSUME ApiCall PROVE OwnInv'
  <2>1. ASSUME NEW r \in Results, TransportInit(r) PROVE OwnInv'
    BY <1>o, <2>1, OwnForget DEF TransportInit
  <2>2. ASSUME NEW r \in BOOLEAN, RegisterCallbacks(r) PROVE OwnInv'
    BY <1>o, <2>2, OwnSame DEF RegisterCallbacks
  <2>3. ASSUME NEW u \in Uids \cup {NULL}, Start(u) PROVE OwnInv'
    BY <1>o, <2>3, OwnSame DEF Start
  <2>4. ASSUME Stop \/ Shutdown PROVE OwnInv'
    BY <1>o, <2>4, OwnSame DEF Stop, Shutdown, BeginStop
  <2>5. ASSUME NEW t \in Threads, NEW u \in Uids, SetUid(t, u) PROVE OwnInv'
    BY <1>o, <2>5, OwnSame DEF SetUid
  <2> QED BY <1>1, <2>1, <2>2, <2>3, <2>4, <2>5 DEF ApiCall
<1>2. ASSUME MainStep PROVE OwnInv'
  <2>1. ASSUME StartEmulation \/ StartSession \/ StopFinish \/ ShutdownDrained \/ ShutdownDone \/ CancelBegin
        PROVE  OwnInv'
    BY <1>o, <2>1, OwnSame DEF StartEmulation, StartSession, StopFinish, ShutdownDrained, ShutdownDone, CancelBegin
  <2>2. ASSUME StopEmulation PROVE OwnInv'
    BY <1>o, <2>2, OwnDiscard DEF StopEmulation
  <2>3. ASSUME CancelEnd PROVE OwnInv'
    BY <1>o, <2>3, OwnDiscard, OwnSame DEF CancelEnd
  <2>4. ASSUME DrainOne PROVE OwnInv'
    BY <1>o, <2>4, OwnDropHead DEF DrainOne
  <2> QED BY <1>2, <2>1, <2>2, <2>3, <2>4 DEF MainStep
<1>3. ASSUME NEW t \in Threads, UidStep(t) PROVE OwnInv'
  <2>1. ASSUME SetUidApply(t) PROVE OwnInv'
    BY <1>o, <2>1, OwnDiscard DEF SetUidApply
  <2>2. ASSUME SetUidStop(t) \/ SetUidStart(t) PROVE OwnInv'
    BY <1>o, <2>2, OwnSame DEF SetUidStop, SetUidStart
  <2> QED BY <1>3, <2>1, <2>2 DEF UidStep
<1>4. ASSUME Isr PROVE OwnInv'
  <2>1. ASSUME FieldOn \/ FieldOff PROVE OwnInv'
    BY <1>o, <2>1, OwnDiscard DEF FieldOn, FieldOff
  <2>2. ASSUME NEW last \in BOOLEAN, FragmentDropped(last) PROVE OwnInv'
    <3>1. s_asm_drop' \in Drops
      BY <1>o, <2>2 DEF FragmentDropped, Drops
    <3> QED BY <1>o, <2>2, <3>1, OwnSame DEF FragmentDropped
  <2>3. ASSUME NEW last \in BOOLEAN, NEW b \in Bufs, NEW len \in FragLens, FragmentStored(b, len, last)
        PROVE  OwnInv'
    BY <1>o, <2>3, OwnStored
  <2>4. ASSUME NEW last \in BOOLEAN, NEW b \in Bufs, NEW len \in FragLens, FragmentOversize(b, len, last)
        PROVE  OwnInv'
    BY <1>o, <2>4, OwnOversize DEF FragmentOversize
  <2> QED BY <1>4, <2>1, <2>2, <2>3, <2>4 DEF Isr, Fragment
<1>5. ASSUME WqThread PROVE OwnInv'
  <2>1. ASSUME WqTake \/ FieldOnWork \/ FieldOffWork \/ ApduWorkEmpty \/ ApduWorkEnd \/ SendResponse PROVE OwnInv'
    BY <1>o, <2>1, OwnSame DEF WqTake, FieldOnWork, FieldOffWork, ApduWorkEmpty, ApduWorkEnd, SendResponse
  <2>2. ASSUME ApduWorkGet PROVE OwnInv'
    BY <1>o, <2>2, OwnHandOver, OwnDropHead DEF ApduWorkGet
  <2>3. ASSUME ApduUnref PROVE OwnInv'
    BY <1>o, <2>3, OwnUnref DEF ApduUnref
  <2> QED BY <1>5, <2>1, <2>2, <2>3 DEF WqThread
<1>6. CASE UNCHANGED vars
  BY <1>o, <1>6, OwnSame DEF vars
<1> QED BY <1>1, <1>2, <1>3, <1>4, <1>5, <1>6 DEF Next

\* The transport starts with every buffer in the pool.
LEMMA OwnerInit == Init => OwnerInv
<1> SUFFICES ASSUME Init PROVE OwnerInv
  OBVIOUS
<1> USE BufsAssumption, LengthsAssumption, BoundsAssumption DEF Init
<1>0. 0 \in 0..MaxSess /\ 0 \in 0..MaxSerial /\ 0 \in 0..MaxFrags
  OBVIOUS
<1>1. rdr \in Readers
  BY <1>0 DEF QuietReader, Readers
<1>a. wq \in Seq(Works) /\ to_cancel \in Seq(Works)
  BY AllWorksType
<1>b. pc \in [Threads -> MainLabels \cup UidLabels] /\ arg \in [Threads -> Uids \cup {NULL}]
  BY DEF MainLabels
<1>2. CtlType
  BY <1>1, <1>a, <1>b, Zenon DEF CtlType, States
<1>3. Empty \in Contents
  BY DEF Empty, Contents
<1>4. BufType
  BY <1>3 DEF BufType, BufOrNull, Drops
<1>5. Range(s_apdu_fifo) = {}
  BY DEF Range
<1> QED BY <1>2, <1>4, <1>5 DEF OwnerInv, OwnInv, OneOwner, Filled, Held

\* Every step keeps the owners apart.
LEMMA OwnersSafe == Spec => []OwnerInv
<1>1. OwnerInv /\ [Next]_vars => OwnerInv'
  BY CtlStep, OwnStep DEF OwnerInv
<1> QED BY <1>1, OwnerInit, PTL DEF Spec

\* In every reachable state of the transport, for any pool, any number of field sessions
\* and APDUs, with the uid rotated from any thread and with any library call failing, a
\* net_buf has at most one owner: none is unreferenced twice.
THEOREM OwnerSafety == Spec => []OneOwner
<1>1. OwnerInv => OneOwner
  BY DEF OwnerInv, OwnInv
<1> QED BY <1>1, OwnersSafe, PTL

\* For the same constants every variable keeps its type: the lengths in the buffers stay
\* within BufCap and the reader within its bounds.
THEOREM NrfxTypeSafety == Spec => []TypeOK
<1>1. OwnerInv => TypeOK
  BY TypeParts DEF OwnerInv, OwnInv
<1> QED BY <1>1, OwnersSafe, PTL

-----------------------------------------------------------------------------
(* One thread makes all the calls                                           *)

\* What the invariants below need of the environment.  A second thread that rotates the
\* uid while the transport is stopped, or a failed restart, breaks them.
Serialized == UidThreads \subseteq {"main"} /\ "start" \notin Faults /\ "stop" \notin Faults

-----------------------------------------------------------------------------
(* The inductive invariant                                                  *)

Main == pc["main"]

\* No event can come, and no C-APDU is half assembled.
Hushed == t4t # "emulating" /\ s_cur_buf = NULL /\ s_asm_drop = "OK"

\* Where the main thread is, the session and the library agree.
Control ==
    /\ pc["aux"] = "idle"
    /\ s_session = "LISTEN" <=> s_state = "STARTED"
    /\ Main \in {"start_emu", "start_session", "down_cancel", "down_drain", "down_done"} => s_session = "NONE"
    /\ Main \in {"stop_lock", "stop_cancel", "stop_drain"} \cup UidLabels => s_session = "LISTEN"
    /\ Main \in {"start_emu", "stop_cancel", "stop_drain", "down_cancel", "down_drain", "down_done",
                 "uid_start", "uid_restore"} => Hushed
    /\ Main = "idle" /\ s_session = "NONE" => Hushed
    /\ Main \in {"idle", "stop_lock", "uid_lock"} /\ s_session = "LISTEN" => t4t = "emulating"
    /\ Main = "start_session" => t4t = "emulating"
    /\ Main \in {"uid_apply", "uid_start", "uid_restore"} => t4t = "ready"

\* The library has the uid that was set last, from nfc_transport_start until the stop.
Uid ==
    /\ s_pending_uid = NULL => nfcid1 = NULL
    /\ Main \in {"start_emu", "start_session", "stop_lock"} \cup UidLabels => nfcid1 = s_pending_uid
    /\ Main = "idle" /\ s_session = "LISTEN" => nfcid1 = s_pending_uid

\* f is what the reader has sent of its current C-APDU, which is not all of it.
Partial(f) ==
    /\ f # <<>> /\ Len(f) = rdr.idx
    /\ \A i \in DOMAIN f : f[i].ser = rdr.ser /\ f[i].sess = rdr.sess /\ f[i].idx = i /\ ~f[i].last

\* While events can come, the assembly is where the reader is; while none can, there is
\* no reader.
Assembly ==
    /\ t4t # "emulating" => rdr.idx = 0 /\ ~rdr.field
    /\ t4t = "emulating" /\ rdr.idx = 0 => s_cur_buf = NULL /\ s_asm_drop = "OK"
    /\ t4t = "emulating" /\ rdr.idx # 0 /\ s_asm_drop = "OK" => s_cur_buf # NULL
    /\ t4t = "emulating" /\ s_cur_buf # NULL => Partial(data[s_cur_buf].frags)

\* A work item is queued once, the callee of on_apdu is called from its handler, and
\* what a stop has cancelled neither waits nor runs.
Queueing ==
    /\ Injective(wq)
    /\ handling # NULL \/ leaving => running = "apdu"
    /\ leaving => handling = NULL
    /\ Main \in {"stop_cancel", "down_cancel"} =>
           Range(wq) \subseteq Range(to_cancel) /\ running \in Range(to_cancel) \cup {canceling, NULL}
    /\ Main \in {"stop_drain", "down_drain", "down_done", "start_emu"} => wq = <<>> /\ running = NULL
    /\ Main = "idle" /\ s_session = "NONE" => wq = <<>> /\ running = NULL

\* nfc_transport_init and nfc_transport_start find the fifo empty.
Drained == Main \in {"start_emu", "down_done"} \/ (Main = "idle" /\ s_session = "NONE") => s_apdu_fifo = <<>>

\* The buffers: none is lost, a free one holds nothing, and what the fifo and the
\* callee hold are whole C-APDUs.
Buffers == NoLeak /\ AssembledWhole /\ \A b \in pool : data[b] = Empty

QuietInv == OwnerInv /\ Control /\ Uid /\ Assembly /\ Queueing /\ Drained /\ Buffers

-----------------------------------------------------------------------------
(* Control                                                                  *)

\* Where a thread goes.
LEMMA GotoMain ==
    ASSUME CtlType, NEW l, Goto("main", l)
    PROVE  Main' = l /\ pc'["aux"] = pc["aux"]
BY DEF CtlType, Goto, Main, Threads

\* Only the main thread rotates the uid.
LEMMA UidThread ==
    ASSUME Serialized, Control, NEW t \in Threads, UidStep(t) \/ \E u \in Uids : SetUid(t, u)
    PROVE  t = "main"
BY DEF Serialized, Control, Threads, UidStep, SetUidStop, SetUidApply, SetUidStart, SetUid

\* An event or a step of the queue leaves the calls and the library where they are, and
\* an event comes only while the library emulates.
LEMMA ControlQuiet ==
    ASSUME Control, Uid, UNCHANGED <<apiVars, thrVars, libVars>>,
           t4t = "emulating" \/ UNCHANGED <<s_cur_buf, s_asm_drop>>
    PROVE  Control' /\ Uid'
BY DEF Control, Uid, Hushed, Main, apiVars, thrVars, libVars

\* Every step keeps calls, session and library in agreement.
LEMMA ControlSteps ==
    ASSUME Serialized, OwnerInv, Control, Uid, [Next]_vars
    PROVE  Control' /\ Uid'
<1>0. CtlType
  BY DEF OwnerInv
<1> USE DEF Hushed, UidLabels
<1>1. CASE Isr
  <2>1. t4t = "emulating" /\ UNCHANGED <<apiVars, thrVars, libVars>>
    BY <1>1, ZenonT(60) DEF Isr, FieldOn, FieldOff, Fragment, FragmentDropped, FragmentStored, FragmentOversize, ReaderSends
  <2> QED BY <2>1, ControlQuiet
<1>2. CASE WqThread
  <2>1. UNCHANGED <<apiVars, thrVars, libVars, s_cur_buf, s_asm_drop>>
    BY <1>2 DEF WqThread, WqTake, FieldOnWork, FieldOffWork, ApduWorkGet, ApduWorkEmpty, ApduWorkEnd, SendResponse,
                ApduUnref, bufVars
  <2> QED BY <2>1, ControlQuiet
<1>3. CASE UNCHANGED vars
  BY <1>3, ControlQuiet DEF vars, bufVars
<1>4. ASSUME NEW r \in Results, TransportInit(r) PROVE Control' /\ Uid'
  <2>1. Main = "idle" /\ s_state \in {"UNINITIALIZED", "STOPPED"} /\ s_session = "NONE" /\ Hushed
    BY <1>0, <1>4 DEF TransportInit, Control, Main, CtlType
  <2>2. UNCHANGED <<pc, s_cur_buf, s_asm_drop, s_pending_uid>>
    BY <1>4 DEF TransportInit, thrVars
  <2>3. /\ s_session' = "NONE" /\ s_state' # "STARTED" /\ t4t' # "emulating"
        /\ nfcid1' \in {nfcid1, NULL}
    BY <1>4, <2>1, Zenon DEF TransportInit, InitDone, Results, T4tDone, libVars
  <2> QED BY <2>1, <2>2, <2>3 DEF Control, Uid, Main
<1>5. ASSUME NEW r \in BOOLEAN, RegisterCallbacks(r) PROVE Control' /\ Uid'
  BY <1>5 DEF RegisterCallbacks, Control, Uid, Main, thrVars, libVars, bufVars
<1>6. ASSUME NEW u \in Uids \cup {NULL}, Start(u) PROVE Control' /\ Uid'
  <2>1. /\ Main = "idle" /\ s_session = "NONE" /\ Hushed
        /\ UNCHANGED <<s_state, s_session, s_cur_buf, s_asm_drop, t4t>>
    BY <1>6 DEF Start, Control, Main, bufVars
  <2>2. CASE Goto("main", "start_emu") /\ nfcid1' = s_pending_uid' /\ UNCHANGED t4t
    <3>1. Main' = "start_emu" /\ pc'["aux"] = pc["aux"]
      BY <1>0, <2>2, GotoMain
    <3> QED BY <2>1, <2>2, <3>1 DEF Control, Uid, Main
  <2>3. CASE UNCHANGED <<pc, s_pending_uid, nfcid1>>
    BY <2>1, <2>3 DEF Control, Uid, Main
  <2> QED BY <1>6, <2>2, <2>3 DEF Start, ApplyNfcid1Ok, ApplyNfcid1Fails, Uid
<1>7. CASE Stop \/ Shutdown
  <2>1. UNCHANGED <<apiVars, libVars, s_cur_buf, s_asm_drop>> /\ Main = "idle"
    BY <1>7 DEF Stop, Shutdown, BeginStop, bufVars, Main
  <2>2. CASE s_session = "LISTEN" /\ Goto("main", "stop_lock")
    <3>1. Main' = "stop_lock" /\ pc'["aux"] = pc["aux"]
      BY <1>0, <2>2, GotoMain
    <3> QED BY <2>1, <2>2, <3>1 DEF Control, Uid, Main, apiVars, libVars
  <2>3. CASE s_session # "LISTEN" /\ Goto("main", "down_cancel")
    <3>1. Main' = "down_cancel" /\ pc'["aux"] = pc["aux"]
      BY <1>0, <2>3, GotoMain
    <3>2. s_session = "NONE"
      BY <1>0, <2>3 DEF CtlType
    <3> QED BY <2>1, <2>3, <3>1, <3>2 DEF Control, Uid, Main, apiVars, libVars
  <2> QED BY <1>7, <2>2, <2>3 DEF Stop, Shutdown, BeginStop
<1>8. ASSUME NEW t \in Threads, NEW u \in Uids, SetUid(t, u) PROVE Control' /\ Uid'
  <2>1. t = "main" /\ Main = "idle"
    BY <1>8, UidThread DEF SetUid, Main
  <2>2. UNCHANGED <<s_state, s_session, s_cur_buf, s_asm_drop, libVars>>
    BY <1>8 DEF SetUid, bufVars
  <2>3. CASE s_session = "LISTEN"
    <3>1. Main' = "uid_lock" /\ pc'["aux"] = pc["aux"] /\ UNCHANGED s_pending_uid
      BY <1>0, <1>8, <2>1, <2>3, GotoMain DEF SetUid
    <3> QED BY <2>1, <2>2, <2>3, <3>1 DEF Control, Uid, Main, libVars
  <2>4. CASE s_session # "LISTEN"
    <3>1. s_pending_uid' = u /\ u # NULL /\ UNCHANGED pc
      BY <1>8, <2>4, BufsAssumption DEF SetUid
    <3> QED BY <2>1, <2>2, <2>4, <3>1 DEF Control, Uid, Main, libVars
  <2> QED BY <2>3, <2>4
<1>9. CASE StartEmulation
  <2>1. Main = "start_emu" /\ UNCHANGED <<apiVars, s_cur_buf, s_asm_drop, nfcid1>>
    BY <1>9 DEF StartEmulation, bufVars, Main
  <2>2. CASE EmulationStartOk /\ Goto("main", "start_session")
    <3>1. Main' = "start_session" /\ pc'["aux"] = pc["aux"] /\ t4t' = "emulating"
      BY <1>0, <2>2, GotoMain DEF EmulationStartOk
    <3> QED BY <2>1, <3>1 DEF Control, Uid, Main, apiVars
  <2>3. CASE EmulationStartFails /\ Goto("main", "idle")
    <3>1. Main' = "idle" /\ pc'["aux"] = pc["aux"] /\ UNCHANGED t4t
      BY <1>0, <2>3, GotoMain DEF EmulationStartFails
    <3> QED BY <2>1, <3>1 DEF Control, Uid, Main, apiVars
  <2> QED BY <1>9, <2>2, <2>3 DEF StartEmulation
<1>10. CASE StartSession
  <2>1. Main = "start_session" /\ Main' = "idle" /\ pc'["aux"] = pc["aux"]
    BY <1>0, <1>10, GotoMain DEF StartSession, Main
  <2> QED BY <1>10, <2>1 DEF StartSession, Control, Uid, Main, bufVars, libVars
<1>11. CASE StopEmulation
  <2>1. Main = "stop_lock" /\ Main' = "stop_cancel" /\ pc'["aux"] = pc["aux"]
    BY <1>0, <1>11, GotoMain DEF StopEmulation, Main
  <2>2. t4t' # "emulating" /\ s_cur_buf' = NULL /\ s_asm_drop' = "OK"
    BY <1>11, <2>1 DEF StopEmulation, EmulationStopOk, EmulationStopFails, MayFail, Serialized, DiscardCurBuf, Control
  <2> QED BY <1>11, <2>1, <2>2 DEF StopEmulation, Control, Uid, Main
<1>12. CASE CancelBegin \/ DrainOne
  <2>1. UNCHANGED <<apiVars, libVars, s_cur_buf, s_asm_drop, pc>>
    BY <1>12 DEF CancelBegin, DrainOne, bufVars, thrVars
  <2> QED BY <2>1 DEF Control, Uid, Main, apiVars, libVars
<1>13. CASE CancelEnd
  <2>1. UNCHANGED <<apiVars, libVars>> /\ Main \in {"stop_cancel", "down_cancel"}
    BY <1>13 DEF CancelEnd, Main
  <2>2. CASE UNCHANGED <<pc, bufVars>>
    BY <2>1, <2>2 DEF Control, Uid, Main, apiVars, libVars, bufVars
  <2>3. CASE Main = "stop_cancel" /\ Goto("main", "stop_drain") /\ UNCHANGED bufVars
    <3>1. Main' = "stop_drain" /\ pc'["aux"] = pc["aux"]
      BY <1>0, <2>3, GotoMain
    <3> QED BY <2>1, <2>3, <3>1 DEF Control, Uid, Main, apiVars, libVars, bufVars
  <2>4. CASE Main = "down_cancel" /\ Goto("main", "down_drain") /\ DiscardCurBuf
    <3>1. Main' = "down_drain" /\ pc'["aux"] = pc["aux"]
      BY <1>0, <2>4, GotoMain
    <3> QED BY <2>1, <2>4, <3>1 DEF Control, Uid, Main, apiVars, libVars, DiscardCurBuf
  <2> QED BY <1>13, <2>2, <2>3, <2>4 DEF CancelEnd, Main
<1>14. CASE StopFinish
  <2>1. Main = "stop_drain" /\ Main' \in {"idle", "down_cancel"} /\ pc'["aux"] = pc["aux"]
    BY <1>0, <1>14, GotoMain DEF StopFinish, Main, CtlType
  <2> QED BY <1>14, <2>1 DEF StopFinish, Control, Uid, Main, bufVars, libVars
<1>15. CASE ShutdownDrained
  <2>1. Main = "down_drain" /\ Main' = "down_done" /\ pc'["aux"] = pc["aux"]
    BY <1>0, <1>15, GotoMain DEF ShutdownDrained, Main
  <2> QED BY <1>15, <2>1 DEF ShutdownDrained, Control, Uid, Main, apiVars, bufVars, libVars
<1>16. CASE ShutdownDone
  <2>1. Main = "down_done" /\ Main' = "idle" /\ pc'["aux"] = pc["aux"]
    BY <1>0, <1>16, GotoMain DEF ShutdownDone, Main
  <2> QED BY <1>16, <2>1 DEF ShutdownDone, T4tDone, Control, Uid, Main, bufVars
<1>17. ASSUME NEW t \in Threads, UidStep(t) PROVE Control' /\ Uid'
  <2>1. t = "main"
    BY <1>17, UidThread
  <2>2. CASE SetUidStop(t)
    <3>1. Main = "uid_lock" /\ t4t = "emulating"
      BY <2>1, <2>2 DEF SetUidStop, Main, Control
    <3>2. EmulationStopOk /\ Goto("main", "uid_apply")
      BY <2>1, <2>2, <3>1 DEF SetUidStop, EmulationStopFails, MayFail, Serialized
    <3>3. Main' = "uid_apply" /\ pc'["aux"] = pc["aux"] /\ t4t' = "ready"
      BY <1>0, <3>1, <3>2, GotoMain DEF EmulationStopOk
    <3> QED BY <2>2, <3>1, <3>3 DEF SetUidStop, Control, Uid, Main, bufVars
  <2>3. CASE SetUidApply(t)
    <3>1. Main = "uid_apply" /\ s_cur_buf' = NULL /\ s_asm_drop' = "OK" /\ UNCHANGED <<s_state, s_session, t4t>>
      BY <2>1, <2>3 DEF SetUidApply, Main, DiscardCurBuf
    <3>2. Main' \in {"uid_start", "uid_restore"} /\ pc'["aux"] = pc["aux"]
      BY <1>0, <2>1, <2>3, GotoMain DEF SetUidApply
    <3>3. nfcid1' = s_pending_uid'
      BY <2>3, <3>1 DEF SetUidApply, ApplyNfcid1Ok, ApplyNfcid1Fails, Uid
    <3> QED BY <3>1, <3>2, <3>3 DEF Control, Uid, Main
  <2>4. CASE SetUidStart(t)
    <3>1. Main \in {"uid_start", "uid_restore"} /\ t4t = "ready"
      BY <2>1, <2>4 DEF SetUidStart, Main, Control
    <3>2. t4t' = "emulating" /\ UNCHANGED <<s_state, s_session, s_pending_uid, nfcid1>>
      BY <2>4, <3>1 DEF SetUidStart, EmulationStartOk, EmulationStartFails, MayFail, Serialized
    <3>3. Main' = "idle" /\ pc'["aux"] = pc["aux"]
      BY <1>0, <2>1, <2>4, GotoMain DEF SetUidStart
    <3> QED BY <3>1, <3>2, <3>3 DEF Control, Uid, Main
  <2> QED BY <1>17, <2>2, <2>3, <2>4 DEF UidStep
<1> QED BY <1>1, <1>2, <1>3, <1>4, <1>5, <1>6, <1>7, <1>8, <1>9, <1>10, <1>11, <1>12, <1>13, <1>14, <1>15, <1>16, <1>17
        DEF Next, ApiCall, MainStep

-----------------------------------------------------------------------------
(* Buffers, one lemma for each way in which one changes hands               *)

\* A buffer whose contents stay holds a whole C-APDU as before.
LEMMA WholeKept ==
    ASSUME AssembledWhole, Held' \subseteq Held, \A b \in Held' : data'[b] = data[b]
    PROVE  AssembledWhole'
BY DEF AssembledWhole, Held

\* Nobody's buffer changes.
LEMMA BuffersSame ==
    ASSUME Buffers, UNCHANGED <<s_cur_buf, s_apdu_fifo, pool, data, handling>>
    PROVE  Buffers'
BY DEF Buffers, NoLeak, AssembledWhole

\* Buffers go back to the pool, from the hands of somebody who gives up the others too
\* only if they are given back.
LEMMA BuffersUnref ==
    ASSUME OwnInv, Buffers, NEW B \in SUBSET Bufs, Unref(B), B \cap Held' = {}, Held' \subseteq Held,
           Bufs \subseteq pool' \cup {s_cur_buf', handling'} \cup Range(s_apdu_fifo')
    PROVE  Buffers'
<1>1. \A b \in Held' : data'[b] = data[b]
  BY HeldType DEF Unref
<1>2. AssembledWhole'
  BY <1>1, WholeKept DEF Buffers
<1>3. \A b \in pool' : data'[b] = Empty
  BY DEF Unref, Buffers, OwnInv, BufType
<1> QED BY <1>2, <1>3 DEF Buffers, NoLeak

\* discard_cur_buf
LEMMA BuffersDiscard ==
    ASSUME OwnInv, Buffers, DiscardCurBuf, UNCHANGED handling PROVE Buffers'
<1> DEFINE B == {s_cur_buf} \ {NULL}
<1>1. B \in SUBSET Bufs /\ Unref(B)
  BY DEF OwnInv, BufType, BufOrNull, DiscardCurBuf
<1>2. Held' = Held /\ B \cap Held = {}
  BY DEF OwnInv, OneOwner, Held, DiscardCurBuf
<1>3. Bufs \subseteq pool' \cup {s_cur_buf', handling'} \cup Range(s_apdu_fifo')
  BY BufsAssumption DEF Buffers, NoLeak, DiscardCurBuf, Unref
<1> HIDE DEF B
<1> QED BY <1>1, <1>2, <1>3, BuffersUnref

\* The head of the fifo goes to the callee of on_apdu ...
LEMMA BuffersHandOver ==
    ASSUME OwnInv, Buffers, s_apdu_fifo # <<>>, s_apdu_fifo' = Tail(s_apdu_fifo),
           handling = NULL, handling' = Head(s_apdu_fifo), UNCHANGED <<s_cur_buf, pool, data>>
    PROVE  Buffers'
<1>1. Range(s_apdu_fifo) = Range(s_apdu_fifo') \cup {handling'}
  BY RangeTail DEF OwnInv, BufType
<1>2. Held' \subseteq Held
  BY <1>1 DEF Held
<1>3. AssembledWhole'
  BY <1>2, WholeKept DEF Buffers
<1>4. NoLeak'
  BY <1>1, BufsAssumption DEF Buffers, NoLeak
<1> QED BY <1>3, <1>4 DEF Buffers

\* ... or back to the pool.
LEMMA BuffersDropHead ==
    ASSUME OwnInv, Buffers, s_apdu_fifo # <<>>, s_apdu_fifo' = Tail(s_apdu_fifo),
           Unref({Head(s_apdu_fifo)}), UNCHANGED <<s_cur_buf, handling>>
    PROVE  Buffers'
<1> DEFINE h == Head(s_apdu_fifo)
<1>1. s_apdu_fifo \in Seq(Bufs) /\ Injective(s_apdu_fifo)
  BY DEF OwnInv, BufType, OneOwner, Injective
<1>2. /\ h \in Bufs /\ Range(s_apdu_fifo) = Range(s_apdu_fifo') \cup {h}
      /\ h \notin Range(s_apdu_fifo')
  BY <1>1, RangeTail
<1> HIDE DEF h
<1>3. Unref({h})
  BY DEF h
<1>4. Held' \subseteq Held /\ {h} \cap Held' = {}
  BY <1>2 DEF Held, OwnInv, OneOwner
<1>5. Bufs \subseteq pool' \cup {s_cur_buf', handling'} \cup Range(s_apdu_fifo')
  BY <1>2, <1>3 DEF Buffers, NoLeak, Unref
<1>6. {h} \in SUBSET Bufs
  BY <1>2
<1> QED BY <1>3, <1>4, <1>5, <1>6, BuffersUnref

\* The callee of on_apdu returns its buffer.
LEMMA BuffersReturned ==
    ASSUME OwnInv, Buffers, handling # NULL, Unref({handling}), handling' = NULL,
           UNCHANGED <<s_cur_buf, s_apdu_fifo>>
    PROVE  Buffers'
<1>1. {handling} \in SUBSET Bufs
  BY DEF OwnInv, BufType, BufOrNull
<1>2. Held' \subseteq Held /\ {handling} \cap Held' = {}
  BY DEF Held, OwnInv, OneOwner
<1>3. Bufs \subseteq pool' \cup {s_cur_buf', handling'} \cup Range(s_apdu_fifo')
  BY DEF Buffers, NoLeak, Unref
<1> QED BY <1>1, <1>2, <1>3, BuffersUnref

\* A fragment that does not fit gives the buffer back.
LEMMA BuffersOversize ==
    ASSUME OwnInv, Buffers, NEW last \in BOOLEAN, NEW b \in Bufs, NEW len \in FragLens,
           FragmentOversize(b, len, last)
    PROVE  Buffers'
<1>1. {b} \in SUBSET Bufs /\ Unref({b}) /\ UNCHANGED <<s_apdu_fifo, handling>> /\ s_cur_buf \in {b, NULL}
  BY DEF FragmentOversize, Target, wqVars
<1>2. Held' = Held /\ {b} \cap Held = {}
  BY <1>1, BufsAssumption DEF FragmentOversize, Target, OwnInv, OneOwner, Held
<1>3. Bufs \subseteq pool' \cup {s_cur_buf', handling'} \cup Range(s_apdu_fifo')
  BY <1>1, BufsAssumption DEF Buffers, NoLeak, Unref
<1> QED BY <1>1, <1>2, <1>3, BuffersUnref

-----------------------------------------------------------------------------
(* Assembly                                                                 *)

\* A fragment that is stored continues what the buffer holds of the C-APDU.
LEMMA StoredContinues ==
    ASSUME OwnerInv, Assembly, Buffers, NEW last \in BOOLEAN, NEW b \in Bufs, NEW len \in FragLens,
           FragmentStored(b, len, last)
    PROVE  LET f == data[b].frags
           IN  /\ f \in Seq(Fragments) /\ Len(f) = rdr.idx
               /\ data'[b].frags = Append(f, NextFragment(last))
               /\ \A i \in DOMAIN f : f[i].ser = NextFragment(last).ser /\ f[i].sess = rdr.sess /\ f[i].idx = i /\ ~f[i].last
<1> DEFINE f == data[b].frags
<1>1. f \in Seq(Fragments) /\ rdr.idx \in Nat
  BY BoundsAssumption DEF OwnerInv, OwnInv, BufType, CtlType, Contents, Readers
<1>2. data'[b].frags = Append(f, NextFragment(last))
  BY DEF FragmentStored, OwnerInv, OwnInv, BufType, Contents
<1>3. t4t = "emulating" /\ s_asm_drop = "OK"
  BY DEF FragmentStored, ReaderSends, Target
<1>4. CASE s_cur_buf = NULL
  <2>1. b \in pool /\ rdr.idx = 0
    BY <1>3, <1>4, BufsAssumption DEF FragmentStored, Target, Assembly
  <2>2. f = <<>>
    BY <2>1 DEF Buffers, Empty
  <2> HIDE DEF f
  <2> QED BY <1>1, <1>2, <2>1, <2>2 DEF f
<1>5. CASE s_cur_buf # NULL
  <2>1. b = s_cur_buf /\ Partial(f) /\ rdr.idx # 0
    BY <1>3, <1>5 DEF FragmentStored, Target, Assembly
  <2>2. NextFragment(last).ser = rdr.ser
    BY <2>1 DEF NextFragment
  <2> HIDE DEF f
  <2> QED BY <1>1, <1>2, <2>1, <2>2 DEF f, Partial
<1> QED BY <1>4, <1>5

\* A fragment that is stored: the last one makes the C-APDU whole.
LEMMA BuffersStored ==
    ASSUME OwnerInv, Assembly, Buffers, NEW last \in BOOLEAN, NEW b \in Bufs, NEW len \in FragLens,
           FragmentStored(b, len, last)
    PROVE  Buffers'
<1> DEFINE f == data[b].frags
           g == data'[b].frags
           frag == NextFragment(last)
<1>1. /\ f \in Seq(Fragments) /\ Len(f) = rdr.idx /\ g = Append(f, frag)
      /\ \A i \in DOMAIN f : f[i].ser = frag.ser /\ f[i].idx = i /\ ~f[i].last
  BY StoredContinues
<1>2. frag.idx = Len(f) + 1 /\ frag.last = last
  BY <1>1 DEF NextFragment
<1>3. /\ pool' = pool \ {b} /\ UNCHANGED handling /\ s_cur_buf \in {b, NULL}
      /\ \A c \in Bufs \ {b} : data'[c] = data[c]
      /\ b \notin Held
  BY BufsAssumption DEF FragmentStored, Target, OwnerInv, OwnInv, OneOwner, BufType, Held
<1>4. s_apdu_fifo' = IF last THEN Append(s_apdu_fifo, b) ELSE s_apdu_fifo
  BY DEF FragmentStored
<1>5. Range(s_apdu_fifo') = IF last THEN Range(s_apdu_fifo) \cup {b} ELSE Range(s_apdu_fifo)
  BY <1>4, RangeAppend, ZenonT(60) DEF OwnerInv, OwnInv, BufType
<1>6. s_cur_buf' = IF last THEN NULL ELSE b
  BY DEF FragmentStored
<1>7. NoLeak'
  BY <1>3, <1>5, <1>6, BufsAssumption DEF Buffers, NoLeak
<1>8. \A c \in pool' : data'[c] = Empty
  BY <1>3 DEF Buffers, OwnerInv, OwnInv, BufType
<1>9. Held' = IF last THEN Held \cup {b} ELSE Held
  BY <1>3, <1>5 DEF Held
<1>10. Held \subseteq Bufs
  BY HeldType DEF OwnerInv
<1>11. ASSUME last
       PROVE  g # <<>> /\ \A i \in DOMAIN g : g[i].ser = g[1].ser /\ g[i].idx = i /\ (g[i].last <=> i = Len(g))
  <2> HIDE DEF f, g, frag
  <2>1. Len(g) = Len(f) + 1 /\ DOMAIN g = 1..(Len(f) + 1) /\ g[Len(f) + 1] = frag /\ Len(f) \in Nat
    BY <1>1
  <2>2. ASSUME NEW i \in 1..Len(f) PROVE g[i] = f[i] /\ i \in DOMAIN f
    BY <1>1, <2>2
  <2>3. ASSUME NEW i \in DOMAIN g PROVE g[i].ser = frag.ser /\ g[i].idx = i /\ (g[i].last <=> i = Len(g))
    <3>1. CASE i = Len(f) + 1
      BY <1>2, <1>11, <2>1, <3>1, Zenon
    <3>2. CASE i # Len(f) + 1
      <4>1. i \in 1..Len(f) /\ i # Len(g)
        BY <2>1, <2>3, <3>2
      <4> QED BY <1>1, <2>2, <4>1
    <3> QED BY <3>1, <3>2
  <2>4. 1 \in DOMAIN g /\ g # <<>>
    BY <2>1
  <2> QED BY <2>3, <2>4
<1>12. \A c \in Held : c \in Bufs \ {b}
  BY <1>3, <1>10
<1>13. AssembledWhole'
  <2>1. ASSUME NEW c \in Held PROVE data'[c] = data[c]
    BY <1>3, <1>12, <2>1
  <2>2. CASE ~last
    BY <1>9, <2>1, <2>2, WholeKept DEF Buffers
  <2>3. CASE last
    BY <1>9, <1>11, <2>1, <2>3 DEF Buffers, AssembledWhole, Held
  <2> QED BY <2>2, <2>3
<1> QED BY <1>7, <1>8, <1>13 DEF Buffers

\* Every step keeps the buffers.
LEMMA BuffersStep ==
    ASSUME OwnerInv, Control, Assembly, Drained, Buffers, [Next]_vars
    PROVE  Buffers'
<1> USE DEF bufVars, wqVars
<1>o. OwnInv
  BY DEF OwnerInv
<1>1. ASSUME ApiCall PROVE Buffers'
  <2>1. ASSUME NEW r \in Results, TransportInit(r) PROVE Buffers'
    <3>1. s_apdu_fifo = <<>>
      BY <2>1 DEF TransportInit, Control, Drained, Main, OwnerInv, CtlType
    <3> QED BY <2>1, <3>1, BuffersSame DEF TransportInit
  <2>2. ASSUME NEW r \in BOOLEAN, RegisterCallbacks(r) PROVE Buffers'
    BY <2>2, BuffersSame DEF RegisterCallbacks
  <2>3. ASSUME NEW u \in Uids \cup {NULL}, Start(u) PROVE Buffers'
    BY <2>3, BuffersSame DEF Start
  <2>4. ASSUME Stop \/ Shutdown PROVE Buffers'
    BY <2>4, BuffersSame DEF Stop, Shutdown, BeginStop
  <2>5. ASSUME NEW t \in Threads, NEW u \in Uids, SetUid(t, u) PROVE Buffers'
    BY <2>5, BuffersSame DEF SetUid
  <2> QED BY <1>1, <2>1, <2>2, <2>3, <2>4, <2>5 DEF ApiCall
<1>2. ASSUME MainStep PROVE Buffers'
  <2>1. ASSUME StartEmulation \/ StartSession \/ StopFinish \/ ShutdownDrained \/ ShutdownDone \/ CancelBegin
        PROVE  Buffers'
    BY <2>1, BuffersSame DEF StartEmulation, StartSession, StopFinish, ShutdownDrained, ShutdownDone, CancelBegin
  <2>2. ASSUME StopEmulation PROVE Buffers'
    BY <1>o, <2>2, BuffersDiscard DEF StopEmulation
  <2>3. ASSUME CancelEnd PROVE Buffers'
    BY <1>o, <2>3, BuffersDiscard, BuffersSame DEF CancelEnd
  <2>4. ASSUME DrainOne PROVE Buffers'
    BY <1>o, <2>4, BuffersDropHead DEF DrainOne
  <2> QED BY <1>2, <2>1, <2>2, <2>3, <2>4 DEF MainStep
<1>3. ASSUME NEW t \in Threads, UidStep(t) PROVE Buffers'
  <2>1. ASSUME SetUidApply(t) PROVE Buffers'
    BY <1>o, <2>1, BuffersDiscard DEF SetUidApply
  <2>2. ASSUME SetUidStop(t) \/ SetUidStart(t) PROVE Buffers'
    BY <2>2, BuffersSame DEF SetUidStop, SetUidStart
  <2> QED BY <1>3, <2>1, <2>2 DEF UidStep
<1>4. ASSUME Isr PROVE Buffers'
  <2>1. ASSUME FieldOn \/ FieldOff PROVE Buffers'
    BY <1>o, <2>1, BuffersDiscard DEF FieldOn, FieldOff
  <2>2. ASSUME NEW last \in BOOLEAN, FragmentDropped(last) PROVE Buffers'
    BY <2>2, BuffersSame DEF FragmentDropped
  <2>3. ASSUME NEW last \in BOOLEAN, NEW b \in Bufs, NEW len \in FragLens,
               FragmentStored(b, len, last) \/ FragmentOversize(b, len, last)
        PROVE  Buffers'
    BY <1>o, <2>3, BuffersStored, BuffersOversize
  <2> QED BY <1>4, <2>1, <2>2, <2>3 DEF Isr, Fragment
<1>5. ASSUME WqThread PROVE Buffers'
  <2>1. ASSUME WqTake \/ FieldOnWork \/ FieldOffWork \/ ApduWorkEmpty \/ ApduWorkEnd \/ SendResponse PROVE Buffers'
    BY <2>1, BuffersSame DEF WqTake, FieldOnWork, FieldOffWork, ApduWorkEmpty, ApduWorkEnd, SendResponse
  <2>2. ASSUME ApduWorkGet PROVE Buffers'
    BY <1>o, <2>2, BuffersHandOver, BuffersDropHead DEF ApduWorkGet
  <2>3. ASSUME ApduUnref PROVE Buffers'
    BY <1>o, <2>3, BuffersReturned DEF ApduUnref
  <2> QED BY <1>5, <2>1, <2>2, <2>3 DEF WqThread
<1>6. CASE UNCHANGED vars
  BY <1>6, BuffersSame DEF vars
<1> QED BY <1>1, <1>2, <1>3, <1>4, <1>5, <1>6 DEF Next

\* The assembly follows the reader, whatever the interrupt is called with.
LEMMA AssemblyIsr ==
    ASSUME OwnerInv, Assembly, Buffers, Isr
    PROVE  Assembly'
<1>0. rdr.idx \in Nat /\ rdr \in Readers
  BY BoundsAssumption DEF OwnerInv, CtlType, Readers
<1>1. ASSUME FieldOn \/ FieldOff PROVE Assembly'
  <2>1. rdr'.idx = 0 /\ s_cur_buf' = NULL /\ s_asm_drop' = "OK"
    BY <1>1 DEF FieldOn, FieldOff, QuietReader, DiscardCurBuf
  <2>2. t4t' = "emulating"
    BY <1>1 DEF FieldOn, FieldOff, libVars
  <2> QED BY <2>1, <2>2 DEF Assembly
<1>2. ASSUME NEW last \in BOOLEAN, FragmentDropped(last) PROVE Assembly'
  <2>1. /\ s_cur_buf' = NULL /\ t4t' = "emulating"
        /\ s_asm_drop' = "OK" <=> last
    BY <1>2 DEF FragmentDropped, ReaderSends, libVars
  <2>2. rdr'.idx = IF last THEN 0 ELSE rdr.idx + 1
    BY <1>0, <1>2 DEF FragmentDropped, ReaderAfter, NextFragment, Readers
  <2> QED BY <1>0, <2>1, <2>2 DEF Assembly
<1>3. ASSUME NEW last \in BOOLEAN, NEW b \in Bufs, NEW len \in FragLens, FragmentOversize(b, len, last)
      PROVE  Assembly'
  <2>1. /\ s_cur_buf' = NULL /\ t4t' = "emulating"
        /\ s_asm_drop' = "OK" <=> last
    BY <1>3 DEF FragmentOversize, ReaderSends, libVars
  <2>2. rdr'.idx = IF last THEN 0 ELSE rdr.idx + 1
    BY <1>0, <1>3 DEF FragmentOversize, ReaderAfter, NextFragment, Readers
  <2> QED BY <1>0, <2>1, <2>2 DEF Assembly
<1>4. ASSUME NEW last \in BOOLEAN, NEW b \in Bufs, NEW len \in FragLens, FragmentStored(b, len, last)
      PROVE  Assembly'
  <2> DEFINE f == data[b].frags
             g == data'[b].frags
             frag == NextFragment(last)
  <2>1. /\ f \in Seq(Fragments) /\ Len(f) = rdr.idx /\ g = Append(f, frag)
        /\ \A i \in DOMAIN f : f[i].ser = frag.ser /\ f[i].sess = rdr.sess /\ f[i].idx = i /\ ~f[i].last
    BY <1>4, StoredContinues
  <2>2. frag.idx = rdr.idx + 1 /\ frag.last = last /\ frag.sess = rdr.sess
    BY DEF NextFragment
  <2>3. /\ s_cur_buf' = IF last THEN NULL ELSE b
        /\ s_asm_drop' = "OK" /\ t4t' = "emulating" /\ b # NULL
    BY <1>4, BufsAssumption DEF FragmentStored, Target, ReaderSends, libVars
  <2>4. rdr'.idx = (IF last THEN 0 ELSE rdr.idx + 1) /\ rdr'.ser = frag.ser /\ rdr'.sess = rdr.sess
    BY <1>0, <1>4, <2>2 DEF FragmentStored, ReaderAfter, Readers
  <2>5. CASE last
    BY <2>3, <2>4, <2>5 DEF Assembly
  <2>6. CASE ~last
    <3> HIDE DEF f, g, frag
    <3>1. Len(g) = Len(f) + 1 /\ DOMAIN g = 1..(Len(f) + 1) /\ g[Len(f) + 1] = frag /\ Len(f) \in Nat
      BY <2>1
    <3>2. ASSUME NEW i \in 1..Len(f) PROVE g[i] = f[i] /\ i \in DOMAIN f
      BY <2>1, <3>2
    <3>3. ASSUME NEW i \in DOMAIN g PROVE g[i].ser = rdr'.ser /\ g[i].sess = rdr'.sess /\ g[i].idx = i /\ ~g[i].last
      <4>1. CASE i = Len(f) + 1
        BY <2>1, <2>2, <2>4, <2>6, <3>1, <4>1
      <4>2. CASE i # Len(f) + 1
        <5>1. i \in 1..Len(f)
          BY <3>1, <3>3, <4>2
        <5> QED BY <2>1, <2>4, <3>2, <5>1
      <4> QED BY <4>1, <4>2
    <3>4. g # <<>> /\ Len(g) = rdr'.idx
      BY <2>1, <2>4, <2>6, <3>1
    <3>5. (Partial(data[s_cur_buf].frags))'
      BY <2>3, <2>6, <3>3, <3>4 DEF Partial, g
    <3> QED BY <1>0, <2>3, <2>4, <2>6, <3>5 DEF Assembly
  <2> QED BY <2>5, <2>6
<1> QED BY <1>1, <1>2, <1>3, <1>4 DEF Isr, Fragment

\* A step that leaves the buffer being filled and what the reader has sent alone.
LEMMA AssemblySame ==
    ASSUME Assembly, UNCHANGED <<s_cur_buf, s_asm_drop, t4t>>,
           rdr'.idx = rdr.idx, rdr'.ser = rdr.ser, rdr'.sess = rdr.sess, rdr'.field = rdr.field,
           s_cur_buf # NULL => data'[s_cur_buf] = data[s_cur_buf]
    PROVE  Assembly'
<1>1. s_cur_buf # NULL /\ Partial(data[s_cur_buf].frags) => (Partial(data[s_cur_buf].frags))'
  BY DEF Partial
<1> QED BY <1>1 DEF Assembly

\* A step that ends with the library silent and the reader gone.
LEMMA AssemblySilent ==
    ASSUME t4t' # "emulating", rdr'.idx = 0, ~rdr'.field PROVE Assembly'
BY DEF Assembly

\* Every step keeps the assembly where the reader is.
LEMMA AssemblyStep ==
    ASSUME Serialized, OwnerInv, Control, Assembly, Buffers, [Next]_vars
    PROVE  Assembly'
<1> USE DEF bufVars, wqVars, libVars
<1>0. rdr \in Readers /\ \A sess, ser : QuietReader(sess, ser).idx = 0 /\ ~QuietReader(sess, ser).field
  BY DEF OwnerInv, CtlType, QuietReader
<1>1. ASSUME WqThread PROVE Assembly'
  <2>1. UNCHANGED <<s_cur_buf, s_asm_drop, t4t>>
    BY <1>1 DEF WqThread, WqTake, FieldOnWork, FieldOffWork, ApduWorkGet, ApduWorkEmpty, ApduWorkEnd, SendResponse,
                ApduUnref
  <2>2. rdr'.idx = rdr.idx /\ rdr'.ser = rdr.ser /\ rdr'.sess = rdr.sess /\ rdr'.field = rdr.field
    BY <1>0, <1>1 DEF WqThread, WqTake, FieldOnWork, FieldOffWork, ApduWorkGet, ApduWorkEmpty, ApduWorkEnd,
                SendResponse, ApduUnref, Readers
  <2>3. s_cur_buf # NULL => data'[s_cur_buf] = data[s_cur_buf]
    <3>1. CASE UNCHANGED data
      BY <3>1
    <3>2. ASSUME NEW b, s_cur_buf # b, Unref({b}) PROVE s_cur_buf # NULL => data'[s_cur_buf] = data[s_cur_buf]
      BY <3>2 DEF Unref, OwnerInv, OwnInv, BufType, BufOrNull
    <3>3. CASE ApduWorkGet
      <4>1. CASE s_cur_buf = NULL
        BY <4>1
      <4>2. CASE s_cur_buf # NULL
        <5>1. Head(s_apdu_fifo) \in Range(s_apdu_fifo)
          BY <3>3, RangeTail DEF ApduWorkGet, OwnerInv, OwnInv, BufType
        <5>2. s_cur_buf # Head(s_apdu_fifo)
          BY <4>2, <5>1 DEF OwnerInv, OwnInv, OneOwner
        <5> QED BY <3>1, <3>2, <3>3, <5>2, Zenon DEF ApduWorkGet
      <4> QED BY <4>1, <4>2
    <3>4. CASE ApduUnref
      BY <3>2, <3>4 DEF ApduUnref, OwnerInv, OwnInv, OneOwner
    <3> QED BY <1>1, <3>1, <3>3, <3>4 DEF WqThread, WqTake, FieldOnWork, FieldOffWork, ApduWorkEmpty, ApduWorkEnd,
                SendResponse
  <2> QED BY <2>1, <2>2, <2>3, AssemblySame
<1>2. ASSUME NEW r \in Results, TransportInit(r) PROVE Assembly'
  <2>1. t4t # "emulating"
    BY <1>2 DEF TransportInit, Control, Main, Hushed, OwnerInv, CtlType
  <2>2. t4t' # "emulating" /\ (UNCHANGED rdr \/ (rdr'.idx = 0 /\ ~rdr'.field))
    BY <1>0, <1>2, <2>1, Zenon DEF TransportInit, InitDone, T4tDone, Results
  <2> QED BY <2>1, <2>2, AssemblySilent DEF Assembly
<1>3. ASSUME UNCHANGED <<bufVars, t4t, rdr>> PROVE Assembly'
  BY <1>3, AssemblySame
<1>4. ASSUME ApiCall PROVE Assembly'
  <2>1. CASE \E u \in Uids \cup {NULL} : Start(u)
    BY <1>3, <2>1 DEF Start
  <2>2. CASE (\E r \in BOOLEAN : RegisterCallbacks(r)) \/ Stop \/ Shutdown \/ \E t \in Threads, u \in Uids : SetUid(t, u)
    BY <1>3, <2>2 DEF RegisterCallbacks, Stop, Shutdown, BeginStop, SetUid
  <2> QED BY <1>2, <1>4, <2>1, <2>2 DEF ApiCall
<1>5. ASSUME NEW t \in Threads, UidStep(t) PROVE Assembly'
  <2>1. t = "main"
    BY <1>5, UidThread
  <2>2. CASE SetUidStop(t)
    <3>1. t4t = "emulating"
      BY <2>1, <2>2 DEF SetUidStop, Control, Main, UidLabels
    <3>2. EmulationStopOk
      BY <2>2, <3>1 DEF SetUidStop, EmulationStopFails, MayFail, Serialized
    <3> QED BY <1>0, <3>1, <3>2, AssemblySilent DEF EmulationStopOk
  <2>3. CASE SetUidApply(t)
    <3>1. t4t # "emulating" /\ UNCHANGED <<t4t, rdr>>
      BY <2>1, <2>3 DEF SetUidApply, Control, Main
    <3> QED BY <3>1, AssemblySilent DEF Assembly
  <2>4. CASE SetUidStart(t)
    <3>1. Hushed
      BY <2>1, <2>4 DEF SetUidStart, Control, Main
    <3> QED BY <2>4, <3>1 DEF SetUidStart, Hushed, Assembly
  <2> QED BY <1>5, <2>2, <2>3, <2>4 DEF UidStep
<1>6. ASSUME MainStep PROVE Assembly'
  <2>1. CASE StartSession \/ StopFinish \/ ShutdownDrained \/ CancelBegin
    BY <1>3, <2>1 DEF StartSession, StopFinish, ShutdownDrained, CancelBegin
  <2>2. CASE StartEmulation
    <3>1. Hushed
      BY <2>2 DEF StartEmulation, Control, Main
    <3> QED BY <2>2, <3>1 DEF StartEmulation, Hushed, Assembly
  <2>3. CASE StopEmulation
    <3>1. t4t = "emulating"
      BY <2>3 DEF StopEmulation, Control, Main
    <3>2. EmulationStopOk
      BY <2>3, <3>1 DEF StopEmulation, EmulationStopFails, MayFail, Serialized
    <3> QED BY <1>0, <3>1, <3>2, AssemblySilent DEF EmulationStopOk
  <2>4. CASE CancelEnd \/ DrainOne
    <3>1. t4t # "emulating" /\ UNCHANGED <<t4t, rdr>>
      BY <2>4 DEF CancelEnd, DrainOne, Control, Main, Hushed
    <3> QED BY <3>1, AssemblySilent DEF Assembly
  <2>5. CASE ShutdownDone
    BY <1>0, <2>5, AssemblySilent DEF ShutdownDone, T4tDone
  <2> QED BY <1>6, <2>1, <2>2, <2>3, <2>4, <2>5 DEF MainStep
<1>7. CASE UNCHANGED vars
  BY <1>3, <1>7 DEF vars
<1> QED BY <1>1, <1>4, <1>5, <1>6, <1>7, AssemblyIsr DEF Next

-----------------------------------------------------------------------------
(* The fifo and the queue                                                   *)

\* A transport that is stopped stays drained.
LEMMA DrainedStep ==
    ASSUME Serialized, OwnerInv, Control, Drained, [Next]_vars
    PROVE  Drained'
<1> USE DEF bufVars, wqVars, libVars
<1>0. CtlType
  BY DEF OwnerInv
<1>1. ASSUME Isr PROVE Drained'
  <2>1. t4t = "emulating" /\ UNCHANGED <<apiVars, thrVars>>
    BY <1>1, ZenonT(60) DEF Isr, FieldOn, FieldOff, Fragment, FragmentDropped, FragmentStored, FragmentOversize, ReaderSends
  <2> QED BY <2>1 DEF Control, Hushed, Drained, Main, apiVars, thrVars
<1>2. ASSUME WqThread PROVE Drained'
  <2>1. UNCHANGED <<apiVars, thrVars>> /\ (s_apdu_fifo # <<>> \/ UNCHANGED s_apdu_fifo)
    BY <1>2 DEF WqThread, WqTake, FieldOnWork, FieldOffWork, ApduWorkGet, ApduWorkEmpty, ApduWorkEnd, SendResponse,
                ApduUnref
  <2> QED BY <2>1 DEF Drained, Main, apiVars, thrVars
<1>3. ASSUME NEW r \in Results, TransportInit(r) PROVE Drained'
  BY <1>3 DEF TransportInit, Drained
<1>4. ASSUME ApiCall, ~\E r \in Results : TransportInit(r) PROVE Drained'
  <2>1. Main = "idle" /\ UNCHANGED <<s_session, s_apdu_fifo>>
    BY <1>4, Zenon DEF ApiCall, RegisterCallbacks, Start, Stop, Shutdown, BeginStop, SetUid, Main, apiVars, Serialized
  <2>2. UNCHANGED pc \/ s_session = "NONE" \/ Main' \in {"stop_lock", "uid_lock"}
    <3>1. CASE s_session = "NONE"
      BY <3>1
    <3>2. CASE s_session # "NONE" /\ \E t \in Threads, u \in Uids : SetUid(t, u)
      <4>1. PICK t \in Threads, u \in Uids : SetUid(t, u)
        BY <3>2
      <4>2. Goto("main", "uid_lock") \/ UNCHANGED pc
        BY <4>1, UidThread DEF SetUid
      <4> QED BY <1>0, <4>2, GotoMain
    <3>3. CASE s_session # "NONE" /\ ~\E t \in Threads, u \in Uids : SetUid(t, u)
      <4>1. s_session = "LISTEN"
        BY <1>0, <3>3 DEF CtlType
      <4>2. Goto("main", "stop_lock") \/ UNCHANGED pc
        BY <1>4, <3>3, <4>1 DEF ApiCall, RegisterCallbacks, Start, Stop, Shutdown, BeginStop, thrVars
      <4> QED BY <1>0, <4>2, GotoMain
    <3> QED BY <3>1, <3>2, <3>3
  <2> QED BY <2>1, <2>2 DEF Drained, Main
<1>5. ASSUME MainStep PROVE Drained'
  <2>1. CASE StartEmulation
    BY <2>1 DEF StartEmulation, Drained, Main
  <2>2. CASE StartSession
    <3>1. Main' = "idle" /\ s_session' = "LISTEN"
      BY <1>0, <2>2, GotoMain DEF StartSession
    <3> QED BY <3>1 DEF Drained
  <2>3. CASE StopEmulation
    <3>1. Main' = "stop_cancel"
      BY <1>0, <2>3, GotoMain DEF StopEmulation
    <3> QED BY <3>1 DEF Drained
  <2>4. CASE CancelBegin \/ DrainOne
    BY <2>4 DEF CancelBegin, DrainOne, Drained, Main, thrVars
  <2>5. CASE CancelEnd
    <3>1. Main' \in {"stop_cancel", "down_cancel", "stop_drain", "down_drain"}
      BY <1>0, <2>5, GotoMain DEF CancelEnd, Main
    <3> QED BY <3>1 DEF Drained
  <2>6. CASE StopFinish \/ ShutdownDrained
    BY <2>6 DEF StopFinish, ShutdownDrained, Drained
  <2>7. CASE ShutdownDone
    BY <2>7 DEF ShutdownDone, Drained, Main
  <2> QED BY <1>5, <2>1, <2>2, <2>3, <2>4, <2>5, <2>6, <2>7 DEF MainStep
<1>6. ASSUME NEW t \in Threads, UidStep(t) PROVE Drained'
  <2>1. t = "main" /\ Main \in UidLabels /\ s_session = "LISTEN"
    BY <1>6, UidThread DEF UidStep, SetUidStop, SetUidApply, SetUidStart, Main, UidLabels, Control
  <2>2. Main \in {"uid_start", "uid_restore"} => t4t = "ready"
    BY DEF Control
  <2>3. UNCHANGED s_session
    BY <1>6, <2>1, <2>2 DEF UidStep, SetUidStop, SetUidApply, SetUidStart, EmulationStartFails, MayFail, Serialized, Main
  <2>4. Main' \in {"idle", "uid_apply", "uid_start", "uid_restore"}
    BY <1>0, <1>6, <2>1, GotoMain DEF UidStep, SetUidStop, SetUidApply, SetUidStart
  <2> QED BY <2>1, <2>3, <2>4 DEF Drained
<1>7. CASE UNCHANGED vars
  BY <1>7 DEF vars, Drained, Main, apiVars, thrVars
<1> QED BY <1>1, <1>2, <1>3, <1>4, <1>5, <1>6, <1>7 DEF Next

\* What k_work_cancel_sync takes out of the queue is no longer in it.
LEMMA WithoutWorkRange ==
    ASSUME NEW S, NEW q \in Seq(S), NEW w, Injective(q)
    PROVE  Injective(WithoutWork(q, w)) /\ Range(WithoutWork(q, w)) \subseteq Range(q) \ {w}
<1>1. CASE w \notin Range(q)
  BY <1>1 DEF WithoutWork
<1>2. CASE w \in Range(q)
  <2> DEFINE k == CHOOSE i \in DOMAIN q : q[i] = w
             before == SubSeq(q, 1, k - 1)
             after == SubSeq(q, k + 1, Len(q))
             r == before \o after
             from(i) == IF i < k THEN i ELSE i + 1
  <2>1. k \in DOMAIN q /\ q[k] = w
    BY <1>2 DEF Range
  <2>2. k \in 1..Len(q) /\ Len(q) \in Nat /\ DOMAIN q = 1..Len(q)
    BY <2>1
  <2>3. WithoutWork(q, w) = r
    BY <1>2, Zenon DEF WithoutWork
  <2> HIDE DEF k
  <2>4. /\ before \in Seq(S) /\ Len(before) = k - 1 /\ \A i \in 1..(k - 1) : before[i] = q[i]
        /\ after \in Seq(S) /\ Len(after) = Len(q) - k /\ \A i \in 1..(Len(q) - k) : after[i] = q[k + i]
    <3>1. SubSeq(q, 1, k - 1) \in Seq(S) /\ SubSeq(q, k + 1, Len(q)) \in Seq(S)
      BY <2>2
    <3>2. Len(SubSeq(q, 1, k - 1)) = k - 1 /\ Len(SubSeq(q, k + 1, Len(q))) = Len(q) - k
      <4>1. \A i \in 1..Len(q) : q[i] \in S
        BY <2>2
      <4>2. ASSUME NEW m \in Int, NEW n \in Int, \A i \in m..n : q[i] \in S, m <= n + 1
            PROVE  Len(SubSeq(q, m, n)) = n - m + 1
        <5> DEFINE l == Len(SubSeq(q, m, n))
        <5>1. l = IF m <= n THEN n - m + 1 ELSE 0
          BY <4>2
        <5> HIDE DEF l
        <5>2. l = n - m + 1
          BY <4>2, <5>1
        <5> QED BY <5>2 DEF l
      <4>3. 1 \in Int /\ k - 1 \in Int /\ k + 1 \in Int /\ Len(q) \in Int /\ 1 <= (k - 1) + 1 /\ k + 1 <= Len(q) + 1
        BY <2>2
      <4>4. (\A i \in 1..(k - 1) : q[i] \in S) /\ \A i \in (k + 1)..Len(q) : q[i] \in S
        BY <2>2, <4>1
      <4>5. Len(SubSeq(q, 1, k - 1)) = (k - 1) - 1 + 1 /\ Len(SubSeq(q, k + 1, Len(q))) = Len(q) - (k + 1) + 1
        BY <4>2, <4>3, <4>4, Zenon
      <4>6. (k - 1) - 1 + 1 = k - 1 /\ Len(q) - (k + 1) + 1 = Len(q) - k
        BY <2>2
      <4> QED BY <4>5, <4>6, Zenon
    <3>3. \A i \in 1..(k - 1) : SubSeq(q, 1, k - 1)[i] = q[i]
      BY <2>2
    <3>4. \A i \in 1..(Len(q) - k) : SubSeq(q, k + 1, Len(q))[i] = q[k + i]
      BY <2>2
    <3> QED BY <3>1, <3>2, <3>3, <3>4
  <2> HIDE DEF before, after
  <2>5. /\ r \in Seq(S) /\ Len(r) = Len(before) + Len(after)
        /\ \A i \in 1..Len(r) : r[i] = IF i <= Len(before) THEN before[i] ELSE after[i - Len(before)]
    <3>1. r \in Seq(S)
      BY <2>4
    <3>2. Len(r) = Len(before) + Len(after)
      BY <2>4, LenConcat, Zenon
    <3>3. ASSUME NEW i \in 1..Len(r) PROVE r[i] = IF i <= Len(before) THEN before[i] ELSE after[i - Len(before)]
      BY <2>4, <3>2, <3>3
    <3> QED BY <3>1, <3>2, <3>3
  <2> HIDE DEF r
  <2>0. DOMAIN r = 1..(Len(q) - 1) /\ Len(r) = Len(q) - 1
    BY <2>2, <2>4, <2>5
  <2>6. ASSUME NEW i \in DOMAIN r PROVE from(i) \in DOMAIN q /\ from(i) # k /\ r[i] = q[from(i)]
    <3>1. i \in 1..(Len(q) - 1) /\ i \in Nat /\ k \in Nat
      BY <2>0, <2>2, <2>6
    <3>2. CASE i < k
      <4>1. i \in 1..(k - 1) /\ i <= Len(before) /\ i \in 1..Len(r) /\ i \in DOMAIN q
        BY <2>0, <2>2, <2>4, <3>1, <3>2
      <4>2. r[i] = before[i] /\ before[i] = q[i]
        BY <2>4, <2>5, <4>1
      <4> QED BY <3>1, <3>2, <4>1, <4>2
    <3>3. CASE ~(i < k)
      <4>1. i - (k - 1) \in 1..(Len(q) - k) /\ k + (i - (k - 1)) = i + 1 /\ ~(i <= Len(before)) /\ i \in 1..Len(r)
        BY <2>0, <2>2, <2>4, <3>1, <3>3
      <4>2. r[i] = after[i - (k - 1)] /\ after[i - (k - 1)] = q[i + 1]
        BY <2>4, <2>5, <4>1
      <4>3. i + 1 \in DOMAIN q /\ i + 1 # k
        BY <2>2, <3>1, <3>3
      <4> QED BY <3>3, <4>2, <4>3
    <3> QED BY <3>2, <3>3
  <2>7. ASSUME NEW i \in DOMAIN r, NEW j \in DOMAIN r, from(i) = from(j) PROVE i = j
    BY <2>0, <2>2, <2>7
  <2> HIDE DEF from
  <2>8. Injective(r)
    BY <2>6, <2>7 DEF Injective
  <2>9. Range(r) \subseteq Range(q) \ {w}
    BY <2>1, <2>6 DEF Injective, Range
  <2> QED BY <2>3, <2>8, <2>9
<1> QED BY <1>1, <1>2

\* An item is submitted once.
LEMMA SubmitOnce ==
    ASSUME wq \in Seq(Works), Injective(wq), NEW w \in Works, Submit(w) PROVE Injective(wq')
BY RangeAppend DEF Submit

\* No item of the queue is NULL.
LEMMA WorkIsItem == NULL \notin Works
BY BufsAssumption DEF Works

\* Every handler that runs is in the queue's list of what is to be cancelled.
LEMMA AllWorksRange == Range(AllWorks) = Works
<1>1. DOMAIN AllWorks = 1..3 /\ AllWorks[1] = "field_on" /\ AllWorks[2] = "field_off" /\ AllWorks[3] = "apdu"
  BY DEF AllWorks
<1> QED BY <1>1 DEF Range, Works

\* A step that leaves the queue alone, and goes where as much is known of it.
LEMMA QueueingSame ==
    ASSUME Queueing, UNCHANGED <<wq, running, handling, leaving>>,
           Main' \in {"stop_cancel", "down_cancel"} => Main' = Main /\ UNCHANGED <<to_cancel, canceling>>,
           Main' \in {"stop_drain", "down_drain", "down_done", "start_emu"} \/ (Main' = "idle" /\ s_session' = "NONE")
               => \/ Main \in {"stop_drain", "down_drain", "down_done", "start_emu"}
                  \/ Main = "idle" /\ s_session = "NONE"
    PROVE  Queueing'
BY DEF Queueing, Injective

\* Every step keeps the queue in order.
LEMMA QueueingStep ==
    ASSUME Serialized, OwnerInv, Control, Queueing, [Next]_vars
    PROVE  Queueing'
<1> USE DEF wqVars, cancelVars
<1>0. CtlType /\ wq \in Seq(Works) /\ to_cancel \in Seq(Works) /\ running \in Works \cup {NULL}
  BY DEF OwnerInv, CtlType
<1>1. ASSUME Isr PROVE Queueing'
  <2>1. t4t = "emulating" /\ UNCHANGED <<apiVars, thrVars, running, handling, leaving>>
    BY <1>1, ZenonT(60) DEF Isr, FieldOn, FieldOff, Fragment, FragmentDropped, FragmentStored, FragmentOversize, ReaderSends
  <2>2. Injective(wq')
    <3>1. UNCHANGED wq \/ \E w \in Works : Submit(w)
      BY <1>1, ZenonT(60) DEF Isr, FieldOn, FieldOff, Fragment, FragmentDropped, FragmentStored, FragmentOversize, Works
    <3> QED BY <1>0, <3>1, SubmitOnce DEF Queueing
  <2> QED BY <2>1, <2>2 DEF Queueing, Control, Hushed, Main, apiVars, thrVars
<1>2. ASSUME WqThread PROVE Queueing'
  <2>0. UNCHANGED <<apiVars, thrVars>>
    BY <1>2 DEF WqThread, WqTake, FieldOnWork, FieldOffWork, ApduWorkGet, ApduWorkEmpty, ApduWorkEnd, SendResponse,
                ApduUnref
  <2>1. CASE WqTake
    <3>1. /\ running = NULL /\ wq # <<>> /\ running' = Head(wq) /\ wq' = Tail(wq)
          /\ UNCHANGED <<handling, leaving>>
      BY <2>1 DEF WqTake
    <3>2. /\ Injective(wq') /\ running' \in Range(wq) /\ Range(wq') \subseteq Range(wq)
      BY <1>0, <3>1, RangeTail DEF Queueing
    <3>3. handling = NULL /\ ~leaving
      BY <3>1, WorkIsItem DEF Queueing, Works
    <3> QED BY <2>0, <3>1, <3>2, <3>3 DEF Queueing, Main, apiVars, thrVars
  <2>2. CASE FieldOnWork \/ FieldOffWork \/ ApduWorkEnd
    <3>1. running # NULL /\ running' = NULL /\ UNCHANGED <<wq, handling>> /\ handling = NULL /\ ~leaving'
      BY <2>2, WorkIsItem DEF FieldOnWork, FieldOffWork, ApduWorkEnd, Queueing, Works
    <3> QED BY <2>0, <3>1 DEF Queueing, Main, apiVars, thrVars, Injective
  <2>3. CASE ApduWorkGet \/ ApduWorkEmpty \/ SendResponse \/ ApduUnref
    <3>1. running = "apdu" /\ UNCHANGED <<wq, running>> /\ (leaving' => handling' = NULL)
      BY <2>3 DEF ApduWorkGet, ApduWorkEmpty, SendResponse, ApduUnref, Queueing
    <3> QED BY <2>0, <3>1 DEF Queueing, Main, apiVars, thrVars, Injective
  <2> QED BY <1>2, <2>1, <2>2, <2>3 DEF WqThread
<1>3. ASSUME NEW r \in Results, TransportInit(r) PROVE Queueing'
  <2>1. Main = "idle" /\ s_session = "NONE" /\ UNCHANGED <<pc, running, handling, leaving>>
    BY <1>0, <1>3 DEF TransportInit, Control, Main, CtlType, thrVars
  <2>2. wq = <<>> /\ wq' = <<>>
    BY <1>3, <2>1 DEF TransportInit, Queueing
  <2> QED BY <2>1, <2>2 DEF Queueing, Main
<1>4. ASSUME ApiCall, ~\E r \in Results : TransportInit(r) PROVE Queueing'
  <2>1. Main = "idle" /\ UNCHANGED <<s_session, wq, running, handling, leaving>>
    BY <1>4, Zenon DEF ApiCall, RegisterCallbacks, Start, Stop, Shutdown, BeginStop, SetUid, Main, apiVars, Serialized
  <2>2. CASE \E t \in Threads, u \in Uids : SetUid(t, u)
    <3>1. PICK t \in Threads, u \in Uids : SetUid(t, u)
      BY <2>2
    <3>2. Goto("main", "uid_lock") \/ UNCHANGED pc
      BY <3>1, UidThread DEF SetUid
    <3>3. Main' = "uid_lock" \/ UNCHANGED Main
      BY <1>0, <3>2, GotoMain DEF Main
    <3> QED BY <2>1, <3>3, QueueingSame
  <2>3. CASE (\E r \in BOOLEAN : RegisterCallbacks(r)) \/ \E then \in {"idle", "down_cancel"} : BeginStop(then)
    <3>1. Goto("main", "stop_lock") \/ UNCHANGED pc
      BY <2>3 DEF RegisterCallbacks, BeginStop, thrVars
    <3>2. Main' = "stop_lock" \/ UNCHANGED Main
      BY <1>0, <3>1, GotoMain DEF Main
    <3> QED BY <2>1, <3>2, QueueingSame
  <2>4. CASE \E u \in Uids \cup {NULL} : Start(u)
    <3>1. s_session = "NONE" /\ (Goto("main", "start_emu") \/ UNCHANGED pc)
      BY <2>4 DEF Start
    <3>2. Main' \in {"start_emu", "idle"}
      BY <1>0, <2>1, <3>1, GotoMain DEF Main
    <3> QED BY <2>1, <3>1, <3>2, QueueingSame
  <2>5. CASE s_session # "LISTEN" /\ Goto("main", "down_cancel") /\ to_cancel' = AllWorks
    <3>1. Main' = "down_cancel" /\ s_session = "NONE"
      BY <1>0, <2>5, GotoMain DEF CtlType
    <3>2. wq = <<>> /\ running = NULL
      BY <2>1, <3>1 DEF Queueing
    <3>3. Range(wq) = {}
      BY <3>2 DEF Range
    <3> QED BY <2>1, <3>1, <3>2, <3>3 DEF Queueing, Injective
  <2> QED BY <1>4, <2>2, <2>3, <2>4, <2>5 DEF ApiCall, Stop, Shutdown
<1>5. ASSUME NEW t \in Threads, UidStep(t) PROVE Queueing'
  <2>1. t = "main" /\ Main \in UidLabels /\ s_session = "LISTEN"
    BY <1>5, UidThread DEF UidStep, SetUidStop, SetUidApply, SetUidStart, Main, UidLabels, Control
  <2>2. Main \in {"uid_start", "uid_restore"} => t4t = "ready"
    BY DEF Control
  <2>3. UNCHANGED <<s_session, wq, running, handling, leaving>>
    BY <1>5, <2>1, <2>2 DEF UidStep, SetUidStop, SetUidApply, SetUidStart, EmulationStartFails, MayFail, Serialized, Main
  <2>4. Main' \in {"idle", "uid_apply", "uid_start", "uid_restore"}
    BY <1>0, <1>5, <2>1, GotoMain DEF UidStep, SetUidStop, SetUidApply, SetUidStart
  <2> QED BY <2>1, <2>3, <2>4, QueueingSame
<1>6. ASSUME MainStep PROVE Queueing'
  <2>1. CASE StartEmulation \/ StartSession \/ ShutdownDrained \/ ShutdownDone \/ DrainOne
    <3>1. UNCHANGED <<wq, running, handling, leaving>>
      BY <2>1 DEF StartEmulation, StartSession, ShutdownDrained, ShutdownDone, DrainOne
    <3>2. \/ Main \in {"start_emu", "down_drain", "down_done"} /\ Main' \in {"start_session", "idle", "down_done"}
          \/ Main = "start_session" /\ Main' = "idle" /\ s_session' = "LISTEN"
          \/ Main \in {"stop_drain", "down_drain"} /\ UNCHANGED pc
      BY <1>0, <2>1, GotoMain DEF StartEmulation, StartSession, ShutdownDrained, ShutdownDone, DrainOne, Main, thrVars
    <3> QED BY <3>1, <3>2, QueueingSame DEF Main
  <2>2. CASE StopEmulation
    <3>1. Main' = "stop_cancel" /\ to_cancel' = AllWorks /\ UNCHANGED <<wq, running, handling, leaving>>
      BY <1>0, <2>2, GotoMain DEF StopEmulation
    <3>2. Range(wq) \subseteq Works
      BY <1>0 DEF Range
    <3> QED BY <1>0, <3>1, <3>2, AllWorksRange DEF Queueing, Injective, Range
  <2>3. CASE CancelBegin
    <3> DEFINE h == Head(to_cancel)
    <3>1. /\ Main \in {"stop_cancel", "down_cancel"} /\ UNCHANGED <<pc, running, handling, leaving>>
          /\ canceling = NULL /\ to_cancel # <<>>
          /\ canceling' = h /\ to_cancel' = Tail(to_cancel) /\ wq' = WithoutWork(wq, h)
      BY <2>3 DEF CancelBegin, Main
    <3>2. Range(to_cancel) = Range(to_cancel') \cup {h}
      BY <1>0, <3>1, RangeTail
    <3> HIDE DEF h
    <3>3. Injective(wq') /\ Range(wq') \subseteq Range(wq) \ {h}
      BY <1>0, <3>1, WithoutWorkRange DEF Queueing
    <3> QED BY <3>1, <3>2, <3>3 DEF Queueing, Main
  <2>4. CASE CancelEnd
    <3>1. /\ Main \in {"stop_cancel", "down_cancel"} /\ UNCHANGED <<wq, running, handling, leaving, to_cancel>>
          /\ canceling' = NULL /\ running # canceling
      BY <2>4 DEF CancelEnd, Main
    <3>2. Range(wq) \subseteq Range(to_cancel) /\ running \in Range(to_cancel) \cup {NULL}
      BY <3>1 DEF Queueing
    <3>3. CASE to_cancel # <<>>
      <4>1. UNCHANGED pc
        BY <2>4, <3>3 DEF CancelEnd
      <4> QED BY <3>1, <3>2, <4>1 DEF Queueing, Main, Injective, Range
    <3>4. CASE to_cancel = <<>>
      <4>1. Range(to_cancel) = {}
        BY <3>4 DEF Range
      <4>2. running = NULL /\ Range(wq) = {}
        BY <3>2, <4>1
      <4>3. wq = <<>>
        BY <1>0, <4>2, RangeTail
      <4>4. Main' \in {"stop_drain", "down_drain"}
        BY <1>0, <2>4, <3>4, GotoMain DEF CancelEnd
      <4> QED BY <3>1, <4>2, <4>3, <4>4 DEF Queueing, Injective
    <3> QED BY <3>3, <3>4
  <2>5. CASE StopFinish
    <3>1. Main = "stop_drain" /\ Main' \in {"idle", "down_cancel"} /\ UNCHANGED <<wq, running, handling, leaving>>
      BY <1>0, <2>5, GotoMain DEF StopFinish, Main, CtlType
    <3>2. wq = <<>> /\ running = NULL
      BY <3>1 DEF Queueing
    <3>3. Range(wq) = {}
      BY <3>2 DEF Range
    <3> QED BY <3>1, <3>2, <3>3 DEF Queueing, Injective, Range
  <2> QED BY <1>6, <2>1, <2>2, <2>3, <2>4, <2>5 DEF MainStep
<1>7. CASE UNCHANGED vars
  BY <1>7, QueueingSame DEF vars, Main, apiVars, thrVars
<1> QED BY <1>1, <1>2, <1>3, <1>4, <1>5, <1>6, <1>7 DEF Next

-----------------------------------------------------------------------------

\* The transport starts quiet.
LEMMA QuietInit == Init => QuietInv
<1> SUFFICES ASSUME Init PROVE QuietInv
  OBVIOUS
<1>1. Main = "idle" /\ pc["aux"] = "idle"
  BY DEF Init, Main, Threads
<1>2. Control /\ Uid
  BY <1>1 DEF Init, Control, Uid, Hushed, UidLabels
<1>3. Assembly
  BY DEF Init, Assembly, QuietReader
<1>4. Queueing /\ Drained
  BY <1>1 DEF Init, Queueing, Drained, Injective
<1>5. Range(s_apdu_fifo) = {}
  BY DEF Init, Range
<1>6. Buffers
  BY <1>5 DEF Init, Buffers, NoLeak, AssembledWhole
<1> QED BY <1>2, <1>3, <1>4, <1>6, OwnerInit DEF QuietInv

\* Every step keeps the invariant.
LEMMA QuietSafe == ASSUME Serialized PROVE Spec => []QuietInv
<1>1. QuietInv /\ [Next]_vars => QuietInv'
  BY ControlSteps, BuffersStep, AssemblyStep, DrainedStep, QueueingStep, CtlStep, OwnStep DEF QuietInv, OwnerInv
<1> QED BY <1>1, QuietInit, PTL DEF Spec

\* With one thread making the calls and a library that starts and stops the emulation
\* when asked, for every pool, every reader and every other failure: a stopped transport
\* has nothing queued, assembled or running (k_work_cancel_sync of every item).
THEOREM QuietSafety == ASSUME Serialized PROVE Spec => []StoppedIsQuiet
<1>1. ASSUME QuietInv PROVE StoppedIsQuiet
  <2> USE <1>1
  <2>1. Idle => Main = "idle"
    BY DEF Idle, Main, Threads
  <2>2. s_session \in {"NONE", "LISTEN"}
    BY DEF QuietInv, OwnerInv, CtlType
  <2>3. ASSUME Main = "idle", s_session = "NONE" PROVE Hushed /\ s_apdu_fifo = <<>> /\ wq = <<>> /\ running = NULL
    BY <2>3 DEF QuietInv, Control, Queueing, Drained
  <2>4. running = NULL => handling = NULL
    BY WorkIsItem DEF QuietInv, Queueing, Works
  <2> QED BY <2>1, <2>2, <2>3, <2>4 DEF StoppedIsQuiet, QuietInv, Control, Hushed
<1> QED BY <1>1, QuietSafe, PTL

\* For the same constants no buffer is lost (the drain loops of nfc_transport_stop and
\* nfc_transport_shutdown), however often the transport is stopped, shut down and started.
THEOREM LeakSafety == ASSUME Serialized PROVE Spec => []NoLeak
<1>1. QuietInv => NoLeak
  BY DEF QuietInv, Buffers
<1> QED BY <1>1, QuietSafe, PTL

\* For the same constants, while the transport listens the uid that was set last is in
\* force (apply_nfcid1).
THEOREM UidSafety == ASSUME Serialized PROVE Spec => []UidInForce
<1>1. ASSUME QuietInv PROVE UidInForce
  <2>1. Idle => Main = "idle"
    BY DEF Idle, Main, Threads
  <2> QED BY <1>1, <2>1 DEF UidInForce, QuietInv, Control, Uid
<1> QED BY <1>1, QuietSafe, PTL

\* For the same constants, what on_apdu gets is one whole C-APDU (nfc_hal_on_fragment and
\* discard_cur_buf).
THEOREM WholeSafety == ASSUME Serialized PROVE Spec => []AssembledWhole
<1>1. QuietInv => AssembledWhole
  BY DEF QuietInv, Buffers
<1> QED BY <1>1, QuietSafe, PTL

=============================================================================
