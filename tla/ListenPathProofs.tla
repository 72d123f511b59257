-------------------------- MODULE ListenPathProofs --------------------------
(***************************************************************************)
(* Proofs about ListenPath: for any number of C-APDUs and field sessions,   *)
(* an Aliro session never outlives its selection, never refuses commands    *)
(* for a job that will not end, and reaches DONE on evidence of its own;    *)
(* C-APDUs are handed over in the order the reader sent them; and no        *)
(* selection survives the field it was made in.                             *)
(***************************************************************************)
EXTENDS ListenPath, TLAPS

\* Most leaves are first-order: Zenon first, the SMT solver for the others.
USE ZenonT(3), SMTT(30)

Auth1Good == [ins |-> "AUTH1", data |-> "good"]
ExchangeGood == [ins |-> "EXCHANGE", data |-> "good"]

\* What each state and each buffer of the service has seen since its SELECT
Evidence ==
    /\ s_auth1_sig = "good" => Auth1Good \in evidence
    /\ s_exchange_data = "good" => ExchangeGood \in evidence
    /\ al_state \in {"AWAIT_EXCHANGE", "DONE"} => Auth1Good \in evidence
    /\ al_state = "DONE" => ExchangeGood \in evidence

\* The table names the two services, and only on_apdu on the queue thread has a C-APDU;
\* a crypto handler that has run has cleared the flag.
Thread ==
    /\ \A i \in DOMAIN s_table : s_table[i].svc \in {Ndef, Aliro}
    /\ current # NULL => running = "apdu"
    /\ handled => current # NULL \/ running = "crypto"
    /\ running = "crypto" /\ handled => ~s_crypto_inflight
    /\ canceling = NULL
    /\ wq \in Seq(TransportWorks \cup Deferred)

PathInv == Thread /\ Evidence /\ SessionIsRouted /\ InflightIsPending

-----------------------------------------------------------------------------
(* What a step does to the queue                                            *)

\* k_work_submit_to_queue leaves its item queued, and the others.
LEMMA EnqueueFacts ==
    ASSUME Thread, NEW w \in TransportWorks \cup Deferred, w # NULL, Enqueue(w)
    PROVE  /\ wq' \in Seq(TransportWorks \cup Deferred)
           /\ Queued(w)' /\ \A y : Queued(y) => Queued(y)'
<1>1. CASE Queued(w)
  <2>1. wq' = wq
    BY <1>1 DEF Enqueue
  <2> QED BY <1>1, <2>1 DEF Queued, Thread
<1>2. CASE ~Queued(w)
  <2>1. wq' = Append(wq, w)
    BY <1>2 DEF Enqueue, Thread
  <2>2. /\ wq' \in Seq(TransportWorks \cup Deferred) /\ Len(wq) \in Nat
        /\ DOMAIN wq' = 1..(Len(wq) + 1) /\ DOMAIN wq = 1..Len(wq)
    BY <2>1 DEF Thread
  <2>3. wq'[Len(wq) + 1] = w /\ \A i \in DOMAIN wq : i \in DOMAIN wq' /\ wq'[i] = wq[i]
    BY <2>1, <2>2 DEF Thread
  <2>4. Queued(w)'
    BY <2>2, <2>3 DEF Queued
  <2>5. \A y : Queued(y) => Queued(y)'
    BY <2>3 DEF Queued
  <2> QED BY <2>2, <2>4, <2>5
<1> QED BY <1>1, <1>2

\* The queue thread takes the first item and leaves the others.
LEMMA TakeFacts ==
    ASSUME Thread, wq # <<>>, wq' = Tail(wq)
    PROVE  /\ wq' \in Seq(TransportWorks \cup Deferred)
           /\ \A y : Queued(y) => Queued(y)' \/ y = Head(wq)
<1>1. Len(wq) \in Nat \ {0} /\ DOMAIN wq = 1..Len(wq) /\ Head(wq) = wq[1]
  BY DEF Thread
<1>2. wq' \in Seq(TransportWorks \cup Deferred) /\ DOMAIN wq' = 1..(Len(wq) - 1)
  BY <1>1 DEF Thread
<1>3. \A i \in DOMAIN wq' : wq'[i] = wq[i + 1]
  BY <1>1, <1>2 DEF Thread
<1>4. ASSUME NEW y, Queued(y), y # Head(wq) PROVE Queued(y)'
  <2>1. PICK i \in DOMAIN wq : wq[i] = y
    BY <1>4 DEF Queued
  <2>2. i - 1 \in DOMAIN wq' /\ wq'[i - 1] = y
    BY <1>1, <1>2, <1>3, <1>4, <2>1
  <2> QED BY <2>2 DEF Queued
<1> QED BY <1>2, <1>4

\* A step that leaves the queue alone leaves what is queued.
LEMMA SameQueue ==
    ASSUME UNCHANGED wq
    PROVE  \A y : Queued(y)' <=> Queued(y)
BY DEF Queued

\* A response goes to the reader and touches nothing else of the pipe.
LEMMA AnswerFacts ==
    ASSUME NEW a, Answer(a)
    PROVE  UNCHANGED <<fifo, wq, running, canceling, current>>
BY DEF Answer, Respond, pipeVars

-----------------------------------------------------------------------------
(* The invariant holds and every step keeps it                              *)

\* The path begins with nobody selected and nothing in hand.
LEMMA InitInv == Init => PathInv
<1> SUFFICES ASSUME Init PROVE PathInv
  OBVIOUS
<1>1. \A i \in DOMAIN s_table : s_table[i].svc \in {Ndef, Aliro}
  BY DEF Init
<1>2. Thread
  BY <1>1 DEF Init, Thread
<1>3. Evidence /\ SessionIsRouted /\ InflightIsPending
  BY DEF Init, Service!AliroInit, Evidence, SessionIsRouted, InflightIsPending
<1> QED BY <1>2, <1>3 DEF PathInv

\* A step of the pipe that leaves router and services alone: what was queued is still
\* queued or runs now.
LEMMA PipeStepInv ==
    ASSUME PathInv, UNCHANGED <<routerVars, aliroVars, handled, evidence, canceling>>,
           wq' \in Seq(TransportWorks \cup Deferred),
           current' # NULL => running' = "apdu",
           handled => UNCHANGED <<running, current>>,
           Queued("crypto") \/ running = "crypto" => Queued("crypto")' \/ running' = "crypto"
    PROVE  PathInv'
<1> USE DEF PathInv
<1>1. UNCHANGED <<s_table, s_active_svc, al_state, s_crypto_inflight, s_auth1_sig, s_exchange_data>>
  BY DEF routerVars, aliroVars
<1>2. Thread'
  BY <1>1 DEF Thread
<1>3. Evidence' /\ SessionIsRouted'
  BY <1>1 DEF Evidence, SessionIsRouted
<1>4. InflightIsPending'
  BY <1>1 DEF InflightIsPending
<1> QED BY <1>2, <1>3, <1>4

\* The reader: the field and the C-APDUs.
LEMMA ReaderInv == PathInv /\ ReaderStep => PathInv'
<1> SUFFICES ASSUME PathInv, ReaderStep PROVE PathInv'
  OBVIOUS
<1> USE DEF PathInv
<1>1. UNCHANGED <<routerVars, aliroVars, handled, evidence, canceling, running, current>>
  BY DEF ReaderStep, PipeFieldOn, PipeFieldOff, ReceiveApdu, LoseApdu
<1>2. \/ \E w \in {"field_on", "field_off", "apdu"} : Enqueue(w)
      \/ UNCHANGED wq
  BY DEF ReaderStep, PipeFieldOn, PipeFieldOff, ReceiveApdu, LoseApdu
<1>3. wq' \in Seq(TransportWorks \cup Deferred) /\ (Queued("crypto") => Queued("crypto")')
  <2>1. CASE UNCHANGED wq
    BY <2>1, SameQueue DEF Thread
  <2>2. ASSUME NEW w \in {"field_on", "field_off", "apdu"}, Enqueue(w)
        PROVE  wq' \in Seq(TransportWorks \cup Deferred) /\ (Queued("crypto") => Queued("crypto")')
    <3>1. w \in TransportWorks \cup Deferred /\ w # NULL
      BY <2>2, ListenAssumption DEF TransportWorks
    <3> QED BY <2>2, <3>1, EnqueueFacts
  <2> QED BY <1>2, <2>1, <2>2
<1> QED BY <1>1, <1>3, PipeStepInv DEF Thread

\* The queue thread between the handlers.
LEMMA QueueInv == PathInv /\ QueueStep => PathInv'
<1> SUFFICES ASSUME PathInv, QueueStep PROVE PathInv'
  OBVIOUS
<1> USE DEF PathInv
<1>1. UNCHANGED <<routerVars, aliroVars, handled, evidence, canceling>>
  BY DEF QueueStep, TakeWork, DeliverApdu, EndWork, ghosts
<1>2. CASE TakeWork
  <2>1. running = NULL /\ wq # <<>> /\ running' = Head(wq) /\ wq' = Tail(wq) /\ current' = current
    BY <1>2 DEF TakeWork
  <2>2. ~handled /\ current = NULL
    BY <2>1, ListenAssumption DEF Thread
  <2>3. wq' \in Seq(TransportWorks \cup Deferred) /\ (Queued("crypto") => Queued("crypto")' \/ running' = "crypto")
    BY <2>1, TakeFacts
  <2> QED BY <1>1, <2>1, <2>2, <2>3, PipeStepInv, ListenAssumption
<1>3. CASE DeliverApdu
  <2>1. running = "apdu" /\ current = NULL /\ UNCHANGED <<wq, running>>
    BY <1>3 DEF DeliverApdu
  <2>2. ~handled
    BY <2>1 DEF Thread
  <2> QED BY <1>1, <2>1, <2>2, PipeStepInv, SameQueue DEF Thread
<1>4. CASE running \in {"field_on", "apdu"} /\ EndWork
  <2>1. running \in {"field_on", "apdu"} /\ current = NULL /\ running' = NULL /\ UNCHANGED <<wq, current>>
    BY <1>4 DEF EndWork
  <2>2. ~handled
    BY <2>1 DEF Thread
  <2> QED BY <1>1, <2>1, <2>2, PipeStepInv, SameQueue DEF Thread
<1> QED BY <1>2, <1>3, <1>4 DEF QueueStep

\* The end of the field resets the service that was selected.
LEMMA FieldOffInv == PathInv /\ FieldOffWork => PathInv'
<1> SUFFICES ASSUME PathInv, FieldOffWork PROVE PathInv'
  OBVIOUS
<1> USE DEF PathInv
<1>1. /\ running = "field_off" /\ current = NULL /\ running' = NULL /\ s_active_svc' = NULL
      /\ UNCHANGED <<wq, current, canceling, s_table, handled, evidence>>
  BY DEF FieldOffWork, EndWork, Router!AidRouterFieldOff, ghosts
<1>2. \/ s_active_svc = Aliro /\ al_state' = "IDLE" /\ s_crypto_inflight' = FALSE /\ s_auth1_sig' = "none" /\ s_exchange_data' = "none"
      \/ s_active_svc # Aliro /\ UNCHANGED <<al_state, s_crypto_inflight, s_auth1_sig, s_exchange_data>>
  BY DEF FieldOffWork, ServiceEnded, Service!AliroReset, aliroVars
<1>3. \A y : Queued(y)' <=> Queued(y)
  BY <1>1, SameQueue
<1>4. Thread'
  BY <1>1, ListenAssumption DEF Thread
<1>5. Evidence'
  BY <1>1, <1>2 DEF Evidence
<1>6. SessionIsRouted' /\ InflightIsPending'
  BY <1>1, <1>2, <1>3 DEF SessionIsRouted, InflightIsPending
<1> QED BY <1>4, <1>5, <1>6

\* on_apdu returns.
LEMMA ReturnInv == PathInv /\ OnApduReturn => PathInv'
<1> SUFFICES ASSUME PathInv, OnApduReturn PROVE PathInv'
  OBVIOUS
<1> USE DEF PathInv
<1>1. /\ handled' = FALSE /\ current' = NULL
      /\ UNCHANGED <<wq, running, canceling, s_table, s_active_svc, evidence, al_state, s_crypto_inflight, s_auth1_sig, s_exchange_data>>
  BY DEF OnApduReturn, ReturnApdu, routerVars, aliroVars, ghosts
<1>2. \A y : Queued(y)' <=> Queued(y)
  BY <1>1, SameQueue
<1>3. Thread'
  BY <1>1 DEF Thread
<1>4. Evidence' /\ SessionIsRouted' /\ InflightIsPending'
  BY <1>1, <1>2 DEF Evidence, SessionIsRouted, InflightIsPending
<1> QED BY <1>3, <1>4

\* The crypto handler advances a session only on what the session has received.
LEMMA CryptoInv == PathInv /\ (CryptoWork \/ CryptoReturn) => PathInv'
<1> SUFFICES ASSUME PathInv, CryptoWork \/ CryptoReturn PROVE PathInv'
  OBVIOUS
<1> USE DEF PathInv
<1>1. CASE CryptoWork
  <2>1. /\ running = "crypto" /\ handled' = TRUE /\ s_crypto_inflight' = FALSE /\ al_state' = Service!AfterCrypto
        /\ UNCHANGED <<s_table, s_active_svc, evidence, s_auth1_sig, s_exchange_data>>
    BY <1>1 DEF CryptoWork, Service!CryptoHandler, routerVars
  <2>2. UNCHANGED <<wq, running, canceling, current>>
    BY <1>1, AnswerFacts DEF CryptoWork
  <2>3. \/ al_state' = "ERROR"
        \/ al_state = "AWAIT_AUTH0" /\ al_state' = "AWAIT_AUTH1"
        \/ al_state = "AWAIT_AUTH1" /\ s_auth1_sig = "good" /\ al_state' = "AWAIT_EXCHANGE"
        \/ al_state = "AWAIT_EXCHANGE" /\ s_exchange_data = "good" /\ al_state' = "DONE"
    BY <2>1 DEF Service!AfterCrypto
  <2>4. Thread'
    BY <2>1, <2>2 DEF Thread
  <2>5. Evidence'
    BY <2>1, <2>3 DEF Evidence
  <2>6. SessionIsRouted' /\ InflightIsPending'
    BY <2>1, <2>3 DEF SessionIsRouted, InflightIsPending
  <2> QED BY <2>4, <2>5, <2>6
<1>2. CASE CryptoReturn
  <2>1. /\ running = "crypto" /\ handled /\ current = NULL /\ running' = NULL /\ handled' = FALSE
        /\ UNCHANGED <<wq, current, canceling, s_table, s_active_svc, evidence, al_state, s_crypto_inflight, s_auth1_sig, s_exchange_data>>
    BY <1>2 DEF CryptoReturn, EndWork, routerVars, aliroVars, ghosts
  <2>2. ~s_crypto_inflight
    BY <2>1 DEF Thread
  <2>3. Thread'
    BY <2>1 DEF Thread
  <2>4. Evidence' /\ SessionIsRouted' /\ InflightIsPending'
    BY <2>1, <2>2 DEF Evidence, SessionIsRouted, InflightIsPending
  <2> QED BY <2>3, <2>4
<1> QED BY <1>1, <1>2

\* A SELECT either starts a session of Aliro afresh, or ends it, or finds no service.
LEMMA SelectFacts ==
    ASSUME PathInv, NEW aid \in {NdefAid, AliroAid, StepupAid, UnknownAid}, SelectApdu(aid)
    PROVE  \/ /\ s_active_svc' = Aliro /\ evidence' = {}
              /\ s_crypto_inflight' = FALSE /\ s_auth1_sig' = "none" /\ s_exchange_data' = "none"
              /\ al_state' \in {"AWAIT_AUTH0", "IDLE"}
           \/ /\ s_active_svc = Aliro /\ evidence' = evidence
              /\ s_crypto_inflight' = FALSE /\ s_auth1_sig' = "none" /\ s_exchange_data' = "none" /\ al_state' = "IDLE"
           \/ /\ s_active_svc # Aliro \/ s_active_svc' = s_active_svc
              /\ UNCHANGED <<al_state, s_crypto_inflight, s_auth1_sig, s_exchange_data, evidence>>
<1>1. \/ \E i \in DOMAIN s_table : s_active_svc' = s_table[i].svc /\ answer' = s_table[i].svc
      \/ answer' = "6A82" /\ s_active_svc' = s_active_svc
  BY ListenAssumption DEF SelectApdu, Router!AidRouterDispatch, Router!DispatchSelect
<1>2. \/ s_active_svc' = answer' /\ answer' \in {Ndef, Aliro}
      \/ answer' = "6A82" /\ s_active_svc' = s_active_svc
  BY <1>1 DEF PathInv, Thread
<1>3. evidence' = IF answer' = Aliro THEN {} ELSE evidence
  BY DEF SelectApdu
<1>4. CASE answer' = Aliro
  <2>1. Service!AliroOnSelect(aid) /\ s_active_svc' = Aliro
    BY <1>2, <1>4, ListenAssumption DEF SelectApdu
  <2> QED BY <1>3, <1>4, <2>1 DEF Service!AliroOnSelect, Service!AliroReset
<1>5. CASE answer' = Ndef
  <2>1. ServiceEnded(s_active_svc)
    BY <1>5, ListenAssumption DEF SelectApdu
  <2>2. evidence' = evidence
    BY <1>3, <1>5, ListenAssumption
  <2> QED BY <2>1, <2>2 DEF ServiceEnded, Service!AliroReset, aliroVars
<1>6. CASE answer' = "6A82"
  <2>1. UNCHANGED aliroVars /\ s_active_svc' = s_active_svc /\ evidence' = evidence
    BY <1>2, <1>3, <1>6, ListenAssumption DEF SelectApdu
  <2> QED BY <2>1 DEF aliroVars
<1> QED BY <1>2, <1>4, <1>5, <1>6

\* on_apdu deals with a SELECT.
LEMMA SelectInv ==
    ASSUME PathInv, current # NULL, NEW aid \in {NdefAid, AliroAid, StepupAid, UnknownAid}, SelectApdu(aid), handled' = TRUE
    PROVE  PathInv'
<1> USE DEF PathInv
<1>1. UNCHANGED <<wq, running, canceling, current>>
  BY AnswerFacts DEF SelectApdu
<1>2. s_table' = s_table /\ running = "apdu"
  BY DEF SelectApdu, Router!AidRouterDispatch, Thread
<1>3. \A y : Queued(y)' <=> Queued(y)
  BY <1>1, SameQueue
<1>4. Thread'
  BY <1>1, <1>2 DEF Thread
<1>5. Evidence'
  BY SelectFacts DEF Evidence
<1>6. SessionIsRouted'
  BY SelectFacts DEF SessionIsRouted
<1>7. InflightIsPending'
  BY <1>1, <1>3, SelectFacts DEF InflightIsPending
<1> QED BY <1>4, <1>5, <1>6, <1>7

\* A frame that is rejected, or that goes to the router's answer or to another service,
\* leaves the Aliro service alone.
LEMMA PassInv ==
    ASSUME PathInv, current # NULL, handled' = TRUE,
           UNCHANGED <<wq, running, canceling, current, s_table, s_active_svc, aliroVars, evidence>>
    PROVE  PathInv'
<1> USE DEF PathInv
<1>1. \A y : Queued(y)' <=> Queued(y)
  BY SameQueue
<1>2. Thread'
  BY DEF Thread
<1>3. Evidence' /\ SessionIsRouted' /\ InflightIsPending'
  BY <1>1 DEF Evidence, SessionIsRouted, InflightIsPending, aliroVars
<1> QED BY <1>2, <1>3

\* A command for the Aliro service: it is taken down as evidence and deferred, or refused.
LEMMA OtherInv ==
    ASSUME PathInv, current # NULL, NEW cmd \in Service!AliroCommands, OtherApdu(cmd), handled' = TRUE
    PROVE  PathInv'
<1> USE DEF PathInv
<1>1. running = "apdu" /\ s_table' = s_table /\ s_active_svc' = s_active_svc
  BY ListenAssumption DEF OtherApdu, Router!AidRouterDispatch, Thread
<1>2. CASE answer' = Aliro /\ Service!Accepts(cmd)
  <2>1. SubmitWork("crypto") /\ evidence' = evidence \cup {cmd}
    BY <1>2 DEF OtherApdu
  <2>2. /\ al_state' = al_state /\ al_state = Service!ExpectedIn[cmd.ins] /\ s_crypto_inflight' = TRUE
        /\ s_auth1_sig' = IF cmd.ins = "AUTH1" /\ cmd.data # "short" THEN cmd.data ELSE s_auth1_sig
        /\ s_exchange_data' = IF cmd.ins = "EXCHANGE" THEN cmd.data ELSE s_exchange_data
    BY <1>2 DEF OtherApdu, Service!AliroOnApdu, Service!Accepts
  <2>3. UNCHANGED <<running, canceling, current>>
    BY <2>1 DEF SubmitWork
  <2>4. wq' \in Seq(TransportWorks \cup Deferred) /\ Queued("crypto")'
    BY <2>1, EnqueueFacts, ListenAssumption DEF SubmitWork
  <2>5. Thread'
    BY <1>1, <2>3, <2>4 DEF Thread
  <2>6. cmd = [ins |-> cmd.ins, data |-> cmd.data]
    BY DEF Service!AliroCommands
  <2>7. Evidence'
    BY <2>1, <2>2, <2>6 DEF Evidence, Auth1Good, ExchangeGood
  <2>8. SessionIsRouted' /\ InflightIsPending'
    BY <1>1, <2>2, <2>4 DEF SessionIsRouted, InflightIsPending
  <2> QED BY <2>5, <2>7, <2>8
<1>3. CASE answer' = Aliro /\ ~Service!Accepts(cmd)
  <2>1. /\ UNCHANGED <<s_crypto_inflight, s_auth1_sig, s_exchange_data, evidence>>
        /\ al_state' = IF al_state = "DONE" THEN "DONE" ELSE "ERROR"
    BY <1>3 DEF OtherApdu, Service!AliroOnApdu
  <2>2. UNCHANGED <<wq, running, canceling, current>>
    BY <1>3, AnswerFacts DEF OtherApdu
  <2>3. \A y : Queued(y)' <=> Queued(y)
    BY <2>2, SameQueue
  <2>4. Thread'
    BY <1>1, <2>1, <2>2 DEF Thread
  <2>5. Evidence' /\ SessionIsRouted' /\ InflightIsPending'
    BY <1>1, <2>1, <2>2, <2>3 DEF Evidence, SessionIsRouted, InflightIsPending
  <2> QED BY <2>4, <2>5
<1>4. CASE answer' # Aliro
  <2>1. UNCHANGED <<aliroVars, evidence>>
    BY <1>4 DEF OtherApdu
  <2>2. UNCHANGED <<wq, running, canceling, current>>
    BY <1>4, AnswerFacts DEF OtherApdu
  <2> QED BY <1>1, <2>1, <2>2, PassInv
<1> QED BY <1>2, <1>3, <1>4

\* on_apdu deals with the current C-APDU.
LEMMA OnApduInv == PathInv /\ OnApdu => PathInv'
<1> SUFFICES ASSUME PathInv, OnApdu PROVE PathInv'
  OBVIOUS
<1>1. current # NULL /\ handled' = TRUE
  BY DEF OnApdu
<1>2. CASE RejectFrame
  <2>1. UNCHANGED <<wq, running, canceling, current>>
    BY <1>2, AnswerFacts DEF RejectFrame
  <2>2. UNCHANGED <<s_table, s_active_svc, aliroVars, evidence>>
    BY <1>2 DEF RejectFrame, routerVars
  <2> QED BY <1>1, <2>1, <2>2, PassInv
<1> QED BY <1>1, <1>2, SelectInv, OtherInv DEF OnApdu

\* The invariant holds in every reachable state.
LEMMA PathSafe == Spec => []PathInv
<1>1. PathInv /\ UNCHANGED vars => PathInv'
  <2> SUFFICES ASSUME PathInv, UNCHANGED vars PROVE PathInv'
    OBVIOUS
  <2>1. UNCHANGED <<routerVars, aliroVars, handled, evidence, canceling, wq, running, current>>
    BY DEF vars, pipeVars, ghosts
  <2>2. \A y : Queued(y)' <=> Queued(y)
    BY <2>1, SameQueue
  <2> QED BY <2>1, <2>2, PipeStepInv DEF PathInv, Thread
<1>2. PathInv /\ [Next]_vars => PathInv'
  BY <1>1, ReaderInv, QueueInv, FieldOffInv, OnApduInv, ReturnInv, CryptoInv DEF Next, QueueThread
<1> QED BY InitInv, <1>2, PTL DEF Spec

\* For any number of C-APDUs and field sessions, Aliro reaches DONE only on a good AUTH1
\* signature and good EXCHANGE data of the same selection.
THEOREM ListenSafety == Spec => []DoneIsEarned
<1>1. PathInv => DoneIsEarned
  BY DEF PathInv, Evidence, DoneIsEarned, Auth1Good, ExchangeGood
<1> QED BY PathSafe, <1>1, PTL

\* An Aliro session is in progress only while the router sends APDUs there.
THEOREM RoutedSafety == Spec => []SessionIsRouted
<1>1. PathInv => SessionIsRouted
  BY DEF PathInv
<1> QED BY PathSafe, <1>1, PTL

\* s_crypto_inflight is set only while the crypto work item is on its way.
THEOREM InflightSafety == Spec => []InflightIsPending
<1>1. PathInv => InflightIsPending
  BY DEF PathInv
<1> QED BY PathSafe, <1>1, PTL

-----------------------------------------------------------------------------
(* The pipe: C-APDUs in order, whoever uses or implements it                *)

ReaderType == [field : BOOLEAN, sess : Nat, ser : Nat, sending : BOOLEAN, waiting : BOOLEAN]
CApdus == [ser : Nat, sess : Nat]

\* The fifo is in order, behind the C-APDU being handled.  While the reader is sending,
\* what it sends is newer than all of them.
Ordered ==
    /\ reader \in ReaderType /\ fifo \in Seq(CApdus) /\ (current # NULL => current \in CApdus)
    /\ \A i, j \in DOMAIN fifo : i < j => fifo[i].ser < fifo[j].ser
    /\ \A i \in DOMAIN fifo : fifo[i].ser <= reader.ser /\ (reader.sending => fifo[i].ser < reader.ser)
    /\ current # NULL => /\ current.ser <= reader.ser /\ (reader.sending => current.ser < reader.ser)
                         /\ \A i \in DOMAIN fifo : current.ser < fifo[i].ser

\* The serial numbers are naturals, and what the next one is.
LEMMA Serials ==
    ASSUME Ordered
    PROVE  /\ reader.ser \in Nat /\ reader.sess \in Nat /\ SerialOfNext \in Nat
           /\ reader.sending => SerialOfNext = reader.ser
           /\ ~reader.sending => SerialOfNext = reader.ser + 1
           /\ \A i \in DOMAIN fifo : fifo[i].ser \in Nat
           /\ current # NULL => current.ser \in Nat
<1>1. reader.ser \in Nat /\ reader.sess \in Nat
  BY DEF Ordered, ReaderType
<1>2. \A i \in DOMAIN fifo : fifo[i] \in CApdus
  BY DEF Ordered
<1>3. \A i \in DOMAIN fifo : fifo[i].ser \in Nat
  BY <1>2 DEF CApdus
<1>4. current # NULL => current.ser \in Nat
  BY DEF Ordered, CApdus
<1> QED BY <1>1, <1>3, <1>4 DEF SerialOfNext

\* The reader of the next step keeps its type, and where it is with its C-APDU.
LEMMA ReaderOn ==
    ASSUME NEW r \in ReaderType, NEW on, on = [r EXCEPT !.field = TRUE, !.sess = @ + 1]
    PROVE  on \in ReaderType /\ on.ser = r.ser /\ on.sending = r.sending
<1>1. r.sess + 1 \in Nat
  BY DEF ReaderType
<1>2. on = [r EXCEPT !.field = TRUE, !.sess = r.sess + 1]
  BY DEF ReaderType
<1> QED BY <1>1, <1>2 DEF ReaderType

\* The reader begins a C-APDU, or goes on with it.
LEMMA ReaderBegins ==
    ASSUME NEW r \in ReaderType, NEW n \in Nat
    PROVE  /\ [r EXCEPT !.ser = n, !.sending = TRUE] \in ReaderType
           /\ [r EXCEPT !.ser = n, !.sending = TRUE].ser = n
BY DEF ReaderType

\* The reader has sent all of a C-APDU.
LEMMA ReaderSent ==
    ASSUME NEW r \in ReaderType, NEW n \in Nat, NEW b \in BOOLEAN
    PROVE  /\ [r EXCEPT !.ser = n, !.sending = FALSE, !.waiting = b] \in ReaderType
           /\ [r EXCEPT !.ser = n, !.sending = FALSE, !.waiting = b].ser = n
           /\ [r EXCEPT !.ser = n, !.sending = FALSE, !.waiting = b].sending = FALSE
BY DEF ReaderType

\* A step that keeps the C-APDUs and under which the reader stops sending, or goes on to
\* a new C-APDU.
LEMMA ReaderOrdered ==
    ASSUME Ordered, UNCHANGED <<fifo, current>>, reader' \in ReaderType,
           \/ reader'.ser = reader.ser /\ (reader'.sending => reader.sending)
           \/ reader'.ser > reader.ser
    PROVE  Ordered'
<1>1. reader'.ser \in Nat
  BY DEF ReaderType
<1> QED BY <1>1, Serials DEF Ordered

\* The oldest C-APDU leaves the fifo: it is handled next, or dropped.
LEMMA HeadOrdered ==
    ASSUME Ordered, UNCHANGED reader, fifo # <<>>, fifo' = Tail(fifo),
           \/ current = NULL /\ current' \in {Head(fifo), NULL}
           \/ UNCHANGED current
    PROVE  Ordered'
<1>1. Len(fifo) \in Nat \ {0} /\ DOMAIN fifo = 1..Len(fifo) /\ Head(fifo) = fifo[1] /\ Head(fifo) \in CApdus
  BY DEF Ordered
<1>2. fifo' \in Seq(CApdus) /\ DOMAIN fifo' = 1..(Len(fifo) - 1) /\ \A i \in DOMAIN fifo' : fifo'[i] = fifo[i + 1]
  BY <1>1 DEF Ordered
<1>3. \A i \in DOMAIN fifo' : i + 1 \in DOMAIN fifo /\ 1 < i + 1
  BY <1>1, <1>2
<1>4. \A i, j \in DOMAIN fifo' : i < j => fifo'[i].ser < fifo'[j].ser
  BY <1>1, <1>2, <1>3 DEF Ordered
<1>5. \A i \in DOMAIN fifo' : fifo'[i].ser <= reader.ser /\ (reader.sending => fifo'[i].ser < reader.ser)
  BY <1>2, <1>3 DEF Ordered
<1>6. 1 \in DOMAIN fifo /\ \A i \in DOMAIN fifo' : fifo[1].ser < fifo'[i].ser
  BY <1>1, <1>2, <1>3 DEF Ordered
<1>7. CASE UNCHANGED current
  BY <1>2, <1>3, <1>4, <1>5, <1>7 DEF Ordered
<1>8. CASE current' = NULL
  BY <1>2, <1>4, <1>5, <1>8 DEF Ordered
<1>9. CASE current' = Head(fifo)
  <2>1. current' = fifo[1] /\ current' \in CApdus
    BY <1>1, <1>9
  <2>2. fifo[1].ser <= reader.ser /\ (reader.sending => fifo[1].ser < reader.ser)
    BY <1>6 DEF Ordered
  <2> QED BY <1>2, <1>4, <1>5, <1>6, <2>1, <2>2 DEF Ordered
<1> QED BY <1>7, <1>8, <1>9

\* A C-APDU joins the fifo behind all the others.
LEMMA ReceiveOrdered == Ordered /\ ReceiveApdu => Ordered'
<1> SUFFICES ASSUME Ordered, ReceiveApdu PROVE Ordered'
  OBVIOUS
<1> DEFINE next == SerialOfNext
<1>1. /\ reader' = [reader EXCEPT !.ser = next, !.sending = FALSE, !.waiting = TRUE]
      /\ fifo' = Append(fifo, CApdu(next, reader.sess)) /\ UNCHANGED current
  BY DEF ReceiveApdu
<1>2. reader \in ReaderType /\ reader.ser \in Nat /\ reader.sess \in Nat /\ next \in Nat /\ reader.ser <= next
  BY Serials DEF Ordered
<1>3. \A i \in DOMAIN fifo : fifo[i].ser \in Nat /\ fifo[i].ser < next
  BY <1>2, Serials DEF Ordered
<1>4. current # NULL => current.ser \in Nat /\ current.ser < next
  BY <1>2, Serials DEF Ordered
<1> HIDE DEF next
<1>5. reader' \in ReaderType /\ reader'.ser = next /\ reader'.sending = FALSE
  BY <1>1, <1>2, ReaderSent
<1>6. CApdu(next, reader.sess) \in CApdus /\ CApdu(next, reader.sess).ser = next
  BY <1>2 DEF CApdu, CApdus
<1>7. /\ fifo' \in Seq(CApdus) /\ Len(fifo) \in Nat /\ DOMAIN fifo = 1..Len(fifo) /\ DOMAIN fifo' = 1..(Len(fifo) + 1)
      /\ \A i \in DOMAIN fifo' : fifo'[i] = IF i \in DOMAIN fifo THEN fifo[i] ELSE CApdu(next, reader.sess)
  BY <1>1, <1>6 DEF Ordered
<1>8. \A i \in DOMAIN fifo' : fifo'[i].ser <= next /\ (i \notin DOMAIN fifo => fifo'[i].ser = next)
  BY <1>2, <1>3, <1>6, <1>7
<1>9. \A i, j \in DOMAIN fifo' : i < j => fifo'[i].ser < fifo'[j].ser
  <2> TAKE i, j \in DOMAIN fifo'
  <2> HAVE i < j
  <2>1. i \in DOMAIN fifo
    BY <1>7
  <2>2. CASE j \in DOMAIN fifo
    BY <1>7, <2>1, <2>2 DEF Ordered
  <2>3. CASE j \notin DOMAIN fifo
    BY <1>3, <1>7, <1>8, <2>1, <2>3
  <2> QED BY <2>2, <2>3
<1>10. current # NULL => \A i \in DOMAIN fifo' : current.ser < fifo'[i].ser
  BY <1>4, <1>6, <1>7 DEF Ordered
<1> QED BY <1>1, <1>2, <1>4, <1>5, <1>7, <1>8, <1>9, <1>10 DEF Ordered

\* Every step of the pipe keeps the order.
LEMMA PipeOrdered == Ordered /\ [PipeNext]_pipeVars => Ordered'
<1> SUFFICES ASSUME Ordered, [PipeNext]_pipeVars PROVE Ordered'
  OBVIOUS
<1>1. reader \in ReaderType
  BY DEF Ordered
<1>2. Gone(reader) \in ReaderType /\ Gone(reader).ser = reader.ser /\ Gone(reader).sending = FALSE
  BY <1>1 DEF Gone, ReaderType
<1>3. CASE PipeFieldOn
  <2>1. UNCHANGED <<fifo, current>> /\ reader' = [Gone(reader) EXCEPT !.field = TRUE, !.sess = @ + 1]
    BY <1>3 DEF PipeFieldOn
  <2>2. reader' \in ReaderType /\ reader'.ser = reader.ser /\ reader'.sending = FALSE
    BY <1>2, <2>1, ReaderOn
  <2> QED BY <2>1, <2>2, ReaderOrdered
<1>4. CASE PipeFieldOff \/ StopField
  <2>1. UNCHANGED <<fifo, current>> /\ reader' = Gone(reader)
    BY <1>4 DEF PipeFieldOff, StopField
  <2> QED BY <1>2, <2>1, ReaderOrdered
<1>5. CASE BeginApdu
  <2>1. UNCHANGED <<fifo, current>> /\ reader' = [reader EXCEPT !.ser = SerialOfNext, !.sending = TRUE]
    BY <1>5 DEF BeginApdu
  <2>2. reader' \in ReaderType /\ reader'.ser = SerialOfNext
    <3>1. SerialOfNext \in Nat
      BY Serials
    <3> QED BY <1>1, <2>1, <3>1, ReaderBegins
  <2>3. \/ reader'.ser = reader.ser /\ reader.sending
        \/ reader'.ser > reader.ser
    BY <2>2, Serials
  <2> QED BY <2>1, <2>2, <2>3, ReaderOrdered
<1>6. CASE ReceiveApdu
  BY <1>6, ReceiveOrdered
<1>7. CASE LoseApdu
  <2>1. PICK waits \in BOOLEAN : reader' = [reader EXCEPT !.ser = SerialOfNext, !.sending = FALSE, !.waiting = waits]
    BY <1>7 DEF LoseApdu
  <2>2. reader' \in ReaderType /\ reader'.ser = SerialOfNext /\ reader'.sending = FALSE
    <3>1. SerialOfNext \in Nat
      BY Serials
    <3> QED BY <1>1, <2>1, <3>1 DEF ReaderType
  <2>3. reader'.ser = reader.ser \/ reader'.ser > reader.ser
    BY <2>2, Serials
  <2>4. UNCHANGED <<fifo, current>>
    BY <1>7 DEF LoseApdu
  <2> QED BY <2>2, <2>3, <2>4, ReaderOrdered
<1>8. CASE DeliverApdu \/ DropApdu
  <2>1. UNCHANGED reader /\ fifo # <<>> /\ fifo' = Tail(fifo)
    BY <1>8 DEF DeliverApdu, DropApdu
  <2>2. (current = NULL /\ current' \in {Head(fifo), NULL}) \/ UNCHANGED current
    BY <1>8 DEF DeliverApdu, DropApdu
  <2> QED BY <2>1, <2>2, HeadOrdered
<1>9. CASE Respond
  <2>1. UNCHANGED <<fifo, current>> /\ reader' = [reader EXCEPT !.waiting = FALSE]
    BY <1>9 DEF Respond
  <2>2. reader' \in ReaderType /\ reader'.ser = reader.ser /\ reader'.sending = reader.sending
    BY <1>1, <2>1 DEF ReaderType
  <2> QED BY <2>1, <2>2, ReaderOrdered
<1>10. CASE ReturnApdu
  BY <1>10 DEF ReturnApdu, Ordered
<1>11. CASE \E r \in BOOLEAN : Register(r)
  <2>1. UNCHANGED <<fifo, current>> /\ reader' \in {reader, Gone(reader)}
    BY <1>11 DEF Register
  <2> QED BY <1>1, <1>2, <2>1, ReaderOrdered
<1>12. CASE \/ TakeWork \/ EndWork \/ CancelDone \/ UNCHANGED pipeVars
            \/ (\E w \in Deferred : SubmitWork(w)) \/ (\E w \in TransportWorks : CancelWork(w))
  <2>1. UNCHANGED <<fifo, current, reader>>
    BY <1>12 DEF TakeWork, EndWork, CancelDone, SubmitWork, CancelWork, pipeVars
  <2> QED BY <2>1 DEF Ordered
<1> QED BY <1>3, <1>4, <1>5, <1>6, <1>7, <1>8, <1>9, <1>10, <1>11, <1>12 DEF PipeNext

\* What is handled, followed by the fifo, is in order.
LEMMA OrderedInOrder == Ordered => InOrder
<1> SUFFICES ASSUME Ordered PROVE InOrder
  OBVIOUS
<1> DEFINE q == (IF current = NULL THEN <<>> ELSE <<current>>) \o fifo
<1>1. Len(fifo) \in Nat /\ DOMAIN fifo = 1..Len(fifo) /\ fifo \in Seq(CApdus)
  BY DEF Ordered
<1>2. CASE current = NULL
  <2>1. q = fifo
    BY <1>1, <1>2
  <2> QED BY <2>1 DEF InOrder, Ordered
<1>3. CASE current # NULL
  <2>1. q = <<current>> \o fifo /\ current \in CApdus
    BY <1>3 DEF Ordered
  <2>2. DOMAIN q = 1..(Len(fifo) + 1) /\ q[1] = current /\ \A i \in DOMAIN fifo : q[i + 1] = fifo[i]
    BY <1>1, <2>1
  <2> HIDE DEF q
  <2>3. \A i \in DOMAIN q : i = 1 \/ (i - 1 \in DOMAIN fifo /\ q[i] = fifo[i - 1] /\ i > 1)
    <3> TAKE i \in DOMAIN q
    <3>1. CASE i # 1
      <4>1. i - 1 \in DOMAIN fifo /\ (i - 1) + 1 = i /\ i > 1
        BY <1>1, <2>2, <3>1
      <4> QED BY <2>2, <4>1
    <3> QED BY <3>1
  <2>4. \A i \in DOMAIN q : q[i].ser <= reader.ser
    BY <1>3, <2>2, <2>3 DEF Ordered
  <2>5. \A i, j \in DOMAIN q : i < j => q[i].ser < q[j].ser
    <3> TAKE i, j \in DOMAIN q
    <3> HAVE i < j
    <3>1. j - 1 \in DOMAIN fifo /\ q[j] = fifo[j - 1]
      BY <2>2, <2>3
    <3>2. CASE i = 1
      BY <1>3, <2>2, <3>1, <3>2 DEF Ordered
    <3>3. CASE i # 1
      <4>1. i - 1 \in DOMAIN fifo /\ q[i] = fifo[i - 1] /\ i - 1 < j - 1
        BY <2>2, <2>3, <3>3
      <4> QED BY <3>1, <4>1 DEF Ordered
    <3> QED BY <3>2, <3>3
  <2> QED BY <2>4, <2>5 DEF InOrder, q
<1> QED BY <1>2, <1>3

\* Whatever implements the pipe (NrfxPipe) hands the C-APDUs over in the order in which the
\* reader sent them, none twice, through stops, drops and re-registrations.
THEOREM PipeOrder == PipeSpec => []InOrder
<1>1. PipeInit => Ordered
  BY DEF PipeInit, Ordered, ReaderType
<1> QED BY <1>1, PipeOrdered, OrderedInOrder, PTL DEF PipeSpec

\* Every step of the listen path is a step of the pipe, or none.
LEMMA PathIsPipe == [Next]_vars => [PipeNext]_pipeVars
<1> SUFFICES ASSUME [Next]_vars PROVE PipeNext \/ UNCHANGED pipeVars
  OBVIOUS
<1>1. CASE ReaderStep \/ QueueStep \/ FieldOffWork \/ OnApduReturn \/ CryptoReturn
  BY <1>1 DEF ReaderStep, QueueStep, FieldOffWork, OnApduReturn, CryptoReturn, PipeNext
<1>2. ASSUME NEW a, Answer(a) PROVE PipeNext \/ UNCHANGED pipeVars
  BY <1>2 DEF Answer, PipeNext
<1>3. CASE OnApdu
  <2>1. (\E a : Answer(a)) \/ SubmitWork("crypto")
    BY <1>3 DEF OnApdu, RejectFrame, SelectApdu, OtherApdu
  <2>2. SubmitWork("crypto") => "crypto" \in Deferred
    BY DEF SubmitWork
  <2> QED BY <1>2, <2>1, <2>2 DEF PipeNext
<1>4. CASE CryptoWork
  BY <1>2, <1>4 DEF CryptoWork
<1> QED BY <1>1, <1>3, <1>4 DEF Next, QueueThread, vars

\* The listen path keeps the order of its pipe.
LEMMA PathOrdered == Spec => []Ordered
<1>1. Init => Ordered
  BY DEF Init, Ordered, ReaderType
<1> QED BY <1>1, PathIsPipe, PipeOrdered, PTL DEF Spec

\* The router and the services above the pipe see the C-APDUs in the order in which the
\* reader sent them.
THEOREM ListenOrder == Spec => []InOrder
BY PathOrdered, OrderedInOrder, PTL

-----------------------------------------------------------------------------
(* The end of the field, and the C-APDUs that came before it                *)

ApduBeforeFieldOff == \E i, j \in DOMAIN wq : i < j /\ wq[i] = "apdu" /\ wq[j] = "field_off"

\* C-APDUs in the fifo have a handler on its way.  Once the reader has gone, the end of the
\* field is still to come after that handler, and after any handler that may select.
FieldEnds ==
    /\ running = "apdu" /\ (fifo # <<>> \/ current # NULL) => Queued("field_off")
    /\ running # "apdu" /\ fifo # <<>> => ApduBeforeFieldOff
    /\ s_active_svc # NULL => Queued("field_off") \/ running = "field_off"
FieldInv ==
    /\ fifo # <<>> => running = "apdu" \/ Queued("apdu")
    /\ ~merged /\ ~reader.field => FieldEnds

\* An item that is queued already stays where it is, another one goes to the end.
LEMMA EnqueueShape ==
    ASSUME Thread, NEW w \in TransportWorks \cup Deferred, w # NULL, Enqueue(w)
    PROVE  (Queued(w) /\ wq' = wq) \/ (~Queued(w) /\ wq' = Append(wq, w))
BY DEF Enqueue, Thread

\* What is queued keeps its place when the queue grows.
LEMMA PairKept ==
    ASSUME Thread, NEW w, wq' = wq \/ wq' = Append(wq, w)
    PROVE  /\ ApduBeforeFieldOff => ApduBeforeFieldOff'
           /\ \A y : Queued(y) => Queued(y)'
<1>1. \A i \in DOMAIN wq : i \in DOMAIN wq' /\ wq'[i] = wq[i]
  BY DEF Thread
<1> QED BY <1>1 DEF ApduBeforeFieldOff, Queued

\* An end of the field that is new in the queue comes after the C-APDU handler there.
LEMMA PairFormed ==
    ASSUME Thread, wq' = Append(wq, "field_off")
    PROVE  Queued("field_off")' /\ (Queued("apdu") => ApduBeforeFieldOff')
<1>1. Len(wq) \in Nat /\ DOMAIN wq = 1..Len(wq) /\ DOMAIN wq' = 1..(Len(wq) + 1) /\ wq'[Len(wq) + 1] = "field_off"
  BY DEF Thread
<1>2. \A i \in DOMAIN wq : i < Len(wq) + 1 /\ i \in DOMAIN wq' /\ wq'[i] = wq[i]
  BY <1>1 DEF Thread
<1>3. Len(wq) + 1 \in DOMAIN wq'
  BY <1>1
<1>4. Queued("field_off")'
  BY <1>1, <1>3 DEF Queued
<1>5. Queued("apdu") => ApduBeforeFieldOff'
  BY <1>1, <1>2, <1>3 DEF Queued, ApduBeforeFieldOff
<1> QED BY <1>4, <1>5

\* Taking the first item leaves the two in place, or it was the C-APDU handler.
LEMMA PairTaken ==
    ASSUME Thread, wq # <<>>, wq' = Tail(wq), ApduBeforeFieldOff
    PROVE  Queued("field_off")' /\ (ApduBeforeFieldOff' \/ Head(wq) = "apdu")
<1>1. Len(wq) \in Nat \ {0} /\ DOMAIN wq = 1..Len(wq) /\ Head(wq) = wq[1] /\ DOMAIN wq' = 1..(Len(wq) - 1)
  BY DEF Thread
<1>2. \A i \in DOMAIN wq' : wq'[i] = wq[i + 1]
  BY <1>1 DEF Thread
<1>3. PICK i, j \in DOMAIN wq : i < j /\ wq[i] = "apdu" /\ wq[j] = "field_off"
  BY DEF ApduBeforeFieldOff
<1>4. j - 1 \in DOMAIN wq' /\ wq'[j - 1] = "field_off"
  BY <1>1, <1>2, <1>3
<1>5. CASE i = 1
  BY <1>1, <1>3, <1>4, <1>5 DEF Queued
<1>6. CASE i # 1
  <2>1. i - 1 \in DOMAIN wq' /\ wq'[i - 1] = "apdu" /\ i - 1 < j - 1
    BY <1>1, <1>2, <1>3, <1>6
  <2> QED BY <1>4, <2>1 DEF Queued, ApduBeforeFieldOff
<1> QED BY <1>5, <1>6

\* A step within a handler, or a C-APDU that is lost: only on_apdu selects.
LEMMA StayField ==
    ASSUME PathInv, FieldInv, NEW w, wq' = wq \/ wq' = Append(wq, w),
           UNCHANGED <<fifo, running, merged>>, reader'.field = reader.field,
           current' = current \/ current' = NULL,
           s_active_svc' = s_active_svc \/ current # NULL
    PROVE  FieldInv'
<1>1. (ApduBeforeFieldOff => ApduBeforeFieldOff') /\ \A y : Queued(y) => Queued(y)'
  BY PairKept DEF PathInv
<1>2. fifo' # <<>> => running' = "apdu" \/ Queued("apdu")'
  BY <1>1 DEF FieldInv
<1>3. ASSUME FieldEnds PROVE FieldEnds'
  <2>1. current # NULL => running = "apdu" /\ Queued("field_off")
    BY <1>3 DEF FieldEnds, PathInv, Thread
  <2> QED BY <1>1, <1>3, <2>1 DEF FieldEnds
<1> QED BY <1>2, <1>3 DEF FieldInv

\* The reader comes, goes and sends.
LEMMA ReaderField == PathInv /\ Ordered /\ FieldInv /\ ReaderStep => FieldInv'
<1> SUFFICES ASSUME PathInv, Ordered, FieldInv, ReaderStep PROVE FieldInv'
  OBVIOUS
<1>1. Thread /\ reader \in ReaderType
  BY DEF PathInv, Ordered
<1>2. UNCHANGED <<running, current, s_active_svc>>
  BY DEF ReaderStep, PipeFieldOn, PipeFieldOff, ReceiveApdu, LoseApdu, routerVars
<1>3. \A w \in TransportWorks : Enqueue(w) => (Queued(w) /\ wq' = wq) \/ (~Queued(w) /\ wq' = Append(wq, w))
  BY <1>1, EnqueueShape, ListenAssumption DEF TransportWorks
<1>4. CASE PipeFieldOn
  <2>1. reader'.field = TRUE /\ Enqueue("field_on") /\ UNCHANGED fifo
    BY <1>1, <1>4 DEF PipeFieldOn, Gone, ReaderType
  <2>2. Queued("apdu") => Queued("apdu")'
    BY <1>1, <1>3, <2>1, PairKept DEF TransportWorks
  <2> QED BY <1>2, <2>1, <2>2 DEF FieldInv
<1>5. CASE ReceiveApdu
  <2>1. reader'.field = reader.field /\ reader.field /\ Enqueue("apdu")
    BY <1>1, <1>5 DEF ReceiveApdu, MaySend, ReaderType
  <2>2. Queued("apdu")'
    <3>1. "apdu" \in TransportWorks \cup Deferred /\ "apdu" # NULL
      BY ListenAssumption DEF TransportWorks
    <3> QED BY <1>1, <2>1, <3>1, EnqueueFacts
  <2> QED BY <2>1, <2>2 DEF FieldInv
<1>6. CASE LoseApdu
  <2>1. UNCHANGED <<fifo, wq>> /\ reader'.field = reader.field
    BY <1>1, <1>6 DEF LoseApdu, ReaderType
  <2>2. UNCHANGED merged
    <3>1. reader.field /\ reader'.field
      BY <1>6, <2>1 DEF LoseApdu, MaySend
    <3>2. ~PipeFieldOff
      BY <1>1, <3>1 DEF PipeFieldOff, Gone, ReaderType
    <3> QED BY <3>2 DEF ReaderStep
  <2> QED BY <1>2, <2>1, <2>2, StayField
<1>7. CASE PipeFieldOff /\ merged' = (merged \/ Queued("field_off"))
  <2>1. Enqueue("field_off") /\ UNCHANGED fifo
    BY <1>7 DEF PipeFieldOff
  <2>2. (Queued("field_off") /\ wq' = wq) \/ (~Queued("field_off") /\ wq' = Append(wq, "field_off"))
    BY <1>3, <2>1 DEF TransportWorks
  <2>3. fifo' # <<>> => running' = "apdu" \/ Queued("apdu")'
    BY <1>1, <1>2, <2>1, <2>2, PairKept DEF FieldInv
  <2>4. Queued("field_off") => merged'
    BY <1>7
  <2>5. ~Queued("field_off") => FieldEnds'
    <3> SUFFICES ASSUME ~Queued("field_off") PROVE FieldEnds'
      OBVIOUS
    <3>1. Queued("field_off")' /\ (Queued("apdu") => ApduBeforeFieldOff')
      BY <1>1, <2>2, PairFormed
    <3> QED BY <1>2, <2>1, <3>1 DEF FieldEnds, FieldInv
  <2> QED BY <2>3, <2>4, <2>5 DEF FieldInv
<1> QED BY <1>4, <1>5, <1>6, <1>7 DEF ReaderStep

\* The queue thread takes the next item.
LEMMA TakeField == PathInv /\ FieldInv /\ QueueStep /\ TakeWork => FieldInv'
<1> SUFFICES ASSUME PathInv, FieldInv, QueueStep, TakeWork PROVE FieldInv'
  OBVIOUS
<1>1. Thread /\ wq # <<>> /\ wq' = Tail(wq) /\ running = NULL /\ running' = Head(wq) /\ UNCHANGED <<fifo, current, reader>>
  BY DEF PathInv, TakeWork
<1>2. UNCHANGED <<merged, s_active_svc>> /\ current = NULL /\ running # "apdu" /\ running # "field_off"
  BY <1>1, ListenAssumption DEF QueueStep, ghosts, routerVars, Thread
<1>3. \A y : Queued(y) => Queued(y)' \/ y = running'
  BY <1>1, TakeFacts
<1>4. ApduBeforeFieldOff => Queued("field_off")' /\ (ApduBeforeFieldOff' \/ running' = "apdu")
  BY <1>1, PairTaken
<1>5. FieldEnds => FieldEnds'
  BY <1>1, <1>2, <1>3, <1>4 DEF FieldEnds
<1>6. fifo' # <<>> => running' = "apdu" \/ Queued("apdu")'
  BY <1>1, <1>2, <1>3 DEF FieldInv
<1> QED BY <1>1, <1>2, <1>5, <1>6 DEF FieldInv

\* A handler ends: the C-APDU handler only when the fifo is empty, and the end of the field
\* with no service selected.
LEMMA EndField ==
    ASSUME PathInv, FieldInv, EndWork, UNCHANGED merged,
           running = "apdu" => fifo = <<>>,
           IF running = "field_off" THEN s_active_svc' = NULL ELSE s_active_svc' = s_active_svc
    PROVE  FieldInv'
<1>1. running' = NULL /\ current = NULL /\ UNCHANGED <<fifo, wq, current, reader>> /\ NULL # "apdu"
  BY ListenAssumption DEF EndWork
<1>2. \A y : Queued(y)' <=> Queued(y)
  BY <1>1, SameQueue
<1>3. ApduBeforeFieldOff' <=> ApduBeforeFieldOff
  BY <1>1 DEF ApduBeforeFieldOff
<1>4. FieldEnds => FieldEnds'
  BY <1>1, <1>2, <1>3 DEF FieldEnds
<1> QED BY <1>1, <1>2, <1>4 DEF FieldInv

\* The C-APDU handler takes a C-APDU from the fifo.
LEMMA DeliverField == PathInv /\ FieldInv /\ QueueStep /\ DeliverApdu => FieldInv'
<1> SUFFICES ASSUME PathInv, FieldInv, QueueStep, DeliverApdu PROVE FieldInv'
  OBVIOUS
<1>1. running = "apdu" /\ fifo # <<>> /\ UNCHANGED <<wq, running, reader, merged, s_active_svc>>
  BY DEF DeliverApdu, QueueStep, ghosts, routerVars
<1>2. \A y : Queued(y)' <=> Queued(y)
  BY <1>1, SameQueue
<1>3. FieldEnds => FieldEnds'
  BY <1>1, <1>2 DEF FieldEnds
<1> QED BY <1>1, <1>3 DEF FieldInv

\* on_apdu and the crypto handler: a response to the reader, or a work item more.
LEMMA HandlerField == PathInv /\ Ordered /\ FieldInv /\ (OnApdu \/ CryptoWork) => FieldInv'
<1> SUFFICES ASSUME PathInv, Ordered, FieldInv, OnApdu \/ CryptoWork PROVE FieldInv'
  OBVIOUS
<1>1. Thread /\ reader \in ReaderType
  BY DEF PathInv, Ordered
<1>2. UNCHANGED merged /\ (s_active_svc' = s_active_svc \/ current # NULL)
  BY DEF OnApdu, CryptoWork, routerVars
<1>3. ASSUME NEW a, Answer(a) PROVE FieldInv'
  <2>1. UNCHANGED <<fifo, wq, running, current>>
    BY <1>3, AnswerFacts
  <2>2. reader'.field = reader.field
    BY <1>1, <1>3 DEF Answer, Respond, pipeVars, ReaderType
  <2> QED BY <1>2, <2>1, <2>2, StayField
<1>4. CASE SubmitWork("crypto")
  <2>1. UNCHANGED <<fifo, running, current, reader>> /\ "crypto" \in TransportWorks \cup Deferred /\ Enqueue("crypto")
    BY <1>4 DEF SubmitWork
  <2>2. wq' = wq \/ wq' = Append(wq, "crypto")
    BY <1>1, <2>1, EnqueueShape, ListenAssumption
  <2> QED BY <1>2, <2>1, <2>2, StayField
<1>5. (\E a : Answer(a)) \/ SubmitWork("crypto")
  BY DEF OnApdu, RejectFrame, SelectApdu, OtherApdu, CryptoWork
<1> QED BY <1>3, <1>4, <1>5

\* The invariant about the end of the field holds in every reachable state.
LEMMA FieldSafe == Spec => []FieldInv
<1>1. Init => FieldInv
  BY ListenAssumption DEF Init, FieldInv, FieldEnds
<1>2. ASSUME PathInv, Ordered, FieldInv, [Next]_vars PROVE FieldInv'
  <2>1. CASE ReaderStep
    BY <1>2, <2>1, ReaderField
  <2>2. CASE QueueStep
    <3>1. CASE running \in {"field_on", "apdu"} /\ EndWork
      <4>1. UNCHANGED <<merged, s_active_svc>> /\ (running = "apdu" => fifo = <<>>) /\ running # "field_off"
        BY <2>2, <3>1 DEF QueueStep, EndWork, ghosts, routerVars
      <4> QED BY <1>2, <3>1, <4>1, EndField
    <3> QED BY <1>2, <2>2, <3>1, TakeField, DeliverField DEF QueueStep
  <2>3. CASE FieldOffWork
    <3>1. EndWork /\ running = "field_off" /\ s_active_svc' = NULL /\ UNCHANGED merged
      BY <2>3 DEF FieldOffWork, Router!AidRouterFieldOff, ghosts
    <3> QED BY <1>2, <3>1, EndField
  <2>4. CASE OnApdu \/ CryptoWork
    BY <1>2, <2>4, HandlerField
  <2>5. CASE OnApduReturn
    <3>1. UNCHANGED <<fifo, wq, running, reader, merged, s_active_svc>> /\ current' = NULL
      BY <2>5 DEF OnApduReturn, ReturnApdu, ghosts, routerVars
    <3> QED BY <1>2, <3>1, StayField
  <2>6. CASE CryptoReturn
    <3>1. EndWork /\ running = "crypto" /\ UNCHANGED <<merged, s_active_svc>>
      BY <2>6 DEF CryptoReturn, ghosts, routerVars
    <3> QED BY <1>2, <3>1, EndField
  <2>7. CASE UNCHANGED vars
    <3>1. UNCHANGED <<fifo, wq, running, current, reader, merged, s_active_svc>>
      BY <2>7 DEF vars, pipeVars, ghosts, routerVars
    <3> QED BY <1>2, <3>1, StayField
  <2> QED BY <1>2, <2>1, <2>2, <2>3, <2>4, <2>5, <2>6, <2>7 DEF Next, QueueThread
<1> QED BY <1>1, <1>2, PathSafe, PathOrdered, PTL DEF Spec

\* When no reader is there and the queue has done its work, no service is selected, however
\* C-APDUs and field-offs fell in the queue, unless two field-offs became one item.
THEOREM SelectionSafety == Spec => []SelectionEndsWithField
<1>1. PathInv /\ FieldInv => SelectionEndsWithField
  <2> SUFFICES ASSUME PathInv, FieldInv, ~merged, ~reader.field, wq = <<>>, running = NULL PROVE s_active_svc = NULL
    BY DEF SelectionEndsWithField
  <2>1. \A y : ~Queued(y)
    BY DEF Queued
  <2> QED BY <2>1, ListenAssumption DEF FieldInv, FieldEnds
<1> QED BY <1>1, PathSafe, FieldSafe, PTL
=============================================================================
