---------------------------- MODULE NfcStackProofs ----------------------------
(***************************************************************************)
(* Proofs about NfcStack: the lifecycle of the stack and the slots of the  *)
(* store, for any profiles, services, tags and number of slots.            *)
(***************************************************************************)
EXTENDS NfcStack, WellFoundedInduction, FiniteSetTheorems, TLAPS

\* Most leaves are first-order: Zenon first, the SMT solver for the others.
USE ZenonT(3), SMTT(30)

-----------------------------------------------------------------------------
(* The router alone: nothing depends on how many AIDs, services or table    *)
(* entries there are.                                                       *)

\* Before init no service holds a session: init forgets nothing.
DownIsIdle == r_state = "UNINITIALIZED" => selected = {} /\ s_active_svc = NULL

RouterInv == RouterTypeOK /\ SelectedIsActive /\ DownIsIdle

\* An entry of a sequence over S is in S.
LEMMA SeqEntry ==
    ASSUME NEW S, NEW q \in Seq(S), NEW i \in DOMAIN q
    PROVE  q[i] \in S
OBVIOUS

\* find_aid returns an entry of the table, whose service is a known one.
LEMMA MatchType ==
    ASSUME RouterTypeOK, NEW i \in DOMAIN s_table
    PROVE  s_table[i].svc \in Svcs
<1>1. s_table[i] \in [aid : Aids, svc : Svcs]
  BY SeqEntry, Zenon DEF RouterTypeOK
<1> QED BY <1>1

\* A SELECT that finds its service ends the session of the one before it.
LEMMA SelectKeeps ==
    ASSUME RouterInv, r_state = "INITIALIZED", NEW aid \in Aids, DispatchSelect(aid),
           UNCHANGED <<r_state, s_table, cleared>>
    PROVE  RouterInv'
<1>1. PICK i \in DOMAIN s_table :
          /\ selected' = (IF s_active_svc # s_table[i].svc THEN selected \ {s_active_svc} ELSE selected)
                             \cup {s_table[i].svc}
          /\ s_active_svc' = s_table[i].svc
          /\ answer' = s_table[i].svc
  BY DEF DispatchSelect
<1>2. s_table[i].svc \in Svcs /\ s_table[i].svc # NULL
  BY MatchType, RouterAssumption DEF RouterInv
<1>3. RouterTypeOK'
  BY <1>1, <1>2 DEF RouterInv, RouterTypeOK, Answers
<1>4. SelectedIsActive'
  BY <1>1, <1>2 DEF RouterInv, SelectedIsActive
<1> QED BY <1>3, <1>4 DEF RouterInv, DownIsIdle

\* aid_router_register keeps the table within its array.
LEMMA RegisterKeeps ==
    ASSUME RouterInv, NEW aid \in Aids, NEW svc \in Svcs, AidRouterRegister(aid, svc)
    PROVE  RouterInv'
<1>1. s_table' \in Seq([aid : Aids, svc : Svcs]) /\ Len(s_table') <= MaxAids
  BY RouterAssumption DEF RouterInv, RouterTypeOK, AidRouterRegister
<1> QED BY <1>1 DEF RouterInv, RouterTypeOK, SelectedIsActive, DownIsIdle, AidRouterRegister

\* aid_router_dispatch preserves the invariant, whatever the APDU is.
LEMMA DispatchKeeps ==
    ASSUME RouterInv, NEW apdu \in Aids \cup {Other}, AidRouterDispatch(apdu)
    PROVE  RouterInv'
<1>1. CASE apdu \in Aids /\ DispatchSelect(apdu)
  BY <1>1, SelectKeeps DEF AidRouterDispatch
<1>2. CASE apdu \in Aids /\ Unmatched(apdu) /\ answer' = "6A82" /\ UNCHANGED <<selected, s_active_svc>>
  BY <1>2 DEF RouterInv, RouterTypeOK, SelectedIsActive, DownIsIdle, AidRouterDispatch, Answers
<1>3. CASE /\ apdu = Other
           /\ answer' = IF s_active_svc = NULL THEN "6986" ELSE s_active_svc
           /\ UNCHANGED <<selected, s_active_svc>>
  BY <1>3 DEF RouterInv, RouterTypeOK, SelectedIsActive, DownIsIdle, AidRouterDispatch, Answers
<1> QED BY <1>1, <1>2, <1>3 DEF AidRouterDispatch

\* Every step of the router preserves the invariant.
LEMMA RouterKeeps ==
    ASSUME RouterInv, [RouterNext]_routerVars
    PROVE  RouterInv'
<1>1. CASE AidRouterInit
  <2>1. s_table' \in Seq([aid : Aids, svc : Svcs]) /\ Len(s_table') <= MaxAids
    BY <1>1, RouterAssumption DEF AidRouterInit
  <2>2. RouterTypeOK'
    BY <1>1, <2>1, Zenon DEF AidRouterInit, RouterInv, RouterTypeOK
  <2>3. SelectedIsActive'
    BY <1>1 DEF AidRouterInit, RouterInv, RouterTypeOK, SelectedIsActive, DownIsIdle
  <2>4. DownIsIdle'
    BY <1>1 DEF AidRouterInit, DownIsIdle
  <2> QED BY <2>2, <2>3, <2>4 DEF RouterInv
<1>2. CASE AidRouterShutdown
  BY <1>2, RouterAssumption DEF AidRouterShutdown, RouterInv, RouterTypeOK, SelectedIsActive, DownIsIdle, Answers
<1>3. CASE AidRouterClear
  BY <1>3, RouterAssumption DEF AidRouterClear, RouterInv, RouterTypeOK, SelectedIsActive, DownIsIdle
<1>4. CASE AidRouterFieldOff
  BY <1>4 DEF AidRouterFieldOff, RouterInv, RouterTypeOK, SelectedIsActive, DownIsIdle, Answers
<1>5. CASE \E aid \in Aids, svc \in Svcs : AidRouterRegister(aid, svc)
  BY <1>5, RegisterKeeps
<1>6. CASE \E apdu \in Aids \cup {Other} : AidRouterDispatch(apdu)
  BY <1>6, DispatchKeeps
<1>7. CASE UNCHANGED routerVars
  BY <1>7 DEF routerVars, RouterInv, RouterTypeOK, SelectedIsActive, DownIsIdle
<1> QED BY <1>1, <1>2, <1>3, <1>4, <1>5, <1>6, <1>7 DEF RouterNext

\* For any AIDs, services and table size: two services never both hold a
\* session, and a service that believes it is selected is the active one,
\* until aid_router_clear is called.
THEOREM RouterSafety == RouterSpec => [](RouterTypeOK /\ SelectedIsActive)
<1>1. RouterInit => RouterInv
  <2> SUFFICES ASSUME RouterInit PROVE RouterInv
    OBVIOUS
  <2>1. s_table \in Seq([aid : Aids, svc : Svcs]) /\ Len(s_table) <= MaxAids
    BY RouterAssumption DEF RouterInit
  <2> QED BY <2>1, Zenon DEF RouterInit, RouterInv, RouterTypeOK, SelectedIsActive, DownIsIdle, Answers
<1>2. RouterInv /\ [RouterNext]_routerVars => RouterInv'
  BY RouterKeeps
<1> QED BY <1>1, <1>2, PTL DEF RouterSpec, RouterInv

-----------------------------------------------------------------------------
(* The inductive invariant                                                  *)

\* The type invariant in parts: states, flags, threads, what cards and slots hold
StateType ==
    /\ k_state \in {"UNINITIALIZED", "INITIALIZED", "STARTED", "STOPPED", "ERROR"}
    /\ asm_state \in {"UNINITIALIZED", "INITIALIZED"}
    /\ st_state \in {"UNINITIALIZED", "INITIALIZED"}
    /\ tr_state \in {"UNINITIALIZED", "INITIALIZED", "LISTEN", "POLL", "STOPPED", "ORPHAN"}
    /\ s_backend \in {"inert", "ram"}

FlagType == overlap \in BOOLEAN /\ ops \in BOOLEAN /\ s_ready \in BOOLEAN /\ s_store_ready \in BOOLEAN

ShellType ==
    shell \in [at : {"idle", "asm", "store", "ram", "transport", "connect", "listeners", "callbacks", "register",
                     "listen", "session", "stop", "load", "save", "wait"}, tag : Tags \cup {NULL}, alone : BOOLEAN]

QueueType ==
    wq \in [at : {"idle", "read", "connect", "poll", "tag", "clone", "stage", "store", "end"}, tag : Tags \cup {NULL},
            svc : Svcs \cup {NULL}, card : Cards \cup {NULL}]

DataType ==
    /\ up \subseteq Svcs /\ model \in [Svcs -> Bodies] /\ s_staging \in Blobs
    /\ s_slots \in [Store!Slots -> {NULL} \cup [tag : Tags, blob : Blobs]]
    /\ s_active_tag \in Tags \cup {NULL}

\* What a call or a work item in progress carries
Carried ==
    /\ shell.at \in {"load", "save"} => shell.tag \in Tags
    /\ wq.at \notin {"idle", "end"} => wq.tag \in Tags
    /\ wq.at \in {"clone", "stage", "store"} => wq.svc \in Svcs /\ wq.card \in Cards

Down == asm_state = "UNINITIALIZED" /\ r_state = "UNINITIALIZED" /\ s_table = <<>> /\ ~ops

\* How far nfc_stack_init has got
Progress ==
    /\ InInit => k_state = "INITIALIZED"
    /\ shell.at = "asm" => Down
    /\ shell.at \in {"store", "ram", "transport", "connect", "listeners", "callbacks", "register"} =>
           asm_state = "INITIALIZED" /\ r_state = "INITIALIZED"
    /\ shell.at \in {"store", "ram", "transport", "connect", "listeners", "callbacks"} => s_table = <<>> /\ ~ops
    /\ shell.at \in {"ram", "transport", "connect", "listeners", "callbacks", "register"} => st_state = "INITIALIZED"
    /\ shell.at \in {"listeners", "callbacks", "register"} => tr_state # "UNINITIALIZED"
    /\ shell.at \in {"callbacks", "register"} => up = Svcs
    /\ shell.at = "register" =>
           /\ ops /\ Len(s_table) <= Len(Profiles)
           /\ \A i \in 1..Len(s_table) : s_table[i] = Profiles[i]

\* Only an initialised store has the RAM backend.
Backed == s_backend = "ram" => st_state = "INITIALIZED"

Lifecycle == Progress /\ LifecycleAgrees /\ Backed

\* Whoever is between its test of the transport and its assignment is alone there,
\* unless the other thread overlaps.
Listening ==
    /\ tr_state = "LISTEN" \/ Starting \/ shell.at = "stop" => k_state = "STARTED"
    /\ Starting => tr_state # "LISTEN"
    /\ Starting /\ ~overlap => tr_state # "POLL" /\ ~Discovering
    /\ k_state = "STARTED" /\ ~Starting /\ ~overlap => tr_state = "LISTEN" /\ ~Discovering

\* Two slots never have the same tag; a load has found its slot.
Unique ==
    \A i, j \in Store!Slots :
        s_slots[i] # NULL /\ s_slots[j] # NULL /\ s_slots[i].tag = s_slots[j].tag => i = j

Slotted ==
    /\ Unique /\ ActiveTagStored
    /\ shell.at = "load" => Store!Holding(shell.tag) # {}

StackInv ==
    /\ StateType /\ FlagType /\ ShellType /\ QueueType /\ DataType
    /\ Carried /\ RouterInv /\ Lifecycle /\ Listening /\ Slotted

-----------------------------------------------------------------------------
(* Slots                                                                    *)

\* The lowest of some numbers is one of them.
LEMMA LowestIsIn ==
    ASSUME NEW S, S \subseteq Nat, S # {}
    PROVE  Store!Lowest(S) \in S
<1> DEFINE Below == OpToRel(<, Nat)
<1>1. IsWellFoundedOn(Below, Nat)
  BY NatLessThanWellFounded, Zenon
<1>2. \A x, y \in Nat : x < y => <<x, y>> \in Below
  BY DEF OpToRel
<1> HIDE DEF Below
<1>3. PICK x \in S : \A y \in S : ~(<<y, x>> \in Below)
  BY <1>1, WFMin, Zenon
<1>4. \A y \in S : x <= y
  <2> SUFFICES ASSUME NEW y \in S PROVE x <= y
    OBVIOUS
  <2>1. x \in Nat /\ y \in Nat
    OBVIOUS
  <2>2. ~(y < x)
    BY <1>2, <1>3, <2>1, Zenon
  <2> QED BY <2>1, <2>2
<1> QED BY <1>4, Zenon DEF Store!Lowest

\* The slots of the RAM backend are the numbers up to their count.
LEMMA SlotsAreNumbers == Store!Slots \subseteq Nat
BY StackAssumption DEF Store!Slots

\* nfc_store_ram_save_cb writes a slot that holds the tag, or else a free one.
LEMMA SlotForIsIn ==
    ASSUME NEW tag, Store!RoomFor(tag)
    PROVE  /\ Store!SlotFor(tag) \in Store!Slots
           /\ Store!SlotFor(tag) \in Store!Holding(tag) \/ (Store!Holding(tag) = {} /\ Store!SlotFor(tag) \in Store!Free)
<1>1. Store!Holding(tag) \subseteq Store!Slots /\ Store!Free \subseteq Store!Slots
  BY DEF Store!Holding, Store!Free
<1>2. CASE Store!Holding(tag) # {}
  <2>1. Store!Lowest(Store!Holding(tag)) \in Store!Holding(tag)
    BY <1>1, <1>2, SlotsAreNumbers, LowestIsIn, Zenon
  <2> QED BY <1>1, <1>2, <2>1 DEF Store!SlotFor
<1>3. CASE Store!Holding(tag) = {}
  <2>1. Store!Free # {}
    BY <1>3 DEF Store!RoomFor
  <2>2. Store!Lowest(Store!Free) \in Store!Free
    BY <1>1, <2>1, SlotsAreNumbers, LowestIsIn, Zenon
  <2> QED BY <1>1, <1>3, <2>2 DEF Store!SlotFor
<1> QED BY <1>2, <1>3

\* A save gives its tag a slot and takes no tag's slot away.
LEMMA SaveKeepsSlots ==
    ASSUME DataType, Unique, NEW tag \in Tags, NEW blob \in Blobs, Store!RamSave(tag, blob)
    PROVE  /\ Unique'
           /\ s_slots' \in [Store!Slots -> {NULL} \cup [tag : Tags, blob : Blobs]]
           /\ Store!Holding(tag)' # {}
           /\ \A t : Store!Holding(t) # {} => Store!Holding(t)' # {}
<1> DEFINE k == Store!SlotFor(tag)
           new == [tag |-> tag, blob |-> blob]
<1>1. /\ k \in Store!Slots
      /\ k \in Store!Holding(tag) \/ (Store!Holding(tag) = {} /\ k \in Store!Free)
  BY SlotForIsIn DEF Store!RamSave
<1>2. s_slots' = [s_slots EXCEPT ![k] = new]
  BY DEF Store!RamSave
<1>3. new \in [tag : Tags, blob : Blobs] /\ new # NULL /\ new.tag = tag
  BY BlobAssumption
<1> HIDE DEF k, new
<1>4. s_slots' \in [Store!Slots -> {NULL} \cup [tag : Tags, blob : Blobs]]
  BY <1>1, <1>2, <1>3 DEF DataType
<1>5. s_slots'[k] = new /\ \A i \in Store!Slots : i # k => s_slots'[i] = s_slots[i]
  BY <1>1, <1>2 DEF DataType
<1>6. k \in Store!Holding(tag)'
  BY <1>1, <1>3, <1>5 DEF Store!Holding, Store!Slots
<1>7. ASSUME NEW t, NEW i \in Store!Holding(t)
      PROVE  Store!Holding(t)' # {}
  <2>1. CASE i # k
    BY <1>5, <1>7, <2>1 DEF Store!Holding, Store!Slots
  <2>2. CASE i = k
    <3>1. k \notin Store!Free
      BY <1>7, <2>2 DEF Store!Holding, Store!Free
    <3>2. t = tag
      BY <1>1, <1>7, <2>2, <3>1 DEF Store!Holding
    <3> QED BY <1>6, <3>2
  <2> QED BY <2>1, <2>2
<1>8. Unique'
  <2> SUFFICES ASSUME NEW i \in Store!Slots, NEW j \in Store!Slots,
                      s_slots'[i] # NULL, s_slots'[j] # NULL, s_slots'[i].tag = s_slots'[j].tag, i # j
               PROVE  FALSE
    BY DEF Unique, Store!Slots
  <2>1. i = k \/ j = k
    BY <1>5 DEF Unique
  <2>2. PICK n \in Store!Slots : n # k /\ s_slots[n] # NULL /\ s_slots[n].tag = tag
    BY <1>3, <1>5, <2>1
  <2>3. n \in Store!Holding(tag)
    BY <2>2 DEF Store!Holding
  <2>4. k \in Store!Holding(tag)
    BY <1>1, <2>3
  <2> QED BY <1>1, <2>2, <2>4 DEF Unique, Store!Holding
<1> QED BY <1>4, <1>6, <1>7, <1>8

\* Two sequences with the same length and the same entries are the same.
LEMMA SeqEqual ==
    ASSUME NEW S, NEW p \in Seq(S), NEW q \in Seq(S), Len(p) = Len(q), \A i \in 1..Len(p) : p[i] = q[i]
    PROVE  p = q
OBVIOUS

-----------------------------------------------------------------------------
(* Blobs                                                                    *)

\* A content for each of some services is a blob.
LEMMA BlobOf ==
    ASSUME NEW D \in SUBSET Svcs, NEW b \in [D -> Bodies]
    PROVE  b \in Blobs
BY DEF Blobs

\* The empty staging buffer is a blob without entries.
LEMMA EmptyIsBlob == <<>> \in Blobs
<1>1. <<>> \in [{} -> Bodies]
  OBVIOUS
<1>2. {} \in SUBSET Svcs
  OBVIOUS
<1> QED BY <1>1, <1>2, BlobOf, Zenon

\* nfc_store_save of one listener makes a blob with one entry.
LEMMA OneEntryBlob ==
    ASSUME NEW svc \in Svcs, NEW b \in Bodies
    PROVE  [x \in {svc} |-> b] \in Blobs
<1>1. {svc} \in SUBSET Svcs /\ [x \in {svc} |-> b] \in [{svc} -> Bodies]
  OBVIOUS
<1> QED BY <1>1, BlobOf

\* What a slot that holds the tag gives is a blob.
LEMMA RamBlobIsBlob ==
    ASSUME DataType, NEW tag, Store!Holding(tag) # {}
    PROVE  Store!RamBlob(tag) \in Blobs
<1>1. Store!Lowest(Store!Holding(tag)) \in Store!Holding(tag)
  BY SlotsAreNumbers, LowestIsIn, Zenon DEF Store!Holding
<1> DEFINE k == Store!Lowest(Store!Holding(tag))
<1>2. k \in Store!Slots /\ s_slots[k] # NULL
  BY <1>1 DEF Store!Holding
<1> HIDE DEF k
<1>3. s_slots[k] \in [tag : Tags, blob : Blobs]
  BY <1>2 DEF DataType
<1>4. s_slots[k].blob \in Blobs
  BY <1>3
<1> QED BY <1>4 DEF k, Store!RamBlob

\* What is left in the staging buffer after a call is a blob.
LEMMA StagedIsBlob ==
    ASSUME NEW b \in Blobs, NEW read \in BOOLEAN
    PROVE  Staged(b, read) \in Blobs
BY EmptyIsBlob DEF Staged

\* An entry of a blob is a content.
LEMMA EntryOf ==
    ASSUME NEW b \in Blobs
    PROVE  DOMAIN b \subseteq Svcs /\ \A svc \in DOMAIN b : b[svc] \in Bodies
<1>1. PICK D \in SUBSET Svcs : b \in [D -> Bodies]
  BY DEF Blobs
<1> QED BY <1>1

-----------------------------------------------------------------------------
(* What a start, a stop and a discovery leave alone                         *)

\* A start or a stop of the stack leaves everything but the states, the session and
\* the router's sessions alone, and the shell thread in nothing else.
LEMMA StartStopFrame ==
    ASSUME StartStop
    PROVE  /\ UNCHANGED <<s_active_tag, asm_state, ops, cardVars, storeVars, s_staging, s_store_ready, wq>>
           /\ UNCHANGED <<r_state, s_table>>
           /\ shell.at \in {"idle", "listen", "session", "stop"}
           /\ \/ UNCHANGED shell \/ shell' = ShellIdle
              \/ \E at \in {"listen", "session", "stop"} : shell' = [shell EXCEPT !.at = at]
<1>1. CASE StackStart
  BY <1>1 DEF StackStart, routerVars
<1>2. CASE StartListen \/ StartDone
  BY <1>2 DEF StartListen, StartDone, routerVars
<1>3. CASE StackStop
  BY <1>3 DEF StackStop, routerVars
<1>4. CASE StopDone
  BY <1>4 DEF StopDone, AidRouterFieldOff
<1> QED BY <1>1, <1>2, <1>3, <1>4 DEF StartStop

\* A discovery changes nothing but the transport and its own progress.
LEMMA DiscoverFrame ==
    ASSUME Discover
    PROVE  UNCHANGED <<routerVars, k_state, s_active_tag, asm_state, ops, cardVars, storeVars, s_staging,
                       s_store_ready, shell>>
BY Zenon DEF Discover, DiscoverOnce, DiscoverConnect, DiscoverStart, DiscoverStop, DiscoverFails, DiscoverWait

-----------------------------------------------------------------------------
(* The router inside the stack                                              *)

\* The calls the stack makes of the router are steps of the router; the nRF transport
\* ends the session at nfc_stack_stop without telling it.
LEMMA RouterSteps ==
    ASSUME StackInv, [Next]_vars
    PROVE  RouterInv'
<1>1. ASSUME [RouterNext]_routerVars PROVE RouterInv'
  BY <1>1, RouterKeeps DEF StackInv
<1>2. ASSUME NEW done, Unwind(done) PROVE [RouterNext]_routerVars
  BY <1>2 DEF Unwind, RouterNext
<1>3. CASE InitFront
  BY <1>1, <1>2, <1>3 DEF InitFront, RouterNext
<1>4. CASE InitConnect
  BY <1>1, <1>2, <1>4 DEF InitConnect
<1>5. CASE InitCallbacks
  BY <1>1, <1>2, <1>5 DEF InitCallbacks
<1>6. CASE InitRegister
  <2>1. CASE Unwind(Everything)
    BY <1>1, <1>2, <2>1
  <2>2. CASE UNCHANGED routerVars
    BY <1>1, <2>2
  <2>3. CASE /\ Len(s_table) < Len(Profiles)
             /\ AidRouterRegister(Profiles[Len(s_table) + 1].aid, Profiles[Len(s_table) + 1].svc)
    <3>1. Len(s_table) + 1 \in DOMAIN Profiles
      BY <2>3, StackAssumption DEF StackInv, RouterInv, RouterTypeOK
    <3>2. Profiles[Len(s_table) + 1] \in [aid : Aids, svc : Svcs]
      <4>1. Profiles \in Seq([aid : Aids, svc : Svcs])
        BY StackAssumption
      <4> HIDE DEF StackInv
      <4> QED BY <3>1, <4>1, SeqEntry, Zenon
    <3>3. Profiles[Len(s_table) + 1].aid \in Aids /\ Profiles[Len(s_table) + 1].svc \in Svcs
      BY <3>2
    <3> QED BY <1>1, <2>3, <3>3 DEF RouterNext
  <2> QED BY <1>6, <2>1, <2>2, <2>3 DEF InitRegister
<1>7. CASE StopDone
  <2>1. CASE answer' = NULL /\ UNCHANGED <<r_state, s_table, s_active_svc, selected, cleared>>
    BY <2>1 DEF StackInv, RouterInv, RouterTypeOK, SelectedIsActive, DownIsIdle, Answers
  <2>2. CASE AidRouterFieldOff
    BY <1>1, <2>2 DEF RouterNext
  <2> QED BY <1>7, <2>1, <2>2 DEF StopDone
<1>8. CASE StackShutdown
  BY <1>1, <1>2, <1>8 DEF StackShutdown
<1>9. CASE Serve
  BY <1>1, <1>9 DEF Serve, RouterNext
<1>10. CASE \E body \in Updates : NdefUpdate(body)
  BY <1>1, <1>10 DEF NdefUpdate, RouterNext
<1>11. CASE UNCHANGED routerVars
  BY <1>1, <1>11
<1>12. \/ InitBegin \/ InitStore \/ InitTransport \/ InitListeners
       \/ StackStart \/ StartListen \/ StartDone \/ StackStop \/ LoadApply \/ SaveWrite \/ ReadWait
       \/ \E tag \in Tags : LoadFetch(tag) \/ SaveStage(tag) \/ Peek(tag) \/ ReadStart(tag)
       \/ \E tag \in Tags, blob \in ImportBlobs : Import(tag, blob)
       \/ CloneInit \/ CloneStage \/ CloneStore \/ CloneFails \/ UNCHANGED vars
       => UNCHANGED routerVars
  BY Zenon DEF InitBegin, InitStore, InitTransport, InitListeners, StackStart, StartListen, StartDone, StackStop,
         LoadApply, SaveWrite, ReadWait, LoadFetch, SaveStage, Peek, ReadStart, Import, CloneInit, CloneStage,
         CloneStore, CloneFails, vars
<1>13. CASE Discover
  BY <1>11, <1>13, DiscoverFrame
<1> QED BY <1>3, <1>4, <1>5, <1>6, <1>7, <1>8, <1>9, <1>10, <1>11, <1>12, <1>13
        DEF Next, Shell, Queue, StackInit, StartStop

-----------------------------------------------------------------------------
(* Control                                                                  *)

\* Every step keeps the states of the parts within their enumerations.
LEMMA StateSteps ==
    ASSUME StateType, [Next]_vars
    PROVE  StateType'
<1>1. CASE UNCHANGED vars
  BY <1>1 DEF vars, storeVars, StateType
<1>2. ASSUME NEW done, Unwind(done) PROVE StateType'
  BY <1>2 DEF Unwind, Store!StoreShutdown, storeVars, StateType
<1>3. CASE InitBegin \/ InitTransport \/ InitListeners
  BY <1>3 DEF InitBegin, InitTransport, InitListeners, storeVars, StateType
<1>4. CASE InitFront
  BY <1>2, <1>4 DEF InitFront, storeVars, StateType
<1>5. CASE InitStore
  BY <1>5 DEF InitStore, Store!StoreInit, Store!RamInit, Store!RamReady, StateType
<1>6. CASE InitConnect
  BY <1>2, <1>6 DEF InitConnect, storeVars, StateType
<1>7. CASE InitCallbacks
  BY <1>2, <1>7 DEF InitCallbacks, storeVars, StateType
<1>8. CASE InitRegister
  BY <1>2, <1>8 DEF InitRegister, storeVars, StateType
<1>9. CASE StartStop
  BY <1>9 DEF StartStop, StackStart, StartListen, StartDone, StackStop, StopDone, storeVars, StateType
<1>10. CASE StackShutdown
  BY <1>2, <1>10 DEF StackShutdown
<1>11. CASE LoadApply \/ SaveWrite \/ ReadWait
  BY <1>11 DEF LoadApply, SaveWrite, ReadWait, Store!SaveCb, Store!SaveCbFails, storeVars, Store!storeVars, StateType
<1>12. ASSUME NEW tag \in Tags, LoadFetch(tag) \/ SaveStage(tag) \/ Peek(tag)
       PROVE  StateType'
  BY <1>12 DEF LoadFetch, SaveStage, Peek, storeVars, StateType
<1>13. ASSUME NEW tag \in Tags, ReadStart(tag)
       PROVE  StateType'
  BY <1>13 DEF ReadStart, Store!StoreInit, Store!RamInit, Store!RamReady, storeVars, StateType
<1>14. ASSUME NEW tag \in Tags, NEW blob \in ImportBlobs, Import(tag, blob)
       PROVE  StateType'
  BY <1>14 DEF Import, Store!RamImport, Store!RamReady, StateType
<1>15. CASE Serve \/ \E body \in Updates : NdefUpdate(body)
  BY <1>15 DEF Serve, NdefUpdate, storeVars, StateType
<1>16. CASE Discover
  <2>1. UNCHANGED <<k_state, asm_state, st_state, s_backend>>
    BY <1>16, DiscoverFrame DEF storeVars
  <2>2. tr_state' \in {tr_state, "INITIALIZED", "POLL", "STOPPED", "ORPHAN"}
    BY <1>16, Zenon DEF Discover, DiscoverOnce, DiscoverConnect, DiscoverStart, DiscoverStop, DiscoverFails, DiscoverWait
  <2> QED BY <2>1, <2>2 DEF StateType
<1>17. CASE CloneInit \/ CloneStage
  BY <1>17 DEF CloneInit, CloneStage, storeVars, StateType
<1>18. CASE CloneStore \/ CloneFails
  BY <1>18 DEF CloneStore, CloneFails, Store!SaveCb, storeVars, StateType
<1> QED BY <1>1, <1>3, <1>4, <1>5, <1>6, <1>7, <1>8, <1>9, <1>10, <1>11, <1>12, <1>13, <1>14, <1>15, <1>16,
           <1>17, <1>18
        DEF Next, Shell, Queue, StackInit

\* A flag is kept or set to a truth value.
LEMMA FlagSteps ==
    ASSUME FlagType, [Next]_vars
    PROVE  FlagType'
<1>1. /\ ops' \in {ops, TRUE, FALSE}
      /\ s_ready' \in {s_ready, TRUE}
      /\ s_store_ready' \in {s_store_ready, TRUE}
  <2>1. CASE UNCHANGED vars
    BY <2>1 DEF vars, storeVars
  <2>2. ASSUME NEW done, Unwind(done)
        PROVE  ops' \in {ops, FALSE} /\ s_ready' = s_ready /\ s_store_ready' = s_store_ready
    BY <2>2, Zenon DEF Unwind, Store!StoreShutdown, storeVars
  <2>3. CASE StackInit
    BY <2>2, <2>3, Zenon DEF StackInit, InitBegin, InitFront, InitStore, InitTransport, InitConnect, InitListeners,
                      InitCallbacks, InitRegister, Store!StoreInit, Store!RamInit, Store!RamReady, storeVars
  <2>4. CASE StackShutdown \/ LoadApply \/ SaveWrite \/ ReadWait
    BY <2>2, <2>4, Zenon DEF StackShutdown, LoadApply, SaveWrite, ReadWait, Store!SaveCb,
                      Store!SaveCbFails, storeVars, Store!storeVars
  <2>5. CASE \E tag \in Tags : LoadFetch(tag) \/ SaveStage(tag) \/ Peek(tag) \/ ReadStart(tag)
    BY <2>5, Zenon DEF LoadFetch, SaveStage, Peek, ReadStart, Store!StoreInit, Store!RamInit, Store!RamReady, storeVars
  <2>6. CASE \E tag \in Tags, blob \in ImportBlobs : Import(tag, blob)
    BY <2>6, Zenon DEF Import, Store!RamImport, Store!RamReady
  <2>7. CASE Serve \/ CloneInit \/ CloneStage \/ CloneStore \/ CloneFails \/ \E body \in Updates : NdefUpdate(body)
    BY <2>7, Zenon DEF Serve, NdefUpdate, CloneInit, CloneStage, CloneStore, CloneFails, Store!SaveCb, storeVars
  <2>8. CASE StartStop \/ Discover
    BY <2>8, StartStopFrame, DiscoverFrame, Zenon DEF storeVars
  <2> QED BY <2>1, <2>3, <2>4, <2>5, <2>6, <2>7, <2>8, Zenon DEF Next, Shell, Queue
<1>2. overlap' \in BOOLEAN
  <2>1. Starting \in BOOLEAN /\ Discovering \in BOOLEAN
    BY DEF Starting, Discovering
  <2>2. CASE UNCHANGED overlap
    BY <2>2, Zenon DEF FlagType
  <2>3. ASSUME NEW done, Unwind(done) PROVE overlap' \in BOOLEAN
    BY <2>3, Zenon DEF Unwind
  <2>4. CASE StackInit \/ StackShutdown
    BY <2>2, <2>3, <2>4, Zenon DEF StackInit, InitBegin, InitFront, InitStore, InitTransport, InitConnect, InitListeners,
                      InitCallbacks, InitRegister, StackShutdown
  <2>5. CASE StartStop
    BY <2>1, <2>2, <2>5, Zenon DEF StartStop, StackStart, StartListen, StartDone, StackStop, StopDone
  <2>6. CASE Discover
    <3>1. CASE DiscoverOnce
      BY <2>1, <3>1, Zenon DEF DiscoverOnce, FlagType
    <3> QED BY <2>2, <2>6, <3>1, Zenon DEF Discover, DiscoverConnect, DiscoverStart, DiscoverStop, DiscoverFails, DiscoverWait
  <2>7. \/ LoadApply \/ SaveWrite \/ ReadWait
        \/ \E tag \in Tags : LoadFetch(tag) \/ SaveStage(tag) \/ Peek(tag) \/ ReadStart(tag)
        \/ \E tag \in Tags, blob \in ImportBlobs : Import(tag, blob)
        \/ Serve \/ CloneInit \/ CloneStage \/ CloneStore \/ CloneFails \/ (\E body \in Updates : NdefUpdate(body))
        \/ UNCHANGED vars
        => UNCHANGED overlap
    BY Zenon DEF LoadApply, SaveWrite, ReadWait, LoadFetch, SaveStage, Peek, ReadStart, Import, Serve, NdefUpdate, CloneInit,
                 CloneStage, CloneStore, CloneFails, vars
  <2> QED BY <2>2, <2>4, <2>5, <2>6, <2>7, Zenon DEF Next, Shell, Queue
<1> QED BY <1>1, <1>2, Zenon DEF FlagType

\* The shell thread is in one call at a time, and a load or a save has its tag.
LEMMA ShellSteps ==
    ASSUME ShellType, Carried, QueueType, [Next]_vars
    PROVE  ShellType' /\ (shell'.at \in {"load", "save"} => shell'.tag \in Tags)
<1>1. CASE UNCHANGED shell
  BY <1>1 DEF ShellType, Carried
<1>2. CASE shell' = ShellIdle
  BY <1>2 DEF ShellIdle, ShellType
<1>3. CASE \E at \in {"asm", "store", "ram", "transport", "connect", "listeners", "callbacks", "register",
                      "listen", "session", "stop", "wait"} :
               shell' = [shell EXCEPT !.at = at]
  BY <1>3 DEF ShellType
<1>4. ASSUME NEW tag \in Tags, NEW at \in {"load", "save"}, NEW alone \in BOOLEAN,
             shell' = [at |-> at, tag |-> tag, alone |-> alone]
      PROVE  ShellType' /\ shell'.tag \in Tags
  <2>1. shell' \in [at : {"load", "save"}, tag : Tags, alone : BOOLEAN]
    BY <1>4
  <2> QED BY <2>1 DEF ShellType
<1>5. CASE StackInit
  BY <1>1, <1>2, <1>3, <1>5 DEF StackInit, InitBegin, InitFront, InitStore, InitTransport, InitConnect, InitListeners,
                                InitCallbacks, InitRegister, Unwind
<1>6. CASE StackShutdown \/ LoadApply \/ SaveWrite \/ ReadWait
  BY <1>1, <1>2, <1>6 DEF StackShutdown, LoadApply, SaveWrite, ReadWait, Unwind
<1>10. CASE StartStop
  BY <1>1, <1>2, <1>3, <1>10, StartStopFrame
<1>7. ASSUME NEW tag \in Tags, LoadFetch(tag) \/ SaveStage(tag) \/ Peek(tag) \/ ReadStart(tag)
      PROVE  ShellType' /\ (shell'.at \in {"load", "save"} => shell'.tag \in Tags)
  <2>1. (wq.at = "idle") \in BOOLEAN
    OBVIOUS
  <2>2. CASE LoadFetch(tag)
    BY <1>4, <2>1, <2>2, Zenon DEF LoadFetch
  <2>3. CASE SaveStage(tag)
    BY <1>4, <2>1, <2>3, Zenon DEF SaveStage
  <2>4. CASE Peek(tag)
    BY <1>1, <2>4 DEF Peek
  <2>5. CASE ReadStart(tag)
    BY <1>3, <2>5 DEF ReadStart
  <2> QED BY <1>7, <2>2, <2>3, <2>4, <2>5
<1>8. CASE \E tag \in Tags, blob \in ImportBlobs : Import(tag, blob)
  BY <1>1, <1>8 DEF Import
<1>9. CASE Queue \/ UNCHANGED vars
  BY <1>1, <1>9, DiscoverFrame, Zenon DEF Queue, Serve, NdefUpdate, CloneInit, CloneStage, CloneStore, CloneFails, vars
<1> QED BY <1>5, <1>6, <1>7, <1>8, <1>9, <1>10 DEF Next, Shell

\* The queue has one work item at a time, and it has its tag, and its card once it
\* has found one.
LEMMA QueueSteps ==
    ASSUME QueueType, Carried, [Next]_vars
    PROVE  /\ QueueType' /\ (wq'.at \notin {"idle", "end"} => wq'.tag \in Tags)
           /\ wq'.at \in {"clone", "stage", "store"} => wq'.svc \in Svcs /\ wq'.card \in Cards
<1>1. CASE UNCHANGED wq
  BY <1>1 DEF QueueType, Carried
<1>2. CASE wq' = WqIdle
  BY <1>2 DEF WqIdle, QueueType
<1>3. CASE StackInit
  BY <1>1, <1>3 DEF StackInit, InitBegin, InitFront, InitStore, InitTransport, InitConnect, InitListeners, InitCallbacks,
                    InitRegister, Unwind
<1>4. CASE StartStop \/ StackShutdown \/ LoadApply \/ SaveWrite \/ ReadWait
  BY <1>1, <1>4, StartStopFrame DEF StackShutdown, LoadApply, SaveWrite, ReadWait, Unwind
<1>5. CASE \E tag \in Tags : LoadFetch(tag) \/ SaveStage(tag) \/ Peek(tag)
  BY <1>1, <1>5 DEF LoadFetch, SaveStage, Peek
<1>6. ASSUME NEW tag \in Tags, ReadStart(tag)
      PROVE  QueueType' /\ wq'.tag \in Tags /\ wq'.at = "read"
  BY <1>6, Zenon DEF ReadStart, WqIdle, QueueType
<1>7. CASE \E tag \in Tags, blob \in ImportBlobs : Import(tag, blob)
  BY <1>1, <1>7 DEF Import
<1>8. CASE Serve \/ (\E body \in Updates : NdefUpdate(body)) \/ UNCHANGED vars
  BY <1>1, <1>8 DEF Serve, NdefUpdate, vars
<1>9. CASE SessionEnd
  BY <1>2, <1>9 DEF SessionEnd, WqIdle, QueueType
<1>10. ASSUME NEW svc \in Svcs, NEW card \in Cards, DiscoverWait(svc, card)
       PROVE  QueueType' /\ wq'.tag \in Tags /\ wq'.svc \in Svcs /\ wq'.card \in Cards
  BY <1>10, Zenon DEF DiscoverWait, QueueType, Carried
<1>12. CASE DiscoverOnce \/ DiscoverConnect
  BY <1>12 DEF DiscoverOnce, DiscoverConnect, QueueType, Carried
<1>13. CASE DiscoverStart
  BY <1>2, <1>13 DEF DiscoverStart, QueueType, Carried
<1>14. CASE DiscoverStop \/ DiscoverFails \/ CloneStore \/ CloneFails
  BY <1>2, <1>9, <1>14 DEF DiscoverStop, DiscoverFails, CloneStore, CloneFails
<1>11. CASE CloneInit \/ CloneStage
  BY <1>11 DEF CloneInit, CloneStage, QueueType, Carried
<1> QED BY <1>3, <1>4, <1>5, <1>6, <1>7, <1>8, <1>10, <1>11, <1>12, <1>13, <1>14 DEF Next, Shell, Queue, Discover

-----------------------------------------------------------------------------
(* What cards, slots and the staging buffer hold                            *)

\* Every step leaves a content in each listener.
LEMMA ModelSteps ==
    ASSUME StackInv, [Next]_vars
    PROVE  up' \subseteq Svcs /\ model' \in [Svcs -> Bodies]
<1>1. CASE UNCHANGED cardVars
  BY <1>1 DEF StackInv, DataType, cardVars
<1>2. ASSUME NEW done, Unwind(done) PROVE up' \subseteq Svcs /\ model' \in [Svcs -> Bodies]
  BY <1>2 DEF Unwind, StackInv, DataType
<1>3. CASE InitFront \/ InitConnect \/ InitCallbacks \/ InitRegister \/ StackShutdown
  BY <1>1, <1>2, <1>3 DEF InitFront, InitConnect, InitCallbacks, InitRegister, StackShutdown
<1>4. CASE InitListeners
  BY <1>4 DEF InitListeners, StackInv, DataType, Bodies
<1>5. CASE LoadApply
  <2>1. DOMAIN s_staging \subseteq Svcs /\ \A svc \in DOMAIN s_staging : s_staging[svc] \in Bodies
    BY EntryOf DEF StackInv, DataType
  <2> QED BY <1>5, <2>1 DEF LoadApply, StackInv, DataType, Bodies
<1>6. ASSUME NEW body \in Updates, NdefUpdate(body)
      PROVE  up' \subseteq Svcs /\ model' \in [Svcs -> Bodies]
  BY <1>6, StackAssumption DEF NdefUpdate, StackInv, DataType, Bodies
<1>7. CASE CloneInit
  BY <1>1, <1>7 DEF CloneInit, StackInv, DataType, Carried, Bodies
<1>8. \/ InitBegin \/ InitStore \/ InitTransport \/ SaveWrite \/ ReadWait
      \/ \E tag \in Tags : LoadFetch(tag) \/ SaveStage(tag) \/ Peek(tag) \/ ReadStart(tag)
      \/ \E tag \in Tags, blob \in ImportBlobs : Import(tag, blob)
      \/ Serve \/ CloneStage \/ CloneStore \/ CloneFails \/ UNCHANGED vars
      => UNCHANGED cardVars
  BY Zenon DEF InitBegin, InitStore, InitTransport, SaveWrite, ReadWait, LoadFetch, SaveStage, Peek, ReadStart,
         Import, Serve, CloneStage, CloneStore, CloneFails, vars
<1>9. CASE StartStop \/ Discover
  BY <1>1, <1>9, StartStopFrame, DiscoverFrame
<1> QED BY <1>1, <1>3, <1>4, <1>5, <1>6, <1>7, <1>8, <1>9 DEF Next, Shell, Queue, StackInit

\* Every step leaves a blob, or nothing, in the staging buffer.
LEMMA StagingSteps ==
    ASSUME StackInv, [Next]_vars
    PROVE  s_staging' \in Blobs
<1>1. s_staging \in Blobs /\ model \in Blobs
  <2>1. Svcs \in SUBSET Svcs
    OBVIOUS
  <2> QED BY <2>1, BlobOf DEF StackInv, DataType
<1>2. QueueStages \in BOOLEAN /\ ShellStages \in BOOLEAN
  BY DEF QueueStages, ShellStages
<1>3. CASE StackInit \/ StackShutdown
  BY <1>1, <1>3 DEF StackInit, StackShutdown, Unwind, InitBegin, InitFront, InitStore, InitTransport, InitConnect, InitListeners,
                    InitCallbacks, InitRegister
<1>4. CASE LoadApply \/ SaveWrite
  <2>1. s_staging' = Staged(s_staging, QueueStages)
    BY <1>4 DEF LoadApply, SaveWrite
  <2> QED BY <1>1, <1>2, <2>1, StagedIsBlob
<1>5. ASSUME NEW tag \in Tags, LoadFetch(tag) PROVE s_staging' \in Blobs
  BY <1>5, RamBlobIsBlob DEF LoadFetch, Store!Readable, StackInv
<1>6. ASSUME NEW tag \in Tags, Peek(tag) PROVE s_staging' \in Blobs
  BY <1>2, <1>6, RamBlobIsBlob, StagedIsBlob DEF Peek, Store!Readable, StackInv
<1>7. CASE \E tag \in Tags : SaveStage(tag)
  BY <1>1, <1>7 DEF SaveStage
<1>8. ASSUME NEW body \in Updates, NdefUpdate(body) PROVE s_staging' \in Blobs
  <2>1. body \in Bodies /\ Ndef \in Svcs
    BY StackAssumption DEF Bodies
  <2>2. [svc \in {Ndef} |-> body] \in Blobs
    BY <2>1, OneEntryBlob, Zenon
  <2>3. Staged([svc \in {Ndef} |-> body], ShellStages) \in Blobs
    BY <1>2, <2>2, StagedIsBlob
  <2> QED BY <1>1, <1>8, <2>3 DEF NdefUpdate
<1>9. CASE CloneStage
  <2>1. wq.svc \in Svcs /\ model[wq.svc] \in Bodies
    BY <1>9 DEF CloneStage, StackInv, Carried, DataType
  <2>2. s_staging' = [svc \in {wq.svc} |-> model[wq.svc]]
    BY <1>9 DEF CloneStage
  <2> QED BY <2>1, <2>2, OneEntryBlob, Zenon
<1>10. CASE CloneStore \/ CloneFails
  <2>1. s_staging' = Staged(s_staging, ShellStages)
    BY <1>10 DEF CloneStore, CloneFails
  <2> QED BY <1>1, <1>2, <2>1, StagedIsBlob
<1>11. \/ ReadWait \/ (\E tag \in Tags : ReadStart(tag))
       \/ \E tag \in Tags, blob \in ImportBlobs : Import(tag, blob)
       \/ Serve \/ CloneInit \/ UNCHANGED vars
       => UNCHANGED s_staging
  BY Zenon DEF ReadWait, ReadStart, Import, Serve, CloneInit, vars
<1>12. CASE StartStop \/ Discover
  BY <1>1, <1>12, StartStopFrame, DiscoverFrame
<1> QED BY <1>1, <1>3, <1>4, <1>5, <1>6, <1>7, <1>8, <1>9, <1>10, <1>11, <1>12 DEF Next, Shell, Queue

\* Every step keeps one slot for a tag, the slot of the active tag, and the slot a
\* load has found.
LEMMA SlotSteps ==
    ASSUME StackInv, [Next]_vars
    PROVE  /\ Slotted'
           /\ s_slots' \in [Store!Slots -> {NULL} \cup [tag : Tags, blob : Blobs]]
           /\ s_active_tag' \in Tags \cup {NULL}
<1> DEFINE Good == /\ Slotted'
                   /\ s_slots' \in [Store!Slots -> {NULL} \cup [tag : Tags, blob : Blobs]]
                   /\ s_active_tag' \in Tags \cup {NULL}
<1> SUFFICES Good
  OBVIOUS
<1> HIDE DEF Good
<1>1. ASSUME UNCHANGED s_slots, s_active_tag' \in {s_active_tag, NULL},
             shell'.at = "load" => shell.at = "load" /\ shell'.tag = shell.tag
      PROVE  Good
  BY <1>1 DEF Good, StackInv, Slotted, Unique, ActiveTagStored, Store!Holding, Store!Slots, DataType
<1>2. ASSUME NEW tag \in Tags, NEW blob \in Blobs, Store!RamSave(tag, blob),
             s_active_tag' \in {s_active_tag, tag},
             shell'.at = "load" => shell.at = "load" /\ shell'.tag = shell.tag
      PROVE  Good
  <2>1. /\ Unique'
        /\ s_slots' \in [Store!Slots -> {NULL} \cup [tag : Tags, blob : Blobs]]
        /\ Store!Holding(tag)' # {}
        /\ \A t : Store!Holding(t) # {} => Store!Holding(t)' # {}
    BY <1>2, SaveKeepsSlots DEF StackInv, Slotted
  <2>2. ActiveTagStored'
    BY <1>2, <2>1 DEF StackInv, Slotted, ActiveTagStored, Store!Holding
  <2>3. (shell.at = "load" => Store!Holding(shell.tag) # {})'
    BY <1>2, <2>1 DEF StackInv, Slotted, Store!Holding
  <2> QED BY <1>2, <2>1, <2>2, <2>3 DEF Good, Slotted, StackInv, DataType
<1>3. CASE StackInit \/ StackShutdown
  <2>1. UNCHANGED s_slots /\ s_active_tag' \in {s_active_tag, NULL}
    BY <1>3 DEF StackInit, StackShutdown, Unwind, InitBegin, InitFront, InitStore, InitTransport, InitConnect, InitListeners,
                InitCallbacks, InitRegister, Store!StoreInit, Store!RamInit, Store!StoreShutdown, storeVars
  <2>2. shell'.at # "load"
    BY <1>3 DEF StackInit, StackShutdown, Unwind, InitBegin, InitFront, InitStore, InitTransport, InitConnect, InitListeners,
                InitCallbacks, InitRegister, ShellIdle, StackInv, ShellType
  <2> QED BY <1>1, <2>1, <2>2
<1>4. CASE LoadApply
  <2>1. shell.tag \in Tags /\ Store!Holding(shell.tag) # {}
    BY <1>4 DEF LoadApply, StackInv, Carried, Slotted
  <2>2. UNCHANGED s_slots /\ s_active_tag' \in {s_active_tag, shell.tag} /\ shell'.at = "idle"
    BY <1>4 DEF LoadApply, storeVars, ShellIdle
  <2>3. Unique' /\ ActiveTagStored'
    BY <2>1, <2>2 DEF StackInv, Slotted, Unique, ActiveTagStored, Store!Holding, Store!Slots
  <2> QED BY <2>1, <2>2, <2>3 DEF Good, Slotted, StackInv, DataType
<1>5. CASE SaveWrite
  <2>1. shell.tag \in Tags /\ s_staging \in Blobs
    BY <1>5 DEF SaveWrite, StackInv, Carried, DataType
  <2>2. shell'.at # "load"
    BY <1>5 DEF SaveWrite, ShellIdle
  <2>3. CASE Store!SaveCb(shell.tag, s_staging) /\ s_active_tag' = shell.tag
    BY <1>2, <2>1, <2>2, <2>3 DEF Store!SaveCb
  <2>4. CASE Store!SaveCbFails(shell.tag) /\ UNCHANGED s_active_tag
    BY <1>1, <2>2, <2>4 DEF Store!SaveCbFails, Store!storeVars
  <2> QED BY <1>5, <2>3, <2>4 DEF SaveWrite
<1>6. ASSUME NEW tag \in Tags, LoadFetch(tag) PROVE Good
  <2>1. UNCHANGED <<s_slots, s_active_tag>> /\ shell'.tag = tag /\ Store!Holding(tag) # {}
    BY <1>6 DEF LoadFetch, storeVars, Store!Readable
  <2>2. Unique' /\ ActiveTagStored'
    BY <2>1 DEF StackInv, Slotted, Unique, ActiveTagStored, Store!Holding, Store!Slots
  <2>3. (Store!Holding(shell.tag) # {})'
    BY <2>1 DEF Store!Holding, Store!Slots
  <2> QED BY <2>1, <2>2, <2>3 DEF Good, Slotted, StackInv, DataType
<1>7. ASSUME NEW tag \in Tags, SaveStage(tag) \/ Peek(tag) \/ ReadStart(tag) PROVE Good
  <2>1. UNCHANGED <<s_slots, s_active_tag>>
    BY <1>7 DEF SaveStage, Peek, ReadStart, Store!StoreInit, Store!RamInit, storeVars
  <2>2. shell'.at = "load" => shell.at = "load" /\ shell'.tag = shell.tag
    BY <1>7 DEF SaveStage, Peek, ReadStart, StackInv, ShellType
  <2> QED BY <1>1, <2>1, <2>2
<1>8. ASSUME NEW tag \in Tags, NEW blob \in ImportBlobs, Import(tag, blob) PROVE Good
  <2>1. blob \in Blobs /\ UNCHANGED <<s_active_tag, shell>>
    BY <1>8, BlobAssumption DEF Import
  <2>2. CASE Store!RamSave(tag, blob)
    BY <1>2, <2>1, <2>2
  <2>3. CASE UNCHANGED s_slots
    BY <1>1, <2>1, <2>3
  <2> QED BY <1>8, <2>2, <2>3 DEF Import, Store!RamImport
<1>9. CASE CloneStore
  <2>1. wq.tag \in Tags /\ s_staging \in Blobs /\ UNCHANGED <<s_active_tag, shell>> /\ Store!RamSave(wq.tag, s_staging)
    BY <1>9 DEF CloneStore, Store!SaveCb, StackInv, Carried, DataType
  <2> QED BY <1>2, <2>1
<1>10. \/ Serve \/ (\E body \in Updates : NdefUpdate(body)) \/ CloneInit \/ CloneStage \/ CloneFails
       \/ UNCHANGED vars
       => UNCHANGED <<s_slots, s_active_tag, shell>>
  BY Zenon DEF Serve, NdefUpdate, CloneInit, CloneStage, CloneFails, vars, storeVars
<1>11. CASE UNCHANGED <<s_slots, s_active_tag, shell>>
  BY <1>1, <1>11
<1>12. CASE ReadWait
  <2>1. UNCHANGED <<s_slots, s_active_tag>> /\ shell'.at = "idle"
    BY <1>12 DEF ReadWait, storeVars, ShellIdle
  <2> QED BY <1>1, <2>1
<1>13. CASE Discover
  <2>1. UNCHANGED <<s_slots, s_active_tag, shell>>
    BY <1>13, DiscoverFrame DEF storeVars
  <2> QED BY <1>1, <2>1
<1>14. CASE StartStop
  <2>1. UNCHANGED <<s_slots, s_active_tag>>
    BY <1>14, StartStopFrame DEF storeVars
  <2>2. shell'.at # "load"
    BY <1>14, StartStopFrame DEF ShellIdle, StackInv, ShellType
  <2> QED BY <1>1, <2>1, <2>2
<1> QED BY <1>3, <1>4, <1>5, <1>6, <1>7, <1>8, <1>9, <1>10, <1>11, <1>12, <1>13, <1>14 DEF Next, Shell, Queue

-----------------------------------------------------------------------------
(* The lifecycle                                                            *)

\* Inside nfc_stack_init a part that is given up leaves everything down; so does
\* nfc_stack_shutdown.
LEMMA UnwindKeeps ==
    ASSUME StackInv,
           \/ shell.at = "asm" /\ Unwind({})
           \/ shell.at = "connect" /\ Unwind({"asm", "router", "store"})
           \/ Unwind(Everything)
    PROVE  Lifecycle' /\ Listening'
<1>1. k_state' = "UNINITIALIZED" /\ shell'.at = "idle" /\ ~Starting'
  BY DEF Unwind, ShellIdle, Starting
<1>2. Down'
  <2>1. CASE shell.at = "asm" /\ Unwind({})
    BY <2>1 DEF Unwind, Down, StackInv, Lifecycle, Progress, routerVars
  <2>2. CASE shell.at = "connect" /\ Unwind({"asm", "router", "store"})
    BY <2>2 DEF Unwind, Down, StackInv, Lifecycle, Progress, AidRouterShutdown
  <2>3. CASE Unwind(Everything)
    BY <2>3 DEF Unwind, Everything, Down, AidRouterShutdown
  <2> QED BY <2>1, <2>2, <2>3
<1>3. tr_state' # "LISTEN"
  BY DEF Unwind, Everything, StackInv, Lifecycle, Progress, InInit, Listening
<1>4. Backed'
  BY DEF Unwind, Everything, StackInv, Lifecycle, Backed, Store!StoreShutdown, storeVars
<1> QED BY <1>1, <1>2, <1>3, <1>4 DEF Lifecycle, Progress, InInit, LifecycleAgrees, Listening, Down

\* A step that leaves the shell thread where it is, or outside nfc_stack_init, and takes
\* nothing down keeps the lifecycle.
LEMMA QuietKeeps ==
    ASSUME StackInv, UNCHANGED <<k_state, asm_state, r_state, s_table, ops>>,
           UNCHANGED shell \/ (~InInit /\ ~InInit'),
           tr_state # "UNINITIALIZED" => tr_state' # "UNINITIALIZED",
           st_state = "INITIALIZED" => st_state' = "INITIALIZED", Backed', up = Svcs => up' = Svcs
    PROVE  Lifecycle'
<1>1. Progress'
  <2>1. CASE UNCHANGED shell
    BY <2>1 DEF StackInv, Lifecycle, Progress, InInit, Down
  <2>2. CASE ~InInit'
    BY <2>2 DEF Progress, InInit
  <2> QED BY <2>1, <2>2
<1>2. LifecycleAgrees'
  BY DEF StackInv, Lifecycle, LifecycleAgrees, InInit
<1> QED BY <1>1, <1>2 DEF Lifecycle

\* A registration adds the next profile; after the last one the table is the list.
LEMMA RegisterStep ==
    ASSUME StackInv, InitRegister
    PROVE  Lifecycle'
<1> DEFINE n == Len(s_table)
<1>1. /\ shell.at = "register" /\ ops /\ n <= Len(Profiles) /\ (\A i \in 1..n : s_table[i] = Profiles[i])
      /\ k_state = "INITIALIZED" /\ asm_state = "INITIALIZED" /\ r_state = "INITIALIZED"
      /\ st_state = "INITIALIZED" /\ tr_state # "UNINITIALIZED" /\ up = Svcs
  BY DEF InitRegister, StackInv, Lifecycle, Progress, InInit
<1>2. s_table \in Seq([aid : Aids, svc : Svcs]) /\ Profiles \in Seq([aid : Aids, svc : Svcs]) /\ n \in Nat
  BY StackAssumption DEF StackInv, RouterInv, RouterTypeOK
<1>3. CASE Unwind(Everything)
  BY <1>3, UnwindKeeps
<1>4. ASSUME UNCHANGED <<k_state, asm_state, tr_state, ops, cardVars, storeVars>>
      PROVE  Backed'
  BY <1>4 DEF storeVars, StackInv, Lifecycle, Backed
<1>5. CASE /\ n < Len(Profiles) /\ AidRouterRegister(Profiles[n + 1].aid, Profiles[n + 1].svc) /\ UNCHANGED shell
           /\ UNCHANGED <<k_state, asm_state, tr_state, ops, cardVars, storeVars>>
  <2>1. s_table' = Append(s_table, [aid |-> Profiles[n + 1].aid, svc |-> Profiles[n + 1].svc])
    BY <1>5 DEF AidRouterRegister
  <2>2. Profiles[n + 1] \in [aid : Aids, svc : Svcs]
    <3>1. n + 1 \in DOMAIN Profiles
      BY <1>2, <1>5
    <3> HIDE DEF n
    <3> QED BY <1>2, <3>1, SeqEntry, Zenon
  <2>3. [aid |-> Profiles[n + 1].aid, svc |-> Profiles[n + 1].svc] = Profiles[n + 1]
    BY <2>2
  <2>4. s_table' = Append(s_table, Profiles[n + 1])
    BY <2>1, <2>3
  <2>5. Len(s_table') = n + 1 /\ s_table'[n + 1] = Profiles[n + 1] /\ \A i \in 1..n : s_table'[i] = s_table[i]
    BY <1>2, <2>2, <2>4
  <2>6. Len(s_table') <= Len(Profiles) /\ \A i \in 1..Len(s_table') : s_table'[i] = Profiles[i]
    BY <1>1, <1>2, <1>5, <2>5
  <2>7. UNCHANGED <<r_state, st_state, up>>
    BY <1>5 DEF AidRouterRegister, storeVars, cardVars
  <2>8. Progress'
    BY <1>1, <1>5, <2>6, <2>7 DEF Progress, InInit
  <2>9. LifecycleAgrees'
    BY <1>1, <1>5 DEF LifecycleAgrees, InInit
  <2> QED BY <1>4, <1>5, <2>8, <2>9 DEF Lifecycle
<1>6. CASE /\ ~(n < Len(Profiles)) /\ shell' = ShellIdle /\ UNCHANGED routerVars
           /\ UNCHANGED <<k_state, asm_state, tr_state, ops, cardVars, storeVars>>
  <2>1. s_table = Profiles
    <3>1. Len(Profiles) = n
      BY <1>1, <1>2, <1>6
    <3> QED BY <1>1, <1>2, <3>1, SeqEqual
  <2>2. UNCHANGED <<r_state, s_table, st_state, up>> /\ shell'.at = "idle"
    BY <1>6 DEF routerVars, storeVars, cardVars, ShellIdle
  <2>3. Progress' /\ LifecycleAgrees'
    BY <1>1, <1>6, <2>1, <2>2 DEF Progress, LifecycleAgrees, InInit
  <2> QED BY <1>4, <1>6, <2>3 DEF Lifecycle
<1> QED BY <1>3, <1>5, <1>6 DEF InitRegister

\* Every step keeps the lifecycle.
LEMMA LifecycleSteps ==
    ASSUME StackInv, [Next]_vars
    PROVE  Lifecycle'
<1>1. Progress /\ LifecycleAgrees /\ Backed
  BY DEF StackInv, Lifecycle
<1>2. CASE InitBegin
  <2>1. Down
    BY <1>1, <1>2 DEF InitBegin, LifecycleAgrees, InInit, Down
  <2>2. shell'.at = "asm" /\ Down' /\ k_state' = "INITIALIZED" /\ Backed'
    BY <1>1, <1>2, <2>1 DEF InitBegin, StackInv, ShellType, Down, routerVars, storeVars, Backed
  <2> QED BY <2>2 DEF Lifecycle, Progress, LifecycleAgrees, InInit
<1>3. CASE InitFront
  <2>1. shell.at = "asm" /\ Down /\ k_state = "INITIALIZED"
    BY <1>1, <1>3 DEF InitFront, Progress, InInit
  <2>2. CASE Unwind({})
    BY <2>1, <2>2, UnwindKeeps
  <2>3. CASE /\ AidRouterInit /\ asm_state' = "INITIALIZED" /\ shell' = [shell EXCEPT !.at = "store"]
             /\ UNCHANGED <<k_state, tr_state, ops, storeVars>>
    <3>1. shell'.at = "store" /\ r_state' = "INITIALIZED" /\ s_table' = <<>> /\ ~ops' /\ k_state' = "INITIALIZED"
      BY <2>1, <2>3 DEF AidRouterInit, StackInv, ShellType, Down
    <3>2. Backed'
      BY <1>1, <2>3 DEF Backed, storeVars
    <3> QED BY <2>3, <3>1, <3>2 DEF Lifecycle, Progress, LifecycleAgrees, InInit
  <2> QED BY <1>3, <2>1, <2>2, <2>3 DEF InitFront, Down
<1>4. CASE InitStore
  <2>1. /\ shell.at \in {"store", "ram"} /\ UNCHANGED <<r_state, s_table, k_state, asm_state, tr_state, ops>>
        /\ shell'.at \in {"ram", "transport"} /\ st_state' = "INITIALIZED"
    BY <1>1, <1>4 DEF InitStore, Store!StoreInit, Store!RamInit, Store!RamReady, routerVars, StackInv, ShellType, Progress
  <2>2. Progress'
    BY <1>1, <2>1 DEF Progress, InInit
  <2> QED BY <1>1, <2>1, <2>2 DEF Lifecycle, LifecycleAgrees, Backed, InInit
<1>5. CASE InitTransport
  <2>1. /\ shell.at = "transport" /\ UNCHANGED <<r_state, s_table, k_state, asm_state, tr_state, ops, st_state, s_backend>>
        /\ IF tr_state = "UNINITIALIZED" THEN shell'.at = "connect" ELSE shell'.at \in {"connect", "listeners"}
    BY <1>5 DEF InitTransport, Connectable, routerVars, storeVars, StackInv, ShellType
  <2> QED BY <1>1, <2>1 DEF Lifecycle, Progress, LifecycleAgrees, Backed, InInit
<1>17. CASE InitConnect
  <2>1. CASE shell.at = "connect" /\ Unwind({"asm", "router", "store"})
    BY <2>1, UnwindKeeps
  <2>2. CASE /\ shell.at = "connect" /\ tr_state' = "INITIALIZED"
             /\ shell' = [shell EXCEPT !.at = "listeners"]
             /\ UNCHANGED <<routerVars, k_state, asm_state, ops, storeVars>>
    <3>1. shell'.at = "listeners"
      BY <2>2 DEF StackInv, ShellType
    <3> QED BY <1>1, <2>2, <3>1 DEF Lifecycle, Progress, LifecycleAgrees, Backed, InInit, routerVars, storeVars
  <2> QED BY <1>17, <2>1, <2>2 DEF InitConnect
<1>6. CASE InitListeners
  <2>1. /\ shell.at = "listeners" /\ shell'.at = "callbacks" /\ up' = Svcs
        /\ UNCHANGED <<r_state, s_table, k_state, asm_state, tr_state, ops, st_state, s_backend>>
    BY <1>6 DEF InitListeners, StackInv, ShellType, routerVars, storeVars
  <2> QED BY <1>1, <2>1 DEF Lifecycle, Progress, LifecycleAgrees, Backed, InInit
<1>7. CASE InitCallbacks
  <2>1. CASE Unwind(Everything)
    BY <2>1, UnwindKeeps
  <2>2. CASE /\ shell.at = "callbacks" /\ ops' = TRUE /\ shell' = [shell EXCEPT !.at = "register"]
             /\ UNCHANGED <<routerVars, k_state, asm_state, tr_state, cardVars, storeVars>>
    <3>1. /\ shell'.at = "register" /\ ops'
          /\ UNCHANGED <<r_state, s_table, k_state, asm_state, tr_state, up, st_state, s_backend>>
      BY <2>2 DEF StackInv, ShellType, routerVars, storeVars, cardVars
    <3>2. s_table' = <<>> /\ Len(s_table') = 0 /\ Len(Profiles) >= 0
      BY <1>1, <2>2, <3>1, StackAssumption DEF Progress
    <3>3. Len(s_table') <= Len(Profiles) /\ \A i \in 1..Len(s_table') : s_table'[i] = Profiles[i]
      BY <3>2, StackAssumption
    <3> QED BY <1>1, <2>2, <3>1, <3>3 DEF Lifecycle, Progress, LifecycleAgrees, Backed, InInit
  <2> QED BY <1>7, <2>1, <2>2, Zenon DEF InitCallbacks
<1>8. CASE InitRegister
  BY <1>8, RegisterStep
<1>9. CASE StackShutdown
  BY <1>9, UnwindKeeps DEF StackShutdown
<1>10. CASE StartStop
  <2>1. /\ UNCHANGED <<asm_state, r_state, s_table, ops, up, st_state, s_backend>> /\ ~InInit /\ ~InInit'
    BY <1>10, StartStopFrame DEF storeVars, cardVars, InInit, ShellIdle, StackInv, ShellType
  <2>2. k_state # "UNINITIALIZED" /\ k_state' # "UNINITIALIZED"
    BY <1>10 DEF StartStop, StackStart, StartListen, StartDone, StackStop, StopDone, Starting, StackInv, Listening
  <2>3. tr_state' \in {tr_state, "LISTEN", "STOPPED"}
    BY <1>10 DEF StartStop, StackStart, StartListen, StartDone, StackStop, StopDone
  <2> QED BY <1>1, <2>1, <2>2, <2>3 DEF Lifecycle, Progress, LifecycleAgrees, Backed, InInit
<1>11. CASE LoadApply \/ SaveWrite \/ ReadWait \/ \E tag \in Tags : LoadFetch(tag) \/ SaveStage(tag) \/ Peek(tag)
  <2>1. /\ UNCHANGED <<k_state, asm_state, routerVars, ops, tr_state, up, st_state, s_backend>>
        /\ ~InInit /\ ~InInit'
    BY <1>11 DEF LoadApply, SaveWrite, ReadWait, LoadFetch, SaveStage, Peek, MayLoadOrSave, Store!SaveCb,
                 Store!SaveCbFails, Store!storeVars, storeVars, cardVars, InInit, ShellIdle
  <2> QED BY <1>1, <2>1, QuietKeeps DEF Backed, routerVars
<1>12. ASSUME NEW tag \in Tags, ReadStart(tag) \/ \E blob \in ImportBlobs : Import(tag, blob)
       PROVE  Lifecycle'
  <2>1. UNCHANGED <<k_state, asm_state, routerVars, ops, tr_state, up>> /\ ~InInit /\ ~InInit'
    BY <1>12 DEF ReadStart, Import, cardVars, InInit, StackInv, ShellType
  <2>2. (st_state = "INITIALIZED" => st_state' = "INITIALIZED") /\ Backed'
    BY <1>1, <1>12 DEF ReadStart, Import, Store!RamImport, Store!StoreInit, Store!RamInit, Store!RamReady, Backed, storeVars
  <2> QED BY <1>1, <2>1, <2>2, QuietKeeps DEF routerVars
<1>13. CASE Serve \/ \E body \in Updates : NdefUpdate(body)
  <2>1. UNCHANGED <<k_state, asm_state, r_state, s_table, ops, tr_state, up, st_state, s_backend, shell>>
    BY <1>13 DEF Serve, NdefUpdate, AidRouterFieldOff, AidRouterDispatch, storeVars, cardVars
  <2> QED BY <1>1, <2>1, QuietKeeps DEF Backed
<1>14. CASE Discover
  <2>1. UNCHANGED <<k_state, asm_state, routerVars, ops, up, st_state, s_backend, shell>>
    BY <1>14, DiscoverFrame DEF storeVars, cardVars
  <2>2. tr_state' \in {tr_state, "INITIALIZED", "POLL", "STOPPED", "ORPHAN"}
    BY <1>14, Zenon DEF Discover, DiscoverOnce, DiscoverConnect, DiscoverStart, DiscoverStop, DiscoverFails, DiscoverWait
  <2> QED BY <1>1, <2>1, <2>2, QuietKeeps DEF Backed, routerVars
<1>15. CASE CloneInit \/ CloneStage \/ CloneStore \/ CloneFails
  <2>1. UNCHANGED <<k_state, asm_state, routerVars, ops, st_state, s_backend, shell>>
    BY <1>15 DEF CloneInit, CloneStage, CloneStore, CloneFails, Store!SaveCb, storeVars
  <2>2. UNCHANGED tr_state
    BY <1>15 DEF CloneInit, CloneStage, CloneStore, CloneFails
  <2>3. up = Svcs => up' = Svcs
    BY <1>15 DEF CloneInit, CloneStage, CloneStore, CloneFails, cardVars, StackInv, Carried
  <2> QED BY <1>1, <2>1, <2>2, <2>3, QuietKeeps DEF Backed, routerVars
<1>16. CASE UNCHANGED vars
  <2>1. UNCHANGED <<k_state, asm_state, r_state, s_table, ops, tr_state, up, st_state, s_backend, shell>>
    BY <1>16 DEF vars, routerVars, storeVars, cardVars
  <2> QED BY <1>1, <2>1, QuietKeeps DEF Backed
<1> QED BY <1>2, <1>3, <1>4, <1>5, <1>6, <1>7, <1>8, <1>9, <1>10, <1>11, <1>12, <1>13, <1>14, <1>15, <1>16, <1>17
        DEF Next, Shell, Queue, StackInit

-----------------------------------------------------------------------------
(* Who has the session                                                      *)

\* A step that leaves states, session and the shell thread's place in a start or a stop
\* alone, and does not bring the queue between a test and its assignment.
LEMMA SettledKeeps ==
    ASSUME Listening, UNCHANGED <<k_state, tr_state, overlap>>, Starting' <=> Starting,
           shell'.at = "stop" => shell.at = "stop", Discovering' => Discovering
    PROVE  Listening'
BY DEF Listening

\* The end of a clone or of a wait that found nothing: the queue turns to end its
\* session only while it is its own.
LEMMA EndKeeps ==
    ASSUME Listening, UNCHANGED <<k_state, tr_state, overlap, shell>>, SessionEnd
    PROVE  Listening'
<1>1. Starting' <=> Starting
  BY DEF Starting
<1>2. CASE tr_state = "POLL"
  BY <1>1, <1>2 DEF Listening
<1>3. CASE tr_state # "POLL"
  <2>1. ~Discovering'
    BY <1>3 DEF SessionEnd, WqIdle, Discovering
  <2> QED BY <1>1, <2>1, SettledKeeps
<1> QED BY <1>2, <1>3

\* A start tests the session before it takes it, and a stop gives up its own.
LEMMA StartStopKeeps ==
    ASSUME StackInv, StartStop
    PROVE  Listening'
<1>1. Listening /\ (Discovering' <=> Discovering) /\ ShellType
  BY StartStopFrame DEF StackInv, Discovering
<1>2. CASE StackStart
  <2>1. CASE tr_state \in {"INITIALIZED", "STOPPED"}
    <3>1. /\ k_state' = "STARTED" /\ shell'.at = "listen" /\ tr_state' = tr_state
          /\ ~overlap' => ~Discovering
      BY <1>1, <1>2, <2>1 DEF StackStart, ShellType
    <3>2. Starting'
      BY <3>1 DEF Starting
    <3> QED BY <1>1, <2>1, <3>1, <3>2 DEF Listening
  <2>2. CASE tr_state \notin {"INITIALIZED", "STOPPED"}
    <3>1. k_state' = "ERROR" /\ shell'.at = "idle" /\ tr_state' = tr_state /\ k_state # "STARTED"
      BY <1>2, <2>2 DEF StackStart
    <3> QED BY <1>1, <3>1 DEF Listening, Starting
  <2> QED BY <2>1, <2>2
<1>3. CASE StartListen
  <2>1. Starting /\ k_state = "STARTED" /\ tr_state' = tr_state
    BY <1>1, <1>3 DEF StartListen, Starting, Listening
  <2>2. CASE k_state' = "ERROR" /\ overlap' = FALSE /\ shell' = ShellIdle
    <3>1. shell'.at = "idle" /\ tr_state' # "LISTEN"
      BY <1>1, <2>1, <2>2 DEF Listening, ShellIdle
    <3> QED BY <2>2, <3>1 DEF Listening, Starting
  <2>3. CASE shell' = [shell EXCEPT !.at = "session"] /\ UNCHANGED <<k_state, overlap>>
    <3>1. shell'.at = "session"
      BY <1>1, <2>3 DEF ShellType
    <3> QED BY <1>1, <2>1, <2>3, <3>1, SettledKeeps DEF Starting
  <2> QED BY <1>3, <2>2, <2>3 DEF StartListen
<1>4. CASE StartDone
  <2>1. Starting /\ k_state = "STARTED" /\ k_state' = k_state /\ overlap' = overlap /\ tr_state' = "LISTEN"
    BY <1>1, <1>4 DEF StartDone, Starting, Listening
  <2>2. ~Starting' /\ shell'.at = "idle"
    BY <1>4 DEF StartDone, Starting, ShellIdle
  <2> QED BY <1>1, <2>1, <2>2 DEF Listening
<1>5. CASE StackStop
  <2>1. ~Starting /\ tr_state' = tr_state
    BY <1>5 DEF StackStop, Starting
  <2>2. CASE tr_state = "LISTEN"
    <3>1. shell'.at = "stop" /\ k_state' = k_state /\ overlap' = overlap
      BY <1>1, <1>5, <2>2 DEF StackStop, ShellType
    <3> QED BY <1>1, <2>1, <2>2, <3>1 DEF Listening, Starting
  <2>3. CASE tr_state # "LISTEN"
    <3>1. k_state' = "STOPPED" /\ shell'.at = "idle"
      BY <1>5, <2>3 DEF StackStop
    <3> QED BY <1>1, <2>1, <2>3, <3>1 DEF Listening, Starting
  <2> QED BY <2>2, <2>3
<1>6. CASE StopDone
  <2>1. tr_state' = "STOPPED" /\ k_state' \in {"STOPPED", "ERROR"} /\ shell'.at = "idle"
    BY <1>6 DEF StopDone, ShellIdle
  <2> QED BY <2>1 DEF Listening, Starting
<1> QED BY <1>2, <1>3, <1>4, <1>5, <1>6 DEF StartStop

\* A discovery tests the transport before it takes the session, or overlaps.
LEMMA DiscoverKeeps ==
    ASSUME StackInv, Discover
    PROVE  Listening'
<1>1. Listening /\ UNCHANGED <<k_state, shell>> /\ (Starting' <=> Starting)
  BY DiscoverFrame DEF StackInv, Starting
<1>2. CASE DiscoverOnce
  <2>1. tr_state' = tr_state /\ tr_state # "LISTEN" /\ (~overlap' => ~overlap /\ ~Starting)
    BY <1>2 DEF DiscoverOnce, Connectable
  <2>2. k_state = "STARTED" => overlap'
    BY <1>1, <2>1 DEF Listening
  <2> QED BY <1>1, <2>1, <2>2 DEF Listening
<1>3. CASE DiscoverConnect \/ DiscoverStart \/ DiscoverStop
  <2>1. Discovering /\ tr_state' # "LISTEN" /\ overlap' = overlap
    BY <1>3 DEF DiscoverConnect, DiscoverStart, DiscoverStop, Discovering
  <2>2. ~overlap => k_state # "STARTED"
    BY <1>1, <2>1 DEF Listening
  <2> QED BY <1>1, <2>1, <2>2 DEF Listening
<1>4. CASE DiscoverFails
  <2>1. UNCHANGED <<tr_state, overlap>>
    BY <1>4 DEF DiscoverFails
  <2>2. CASE SessionEnd
    BY <1>1, <2>1, <2>2, EndKeeps
  <2>3. CASE wq' = WqIdle
    <3>1. ~Discovering'
      BY <2>3 DEF WqIdle, Discovering
    <3> QED BY <1>1, <2>1, <3>1, SettledKeeps
  <2> QED BY <1>4, <2>2, <2>3 DEF DiscoverFails
<1>5. ASSUME NEW svc \in Svcs, NEW card \in Cards, DiscoverWait(svc, card) PROVE Listening'
  <2>1. UNCHANGED <<tr_state, overlap>> /\ wq'.at = "clone"
    BY <1>5 DEF DiscoverWait, StackInv, QueueType
  <2>2. ~Discovering'
    BY <2>1 DEF Discovering
  <2> QED BY <1>1, <2>1, <2>2, SettledKeeps
<1> QED BY <1>2, <1>3, <1>4, <1>5 DEF Discover

\* Every step of either thread keeps who may have the session.
LEMMA ListenSteps ==
    ASSUME StackInv, [Next]_vars
    PROVE  Listening'
<1>1. Listening /\ ShellType /\ Progress
  BY DEF StackInv, Lifecycle
<1>2. CASE InitFront
  <2>1. CASE Unwind({})
    BY <1>2, <2>1, UnwindKeeps DEF InitFront
  <2>2. CASE UNCHANGED <<k_state, tr_state, overlap, wq>> /\ shell' = [shell EXCEPT !.at = "store"]
    <3>1. shell.at = "asm" /\ shell'.at = "store"
      BY <1>1, <1>2, <2>2 DEF InitFront, ShellType
    <3> QED BY <1>1, <2>2, <3>1, SettledKeeps DEF Starting, Discovering
  <2>3. asm_state # "INITIALIZED" /\ r_state # "INITIALIZED"
    BY <1>1, <1>2 DEF InitFront, Progress, Down
  <2> QED BY <1>2, <2>1, <2>2, <2>3 DEF InitFront
<1>3. CASE InitBegin
  <2>1. k_state # "STARTED" /\ k_state' # "STARTED" /\ tr_state' = tr_state /\ shell'.at = "asm"
    BY <1>1, <1>3 DEF InitBegin, ShellType
  <2> QED BY <1>1, <2>1 DEF Listening, Starting
<1>4. CASE InitConnect
  <2>1. CASE Unwind({"asm", "router", "store"})
    BY <1>4, <2>1, UnwindKeeps DEF InitConnect
  <2>2. CASE UNCHANGED k_state /\ tr_state' = "INITIALIZED" /\ shell' = [shell EXCEPT !.at = "listeners"]
    <3>1. k_state # "STARTED" /\ k_state' # "STARTED" /\ shell'.at = "listeners"
      BY <1>1, <1>4, <2>2 DEF InitConnect, Progress, InInit, ShellType
    <3> QED BY <2>2, <3>1 DEF Listening, Starting
  <2> QED BY <1>4, <2>1, <2>2 DEF InitConnect
<1>5. CASE Unwind(Everything)
  BY <1>5, UnwindKeeps
<1>6. CASE InitStore \/ InitTransport \/ InitListeners \/ (InitCallbacks /\ ~Unwind(Everything))
           \/ (InitRegister /\ ~Unwind(Everything))
  <2>1. UNCHANGED <<k_state, tr_state, overlap, wq>>
    BY <1>6 DEF InitStore, InitTransport, InitListeners, InitCallbacks, InitRegister
  <2>2. InInit /\ shell'.at \notin {"listen", "session", "stop"}
    BY <1>1, <1>6 DEF InitStore, InitTransport, InitListeners, InitCallbacks, InitRegister, InInit, ShellType, ShellIdle
  <2> QED BY <1>1, <2>1, <2>2, SettledKeeps DEF Starting, Discovering, InInit
<1>7. \/ LoadApply \/ SaveWrite \/ ReadWait
      \/ \E tag \in Tags : LoadFetch(tag) \/ SaveStage(tag) \/ Peek(tag) \/ ReadStart(tag)
      \/ \E tag \in Tags, blob \in ImportBlobs : Import(tag, blob)
      => Listening'
  <2> SUFFICES ASSUME \/ LoadApply \/ SaveWrite \/ ReadWait
                      \/ \E tag \in Tags : LoadFetch(tag) \/ SaveStage(tag) \/ Peek(tag) \/ ReadStart(tag)
                      \/ \E tag \in Tags, blob \in ImportBlobs : Import(tag, blob)
               PROVE  Listening'
    OBVIOUS
  <2>1. UNCHANGED <<k_state, tr_state, overlap>> /\ shell.at \in {"idle", "load", "save", "wait"}
    BY Zenon DEF LoadApply, SaveWrite, ReadWait, LoadFetch, SaveStage, Peek, ReadStart, Import, MayLoadOrSave
  <2>2. shell'.at \in {"idle", "load", "save", "wait"}
    <3>1. CASE LoadApply \/ SaveWrite \/ ReadWait
      BY <3>1 DEF LoadApply, SaveWrite, ReadWait, ShellIdle
    <3>2. ASSUME NEW tag \in Tags, LoadFetch(tag) \/ SaveStage(tag)
          PROVE  shell'.at \in {"idle", "load", "save", "wait"}
      BY <3>2 DEF LoadFetch, SaveStage
    <3>3. ASSUME NEW tag \in Tags, Peek(tag) \/ ReadStart(tag)
          PROVE  shell'.at \in {"idle", "load", "save", "wait"}
      BY <1>1, <3>3 DEF Peek, ReadStart, ShellType
    <3>4. ASSUME NEW tag \in Tags, NEW blob \in ImportBlobs, Import(tag, blob)
          PROVE  shell'.at \in {"idle", "load", "save", "wait"}
      BY <3>4 DEF Import
    <3> QED BY <3>1, <3>2, <3>3, <3>4
  <2>3. UNCHANGED wq \/ wq'.at = "read"
    BY DEF LoadApply, SaveWrite, ReadWait, LoadFetch, SaveStage, Peek, ReadStart, Import, WqIdle
  <2> QED BY <1>1, <2>1, <2>2, <2>3, SettledKeeps DEF Starting, Discovering
<1>8. CASE Serve \/ CloneInit \/ CloneStage \/ (\E body \in Updates : NdefUpdate(body)) \/ UNCHANGED vars
  <2>1. UNCHANGED <<k_state, tr_state, overlap, shell>> /\ (UNCHANGED wq \/ wq'.at \in {"stage", "store"})
    BY <1>8 DEF Serve, CloneInit, CloneStage, NdefUpdate, vars, StackInv, QueueType
  <2> QED BY <1>1, <2>1, SettledKeeps DEF Starting, Discovering
<1>9. CASE CloneStore \/ CloneFails
  BY <1>1, <1>9, EndKeeps DEF CloneStore, CloneFails
<1>10. CASE StartStop \/ Discover
  BY <1>10, StartStopKeeps, DiscoverKeeps
<1> QED BY <1>2, <1>3, <1>4, <1>5, <1>6, <1>7, <1>8, <1>9, <1>10 DEF Next, Shell, Queue, StackInit, StackShutdown

-----------------------------------------------------------------------------
(* The theorems                                                             *)

\* The boot state: everything down, every slot free.
LEMMA StackInit0 == Init => StackInv
<1> SUFFICES ASSUME Init PROVE StackInv
  OBVIOUS
<1>1. RouterInv
  <2>1. s_table \in Seq([aid : Aids, svc : Svcs]) /\ Len(s_table) <= MaxAids
    BY RouterAssumption DEF Init, RouterInit
  <2> QED BY <2>1, Zenon DEF Init, RouterInit, RouterInv, RouterTypeOK, SelectedIsActive, DownIsIdle, Answers
<1>2. StateType /\ FlagType
  BY Zenon DEF Init, Store!StoreDown, StateType, FlagType
<1>3. ShellType /\ QueueType /\ Carried
  BY DEF Init, ShellIdle, WqIdle, ShellType, QueueType, Carried
<1>4. DataType
  BY EmptyIsBlob DEF Init, Store!StoreDown, DataType, Bodies
<1>5. Lifecycle
  BY DEF Init, RouterInit, Store!StoreDown, ShellIdle, Lifecycle, Progress, InInit, LifecycleAgrees, Backed
<1>7. Listening
  BY DEF Init, ShellIdle, WqIdle, Listening, Starting, Discovering
<1>6. Slotted
  BY DEF Init, Store!StoreDown, ShellIdle, Slotted, Unique, ActiveTagStored
<1> QED BY <1>1, <1>2, <1>3, <1>4, <1>5, <1>6, <1>7 DEF StackInv

\* Every step of either thread preserves the invariant.
LEMMA StackKeeps ==
    ASSUME StackInv, [Next]_vars
    PROVE  StackInv'
<1>1. StateType' /\ FlagType'
  BY StateSteps, FlagSteps DEF StackInv
<1>2. ShellType' /\ QueueType' /\ Carried'
  BY ShellSteps, QueueSteps DEF StackInv, Carried
<1>3. DataType'
  BY ModelSteps, StagingSteps, SlotSteps DEF DataType, Store!Slots
<1> QED BY <1>1, <1>2, <1>3, RouterSteps, LifecycleSteps, ListenSteps, SlotSteps DEF StackInv

\* Slots that are pairwise of different tags are at most one for each tag.
LEMMA UniqueIsOne == ASSUME Unique PROVE OneSlotPerTag
<1> SUFFICES ASSUME NEW tag \in Tags PROVE Cardinality(Store!Holding(tag)) <= 1
  BY DEF OneSlotPerTag
<1>1. CASE Store!Holding(tag) = {}
  BY <1>1, FS_EmptySet
<1>2. CASE Store!Holding(tag) # {}
  <2>1. PICK i : i \in Store!Holding(tag)
    BY <1>2
  <2>2. Store!Holding(tag) = {i}
    BY <2>1 DEF Store!Holding, Unique
  <2> QED BY <2>2, FS_Singleton
<1> QED BY <1>1, <1>2

\* The invariant holds in every reachable state.
LEMMA StackSafe == Spec => []StackInv
BY StackInit0, StackKeeps, PTL DEF Spec

\* For any profiles, services, tags, cards and number of slots: every variable of the
\* stack keeps its type, whatever the two threads do and whichever calls fail.
THEOREM StackTypeSafety == Spec => []TypeOK
<1>1. StackInv => TypeOK
  <2> SUFFICES ASSUME StackInv PROVE TypeOK
    OBVIOUS
  <2>1. {overlap, ops, s_ready, s_store_ready} \subseteq BOOLEAN
    BY Zenon DEF StackInv, FlagType
  <2>2. {asm_state, st_state} \subseteq {"UNINITIALIZED", "INITIALIZED"}
    BY DEF StackInv, StateType
  <2> QED BY <2>1, <2>2 DEF TypeOK, StackInv, StateType, ShellType, QueueType, DataType, RouterInv
<1> QED BY <1>1, StackSafe, PTL

\* Outside nfc_stack_init the stack is up with all its parts and profiles, or down with
\* assembler, router and callbacks down, also after an initialisation that failed half way.
THEOREM StackSafety == Spec => []LifecycleAgrees
<1>1. StackInv => LifecycleAgrees
  BY DEF StackInv, Lifecycle
<1> QED BY <1>1, StackSafe, PTL

\* For the same constants: whatever the two threads do between a test of the transport and
\* the assignment after it, nothing is served unless the stack says STARTED; and a stack
\* that says so listens once its start is over, unless a discovery overlapped the start.
THEOREM ListeningSafety == Spec => []ListenAgrees
<1>1. StackInv => ListenAgrees
  BY DEF StackInv, Listening, ListenAgrees, Starting
<1> QED BY <1>1, StackSafe, PTL

\* Through every init, start, stop, shutdown and C-APDU of the stack, only the active
\* service of the router holds a session.
THEOREM StackRouterSafety == Spec => []SelectedIsActive
<1>1. StackInv => SelectedIsActive
  BY DEF StackInv, RouterInv
<1> QED BY <1>1, StackSafe, PTL

\* A tag names at most one slot of the store, whoever saves, clones or imports.
THEOREM SlotSafety == Spec => []OneSlotPerTag
<1>1. StackInv => OneSlotPerTag
  BY UniqueIsOne DEF StackInv, Slotted
<1> QED BY <1>1, StackSafe, PTL

\* The active tag is the tag of a slot.
THEOREM ActiveTagSafety == Spec => []ActiveTagStored
<1>1. StackInv => ActiveTagStored
  BY DEF StackInv, Slotted
<1> QED BY <1>1, StackSafe, PTL

\* For the same constants: the RAM backend leaves the store only when the stack goes down.
THEOREM BackendSafety == Spec => BackendKept
<1>1. ASSUME StackInv, [Next]_vars
      PROVE  [s_backend = "ram" /\ s_backend' = "inert" => k_state # "UNINITIALIZED" /\ k_state' = "UNINITIALIZED"]_vars
  <2> SUFFICES ASSUME s_backend = "ram", s_backend' = "inert"
               PROVE  k_state # "UNINITIALIZED" /\ k_state' = "UNINITIALIZED"
    OBVIOUS
  <2>1. st_state = "INITIALIZED"
    BY <1>1 DEF StackInv, Lifecycle, Backed
  <2>2. ASSUME NEW done, Unwind(done), InInit PROVE k_state # "UNINITIALIZED" /\ k_state' = "UNINITIALIZED"
    BY <1>1, <2>2 DEF Unwind, StackInv, Lifecycle, Progress
  <2>3. CASE StackInit
    <3>1. CASE InitFront \/ InitConnect \/ InitCallbacks \/ InitRegister
      BY <2>2, <3>1 DEF InitFront, InitConnect, InitCallbacks, InitRegister, InInit, storeVars
    <3>2. CASE InitBegin \/ InitStore \/ InitTransport \/ InitListeners
      BY <2>1, <3>2 DEF InitBegin, InitStore, InitTransport, InitListeners, Store!StoreInit, Store!RamInit, Store!RamReady, storeVars
    <3> QED BY <2>3, <3>1, <3>2 DEF StackInit
  <2>4. CASE StackShutdown
    BY <2>4 DEF StackShutdown, Unwind
  <2>5. CASE StartStop \/ LoadApply \/ SaveWrite \/ ReadWait
    BY <2>5, StartStopFrame DEF LoadApply, SaveWrite, ReadWait, Store!SaveCb, Store!SaveCbFails,
                Store!storeVars, storeVars
  <2>6. CASE \E tag \in Tags : LoadFetch(tag) \/ SaveStage(tag) \/ Peek(tag) \/ ReadStart(tag)
    BY <2>1, <2>6 DEF LoadFetch, SaveStage, Peek, ReadStart, Store!StoreInit, Store!RamInit, Store!RamReady, storeVars
  <2>7. CASE \E tag \in Tags, blob \in ImportBlobs : Import(tag, blob)
    BY <2>7 DEF Import, Store!RamImport, Store!RamReady
  <2>8. CASE Queue \/ UNCHANGED vars
    BY <2>8, DiscoverFrame DEF Queue, Serve, NdefUpdate, CloneInit, CloneStage, CloneStore, CloneFails,
                Store!SaveCb, storeVars, vars
  <2> QED BY <1>1, <2>3, <2>4, <2>5, <2>6, <2>7, <2>8 DEF Next, Shell
<1> QED BY <1>1, StackInit0, StackKeeps, PTL DEF Spec, BackendKept

-----------------------------------------------------------------------------
(* Loads, saves and clones that nobody disturbs                             *)

\* What the staging buffer and the listener hold between the halves of a load or a save
\* that had the queue idle when it began, and of a clone the shell thread waits for.
Undisturbed ==
    /\ ShellStages => k_state \in {"INITIALIZED", "STOPPED"}
    /\ ShellStages /\ shell.alone => wq.at = "idle"
    /\ shell.at = "load" /\ shell.alone => s_staging = Store!RamBlob(shell.tag)
    /\ shell.at = "save" /\ shell.alone => s_staging = model
    /\ shell.at = "wait" /\ wq.at = "store" => s_staging = [svc \in {wq.svc} |-> model[svc]]
    /\ shell.at = "wait" /\ wq.at \in {"stage", "store"} /\ wq.svc # Ndef => model[wq.svc] = wq.card

\* Nobody writes the buffer, the listeners or the slot meanwhile.
LEMMA UndisturbedSteps ==
    ASSUME StackInv, Undisturbed, [Next]_vars
    PROVE  Undisturbed'
<1>1. CASE shell'.at \notin {"load", "save", "wait"}
  BY <1>1 DEF Undisturbed, ShellStages
<1>2. CASE StackInit \/ StackShutdown
  <2>1. shell'.at \notin {"load", "save", "wait"}
    BY <1>2 DEF StackInit, StackShutdown, Unwind, InitBegin, InitFront, InitStore, InitTransport, InitConnect, InitListeners,
                InitCallbacks, InitRegister, ShellIdle, StackInv, ShellType
  <2> QED BY <1>1, <2>1
<1>3. CASE \/ StartStop \/ LoadApply \/ SaveWrite \/ ReadWait \/ \E tag \in Tags : Peek(tag)
           \/ \E tag \in Tags, blob \in ImportBlobs : Import(tag, blob)
  <2>1. CASE StartStop \/ \E tag \in Tags : Peek(tag)
    <3>1. shell'.at \notin {"load", "save", "wait"}
      BY <2>1, StartStopFrame DEF Peek, ShellIdle, StackInv, ShellType
    <3> QED BY <1>1, <3>1
  <2>2. CASE LoadApply \/ SaveWrite \/ ReadWait
    <3>1. shell' = ShellIdle
      BY <2>2 DEF LoadApply, SaveWrite, ReadWait
    <3> QED BY <1>1, <3>1 DEF ShellIdle
  <2>3. ASSUME NEW tag \in Tags, NEW blob \in ImportBlobs, Import(tag, blob) PROVE Undisturbed'
    <3>1. shell.at = "idle" /\ UNCHANGED shell
      BY <2>3 DEF Import
    <3> QED BY <1>1, <3>1
  <2> QED BY <1>3, <2>1, <2>2, <2>3
<1>4. ASSUME NEW tag \in Tags, LoadFetch(tag) PROVE Undisturbed'
  <2>1. /\ shell' = [at |-> "load", tag |-> tag, alone |-> wq.at = "idle"]
        /\ s_staging' = Store!RamBlob(tag) /\ UNCHANGED <<k_state, wq, s_slots>>
        /\ k_state \in {"INITIALIZED", "STOPPED"}
    BY <1>4 DEF LoadFetch, MayLoadOrSave, storeVars
  <2>2. shell'.at = "load" /\ shell'.tag = tag /\ (shell'.alone => wq.at = "idle")
    BY <2>1, Zenon
  <2>3. (s_staging = Store!RamBlob(shell.tag))'
    BY <2>1, <2>2 DEF Store!RamBlob, Store!Holding, Store!Lowest, Store!Slots
  <2> QED BY <2>1, <2>2, <2>3 DEF Undisturbed, ShellStages
<1>5. ASSUME NEW tag \in Tags, SaveStage(tag) PROVE Undisturbed'
  <2>1. /\ shell' = [at |-> "save", tag |-> tag, alone |-> wq.at = "idle"]
        /\ s_staging' = model /\ UNCHANGED <<k_state, wq, model>>
        /\ k_state \in {"INITIALIZED", "STOPPED"}
    BY <1>5 DEF SaveStage, MayLoadOrSave, cardVars
  <2>2. shell'.at = "save" /\ (shell'.alone => wq.at = "idle")
    BY <2>1, Zenon
  <2> QED BY <2>1, <2>2 DEF Undisturbed, ShellStages
<1>6. ASSUME NEW tag \in Tags, ReadStart(tag) PROVE Undisturbed'
  <2>1. shell'.at = "wait" /\ wq'.at = "read"
    BY <1>6 DEF ReadStart, WqIdle, StackInv, ShellType
  <2> QED BY <2>1 DEF Undisturbed, ShellStages
<1>7. CASE Serve \/ UNCHANGED vars
  <2>1. UNCHANGED <<shell, k_state, wq, s_staging, model, s_slots>>
    BY <1>7 DEF Serve, cardVars, storeVars, vars
  <2> QED BY <2>1 DEF Undisturbed, ShellStages, Store!RamBlob, Store!Holding, Store!Lowest, Store!Slots
<1>8. ASSUME NEW body \in Updates, NdefUpdate(body) PROVE Undisturbed'
  <2>1. k_state = "STARTED" /\ wq.at = "idle" /\ UNCHANGED <<shell, wq>>
    BY <1>8 DEF NdefUpdate, Serving, StackInv, Listening, Starting
  <2> QED BY <2>1 DEF Undisturbed, ShellStages
<1>9. CASE Discover \/ CloneStore \/ CloneFails
  <2>1. wq.at # "idle" /\ wq'.at \notin {"stage", "store"} /\ UNCHANGED <<shell, k_state>>
    <3>1. CASE CloneStore \/ CloneFails
      BY <3>1 DEF CloneStore, CloneFails, SessionEnd, WqIdle
    <3>2. CASE Discover
      <4>1. UNCHANGED <<shell, k_state>>
        BY <3>2, DiscoverFrame
      <4>2. wq.at # "idle" /\ wq'.at \notin {"stage", "store"}
        <5>1. CASE DiscoverOnce \/ DiscoverConnect \/ DiscoverStart
          BY <5>1 DEF DiscoverOnce, DiscoverConnect, DiscoverStart, WqIdle, StackInv, QueueType
        <5>2. CASE DiscoverStop \/ DiscoverFails
          BY <5>2 DEF DiscoverStop, DiscoverFails, SessionEnd, WqIdle
        <5>3. ASSUME NEW svc \in Svcs, NEW card \in Cards, DiscoverWait(svc, card)
              PROVE  wq.at # "idle" /\ wq'.at \notin {"stage", "store"}
          BY <5>3 DEF DiscoverWait, StackInv, QueueType
        <5> QED BY <3>2, <5>1, <5>2, <5>3 DEF Discover
      <4> QED BY <4>1, <4>2
    <3> QED BY <1>9, <3>1, <3>2
  <2> QED BY <2>1 DEF Undisturbed, ShellStages
<1>10. CASE CloneInit
  <2>1. wq.at = "clone" /\ wq' = [wq EXCEPT !.at = "stage"] /\ UNCHANGED <<shell, k_state>>
    BY <1>10 DEF CloneInit
  <2>2. wq'.at = "stage" /\ wq'.svc = wq.svc /\ wq'.card = wq.card
    BY <2>1 DEF StackInv, QueueType
  <2>3. wq.svc # Ndef => model'[wq.svc] = wq.card
    <3>1. wq.svc \in Svcs /\ model \in [Svcs -> Bodies]
      BY <2>1 DEF StackInv, Carried, DataType
    <3>2. wq.svc # Ndef => model' = [model EXCEPT ![wq.svc] = wq.card]
      BY <1>10 DEF CloneInit
    <3> QED BY <3>1, <3>2
  <2> QED BY <2>1, <2>2, <2>3 DEF Undisturbed, ShellStages
<1>11. CASE CloneStage
  <2>1. wq.at = "stage" /\ wq' = [wq EXCEPT !.at = "store"] /\ UNCHANGED <<shell, k_state, model>>
    BY <1>11 DEF CloneStage, cardVars
  <2>2. wq'.at = "store" /\ wq'.svc = wq.svc /\ wq'.card = wq.card
    BY <2>1 DEF StackInv, QueueType
  <2>3. s_staging' = [svc \in {wq'.svc} |-> model'[svc]]
    BY <1>11, <2>1, <2>2 DEF CloneStage
  <2> QED BY <2>1, <2>2, <2>3 DEF Undisturbed, ShellStages
<1> QED BY <1>2, <1>3, <1>4, <1>5, <1>6, <1>7, <1>8, <1>9, <1>10, <1>11 DEF Next, Shell, Queue

\* What LoadSaveFaithful and CloneFaithful say of a step
LoadSaveStep ==
    Returns0 /\ shell.alone
      => \E i \in Store!Slots :
             /\ s_slots'[i] # NULL /\ s_slots'[i].tag = shell.tag
             /\ \A svc \in DOMAIN s_slots'[i].blob : model'[svc] = s_slots'[i].blob[svc]

CloneStep ==
    wq.at = "store" /\ shell.at = "wait" /\ s_slots' # s_slots
      => /\ \E i \in Store!Slots :
                s_slots'[i] = [tag |-> wq.tag, blob |-> [svc \in {wq.svc} |-> model[svc]]]
         /\ wq.svc # Ndef => model[wq.svc] = wq.card

\* A load leaves the slot's content in the listeners, a save the listeners' in the slot.
LEMMA LoadSaveIsFaithful ==
    ASSUME StackInv, Undisturbed, Next, Returns0, shell.alone
    PROVE  LoadSaveStep
<1> SUFFICES \E i \in Store!Slots :
                 /\ s_slots'[i] # NULL /\ s_slots'[i].tag = shell.tag
                 /\ \A svc \in DOMAIN s_slots'[i].blob : model'[svc] = s_slots'[i].blob[svc]
  BY DEF LoadSaveStep
<1>1. shell.at \in {"load", "save"} /\ shell'.at = "idle"
  BY DEF Returns0
<1>2. LoadApply \/ SaveWrite
  <2>1. ~StackInit /\ ~StartStop /\ ~StackShutdown /\ ~ReadWait
    BY <1>1, StartStopFrame DEF StackInit, InitBegin, InitFront, InitStore, InitTransport, InitConnect, InitListeners, InitCallbacks, InitRegister,
                StackShutdown, ReadWait
  <2>2. /\ \A tag \in Tags : ~(LoadFetch(tag) \/ SaveStage(tag) \/ Peek(tag) \/ ReadStart(tag))
        /\ \A tag \in Tags, blob \in ImportBlobs : ~Import(tag, blob)
    BY <1>1, Zenon DEF LoadFetch, SaveStage, Peek, ReadStart, Import, MayLoadOrSave
  <2>3. Queue => UNCHANGED shell
    BY DiscoverFrame, Zenon DEF Queue, Serve, NdefUpdate, CloneInit, CloneStage, CloneStore, CloneFails
  <2> QED BY <1>1, <2>1, <2>2, <2>3 DEF Next, Shell
<1>3. CASE LoadApply
  <2> DEFINE k == Store!Lowest(Store!Holding(shell.tag))
  <2>1. shell.at = "load" /\ Store!Holding(shell.tag) # {} /\ Refused = {}
    BY <1>3 DEF LoadApply, StackInv, Slotted, Returns0
  <2>2. k \in Store!Holding(shell.tag)
    BY <2>1, SlotsAreNumbers, LowestIsIn, Zenon DEF Store!Holding
  <2>3. s_staging = s_slots[k].blob
    BY <2>1 DEF Undisturbed, Store!RamBlob
  <2> HIDE DEF k
  <2>4. k \in Store!Slots /\ s_slots'[k] = s_slots[k] /\ s_slots[k] # NULL /\ s_slots[k].tag = shell.tag
    BY <1>3, <2>2 DEF Store!Holding, LoadApply, storeVars
  <2>5. DOMAIN s_staging \subseteq Svcs
    BY EntryOf DEF StackInv, DataType
  <2>6. \A svc \in DOMAIN s_staging : model'[svc] = s_staging[svc]
    BY <1>3, <2>1, <2>5 DEF LoadApply
  <2> QED BY <2>3, <2>4, <2>6
<1>4. CASE SaveWrite
  <2> DEFINE k == Store!SlotFor(shell.tag)
  <2>1. shell.at = "save" /\ s_backend = "ram" /\ Store!RoomFor(shell.tag)
    BY <1>4 DEF SaveWrite, Returns0
  <2>2. s_slots' = [s_slots EXCEPT ![k] = [tag |-> shell.tag, blob |-> s_staging]]
    BY <1>4, <2>1 DEF SaveWrite, Store!SaveCb, Store!SaveCbFails, Store!RamSave
  <2>3. s_staging = model /\ UNCHANGED model
    BY <1>4, <2>1 DEF SaveWrite, Undisturbed, cardVars
  <2>4. k \in Store!Slots
    BY <2>1, SlotForIsIn
  <2>5. shell.tag \in Tags /\ s_staging \in Blobs
    BY <2>1 DEF StackInv, Carried, DataType
  <2> HIDE DEF k
  <2>6. s_slots'[k] = [tag |-> shell.tag, blob |-> s_staging]
    BY <2>2, <2>4 DEF StackInv, DataType
  <2>7. s_slots'[k] # NULL
    BY <2>5, <2>6, BlobAssumption
  <2> QED BY <2>3, <2>4, <2>6, <2>7
<1> QED BY <1>2, <1>3, <1>4

\* A clone leaves its listener's content in a slot with its tag.
LEMMA CloneIsFaithful ==
    ASSUME StackInv, Undisturbed, Next, wq.at = "store", shell.at = "wait", s_slots' # s_slots
    PROVE  CloneStep
<1>1. CloneStore
  <2>1. ~StackInit /\ ~StartStop /\ ~StackShutdown /\ ~LoadApply /\ ~SaveWrite
    BY StartStopFrame DEF StackInit, InitBegin, InitFront, InitStore, InitTransport, InitConnect, InitListeners, InitCallbacks, InitRegister,
           StackShutdown, LoadApply, SaveWrite
  <2>2. /\ \A tag \in Tags : ~(LoadFetch(tag) \/ SaveStage(tag) \/ Peek(tag) \/ ReadStart(tag))
        /\ \A tag \in Tags, blob \in ImportBlobs : ~Import(tag, blob)
    BY DEF LoadFetch, SaveStage, Peek, ReadStart, Import, MayLoadOrSave
  <2>3. ReadWait \/ (Queue /\ ~CloneStore) => UNCHANGED s_slots
    BY DiscoverFrame DEF ReadWait, Queue, Serve, NdefUpdate, CloneInit, CloneStage, CloneFails, storeVars
  <2> QED BY <2>1, <2>2, <2>3 DEF Next, Shell
<1> DEFINE k == Store!SlotFor(wq.tag)
<1>2. Store!RoomFor(wq.tag) /\ s_slots' = [s_slots EXCEPT ![k] = [tag |-> wq.tag, blob |-> s_staging]]
  BY <1>1 DEF CloneStore, Store!SaveCb, Store!RamSave
<1>3. k \in Store!Slots
  BY <1>2, SlotForIsIn
<1> HIDE DEF k
<1>4. s_slots'[k] = [tag |-> wq.tag, blob |-> s_staging]
  BY <1>2, <1>3 DEF StackInv, DataType
<1>5. /\ s_staging = [svc \in {wq.svc} |-> model[svc]]
      /\ wq.svc # Ndef => model[wq.svc] = wq.card
  BY DEF Undisturbed
<1> QED BY <1>3, <1>4, <1>5 DEF CloneStep

\* Every step that ends a load, a save or a clone is faithful.
LEMMA StepsAreFaithful == Spec => [][LoadSaveStep]_vars /\ [][CloneStep]_vars
<1>1. Init => Undisturbed
  BY DEF Init, ShellIdle, Undisturbed, ShellStages
<1>2. StackInv /\ Undisturbed /\ [Next]_vars => Undisturbed'
  BY UndisturbedSteps
<1>3. StackInv /\ Undisturbed /\ [Next]_vars => [LoadSaveStep]_vars /\ [CloneStep]_vars
  <2> SUFFICES ASSUME StackInv, Undisturbed, Next PROVE LoadSaveStep /\ CloneStep
    OBVIOUS
  <2>1. LoadSaveStep
    BY LoadSaveIsFaithful DEF LoadSaveStep
  <2>2. CloneStep
    BY CloneIsFaithful DEF CloneStep
  <2> QED BY <2>1, <2>2
<1> QED BY <1>1, <1>2, <1>3, StackInit0, StackKeeps, PTL DEF Spec

\* For the same constants: a load or a save that had the queue idle when it began and
\* returns 0 leaves the slot and the listeners with the same content.
THEOREM FaithfulSafety == Spec => LoadSaveFaithful
BY StepsAreFaithful DEF LoadSaveStep, LoadSaveFaithful

\* For the same constants: a clone the shell thread waits for stores what its listener
\* holds, which is the card it has read but for the NDEF listener.
THEOREM CloneSafety == Spec => CloneFaithful
BY StepsAreFaithful DEF CloneStep, CloneFaithful
=============================================================================
