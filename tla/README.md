# A TLA+ verification of the NFC stack

This directory models the portable NFC stack under `src/nfc` (Zephyr RTOS, C):
the transport backends, the router, the protocol services, the tag store and
the stack that puts them together. TLC checks the modules on small instances;
TLAPS proves most of the safety properties for every value of the constants.

Run from this directory:

    tlc -workers 2 -config <run>.cfg <MC module>      # model-check a run
    tlapm <module>Proofs.tla                          # check the proofs

`PROJECT.json` lists the runs, what each definition translates (`map`), one
wrong variant per checked property that the property catches (`mutants`), the
hazards of the code, the findings and the theorems.

## 1. The system

| Part | Source | State | Who changes it |
|---|---|---|---|
| nRF transport (NFCT + T4T library) | `hal/nfc_transport_nrfx.c`, `nfc_apdu_asm.c`, `nfc_apdu_pool.c` | state, session, buffer being filled, APDU fifo, three work items, uid mutex | API threads, the T4T interrupt, the queue thread |
| PN7160 transport (NCI) | `hal/nfc_transport_pn7160.c` | state, session (POLL or LISTEN), fifo, receive loop, stop flag | API threads, the queue thread |
| Work queue | `run/nfc_stack_workq.c` | the queue, its one thread | everybody submits; one thread runs |
| APDU assembler | `framing/apdu_assembler.c` | its state | queue thread |
| AID router | `router/aid_router.c` | table of AIDs, active service | queue thread; init and shutdown |
| Services | `protocols/{ndef,emv,desfire,aliro}/*_listener.c` | a model (card content) and a session | queue thread; load, clone |
| Stack | `nfc_stack/nfc_stack.c` | state, active tag | shell thread |
| Store | `store/nfc_store.c`, `nfc_store_ram.c` | callbacks, staging buffer, slots | shell thread, queue thread |
| Reader | `reader/*.c` | session, busy flags | shell thread, queue thread |
| Applets | `applets/*.c` | busy flags, continuous scan | shell thread, queue thread |
| Pollers, other card models | `protocols/*` | per card data | queue thread |

A reader's C-APDU comes in as fragments in the interrupt, is assembled into a
`net_buf`, queued in a fifo, taken by a work item on the single queue thread,
parsed, and routed to the selected service, which answers at once or, for
Aliro, from a further work item. Field changes are work items too. API calls
come from the shell, on another thread, and stop, shut down or reconfigure all
of this while it runs.

What makes it hard to get right:

- three kinds of context (interrupt, queue thread, API threads) share the
  buffers, the fifo and the session, mostly without locks;
- a work item that is submitted while queued is not queued again, so the order
  of work is not the order of events, and two events may become one;
- `k_work_cancel_sync` waits for a running handler, under a mutex;
- calls of the NFC library or the controller fail in the middle of a sequence;
- answers and results are computed for a session that may be over;
- the reader's clone uses the listeners, the store's only staging buffer and
  the transport, all of which the listen stack uses as well.

## 2. The modules

| Module | Models | Notes |
|---|---|---|
| `NfcTransportNrfx` | the nRF transport | interrupt, queue thread, a main thread for all calls and an auxiliary thread that may call `set_uid` |
| `ApduPipe` | what a listen transport promises | the abstract specification: events, a fifo of whole C-APDUs, a queue of work |
| `NrfxPipe` | refinement | `NfcTransportNrfx` implements `ApduPipe` |
| `NfcTransportPn7160` | the PN7160 transport | receive loop, poll and listen sessions, every driver call may fail |
| `AidRouter` | the router | every operation |
| `AliroListener` | the Aliro service | the session state machine and its crypto work item, as operators |
| `ListenPath` | the listen path | `ApduPipe` + `AidRouter` + `AliroListener` + a second service |
| `NfcStore` | the store and its RAM backend | operators called by `NfcStack` |
| `NfcStack` | lifecycle, store and clone | extends `AidRouter`; shell thread and queue thread |
| `ReaderEngine` | reader engine, applets, their shell commands | shell thread against the handlers it queues |
| `TagLink` | what pollers and listeners share | one exchange, the image, the walk's bookkeeping, lost exchanges |
| `IsoDepLink` | the ISO-DEP cards | SELECT by AID, answers by status |
| `Iso15693Tag`, `ClassicTag`, `FelicaTag`, `UltralightTag` | cards without APDUs | listener as an operator, poller as actions |
| `NdefTag`, `DesfireTag`, `EmvTag`, `AliroReader` | cards with APDUs | the same, over `IsoDepLink` |
| `PollerWalk` | `nfc_reader_pollers_run` | composes the nine protocols: walk, clone, load, second walk |
| `NfcTransportNrfxProofs`, `NrfxPipeProofs`, `NfcTransportPn7160Proofs`, `ListenPathProofs`, `ReaderEngineProofs`, `NfcStackProofs`, `PollerTagProofs`, `PollerWalkProofs` | theorems | section 5 |
| `MCNrfx`, `MCListen`, `MCPn7160`, `MCStack`, `MCReader`, `MCWalk` | instances for TLC | |

**NfcTransportNrfx.** Variables carry the names of the C statics
(`s_state`, `s_session`, `s_cur_buf`, `s_asm_drop`, `s_apdu_fifo`,
`s_uid_mutex`, `s_pending_uid`). `pool` is the set of free `net_buf`s and
`data` says which fragments a buffer holds. `wq`, `running` and `handling` are
the queue, the item its thread runs, and the buffer given to `on_apdu`. `pc`
is where each API thread stands in a call; a call is cut where another context
can see a difference: before a lock, at a library call, before and after each
`k_work_cancel_sync`, at each `k_fifo_get`. The interrupt is atomic, as it is
for the threads. The library is external: `t4t` and `nfcid1` are what it does,
and a call in `Faults` may fail. A reader (`rdr`) sends one C-APDU at a time in
up to `MaxFrags` fragments and waits for the answer (ISO-DEP is half duplex).

**ApduPipe and NrfxPipe.** The pipe has no buffers, no drop states and no
fragments: a C-APDU is received whole or lost. The mapping sends a buffer to
the C-APDU its fragments belong to; steps in the middle of a C-APDU stutter.
The refinement shows, among others, that the APDU handler returns only when
the fifo is empty, that C-APDUs leave the fifo in order, and that one is thrown
away only while no reader is in the field.

**NfcTransportPn7160.** The receive loop is a work item that never ends by
itself and so keeps the queue thread (`running = "recv"`). `chip` is what the
controller does. `start` is two steps, since it submits the loop before it
sets the session.

**ListenPath.** The pipe delivers C-APDUs to the assembler, which rejects the
frame or hands it to the router. A C-APDU is known by its serial number, so
that `InOrder` and the answers can be stated. `owed`, `resp` and `evidence`
are history: which C-APDU the crypto item is to answer, what was answered to
whom, and what the reader has proved since the SELECT.

**NfcStack and NfcStore.** `shell.at` is the next call inside
`nfc_stack_init`, or the half of a load or save that is still to come; the
first half fills `s_staging_buf`, the second uses it. `wq.at` is the same for
the reader's clone. The transport is seen as the stack sees it: a state with
its session (`tr_state`: `LISTEN` and `POLL` are STARTED with that session).
`nfc_transport_init`, `start`, `stop` and the reader's discovery are cut at their
calls of the controller, since each tests state and session before the call and
assigns them after it: `StackStart`, `StartListen` and `StartDone` on the shell
thread against `DiscoverOnce`, `DiscoverConnect`, `DiscoverStart`, `DiscoverWait`
and `DiscoverStop` on the queue. `ORPHAN` is the session a discovery sets on a
transport that was shut down under it: there is no device, and only another
shutdown ends it. `overlap` is history: a discovery was between test and
assignment, or began to be, while the stack that is started was starting.
`nfc_stack_init` is one step per call, and `Unwind` is the
sequence of fail labels. A blob is a function from services to contents; `Bad`
is a content that serialises and that deserialising refuses. `s_staging` is
kept only while somebody is to read it, which loses nothing. `nfc read` may
time out (`GivesUp`), so that shell calls and the clone overlap.

**ReaderEngine.** `busy` holds the four busy flags, `slot` the static name
buffers (`s_read_tag`, `s_clone_tag`, `s_verify_slot`), `wq` and `q` the queue
and the place inside the running handler. A handler is cut at every test and
every call of the transport, since the shell thread may come between: `Once`
tests the session, `DiscoverStart` sets it after the controller has answered,
and `ShListen`/`ShListenSet` do the same on the shell thread. `asked` (the name
an accepted call had been given) and `raced` (the shell thread went into work of
the queue that was pending) are history. The transport is the PN7160 one, seen
as its session and the receive loop that keeps the queue thread.

**The tags.** A listener is an operator from model, session and command to a new
session and an answer; a poller is one action per exchange, and any exchange may
be lost (`MaxLost` in all). A card in front of the poller is the listener of its
protocol, so poller and listener are checked against each other. A block or page
holds its own number plus one, which shows both a block that was not read and
one that was copied to the wrong place. A cipher is symbolic: an authentication
succeeds when both sides have the same key and derive the same identifier. Page
and block counts are scaled down and keep the properties the code depends on
(order, residue modulo a chunk).

**PollerWalk.** The walk takes the entries of `s_pollers` in order. The poller
that matches reads and clones: the image is bound to its listener and
`nfc_store_save` serialises it. `Load` deserialises the blob into a listener,
which a second walk then meets as a card.

## 3. The runs

| Run | Result | What it shows |
|---|---|---|
| `nrfx` | pass | one API thread, two buffers, lengths 1 and 3 for a buffer of 3: `NoLeak`, `StoppedIsQuiet`, `UidInForce`, `AssembledWhole`, `ImplementsPipe` |
| `nrfx_faults` | pass | every library call may fail, a second thread rotates the uid: `TypeOK`, `OneOwner`, `CallsReturn` |
| `listen` | pass | pipe, router and services: `InOrder`, `DoneIsEarned`, `InflightIsPending`, `SessionIsRouted`, `SelectionEndsWithField`, `EveryApduAnswered` |
| `pn7160` | pass | every driver call may fail: `TypeOK`, `ExactlyOneOwner`, `SessionAgrees`, `ListenReceives`, `StopReturns` |
| `stack` | pass | `TypeOK`, `SelectedIsActive`, `LifecycleAgrees`, `ListenAgrees`, `OneSlotPerTag`, `ActiveTagStored`, `LoadSaveFaithful`, `BackendKept`, `CloneFaithful` |
| `walk` | pass | every card of `MCWalk` in front of the pollers, with up to two lost exchanges, then its clone: `FromTheCard`, `GuardedStaysOut`, `ReadsTheCard`, `CloneReadsAlike`, `WalkEnds` |
| `reader` | pass | any three shell commands against the handlers they queue, with a controller that may fail: `BusyIsWork`, `ReadIsAlone`, `NameKept`, `NoOrphan`, `OneRole`, `VerdictIsIn`, `WorkEnds` |
| `nrfx_uid_race` | `StoppedIsQuiet` violated | a `set_uid` that waited for the mutex restarts a stopped transport |
| `listen_stale_crypto` | `DeferredInSession` violated | a deferred answer goes to the next session |
| `pn7160_starved` | `ApduDispatched` violated | the receive loop starves the work item that dispatches C-APDUs |
| `stack_clone` | `CloneSavesTag` violated | reading an NDEF card saves the previous content |
| `walk_long` | `ReadsTheCard` violated | an ISO 15693 or SLIX card of more blocks than one security query covers is not read from its own listener |

The five violations are disagreements between the code and its documentation or
tests;
`findings` in `PROJECT.json` quotes both sides.

How far the less obvious properties go:

- `NoLeak`, `StoppedIsQuiet`, `UidInForce` and `AssembledWhole` hold when
  `set_uid` comes from the thread that makes the other calls and the library
  starts and stops whenever it is asked (`Serialized` in `NfcTransportNrfxProofs`).
  They need both. A second uid thread breaks `StoppedIsQuiet` (`nrfx_uid_race`).
  When the restart inside `set_uid` fails, the session ends without the drain
  that `nfc_transport_stop` makes, the next `nfc_transport_init` runs
  `k_fifo_init` over a C-APDU that is still queued, and its buffer is lost,
  although `docs/NETWORK_BUFFERS.md:10` says "Every buffer has exactly one owner
  at any point in time"; `nrfx` with `Faults <- AllFaults` shows it.
- `SelectionEndsWithField` has one exception, the history variable `merged`: a
  field-off that is submitted while another is queued becomes one item with it,
  and the SELECT that came between the two may run after it. Such a selection
  outlives its field.
- `ListenReceives` has one exception, `recv_failed`: the loop gave up on an error
  of the controller, or it ran between its submission and the moment
  `nfc_transport_start` sets the session it looks at.
- `ListenAgrees` says that only a started stack listens, and that a started stack
  has a transport that listens. The second half has `overlap` as exception:
  `nfc_transport_start` and `nfc_transport_discover_start` both find no session,
  and whoever assigns last has it. When that is the discovery, the stack says
  STARTED and the session is the reader's; when the reader ends it, the stack is
  STARTED over a stopped transport. Without the exception TLC finds it in a
  few steps. The first half has no exception.
- `SelectedIsActive` allows the nRF transport to stop without `on_field_off`: the
  router keeps its active service over a stop and a start, and the next SELECT
  ends it. `ActiveTagStored` allows a load that fails in the middle to leave some
  services with the new content and some with the old: only the tag is kept.
- `LoadSaveFaithful` is about calls during which no clone runs (`shell.alone`),
  `CloneFaithful` about clones the shell waits for. After a timed-out `nfc read`
  a shell call and a clone share the one staging buffer; that is a hazard
  without a lock, not a property.
- `BackendKept`: `s_ready` of the RAM backend survives `nfc_store_shutdown`, so
  the backend would never be registered again if anything else put the inert
  callbacks back. Nothing does; after a shutdown or a failed init it is not.
- `NoOrphan` and `OneRole` have `raced` as exception: `nfc_reader_session_end`
  on the shell while a slice of the discovery runs can leave a polling
  controller without a session; so can starting or stopping the stack under a
  handler.
- `GuardedStaysOut` excepts two passwords of an Ultralight card: the default one,
  and zeros, since the poller takes the password from the image, where the page
  is zeros as long as it was not read. `MCWalk` has cards with both kinds of
  password, AUTH0 on either side of the configuration pages, and with and without
  read protection.
- `FromTheCard`, `GuardedStaysOut` hold whatever is lost on the way;
  `ReadsTheCard` and `CloneReadsAlike` compare with `ImageOf` and `Unreadable`,
  which say without any exchange what a poller should make of a card. An
  ISO 15693 or SLIX card is readable when it has 1 to `IsoMaxBlk` blocks. `walk`
  has the cards of at most one security query, `LongCards` of `walk_long` the
  longer ones: the poller sends the number of blocks less one, the listener takes
  it for the last block, and from the second query on the two disagree.
  `tests/unit/nfc_reader/src/test_virtual_loopback.c:1278`,
  `tests/unit/nfc_slix/src/test_poller.c:63` and
  `tests/unit/nfc_iso15693_3/src/test_poller.c:66` expect a card of 80 blocks to be
  read; the last two against recorded answers.

### Bounds

- `nrfx`: two buffers, so one is filled or handled while another waits in the
  fifo; three fragments of length 1 or 3 in a buffer of 3, so that a C-APDU
  fits exactly, is too long at the second fragment, and goes on after it was
  found too long; three C-APDUs and two field sessions, so that a C-APDU of an
  earlier session meets one of a later one; two uids, so that one replaces
  another.
- `nrfx_faults`: one buffer makes the pool run empty; the serial number and
  the session count are 1 since liveness is checked over all faults and two
  threads.
- `listen`: seven C-APDUs is what a full Aliro session (SELECT, AUTH0, AUTH1,
  EXCHANGE) followed by the beginning of another takes.
- `pn7160`: three buffers and five frames fill the fifo and empty the pool.
- `stack`: three tags for two slots, so that the store is full and a tag is
  replaced; two services, of which one is NDEF; one AID nobody registered.
  Tags are interchangeable (symmetry); the run has no liveness property.
- `walk`: two lost exchanges, so that a retry can fail as well. `IsoBatch` = 2
  blocks per security query, and cards of 0 to 2 blocks, which take one, and of 5,
  which is more than `IsoMaxBlk` = 4 (the cards of 3 and 4 are in `walk_long`); the NDEF file has `NdefMax` = 4 cells, read in chunks of
  at most `NdefCap` = 2, with messages of 0 to one too many; the Ultralight cards have
  AUTH0 before, inside and at a chunk and around the configuration pages.
- `reader`: three commands are enough for one that is pending, one that meets
  it, and one that finds what the two left; two names, so that a name can be
  the wrong one.

### Fairness and deadlock

Safety is checked without fairness. For liveness: the queue thread goes on
while it has work (`WF` on its steps; at its default priority 5 it is a
preemptible thread, and we assume that no thread of higher priority runs for
ever), and a call that has begun goes on (`WF`; in `ReaderEngine` `Handler` for
the queue and `Shell` for the command in progress). `k_mutex_unlock`
hands the mutex to a waiting thread, hence strong fairness for the steps that
lock it. In `PollerWalk` there is one thread and every exchange ends, with an
answer or with a time-out, hence `WF_vars(Next)`. Nobody is obliged to call the
API, and no reader is obliged to come, send, or leave.

Deadlock is checked except in the runs of `listen`, `reader` and `walk`, which
really may stop: a reader that has used up its C-APDUs, a shell that has used
up its commands, a walk that is over.

## 4. What is abstracted

Bytes: an AID, a uid, a tag name, a card's content is a value; a fragment is
its C-APDU, its index and whether it is the last; the APDU grammar is
"accepted" or "rejected"; signatures and cryptograms are good or bad.
Statistics, logging and shell output are left out. `MaxSerial`, `MaxSess`,
`MaxFrags` and `MaxFrames` bound what the reader does, not what the code does.

## 5. What is proved

Each theorem holds for every value of the constants that satisfies the named
assumptions, so also for the bounds: any number of C-APDUs, sessions, frames,
commands, tags and slots.

| Theorem | Property | Inductive invariant | Assumptions |
|---|---|---|---|
| `NfcTransportNrfxProofs!OwnerSafety`, `NrfxTypeSafety` | `OneOwner`, `TypeOK` | `OwnerInv` | `BufsAssumption`, `LengthsAssumption`, `BoundsAssumption` |
| `NfcTransportNrfxProofs!QuietSafety`, `LeakSafety`, `UidSafety`, `WholeSafety` | `StoppedIsQuiet`, `NoLeak`, `UidInForce`, `AssembledWhole` | `QuietInv` | the same, and `Serialized` |
| `NrfxPipeProofs!PipeRefinement` | `ImplementsPipe` | `QuietInv` | the same, and `NullAssumption` |
| `NfcTransportPn7160Proofs!Pn7160Safety`, `SessionSafety` | `ExactlyOneOwner`, `SessionAgrees` | `TransportInv` | `Pn7160Assumption` |
| `NfcTransportPn7160Proofs!ReceiveSafety` | `ListenReceives` | `TransportInv` and `Receiving` | the same |
| `NfcTransportPn7160Proofs!TypeSafety` | `TypeOK` | `TransportInv` and `RestInv` | the same |
| `NfcStackProofs!RouterSafety` | `RouterTypeOK`, `SelectedIsActive` | `RouterInv` | `RouterAssumption` |
| `ListenPathProofs!ListenSafety`, `RoutedSafety`, `InflightSafety` | `DoneIsEarned`, `SessionIsRouted`, `InflightIsPending` | `PathInv` | `ListenAssumption` |
| `ListenPathProofs!PipeOrder`, `ListenOrder` | `InOrder` of `ApduPipe`, of `ListenPath` | `Ordered` | the same |
| `ListenPathProofs!SelectionSafety` | `SelectionEndsWithField` | `PathInv` and `FieldInv` | the same |
| `ReaderEngineProofs!ReaderSafety`, `ReadSafety`, `NameSafety`, `VerdictSafety` | `BusyIsWork`, `ReadIsAlone`, `NameKept`, `VerdictIsIn` | `EngineInv` | none |
| `ReaderEngineProofs!OrphanSafety`, `RoleSafety` | `NoOrphan`, `OneRole` | `EngineInv` and `RolesInv` | none |
| `NfcStackProofs!StackTypeSafety`, `StackSafety`, `ListeningSafety`, `StackRouterSafety`, `SlotSafety`, `ActiveTagSafety` | `TypeOK`, `LifecycleAgrees`, `ListenAgrees`, `SelectedIsActive`, `OneSlotPerTag`, `ActiveTagStored` | `StackInv` | `RouterAssumption`, `StackAssumption`, `BlobAssumption` |
| `NfcStackProofs!BackendSafety` | `BackendKept` | `StackInv` | the same |
| `NfcStackProofs!FaithfulSafety`, `CloneSafety` | `LoadSaveFaithful`, `CloneFaithful` | `StackInv` and `Undisturbed` | the same |
| `PollerWalkProofs!GuardedStaysOutHolds`, `FromTheCardHolds` | `GuardedStaysOut`, `FromTheCard` | `WalkingInv` | `CardsAssumption`, `IsoAssumption`, `NdefAssumption`, `MaxLostAssumption` |

The assumptions say that `NULL` is not one of the values it stands next to, that
model values which the code tells apart are different, that bounds and lengths
are naturals, and that an imported blob has bodies of known services.
`CardsAssumption` says what a listener can hold and in which session it is put in
front of a reader, protocol by protocol: arrays of the sizes the structures
have, a block count that fits the byte of the system information, a uid that says
whether an ISO 15693 card is a SLIX, a version that is the one of the type. It says
nothing about keys, access bits, lengths of messages, numbers of blocks or files, or
their contents, and the number of lost exchanges is any `MaxLost`.
`Serialized` says that one thread makes all the calls and that the library starts
and stops the emulation when it is asked to; without it the properties that need
it are false, as `nrfx_uid_race` shows for the second thread.

Why the properties are not inductive by themselves, and what is added:

- `OwnerInv` adds the types of control state and buffers and `Filled` (what is in
  the fifo or with the callee holds a fragment). One lemma per group of steps for
  the control state (`CtlApi`, ... `CtlWq`), one per way to move a buffer
  (`OwnDiscard`, `OwnStored`, ...). It covers any library failure and two threads.
- `QuietInv` adds `Control` (where the calling thread is, the session and the
  library agree, and nothing is half assembled while the library is silent),
  `Uid` (the same for the uid), `Assembly` (the buffer being filled holds exactly
  what the reader has sent of its C-APDU), `Queueing` (an item is queued once, and
  during a stop everything queued or running is still to be cancelled) and
  `Drained` (whoever runs `k_fifo_init` finds the fifo empty). That
  `k_work_cancel_sync` removes the item rests on `WithoutWorkRange`.
- `PipeRefinement` needs no more than `QuietInv`. The mapping (`PipeFifo`,
  `PipeCurrent`, `PipeRunning`, `ReaderSeen` in `NrfxPipe`) reads a C-APDU off the
  first fragment of a buffer. `FifoTail` and `FifoAppend` carry the two fifo
  operations through it, and one lemma per group of steps names the step of the
  pipe (`StoredIsPipe`: `ReceiveApdu`; `DrainIsPipe`: `DropApdu`, ...) or shows
  that the pipe does not see it. Where the invariant is needed: a buffer that is
  given back is in nobody else's hands (`OneOwner`), the last fragment closes the
  C-APDU the first one opened (`Assembly`), a drain and `nfc_transport_init` throw
  nothing away while a reader is there (`Control`, `Drained`, `Queueing`).
- `TransportInv` adds how far the two cancellations of a stop have come
  (`Cancels`: the receive item first, because it submits the other) and where a
  session can be set or left (`Sessions`, `Handlers`, `Agrees`). `Receiving` follows
  the receive item from its submission, one step before the session is set, to the
  stop; `RestInv` has the types that the other parts do not need.
- `RouterInv` adds `DownIsIdle`: before init no service holds a session.
- `PathInv` adds `Evidence` (what each state of the Aliro session has seen since
  its SELECT) and `Thread` (only the queue thread has a C-APDU in hand).
- `Ordered` adds to `InOrder` that a C-APDU still being sent is newer than all that
  were received. It is an invariant of the pipe alone; `PathIsPipe` shows that every
  step of the listen path is one of the pipe or a stutter, and so carries it over.
- `FieldInv` says where the end of the field is in the queue: behind the handler of
  the last C-APDUs, and still to come while anything is selected or may be.
- `EngineInv` adds `RunsOnce` (what runs is not queued as well), `Places` (which
  handler can be where) and `Results` (a check past its comparison has a result).
  `RolesInv` adds what the two threads have tested and not yet used: unless the shell
  thread went into pending work, one thread at a time is between test and assignment.
- `StackInv` adds `Progress` (what each step of `nfc_stack_init` finds),
  `Listening` (who is between test and assignment of the session, what it will
  find then, and that the two threads meet only in an overlap),
  `Backed` (only an initialised store has the RAM backend), `Unique` (two slots
  never have one tag) and that a load has found its slot. The router's part is
  that of `RouterSafety`. `Undisturbed` says what staging buffer and
  listeners hold between the two halves of a load, a save or a clone.
- `WalkingInv` is about `PollerWalk`. `WalkInv` says which poller can be at which
  step, and that the image is of the kind of the poller that reads; `Kept` says
  what a poller leaves alone when the card is not its own. `ImageInv` has one
  conjunct for each protocol, which relates image, cursor and the card's session in
  the middle of a read: a block or page is blank or the card's, and guarded ones are
  blank unless the session is authenticated (`ClInv`, `IsoInv`, `UlInv`, `FeInv`,
  `EmvInv`), every file but the last of the list, which is being read, is one of the
  card's (`DfInv`), and an NDEF file is the old message, a
  message being written with NLEN zero, or the new one, of which the reader has read
  whole chunks of one and the same (`NdInv`). Each protocol has a lemma for what
  one exchange returns, lost or not (`ClExchange`, ... `NdExchange`), and one for
  the poller's steps (`ClKeeps`, ... `NdKeeps`); `OthersKeep` covers the steps of a
  poller in front of another's card. `PollerTagProofs` has the parts of the argument
  that are about the contactless protocols (Classic, Ultralight, FeliCa, ISO 15693-3,
  SLIX) and needs nothing of `PollerWalk`; `PollerWalkProofs` adds the protocols over
  ISO-DEP and puts the walk together. That `FeWire` is the table of the poller is
  proved by unrolling its recursion (`FeWires`).

Only model-checked:

- every liveness property (`CallsReturn`, `EveryApduAnswered`, `StopReturns`,
  `WorkEnds`, `WalkEnds`): liveness under fairness is out of the prover's reach;
- `ReadsTheCard` and `CloneReadsAlike`: `FromTheCard` says that nothing wrong is in
  an image, these two that nothing is missing. They compare the result of every loop with
  the whole card, for DESFire and EMV by a filter over a sequence, whose value on
  every input is an induction over data;
- what the runs that end in a violation show.

## 6. What is not modelled

- Ciphers and checksums (`crypto1`, DES, CRC): bit-level functions of 16 to
  64-bit words without control state, out of reach of useful bounds.
- The byte grammars: `apdu_parse`, TLV, the envelope of a blob. A frame is
  accepted or rejected, a blob is a function from services to contents.
- Commands of the card models that no poller and no writing phone sends: WRITE
  and counter increments of Ultralight, the MAC of FeliCa, other offsets of
  READ and UPDATE BINARY.
- `ultralight_listener.c` (the ISO-DEP variant), which answers nothing.
- Aliro with `CONFIG_NFC_ALIRO_PROTOCOL_VERIFIED`: `ListenPath` takes the
  default (off), in which the crypto item checks fixed vectors; `AliroReader`
  has both, and a verified card cannot be read.
- What the kernel does after `k_work_init` of an item that is queued. It happens
  in two places: `aliro_listener_init` when a stack is shut down and initialised
  again, and `nfc scan stop` followed by `nfc scan start` while a slice is
  queued. The models go on as if the queue was intact.
- The lazy start of the work queue: the shell thread makes every first call.
- Argument parsing, printing, golden blobs, `main.c`, `nfc_emulation.c`.
- What the PN7160 driver does with a device pointer that a shutdown clears under
  a call: in `NfcStack` the call ends, with success or with an error.
- More than one application of a DESFire card: `DfMaxApps` is 1, which the
  configuration allows (`CONFIG_NFC_DESFIRE_MAX_APPS` is 1 to 4, by default 4), so
  the loop over applications (`desfire_poller.c:334`) runs once. A file is read in
  one exchange: the loop over chunks (`desfire_poller_i.c:302`) is not modelled.
- UPDATE BINARY without data or past the end of the NDEF file
  (`ndef_listener.c:244`, `:251`), which is refused and changes nothing.
- `-ENODEV` of `nfc_transport_submit_work`: a service has a C-APDU to answer only
  while the transport is up.
- A Classic card whose block 0 begins with zero, for which the poller keeps the uid
  it had (`classic_poller.c:268`).
- The moment between `atomic_clear` of a busy flag, the last statement of its
  handler, and the handler's return (`Finish` in `ReaderEngine`): a start in
  between initialises an item that runs but is in no queue.

### Behaviour of the code the models carry

These follow from the code and are part of the models; a reader of a property
that names an exception will want to know them.

- Classic, FeliCa, ISO 15693 and SLIX clones are never saved: their services have
  no `user_ctx`, which their serialize functions take for the model
  (`Contextless` in `PollerWalk`).
- After a scan that found a tag the poll session is left active. A continuous scan
  that is started then fails in every slice with `-EBUSY` at
  `nfc_transport_discover_start` and queues itself again at once, without polling,
  until `nfc scan stop`: the handler ends a session only after a slice that found a
  tag (`nfc_applet_scan.c:39`).
- An ISO 15693 or SLIX card with more blocks than one security query covers (32)
  is not readable (`walk_long`); the signature of a SLIX2 is read shifted by the
  flag byte (`ImageOf`).
- With the NDEF poller built in, it claims DESFire cards and their read fails.
- An Ultralight ORIGIN reads past its end as zeros and its clone passes for an
  NTAG203; an image that stopped at a protected page is reloaded as a whole card.
- A DESFire image whose last file is empty does not load (`desfire.c:271`), and
  one without applications gives `-EBADMSG`.
- An EMV image keeps its records from the first place on, so an AFL that begins
  later, or has an empty record, comes back shifted.
- A Classic card with a uid of seven bytes is read with the first sector only: the
  poller goes on with four of them.
- `nfc_reader_scan_start` does not test `clone_busy`, nor `nfc_reader_clone_start`
  `scan_busy` (`Tests` in `ReaderEngine`), so `ReadIsAlone` is about reads.
- `nfc loop` on the PN7160 waits for a check that cannot run while the receive
  loop has the queue thread (hence the exception in `WorkEnds`), and goes on after
  a failed read.
- In `walk` the listeners are down before a clone; the NDEF listener that refuses
  a second init is in `NfcStack` (`stack_clone`).
