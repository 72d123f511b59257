------------------------------- MODULE NfcStore -------------------------------
(***************************************************************************)
(* The tag store (src/nfc/store/nfc_store.c) and its RAM backend           *)
(* (nfc_store_ram.c), as operators on the store's state that the actions   *)
(* of NfcStack call.  A blob is a function from the services it has an     *)
(* entry for to the entry's body; magic, version and CRC are what makes a  *)
(* blob of the backend readable, and every blob the backend holds has them *)
(* (nfc_store_save appends them, the import validates them).               *)
(***************************************************************************)
EXTENDS Naturals

CONSTANTS Tags, SlotCount, NULL

VARIABLES
    st_state,   \* s_state of nfc_store.c
    s_backend,  \* s_save_cb and s_load_cb, registered together: inert or RAM
    s_ready,    \* s_ready of nfc_store_ram.c
    s_slots     \* a slot is NULL (not occupied) or [tag, blob]

storeVars == <<st_state, s_backend, s_ready, s_slots>>

Slots == 1..SlotCount

StoreDown ==
    /\ st_state = "UNINITIALIZED" /\ s_backend = "inert" /\ s_ready = FALSE
    /\ s_slots = [i \in Slots |-> NULL]

\* Wrong variant: an initialised store is given the inert callbacks again.
StoreInitAgain == st_state' = "INITIALIZED" /\ s_backend' = "inert" /\ UNCHANGED <<s_ready, s_slots>>

\* nfc_store_init; every caller takes -EALREADY for success
StoreInit ==
    /\ st_state' = "INITIALIZED"
    /\ s_backend' = IF st_state = "INITIALIZED" THEN s_backend ELSE "inert"
    /\ UNCHANGED <<s_ready, s_slots>>

\* nfc_store_shutdown: the inert callbacks again; the slots stay
StoreShutdown ==
    /\ st_state' = "UNINITIALIZED" /\ s_backend' = "inert"
    /\ UNCHANGED <<s_ready, s_slots>>

\* nfc_store_ram_init, apart from the slots
RamReady ==
    IF s_ready
    THEN UNCHANGED <<st_state, s_backend, s_ready>>
    ELSE st_state' = "INITIALIZED" /\ s_backend' = "ram" /\ s_ready' = TRUE

RamInit == RamReady /\ UNCHANGED s_slots

-----------------------------------------------------------------------------
Lowest(S) == CHOOSE i \in S : \A j \in S : i <= j

\* nfc_store_ram_find_tag and nfc_store_ram_find_free, as the sets they search
Holding(tag) == {i \in Slots : s_slots[i] # NULL /\ s_slots[i].tag = tag}

Free == {i \in Slots : s_slots[i] = NULL}

\* Wrong variant: a free slot is preferred to the one that holds the tag.
FreeSlotFirst(tag) == IF Free # {} THEN Lowest(Free) ELSE Lowest(Holding(tag))

\* the slot nfc_store_ram_save_cb writes
SlotFor(tag) == IF Holding(tag) # {} THEN Lowest(Holding(tag)) ELSE Lowest(Free)

RoomFor(tag) == Holding(tag) \cup Free # {}

\* nfc_store_ram_save_cb, under its spinlock
RamSave(tag, blob) ==
    /\ RoomFor(tag)
    /\ s_slots' = [s_slots EXCEPT ![SlotFor(tag)] = [tag |-> tag, blob |-> blob]]

\* nfc_store_ram_load_cb
RamBlob(tag) == s_slots[Lowest(Holding(tag))].blob

\* nfc_store_ram_import: straight to the backend, whatever s_save_cb is
RamImport(tag, blob) ==
    /\ RamReady
    /\ RamSave(tag, blob) \/ (~RoomFor(tag) /\ UNCHANGED s_slots)

\* The call of s_save_cb that ends nfc_store_save
SaveCb(tag, blob) ==
    /\ s_backend = "ram" /\ RamSave(tag, blob)
    /\ UNCHANGED <<st_state, s_backend, s_ready>>

SaveCbFails(tag) ==
    /\ s_backend # "ram" \/ ~RoomFor(tag)
    /\ UNCHANGED storeVars

\* nfc_store_read_envelope finds a blob
Readable(tag) == st_state = "INITIALIZED" /\ s_backend = "ram" /\ Holding(tag) # {}

=============================================================================
