------------------------------- MODULE AidRouter -------------------------------
(***************************************************************************)
(* The SELECT-by-AID router of the listen path (src/nfc/router/aid_router.c) *)
(* and the way the services it dispatches to see their own selection.      *)
(* All its calls come from the work queue thread or from init and shutdown *)
(* of the stack, when nothing listens, so each is one step.                *)
(***************************************************************************)
EXTENDS Naturals, Sequences

CONSTANTS
    Aids,     \* AIDs a SELECT may carry
    Svcs,     \* the services (nfc_service_t)
    MaxAids,  \* CONFIG_NFC_ROUTER_MAX_AIDS
    NULL,
    Other     \* a C-APDU that is not a SELECT by AID

ASSUME RouterAssumption == NULL \notin Svcs /\ Other \notin Aids /\ MaxAids \in Nat

VARIABLES
    r_state, s_table, s_active_svc,
    selected,  \* the services that were selected and not yet told of its end
    cleared,   \* aid_router_clear has been called since init
    answer     \* who answers the session's last C-APDU: a service, or the router's SW

routerVars == <<r_state, s_table, s_active_svc, selected, cleared, answer>>

Answers == Svcs \cup {NULL, "6A82", "6986"}

RouterInit ==
    /\ r_state = "UNINITIALIZED" /\ s_table = <<>> /\ s_active_svc = NULL
    /\ selected = {} /\ cleared = FALSE /\ answer = NULL

\* aid_router_init
AidRouterInit ==
    /\ r_state # "INITIALIZED"
    /\ r_state' = "INITIALIZED" /\ s_table' = <<>> /\ s_active_svc' = NULL
    /\ cleared' = FALSE
    /\ UNCHANGED <<selected, answer>>

\* aid_router_shutdown.  nfc_stack shuts the listeners down first, which
\* resets the session of each.
AidRouterShutdown ==
    /\ r_state' = "UNINITIALIZED" /\ s_table' = <<>> /\ s_active_svc' = NULL
    /\ selected' = {} /\ answer' = NULL
    /\ UNCHANGED cleared

\* aid_router_register
AidRouterRegister(aid, svc) ==
    /\ r_state = "INITIALIZED"
    /\ Len(s_table) < MaxAids
    /\ s_table' = Append(s_table, [aid |-> aid, svc |-> svc])
    /\ UNCHANGED <<r_state, s_active_svc, selected, cleared, answer>>

\* aid_router_clear
AidRouterClear ==
    /\ s_table' = <<>> /\ s_active_svc' = NULL
    /\ cleared' = TRUE
    /\ UNCHANGED <<r_state, selected, answer>>

\* aid_router_field_off: on_field_off of the active service
AidRouterFieldOff ==
    /\ selected' = selected \ {s_active_svc}
    /\ s_active_svc' = NULL /\ answer' = NULL
    /\ UNCHANGED <<r_state, s_table, cleared>>

\* find_aid: the first entry with this AID
FirstMatch(aid, i) ==
    /\ s_table[i].aid = aid
    /\ \A j \in 1..(i - 1) : s_table[j].aid # aid

Unmatched(aid) == \A i \in DOMAIN s_table : s_table[i].aid # aid

\* Wrong variant: the service that was active is not deselected.
SelectWithoutDeselect(aid) ==
    \E i \in DOMAIN s_table :
        /\ FirstMatch(aid, i)
        /\ selected' = selected \cup {s_table[i].svc}
        /\ s_active_svc' = s_table[i].svc
        /\ answer' = s_table[i].svc

\* aid_router_dispatch of a SELECT: on_deselect of the service that was
\* active, if it is another one, then on_select of the new one.
DispatchSelect(aid) ==
    \E i \in DOMAIN s_table :
        LET svc == s_table[i].svc
        IN  /\ FirstMatch(aid, i)
            /\ selected' = (IF s_active_svc # svc THEN selected \ {s_active_svc} ELSE selected) \cup {svc}
            /\ s_active_svc' = svc
            /\ answer' = svc

\* aid_router_dispatch.  A SELECT of an unknown AID keeps the active service.
AidRouterDispatch(apdu) ==
    /\ r_state = "INITIALIZED"
    /\ \/ apdu \in Aids /\ DispatchSelect(apdu)
       \/ /\ apdu \in Aids /\ Unmatched(apdu)
          /\ answer' = "6A82" /\ UNCHANGED <<selected, s_active_svc>>
       \/ /\ apdu = Other
          /\ answer' = IF s_active_svc = NULL THEN "6986" ELSE s_active_svc
          /\ UNCHANGED <<selected, s_active_svc>>
    /\ UNCHANGED <<r_state, s_table, cleared>>

RouterNext ==
    \/ AidRouterInit \/ AidRouterShutdown \/ AidRouterClear \/ AidRouterFieldOff
    \/ \E aid \in Aids, svc \in Svcs : AidRouterRegister(aid, svc)
    \/ \E apdu \in Aids \cup {Other} : AidRouterDispatch(apdu)

RouterSpec == RouterInit /\ [][RouterNext]_routerVars

-----------------------------------------------------------------------------
(* Properties *)

\* Every variable keeps its type; the table never outgrows its array.
RouterTypeOK ==
    /\ r_state \in {"UNINITIALIZED", "INITIALIZED"}
    /\ s_table \in Seq([aid : Aids, svc : Svcs]) /\ Len(s_table) <= MaxAids
    /\ s_active_svc \in Svcs \cup {NULL}
    /\ selected \subseteq Svcs /\ cleared \in BOOLEAN /\ answer \in Answers

\* A service that believes it is selected is the one APDUs go to, so that two
\* services never both hold a session: every way to change the active service
\* ends the session of the one before.  Only aid_router_clear forgets it.
SelectedIsActive == ~cleared => selected = {s_active_svc} \ {NULL}
=============================================================================
