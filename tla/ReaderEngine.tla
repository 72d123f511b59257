---------------------------- MODULE ReaderEngine ----------------------------
(***************************************************************************)
(* The reader engine (src/nfc/reader/nfc_reader_engine.c), the applets     *)
(* that drive it (src/nfc/applets) and their shell commands, over the one  *)
(* thread of nfc_stack_wq.  The shell thread runs one command at a time;   *)
(* what a command queues outlives it.  The transport is the PN7160 one,    *)
(* reduced to its session and to the receive loop that keeps the queue     *)
(* thread while it listens (see NfcTransportPn7160); what a walk over the  *)
(* pollers does is in PollerWalk, what a load does in NfcStack.            *)
(***************************************************************************)
EXTENDS Naturals, Sequences

CONSTANTS
    Slots,    \* names of slots
    MaxCmds,  \* bound: shell commands
    Faults    \* the controller may fail

VARIABLES
    busy,     \* scan_busy, read_busy, clone_busy, verify_busy
    run,      \* s_discover_run
    slot,     \* s_read_tag, s_clone_tag, s_verify_slot
    asked,    \* the names the calls that were accepted had been given
    result,   \* verify_result
    active,   \* s_session.active
    tsess,    \* the session of the transport
    tstate,   \* the state of the transport
    stack,    \* the state of nfc_stack
    wq, q,    \* nfc_stack_wq: items queued, item run and where its handler is
    sh,       \* the shell thread: where it is, command, slot
    cmds,     \* commands so far
    raced     \* history: the shell thread went into work of the queue that was
              \* pending (ended a session, began or ended listening, restarted a discovery)

vars == <<busy, run, slot, asked, result, active, tsess, tstate, stack, wq, q, sh, cmds, raced>>

Flagged == {"scan", "read", "clone", "verify"}
Named == {"read", "clone", "verify"}
Items == Flagged \cup {"discover", "recv"}
Idle == [item |-> "none", at |-> "idle"]

Init ==
    /\ busy = [x \in Flagged |-> FALSE] /\ run = FALSE
    /\ slot = [x \in Named |-> "none"] /\ asked = slot /\ result = "none"
    /\ active = FALSE /\ tsess = "NONE" /\ tstate = "INITIALIZED" /\ stack = "STOPPED"
    /\ wq = <<>> /\ q = Idle
    /\ sh = [at |-> "idle", cmd |-> "none", slot |-> "none"] /\ cmds = 0 /\ raced = FALSE

Queued(x) == \E i \in DOMAIN wq : wq[i] = x

\* k_work_submit_to_queue: an item that is queued is not queued again.  (The queue is
\* never plugged, so a submission does not fail.)
Submitted(x) == IF Queued(x) THEN wq ELSE Append(wq, x)

\* k_work_cancel_sync takes the item out of the queue
Unqueued(x) ==
    IF Queued(x)
    THEN LET i == CHOOSE k \in DOMAIN wq : wq[k] = x
         IN  [j \in 1..(Len(wq) - 1) |-> IF j < i THEN wq[j] ELSE wq[j + 1]]
    ELSE wq

\* nfc_transport_discover_stop, whatever the controller answers
DiscoverStop ==
    IF tsess = "POLL" THEN tsess' = "NONE" /\ tstate' = "STOPPED" ELSE UNCHANGED <<tsess, tstate>>

-----------------------------------------------------------------------------
(* The handlers on the queue thread.  q.at is the place in the handler.     *)

transport == <<tsess, tstate>>
readerVars == <<run, slot, asked, stack, sh, cmds, raced>>

Goto(at) == q' = [q EXCEPT !.at = at]

\* where each handler begins
Entry == [scan |-> "once", read |-> "once", clone |-> "run", verify |-> "prepare", discover |-> "check", recv |-> "recv"]

Take ==
    /\ q = Idle /\ wq # <<>>
    /\ q' = [item |-> Head(wq), at |-> Entry[Head(wq)]] /\ wq' = Tail(wq)
    /\ UNCHANGED <<busy, result, active, transport, readerVars>>

\* nfc_applet_discover_handler: nothing to do once a stop was requested
DiscoverCheck ==
    /\ q.at = "check" /\ Goto(IF run THEN "once" ELSE "finish")
    /\ UNCHANGED <<busy, result, active, transport, wq, readerVars>>

\* what nfc_stack_stop leaves: ERROR when the controller fails to stop
StackStops ==
    \/ stack' = "STOPPED"
    \/ Faults /\ tsess = "LISTEN" /\ stack' = "ERROR"

\* nfc_transport_stop once the receive loop is gone
ListenStops == tsess' = "NONE" /\ tstate' = "STOPPED"

\* verify_work_handler up to the discovery: a started stack is stopped (the receive
\* loop may still be queued, it cannot be running) and the slot is loaded
VerifyPrepare ==
    /\ q.at = "prepare"
    /\ IF stack = "STARTED" THEN StackStops ELSE UNCHANGED stack
    /\ IF stack = "STARTED" /\ tsess = "LISTEN"
       THEN ListenStops /\ wq' = Unqueued("recv") ELSE UNCHANGED <<transport, wq>>
    /\ \E ok \in BOOLEAN : Goto(IF ok THEN "once" ELSE "fail")
    /\ UNCHANGED <<busy, result, active, run, slot, asked, sh, cmds, raced>>

\* what follows a discovery that fails, and one that finds a tag
Failed == IF q.item = "verify" THEN "fail" ELSE "finish"
Found == CASE q.item = "scan" -> "finish" [] q.item = "read" -> "run" [] q.item = "verify" -> "compare" [] OTHER -> "end"

\* nfc_reader_discover_once: a transport that was stopped is initialised again; then
\* nfc_transport_discover_start tests the session ...
Once ==
    /\ \/ q.at = "once" /\ Goto(IF tstate = "STOPPED" THEN "init" ELSE "claim") /\ UNCHANGED transport
       \/ q.at = "init" /\ Goto("claim") /\ tsess' = "NONE" /\ tstate' = "INITIALIZED"
       \/ q.at = "init" /\ Faults /\ Goto(Failed) /\ UNCHANGED transport
       \/ q.at = "claim" /\ Goto(IF tsess = "NONE" THEN "start" ELSE Failed) /\ UNCHANGED transport
    /\ UNCHANGED <<busy, result, active, wq, readerVars>>

\* ... and sets it when the controller has answered
DiscoverStart ==
    /\ \/ q.at = "start" /\ tsess' = "POLL" /\ tstate' = "STARTED" /\ Goto("wait")
       \/ q.at = "start" /\ Faults /\ Goto(Failed) /\ UNCHANGED transport
    /\ UNCHANGED <<busy, result, active, wq, readerVars>>

\* Wrong variant: a discovery that finds no tag goes on polling.
WaitFailsPolling == active' = FALSE /\ Goto(Failed) /\ UNCHANGED transport

\* nfc_reader_discover_once when the wait fails
WaitFails == DiscoverStop /\ active' = FALSE /\ Goto(Failed)

\* nfc_transport_discover_wait: the session must be a poll session when it begins; a
\* session that is stopped while it blocks may or may not end it
DiscoverWait ==
    /\ \/ q.at = "wait" /\ tsess = "POLL" /\ Goto("waiting") /\ UNCHANGED <<active, transport>>
       \/ q.at = "wait" /\ tsess # "POLL" /\ WaitFails
       \/ q.at = "waiting" /\ WaitFails
       \/ q.at = "waiting" /\ active' = TRUE /\ Goto(Found) /\ UNCHANGED transport
    /\ UNCHANGED <<busy, result, wq, readerVars>>

\* nfc_reader_pollers_run: without a session nothing is done
PollersRun ==
    /\ q.at = "run" /\ Goto(IF active THEN "walk" ELSE "finish")
    /\ UNCHANGED <<busy, result, active, transport, wq, readerVars>>

\* the walk ends (PollerWalk has it exchange by exchange)
WalkDone ==
    /\ q.at = "walk" /\ Goto("end")
    /\ UNCHANGED <<busy, result, active, transport, wq, readerVars>>

\* Wrong variant: an error before the comparison leaves no result.
CompareSilent ==
    /\ \/ q.at = "compare" /\ ~active /\ Goto("finish") /\ result' = "ENODEV"
       \/ q.at = "compare" /\ active /\ Goto("end") /\ \E r \in {"pass", "fail"} : result' = r
       \/ q.at = "fail" /\ Goto("finish") /\ result' = result
    /\ UNCHANGED <<busy, active, transport, wq, readerVars>>

\* the rest of verify_work_handler: ndef_poller_detect, ndef_poller_read and
\* nfc_applet_verify_compare, or an error before
Compare ==
    /\ \/ q.at = "compare" /\ ~active /\ Goto("finish") /\ result' = "ENODEV"
       \/ q.at = "compare" /\ active /\ Goto("end") /\ \E r \in {"pass", "fail"} : result' = r
       \/ q.at = "fail" /\ Goto("finish") /\ result' = "fail"
    /\ UNCHANGED <<busy, active, transport, wq, readerVars>>

\* nfc_reader_session_end: transport first, then the session
QSessionEnd ==
    /\ \/ q.at = "end" /\ active /\ DiscoverStop /\ Goto("clear") /\ UNCHANGED active
       \/ q.at = "end" /\ ~active /\ Goto("finish") /\ UNCHANGED <<active, transport>>
       \/ q.at = "clear" /\ active' = FALSE /\ Goto("finish") /\ UNCHANGED transport
    /\ UNCHANGED <<busy, result, wq, readerVars>>

\* atomic_clear of the flag of the handler that runs; a discovery has none
BusyCleared == [x \in Flagged |-> busy[x] /\ x # q.item]

\* Wrong variant: the check returns without clearing its flag.
FinishKeepsVerify ==
    /\ q.at = "finish" /\ q' = Idle
    /\ busy' = [x \in Flagged |-> busy[x] /\ (x # q.item \/ x = "verify")]
    /\ wq' = IF q.item = "discover" /\ run THEN Submitted("discover") ELSE wq
    /\ UNCHANGED <<result, active, transport, readerVars>>

\* Wrong variant: the discovery loops in its handler instead of queueing itself.
FinishLoops ==
    /\ q.at = "finish"
    /\ q' = IF q.item = "discover" /\ run THEN [q EXCEPT !.at = "once"] ELSE Idle
    /\ busy' = [x \in Flagged |-> busy[x] /\ x # q.item]
    /\ UNCHANGED <<wq, result, active, transport, readerVars>>

\* the end of each handler: its flag is cleared, which is the last thing it does
\* before it returns, or the discovery queues itself again unless a stop was requested
Finish ==
    /\ q.at = "finish" /\ q' = Idle
    /\ busy' = BusyCleared
    /\ wq' = IF q.item = "discover" /\ run THEN Submitted("discover") ELSE wq
    /\ UNCHANGED <<result, active, transport, readerVars>>

\* listen_recv_work_handler ends when the session is over or it is told to
RecvEnds ==
    /\ q.at = "recv" /\ (tsess # "LISTEN" \/ sh.at = "stopping")
    /\ q' = Idle
    /\ UNCHANGED <<busy, result, active, transport, wq, readerVars>>

\* ... or on an error of the controller
RecvError ==
    /\ q.at = "recv" /\ Faults /\ q' = Idle
    /\ UNCHANGED <<busy, result, active, transport, wq, readerVars>>

Handler ==
    \/ Take \/ DiscoverCheck \/ VerifyPrepare \/ Once \/ DiscoverStart \/ DiscoverWait
    \/ PollersRun \/ WalkDone \/ Compare \/ QSessionEnd \/ Finish \/ RecvEnds

-----------------------------------------------------------------------------
(* The shell thread                                                         *)

queueVars == <<q, stack, tsess, tstate>>

At(at) == sh' = [sh EXCEPT !.at = at]

\* a new command may begin
Command(cmd, s, at) ==
    /\ sh.at = "idle" /\ cmds < MaxCmds /\ cmds' = cmds + 1
    /\ sh' = [at |-> at, cmd |-> cmd, slot |-> s]

\* the reader has something queued or running, or its loop is on
Pending == run \/ q.item \in Items \ {"recv"} \/ \E x \in Items \ {"recv"} : Queued(x)

\* Wrong variant: each call tests its own flag.
TestsItsOwn == [x \in Flagged |-> {x}]

\* the flags each call tests: nfc_reader_scan_start, nfc_reader_read_start,
\* nfc_reader_clone_start and nfc_applet_verify_start
Tests == [scan |-> {"scan", "read"}, read |-> {"read", "scan", "clone"}, clone |-> {"clone", "read"}, verify |-> Flagged]

Accepts(x) ==
    /\ \A y \in Tests[x] : ~busy[y]
    /\ x = "verify" => ~run
    /\ x = "clone" => active

\* Wrong variant: the name is copied before the flags are tested.
StartCopiesFirst(x, s) ==
    /\ slot' = IF x \in Named THEN [slot EXCEPT ![x] = s] ELSE slot
    /\ IF Accepts(x)
       THEN /\ busy' = [busy EXCEPT ![x] = TRUE]
            /\ asked' = IF x \in Named THEN [asked EXCEPT ![x] = s] ELSE asked
            /\ result' = IF x = "verify" THEN "EINPROGRESS" ELSE result
            /\ wq' = Submitted(x)
       ELSE UNCHANGED <<busy, asked, result, wq>>

\* the *_start functions: refused, or flag, name and item
Start(x, s) ==
    IF Accepts(x)
    THEN /\ busy' = [busy EXCEPT ![x] = TRUE]
         /\ slot' = IF x \in Named THEN [slot EXCEPT ![x] = s] ELSE slot
         /\ asked' = IF x \in Named THEN [asked EXCEPT ![x] = s] ELSE asked
         /\ result' = IF x = "verify" THEN "EINPROGRESS" ELSE result
         /\ wq' = Submitted(x)
    ELSE UNCHANGED <<busy, slot, asked, result, wq>>

\* nfc reader scan; nfc_reader_clone_start; nfc read and nfc check, which wait
CmdStart(x, s) ==
    /\ Command(x, s, IF Accepts(x) /\ x \in {"read", "verify"} THEN "wait" ELSE "idle")
    /\ Start(x, s)
    /\ UNCHANGED <<run, active, queueVars, raced>>

\* nfc loop begins with a read
CmdLoop(s) ==
    /\ Command("loop", s, IF Accepts("read") THEN "wait" ELSE "idle")
    /\ Start("read", s)
    /\ UNCHANGED <<run, active, queueVars, raced>>

\* nfc scan start: k_work_init takes the item for a new one even when the one of an
\* earlier loop is still queued; the queue is followed as if it was not
CmdDiscoverStart ==
    /\ Command("scan_start", "none", "idle")
    /\ IF run \/ busy["scan"] THEN UNCHANGED <<run, wq>>
       ELSE run' = TRUE /\ wq' = Submitted("discover")
    /\ raced' = (raced \/ (~run /\ ~busy["scan"] /\ Queued("discover")))
    /\ UNCHANGED <<busy, slot, asked, result, active, queueVars>>

\* nfc scan stop: the flag, then nfc_reader_session_end
CmdDiscoverStop ==
    /\ Command("scan_stop", "none", IF run THEN "end" ELSE "idle")
    /\ run' = FALSE
    /\ UNCHANGED <<busy, slot, asked, result, active, wq, queueVars, raced>>

\* nfc emulate begins with nfc_reader_session_end
CmdEmulate(s) ==
    /\ Command("emulate", s, "end")
    /\ UNCHANGED <<busy, run, slot, asked, result, active, wq, queueVars, raced>>

\* nfc stack start, nfc stack stop
CmdStack(cmd, at) ==
    /\ Command(cmd, "none", at)
    /\ UNCHANGED <<busy, run, slot, asked, result, active, wq, queueVars, raced>>

-----------------------------------------------------------------------------
(* The rest of a command                                                    *)

shellVars == <<busy, slot, asked, run, result, cmds>>

\* nfc_reader_session_end on the shell thread
AfterEnd == IF sh.cmd = "scan_stop" THEN "idle" ELSE "load"

ShSessionEnd ==
    /\ \/ sh.at = "end" /\ active /\ At("end_stop") /\ UNCHANGED <<active, transport>>
       \/ sh.at = "end" /\ ~active /\ At(AfterEnd) /\ UNCHANGED <<active, transport>>
       \/ sh.at = "end_stop" /\ DiscoverStop /\ At("end_clear") /\ UNCHANGED active
       \/ sh.at = "end_clear" /\ active' = FALSE /\ At(AfterEnd) /\ UNCHANGED transport
    /\ raced' = (raced \/ (active /\ Pending))
    /\ UNCHANGED <<shellVars, wq, q, stack>>

\* nfc_applet_read_wait, nfc_applet_verify_wait: the flag, or the deadline
ShWait ==
    /\ sh.at = "wait"
    /\ LET x == IF sh.cmd = "verify" \/ sh.cmd = "loop_verify" THEN "verify" ELSE "read"
       IN  \/ At("idle")
           \/ ~busy[x] /\ At(IF x = "verify" THEN "verdict" ELSE IF sh.cmd = "loop" THEN "loop_end" ELSE "idle")
    /\ UNCHANGED <<shellVars, active, transport, wq, q, stack, raced>>

\* nfc_applet_verify_last_result
ShVerdict ==
    /\ sh.at = "verdict" /\ At("idle")
    /\ UNCHANGED <<shellVars, active, transport, wq, q, stack, raced>>

\* nfc_applet_loop_run goes on with nfc_applet_emulate, whatever the read did
ShLoopEmulate ==
    /\ sh.at = "loop_end" /\ At("end")
    /\ UNCHANGED <<shellVars, active, transport, wq, q, stack, raced>>

\* nfc_applet_emulate up to nfc_stack_load, which a started stack refuses
ShLoad ==
    /\ sh.at = "load"
    /\ \/ stack = "STOPPED" /\ At("listen")
       \/ At("idle")
    /\ UNCHANGED <<shellVars, active, transport, wq, q, stack, raced>>

\* where the command is when the stack is started
AfterListen == IF sh.cmd = "loop" THEN "loop_verify" ELSE "idle"

\* nfc_stack_start and the test of nfc_transport_start
ShListen ==
    /\ sh.at = "listen"
    /\ \/ stack = "STARTED" /\ At(AfterListen) /\ UNCHANGED stack
       \/ stack = "ERROR" /\ At("idle") /\ UNCHANGED stack
       \/ stack = "STOPPED" /\ tsess = "NONE" /\ At("listen_set") /\ stack' = "STARTED"
       \/ stack = "STOPPED" /\ tsess # "NONE" /\ At("idle") /\ stack' = "ERROR"
    /\ raced' = (raced \/ Pending)
    /\ UNCHANGED <<shellVars, active, transport, wq, q>>

\* the rest of nfc_transport_start: the controller; then the receive loop is queued,
\* and then the session is set
ShListenSet ==
    /\ \/ sh.at = "listen_set" /\ At("listen_session") /\ wq' = Submitted("recv") /\ UNCHANGED <<transport, stack>>
       \/ sh.at = "listen_set" /\ Faults /\ At("idle") /\ stack' = "ERROR" /\ UNCHANGED <<transport, wq>>
       \/ sh.at = "listen_session" /\ At(AfterListen) /\ tsess' = "LISTEN" /\ tstate' = "STARTED" /\ UNCHANGED <<stack, wq>>
    /\ UNCHANGED <<shellVars, active, q, raced>>

\* nfc_applet_loop_run: the check
ShLoopVerify ==
    /\ sh.at = "loop_verify"
    /\ Start("verify", sh.slot)
    /\ sh' = [sh EXCEPT !.cmd = "loop_verify", !.at = IF Accepts("verify") THEN "wait" ELSE "idle"]
    /\ UNCHANGED <<run, cmds, active, transport, q, stack, raced>>

\* nfc_stack_stop: k_work_cancel_sync waits for the receive loop
ShStop ==
    /\ sh.at = "stop"
    /\ \/ stack = "STOPPED" /\ At("idle") /\ UNCHANGED <<stack, wq>>
       \/ stack # "STOPPED" /\ tsess # "LISTEN" /\ At("idle") /\ stack' = "STOPPED" /\ UNCHANGED wq
       \/ /\ stack # "STOPPED" /\ tsess = "LISTEN" /\ At("stopping")
          /\ wq' = Unqueued("recv") /\ UNCHANGED stack
    /\ raced' = (raced \/ Pending)
    /\ UNCHANGED <<shellVars, active, transport, q>>

\* Wrong variant: the session of a stopped transport is not reset.
ShStoppedListening ==
    /\ sh.at = "stopping" /\ q.item # "recv" /\ At("idle") /\ StackStops
    /\ UNCHANGED <<shellVars, active, transport, wq, q, raced>>

ShStopped ==
    /\ sh.at = "stopping" /\ q.item # "recv" /\ At("idle") /\ StackStops /\ ListenStops
    /\ UNCHANGED <<shellVars, active, wq, q, raced>>

Commands ==
    \/ \E s \in Slots : (\E x \in Flagged : CmdStart(x, s)) \/ CmdLoop(s) \/ CmdEmulate(s)
    \/ CmdDiscoverStart \/ CmdDiscoverStop \/ CmdStack("stack_start", "listen") \/ CmdStack("stack_stop", "stop")

Shell ==
    \/ ShSessionEnd \/ ShWait \/ ShVerdict \/ ShLoopEmulate \/ ShLoad \/ ShListen \/ ShListenSet
    \/ ShLoopVerify \/ ShStop \/ ShStopped

Next == Handler \/ RecvError \/ Commands \/ Shell

\* The queue thread runs while it has an item, and a command that has begun goes on.
Spec == Init /\ [][Next]_vars /\ WF_vars(Handler) /\ WF_vars(Shell)

-----------------------------------------------------------------------------
(* Properties                                                               *)

\* A busy flag is up exactly while its item is queued or its handler runs: a flag that
\* stays up would refuse every later call, and one that drops early would let the next
\* call run k_work_init on an item the queue still holds.
BusyIsWork == \A x \in Flagged : busy[x] <=> Queued(x) \/ q.item = x

\* A read shares the queue neither with a scan nor with a clone, whichever came first:
\* a scan would leave it a session of another tag.
ReadIsAlone == busy["read"] => ~busy["scan"] /\ ~busy["clone"]

\* What is read, cloned or checked goes by the name the accepted call gave: calls that
\* are refused meanwhile do not touch the static buffer the handler will use.
NameKept == \A x \in Named : busy[x] => slot[x] = asked[x]

\* nothing runs and nothing is queued
Quiet == q = Idle /\ wq = <<>> /\ sh.at = "idle" /\ ~run

\* At rest the controller polls exactly when there is a session, so that
\* nfc_reader_session_end, which does nothing without a session, can always stop it;
\* unless the shell thread interfered with pending work.
NoOrphan == ~raced /\ Quiet => (tsess = "POLL" <=> active)

\* At rest a started stack listens and only a started stack does, though start and
\* discovery test the session on two threads and set it after a call to the
\* controller; unless the shell thread interfered with pending work.
OneRole == ~raced /\ Quiet /\ stack # "ERROR" => (stack = "STARTED" <=> tsess = "LISTEN")

\* When nfc_applet_verify_wait returns 0, nfc_applet_verify_last_result has the result
\* of that check, on every path of the handler.
VerdictIsIn == sh.at = "verdict" => result \in {"ENODEV", "pass", "fail"}

\* Whatever is queued is run to its end, the discovery loop in between, unless the
\* transport listens (its receive loop keeps the queue thread).
WorkEnds == \A x \in Flagged : busy[x] ~> (~busy[x] \/ tsess = "LISTEN")
=============================================================================
