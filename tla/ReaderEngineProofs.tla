-------------------------- MODULE ReaderEngineProofs --------------------------
(***************************************************************************)
(* Proofs about ReaderEngine: for any number of commands and any slots, the *)
(* busy flags tell what the queue holds, a read is alone, a name is the one *)
(* that was asked for, a verdict is there when it is fetched, and polling   *)
(* and listening agree with the session and the stack at rest.              *)
(***************************************************************************)
EXTENDS ReaderEngine, TLAPS

\* Most leaves are first-order: Zenon first, the SMT solver for the others.
USE ZenonT(3), SMTT(30)

Final == {"ENODEV", "pass", "fail"}

\* no item is queued twice
Unique == \A i, j \in DOMAIN wq : wq[i] = wq[j] => i = j

QAts ==
    {"idle", "check", "prepare", "once", "init", "claim", "start", "wait", "waiting", "run", "walk", "compare", "fail",
     "end", "clear", "finish", "recv"}
ShAts ==
    {"idle", "wait", "verdict", "loop_end", "end", "end_stop", "end_clear", "load", "listen", "listen_set",
     "listen_session", "loop_verify", "stop", "stopping"}
Cmds ==
    Flagged \cup {"none", "loop", "loop_verify", "scan_start", "scan_stop", "emulate", "stack_start", "stack_stop"}

\* The types the proof needs
TypeInv ==
    /\ busy \in [Flagged -> BOOLEAN]
    /\ slot \in [Named -> Slots \cup {"none"}] /\ asked \in [Named -> Slots \cup {"none"}]
    /\ wq \in Seq(Items) /\ Unique
    /\ q \in [item : Items \cup {"none"}, at : QAts]
    /\ sh \in [at : ShAts, cmd : Cmds, slot : Slots \cup {"none"}]

\* What runs is not queued as well: a handler that clears its flag would leave its item
\* behind.
RunsOnce == q.item \in Flagged => ~Queued(q.item)

\* Which handlers can be at a place
Places ==
    /\ q.item = "none" => q = Idle
    /\ q.at \in {"prepare", "compare", "fail"} => q.item = "verify"
    /\ q.at \in {"run", "walk"} => q.item \in {"read", "clone"}
    /\ q.at = "check" => q.item = "discover"
    /\ q.at = "recv" => q.item = "recv"

\* A check that is past its comparison has its result, and who waits for a check waits
\* for its flag or has a result.
Results ==
    /\ q.item = "verify" /\ q.at \in {"end", "clear", "finish"} => result \in Final
    /\ sh.at = "wait" /\ sh.cmd \in {"verify", "loop_verify"} => busy["verify"] \/ result \in Final
    /\ sh.at = "verdict" => result \in Final

EngineInv == TypeInv /\ RunsOnce /\ Places /\ Results /\ BusyIsWork /\ ReadIsAlone /\ NameKept

-----------------------------------------------------------------------------
(* What the three operations on the queue do to what is queued              *)

\* k_work_submit_to_queue adds its item, once.
LEMMA SubmittedFacts ==
    ASSUME wq \in Seq(Items), Unique, NEW x \in Items, wq' = Submitted(x)
    PROVE  /\ wq' \in Seq(Items) /\ Unique'
           /\ \A y : Queued(y)' <=> Queued(y) \/ y = x
<1>1. CASE Queued(x)
  <2>1. wq' = wq
    BY <1>1 DEF Submitted
  <2> QED BY <1>1, <2>1 DEF Unique, Queued
<1>2. CASE ~Queued(x)
  <2>1. wq' = Append(wq, x)
    BY <1>2 DEF Submitted
  <2>2. wq' \in Seq(Items) /\ DOMAIN wq' = 1..(Len(wq) + 1) /\ DOMAIN wq = 1..Len(wq) /\ Len(wq) \in Nat
    BY <2>1
  <2>3. \A i \in DOMAIN wq' : wq'[i] = IF i \in DOMAIN wq THEN wq[i] ELSE x
    BY <2>1, <2>2
  <2>4. Unique'
    BY <1>2, <2>2, <2>3 DEF Unique, Queued
  <2>5. \A y : Queued(y)' <=> Queued(y) \/ y = x
    BY <2>2, <2>3 DEF Queued
  <2> QED BY <2>2, <2>4, <2>5
<1> QED BY <1>1, <1>2

\* The queue thread takes the first item out.
LEMMA TakenFacts ==
    ASSUME wq \in Seq(Items), Unique, wq # <<>>, wq' = Tail(wq)
    PROVE  /\ wq' \in Seq(Items) /\ Unique' /\ Head(wq) \in Items
           /\ \A y : Queued(y)' <=> Queued(y) /\ y # Head(wq)
           /\ Queued(Head(wq))
<1>1. Len(wq) \in Nat \ {0} /\ DOMAIN wq = 1..Len(wq) /\ Head(wq) = wq[1] /\ Head(wq) \in Items
  OBVIOUS
<1>2. wq' \in Seq(Items) /\ DOMAIN wq' = 1..(Len(wq) - 1)
  BY <1>1
<1>3. \A i \in DOMAIN wq' : wq'[i] = wq[i + 1]
  BY <1>1, <1>2
<1>4. Unique'
  BY <1>1, <1>2, <1>3 DEF Unique
<1>5. \A y : Queued(y)' => Queued(y) /\ y # Head(wq)
  BY <1>1, <1>2, <1>3 DEF Queued, Unique
<1>6. \A y : Queued(y) /\ y # Head(wq) => Queued(y)'
  <2> TAKE y
  <2> HAVE Queued(y) /\ y # Head(wq)
  <2>1. PICK i \in DOMAIN wq : wq[i] = y
    BY DEF Queued
  <2>2. i - 1 \in DOMAIN wq' /\ wq'[i - 1] = y
    BY <1>1, <1>2, <1>3, <2>1
  <2> QED BY <2>2 DEF Queued
<1>7. Queued(Head(wq))
  BY <1>1 DEF Queued
<1> QED BY <1>1, <1>2, <1>4, <1>5, <1>6, <1>7

\* k_work_cancel_sync takes its item out.
LEMMA UnqueuedFacts ==
    ASSUME wq \in Seq(Items), Unique, NEW x \in Items, wq' = Unqueued(x)
    PROVE  /\ wq' \in Seq(Items) /\ Unique'
           /\ \A y : Queued(y)' <=> Queued(y) /\ y # x
<1>1. CASE ~Queued(x)
  <2>1. wq' = wq
    BY <1>1 DEF Unqueued
  <2> QED BY <1>1, <2>1 DEF Unique, Queued
<1>2. CASE Queued(x)
  <2> DEFINE i == CHOOSE k \in DOMAIN wq : wq[k] = x
  <2>1. i \in DOMAIN wq /\ wq[i] = x
    BY <1>2 DEF Queued
  <2>2. wq' = [j \in 1..(Len(wq) - 1) |-> IF j < i THEN wq[j] ELSE wq[j + 1]]
    BY <1>2 DEF Unqueued
  <2> HIDE DEF i
  <2>3. Len(wq) \in Nat \ {0} /\ DOMAIN wq = 1..Len(wq) /\ i \in 1..Len(wq)
    BY <2>1
  <2>4. DOMAIN wq' = 1..(Len(wq) - 1) /\ \A j \in DOMAIN wq' : wq'[j] = IF j < i THEN wq[j] ELSE wq[j + 1]
    BY <2>2
  <2>5. wq' \in Seq(Items)
    <3>1. \A j \in 1..(Len(wq) - 1) : (IF j < i THEN wq[j] ELSE wq[j + 1]) \in Items
      BY <2>3
    <3> QED BY <2>2, <2>3, <3>1
  <2>6. Unique'
    BY <2>3, <2>4 DEF Unique
  <2>7. \A y : Queued(y)' => Queued(y) /\ y # x
    BY <2>1, <2>3, <2>4 DEF Queued, Unique
  <2>8. \A y : Queued(y) /\ y # x => Queued(y)'
    <3> TAKE y
    <3> HAVE Queued(y) /\ y # x
    <3>1. PICK k \in DOMAIN wq : wq[k] = y
      BY DEF Queued
    <3>2. k # i
      BY <2>1, <3>1
    <3>3. CASE k < i
      <4>1. k \in DOMAIN wq' /\ wq'[k] = y
        BY <2>3, <2>4, <3>1, <3>3
      <4> QED BY <4>1 DEF Queued
    <3>4. CASE k > i
      <4>1. k - 1 \in DOMAIN wq' /\ wq'[k - 1] = y
        BY <2>3, <2>4, <3>1, <3>4
      <4> QED BY <4>1 DEF Queued
    <3> QED BY <2>3, <3>1, <3>2, <3>3, <3>4
  <2> QED BY <2>5, <2>6, <2>7, <2>8
<1> QED BY <1>1, <1>2

\* A step that leaves the queue alone leaves what is queued.
LEMMA SameQueue ==
    ASSUME UNCHANGED wq
    PROVE  (Unique' <=> Unique) /\ \A y : Queued(y)' <=> Queued(y)
BY DEF Unique, Queued

-----------------------------------------------------------------------------
(* The invariant holds and every step keeps it                              *)

\* The engine begins with no work and no flag.
LEMMA InitInv == Init => EngineInv
<1> SUFFICES ASSUME Init PROVE EngineInv
  OBVIOUS
<1>1. wq = <<>> /\ \A y : ~Queued(y)
  BY DEF Init, Queued
<1>2. TypeInv
  BY <1>1 DEF Init, TypeInv, Unique, Idle, Named, QAts, ShAts, Cmds
<1>3. RunsOnce /\ Places /\ Results
  BY <1>1 DEF Init, RunsOnce, Places, Results, Idle, Flagged
<1>4. BusyIsWork /\ ReadIsAlone /\ NameKept
  BY <1>1 DEF Init, BusyIsWork, ReadIsAlone, NameKept, Idle, Flagged
<1> QED BY <1>2, <1>3, <1>4 DEF EngineInv

\* The queue thread takes an item and enters its handler.
LEMMA TakeInv == EngineInv /\ Take => EngineInv'
<1> SUFFICES ASSUME EngineInv, Take PROVE EngineInv'
  OBVIOUS
<1> USE DEF EngineInv
<1>1. wq' \in Seq(Items) /\ Unique' /\ Head(wq) \in Items /\ Queued(Head(wq))
      /\ \A y : Queued(y)' <=> Queued(y) /\ y # Head(wq)
  BY TakenFacts DEF TypeInv, Take
<1>2. q = Idle /\ q' = [item |-> Head(wq), at |-> Entry[Head(wq)]]
      /\ UNCHANGED <<busy, slot, asked, result, sh>>
  BY DEF Take, readerVars
<1>3. Entry[Head(wq)] \in QAts
  BY <1>1 DEF Entry, Items, Flagged, QAts
<1>4. TypeInv'
  BY <1>1, <1>2, <1>3 DEF TypeInv
<1>5. RunsOnce' /\ BusyIsWork'
  BY <1>1, <1>2 DEF RunsOnce, BusyIsWork, Idle, Flagged
<1>6. Places'
  BY <1>1, <1>2 DEF Places, Entry, Items, Flagged
<1>7. Results'
  BY <1>1, <1>2 DEF Results, Entry, Items, Flagged
<1>8. ReadIsAlone' /\ NameKept'
  BY <1>2 DEF ReadIsAlone, NameKept
<1> QED BY <1>4, <1>5, <1>6, <1>7, <1>8

\* A step of a handler within its item moves q.at; the queue, the flags and the names
\* stay as they are.
LEMMA GotoInv ==
    ASSUME EngineInv, q.item # "none", UNCHANGED <<busy, slot, asked, sh, wq>>, NEW a \in QAts, Goto(a), Places', Results'
    PROVE  EngineInv'
<1> USE DEF EngineInv
<1>1. (Unique' <=> Unique) /\ \A y : Queued(y)' <=> Queued(y)
  BY SameQueue
<1>2. q' \in [item : Items \cup {"none"}, at : QAts] /\ q'.item = q.item
  BY DEF TypeInv, Goto
<1>3. TypeInv'
  BY <1>1, <1>2 DEF TypeInv
<1>4. RunsOnce' /\ BusyIsWork'
  BY <1>1, <1>2 DEF RunsOnce, BusyIsWork
<1>5. ReadIsAlone' /\ NameKept'
  BY DEF ReadIsAlone, NameKept
<1> QED BY <1>3, <1>4, <1>5

\* The same where the place does not depend on the result: the handlers up to their
\* discovery and after a walk.
LEMMA MoveInv ==
    ASSUME EngineInv, UNCHANGED <<busy, slot, asked, sh, wq, result>>, NEW a \in QAts, Goto(a),
           q.item # "none",
           a \in {"prepare", "compare", "fail"} => q.item = "verify",
           a \in {"run", "walk"} => q.item \in {"read", "clone"},
           a \notin {"check", "recv"},
           q.item = "verify" /\ a \in {"end", "clear", "finish"} => result \in Final
    PROVE  EngineInv'
<1>1. q' = [q EXCEPT !.at = a] /\ q'.item = q.item /\ q'.at = a
  BY DEF Goto, EngineInv, TypeInv
<1>2. Places'
  BY <1>1 DEF Places
<1>3. Results'
  BY <1>1 DEF Results, EngineInv
<1> QED BY <1>2, <1>3, GotoInv

\* The steps of a handler between Take and Finish.
LEMMA HandlerInv ==
    EngineInv /\ (DiscoverCheck \/ Once \/ DiscoverStart \/ DiscoverWait \/ PollersRun \/ WalkDone \/ Compare \/ QSessionEnd)
        => EngineInv'
<1> SUFFICES ASSUME EngineInv,
                    DiscoverCheck \/ Once \/ DiscoverStart \/ DiscoverWait \/ PollersRun \/ WalkDone \/ Compare \/ QSessionEnd
             PROVE  EngineInv'
  OBVIOUS
<1> DEFINE moved == UNCHANGED <<busy, slot, asked, sh, wq, result>>
<1>1. q.at # "idle" => q.item # "none"
  BY DEF EngineInv, Places, Idle
<1>2. Failed \in {"fail", "finish"} /\ (Failed = "fail" <=> q.item = "verify")
  BY DEF Failed
<1>3. /\ Found \in {"finish", "run", "compare", "end"}
      /\ Found = "run" <=> q.item = "read"
      /\ Found = "compare" <=> q.item = "verify"
  BY DEF Found
<1>4. CASE DiscoverCheck
  <2>1. moved /\ q.item = "discover" /\ \E a \in {"once", "finish"} : Goto(a)
    BY <1>4 DEF DiscoverCheck, readerVars, EngineInv, Places
  <2> QED BY <2>1, MoveInv DEF QAts
<1>5. CASE Once
  <2>1. moved /\ q.item # "none" /\ \E a \in {"init", "claim", "start", Failed} : Goto(a)
    BY <1>1, <1>5 DEF Once, readerVars
  <2> QED BY <1>2, <2>1, MoveInv DEF QAts
<1>6. CASE DiscoverStart
  <2>1. moved /\ q.item # "none" /\ \E a \in {"wait", Failed} : Goto(a)
    BY <1>1, <1>6 DEF DiscoverStart, readerVars
  <2> QED BY <1>2, <2>1, MoveInv DEF QAts
<1>7. CASE DiscoverWait
  <2>1. moved /\ q.item # "none" /\ \E a \in {"waiting", Failed, Found} : Goto(a)
    BY <1>1, <1>7 DEF DiscoverWait, WaitFails, readerVars
  <2> QED BY <1>2, <1>3, <2>1, MoveInv DEF QAts
<1>8. CASE PollersRun \/ WalkDone
  <2>1. moved /\ q.item \in {"read", "clone"} /\ \E a \in {"walk", "finish", "end"} : Goto(a)
    BY <1>8 DEF PollersRun, WalkDone, readerVars, EngineInv, Places
  <2> QED BY <2>1, MoveInv DEF QAts
<1>9. CASE Compare
  <2>1. PICK a \in {"finish", "end"} : Goto(a)
    BY <1>9 DEF Compare
  <2>2. UNCHANGED <<busy, slot, asked, sh, wq>> /\ q.item = "verify" /\ result' \in Final
    BY <1>9 DEF Compare, readerVars, EngineInv, Places, Final
  <2>3. q'.item = q.item /\ q'.at = a
    BY <2>1 DEF Goto, EngineInv, TypeInv
  <2>4. Places'
    BY <2>2, <2>3 DEF Places
  <2>5. Results'
    BY <2>2, <2>3 DEF Results
  <2> QED BY <2>1, <2>2, <2>4, <2>5, GotoInv DEF QAts
<1>10. CASE QSessionEnd
  <2>1. moved /\ q.item # "none" /\ \E a \in {"clear", "finish"} : Goto(a)
    BY <1>1, <1>10 DEF QSessionEnd, readerVars
  <2>2. q.item = "verify" => result \in Final
    BY <1>10 DEF QSessionEnd, EngineInv, Results
  <2> QED BY <2>1, <2>2, MoveInv DEF QAts
<1> QED BY <1>4, <1>5, <1>6, <1>7, <1>8, <1>9, <1>10

\* The start of a check may take the receive loop out of the queue.
LEMMA PrepareInv == EngineInv /\ VerifyPrepare => EngineInv'
<1> SUFFICES ASSUME EngineInv, VerifyPrepare PROVE EngineInv'
  OBVIOUS
<1> USE DEF EngineInv
<1>1. q.item = "verify" /\ UNCHANGED <<busy, slot, asked, sh, result>> /\ \E a \in {"once", "fail"} : Goto(a)
  BY DEF VerifyPrepare, Places
<1>2. wq' = Unqueued("recv") \/ wq' = wq
  BY DEF VerifyPrepare
<1>3. wq' \in Seq(Items) /\ Unique' /\ \A y \in Flagged : Queued(y)' <=> Queued(y)
  <2>1. CASE wq' = wq
    BY <2>1, SameQueue DEF TypeInv
  <2>2. CASE wq' = Unqueued("recv")
    <3>1. "recv" \in Items /\ "recv" \notin Flagged
      BY DEF Items, Flagged
    <3> QED BY <2>2, <3>1, UnqueuedFacts DEF TypeInv
  <2> QED BY <1>2, <2>1, <2>2
<1>4. q' \in [item : Items \cup {"none"}, at : QAts] /\ q'.item = q.item /\ q'.at \in {"once", "fail"}
  BY <1>1 DEF Goto, TypeInv, QAts
<1>5. TypeInv'
  BY <1>1, <1>3, <1>4 DEF TypeInv
<1>6. RunsOnce' /\ BusyIsWork'
  BY <1>1, <1>3, <1>4 DEF RunsOnce, BusyIsWork
<1>7. Places' /\ Results'
  BY <1>1, <1>4 DEF Places, Results
<1>8. ReadIsAlone' /\ NameKept'
  BY <1>1 DEF ReadIsAlone, NameKept
<1> QED BY <1>5, <1>6, <1>7, <1>8

\* The end of a handler: the flag goes with the item that is neither running nor queued.
LEMMA FinishInv == EngineInv /\ Finish => EngineInv'
<1> SUFFICES ASSUME EngineInv, Finish PROVE EngineInv'
  OBVIOUS
<1> USE DEF EngineInv
<1>1. q.at = "finish" /\ q' = Idle /\ busy' = [x \in Flagged |-> busy[x] /\ x # q.item]
      /\ UNCHANGED <<slot, asked, sh, result>>
  BY DEF Finish, BusyCleared, readerVars
<1>2. wq' = Submitted("discover") \/ wq' = wq
  BY DEF Finish
<1>3. wq' \in Seq(Items) /\ Unique' /\ \A y \in Flagged : Queued(y)' <=> Queued(y)
  <2>1. CASE wq' = wq
    BY <2>1, SameQueue DEF TypeInv
  <2>2. CASE wq' = Submitted("discover")
    <3>1. "discover" \in Items /\ "discover" \notin Flagged
      BY DEF Items, Flagged
    <3> QED BY <2>2, <3>1, SubmittedFacts DEF TypeInv
  <2> QED BY <1>2, <2>1, <2>2
<1>4. busy' \in [Flagged -> BOOLEAN] /\ \A x \in Flagged : busy'[x] <=> busy[x] /\ x # q.item
  BY <1>1 DEF TypeInv
<1>5. TypeInv'
  BY <1>1, <1>3, <1>4 DEF TypeInv, Idle, QAts
<1>6. RunsOnce' /\ BusyIsWork'
  <2>1. q'.item = "none" /\ "none" \notin Flagged
    BY <1>1 DEF Idle, Flagged
  <2> QED BY <1>3, <1>4, <2>1 DEF RunsOnce, BusyIsWork
<1>7. Places'
  BY <1>1 DEF Places, Idle
<1>8. Results'
  <2>1. q.item = "verify" => result \in Final
    BY <1>1 DEF Results
  <2> QED BY <1>1, <1>4, <2>1 DEF Results, Idle, Flagged
<1>9. ReadIsAlone' /\ NameKept'
  BY <1>1, <1>4 DEF ReadIsAlone, NameKept, Flagged, Named
<1> QED BY <1>5, <1>6, <1>7, <1>8, <1>9

\* The receive loop ends.
LEMMA RecvInv == EngineInv /\ (RecvEnds \/ RecvError) => EngineInv'
<1> SUFFICES ASSUME EngineInv, RecvEnds \/ RecvError PROVE EngineInv'
  OBVIOUS
<1> USE DEF EngineInv
<1>1. q.item = "recv" /\ q' = Idle /\ UNCHANGED <<busy, slot, asked, sh, result, wq>>
  BY DEF RecvEnds, RecvError, readerVars, Places
<1>2. (Unique' <=> Unique) /\ \A y : Queued(y)' <=> Queued(y)
  BY <1>1, SameQueue
<1>3. TypeInv'
  BY <1>1, <1>2 DEF TypeInv, Idle, QAts
<1>4. RunsOnce' /\ BusyIsWork'
  BY <1>1, <1>2 DEF RunsOnce, BusyIsWork, Idle, Flagged
<1>5. Places' /\ Results'
  BY <1>1 DEF Places, Results, Idle
<1>6. ReadIsAlone' /\ NameKept'
  BY <1>1 DEF ReadIsAlone, NameKept
<1> QED BY <1>3, <1>4, <1>5, <1>6

\* A *_start function on the shell thread: an accepted call finds its item neither queued
\* nor running.
LEMMA StartInv ==
    ASSUME EngineInv, NEW x \in Flagged, NEW s \in Slots \cup {"none"}, Start(x, s), UNCHANGED q,
           sh' \in [at : ShAts, cmd : Cmds, slot : Slots \cup {"none"}],
           sh'.at # "verdict",
           sh'.at = "wait" /\ sh'.cmd \in {"verify", "loop_verify"} => x = "verify" /\ Accepts(x)
    PROVE  EngineInv'
<1> USE DEF EngineInv
<1>1. CASE ~Accepts(x)
  <2>1. UNCHANGED <<busy, slot, asked, result, wq>>
    BY <1>1 DEF Start
  <2>2. (Unique' <=> Unique) /\ \A y : Queued(y)' <=> Queued(y)
    BY <2>1, SameQueue
  <2>3. TypeInv' /\ Places' /\ ReadIsAlone' /\ NameKept'
    BY <2>1, <2>2 DEF TypeInv, Places, ReadIsAlone, NameKept
  <2>4. RunsOnce' /\ BusyIsWork'
    BY <2>1, <2>2 DEF RunsOnce, BusyIsWork
  <2>5. Results'
    BY <1>1, <2>1 DEF Results
  <2> QED BY <2>3, <2>4, <2>5
<1>2. CASE Accepts(x)
  <2>1. /\ busy' = [busy EXCEPT ![x] = TRUE] /\ wq' = Submitted(x)
        /\ slot' = IF x \in Named THEN [slot EXCEPT ![x] = s] ELSE slot
        /\ asked' = IF x \in Named THEN [asked EXCEPT ![x] = s] ELSE asked
        /\ result' = IF x = "verify" THEN "EINPROGRESS" ELSE result
    BY <1>2 DEF Start
  <2>2. x \in Items /\ x # "none"
    BY DEF Items, Flagged
  <2>3. wq' \in Seq(Items) /\ Unique' /\ \A y : Queued(y)' <=> Queued(y) \/ y = x
    BY <2>1, <2>2, SubmittedFacts DEF TypeInv
  <2>4. ~busy[x] /\ (x = "read" => ~busy["scan"] /\ ~busy["clone"]) /\ (x \in {"scan", "clone"} => ~busy["read"])
    BY <1>2 DEF Accepts, Tests, Flagged
  <2>5. busy' \in [Flagged -> BOOLEAN] /\ \A y \in Flagged : busy'[y] = IF y = x THEN TRUE ELSE busy[y]
    BY <2>1 DEF TypeInv
  <2>6. TypeInv'
    BY <2>1, <2>3, <2>5 DEF TypeInv
  <2>7. q.item # x
    BY <2>4 DEF BusyIsWork
  <2>8. RunsOnce' /\ BusyIsWork'
    BY <2>3, <2>5, <2>7 DEF RunsOnce, BusyIsWork
  <2>9. Places'
    BY DEF Places
  <2>10. Results'
    BY <2>1, <2>5, <2>7 DEF Results
  <2>11. ReadIsAlone'
    BY <2>4, <2>5 DEF ReadIsAlone, Flagged
  <2>12. NameKept'
    BY <2>1, <2>5 DEF NameKept, TypeInv, Named, Flagged
  <2> QED BY <2>6, <2>8, <2>9, <2>10, <2>11, <2>12
<1> QED BY <1>1, <1>2

\* Any other step of the shell thread: of the queue it touches at most the receive loop
\* and the discovery.
LEMMA ShellStepInv ==
    ASSUME EngineInv, UNCHANGED <<busy, slot, asked, q, result>>,
           sh' \in [at : ShAts, cmd : Cmds, slot : Slots \cup {"none"}],
           sh'.at = "verdict" => result \in Final,
           sh'.at # "wait",
           \/ wq' = wq
           \/ \E x \in {"recv", "discover"} : wq' = Submitted(x) \/ wq' = Unqueued(x)
    PROVE  EngineInv'
<1> USE DEF EngineInv
<1>1. wq' \in Seq(Items) /\ Unique' /\ \A y \in Flagged : Queued(y)' <=> Queued(y)
  <2>1. CASE wq' = wq
    BY <2>1, SameQueue DEF TypeInv
  <2>2. ASSUME NEW x \in {"recv", "discover"}, wq' = Submitted(x) \/ wq' = Unqueued(x)
        PROVE  wq' \in Seq(Items) /\ Unique' /\ \A y \in Flagged : Queued(y)' <=> Queued(y)
    <3>1. x \in Items /\ x \notin Flagged
      BY <2>2 DEF Items, Flagged
    <3>2. CASE wq' = Submitted(x)
      BY <3>1, <3>2, SubmittedFacts DEF TypeInv
    <3>3. CASE wq' = Unqueued(x)
      BY <3>1, <3>3, UnqueuedFacts DEF TypeInv
    <3> QED BY <2>2, <3>2, <3>3
  <2> QED BY <2>1, <2>2
<1>2. TypeInv' /\ Places' /\ Results'
  BY <1>1 DEF TypeInv, Places, Results
<1>3. RunsOnce' /\ BusyIsWork'
  BY <1>1 DEF RunsOnce, BusyIsWork
<1>4. ReadIsAlone' /\ NameKept'
  BY DEF ReadIsAlone, NameKept
<1> QED BY <1>2, <1>3, <1>4

\* A command begins.
LEMMA CommandsInv == EngineInv /\ Commands => EngineInv'
<1> SUFFICES ASSUME EngineInv, Commands PROVE EngineInv'
  OBVIOUS
<1>1. ASSUME NEW s \in Slots, NEW x \in Flagged, CmdStart(x, s) PROVE EngineInv'
  <2>1. Start(x, s) /\ UNCHANGED q
    BY <1>1 DEF CmdStart, queueVars
  <2>2. sh' = [at |-> IF Accepts(x) /\ x \in {"read", "verify"} THEN "wait" ELSE "idle", cmd |-> x, slot |-> s]
    BY <1>1 DEF CmdStart, Command
  <2>3. sh' \in [at : ShAts, cmd : Cmds, slot : Slots \cup {"none"}] /\ sh'.at # "verdict"
    BY <2>2 DEF ShAts, Cmds
  <2>4. sh'.at = "wait" /\ sh'.cmd \in {"verify", "loop_verify"} => x = "verify" /\ Accepts(x)
    BY <2>2 DEF Flagged
  <2> QED BY <2>1, <2>3, <2>4, StartInv
<1>2. ASSUME NEW s \in Slots, CmdLoop(s) PROVE EngineInv'
  <2>1. Start("read", s) /\ UNCHANGED q /\ "read" \in Flagged
    BY <1>2 DEF CmdLoop, queueVars, Flagged
  <2>2. sh' = [at |-> IF Accepts("read") THEN "wait" ELSE "idle", cmd |-> "loop", slot |-> s]
    BY <1>2 DEF CmdLoop, Command
  <2>3. sh' \in [at : ShAts, cmd : Cmds, slot : Slots \cup {"none"}] /\ sh'.at # "verdict" /\ sh'.cmd = "loop"
    BY <2>2 DEF ShAts, Cmds
  <2> QED BY <2>1, <2>3, StartInv
<1>3. ASSUME NEW s \in Slots \cup {"none"}, NEW c \in Cmds, NEW a \in {"idle", "end", "listen", "stop"}, Command(c, s, a),
             UNCHANGED <<busy, slot, asked, q, result>>, wq' = wq \/ wq' = Submitted("discover")
      PROVE  EngineInv'
  <2>1. sh' = [at |-> a, cmd |-> c, slot |-> s]
    BY <1>3 DEF Command
  <2>2. sh' \in [at : ShAts, cmd : Cmds, slot : Slots \cup {"none"}] /\ sh'.at \notin {"wait", "verdict"}
    BY <2>1 DEF ShAts
  <2> QED BY <1>3, <2>2, ShellStepInv
<1>4. ASSUME NEW s \in Slots, CmdEmulate(s) PROVE EngineInv'
  BY <1>3, <1>4 DEF CmdEmulate, queueVars, Cmds
<1>5. CASE CmdDiscoverStart
  BY <1>3, <1>5 DEF CmdDiscoverStart, queueVars, Cmds
<1>6. CASE CmdDiscoverStop
  BY <1>3, <1>6 DEF CmdDiscoverStop, queueVars, Cmds
<1>7. CASE CmdStack("stack_start", "listen") \/ CmdStack("stack_stop", "stop")
  BY <1>3, <1>7 DEF CmdStack, queueVars, Cmds
<1> QED BY <1>1, <1>2, <1>4, <1>5, <1>6, <1>7 DEF Commands

\* A command goes on.
LEMMA ShellInv == EngineInv /\ Shell => EngineInv'
<1> SUFFICES ASSUME EngineInv, Shell PROVE EngineInv'
  OBVIOUS
<1>1. ASSUME NEW a \in ShAts \ {"wait"}, At(a), UNCHANGED <<busy, slot, asked, q, result>>,
             a = "verdict" => result \in Final,
             wq' = wq \/ wq' = Submitted("recv") \/ wq' = Unqueued("recv")
      PROVE  EngineInv'
  <2>1. sh' \in [at : ShAts, cmd : Cmds, slot : Slots \cup {"none"}] /\ sh'.at = a
    BY <1>1 DEF At, EngineInv, TypeInv
  <2> QED BY <1>1, <2>1, ShellStepInv
<1>2. CASE ShSessionEnd
  <2>1. UNCHANGED <<busy, slot, asked, q, result, wq>> /\ \E a \in {"end_stop", "end_clear", "idle", "load"} : At(a)
    BY <1>2 DEF ShSessionEnd, shellVars, AfterEnd
  <2> QED BY <1>1, <2>1 DEF ShAts
<1>3. CASE ShWait
  <2>1. UNCHANGED <<busy, slot, asked, q, result, wq>>
    BY <1>3 DEF ShWait, shellVars
  <2>2. PICK a \in {"idle", "verdict", "loop_end"} : At(a) /\ (a = "verdict" => ~busy["verify"] /\ sh.cmd \in {"verify", "loop_verify"})
    BY <1>3 DEF ShWait
  <2>3. a = "verdict" => result \in Final
    BY <1>3, <2>2 DEF ShWait, EngineInv, Results
  <2> QED BY <1>1, <2>1, <2>2, <2>3 DEF ShAts
<1>4. CASE ShVerdict \/ ShLoopEmulate \/ ShLoad
  <2>1. UNCHANGED <<busy, slot, asked, q, result, wq>> /\ \E a \in {"idle", "end", "listen"} : At(a)
    BY <1>4 DEF ShVerdict, ShLoopEmulate, ShLoad, shellVars
  <2> QED BY <1>1, <2>1 DEF ShAts
<1>5. CASE ShListen \/ ShListenSet
  <2>1. UNCHANGED <<busy, slot, asked, q, result>> /\ (wq' = wq \/ wq' = Submitted("recv"))
    BY <1>5 DEF ShListen, ShListenSet, shellVars
  <2>2. \E a \in {"idle", "loop_verify", "listen_set", "listen_session"} : At(a)
    BY <1>5 DEF ShListen, ShListenSet, AfterListen
  <2> QED BY <1>1, <2>1, <2>2 DEF ShAts
<1>6. CASE ShLoopVerify
  <2>1. Start("verify", sh.slot) /\ UNCHANGED q /\ "verify" \in Flagged /\ sh.slot \in Slots \cup {"none"}
    BY <1>6 DEF ShLoopVerify, Flagged, EngineInv, TypeInv
  <2>2. sh' = [sh EXCEPT !.cmd = "loop_verify", !.at = IF Accepts("verify") THEN "wait" ELSE "idle"]
    BY <1>6 DEF ShLoopVerify
  <2>3. /\ sh' \in [at : ShAts, cmd : Cmds, slot : Slots \cup {"none"}]
        /\ sh'.at = IF Accepts("verify") THEN "wait" ELSE "idle"
    BY <2>2 DEF EngineInv, TypeInv, ShAts, Cmds
  <2> QED BY <2>1, <2>3, StartInv
<1>7. CASE ShStop \/ ShStopped
  <2>1. UNCHANGED <<busy, slot, asked, q, result>> /\ (wq' = wq \/ wq' = Unqueued("recv"))
    BY <1>7 DEF ShStop, ShStopped, shellVars
  <2>2. \E a \in {"idle", "stopping"} : At(a)
    BY <1>7 DEF ShStop, ShStopped
  <2> QED BY <1>1, <2>1, <2>2 DEF ShAts
<1> QED BY <1>2, <1>3, <1>4, <1>5, <1>6, <1>7 DEF Shell

\* Stuttering.
LEMMA StutterInv == EngineInv /\ UNCHANGED vars => EngineInv'
<1> SUFFICES ASSUME EngineInv, UNCHANGED vars PROVE EngineInv'
  OBVIOUS
<1>1. (Unique' <=> Unique) /\ \A y : Queued(y)' <=> Queued(y)
  BY SameQueue DEF vars
<1>2. TypeInv' /\ Places' /\ Results' /\ ReadIsAlone' /\ NameKept'
  BY <1>1 DEF EngineInv, TypeInv, Places, Results, ReadIsAlone, NameKept, vars
<1>3. RunsOnce' /\ BusyIsWork'
  BY <1>1 DEF EngineInv, RunsOnce, BusyIsWork, vars
<1> QED BY <1>2, <1>3 DEF EngineInv

-----------------------------------------------------------------------------
(* The session of the controller, on two threads                            *)

\* Where the shell thread is in the middle of a change of the session
Touching == {"end_stop", "end_clear", "listen_set", "listen_session", "stopping"}

\* While a change is in progress, what the two threads have tested still holds: unless
\* the shell thread went into pending work, it changes the session only when there is
\* none, so that one thread at a time is between its test and its assignment.
Roles ==
    /\ sh.at \in Touching => ~Pending
    /\ q.at = "init" => tstate = "STOPPED"
    /\ q.at = "start" => tsess = "NONE"
    /\ q.at \in {"wait", "waiting"} => tsess = "POLL" /\ ~active
    /\ q.at = "clear" \/ sh.at = "end_clear" => tsess # "POLL"
    /\ q.at \in {"wait", "waiting", "clear"} \/ sh.at = "end_clear" \/ (tsess = "POLL" <=> active)
    /\ sh.at \in {"listen_set", "listen_session"} => tsess = "NONE" /\ stack = "STARTED"
    /\ sh.at = "stopping" => tsess = "LISTEN"
    /\ stack = "ERROR" \/ sh.at \in {"listen_set", "listen_session"} \/ (stack = "STARTED" <=> tsess = "LISTEN")

RolesInv ==
    /\ q.item = "recv" => q.at = "recv"
    /\ tstate = "STOPPED" => tsess = "NONE"
    /\ ~raced => Roles

\* Whether the reader has work depends on the loop's flag, the item that runs and what is
\* queued besides the receive loop.
LEMMA SamePending ==
    ASSUME UNCHANGED <<run, q>>, \A y \in Items \ {"recv"} : Queued(y)' <=> Queued(y)
    PROVE  Pending' <=> Pending
BY DEF Pending

\* The engine begins in no role.
LEMMA RolesInit == Init => RolesInv
BY DEF Init, RolesInv, Roles, Idle, Touching

\* A handler other than the receive loop is pending work: the shell thread is not in the
\* middle of a change.
LEMMA HandlerPending ==
    ASSUME EngineInv, RolesInv, q.at \notin {"idle", "recv"}
    PROVE  /\ q.item \in Items \ {"recv"} /\ Pending
           /\ ~raced => sh.at \notin Touching
<1>1. q.item \in Items \ {"recv"}
  BY DEF EngineInv, TypeInv, Places, Idle, RolesInv
<1> QED BY <1>1 DEF Pending, RolesInv, Roles

\* A step of a handler changes the session only between its own test and its own end.
LEMMA HandlerRoles ==
    EngineInv /\ RolesInv
        /\ (DiscoverCheck \/ VerifyPrepare \/ Once \/ DiscoverStart \/ DiscoverWait \/ PollersRun \/ WalkDone \/ Compare
            \/ QSessionEnd)
        => RolesInv'
<1> SUFFICES ASSUME EngineInv, RolesInv,
                    \/ DiscoverCheck \/ VerifyPrepare \/ Once \/ DiscoverStart \/ DiscoverWait \/ PollersRun \/ WalkDone
                    \/ Compare \/ QSessionEnd
             PROVE  RolesInv'
  OBVIOUS
<1>1. q.at \notin {"idle", "recv"}
  BY DEF DiscoverCheck, VerifyPrepare, Once, DiscoverStart, DiscoverWait, PollersRun, WalkDone, Compare, QSessionEnd
<1>2. q.item \in Items \ {"recv"} /\ (~raced => sh.at \notin Touching)
  BY <1>1, HandlerPending
<1>3. UNCHANGED <<sh, raced>>
  BY DEF DiscoverCheck, VerifyPrepare, Once, DiscoverStart, DiscoverWait, PollersRun, WalkDone, Compare, QSessionEnd,
         readerVars
<1>4. \A a : Goto(a) => q'.item = q.item /\ q'.at = a
  BY DEF Goto, EngineInv, TypeInv
<1>5. Failed \in {"fail", "finish"} /\ Found \in {"finish", "run", "compare", "end"}
  BY DEF Failed, Found
<1> USE <1>2, <1>3, <1>4 DEF RolesInv, Roles, Touching
<1>6. CASE DiscoverCheck
  BY <1>6 DEF DiscoverCheck, transport, readerVars
<1>7. CASE VerifyPrepare
  BY <1>7 DEF VerifyPrepare, StackStops, ListenStops, transport
<1>8. CASE Once
  BY <1>5, <1>8 DEF Once, transport, readerVars
<1>9. CASE DiscoverStart
  BY <1>5, <1>9 DEF DiscoverStart, transport, readerVars
<1>10. CASE DiscoverWait
  BY <1>5, <1>10 DEF DiscoverWait, WaitFails, DiscoverStop, transport, readerVars
<1>11. CASE PollersRun \/ WalkDone
  BY <1>11 DEF PollersRun, WalkDone, transport, readerVars
<1>12. CASE Compare
  BY <1>12 DEF Compare, transport, readerVars
<1>13. CASE QSessionEnd
  BY <1>13 DEF QSessionEnd, DiscoverStop, transport, readerVars
<1> QED BY <1>6, <1>7, <1>8, <1>9, <1>10, <1>11, <1>12, <1>13

\* The queue thread between handlers, and the receive loop.
LEMMA QueueRoles == EngineInv /\ RolesInv /\ (Take \/ Finish \/ RecvEnds \/ RecvError) => RolesInv'
<1> SUFFICES ASSUME EngineInv, RolesInv, Take \/ Finish \/ RecvEnds \/ RecvError PROVE RolesInv'
  OBVIOUS
<1>1. UNCHANGED <<sh, raced, active, tsess, tstate, stack, run>>
  BY DEF Take, Finish, RecvEnds, RecvError, transport, readerVars
<1>2. CASE Take
  <2>1. wq' = Tail(wq) /\ wq # <<>> /\ q = Idle /\ q' = [item |-> Head(wq), at |-> Entry[Head(wq)]]
    BY <1>2 DEF Take
  <2>2. Head(wq) \in Items /\ Queued(Head(wq)) /\ \A y : Queued(y)' <=> Queued(y) /\ y # Head(wq)
    BY <2>1, TakenFacts DEF EngineInv, TypeInv
  <2>3. Pending' => Pending
    BY <1>1, <2>1, <2>2 DEF Pending
  <2>4. q'.at \in {"once", "run", "prepare", "check", "recv"} /\ (q'.item = "recv" => q'.at = "recv")
    BY <2>1, <2>2 DEF Entry, Items, Flagged
  <2> QED BY <1>1, <2>1, <2>3, <2>4 DEF RolesInv, Roles, Idle
<1>3. CASE Finish
  <2>1. q.at = "finish" /\ q' = Idle
    BY <1>3 DEF Finish
  <2>2. ~raced => sh.at \notin Touching
    BY <2>1, HandlerPending
  <2> QED BY <1>1, <2>1, <2>2 DEF RolesInv, Roles, Idle
<1>4. CASE RecvEnds \/ RecvError
  <2>1. q.at = "recv" /\ q' = Idle /\ UNCHANGED wq
    BY <1>4 DEF RecvEnds, RecvError
  <2>2. \A y : Queued(y)' <=> Queued(y)
    BY <2>1, SameQueue
  <2>3. Pending' => Pending
    BY <1>1, <2>1, <2>2 DEF Pending, Idle, Items, Flagged
  <2> QED BY <1>1, <2>1, <2>3 DEF RolesInv, Roles, Idle
<1> QED BY <1>2, <1>3, <1>4

\* A command begins: nothing of the session is touched yet.
LEMMA CommandRoles == EngineInv /\ RolesInv /\ Commands => RolesInv'
<1> SUFFICES ASSUME EngineInv, RolesInv, Commands PROVE RolesInv'
  OBVIOUS
<1>1. UNCHANGED <<active, q, stack, tsess, tstate>>
  BY DEF Commands, CmdStart, CmdLoop, CmdEmulate, CmdDiscoverStart, CmdDiscoverStop, CmdStack, queueVars
<1>2. sh.at = "idle" /\ sh'.at \in {"idle", "wait", "end", "listen", "stop"}
  <2>1. ASSUME NEW c, NEW s, NEW a, Command(c, s, a) PROVE sh.at = "idle" /\ sh'.at = a
    BY <2>1 DEF Command
  <2> QED BY <2>1 DEF Commands, CmdStart, CmdLoop, CmdEmulate, CmdDiscoverStart, CmdDiscoverStop, CmdStack
<1>3. ~raced' => ~raced
  BY DEF Commands, CmdStart, CmdLoop, CmdEmulate, CmdDiscoverStart, CmdDiscoverStop, CmdStack
<1> QED BY <1>1, <1>2, <1>3 DEF RolesInv, Roles, Touching

\* A command goes on: a change begins without pending work, and none appears before it ends.
LEMMA ShellRoles == EngineInv /\ RolesInv /\ Shell => RolesInv'
<1> SUFFICES ASSUME EngineInv, RolesInv, Shell PROVE RolesInv'
  OBVIOUS
<1>1. \A a : At(a) => sh'.at = a
  BY DEF At, EngineInv, TypeInv
<1>2. UNCHANGED q
  BY DEF Shell, ShSessionEnd, ShWait, ShVerdict, ShLoopEmulate, ShLoad, ShListen, ShListenSet, ShLoopVerify, ShStop, ShStopped
<1>3. ASSUME UNCHANGED run, wq' = wq \/ wq' = Submitted("recv") \/ wq' = Unqueued("recv") PROVE Pending' <=> Pending
  <2>1. wq \in Seq(Items) /\ Unique /\ "recv" \in Items
    BY DEF EngineInv, TypeInv, Items
  <2>2. \A y \in Items \ {"recv"} : Queued(y)' <=> Queued(y)
    <3>1. CASE wq' = wq
      BY <3>1, SameQueue
    <3>2. CASE wq' = Submitted("recv")
      BY <2>1, <3>2, SubmittedFacts
    <3>3. CASE wq' = Unqueued("recv")
      BY <2>1, <3>3, UnqueuedFacts
    <3> QED BY <1>3, <3>1, <3>2, <3>3
  <2> QED BY <1>2, <1>3, <2>2, SamePending
<1>4. CASE ShSessionEnd
  <2>1. Pending' <=> Pending
    BY <1>3, <1>4 DEF ShSessionEnd, shellVars
  <2>2. (sh.at = "end" /\ sh'.at = "end_stop" => active) /\ UNCHANGED stack /\ (~raced' => ~raced /\ ~(active /\ Pending))
    BY <1>1, <1>4 DEF ShSessionEnd, AfterEnd
  <2>3. ~raced => (q.at \notin {"idle", "recv"} => sh.at \notin Touching)
    BY HandlerPending
  <2> QED BY <1>1, <1>2, <1>4, <2>1, <2>2, <2>3 DEF ShSessionEnd, AfterEnd, DiscoverStop, transport, RolesInv, Roles, Touching
<1>5. CASE ShWait \/ ShVerdict \/ ShLoopEmulate \/ ShLoad
  <2>1. UNCHANGED <<active, tsess, tstate, stack, raced>>
    BY <1>5 DEF ShWait, ShVerdict, ShLoopEmulate, ShLoad, transport
  <2>2. sh.at \notin Touching /\ sh'.at \in {"idle", "verdict", "loop_end", "end", "listen"}
    BY <1>1, <1>5 DEF ShWait, ShVerdict, ShLoopEmulate, ShLoad, Touching
  <2> QED BY <1>2, <2>1, <2>2 DEF RolesInv, Roles, Touching
<1>6. CASE ShListen
  <2>1. Pending' <=> Pending
    BY <1>3, <1>6 DEF ShListen, shellVars
  <2>2. ~raced' => ~raced /\ ~Pending
    BY <1>6 DEF ShListen
  <2> QED BY <1>1, <1>2, <1>6, <2>1, <2>2 DEF ShListen, AfterListen, transport, RolesInv, Roles, Touching
<1>7. CASE ShListenSet
  <2>1. Pending' <=> Pending
    BY <1>3, <1>7 DEF ShListenSet, shellVars
  <2>2. UNCHANGED <<raced, active>>
    BY <1>7 DEF ShListenSet
  <2>3. ~raced => q.at \in {"idle", "recv"}
    BY <1>7, HandlerPending DEF ShListenSet, Touching
  <2> QED BY <1>1, <1>2, <1>7, <2>1, <2>2, <2>3 DEF ShListenSet, AfterListen, transport, RolesInv, Roles, Touching
<1>8. CASE ShLoopVerify
  <2>1. UNCHANGED <<active, tsess, tstate, stack, raced>>
    BY <1>8 DEF ShLoopVerify, transport
  <2>2. sh.at = "loop_verify" /\ sh'.at \in {"idle", "wait"}
    BY <1>8 DEF ShLoopVerify, EngineInv, TypeInv
  <2> QED BY <1>2, <2>1, <2>2 DEF RolesInv, Roles, Touching
<1>9. CASE ShStop
  <2>1. Pending' <=> Pending
    BY <1>3, <1>9 DEF ShStop, shellVars
  <2>2. ~raced' => ~raced /\ ~Pending
    BY <1>9 DEF ShStop
  <2> QED BY <1>1, <1>2, <1>9, <2>1, <2>2 DEF ShStop, transport, RolesInv, Roles, Touching
<1>10. CASE ShStopped
  <2>1. Pending' <=> Pending
    BY <1>3, <1>10 DEF ShStopped, shellVars
  <2>2. ~raced => q.at \in {"idle", "recv"}
    BY <1>10, HandlerPending DEF ShStopped, Touching
  <2> QED BY <1>1, <1>2, <1>10, <2>1, <2>2 DEF ShStopped, StackStops, ListenStops, RolesInv, Roles, Touching
<1> QED BY <1>4, <1>5, <1>6, <1>7, <1>8, <1>9, <1>10 DEF Shell

\* A step of something else keeps the roles.
LEMMA StutterRoles == RolesInv /\ UNCHANGED vars => RolesInv'
<1> SUFFICES ASSUME RolesInv, UNCHANGED vars PROVE RolesInv'
  OBVIOUS
<1>1. Pending' <=> Pending
  <2>1. UNCHANGED <<run, q, wq>>
    BY DEF vars
  <2> QED BY <2>1, SameQueue, SamePending
<1> QED BY <1>1 DEF RolesInv, Roles, vars

-----------------------------------------------------------------------------
(* What holds for any slots and any number of commands                      *)

\* The invariant holds in every reachable state.
LEMMA EngineSafe == Spec => []EngineInv
<1>1. EngineInv /\ [Next]_vars => EngineInv'
  BY TakeInv, HandlerInv, PrepareInv, FinishInv, RecvInv, CommandsInv, ShellInv, StutterInv DEF Next, Handler
<1> QED BY InitInv, <1>1, PTL DEF Spec

\* A busy flag is up exactly while its item is queued or runs: no call is refused for
\* ever, and none initialises an item the queue still holds.
THEOREM ReaderSafety == Spec => []BusyIsWork
<1>1. EngineInv => BusyIsWork
  BY DEF EngineInv
<1> QED BY EngineSafe, <1>1, PTL

\* A read shares the queue neither with a scan nor with a clone (the flags that
\* nfc_reader_scan_start, nfc_reader_read_start and nfc_reader_clone_start test).
THEOREM ReadSafety == Spec => []ReadIsAlone
<1>1. EngineInv => ReadIsAlone
  BY DEF EngineInv
<1> QED BY EngineSafe, <1>1, PTL

\* What is read, cloned or checked goes by the name the accepted call gave.
THEOREM NameSafety == Spec => []NameKept
<1>1. EngineInv => NameKept
  BY DEF EngineInv
<1> QED BY EngineSafe, <1>1, PTL

\* nfc_applet_verify_last_result has a result when nfc_applet_verify_wait returned 0.
THEOREM VerdictSafety == Spec => []VerdictIsIn
<1>1. EngineInv => VerdictIsIn
  BY DEF EngineInv, Results, VerdictIsIn, Final
<1> QED BY EngineSafe, <1>1, PTL

\* The invariant about the roles holds in every reachable state.
LEMMA RolesSafe == Spec => []RolesInv
<1>1. EngineInv /\ RolesInv /\ [Next]_vars => RolesInv'
  BY HandlerRoles, QueueRoles, CommandRoles, ShellRoles, StutterRoles DEF Next, Handler
<1> QED BY EngineSafe, RolesInit, <1>1, PTL DEF Spec

\* At rest the controller polls exactly when there is a session, unless the shell thread
\* interfered with pending work: whoever ends the session stops the polling, and a
\* discovery that fails leaves neither.
THEOREM OrphanSafety == Spec => []NoOrphan
<1>1. RolesInv => NoOrphan
  BY DEF RolesInv, Roles, NoOrphan, Quiet, Idle
<1> QED BY RolesSafe, <1>1, PTL

\* At rest a started stack listens and only a started stack does, unless the shell thread
\* interfered with pending work: start and discovery never both pass their test of the
\* session before one of them sets it.
THEOREM RoleSafety == Spec => []OneRole
<1>1. RolesInv => OneRole
  BY DEF RolesInv, Roles, OneRole, Quiet, Idle
<1> QED BY RolesSafe, <1>1, PTL
=============================================================================
