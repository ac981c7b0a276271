------------------------- MODULE DeepDiveRuns_proofs -------------------------
(***************************************************************************)
(* Proofs about DeepDiveRuns for every number of handlers, processes, run  *)
(* ids and tokens, every bound on faults and restarts, and both kinds of   *)
(* deployment.  The inductive invariant IInv says who owns what: a thread  *)
(* inside start() owns the lock and an empty slot, a watcher owns the      *)
(* slot, and the file of the run in the slot is the only "running" one.    *)
(***************************************************************************)
EXTENDS DeepDiveRuns, TLAPS

Locked == {"entered", "spawned", "written"}

\* A body that passed PreflightTokens.check and the acknowledgement check.
Preflighted(b) ==
  /\ token[b.tok] # "none"
  /\ KeyOf[b.tok] = b.key
  /\ b.tok \in NeedsAck => b.ack

HandlerOK(h) ==
    /\ pc[h] \in Locked <=> lock = h
    /\ pc[h] # "idle" => phase = "serving" /\ body[h] \in Bodies /\ Preflighted(body[h])
    /\ pc[h] \in Locked => current = None
    /\ pc[h] \in {"spawned", "written", "started"} \/ Rendering(h) =>
         work[h] \in Procs /\ rec[work[h]] \in Records
    /\ pc[h] \in {"spawned", "written"} =>
         /\ watch[work[h]] = "none"
         /\ rec[work[h]].exit = "unset"
         /\ rec[work[h]].text = "unset"
         /\ rec[work[h]].status = "running"
    /\ pc[h] = "spawned" => json[rec[work[h]].run] = "none"
    /\ pc[h] = "written" => json[rec[work[h]].run] = "running"
    /\ pc[h] = "started" => starts[body[h].tok] > 0

HandlerInv == \A h \in Handlers : HandlerOK(h)

WatchOK(p) ==
    /\ child[p] = "unborn" <=> rec[p] = None
    /\ watch[p] # "none" => rec[p] \in Records /\ phase = "serving"
    /\ watch[p] \in {"waiting", "exit", "text", "status", "died"} => current = p
    /\ watch[p] = "waiting" => rec[p].exit = "unset"
    /\ watch[p] \in {"waiting", "exit"} => rec[p].text = "unset"
    /\ watch[p] \in {"waiting", "exit", "text"} => rec[p].status = "running"
    /\ watch[p] \in {"exit", "text", "status", "done", "died"} => child[p] \in Exits
    /\ watch[p] \in {"exit", "text", "status", "died"} => rec[p].exit = child[p]
    /\ watch[p] \in {"text", "status", "died"} => rec[p].text = child[p]
    /\ watch[p] \in {"status", "died"} => rec[p].status = OutcomeOf(child[p])

WatchInv == \A p \in Procs : WatchOK(p)

RecordOK(p) ==
  rec[p] \in Records =>
    /\ Preflighted(rec[p].body)
    /\ rec[p].exit \in {"unset", child[p]}
    /\ rec[p].text \in {"unset", rec[p].exit}
    /\ rec[p].status # "running" =>
         rec[p].text # "unset" /\ rec[p].status = OutcomeOf(rec[p].exit)

RecordInv == \A p \in Procs : RecordOK(p)

\* What has been read of a record stays true of it: an answer is only ever older.
AnswerOK(h) ==
  Rendering(h) =>
    /\ view \in Views
    /\ view.exit \in {"unset", rec[work[h]].exit}
    /\ view.status # "running" => view.status = rec[work[h]].status
    /\ pc[h] = "answered" =>
         /\ view.text \in {"unset", rec[work[h]].text}
         /\ view.status # "running" => view.text # "unset"
    /\ \A g \in Handlers : Rendering(g) => g = h

AnswerInv == \A h \in Handlers : AnswerOK(h)

SlotInv ==
  /\ current # None => /\ rec[current] \in Records
                       /\ json[rec[current].run] = "running"
                       /\ phase = "serving"
                       /\ lock = None
  /\ lock # None => phase = "serving"

IInv ==
  /\ TypeOK
  /\ HandlerInv
  /\ WatchInv
  /\ RecordInv
  /\ SlotInv
  /\ AnswerInv
  /\ RunningFileIsWatched
  /\ OkIsExitZero
-----------------------------------------------------------------------------
\* The service starts with nothing owned by anybody.
LEMMA InitIInv == Init => IInv
<1> SUFFICES ASSUME Init PROVE IInv
  OBVIOUS
<1> USE DEF Init
<1>1. TypeOK
  BY DEF TypeOK, Exits
<1>2. HandlerInv /\ AnswerInv
  BY ConstantsOK DEF HandlerInv, HandlerOK, Locked, AnswerInv, AnswerOK, Rendering
<1>3. WatchInv
  BY ConstantsOK DEF WatchInv, WatchOK
<1>4. RecordInv
  BY ConstantsOK DEF RecordInv, RecordOK
<1>5. SlotInv /\ RunningFileIsWatched /\ OkIsExitZero
  BY DEF SlotInv, RunningFileIsWatched, SlotIsDead, OkIsExitZero
<1>6. QED
  BY <1>1, <1>2, <1>3, <1>4, <1>5 DEF IInv

(***************************************************************************)
(* Type correctness, one step per action.                                  *)
(***************************************************************************)
\* Every step of every actor keeps every variable in its type.
LEMMA StepTypeOK ==
  ASSUME IInv, [Next]_vars
  PROVE  TypeOK'
<1> USE ConstantsOK DEF IInv, TypeOK, Exits, Leave, Records, Views, Texts
<1>1. ASSUME NEW t \in Tokens, Issue(t) \/ Expire(t)
      PROVE  TypeOK'
  BY <1>1 DEF Issue, Expire
<1>2. ASSUME NEW h \in Handlers, StartStep(h)
      PROVE  TypeOK'
  <2>1. ASSUME NEW b \in Bodies, Admit(h, b) PROVE TypeOK'
    BY <2>1 DEF Admit
  <2>2. CASE Reject(h) \/ Busy(h) \/ Enter(h)
    BY <2>2 DEF Reject, Busy, Enter
  <2>3. ASSUME NEW p \in Procs, NEW r \in RunIds, Spawn(h, p, r) PROVE TypeOK'
    <3>1. body[h] \in Bodies
      BY <2>3 DEF Spawn, HandlerInv, HandlerOK, Locked
    <3>2. QED
      BY <2>3, <3>1 DEF Spawn, FreshRecord
  <2>4. CASE SpawnFails(h) \/ WriteRunningFails(h) \/ LaunchFails(h)
    BY <2>4 DEF SpawnFails, WriteRunningFails, LaunchFails, HandlerInv, HandlerOK
  <2>5. CASE WriteRunning(h)
    <3>1. work[h] \in Procs /\ rec[work[h]] \in Records
      BY <2>5 DEF WriteRunning, HandlerInv, HandlerOK
    <3>2. QED
      BY <2>5, <3>1 DEF WriteRunning
  <2>6. CASE Launch(h)
    <3>1. work[h] \in Procs /\ body[h] \in Bodies
      BY <2>6 DEF Launch, HandlerInv, HandlerOK
    <3>2. body[h].tok \in Tokens
      BY <3>1 DEF Bodies
    <3>3. QED
      BY <2>6, <3>1, <3>2 DEF Launch
  <2>7. CASE Respond(h) \/ CopyStatus(h) \/ ReadText(h)
    <3>1. work[h] \in Procs /\ rec[work[h]] \in Records
      BY <2>7 DEF Respond, CopyStatus, ReadText, HandlerInv, HandlerOK, Rendering
    <3>2. CASE Respond(h)
      BY <3>1, <3>2 DEF Respond
    <3>3. CASE CopyStatus(h) \/ ReadText(h)
      <4>1. view \in Views
        BY <3>3 DEF CopyStatus, ReadText, AnswerInv, AnswerOK, Rendering
      <4>2. QED
        BY <3>1, <3>3, <4>1 DEF CopyStatus, ReadText, TextOf
    <3>4. QED
      BY <2>7, <3>2, <3>3
  <2>8. CASE Send(h)
    BY <2>8 DEF Send
  <2>9. QED
    BY <1>2, <2>1, <2>2, <2>3, <2>4, <2>5, <2>6, <2>7, <2>8 DEF StartStep, LockedStep
<1>3. ASSUME NEW p \in Procs, WatchStep(p)
      PROVE  TypeOK'
  <2>0. rec[p] \in Records
    BY <1>3 DEF WatchStep, WatchExit, WatchText, WatchStatus, WatchPersist, WatchPersistFails,
       WatchInv, WatchOK
  <2>1. CASE WatchExit(p)
    BY <2>0, <2>1 DEF WatchExit
  <2>2. CASE WatchText(p) \/ WatchStatus(p)
    BY <2>0, <2>2 DEF WatchText, WatchStatus, TextOf
  <2>3. CASE WatchPersist(p) \/ WatchPersistFails(p)
    BY <2>0, <2>3 DEF WatchPersist, WatchPersistFails
  <2>4. QED
    BY <1>3, <2>1, <2>2, <2>3 DEF WatchStep
<1>4. ASSUME NEW p \in Procs, NEW e \in Exits, ChildExits(p, e)
      PROVE  TypeOK'
  BY <1>4 DEF ChildExits
<1>5. CASE Crash
  BY <1>5 DEF Crash
<1>6. ASSUME NEW r \in RunIds, MarkOrphan(r)
      PROVE  TypeOK'
  BY <1>6 DEF MarkOrphan
<1>7. CASE Serve
  BY <1>7 DEF Serve
<1>8. CASE UNCHANGED vars
  BY <1>8 DEF vars
<1>9. QED
  BY <1>1, <1>2, <1>3, <1>4, <1>5, <1>6, <1>7, <1>8 DEF Next

\* What a thread inside start() owns (the lock, the empty slot, its process and
\* its run id) no step of another actor takes away.
LEMMA StepHandlerInv ==
  ASSUME IInv, [Next]_vars
  PROVE  HandlerInv'
<1> SUFFICES ASSUME NEW h \in Handlers PROVE HandlerOK(h)'
  BY DEF HandlerInv
<1> USE ConstantsOK DEF HandlerOK, Preflighted, Locked, Rendering
<1>0. HandlerOK(h) /\ TypeOK
  BY DEF IInv, HandlerInv
<1>1. ASSUME NEW t \in Tokens, Issue(t) \/ Expire(t)
      PROVE  HandlerOK(h)'
  <2>1. \A u \in Tokens : token[u] # "none" => token'[u] # "none"
    BY <1>0, <1>1 DEF Issue, Expire, TypeOK
  <2>2. pc[h] # "idle" => body[h].tok \in Tokens
    BY <1>0 DEF Bodies
  <2>3. QED
    BY <1>0, <1>1, <2>1, <2>2 DEF Issue, Expire
<1>2. ASSUME NEW g \in Handlers, StartStep(g)
      PROVE  HandlerOK(h)'
  <2>0. HandlerOK(g)
    BY DEF IInv, HandlerInv
  <2>1. ASSUME NEW b \in Bodies, Admit(g, b) PROVE HandlerOK(h)'
    BY <1>0, <2>0, <2>1 DEF Admit, LoopIsFree, Accepts, TypeOK
  <2>2. CASE Reject(g) \/ Busy(g)
    BY <1>0, <2>0, <2>2 DEF Reject, Busy, Leave, TypeOK
  <2>3. CASE Enter(g)
    BY <1>0, <2>0, <2>3 DEF Enter, TypeOK
  <2>4. ASSUME NEW p \in Procs, NEW r \in RunIds, Spawn(g, p, r)
        PROVE  HandlerOK(h)'
    <3>1. FreshRecord(r, body[g]) \in Records
      BY <2>0, <2>4 DEF Spawn, FreshRecord, Records, Texts
    <3>2. rec[p] = None /\ watch[p] = "none"
      BY <2>4 DEF Spawn, IInv, WatchInv, WatchOK
    <3>3. CASE h = g
      BY <1>0, <2>4, <3>1, <3>2, <3>3 DEF Spawn, FreshRecord, TypeOK
    <3>4. CASE h # g
      BY <1>0, <2>0, <2>4, <3>2, <3>4 DEF Spawn, TypeOK
    <3>5. QED
      BY <3>3, <3>4
  <2>5. CASE SpawnFails(g) \/ WriteRunningFails(g)
    BY <1>0, <2>0, <2>5 DEF SpawnFails, WriteRunningFails, Leave, TypeOK
  <2>6. CASE WriteRunning(g)
    BY <1>0, <2>0, <2>6 DEF WriteRunning, TypeOK, Records
  <2>7. CASE Launch(g) \/ LaunchFails(g)
    <3>1. \A u \in Tokens : starts[u] > 0 => starts'[u] > 0
      BY <1>0, <2>7 DEF Launch, LaunchFails, TypeOK
    <3>2. body[g].tok \in Tokens
      BY <2>0, <2>7 DEF Launch, LaunchFails, Bodies
    <3>3. pc[h] # "idle" => body[h].tok \in Tokens
      BY <1>0 DEF Bodies
    <3>4. CASE h = g
      BY <1>0, <2>7, <3>1, <3>2, <3>4 DEF Launch, LaunchFails, Leave, TypeOK
    <3>5. CASE h # g
      BY <1>0, <2>0, <2>7, <3>1, <3>3, <3>5 DEF Launch, LaunchFails, Leave, TypeOK
    <3>6. QED
      BY <3>4, <3>5
  <2>8. CASE Respond(g)
    <3>1. body[g].tok \in Tokens
      BY <2>0, <2>8 DEF Respond, Bodies
    <3>2. pc[h] # "idle" => body[h].tok \in Tokens
      BY <1>0 DEF Bodies
    <3>3. QED
      BY <1>0, <2>0, <2>8, <3>1, <3>2 DEF Respond, TypeOK
  <2>9. CASE CopyStatus(g) \/ ReadText(g) \/ Send(g)
    BY <1>0, <2>0, <2>9 DEF CopyStatus, ReadText, Send, Leave, TypeOK
  <2>10. QED
    BY <1>2, <2>1, <2>2, <2>3, <2>4, <2>5, <2>6, <2>7, <2>8, <2>9
       DEF StartStep, LockedStep
<1>3. ASSUME NEW p \in Procs, WatchStep(p)
      PROVE  HandlerOK(h)'
  <2>1. watch[p] # "none" /\ current = p
    BY <1>3 DEF WatchStep, WatchExit, WatchText, WatchStatus, WatchPersist, WatchPersistFails,
       IInv, WatchInv, WatchOK
  <2>2. rec[p] \in Records
    BY <1>3, <2>1 DEF IInv, WatchInv, WatchOK
  <2>3. CASE WatchExit(p) \/ WatchText(p)
    BY <1>0, <2>1, <2>2, <2>3 DEF WatchExit, WatchText, TextOf, TypeOK, Records, Texts
  <2>4. CASE WatchStatus(p)
    BY <1>0, <2>1, <2>2, <2>4 DEF WatchStatus, TypeOK, Records
  <2>5. CASE WatchPersist(p) \/ WatchPersistFails(p)
    BY <1>0, <2>1, <2>2, <2>5 DEF WatchPersist, WatchPersistFails, TypeOK, Records
  <2>6. QED
    BY <1>3, <2>3, <2>4, <2>5 DEF WatchStep
<1>4. ASSUME NEW p \in Procs, NEW e \in Exits, ChildExits(p, e)
      PROVE  HandlerOK(h)'
  BY <1>0, <1>4 DEF ChildExits
<1>5. CASE Crash
  BY <1>0, <1>5 DEF Crash
<1>6. ASSUME NEW r \in RunIds, MarkOrphan(r)
      PROVE  HandlerOK(h)'
  BY <1>0, <1>6 DEF MarkOrphan
<1>7. CASE Serve
  BY <1>0, <1>7 DEF Serve
<1>8. CASE UNCHANGED vars
  BY <1>0, <1>8 DEF vars
<1>9. QED
  BY <1>1, <1>2, <1>3, <1>4, <1>5, <1>6, <1>7, <1>8 DEF Next

\* A watcher keeps the slot and agrees with the process it waited for.
LEMMA StepWatchInv ==
  ASSUME IInv, [Next]_vars
  PROVE  WatchInv'
<1> SUFFICES ASSUME NEW q \in Procs PROVE WatchOK(q)'
  BY DEF WatchInv
<1> USE ConstantsOK DEF WatchOK, Exits
<1>0. WatchOK(q) /\ TypeOK
  BY DEF IInv, WatchInv
<1>1. ASSUME NEW t \in Tokens, Issue(t) \/ Expire(t)
      PROVE  WatchOK(q)'
  BY <1>0, <1>1 DEF Issue, Expire
<1>2. ASSUME NEW g \in Handlers, StartStep(g)
      PROVE  WatchOK(q)'
  <2>0. HandlerOK(g)
    BY DEF IInv, HandlerInv
  <2>1. ASSUME NEW b \in Bodies, Admit(g, b) PROVE WatchOK(q)'
    BY <1>0, <2>1 DEF Admit
  <2>2. CASE Reject(g) \/ Busy(g) \/ Enter(g) \/ SpawnFails(g) \/ WriteRunning(g)
               \/ WriteRunningFails(g) \/ Respond(g) \/ CopyStatus(g) \/ ReadText(g)
               \/ Send(g)
    BY <1>0, <2>2 DEF Reject, Busy, Enter, SpawnFails, WriteRunning,
       WriteRunningFails, Respond, CopyStatus, ReadText, Send
  <2>3. ASSUME NEW p \in Procs, NEW r \in RunIds, Spawn(g, p, r)
        PROVE  WatchOK(q)'
    <3>1. FreshRecord(r, body[g]) \in Records
      BY <2>0, <2>3 DEF Spawn, FreshRecord, Records, Texts, HandlerOK, Locked
    <3>2. QED
      BY <1>0, <2>3, <3>1 DEF Spawn, TypeOK
  <2>4. CASE Launch(g)
    <3>1. rec[work[g]].exit = "unset" /\ rec[work[g]].text = "unset"
      BY <2>0, <2>4 DEF Launch, HandlerOK
    <3>2. QED
      BY <1>0, <2>0, <2>4, <3>1 DEF Launch, TypeOK, HandlerOK, Locked
  <2>5. CASE LaunchFails(g)
    BY <1>0, <2>0, <2>5 DEF LaunchFails, TypeOK, HandlerOK, Locked
  <2>6. QED
    BY <1>2, <2>1, <2>2, <2>3, <2>4, <2>5 DEF StartStep, LockedStep
<1>3. ASSUME NEW p \in Procs, WatchStep(p)
      PROVE  WatchOK(q)'
  <2>0. WatchOK(p)
    BY DEF IInv, WatchInv
  <2>1. CASE WatchExit(p)
    BY <1>0, <2>0, <2>1 DEF WatchExit, TypeOK, Records
  <2>t. CASE WatchText(p)
    BY <1>0, <2>0, <2>t DEF WatchText, TextOf, TypeOK, Records, Texts
  <2>2. CASE WatchStatus(p)
    BY <1>0, <2>0, <2>2 DEF WatchStatus, TypeOK, Records, OutcomeOf
  <2>3. CASE WatchPersist(p) \/ WatchPersistFails(p)
    BY <1>0, <2>0, <2>3 DEF WatchPersist, WatchPersistFails, TypeOK
  <2>4. QED
    BY <1>3, <2>1, <2>t, <2>2, <2>3 DEF WatchStep
<1>4. ASSUME NEW p \in Procs, NEW e \in Exits, ChildExits(p, e)
      PROVE  WatchOK(q)'
  BY <1>0, <1>4 DEF ChildExits, TypeOK
<1>5. CASE Crash
  BY <1>0, <1>5 DEF Crash, TypeOK
<1>6. ASSUME NEW r \in RunIds, MarkOrphan(r)
      PROVE  WatchOK(q)'
  BY <1>0, <1>6 DEF MarkOrphan
<1>7. CASE Serve
  BY <1>0, <1>7 DEF Serve
<1>8. CASE UNCHANGED vars
  BY <1>0, <1>8 DEF vars
<1>9. QED
  BY <1>1, <1>2, <1>3, <1>4, <1>5, <1>6, <1>7, <1>8 DEF Next

\* A record keeps the preflight it was started on, and an outcome keeps the exit
\* code that explains it.
LEMMA StepRecordInv ==
  ASSUME IInv, [Next]_vars
  PROVE  RecordInv'
<1> SUFFICES ASSUME NEW q \in Procs, rec'[q] \in Records PROVE RecordOK(q)'
  BY DEF RecordInv, RecordOK
<1> USE ConstantsOK DEF RecordOK, Preflighted, Exits
<1>0. RecordOK(q) /\ TypeOK
  BY DEF IInv, RecordInv
<1>a. rec[q] \in Records => rec[q].body.tok \in Tokens
  BY DEF Records, Bodies
<1>b. ASSUME \A u \in Tokens : token[u] # "none" => token'[u] # "none",
             rec' = rec, rec[q] \in Records => child'[q] = child[q] \/ child[q] = "alive"
      PROVE  RecordOK(q)'
  <2>1. rec[q] \in Records => rec[q].exit \in Exits \cup {"unset"}
    BY DEF Records
  <2>2. QED
    BY <1>0, <1>a, <1>b, <2>1
<1>1. ASSUME NEW t \in Tokens, Issue(t) \/ Expire(t)
      PROVE  RecordOK(q)'
  BY <1>0, <1>1, <1>b DEF Issue, Expire, TypeOK
<1>2. ASSUME NEW g \in Handlers, StartStep(g)
      PROVE  RecordOK(q)'
  <2>0. HandlerOK(g)
    BY DEF IInv, HandlerInv
  <2>1. ASSUME NEW b \in Bodies, Admit(g, b) PROVE RecordOK(q)'
    BY <1>0, <2>1 DEF Admit
  <2>2. CASE Reject(g) \/ Busy(g) \/ Enter(g) \/ SpawnFails(g) \/ WriteRunning(g)
               \/ WriteRunningFails(g) \/ Launch(g) \/ LaunchFails(g) \/ CopyStatus(g)
               \/ ReadText(g) \/ Send(g)
    BY <1>0, <2>2 DEF Reject, Busy, Enter, SpawnFails, WriteRunning,
       WriteRunningFails, Launch, LaunchFails, CopyStatus, ReadText, Send
  <2>3. ASSUME NEW p \in Procs, NEW r \in RunIds, Spawn(g, p, r)
        PROVE  RecordOK(q)'
    <3>1. body[g] \in Bodies /\ Preflighted(body[g])
      BY <2>0, <2>3 DEF Spawn, HandlerOK
    <3>2. QED
      BY <1>0, <2>3, <3>1 DEF Spawn, FreshRecord, TypeOK
  <2>4. CASE Respond(g)
    <3>1. \A u \in Tokens : token[u] # "none" => token'[u] # "none"
      BY <1>0, <2>4 DEF Respond, TypeOK
    <3>2. QED
      BY <2>4, <3>1, <1>b DEF Respond
  <2>5. QED
    BY <1>2, <2>1, <2>2, <2>3, <2>4 DEF StartStep, LockedStep
<1>3. ASSUME NEW p \in Procs, WatchStep(p)
      PROVE  RecordOK(q)'
  <2>0. WatchOK(p) /\ RecordOK(p)
    BY DEF IInv, WatchInv, RecordInv
  <2>1. CASE WatchExit(p)
    BY <1>0, <2>0, <2>1 DEF WatchExit, TypeOK, Records, WatchOK
  <2>t. CASE WatchText(p)
    BY <1>0, <2>0, <2>t DEF WatchText, TextOf, TypeOK, Records, WatchOK
  <2>2. CASE WatchStatus(p)
    BY <1>0, <2>0, <2>2 DEF WatchStatus, TypeOK, Records, OutcomeOf, WatchOK
  <2>3. CASE WatchPersist(p) \/ WatchPersistFails(p)
    BY <1>0, <2>3 DEF WatchPersist, WatchPersistFails
  <2>4. QED
    BY <1>3, <2>1, <2>t, <2>2, <2>3 DEF WatchStep
<1>4. ASSUME NEW p \in Procs, NEW e \in Exits, ChildExits(p, e)
      PROVE  RecordOK(q)'
  BY <1>4, <1>b DEF ChildExits, TypeOK
<1>5. CASE Crash
  BY <1>0, <1>5, <1>b DEF Crash, TypeOK
<1>6. ASSUME NEW r \in RunIds, MarkOrphan(r)
      PROVE  RecordOK(q)'
  BY <1>0, <1>6 DEF MarkOrphan
<1>7. CASE Serve
  BY <1>0, <1>7 DEF Serve
<1>8. CASE UNCHANGED vars
  BY <1>0, <1>8 DEF vars
<1>9. QED
  BY <1>1, <1>2, <1>3, <1>4, <1>5, <1>6, <1>7, <1>8 DEF Next

(***************************************************************************)
(* The slot, and the files that say "running".                             *)
(***************************************************************************)
FilesInv == SlotInv /\ RunningFileIsWatched

\* Every step keeps the "running" file of the slot, and no other.
LEMMA StepFilesInv ==
  ASSUME IInv, [Next]_vars
  PROVE  FilesInv'
<1> USE ConstantsOK DEF FilesInv, SlotInv, RunningFileIsWatched, BeingStarted, InSlot, SlotIsDead
<1>0. SlotInv /\ RunningFileIsWatched /\ TypeOK
  BY DEF IInv
<1>1. ASSUME NEW t \in Tokens, Issue(t) \/ Expire(t)
      PROVE  FilesInv'
  BY <1>0, <1>1 DEF Issue, Expire
<1>2. ASSUME NEW g \in Handlers, StartStep(g)
      PROVE  FilesInv'
  <2>0. HandlerOK(g)
    BY DEF IInv, HandlerInv
  <2>l. lock # None => HandlerOK(lock) /\ lock \in Handlers
    BY <1>0 DEF IInv, HandlerInv, TypeOK
  <2> USE DEF HandlerOK, Locked
  <2>1. ASSUME NEW b \in Bodies, Admit(g, b) PROVE FilesInv'
    BY <1>0, <2>l, <2>1 DEF Admit, TypeOK
  <2>2. CASE Reject(g) \/ Busy(g)
    BY <1>0, <2>l, <2>2 DEF Reject, Busy, Leave, TypeOK
  <2>3. CASE Enter(g)
    BY <1>0, <2>0, <2>3 DEF Enter, TypeOK
  <2>4. ASSUME NEW p \in Procs, NEW r \in RunIds, Spawn(g, p, r) PROVE FilesInv'
    BY <1>0, <2>0, <2>4 DEF Spawn, TypeOK
  <2>5. CASE SpawnFails(g) \/ WriteRunningFails(g)
    BY <1>0, <2>0, <2>5 DEF SpawnFails, WriteRunningFails, Leave, TypeOK
  <2>6. CASE WriteRunning(g)
    BY <1>0, <2>0, <2>6 DEF WriteRunning, TypeOK, Records
  <2>7. CASE Launch(g) \/ LaunchFails(g)
    BY <1>0, <2>0, <2>7 DEF Launch, LaunchFails, Leave, TypeOK
  <2>8. CASE Respond(g) \/ CopyStatus(g) \/ ReadText(g) \/ Send(g)
    BY <1>0, <2>0, <2>l, <2>8 DEF Respond, CopyStatus, ReadText, Send, Leave, TypeOK
  <2>9. QED
    BY <1>2, <2>1, <2>2, <2>3, <2>4, <2>5, <2>6, <2>7, <2>8
       DEF StartStep, LockedStep
<1>3. ASSUME NEW p \in Procs, WatchStep(p)
      PROVE  FilesInv'
  <2>0. WatchOK(p)
    BY DEF IInv, WatchInv
  <2>1. lock = None /\ current = p /\ rec[p] \in Records
    BY <1>0, <1>3, <2>0 DEF WatchStep, WatchExit, WatchText, WatchStatus, WatchPersist,
       WatchPersistFails, WatchOK
  <2>2. CASE WatchExit(p) \/ WatchText(p)
    BY <1>0, <2>1, <2>2 DEF WatchExit, WatchText, TextOf, TypeOK, Records, Texts
  <2>3. CASE WatchStatus(p)
    BY <1>0, <2>0, <2>1, <2>3 DEF WatchStatus, TypeOK, Records, WatchOK
  <2>4. CASE WatchPersist(p)
    <3>1. rec[p].status # "running"
      BY <2>0, <2>4 DEF WatchPersist, WatchOK, OutcomeOf
    <3>2. QED
      BY <1>0, <2>1, <2>4, <3>1 DEF WatchPersist, TypeOK, Records
  <2>5. CASE WatchPersistFails(p)
    BY <1>0, <2>1, <2>5 DEF WatchPersistFails, TypeOK
  <2>6. QED
    BY <1>3, <2>2, <2>3, <2>4, <2>5 DEF WatchStep
<1>4. ASSUME NEW p \in Procs, NEW e \in Exits, ChildExits(p, e)
      PROVE  FilesInv'
  BY <1>0, <1>4 DEF ChildExits
<1>5. CASE Crash
  BY <1>5 DEF Crash
<1>6. ASSUME NEW r \in RunIds, MarkOrphan(r)
      PROVE  FilesInv'
  BY <1>0, <1>6 DEF MarkOrphan
<1>7. CASE Serve
  BY <1>0, <1>7 DEF Serve
<1>8. CASE UNCHANGED vars
  BY <1>0, <1>8 DEF vars
<1>9. QED
  BY <1>1, <1>2, <1>3, <1>4, <1>5, <1>6, <1>7, <1>8 DEF Next

\* What a step may do to a record that stands: nothing, or the next field of its outcome.
LEMMA RecordsOnlyGrow ==
  ASSUME IInv, [Next]_vars, NEW q \in Procs, rec[q] \in Records
  PROVE  /\ rec'[q] \in Records /\ rec'[q].run = rec[q].run
         /\ rec[q].exit # "unset" => rec'[q].exit = rec[q].exit
         /\ rec[q].text # "unset" => rec'[q].text = rec[q].text
         /\ rec[q].status # "running" => rec'[q].status = rec[q].status
         /\ child[q] # "alive" => child'[q] = child[q]
<1> USE ConstantsOK
<1>0. TypeOK /\ child[q] # "unborn"
  BY DEF IInv, WatchInv, WatchOK
<1>1. ASSUME NEW g \in Handlers, NEW p \in Procs, NEW r \in RunIds, Spawn(g, p, r)
      PROVE  rec'[q] = rec[q] /\ child'[q] = child[q]
  BY <1>0, <1>1 DEF Spawn, TypeOK
<1>2. ASSUME NEW p \in Procs, WatchExit(p) \/ WatchText(p) \/ WatchStatus(p)
      PROVE  /\ child' = child
             /\ rec'[q] \in Records /\ rec'[q].run = rec[q].run
             /\ rec[q].exit # "unset" => rec'[q].exit = rec[q].exit
             /\ rec[q].text # "unset" => rec'[q].text = rec[q].text
             /\ rec[q].status # "running" => rec'[q].status = rec[q].status
  <2>1. WatchOK(p)
    BY DEF IInv, WatchInv
  <2>2. CASE WatchExit(p)
    BY <1>0, <2>1, <2>2 DEF WatchExit, WatchOK, TypeOK, Records
  <2>3. CASE WatchText(p)
    BY <1>0, <2>1, <2>3 DEF WatchText, TextOf, WatchOK, TypeOK, Records, Texts
  <2>4. CASE WatchStatus(p)
    BY <1>0, <2>1, <2>4 DEF WatchStatus, WatchOK, TypeOK, Records
  <2>5. QED
    BY <1>2, <2>2, <2>3, <2>4
<1>3. ASSUME NEW p \in Procs, NEW e \in Exits, ChildExits(p, e)
      PROVE  rec' = rec /\ (child[q] # "alive" => child'[q] = child[q])
  BY <1>0, <1>3 DEF ChildExits, TypeOK
<1>4. CASE Crash
  BY <1>0, <1>4 DEF Crash, TypeOK
<1>5. CASE rec' = rec /\ child' = child
  BY <1>5
<1>6. QED
  BY <1>1, <1>2, <1>3, <1>4, <1>5 DEF Next, vars, StartStep, LockedStep, WatchStep, Issue,
     Expire, Admit, Reject, Busy, Enter, SpawnFails, WriteRunning, WriteRunningFails, Launch,
     LaunchFails, Respond, CopyStatus, ReadText, Send, WatchPersist, WatchPersistFails,
     MarkOrphan, Serve

\* An answer that is being rendered stays true of its record, whatever the watcher sets.
LEMMA StepAnswerInv ==
  ASSUME IInv, [Next]_vars
  PROVE  AnswerInv'
<1> SUFFICES ASSUME NEW h \in Handlers, Rendering(h)' PROVE AnswerOK(h)'
  BY DEF AnswerInv, AnswerOK
<1> USE ConstantsOK
<1> DEFINE p == work[h]
<1>0. TypeOK /\ AnswerInv /\ HandlerOK(h)
  BY DEF IInv, HandlerInv
<1>1. ASSUME view' = view, work'[h] = work[h], pc'[h] = pc[h],
             \A g \in Handlers : Rendering(g)' => Rendering(g)
      PROVE  AnswerOK(h)'
  <2>1. Rendering(h)
    BY <1>1 DEF Rendering
  <2>2. AnswerOK(h) /\ p \in Procs /\ rec[p] \in Records
    BY <1>0, <2>1 DEF AnswerInv, HandlerOK
  <2>3. /\ rec[p].exit # "unset" => rec'[p].exit = rec[p].exit
        /\ rec[p].text # "unset" => rec'[p].text = rec[p].text
        /\ rec[p].status # "running" => rec'[p].status = rec[p].status
    BY <2>2, RecordsOnlyGrow
  <2>4. QED
    BY <1>1, <2>1, <2>2, <2>3 DEF AnswerOK
<1>2. ASSUME NEW g \in Handlers, Respond(g)
      PROVE  AnswerOK(h)'
  <2>1. h = g
    BY <1>0, <1>2 DEF Respond, LoopIsFree, Rendering, TypeOK
  <2>2. p \in Procs /\ rec[p] \in Records
    BY <1>0, <1>2, <2>1 DEF Respond, HandlerOK
  <2>3. view' \in Views /\ view'.exit = rec[p].exit /\ view'.status = "running"
    BY <1>2, <2>1, <2>2 DEF Respond, Views, Records, Texts
  <2>4. pc'[h] = "copying" /\ rec' = rec /\ work' = work
    BY <1>0, <1>2, <2>1 DEF Respond, TypeOK
  <2>5. \A f \in Handlers : Rendering(f)' => f = h
    BY <1>0, <1>2, <2>1 DEF Respond, LoopIsFree, Rendering, TypeOK
  <2>6. QED
    BY <2>3, <2>4, <2>5 DEF AnswerOK
<1>3. ASSUME NEW g \in Handlers, CopyStatus(g) \/ ReadText(g)
      PROVE  AnswerOK(h)'
  <2>1. Rendering(g) /\ rec' = rec /\ work' = work
    BY <1>3 DEF CopyStatus, ReadText, Rendering
  <2>2. Rendering(h) /\ \A f \in Handlers : Rendering(f)' => Rendering(f)
    BY <1>0, <1>3 DEF CopyStatus, ReadText, Rendering, TypeOK
  <2>3. h = g /\ AnswerOK(h)
    BY <1>0, <2>1, <2>2 DEF AnswerInv, AnswerOK
  <2>4. p \in Procs /\ rec[p] \in Records /\ RecordOK(p)
    BY <1>0, <2>2 DEF HandlerOK, IInv, RecordInv
  <2>5. view \in Views /\ \A f \in Handlers : Rendering(f)' => f = h
    BY <2>2, <2>3 DEF AnswerOK
  <2>6. CASE CopyStatus(h)
    <3>1. /\ view'.exit = view.exit /\ view'.status = rec[p].status
          /\ view' \in Views /\ pc'[h] = "copied"
      BY <1>0, <2>4, <2>5, <2>6 DEF CopyStatus, Views, Records, TypeOK
    <3>2. QED
      BY <2>1, <2>2, <2>3, <2>5, <3>1 DEF AnswerOK
  <2>7. CASE ReadText(h)
    <3>1. view.status # "running" => rec[p].text # "unset" /\ view.status = rec[p].status
      BY <2>2, <2>3, <2>4 DEF AnswerOK, RecordOK
    <3>2. rec[p].text = "unset" => rec[p].status = "running"
      BY <2>4 DEF RecordOK
    <3>3. /\ view'.exit = view.exit /\ view'.status = view.status
          /\ view'.text = rec[p].text
          /\ view' \in Views
      BY <2>4, <2>5, <2>7, <3>2 DEF ReadText, Views, Records
    <3>4. QED
      BY <2>1, <2>2, <2>3, <2>5, <3>1, <3>3 DEF AnswerOK
  <2>8. QED
    BY <1>3, <2>3, <2>6, <2>7
<1>4. ASSUME NEW g \in Handlers, Send(g)
      PROVE  AnswerOK(h)'
  <2>1. Rendering(g) /\ Rendering(h) /\ h # g
    BY <1>0, <1>4 DEF Send, Leave, Rendering, TypeOK
  <2>2. QED
    BY <1>0, <2>1 DEF AnswerInv, AnswerOK
<1>5. ASSUME NEW g \in Handlers, StartStep(g)
      PROVE  AnswerOK(h)'
  <2>1. ASSUME NEW b \in Bodies, Admit(g, b) PROVE AnswerOK(h)'
    BY <1>0, <1>1, <2>1 DEF Admit, Rendering, TypeOK
  <2>2. CASE Reject(g) \/ Busy(g) \/ Enter(g)
    BY <1>0, <1>1, <2>2 DEF Reject, Busy, Enter, Leave, Rendering, TypeOK
  <2>3. CASE LockedStep(g)
    BY <1>0, <1>1, <2>3 DEF LockedStep, Spawn, SpawnFails, WriteRunning, WriteRunningFails,
       Launch, LaunchFails, Leave, Rendering, TypeOK
  <2>4. QED
    BY <1>2, <1>3, <1>4, <1>5, <2>1, <2>2, <2>3 DEF StartStep
<1>6. CASE Crash
  BY <1>6 DEF Crash, Rendering
<1>7. CASE view' = view /\ work' = work /\ pc' = pc
  BY <1>1, <1>7 DEF Rendering
<1>8. QED
  BY <1>5, <1>6, <1>7 DEF Next, vars, WatchStep, Issue, Expire, WatchExit, WatchText,
     WatchStatus, WatchPersist, WatchPersistFails, ChildExits, MarkOrphan, Serve

\* No step writes "ok" for a process that failed.
LEMMA StepOkInv ==
  ASSUME IInv, [Next]_vars
  PROVE  OkIsExitZero'
<1> USE ConstantsOK DEF OkIsExitZero
<1>0. OkIsExitZero /\ TypeOK
  BY DEF IInv
\* What a finished process has done stays done.
<1>a. \A p \in Procs : rec[p] # None /\ child[p] = "zero" =>
        rec'[p] # None /\ rec'[p].run = rec[p].run /\ child'[p] = "zero"
  BY <1>0, RecordsOnlyGrow, ConstantsOK DEF TypeOK
<1>b. CASE json' = json
  BY <1>0, <1>a, <1>b
<1>c. ASSUME NEW g \in Handlers, WriteRunning(g)
      PROVE  OkIsExitZero'
  <2>1. work[g] \in Procs /\ rec[work[g]] \in Records /\ rec[work[g]].status = "running"
    BY <1>c DEF WriteRunning, IInv, HandlerInv, HandlerOK
  <2>2. \A r \in RunIds : json'[r] = "ok" => json[r] = "ok"
    BY <1>0, <1>c, <2>1 DEF WriteRunning, TypeOK, Records
  <2>3. QED
    BY <1>0, <1>a, <2>2
<1>d. ASSUME NEW p \in Procs, WatchPersist(p)
      PROVE  OkIsExitZero'
  <2>1. rec[p] \in Records /\ rec[p].status = OutcomeOf(child[p])
    BY <1>d DEF WatchPersist, IInv, WatchInv, WatchOK
  <2>2. rec[p] # None /\ (rec[p].status = "ok" => child[p] = "zero")
    BY <2>1 DEF OutcomeOf
  <2>3. \A r \in RunIds : json'[r] = "ok" =>
          json[r] = "ok" \/ (r = rec[p].run /\ rec[p].status = "ok")
    BY <1>0, <1>d, <2>1 DEF WatchPersist, TypeOK, Records
  <2>4. QED
    BY <1>0, <1>a, <2>2, <2>3
<1>e. ASSUME NEW r \in RunIds, MarkOrphan(r)
      PROVE  OkIsExitZero'
  <2>1. \A q \in RunIds : json'[q] = "ok" => json[q] = "ok"
    BY <1>0, <1>e DEF MarkOrphan, TypeOK
  <2>2. QED
    BY <1>0, <1>a, <2>1
<1>f. QED
  BY <1>b, <1>c, <1>d, <1>e DEF Next, vars, StartStep, LockedStep, WatchStep, Issue,
     Expire, Admit, Reject, Busy, Enter, Spawn, SpawnFails, WriteRunningFails, Launch,
     LaunchFails, Respond, CopyStatus, ReadText, Send, WatchExit, WatchText, WatchStatus,
     WatchPersistFails, ChildExits, Crash, Serve

\* The inductive invariant holds in every state of every behaviour.
THEOREM InvariantHolds == Spec => []IInv
<1>1. IInv /\ [Next]_vars => IInv'
  BY StepTypeOK, StepHandlerInv, StepWatchInv, StepRecordInv, StepAnswerInv,
     StepFilesInv, StepOkInv DEF IInv, FilesInv
<1>2. QED
  BY InitIInv, <1>1, PTL DEF Spec

-----------------------------------------------------------------------------
(* The properties the runs check.                                          *)

\* Every variable keeps its type.
THEOREM TypeCorrect == Spec => []TypeOK
<1>1. IInv => TypeOK
  BY DEF IInv
<1>2. QED
  BY InvariantHolds, <1>1, PTL

\* A process the service tracks is in the slot, or under the lock with the slot
\* empty: the lock and _current never let a second run in beside it.
THEOREM OneTrackedRun == Spec => []TrackedProcessHoldsSlot
<1>1. IInv => TrackedProcessHoldsSlot
  <2> SUFFICES ASSUME IInv, NEW p \in Procs, child[p] = "alive", Tracked(p)
               PROVE  current = p \/ (current = None /\ lock # None /\ work[lock] = p)
    BY DEF TrackedProcessHoldsSlot
  <2>1. CASE watch[p] # "none"
    BY <2>1 DEF IInv, TypeOK, WatchInv, WatchOK, Exits
  <2>2. ASSUME NEW h \in Handlers, pc[h] \in {"spawned", "written"}, work[h] = p
        PROVE  current = None /\ lock # None /\ work[lock] = p
    BY <2>2, ConstantsOK DEF IInv, HandlerInv, HandlerOK, Locked
  <2>3. QED
    BY <2>1, <2>2 DEF Tracked
<1>2. QED
  BY InvariantHolds, <1>1, PTL

\* While the service serves, a file that says "running" is that of the run being started
\* or of the one in the slot, and that one has a watcher at work unless a write or the
\* start of a thread has failed.
THEOREM RunningFilesAreWatched == Spec => []RunningFileIsWatched
<1>1. IInv => RunningFileIsWatched
  BY DEF IInv
<1>2. QED
  BY InvariantHolds, <1>1, PTL

\* A file says "ok" only if the process of that run ended with exit code 0, and the answer
\* to POST /api/runs, read field by field beside the watcher, shows an outcome only with
\* the text that explains it, and nothing that is not of its process.
THEOREM OutcomesAreTrue == Spec => []OutcomeIsTrue
<1>1. IInv => OutcomeIsTrue
  <2> SUFFICES ASSUME IInv, NEW h \in Handlers, pc[h] = "answered"
               PROVE  LET e == child[work[h]] IN
                        /\ view.exit \in {e, "unset"}
                        /\ view.text \in {e, "unset"}
                        /\ view.status # "running" => view.status = OutcomeOf(e) /\ view.text = e
    BY DEF IInv, OutcomeIsTrue, AnswerIsOfItsProcess
  <2>1. HandlerOK(h) /\ AnswerOK(h) /\ Rendering(h)
    BY DEF IInv, HandlerInv, AnswerInv, Rendering
  <2>2. work[h] \in Procs /\ rec[work[h]] \in Records
    BY <2>1 DEF HandlerOK
  <2>3. RecordOK(work[h])
    BY <2>2 DEF IInv, RecordInv
  <2>4. QED
    BY <2>1, <2>2, <2>3 DEF AnswerOK, RecordOK
<1>2. QED
  BY InvariantHolds, <1>1, PTL

\* No process is started past the preflight.
THEOREM NothingStartsUnchecked == Spec => []StartedWasPreflighted
<1>1. IInv => StartedWasPreflighted
  BY DEF IInv, TypeOK, RecordInv, RecordOK, Preflighted, StartedWasPreflighted
<1>2. QED
  BY InvariantHolds, <1>1, PTL
(***************************************************************************)
(* The run records on disk implement RunLedger.                            *)
(***************************************************************************)
\* The history starts empty.
LEMMA LedgerInit == Init => Ledger!Init
BY DEF Init, Ledger!Init

\* Every step announces a run, settles one, or leaves the history alone.
LEMMA LedgerStep ==
  ASSUME IInv, [Next]_vars
  PROVE  [Ledger!Next]_json
<1> USE ConstantsOK
<1>0. TypeOK /\ SlotInv /\ RunningFileIsWatched
  BY DEF IInv
<1>1. ASSUME NEW g \in Handlers, WriteRunning(g)
      PROVE  Ledger!Next
  <2> DEFINE r == rec[work[g]].run
  <2>1. /\ HandlerOK(g)
        /\ work[g] \in Procs
        /\ rec[work[g]] \in Records
        /\ rec[work[g]].status = "running"
        /\ json[r] = "none"
    BY <1>1 DEF WriteRunning, IInv, HandlerInv, HandlerOK
  <2>2. r \in RunIds
    BY <2>1 DEF Records
  <2>3. phase = "serving" /\ current = None /\ lock = g /\ pc[g] = "spawned"
    BY <1>1, <2>1 DEF WriteRunning, HandlerOK, Locked
  <2>4. \A q \in RunIds : json[q] # "running"
    BY <1>0, <2>3 DEF RunningFileIsWatched, BeingStarted, InSlot
  <2>5. json' = [json EXCEPT ![r] = "running"]
    BY <1>1, <2>1 DEF WriteRunning
  <2>6. Ledger!Announce(r)
    BY <2>1, <2>4, <2>5 DEF Ledger!Announce
  <2>7. QED
    BY <2>2, <2>6 DEF Ledger!Next
<1>2. ASSUME NEW p \in Procs, WatchPersist(p)
      PROVE  Ledger!Next
  <2> DEFINE r == rec[p].run
  <2>1. WatchOK(p) /\ watch[p] = "status"
    BY <1>2 DEF WatchPersist, IInv, WatchInv
  <2>2. rec[p] \in Records /\ current = p /\ rec[p].status = OutcomeOf(child[p])
    BY <2>1 DEF WatchOK
  <2>3. r \in RunIds /\ rec[p].status \in Ledger!Outcomes
    BY <2>2 DEF Records, OutcomeOf, Ledger!Outcomes
  <2>4. json[r] = "running"
    BY <1>0, <2>2 DEF SlotInv
  <2>5. Ledger!Settle(r, rec[p].status)
    BY <1>2, <2>4 DEF WatchPersist, Ledger!Settle
  <2>6. QED
    BY <2>3, <2>5 DEF Ledger!Next
<1>3. ASSUME NEW r \in RunIds, MarkOrphan(r)
      PROVE  Ledger!Next
  <2>1. Ledger!Settle(r, "failed")
    BY <1>3 DEF MarkOrphan, Ledger!Settle
  <2>2. QED
    BY <2>1 DEF Ledger!Next, Ledger!Outcomes
<1>4. CASE json' = json
  BY <1>4
<1>5. QED
  BY <1>1, <1>2, <1>3, <1>4 DEF Next, vars, StartStep, LockedStep, WatchStep, Issue,
     Expire, Admit, Reject, Busy, Enter, Spawn, SpawnFails, WriteRunningFails, Launch,
     LaunchFails, Respond, CopyStatus, ReadText, Send, WatchExit, WatchText, WatchStatus,
     WatchPersistFails, ChildExits, Crash, Serve

\* The files implement the run history: each run is announced once, one at a
\* time, and its outcome is final, through every fault and restart.
THEOREM FilesImplementLedger == Spec => LedgerSafe
<1>1. Spec => []IInv
  BY InvariantHolds
<1>2. QED
  BY <1>1, LedgerInit, LedgerStep, PTL DEF Spec, LedgerSafe, Ledger!Spec
(***************************************************************************)
(* The token outlives every answer but that of a successful start.         *)
(***************************************************************************)
\* Only the answer to a successful start, or a restart, takes a live token.
LEMMA StepKeepsToken ==
  ASSUME IInv, [Next]_vars,
         NEW t \in Tokens, token[t] = "live", token'[t] = "gone", phase' = "serving"
  PROVE  starts[t] > 0
<1>0. TypeOK
  BY DEF IInv
<1>1. ASSUME NEW u \in Tokens, Issue(u) \/ Expire(u)
      PROVE  FALSE
  BY <1>0, <1>1 DEF Issue, Expire, TypeOK
<1>2. ASSUME NEW g \in Handlers, Respond(g)
      PROVE  starts[t] > 0
  <2>1. HandlerOK(g) /\ pc[g] = "started"
    BY <1>2 DEF Respond, IInv, HandlerInv
  <2>2. body[g].tok = t
    BY <1>0, <1>2 DEF Respond, TypeOK
  <2>3. QED
    BY <2>1, <2>2 DEF HandlerOK
<1>3. CASE Crash
  BY <1>3 DEF Crash
<1>4. CASE token' = token
  BY <1>4
<1>5. QED
  BY <1>1, <1>2, <1>3, <1>4 DEF Next, vars, StartStep, LockedStep, WatchStep, Admit,
     Reject, Busy, Enter, Spawn, SpawnFails, WriteRunning, WriteRunningFails, Launch,
     LaunchFails, CopyStatus, ReadText, Send, WatchExit, WatchText, WatchStatus, WatchPersist,
     WatchPersistFails, ChildExits, MarkOrphan, Serve

\* A token that an answer takes away has started a run.
THEOREM TokenOutlivesFailures == Spec => TokenKeptUntilStart
<1>1. IInv /\ [Next]_vars =>
        [\A t \in Tokens :
           token[t] = "live" /\ token'[t] = "gone" /\ phase' = "serving"
             => starts[t] > 0]_vars
  BY StepKeepsToken
<1>2. QED
  BY InvariantHolds, <1>1, PTL DEF Spec, TokenKeptUntilStart

(***************************************************************************)
(* Under systemd and with a disk that takes every record, a process that   *)
(* lives is tracked, so the slot keeps every other one out.                *)
(***************************************************************************)
AliveIsTracked == \A p \in Procs : child[p] = "alive" => Tracked(p)

\* With no failed write and children that die with the service, no step loses
\* sight of a living process.
LEMMA StepAliveIsTracked ==
  ASSUME ChildrenDieWithService, MaxFaults = 0,
         IInv, AliveIsTracked, [Next]_vars
  PROVE  AliveIsTracked'
<1> SUFFICES ASSUME NEW q \in Procs, child'[q] = "alive" PROVE Tracked(q)'
  BY DEF AliveIsTracked
<1> USE ConstantsOK
<1>0. TypeOK /\ (child[q] = "alive" => Tracked(q))
  BY DEF IInv, AliveIsTracked
<1>1. ASSUME NEW t \in Tokens, Issue(t) \/ Expire(t)
      PROVE  Tracked(q)'
  BY <1>0, <1>1 DEF Issue, Expire, Tracked
<1>2. ASSUME NEW g \in Handlers, StartStep(g)
      PROVE  Tracked(q)'
  <2>1. ASSUME NEW b \in Bodies, Admit(g, b) PROVE Tracked(q)'
    BY <1>0, <2>1 DEF Admit, Tracked, TypeOK
  <2>2. CASE Reject(g) \/ Busy(g) \/ Enter(g) \/ SpawnFails(g) \/ Respond(g)
               \/ CopyStatus(g) \/ ReadText(g) \/ Send(g)
    BY <1>0, <2>2 DEF Reject, Busy, Enter, SpawnFails, Respond, CopyStatus, ReadText, Send, Leave, Tracked, TypeOK
  <2>3. ASSUME NEW p \in Procs, NEW r \in RunIds, Spawn(g, p, r) PROVE Tracked(q)'
    BY <1>0, <2>3 DEF Spawn, Tracked, TypeOK
  <2>4. CASE WriteRunning(g) \/ Launch(g)
    <3>1. work[g] \in Procs
      BY <2>4 DEF WriteRunning, Launch, IInv, HandlerInv, HandlerOK
    <3>2. QED
      BY <1>0, <2>4, <3>1 DEF WriteRunning, Launch, Tracked, TypeOK
  <2>5. ~WriteRunningFails(g) /\ ~LaunchFails(g)
    BY <1>0 DEF WriteRunningFails, LaunchFails, TypeOK
  <2>6. QED
    BY <1>2, <2>1, <2>2, <2>3, <2>4, <2>5 DEF StartStep, LockedStep
<1>3. ASSUME NEW p \in Procs, WatchStep(p)
      PROVE  Tracked(q)'
  BY <1>0, <1>3 DEF WatchStep, WatchExit, WatchText, WatchStatus, WatchPersist,
     WatchPersistFails, Tracked, TypeOK
<1>4. ASSUME NEW p \in Procs, NEW e \in Exits, ChildExits(p, e)
      PROVE  Tracked(q)'
  BY <1>0, <1>4 DEF ChildExits, Tracked, TypeOK, Exits
<1>5. ~Crash
  BY DEF Crash
<1>6. ASSUME NEW r \in RunIds, MarkOrphan(r)
      PROVE  Tracked(q)'
  BY <1>0, <1>6 DEF MarkOrphan, Tracked
<1>7. CASE Serve
  BY <1>0, <1>7 DEF Serve, Tracked
<1>8. CASE UNCHANGED vars
  BY <1>0, <1>8 DEF vars, Tracked
<1>9. QED
  BY <1>1, <1>2, <1>3, <1>4, <1>5, <1>6, <1>7, <1>8 DEF Next

\* "One run at a time" holds outright where the service unit takes its children
\* with it and no record write or thread start fails.
THEOREM OneRunWithoutFaults ==
  ASSUME ChildrenDieWithService, MaxFaults = 0
  PROVE  Spec => []OneRunAtATime
<1>1. Init => AliveIsTracked
  BY DEF Init, AliveIsTracked
<1>2. IInv /\ AliveIsTracked /\ [Next]_vars => AliveIsTracked'
  BY StepAliveIsTracked
<1>3. TrackedProcessHoldsSlot /\ AliveIsTracked => OneRunAtATime
  BY ConstantsOK DEF TrackedProcessHoldsSlot, AliveIsTracked, OneRunAtATime
<1>4. QED
  BY InvariantHolds, OneTrackedRun, <1>1, <1>2, <1>3, PTL DEF Spec

(***************************************************************************)
(* With requests that come one after the other a token starts one run: the *)
(* start that counts it and the answer that takes it are steps of the one  *)
(* request, and a restart that comes between them takes every token.       *)
(***************************************************************************)
OneHandler == \A g, h \in Handlers : g = h

\* A token that has started a run and still works belongs to the request that is
\* about to answer; a request on its way to a start has a token that started nothing.
TokenInv ==
  /\ TokenSingleUse
  /\ \A t \in Tokens : starts[t] > 0 => token[t] # "none"
  /\ \A t \in Tokens : starts[t] > 0 /\ token[t] = "live" =>
       \E h \in Handlers : pc[h] = "started" /\ body[h].tok = t
  /\ \A h \in Handlers : pc[h] \in {"admitted", "entered", "spawned", "written"} =>
       starts[body[h].tok] = 0

\* Each step of the only request, and every other step, keeps the account of tokens.
LEMMA StepTokenInv ==
  ASSUME OneHandler, IInv, TokenInv, [Next]_vars
  PROVE  TokenInv'
<1> USE ConstantsOK
<1>0. TypeOK /\ HandlerInv
  BY DEF IInv
<1>1. ASSUME NEW t \in Tokens, Issue(t) \/ Expire(t)
      PROVE  TokenInv'
  BY <1>0, <1>1 DEF Issue, Expire, TokenInv, TokenSingleUse, TypeOK
<1>2. ASSUME NEW g \in Handlers, StartStep(g)
      PROVE  TokenInv'
  <2>0. \A h \in Handlers : h = g
    BY DEF OneHandler
  <2>1. ASSUME NEW b \in Bodies, Admit(g, b) PROVE TokenInv'
    <3>1. b.tok \in Tokens /\ starts[b.tok] = 0
      BY <1>0, <2>0, <2>1 DEF Admit, Accepts, TokenInv, TypeOK, Bodies
    <3>2. QED
      BY <1>0, <2>0, <2>1, <3>1 DEF Admit, TokenInv, TokenSingleUse, TypeOK
  <2>2. CASE Reject(g) \/ Busy(g) \/ SpawnFails(g) \/ WriteRunningFails(g) \/ LaunchFails(g)
    BY <1>0, <2>0, <2>2 DEF Reject, Busy, SpawnFails, WriteRunningFails, LaunchFails, Leave,
       TokenInv, TokenSingleUse, TypeOK
  <2>3. CASE Enter(g) \/ WriteRunning(g)
    BY <1>0, <2>0, <2>3 DEF Enter, WriteRunning, TokenInv, TokenSingleUse, TypeOK
  <2>4. ASSUME NEW p \in Procs, NEW r \in RunIds, Spawn(g, p, r) PROVE TokenInv'
    BY <1>0, <2>0, <2>4 DEF Spawn, TokenInv, TokenSingleUse, TypeOK
  <2>5. CASE Launch(g)
    <3>1. body[g] \in Bodies /\ body[g].tok \in Tokens /\ token[body[g].tok] # "none"
      BY <1>0, <2>5 DEF Launch, HandlerInv, HandlerOK, Preflighted, Bodies
    <3>2. starts[body[g].tok] = 0 /\ starts' = [starts EXCEPT ![body[g].tok] = 1]
      <4>1. starts[body[g].tok] = 0
        BY <2>5 DEF Launch, TokenInv
      <4>2. starts' = [starts EXCEPT ![body[g].tok] = starts[body[g].tok] + 1]
        BY <2>5 DEF Launch
      <4>3. QED
        BY <4>1, <4>2
    <3>3. pc' = [pc EXCEPT ![g] = "started"] /\ body' = body /\ token' = token
      BY <2>5 DEF Launch
    <3>4. TokenSingleUse' /\ \A t \in Tokens : starts'[t] > 0 => token'[t] # "none"
      BY <1>0, <3>1, <3>2, <3>3 DEF TokenInv, TokenSingleUse, TypeOK
    <3>5. pc'[g] = "started"
      BY <1>0, <3>3 DEF TypeOK
    <3>6. \A t \in Tokens : starts'[t] > 0 /\ token'[t] = "live" =>
            pc'[g] = "started" /\ body'[g].tok = t
      BY <1>0, <2>0, <2>5, <3>1, <3>2, <3>3, <3>5 DEF Launch, TokenInv, TypeOK
    <3>7. QED
      BY <2>0, <3>4, <3>5, <3>6 DEF TokenInv
  <2>6. CASE Respond(g)
    BY <1>0, <2>0, <2>6 DEF Respond, TokenInv, TokenSingleUse, TypeOK
  <2>7. CASE CopyStatus(g) \/ ReadText(g) \/ Send(g)
    BY <1>0, <2>0, <2>7 DEF CopyStatus, ReadText, Send, Leave, TokenInv, TokenSingleUse, TypeOK
  <2>8. QED
    BY <1>2, <2>1, <2>2, <2>3, <2>4, <2>5, <2>6, <2>7 DEF StartStep, LockedStep
<1>3. ASSUME NEW p \in Procs, WatchStep(p)
      PROVE  TokenInv'
  BY <1>3 DEF WatchStep, WatchExit, WatchText, WatchStatus, WatchPersist, WatchPersistFails,
     TokenInv, TokenSingleUse
<1>4. CASE (\E p \in Procs, e \in Exits : ChildExits(p, e)) \/ Serve
           \/ (\E r \in RunIds : MarkOrphan(r))
  BY <1>4 DEF ChildExits, Serve, MarkOrphan, TokenInv, TokenSingleUse
<1>5. CASE Crash
  BY <1>0, <1>5 DEF Crash, TokenInv, TokenSingleUse, TypeOK
<1>6. CASE UNCHANGED vars
  BY <1>6 DEF vars, TokenInv, TokenSingleUse
<1>7. QED
  BY <1>1, <1>2, <1>3, <1>4, <1>5, <1>6 DEF Next

\* "single-use" (PreflightTokens) is true of requests that do not overlap, whatever
\* fails and however often the service restarts.
THEOREM TokensAreSingleUseInTurn ==
  ASSUME OneHandler
  PROVE  Spec => []TokenSingleUse
<1>1. Init => TokenInv
  BY DEF Init, TokenInv, TokenSingleUse
<1>2. IInv /\ TokenInv /\ [Next]_vars => TokenInv'
  BY StepTokenInv
<1>3. TokenInv => TokenSingleUse
  BY DEF TokenInv
<1>4. QED
  BY InvariantHolds, <1>1, <1>2, <1>3, PTL DEF Spec
=============================================================================
