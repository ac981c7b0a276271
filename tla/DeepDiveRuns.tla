---------------------------- MODULE DeepDiveRuns -----------------------------
(***************************************************************************)
(* The deep-dive start page (app/deepdive_ui): POST /api/runs handlers on  *)
(* an event loop, RunManager.start in worker threads, one watcher thread   *)
(* per started CLI process, the processes themselves, the run records on   *)
(* disk, the preflight tokens in memory, and restarts of the service.      *)
(*                                                                         *)
(* A RunRecord object belongs to the one Popen it was made for, so it is  *)
(* indexed by the process.  Reads that change nothing (GET routes) are     *)
(* not actions.  What is read off the log of a run (dossier path, whether  *)
(* it was published) and the link made of it are left out.                 *)
(***************************************************************************)
EXTENDS Naturals, FiniteSets

CONSTANTS
  RunIds,                 \* run ids _new_run_id can produce
  Procs,                  \* CLI processes (one per successful Popen)
  Handlers,               \* concurrent POST /api/runs requests
  Tokens,                 \* preflight tokens (random, never issued twice)
  Keys,                   \* normalized (ticker, peers) pairs
  KeyOf,                  \* KeyOf[t]: the pair token t is bound to
  NeedsAck,               \* tokens whose preflight said "quant only"
  None,
  ChildrenDieWithService, \* TRUE under systemd, FALSE for a killed local UI
  MaxFaults,              \* bound: failed writes and thread starts
  MaxRestarts             \* bound: crashes of the service process

VARIABLES
  phase,     \* "starting" while RunManager.__init__ runs, then "serving"
  lock,      \* the handler whose worker thread holds RunManager._lock
  current,   \* the process whose record is RunManager._current
  json,      \* disk: status field of <run_id>.json, "none" if absent
  child,     \* the operating system's view of every process
  rec,       \* RunRecord objects in memory
  watch,     \* watcher threads
  token,     \* PreflightTokens._tokens
  pc, body,  \* POST handlers: where they are, the body they carry
  work,      \* the process a handler's start() has spawned
  view,      \* the 201 answer a handler is rendering (fields of _record_view)
  starts,    \* history: successful starts per token
  faults, restarts

vars == <<phase, lock, current, json, child, rec, watch, token, pc, body,
          work, view, starts, faults, restarts>>

Bodies == [tok : Tokens, key : Keys, ack : BOOLEAN]

Exits == {"zero", "nonzero"}

\* exit_text speaks of an exit code; "no_code" is the text for none ("kein Exit-Code").
Texts == Exits \cup {"unset", "no_code"}

Records == [run : RunIds, body : Bodies, exit : Exits \cup {"unset"}, text : Texts,
            status : {"running", "ok", "failed"}]

Views == [exit : Exits \cup {"unset"}, status : {"running", "ok", "failed"}, text : Texts]

ASSUME ConstantsOK ==
  /\ None \notin Procs \cup Handlers \cup Bodies \cup Records \cup Views
  /\ KeyOf \in [Tokens -> Keys]
  /\ NeedsAck \subseteq Tokens
  /\ ChildrenDieWithService \in BOOLEAN
  /\ MaxFaults \in Nat
  /\ MaxRestarts \in Nat

TypeOK ==
  /\ phase \in {"starting", "serving"}
  /\ lock \in Handlers \cup {None}
  /\ current \in Procs \cup {None}
  /\ json \in [RunIds -> {"none", "running", "ok", "failed"}]
  /\ child \in [Procs -> {"unborn", "alive"} \cup Exits]
  /\ rec \in [Procs -> Records \cup {None}]
  /\ watch \in [Procs -> {"none", "waiting", "exit", "text", "status", "done", "died"}]
  /\ token \in [Tokens -> {"none", "live", "expired", "gone"}]
  /\ pc \in [Handlers -> {"idle", "admitted", "entered", "spawned", "written",
                          "started", "copying", "copied", "answered"}]
  /\ body \in [Handlers -> Bodies \cup {None}]
  /\ work \in [Handlers -> Procs \cup {None}]
  /\ view \in Views \cup {None}
  /\ starts \in [Tokens -> Nat]
  /\ faults \in Nat
  /\ restarts \in Nat

Init ==
  /\ phase = "starting"
  /\ lock = None
  /\ current = None
  /\ json = [r \in RunIds |-> "none"]
  /\ child = [p \in Procs |-> "unborn"]
  /\ rec = [p \in Procs |-> None]
  /\ watch = [p \in Procs |-> "none"]
  /\ token = [t \in Tokens |-> "none"]
  /\ pc = [h \in Handlers |-> "idle"]
  /\ body = [h \in Handlers |-> None]
  /\ work = [h \in Handlers |-> None]
  /\ view = None
  /\ starts = [t \in Tokens |-> 0]
  /\ faults = 0
  /\ restarts = 0

-----------------------------------------------------------------------------
\* The event loop renders an answer without a pause; worker threads and watchers go on.
Rendering(h) == pc[h] \in {"copying", "copied", "answered"}

LoopIsFree == phase = "serving" /\ \A h \in Handlers : ~Rendering(h)

(* Preflight tokens.                                                       *)

\* A preflight that can start issues a token and purges the expired ones.
Issue(t) ==
  /\ LoopIsFree
  /\ token[t] = "none"
  /\ token' = [u \in Tokens |-> IF u = t THEN "live"
                                ELSE IF token[u] = "expired" THEN "gone"
                                ELSE token[u]]
  /\ UNCHANGED <<phase, lock, current, json, child, rec, watch, pc, body,
                 work, view, starts, faults, restarts>>

\* The time to live of a token runs out.
Expire(t) ==
  /\ token[t] = "live"
  /\ token' = [token EXCEPT ![t] = "expired"]
  /\ UNCHANGED <<phase, lock, current, json, child, rec, watch, pc, body,
                 work, view, starts, faults, restarts>>

\* Mutant: the token is not compared with the peers of the request.
Accepts_AnyPeers(b) == token[b.tok] = "live"

\* PreflightTokens.check.
Accepts(b) == token[b.tok] = "live" /\ KeyOf[b.tok] = b.key

-----------------------------------------------------------------------------
(* POST /api/runs.                                                         *)

Leave(h) ==
  /\ pc' = [pc EXCEPT ![h] = "idle"]
  /\ body' = [body EXCEPT ![h] = None]
  /\ work' = [work EXCEPT ![h] = None]

\* Event loop: token check and quant-only acknowledgement, then the await.
Admit(h, b) ==
  /\ LoopIsFree
  /\ pc[h] = "idle"
  /\ Accepts(b)
  /\ b.tok \in NeedsAck => b.ack
  /\ pc' = [pc EXCEPT ![h] = "admitted"]
  /\ body' = [body EXCEPT ![h] = b]
  /\ UNCHANGED <<phase, lock, current, json, child, rec, watch, token, work,
                 view, starts, faults, restarts>>

\* start(): _validate raises DeepDiveError (symbols, rationale), answer 422.
Reject(h) ==
  /\ pc[h] = "admitted"
  /\ Leave(h)
  /\ UNCHANGED <<phase, lock, current, json, child, rec, watch, token, view,
                 starts, faults, restarts>>

\* Mutant: the 409 path consumes the token as well.
Busy_Consumes(h) ==
  /\ pc[h] = "admitted"
  /\ lock = None
  /\ current # None
  /\ token' = [token EXCEPT ![body[h].tok] = "gone"]
  /\ Leave(h)
  /\ UNCHANGED <<phase, lock, current, json, child, rec, watch, view, starts,
                 faults, restarts>>

\* start(): the slot is taken, RunBusyError, answer 409.
Busy(h) ==
  /\ pc[h] = "admitted"
  /\ lock = None
  /\ current # None
  /\ Leave(h)
  /\ UNCHANGED <<phase, lock, current, json, child, rec, watch, token, view,
                 starts, faults, restarts>>

\* Mutant: start() does not look at _current.
Enter_NoBusyCheck(h) ==
  /\ pc[h] = "admitted"
  /\ lock = None
  /\ lock' = h
  /\ pc' = [pc EXCEPT ![h] = "entered"]
  /\ UNCHANGED <<phase, current, json, child, rec, watch, token, body, work,
                 view, starts, faults, restarts>>

\* start(): the slot is free, the lock is taken.
Enter(h) ==
  /\ pc[h] = "admitted"
  /\ lock = None
  /\ current = None
  /\ lock' = h
  /\ pc' = [pc EXCEPT ![h] = "entered"]
  /\ UNCHANGED <<phase, current, json, child, rec, watch, token, body, work,
                 view, starts, faults, restarts>>

FreshRecord(r, b) ==
  [run |-> r, body |-> b, exit |-> "unset", text |-> "unset", status |-> "running"]

\* Mutant: _new_run_id does not look for an existing .json.
Spawn_ReusesId(h, p, r) ==
  /\ pc[h] = "entered"
  /\ child[p] = "unborn"
  /\ child' = [child EXCEPT ![p] = "alive"]
  /\ rec' = [rec EXCEPT ![p] = FreshRecord(r, body[h])]
  /\ work' = [work EXCEPT ![h] = p]
  /\ pc' = [pc EXCEPT ![h] = "spawned"]
  /\ UNCHANGED <<phase, lock, current, json, watch, token, body, view, starts,
                 faults, restarts>>

\* A new id is one without a .json; then the CLI is spawned.
Spawn(h, p, r) ==
  /\ pc[h] = "entered"
  /\ child[p] = "unborn"
  /\ json[r] = "none"
  /\ child' = [child EXCEPT ![p] = "alive"]
  /\ rec' = [rec EXCEPT ![p] = FreshRecord(r, body[h])]
  /\ work' = [work EXCEPT ![h] = p]
  /\ pc' = [pc EXCEPT ![h] = "spawned"]
  /\ UNCHANGED <<phase, lock, current, json, watch, token, body, view, starts,
                 faults, restarts>>

\* Opening the log or Popen fails: the lock is released, nothing remains.
SpawnFails(h) ==
  /\ pc[h] = "entered"
  /\ lock' = None
  /\ Leave(h)
  /\ UNCHANGED <<phase, current, json, child, rec, watch, token, view, starts,
                 faults, restarts>>

WriteRunning(h) ==
  /\ pc[h] = "spawned"
  /\ json' = [json EXCEPT ![rec[work[h]].run] = rec[work[h]].status]
  /\ pc' = [pc EXCEPT ![h] = "written"]
  /\ UNCHANGED <<phase, lock, current, child, rec, watch, token, body, work,
                 view, starts, faults, restarts>>

\* The write raises: start() leaves, the process it spawned goes on.
WriteRunningFails(h) ==
  /\ pc[h] = "spawned"
  /\ faults < MaxFaults
  /\ faults' = faults + 1
  /\ lock' = None
  /\ Leave(h)
  /\ UNCHANGED <<phase, current, json, child, rec, watch, token, view, starts,
                 restarts>>

\* The slot is taken, the watcher thread starts, the lock is released.
Launch(h) ==
  /\ pc[h] = "written"
  /\ current' = work[h]
  /\ watch' = [watch EXCEPT ![work[h]] = "waiting"]
  /\ lock' = None
  /\ starts' = [starts EXCEPT ![body[h].tok] = @ + 1]
  /\ pc' = [pc EXCEPT ![h] = "started"]
  /\ UNCHANGED <<phase, json, child, rec, token, body, work, view, faults,
                 restarts>>

\* No thread can be started: start() raises with the slot already taken.
LaunchFails(h) ==
  /\ pc[h] = "written"
  /\ faults < MaxFaults
  /\ faults' = faults + 1
  /\ current' = work[h]
  /\ lock' = None
  /\ Leave(h)
  /\ UNCHANGED <<phase, json, child, rec, watch, token, view, starts, restarts>>

\* Event loop again: consume the token, then render the live record.  asdict copies it
\* field by field, without the lock, the exit code before the status.
Respond(h) ==
  /\ LoopIsFree
  /\ pc[h] = "started"
  /\ token' = [token EXCEPT ![body[h].tok] = "gone"]
  /\ view' = [exit |-> rec[work[h]].exit, status |-> "running", text |-> "unset"]
  /\ pc' = [pc EXCEPT ![h] = "copying"]
  /\ UNCHANGED <<phase, lock, current, json, child, rec, watch, body, work, starts,
                 faults, restarts>>

CopyStatus(h) ==
  /\ pc[h] = "copying"
  /\ view' = [view EXCEPT !.status = rec[work[h]].status]
  /\ pc' = [pc EXCEPT ![h] = "copied"]
  /\ UNCHANGED <<phase, lock, current, json, child, rec, watch, token, body, work,
                 starts, faults, restarts>>

\* exit_code_text.
TextOf(e) == IF e = "unset" THEN "no_code" ELSE e

\* Mutant: the text is made of the copy instead of the record.
ReadText_OfCopy(h) ==
  /\ pc[h] = "copied"
  /\ view' = [view EXCEPT !.text = IF view.status = "running" THEN "unset"
                                   ELSE TextOf(view.exit)]
  /\ pc' = [pc EXCEPT ![h] = "answered"]
  /\ UNCHANGED <<phase, lock, current, json, child, rec, watch, token, body, work,
                 starts, faults, restarts>>

\* The text is read off the live record: exit_text, or that of the exit code once the
\* status is there.  Three reads, of which the last that counts decides: one step.
ReadText(h) ==
  LET r == rec[work[h]]
  IN  /\ pc[h] = "copied"
      /\ view' = [view EXCEPT !.text = IF r.text # "unset" \/ r.status = "running"
                                       THEN r.text ELSE TextOf(r.exit)]
      /\ pc' = [pc EXCEPT ![h] = "answered"]
      /\ UNCHANGED <<phase, lock, current, json, child, rec, watch, token, body, work,
                     starts, faults, restarts>>

\* The answer leaves.
Send(h) ==
  /\ pc[h] = "answered"
  /\ view' = None
  /\ Leave(h)
  /\ UNCHANGED <<phase, lock, current, json, child, rec, watch, token, starts, faults,
                 restarts>>

-----------------------------------------------------------------------------
(* The CLI process and its watcher thread.                                 *)

ChildExits(p, e) ==
  /\ child[p] = "alive"
  /\ child' = [child EXCEPT ![p] = e]
  /\ UNCHANGED <<phase, lock, current, json, rec, watch, token, pc, body, work,
                 view, starts, faults, restarts>>

\* proc.wait() returns; the record is changed outside the lock, field by field.
WatchExit(p) ==
  /\ watch[p] = "waiting"
  /\ child[p] \in Exits
  /\ rec' = [rec EXCEPT ![p].exit = child[p]]
  /\ watch' = [watch EXCEPT ![p] = "exit"]
  /\ UNCHANGED <<phase, lock, current, json, child, token, pc, body, work,
                 view, starts, faults, restarts>>

WatchText(p) ==
  /\ watch[p] = "exit"
  /\ rec' = [rec EXCEPT ![p].text = TextOf(rec[p].exit)]
  /\ watch' = [watch EXCEPT ![p] = "text"]
  /\ UNCHANGED <<phase, lock, current, json, child, token, pc, body, work,
                 view, starts, faults, restarts>>

\* Mutant: the exit code itself becomes the status.
WatchStatus_CopiesExit(p) ==
  /\ watch[p] = "text"
  /\ rec' = [rec EXCEPT ![p].status = rec[p].exit]
  /\ watch' = [watch EXCEPT ![p] = "status"]
  /\ UNCHANGED <<phase, lock, current, json, child, token, pc, body, work,
                 view, starts, faults, restarts>>

\* The outcome follows from the exit code alone.
WatchStatus(p) ==
  /\ watch[p] = "text"
  /\ rec' = [rec EXCEPT ![p].status = IF rec[p].exit = "zero" THEN "ok"
                                      ELSE "failed"]
  /\ watch' = [watch EXCEPT ![p] = "status"]
  /\ UNCHANGED <<phase, lock, current, json, child, token, pc, body, work,
                 view, starts, faults, restarts>>

\* Under the lock: write the record, free the slot.
WatchPersist(p) ==
  /\ watch[p] = "status"
  /\ lock = None
  /\ json' = [json EXCEPT ![rec[p].run] = rec[p].status]
  /\ current' = None
  /\ watch' = [watch EXCEPT ![p] = "done"]
  /\ UNCHANGED <<phase, lock, child, rec, token, pc, body, work, view, starts,
                 faults, restarts>>

\* The write raises in the watcher thread: the slot is never freed.
WatchPersistFails(p) ==
  /\ watch[p] = "status"
  /\ lock = None
  /\ faults < MaxFaults
  /\ faults' = faults + 1
  /\ watch' = [watch EXCEPT ![p] = "died"]
  /\ UNCHANGED <<phase, lock, current, json, child, rec, token, pc, body, work,
                 view, starts, restarts>>

-----------------------------------------------------------------------------
(* Service restart.                                                        *)

\* The service process dies; all that is in memory is lost.
Crash ==
  /\ restarts < MaxRestarts
  /\ restarts' = restarts + 1
  /\ phase' = "starting"
  /\ lock' = None
  /\ current' = None
  /\ child' = [p \in Procs |-> IF ChildrenDieWithService /\ child[p] = "alive"
                               THEN "nonzero" ELSE child[p]]
  /\ watch' = [p \in Procs |-> "none"]
  /\ token' = [t \in Tokens |-> IF token[t] = "none" THEN "none" ELSE "gone"]
  /\ pc' = [h \in Handlers |-> "idle"]
  /\ body' = [h \in Handlers |-> None]
  /\ work' = [h \in Handlers |-> None]
  /\ view' = None
  /\ UNCHANGED <<json, rec, starts, faults>>

\* _mark_orphans_failed, one file after the other.
MarkOrphan(r) ==
  /\ phase = "starting"
  /\ json[r] = "running"
  /\ json' = [json EXCEPT ![r] = "failed"]
  /\ UNCHANGED <<phase, lock, current, child, rec, watch, token, pc, body,
                 work, view, starts, faults, restarts>>

\* Mutant: the service serves without having swept the orphans.
Serve_WithoutSweep ==
  /\ phase = "starting"
  /\ phase' = "serving"
  /\ UNCHANGED <<lock, current, json, child, rec, watch, token, pc, body, work,
                 view, starts, faults, restarts>>

Serve ==
  /\ phase = "starting"
  /\ \A r \in RunIds : json[r] # "running"
  /\ phase' = "serving"
  /\ UNCHANGED <<lock, current, json, child, rec, watch, token, pc, body, work,
                 view, starts, faults, restarts>>

-----------------------------------------------------------------------------
\* What a worker thread does between taking and releasing the lock.
LockedStep(h) ==
  \/ \E p \in Procs, r \in RunIds : Spawn(h, p, r)
  \/ SpawnFails(h)
  \/ WriteRunning(h)
  \/ WriteRunningFails(h)
  \/ Launch(h)
  \/ LaunchFails(h)

StartStep(h) ==
  \/ \E b \in Bodies : Admit(h, b)
  \/ Reject(h)
  \/ Busy(h)
  \/ Enter(h)
  \/ LockedStep(h)
  \/ Respond(h) \/ CopyStatus(h) \/ ReadText(h) \/ Send(h)

WatchStep(p) ==
  \/ WatchExit(p) \/ WatchText(p) \/ WatchStatus(p)
  \/ WatchPersist(p)
  \/ WatchPersistFails(p)

Next ==
  \/ \E t \in Tokens : Issue(t) \/ Expire(t)
  \/ \E h \in Handlers : StartStep(h)
  \/ \E p \in Procs : WatchStep(p)
  \/ \E p \in Procs, e \in Exits : ChildExits(p, e)
  \/ Crash
  \/ \E r \in RunIds : MarkOrphan(r)
  \/ Serve

Spec == Init /\ [][Next]_vars

(***************************************************************************)
(* Fairness: threads that can run do run, a starting service goes on, and  *)
(* the CLI process ends.  The last is an assumption about the services it  *)
(* calls: its EDGAR, OpenFIGI and GitHub calls have timeouts and bounded   *)
(* retries, its Gemini client sets no timeout.  No request ever has to     *)
(* come, and nothing forces a crash or a fault.                            *)
(***************************************************************************)
FairSpec ==
  /\ Spec
  /\ \A h \in Handlers : WF_vars(LockedStep(h))
  /\ \A p \in Procs : WF_vars(WatchStep(p))
  /\ \A p \in Procs : WF_vars(\E e \in Exits : ChildExits(p, e))
  /\ \A r \in RunIds : WF_vars(MarkOrphan(r))
  /\ WF_vars(Serve)

-----------------------------------------------------------------------------
(* Properties.                                                             *)

\* A process of this service that start() still handles or a watcher awaits.
Tracked(p) ==
  \/ watch[p] # "none"
  \/ \E h \in Handlers : pc[h] \in {"spawned", "written"} /\ work[h] = p

\* "One run at a time", as far as the lock and _current can give it: a living
\* process the service still tracks is the one in the slot, or it is being
\* started by the thread that holds the lock while the slot is empty.
TrackedProcessHoldsSlot ==
  \A p \in Procs : child[p] = "alive" /\ Tracked(p) =>
    \/ current = p
    \/ /\ current = None
       /\ lock # None
       /\ work[lock] = p

\* "One run at a time" (the module docstring): no two CLI processes live at once.
OneRunAtATime ==
  \A p, q \in Procs : child[p] = "alive" /\ child[q] = "alive" => p = q

BeingStarted(r) == lock # None /\ pc[lock] = "written" /\ rec[work[lock]].run = r

InSlot(r) == current # None /\ rec[current].run = r

\* The run in the slot has no watcher that will settle it: the write of the watcher has
\* failed, or its thread could not be started.
SlotIsDead == current # None /\ watch[current] \in {"none", "died"}

\* What the history of a serving process shows as running is being started, or it is the
\* run in the slot; and somebody will settle that one, unless a write or the start of a
\* thread has failed: then the slot is dead, every further start is refused, and the
\* file says "running" until the service is started again.
RunningFileIsWatched ==
  /\ phase = "serving" =>
       \A r \in RunIds : json[r] = "running" => BeingStarted(r) \/ InSlot(r)
  /\ SlotIsDead => faults > 0

\* Through that and through a restart: what is announced as running is settled, or it is
\* in a dead slot, which only a restart empties.
RunsAreSettled ==
  \A r \in RunIds :
    json[r] = "running" ~> json[r] # "running" \/ (SlotIsDead /\ InSlot(r))

\* The history says "ok" only of a run whose own process ended with exit 0.
OkIsExitZero ==
  \A r \in RunIds : json[r] = "ok" =>
    \E p \in Procs : rec[p] # None /\ rec[p].run = r /\ child[p] = "zero"

OutcomeOf(e) == IF e = "zero" THEN "ok" ELSE "failed"

\* The 201 answer renders a record that its watcher is changing.  It may be older than the
\* process, and its exit code older than its status; but what it shows is of the process,
\* and an outcome comes with the text that explains it.
AnswerIsOfItsProcess ==
  \A h \in Handlers : pc[h] = "answered" =>
    LET e == child[work[h]] IN
      /\ view.exit \in {e, "unset"}
      /\ view.text \in {e, "unset"}
      /\ view.status # "running" => view.status = OutcomeOf(e) /\ view.text = e

\* An outcome the user is shown, in the history or in the answer to a start, is that of
\* the process, although the watcher sets and the answer reads the record field by field
\* without the lock.
OutcomeIsTrue == OkIsExitZero /\ AnswerIsOfItsProcess

\* No process is started but on an issued token, for the ticker and the peers
\* that preflight approved, and with the acknowledgement it asked for.
StartedWasPreflighted ==
  \A p \in Procs : rec[p] # None =>
    LET b == rec[p].body IN
      /\ token[b.tok] # "none"
      /\ KeyOf[b.tok] = b.key
      /\ b.tok \in NeedsAck => b.ack

\* "Consumed only by a successful start": a busy slot, a rejected request or a
\* failed spawn leaves the user the token.
TokenKeptUntilStart ==
  [][\A t \in Tokens :
       token[t] = "live" /\ token'[t] = "gone" /\ phase' = "serving"
         => starts[t] > 0]_vars

\* "single-use" (PreflightTokens docstring): one token, one run.
TokenSingleUse == \A t \in Tokens : starts[t] <= 1

\* The files implement the run history, whatever crashes and fails.
Ledger == INSTANCE RunLedger WITH ledger <- json
LedgerSafe == Ledger!Spec
=============================================================================
