----------------------------- MODULE MonthlyRun ------------------------------
(***************************************************************************)
(* The monthly screener run end to end (app/screener/monthly.py): the run  *)
(* document in Firestore (RunTracker), the look at the previous run        *)
(* (check_prior_run), the outputs rendered into the container, and their   *)
(* push to the main branch, file by file, each a GET of the blob sha and a *)
(* PUT that names it.  A run may fail at every call and be killed at every *)
(* point (task timeout, SIGTERM by a deployment).                          *)
(*                                                                         *)
(* Runs are numbered in the order of their run_id, the time at which the   *)
(* RunTracker was built.  The screening itself is one step here.           *)
(***************************************************************************)
EXTENDS Naturals

CONSTANTS
  MaxRuns,      \* bound: runs
  MaxMonth,     \* bound: months
  NumFiles,     \* output files of a run, pushed in this order
  MaxAttempts,  \* stop_after_attempt of _GITHUB_RETRY
  Overlap,      \* may a run begin beside another (job and POST /run/monthly)
  MaxFaults     \* bound: failing calls

ASSUME MonthlyConstants ==
  /\ {MaxRuns, MaxMonth, MaxFaults} \subseteq Nat
  /\ {NumFiles, MaxAttempts} \subseteq Nat \ {0}
  /\ Overlap \in BOOLEAN

VARIABLES
  pc,        \* where each run is; "uncorrected": failed, doc not set to aborted
  month,     \* the month a run is for (0 before it begins)
  doc,       \* Firestore: status of the run document, "none" if absent
  warn,      \* what check_prior_run returned, and the run it is about
  next,      \* the file to push next
  sha,       \* the run whose content the last GET saw (0: no file)
  asked,     \* the GET of the current attempt has been answered
  attempt,   \* attempts at the current file
  main,      \* main[m][f]: the run whose file f of month m is on main, 0 if none
  faults

monthlyVars == <<pc, month, doc, warn, next, sha, asked, attempt, main, faults>>

Runs == 1..MaxRuns
Months == 1..MaxMonth
Files == 1..NumFiles

Ended == {"ok", "failed", "uncorrected", "killed"}
Working == {"built", "checked", "screening", "rendering", "pushing", "correcting"}
Active == {r \in Runs : pc[r] \in Working}

Statuses == {"running", "success", "aborted"}
Warnings == [kind : {"unread", "clean", "incomplete", "unchecked"}, of : 0..MaxRuns]

TypeOK ==
  /\ pc \in [Runs -> {"none"} \cup Working \cup Ended]
  /\ month \in [Runs -> 0..MaxMonth]
  /\ doc \in [Runs -> Statuses \cup {"none"}]
  /\ warn \in [Runs -> Warnings]
  /\ next \in [Runs -> Files]
  /\ sha \in [Runs -> 0..MaxRuns]
  /\ asked \in [Runs -> BOOLEAN]
  /\ attempt \in [Runs -> 1..MaxAttempts]
  /\ main \in [Months -> [Files -> 0..MaxRuns]]
  /\ faults \in 0..MaxFaults

MonthlyInit ==
  /\ pc = [r \in Runs |-> "none"]
  /\ month = [r \in Runs |-> 0]
  /\ doc = [r \in Runs |-> "none"]
  /\ warn = [r \in Runs |-> [kind |-> "unread", of |-> 0]]
  /\ next = [r \in Runs |-> 1]
  /\ sha = [r \in Runs |-> 0]
  /\ asked = [r \in Runs |-> FALSE]
  /\ attempt = [r \in Runs |-> 1]
  /\ main = [m \in Months |-> [f \in Files |-> 0]]
  /\ faults = 0

\* A run moves on, or a call it makes fails and it moves elsewhere.
Go(r, from, to) == pc[r] = from /\ pc' = [pc EXCEPT ![r] = to]
Fault == faults < MaxFaults /\ faults' = faults + 1

\* The write of a status: it is made; or it fails, applied all the same or not.
Write(r, status) == doc' = [doc EXCEPT ![r] = status]
WriteFails(r, status) == Fault /\ (Write(r, status) \/ UNCHANGED doc)
-----------------------------------------------------------------------------
\* A scheduled or manual run builds its clients and takes its run_id.
Begin(r, m) ==
  /\ Overlap \/ Active = {}
  /\ \A q \in Runs : q < r => pc[q] # "none" /\ month[q] <= m
  /\ Go(r, "none", "built")
  /\ month' = [month EXCEPT ![r] = m]
  /\ UNCHANGED <<doc, warn, next, sha, asked, attempt, main, faults>>

\* get_latest(order_by="run_id"): q has the newest run document.
IsNewest(q) == doc[q] # "none" /\ \A p \in Runs : p > q => doc[p] = "none"

\* Mutant: "aborted" is not one of the incomplete statuses.
Verdict_AbortedIsClean(status) == IF status = "running" THEN "incomplete" ELSE "clean"

Verdict(status) == IF status = "success" THEN "clean" ELSE "incomplete"

\* check_prior_run, before the own start marker.
CheckPrior(r) ==
  /\ Go(r, "built", "checked")
  /\ \/ /\ \A q \in Runs : doc[q] = "none"
        /\ warn' = [warn EXCEPT ![r] = [kind |-> "clean", of |-> 0]]
     \/ \E q \in Runs :
          /\ IsNewest(q)
          /\ warn' = [warn EXCEPT ![r] = [kind |-> Verdict(doc[q]), of |-> q]]
  /\ UNCHANGED <<month, doc, next, sha, asked, attempt, main, faults>>

\* The read fails: a warning block of its own, the run goes on.
CheckPriorFails(r) ==
  /\ Go(r, "built", "checked")
  /\ Fault
  /\ warn' = [warn EXCEPT ![r] = [kind |-> "unchecked", of |-> 0]]
  /\ UNCHANGED <<month, doc, next, sha, asked, attempt, main>>

\* RunTracker.start.
Start(r) ==
  /\ Go(r, "checked", "screening")
  /\ Write(r, "running")
  /\ UNCHANGED <<month, warn, next, sha, asked, attempt, main, faults>>

\* The start marker fails, outside the try block: the run ends.
StartFails(r) ==
  /\ Go(r, "checked", "failed")
  /\ WriteFails(r, "running")
  /\ UNCHANGED <<month, warn, next, sha, asked, attempt, main>>

\* Screening or scoring raises before finish(): the document stays "running".
ScreenFails(r) ==
  /\ Go(r, "screening", "failed")
  /\ Fault
  /\ UNCHANGED <<month, doc, warn, next, sha, asked, attempt, main>>

\* RunTracker.finish, called by run_screener before anything is rendered.
Finish(r) ==
  /\ Go(r, "screening", "rendering")
  /\ Write(r, "success")
  /\ UNCHANGED <<month, warn, next, sha, asked, attempt, main, faults>>

\* finish() has set _finished when its write fails, so the run is corrected.
FinishFails(r) ==
  /\ Go(r, "screening", "correcting")
  /\ WriteFails(r, "success")
  /\ UNCHANGED <<month, warn, next, sha, asked, attempt, main>>

\* The outputs are rendered and all of them exist.
Render(r) ==
  /\ Go(r, "rendering", "pushing")
  /\ UNCHANGED <<month, doc, warn, next, sha, asked, attempt, main, faults>>

\* Rendering raises, or _push_outputs misses a file: nothing is pushed.
RenderFails(r) ==
  /\ Go(r, "rendering", "correcting")
  /\ Fault
  /\ UNCHANGED <<month, doc, warn, next, sha, asked, attempt, main>>

-----------------------------------------------------------------------------
(* GitHubClientImpl.push_file for the file next[r].                        *)

OnMain(r) == main[month[r]][next[r]]
Put(r) == main' = [main EXCEPT ![month[r]][next[r]] = r]

\* The GET: the sha of what is on main, or none when GitHub does not say 200.
PushGet(r) ==
  /\ Go(r, "pushing", "pushing")
  /\ ~asked[r]
  /\ asked' = [asked EXCEPT ![r] = TRUE]
  /\ \/ sha' = [sha EXCEPT ![r] = OnMain(r)] /\ UNCHANGED faults
     \/ sha' = [sha EXCEPT ![r] = 0] /\ Fault
  /\ UNCHANGED <<month, doc, warn, next, attempt, main>>

\* The PUT is accepted when the sha is still that of the file on main.  After
\* the last file the pipeline returns and the job exits with 0.
PushPut(r) ==
  /\ pc[r] = "pushing"
  /\ asked[r]
  /\ sha[r] = OnMain(r)
  /\ Put(r)
  /\ IF next[r] = NumFiles
     THEN pc' = [pc EXCEPT ![r] = "ok"] /\ UNCHANGED next
     ELSE next' = [next EXCEPT ![r] = @ + 1] /\ UNCHANGED pc
  /\ asked' = [asked EXCEPT ![r] = FALSE]
  /\ attempt' = [attempt EXCEPT ![r] = 1]
  /\ UNCHANGED <<month, doc, warn, sha, faults>>

\* Mutant: the refused file is skipped, the push goes on.
PushRefused_Skips(r) ==
  /\ pc[r] = "pushing"
  /\ asked[r]
  /\ sha[r] # OnMain(r)
  /\ IF next[r] = NumFiles
     THEN pc' = [pc EXCEPT ![r] = "ok"] /\ UNCHANGED next
     ELSE next' = [next EXCEPT ![r] = @ + 1] /\ UNCHANGED pc
  /\ asked' = [asked EXCEPT ![r] = FALSE]
  /\ UNCHANGED <<month, doc, warn, sha, attempt, main, faults>>

\* 409 or 422: HTTPStatusError, not retried.
PushRefused(r) ==
  /\ Go(r, "pushing", "correcting")
  /\ asked[r]
  /\ sha[r] # OnMain(r)
  /\ UNCHANGED <<month, doc, warn, next, sha, asked, attempt, main, faults>>

\* Any other failure: an HTTP status (403, 5xx; the PUT may have been applied) or
\* a body that is not JSON.  Neither is retried.
PushFails(r) ==
  /\ Go(r, "pushing", "correcting")
  /\ Fault
  /\ \/ UNCHANGED main
     \/ asked[r] /\ sha[r] = OnMain(r) /\ Put(r)
  /\ UNCHANGED <<month, doc, warn, next, sha, asked, attempt>>

\* Mutant: only the PUT is repeated, with the sha of the first GET.
PushLost_KeepsSha(r) ==
  /\ pc[r] = "pushing"
  /\ Fault
  /\ \/ UNCHANGED main
     \/ asked[r] /\ sha[r] = OnMain(r) /\ Put(r)
  /\ IF attempt[r] < MaxAttempts
     THEN attempt' = [attempt EXCEPT ![r] = @ + 1] /\ UNCHANGED pc
     ELSE pc' = [pc EXCEPT ![r] = "correcting"] /\ UNCHANGED attempt
  /\ UNCHANGED <<month, doc, warn, next, sha, asked>>

\* A transport error of the GET or of the PUT, which may have been applied: the
\* whole sequence is repeated, at most MaxAttempts times.
PushLost(r) ==
  /\ pc[r] = "pushing"
  /\ Fault
  /\ \/ UNCHANGED main
     \/ asked[r] /\ sha[r] = OnMain(r) /\ Put(r)
  /\ asked' = [asked EXCEPT ![r] = FALSE]
  /\ IF attempt[r] < MaxAttempts
     THEN attempt' = [attempt EXCEPT ![r] = @ + 1] /\ UNCHANGED pc
     ELSE pc' = [pc EXCEPT ![r] = "correcting"] /\ UNCHANGED attempt
  /\ UNCHANGED <<month, doc, warn, next, sha>>

-----------------------------------------------------------------------------
\* _persist_aborted, then the exception goes on and the job exits with 1.
Correct(r) ==
  /\ Go(r, "correcting", "failed")
  /\ Write(r, "aborted")
  /\ UNCHANGED <<month, warn, next, sha, asked, attempt, main, faults>>

\* The correction fails and is only logged.
CorrectFails(r) ==
  /\ Go(r, "correcting", "uncorrected")
  /\ WriteFails(r, "aborted")
  /\ UNCHANGED <<month, warn, next, sha, asked, attempt, main>>

\* The task timeout, or the SIGTERM of a deployment.
Kill(r) ==
  /\ pc[r] \in Working
  /\ pc' = [pc EXCEPT ![r] = "killed"]
  /\ UNCHANGED <<month, doc, warn, next, sha, asked, attempt, main, faults>>

ScreenStep(r) ==
  \/ CheckPrior(r) \/ CheckPriorFails(r)
  \/ Start(r) \/ StartFails(r)
  \/ ScreenFails(r)
  \/ Finish(r) \/ FinishFails(r)
  \/ Render(r) \/ RenderFails(r)

PushStep(r) ==
  PushGet(r) \/ PushPut(r) \/ PushRefused(r) \/ PushFails(r) \/ PushLost(r)

MonthlyNext ==
  \/ \E r \in Runs, m \in Months : Begin(r, m)
  \/ \E r \in Runs :
       ScreenStep(r) \/ PushStep(r) \/ Correct(r) \/ CorrectFails(r) \/ Kill(r)

MonthlySpec == MonthlyInit /\ [][MonthlyNext]_monthlyVars

-----------------------------------------------------------------------------
(* Properties.                                                             *)

\* run_tracker.py and monthly.py: a document that ends as "success" stands for a
\* published set.  Unless the run was killed or its correction failed, every
\* file of it is on main, or that of a later run is.
SuccessIsPublished ==
  \A r \in Runs : doc[r] = "success" /\ pc[r] \in {"ok", "failed"} =>
    \A f \in Files : main[month[r]][f] >= r

\* Run q comes before run s, and no run between them has left a document.
BeforeUnseen(q, s) == q < s /\ \A p \in Runs : q < p /\ p < s => doc[p] = "none"

\* "So the next run still sees the failure" (mark_failed_after_finish): check_prior_run is
\* silent about the run directly before, and about the newest run that has left a
\* document, only if that run ended well; or in one of three ways that the next run does
\* not see: killed or uncorrected after finish(), where "success" stays behind; or ended
\* without a document, killed before start() or refused by Firestore in it.
SilentOnlyAfterSuccess ==
  \A q, s \in Runs : BeforeUnseen(q, s) /\ warn[s].kind = "clean" =>
    \/ pc[q] = "ok"
    \/ pc[q] \in {"killed", "uncorrected"} /\ doc[q] = "success"
    \/ pc[q] \in {"killed", "failed"} /\ doc[q] = "none"

\* "A doc left at running therefore proves the run died before finish()": the run that a
\* warning block names has ended, and not well.
WarningIsTrue ==
  \A s \in Runs : warn[s].kind = "incomplete" =>
    pc[warn[s].of] \in Ended \ {"ok"}

\* "Re-fetching the sha each attempt keeps a possibly-applied PUT idempotent": the
\* file that a lost attempt has put does not get the next attempt refused, except
\* when the GET in between did not say 200, which push_file takes for "no file".
NeverRefusedByOwnPut ==
  [][\A r \in Runs : PushRefused(r) /\ OnMain(r) = r => sha[r] = 0]_monthlyVars

=============================================================================
