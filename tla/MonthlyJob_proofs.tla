-------------------------- MODULE MonthlyJob_proofs --------------------------
(***************************************************************************)
(* Proofs about the monthly job: its runs (MonthlyRun) and the scoring     *)
(* that a run calls (Scoring).                                             *)
(*                                                                         *)
(* The runs, for every number of runs, months, files, attempts and faults. *)
(* Type correctness and NeverRefusedByOwnPut hold with overlapping runs as *)
(* well; the rest is proved for the job alone (~Overlap).  The argument: a *)
(* run begins when all runs before it have ended, so their documents and   *)
(* their fate never change again, and the only run that writes is the      *)
(* newest one.                                                             *)
(*                                                                         *)
(* The scoring, for every cohort, all figures and statements of its        *)
(* titles, every table of price takers and every setting.                  *)
(***************************************************************************)
EXTENDS MonthlyRun, Scoring, FiniteOrders, SequenceTheorems

\* A run that has begun has its month.
Dated == \A r \in Runs : pc[r] # "none" => month[r] \in Months

\* Every run before one that has begun is over.
OrderInv ==
  \A q, r \in Runs : q < r /\ pc[r] # "none" => pc[q] \in Ended

\* What a run has done says what its document can be.
DocOK(r) ==
  /\ pc[r] \in {"none", "built", "checked"} => doc[r] = "none"
  /\ pc[r] = "screening" => doc[r] = "running"
  /\ pc[r] \in {"rendering", "pushing", "ok"} => doc[r] = "success"
  /\ pc[r] = "correcting" => doc[r] \in {"running", "success"}
  /\ pc[r] = "failed" => doc[r] # "success"
  /\ pc[r] = "uncorrected" => doc[r] # "none"

DocInv == \A r \in Runs : DocOK(r)

\* A run that pushes has put every file before the next one; nothing older
\* replaces them.
PushInv ==
  \A r \in Runs :
    /\ pc[r] = "ok" => \A f \in Files : main[month[r]][f] >= r
    /\ pc[r] = "pushing" => \A f \in Files : f < next[r] => main[month[r]][f] >= r
    /\ pc[r] \in {"none", "built", "checked", "screening", "rendering"} => next[r] = 1

\* Where a run has not looked yet, it has no verdict.
WarnInv ==
  /\ \A s \in Runs : pc[s] \in {"none", "built"} => warn[s].kind = "unread"
  /\ SilentOnlyAfterSuccess

JobInv == TypeOK /\ Dated /\ OrderInv /\ DocInv /\ PushInv /\ WarnInv
-----------------------------------------------------------------------------
\* Every variable keeps its type, one step per action.
LEMMA StepTypeOK ==
  ASSUME TypeOK, Dated, [MonthlyNext]_monthlyVars
  PROVE  TypeOK' /\ Dated'
<1> USE MonthlyConstants DEF TypeOK, Dated, Runs, Months, Files, Go, Working, Ended,
        Statuses
<1>a. ASSUME Fault
      PROVE  faults' \in 0..MaxFaults
  BY <1>a DEF Fault
<1>b. ASSUME NEW r \in Runs, NEW status \in Statuses,
             WriteFails(r, status) \/ Write(r, status)
      PROVE  doc' \in [Runs -> Statuses \cup {"none"}]
  BY <1>b DEF Write, WriteFails
<1>1. ASSUME NEW r \in Runs, NEW m \in Months, Begin(r, m)
      PROVE  TypeOK' /\ Dated'
  BY <1>1 DEF Begin
<1>2. ASSUME NEW r \in Runs, ScreenStep(r)
      PROVE  TypeOK' /\ Dated'
  <2>1. CASE CheckPrior(r)
    <3>1. PICK w \in Warnings : warn' = [warn EXCEPT ![r] = w]
      BY <2>1 DEF CheckPrior, Verdict, Warnings
    <3>2. QED
      BY <2>1, <3>1 DEF CheckPrior
  <2>2. CASE CheckPriorFails(r)
    <3>1. [kind |-> "unchecked", of |-> 0] \in Warnings
      BY DEF Warnings
    <3>2. QED
      BY <2>2, <3>1, <1>a DEF CheckPriorFails
  <2>3. CASE Start(r)
    BY <2>3, <1>b DEF Start
  <2>4. CASE StartFails(r)
    BY <2>4, <1>a, <1>b DEF StartFails, WriteFails
  <2>5. CASE ScreenFails(r)
    BY <2>5, <1>a DEF ScreenFails
  <2>6. CASE RenderFails(r)
    BY <2>6, <1>a DEF RenderFails
  <2>7. CASE Finish(r)
    BY <2>7, <1>b DEF Finish
  <2>8. CASE FinishFails(r)
    BY <2>8, <1>a, <1>b DEF FinishFails, WriteFails
  <2>9. CASE Render(r)
    BY <2>9 DEF Render
  <2>10. QED
    BY <1>2, <2>1, <2>2, <2>3, <2>4, <2>5, <2>6, <2>7, <2>8, <2>9 DEF ScreenStep
<1>3. ASSUME NEW r \in Runs, PushStep(r)
      PROVE  TypeOK' /\ Dated'
  <2>0. pc[r] = "pushing" /\ month[r] \in Months /\ next[r] \in Files
    BY <1>3 DEF PushStep, PushGet, PushPut, PushRefused, PushFails, PushLost, Go
  <2>1. CASE PushGet(r)
    <3>1. OnMain(r) \in 0..MaxRuns
      BY <2>0 DEF OnMain
    <3>2. sha' \in [Runs -> 0..MaxRuns]
      BY <2>1, <3>1 DEF PushGet
    <3>3. faults' \in 0..MaxFaults
      BY <2>1, <1>a DEF PushGet
    <3>4. QED
      BY <2>1, <3>2, <3>3 DEF PushGet
  <2>p. ASSUME Put(r)
        PROVE  main' \in [Months -> [Files -> 0..MaxRuns]]
    BY <2>0, <2>p DEF Put
  <2>2. CASE PushPut(r)
    <3>0. next[r] # NumFiles => next[r] + 1 \in Files
      BY <2>0
    <3>1. next' \in [Runs -> Files] /\ pc' \in [Runs -> {"none"} \cup Working \cup Ended]
      <4>1. CASE next[r] = NumFiles
        BY <2>2, <4>1 DEF PushPut
      <4>2. CASE next[r] # NumFiles
        BY <2>2, <3>0, <4>2 DEF PushPut
      <4>3. QED
        BY <4>1, <4>2
    <3>2. asked' \in [Runs -> BOOLEAN]
      BY <2>2 DEF PushPut
    <3>2a. attempt' \in [Runs -> 1..MaxAttempts]
      <4>1. 1 \in 1..MaxAttempts
        OBVIOUS
      <4>2. QED
        BY <2>2, <4>1 DEF PushPut
    <3>3. Dated'
      BY <2>0, <2>2 DEF PushPut
    <3>4. QED
      BY <2>2, <2>p, <3>1, <3>2, <3>2a, <3>3 DEF PushPut
  <2>3. CASE PushRefused(r)
    BY <2>3 DEF PushRefused
  <2>4. CASE PushLost(r)
    <3>1. /\ pc' \in [Runs -> {"none"} \cup Working \cup Ended]
          /\ attempt' \in [Runs -> 1..MaxAttempts]
      <4>1. CASE attempt[r] < MaxAttempts
        BY <2>4, <4>1 DEF PushLost
      <4>2. CASE ~(attempt[r] < MaxAttempts)
        BY <2>4, <4>2 DEF PushLost
      <4>3. QED
        BY <4>1, <4>2
    <3>1a. asked' \in [Runs -> BOOLEAN]
      BY <2>4 DEF PushLost
    <3>2. main' \in [Months -> [Files -> 0..MaxRuns]]
      BY <2>4, <2>p DEF PushLost
    <3>3. Dated'
      BY <2>0, <2>4 DEF PushLost
    <3>4. QED
      BY <2>4, <1>a, <3>1, <3>1a, <3>2, <3>3 DEF PushLost
  <2>5. CASE PushFails(r)
    <3>1. main' \in [Months -> [Files -> 0..MaxRuns]]
      BY <2>5, <2>p DEF PushFails
    <3>2. QED
      BY <2>0, <2>5, <1>a, <3>1 DEF PushFails
  <2>6. QED
    BY <1>3, <2>1, <2>2, <2>3, <2>4, <2>5 DEF PushStep
<1>4. ASSUME NEW r \in Runs, Correct(r)
      PROVE  TypeOK' /\ Dated'
  BY <1>4, <1>b DEF Correct
<1>5. ASSUME NEW r \in Runs, CorrectFails(r)
      PROVE  TypeOK' /\ Dated'
  BY <1>5, <1>a, <1>b DEF CorrectFails, WriteFails
<1>6. ASSUME NEW r \in Runs, Kill(r)
      PROVE  TypeOK' /\ Dated'
  BY <1>6 DEF Kill
<1>7. CASE UNCHANGED monthlyVars
  BY <1>7 DEF monthlyVars
<1>8. QED
  BY <1>1, <1>2, <1>3, <1>4, <1>5, <1>6, <1>7 DEF MonthlyNext

(***************************************************************************)
(* What a step of run r may touch.                                         *)
(***************************************************************************)
RunStep(r) ==
  ScreenStep(r) \/ PushStep(r) \/ Correct(r) \/ CorrectFails(r) \/ Kill(r)

Touches(r) ==
  /\ pc[r] \in Working
  /\ pc'[r] # "none"
  /\ month' = month
  /\ \A q \in Runs \ {r} :
       /\ pc'[q] = pc[q]
       /\ doc'[q] = doc[q]
       /\ warn'[q] = warn[q]
       /\ next'[q] = next[q]
  /\ \A m \in Months, f \in Files : main'[m][f] \in {main[m][f], r}

\* A step of a run changes nothing of another run, and puts only its own files.
LEMMA StepTouches ==
  ASSUME TypeOK, Dated, NEW r \in Runs, RunStep(r)
  PROVE  Touches(r)
<1> USE DEF TypeOK, Go, Working, Touches
<1>1. CASE CheckPrior(r) \/ CheckPriorFails(r) \/ ScreenFails(r) \/ RenderFails(r)
           \/ Render(r)
  BY <1>1 DEF CheckPrior, CheckPriorFails, ScreenFails, RenderFails, Render
<1>2. CASE Start(r) \/ StartFails(r)
  BY <1>2 DEF Start, StartFails, Write, WriteFails
<1>3. CASE Finish(r) \/ FinishFails(r)
  BY <1>3 DEF Finish, FinishFails, Write, WriteFails
<1>4. CASE Correct(r) \/ CorrectFails(r)
  BY <1>4 DEF Correct, CorrectFails, Write, WriteFails
<1>5. CASE PushGet(r) \/ PushRefused(r) \/ Kill(r)
  BY <1>5 DEF PushGet, PushRefused, Kill
<1>p. ASSUME Put(r)
      PROVE  \A m \in Months, f \in Files : main'[m][f] \in {main[m][f], r}
  BY <1>p DEF Put, Dated
<1>6. CASE PushPut(r)
  <2>1. CASE next[r] = NumFiles
    BY <1>6, <1>p, <2>1 DEF PushPut
  <2>2. CASE next[r] # NumFiles
    BY <1>6, <1>p, <2>2 DEF PushPut
  <2>3. QED
    BY <2>1, <2>2
<1>7. CASE PushLost(r)
  <2>1. \A m \in Months, f \in Files : main'[m][f] \in {main[m][f], r}
    BY <1>7, <1>p DEF PushLost
  <2>2. CASE attempt[r] < MaxAttempts
    BY <1>7, <2>1, <2>2 DEF PushLost
  <2>3. CASE ~(attempt[r] < MaxAttempts)
    BY <1>7, <2>1, <2>3 DEF PushLost
  <2>4. QED
    BY <2>2, <2>3
<1>8. CASE PushFails(r)
  <2>1. \A m \in Months, f \in Files : main'[m][f] \in {main[m][f], r}
    BY <1>8, <1>p DEF PushFails
  <2>2. QED
    BY <1>8, <2>1 DEF PushFails
<1>9. QED
  BY <1>1, <1>2, <1>3, <1>4, <1>5, <1>6, <1>7, <1>8
     DEF RunStep, ScreenStep, PushStep

\* A run that works is the newest one that has begun.
LEMMA WorkerIsNewest ==
  ASSUME TypeOK, OrderInv, NEW r \in Runs, pc[r] \in Working,
         NEW q \in Runs, q # r
  PROVE  /\ q < r => pc[q] \in Ended
         /\ q > r => pc[q] = "none"
<1>1. q \in Nat /\ r \in Nat
  BY MonthlyConstants DEF Runs
<1>2. CASE q < r
  BY <1>1, <1>2 DEF OrderInv, Working
<1>3. CASE q > r
  BY <1>1, <1>3 DEF OrderInv, Working, Ended
<1>4. QED
  BY <1>1, <1>2, <1>3

\* No run begins or goes on beside another.
LEMMA StepOrderInv ==
  ASSUME ~Overlap, TypeOK, Dated, OrderInv, [MonthlyNext]_monthlyVars
  PROVE  OrderInv'
<1> SUFFICES ASSUME NEW q \in Runs, NEW s \in Runs, q < s, pc'[s] # "none"
             PROVE  pc'[q] \in Ended
  BY DEF OrderInv
<1>0. q \in Nat /\ s \in Nat /\ q # s
  BY MonthlyConstants DEF Runs
<1>1. ASSUME NEW r \in Runs, NEW m \in Months, Begin(r, m)
      PROVE  pc'[q] \in Ended
  <2>0. r \in Nat
    BY MonthlyConstants DEF Runs
  <2>1. CASE s = r
    <3>1. pc[q] # "none" /\ pc[q] \notin Working
      BY <1>1, <2>1 DEF Begin, Active
    <3>2. pc[q] \in Ended
      BY <3>1 DEF TypeOK
    <3>3. QED
      BY <1>0, <1>1, <2>1, <3>2 DEF Begin, Go, TypeOK
  <2>2. CASE s # r
    <3>1. pc[s] # "none" /\ pc[q] \in Ended
      BY <1>1, <2>2 DEF Begin, Go, TypeOK, OrderInv
    <3>2. q # r
      BY <1>1, <3>1 DEF Begin, Go, Ended
    <3>3. QED
      BY <1>1, <3>1, <3>2 DEF Begin, Go, TypeOK
  <2>3. QED
    BY <2>1, <2>2
<1>2. ASSUME NEW r \in Runs, RunStep(r)
      PROVE  pc'[q] \in Ended
  <2>1. Touches(r)
    BY <1>2, StepTouches
  <2>2. pc[s] # "none"
    BY <2>1 DEF Touches, Working
  <2>3. pc[q] \in Ended
    BY <2>2 DEF OrderInv
  <2>4. q # r
    BY <2>1, <2>3 DEF Touches, Working, Ended
  <2>5. QED
    BY <2>1, <2>3, <2>4 DEF Touches
<1>3. CASE UNCHANGED monthlyVars
  BY <1>3 DEF monthlyVars, OrderInv
<1>4. QED
  BY <1>1, <1>2, <1>3 DEF MonthlyNext, RunStep

\* Each action of a run leaves its document as DocOK says.
LEMMA StepDocInv ==
  ASSUME TypeOK, Dated, DocInv, [MonthlyNext]_monthlyVars
  PROVE  DocInv'
<1> SUFFICES ASSUME NEW q \in Runs PROVE DocOK(q)'
  BY DEF DocInv
<1>0. DocOK(q)
  BY DEF DocInv
<1> USE DEF DocOK
<1>1. ASSUME NEW r \in Runs, NEW m \in Months, Begin(r, m)
      PROVE  DocOK(q)'
  BY <1>0, <1>1 DEF Begin, Go, TypeOK
<1>2. ASSUME NEW r \in Runs, RunStep(r)
      PROVE  DocOK(q)'
  <2>1. CASE q # r
    <3>1. pc'[q] = pc[q] /\ doc'[q] = doc[q]
      BY <1>2, <2>1, StepTouches DEF Touches
    <3>2. QED
      BY <1>0, <3>1
  <2>2. CASE q = r
    <3> USE <1>0, <2>2 DEF TypeOK, Go
    <3>1. CASE CheckPrior(r) \/ CheckPriorFails(r) \/ ScreenFails(r) \/ RenderFails(r)
               \/ Render(r)
      BY <3>1 DEF CheckPrior, CheckPriorFails, ScreenFails, RenderFails, Render
    <3>2. CASE Start(r) \/ StartFails(r)
      BY <3>2 DEF Start, StartFails, Write, WriteFails
    <3>3. CASE Finish(r) \/ FinishFails(r)
      BY <3>3 DEF Finish, FinishFails, Write, WriteFails
    <3>4. CASE Correct(r) \/ CorrectFails(r)
      BY <3>4 DEF Correct, CorrectFails, Write, WriteFails
    <3>5. CASE PushGet(r) \/ PushRefused(r) \/ Kill(r)
      BY <3>5 DEF PushGet, PushRefused, Kill
    <3>6. CASE PushPut(r)
      BY <3>6 DEF PushPut
    <3>7. CASE PushLost(r)
      BY <3>7 DEF PushLost
    <3>8. CASE PushFails(r)
      BY <3>8 DEF PushFails
    <3>9. QED
      BY <1>2, <3>1, <3>2, <3>3, <3>4, <3>5, <3>6, <3>7, <3>8
         DEF RunStep, ScreenStep, PushStep
  <2>3. QED
    BY <2>1, <2>2
<1>3. CASE UNCHANGED monthlyVars
  BY <1>0, <1>3 DEF monthlyVars
<1>4. QED
  BY <1>1, <1>2, <1>3 DEF MonthlyNext, RunStep

\* What has been put stays: only the newest run puts, and it puts in order.
LEMMA StepPushInv ==
  ASSUME TypeOK, Dated, OrderInv, PushInv, [MonthlyNext]_monthlyVars
  PROVE  PushInv'
<1> DEFINE Kept(q) ==
      /\ pc[q] = "ok" => \A f \in Files : main[month[q]][f] >= q
      /\ pc[q] = "pushing" => \A f \in Files : f < next[q] => main[month[q]][f] >= q
      /\ pc[q] \in {"none", "built", "checked", "screening", "rendering"} => next[q] = 1
<1> SUFFICES ASSUME NEW q \in Runs PROVE Kept(q)'
  BY DEF PushInv
<1>0. Kept(q)
  BY DEF PushInv
<1>t. /\ q \in Nat
      /\ \A f \in Files : f \in Nat
      /\ pc[q] # "none" => \A f \in Files : main[month[q]][f] \in Nat
  BY MonthlyConstants DEF Runs, Files, Dated, TypeOK
<1>1. ASSUME NEW r \in Runs, NEW m \in Months, Begin(r, m)
      PROVE  Kept(q)'
  BY <1>0, <1>1 DEF Begin, Go, TypeOK
<1>2. ASSUME NEW r \in Runs, RunStep(r)
      PROVE  Kept(q)'
  <2>0. Touches(r) /\ r \in Nat
    BY <1>2, StepTouches, MonthlyConstants DEF Runs
  <2>1. CASE q # r
    <3>1. q < r => pc[q] \in Ended
      BY <2>0, <2>1, WorkerIsNewest DEF Touches
    <3>2. q > r => pc[q] = "none"
      BY <2>0, <2>1, WorkerIsNewest DEF Touches
    <3>3. pc'[q] = pc[q] /\ next'[q] = next[q] /\ month' = month
      BY <2>0, <2>1 DEF Touches
    <3>4. CASE pc[q] = "ok"
      <4>1. q < r
        BY <1>t, <2>0, <2>1, <3>2, <3>4
      <4>2. month[q] \in Months
        BY <3>4 DEF Dated
      <4>3. ASSUME NEW f \in Files PROVE main'[month[q]][f] >= q
        <5>1. main'[month[q]][f] \in {main[month[q]][f], r}
          BY <2>0, <4>2 DEF Touches
        <5>2. main[month[q]][f] >= q
          BY <1>0, <3>4
        <5>3. QED
          BY <1>t, <2>0, <4>1, <5>1, <5>2
      <4>4. QED
        BY <3>3, <3>4, <4>3
    <3>5. CASE pc[q] = "pushing"
      BY <1>t, <2>0, <2>1, <3>1, <3>2, <3>5 DEF Ended
    <3>6. QED
      BY <1>0, <3>3, <3>4, <3>5
  <2>2. CASE q = r
    <3>m. \A m \in Months, f \in Files : main'[m][f] \in {main[m][f], r}
      BY <2>0 DEF Touches
    <3>d. month[r] \in Months /\ month' = month /\ next[r] \in Files
      BY <2>0 DEF Touches, Dated, Working, TypeOK
    <3>k. \A f \in Files : main[month[r]][f] >= r => main'[month[r]][f] >= r
      BY <1>t, <2>0, <3>m, <3>d
    <3>1. CASE PushPut(r)
      <4>0. pc[r] = "pushing" /\ next[r] \in Nat
        BY <1>t, <3>1, <3>d DEF PushPut
      <4>1. main'[month[r]][next[r]] = r
        BY <3>1, <3>d DEF PushPut, Put, TypeOK
      <4>2. \A f \in Files : f <= next[r] => main'[month[r]][f] >= r
        BY <1>0, <1>t, <2>0, <2>2, <3>k, <4>0, <4>1
      <4>3. CASE next[r] = NumFiles
        <5>1. \A f \in Files : f <= next[r]
          BY <4>3, MonthlyConstants DEF Files
        <5>2. pc'[r] = "ok"
          BY <3>1, <4>3 DEF PushPut, TypeOK
        <5>3. QED
          BY <2>2, <3>d, <4>2, <5>1, <5>2
      <4>4. CASE next[r] # NumFiles
        <5>1. pc'[r] = "pushing" /\ next'[r] = next[r] + 1
          BY <3>1, <4>0, <4>4 DEF PushPut, TypeOK
        <5>2. \A f \in Files : f < next'[r] => f <= next[r]
          BY <1>t, <4>0, <5>1
        <5>3. QED
          BY <2>2, <3>d, <4>2, <5>1, <5>2
      <4>5. QED
        BY <4>3, <4>4
    <3>2. CASE PushLost(r) \/ PushFails(r) \/ PushGet(r)
      <4>1. pc[r] = "pushing" /\ next' = next
        BY <3>2 DEF PushLost, PushFails, PushGet, Go
      <4>2. pc'[r] \in {"pushing", "correcting"}
        BY <3>2 DEF PushLost, PushFails, PushGet, Go, TypeOK
      <4>3. QED
        BY <1>0, <2>2, <3>d, <3>k, <4>1, <4>2
    <3>3. CASE Render(r)
      <4>1. next'[r] = 1 /\ pc'[r] = "pushing"
        BY <1>0, <2>2, <3>3 DEF Render, Go, TypeOK
      <4>2. \A f \in Files : ~(f < 1)
        BY MonthlyConstants DEF Files
      <4>3. QED
        BY <2>2, <4>1, <4>2
    <3>4. CASE PushRefused(r) \/ Correct(r) \/ CorrectFails(r) \/ Kill(r)
      BY <2>2, <3>4 DEF PushRefused, Correct, CorrectFails, Kill, Go, TypeOK
    <3>5. CASE \/ CheckPrior(r) \/ CheckPriorFails(r) \/ Start(r) \/ StartFails(r)
               \/ ScreenFails(r) \/ Finish(r) \/ FinishFails(r) \/ RenderFails(r)
      BY <1>0, <2>2, <3>5 DEF CheckPrior, CheckPriorFails, Start, StartFails, ScreenFails,
         Finish, FinishFails, RenderFails, Go, TypeOK
    <3>6. QED
      BY <1>2, <3>1, <3>2, <3>3, <3>4, <3>5 DEF RunStep, ScreenStep, PushStep
  <2>3. QED
    BY <2>1, <2>2
<1>3. CASE UNCHANGED monthlyVars
  BY <1>0, <1>3 DEF monthlyVars
<1>4. QED
  BY <1>1, <1>2, <1>3 DEF MonthlyNext, RunStep

(***************************************************************************)
(* The warning blocks.                                                     *)
(***************************************************************************)
\* What check_prior_run can have said of the runs before s.
Judged(s) ==
  /\ pc[s] \in {"none", "built"} => warn[s].kind = "unread"
  /\ \A q \in Runs : BeforeUnseen(q, s) /\ warn[s].kind = "clean" =>
       \/ pc[q] = "ok"
       \/ pc[q] \in {"killed", "uncorrected"} /\ doc[q] = "success"
       \/ pc[q] \in {"killed", "failed"} /\ doc[q] = "none"

\* A verdict stands as long as the runs it is about do not change.
LEMMA VerdictStands ==
  ASSUME NEW s \in Runs, Judged(s), pc[s] # "none",
         pc'[s] # "none", warn'[s] = warn[s], pc'[s] = "built" => pc[s] = "built",
         \A q \in Runs : q < s => pc'[q] = pc[q] /\ doc'[q] = doc[q]
  PROVE  Judged(s)'
<1>0. s \in Nat /\ \A p \in Runs : p \in Nat
  BY MonthlyConstants DEF Runs
<1>1. ASSUME NEW q \in Runs
      PROVE  BeforeUnseen(q, s)' <=> BeforeUnseen(q, s)
  BY <1>0 DEF BeforeUnseen
<1>2. ASSUME NEW q \in Runs, BeforeUnseen(q, s)
      PROVE  q < s
  BY <1>2 DEF BeforeUnseen
<1>3. QED
  BY <1>1, <1>2 DEF Judged

\* The verdict is right when it is given: the runs before have ended, a document says
\* "success" only of a run that did not fail, and a run without one was stopped early.
LEMMA VerdictIsRight ==
  ASSUME TypeOK, OrderInv, DocInv, NEW r \in Runs, CheckPrior(r)
  PROVE  Judged(r)'
<1> USE DEF CheckPrior, Go
<1>0. r \in Nat /\ \A p \in Runs : p \in Nat
  BY MonthlyConstants DEF Runs
<1>1. pc[r] = "built" /\ pc'[r] = "checked" /\ doc' = doc /\ doc[r] = "none"
  BY DEF TypeOK, DocInv, DocOK
<1>2. \A q \in Runs : q < r => pc[q] \in Ended /\ pc'[q] = pc[q]
  BY <1>0, <1>1 DEF OrderInv, TypeOK
<1>3. \A q \in Runs : q > r => doc[q] = "none"
  BY <1>0, <1>1, WorkerIsNewest DEF Working, DocInv, DocOK
<1>4. ASSUME NEW q \in Runs, q < r, doc[q] = "none"
      PROVE  pc'[q] \in {"killed", "failed"} /\ doc'[q] = "none"
  BY <1>1, <1>2, <1>4 DEF DocInv, DocOK, Ended
<1>5. CASE /\ \A q \in Runs : doc[q] = "none"
           /\ warn' = [warn EXCEPT ![r] = [kind |-> "clean", of |-> 0]]
  <2>1. \A q \in Runs : BeforeUnseen(q, r)' => q < r
    BY DEF BeforeUnseen
  <2>2. QED
    BY <1>1, <1>4, <1>5, <2>1 DEF Judged
<1>6. ASSUME NEW n \in Runs, IsNewest(n),
             warn' = [warn EXCEPT ![r] = [kind |-> Verdict(doc[n]), of |-> n]]
      PROVE  Judged(r)'
  <2>1. n < r /\ pc[n] \in Ended /\ pc'[n] = pc[n] /\ doc[n] # "none"
    BY <1>0, <1>1, <1>2, <1>3, <1>6 DEF IsNewest
  <2>2. ASSUME NEW q \in Runs, BeforeUnseen(q, r)', q # n
        PROVE  pc'[q] \in {"killed", "failed"} /\ doc'[q] = "none"
    <3>1. q < r
      BY <2>2 DEF BeforeUnseen
    <3>2. ~(q < n)
      BY <1>1, <2>1, <2>2 DEF BeforeUnseen
    <3>3. doc[q] = "none"
      BY <1>0, <1>6, <2>2, <3>2 DEF IsNewest
    <3>4. QED
      BY <1>4, <3>1, <3>3
  <2>3. warn'[r].kind = Verdict(doc[n])
    BY <1>6 DEF TypeOK
  <2>4. CASE doc[n] = "success"
    <3>1. pc[n] \in {"ok", "killed", "uncorrected"}
      BY <2>1, <2>4 DEF Ended, DocInv, DocOK
    <3>2. QED
      BY <1>1, <2>1, <2>2, <2>4, <3>1 DEF Judged
  <2>5. CASE doc[n] # "success"
    BY <1>1, <2>3, <2>5 DEF Judged, Verdict
  <2>6. QED
    BY <2>4, <2>5
<1>7. QED
  BY <1>5, <1>6

\* No step makes a verdict wrong.
LEMMA StepWarnInv ==
  ASSUME TypeOK, Dated, OrderInv, DocInv, WarnInv, [MonthlyNext]_monthlyVars
  PROVE  WarnInv'
<1> SUFFICES ASSUME NEW s \in Runs PROVE Judged(s)'
  BY DEF WarnInv, Judged, SilentOnlyAfterSuccess
<1>0. Judged(s) /\ s \in Nat /\ \A p \in Runs : p \in Nat
  BY MonthlyConstants DEF Runs, WarnInv, Judged, SilentOnlyAfterSuccess
<1>1. ASSUME NEW r \in Runs, NEW m \in Months, Begin(r, m)
      PROVE  Judged(s)'
  <2>0. pc[r] = "none" /\ pc' = [pc EXCEPT ![r] = "built"] /\ warn' = warn /\ doc' = doc
    BY <1>1 DEF Begin, Go
  <2>1. CASE pc[s] = "none"
    <3>1. warn'[s].kind = "unread"
      BY <1>0, <2>0, <2>1 DEF Judged
    <3>2. QED
      BY <3>1 DEF Judged
  <2>2. CASE pc[s] # "none"
    <3>1. \A q \in Runs : q < s => q # r
      BY <2>0, <2>2 DEF OrderInv, Ended
    <3>2. QED
      BY <1>0, <2>0, <2>2, <3>1, VerdictStands DEF TypeOK
  <2>3. QED
    BY <2>1, <2>2
<1>2. ASSUME NEW r \in Runs, RunStep(r)
      PROVE  Judged(s)'
  <2>0. Touches(r)
    BY <1>2, StepTouches
  <2>a. pc[r] \in Working
    BY <2>0, Zenon DEF Touches
  <2>b. \A q \in Runs : q # r => pc'[q] = pc[q] /\ doc'[q] = doc[q] /\ warn'[q] = warn[q]
    BY <2>0, Zenon DEF Touches
  <2>1. CASE s > r
    <3>1. pc[s] = "none" /\ warn'[s] = warn[s]
      <4>1. s # r /\ pc[r] \in Working
        <5>1. s \in Nat /\ r \in Nat
          BY <1>0
        <5>2. QED
          BY <2>a, <2>1, <5>1
      <4>2. warn'[s] = warn[s]
        BY <2>b, <4>1
      <4>3. pc[s] = "none"
        BY <2>1, <4>1, WorkerIsNewest
      <4>4. QED
        BY <4>2, <4>3
    <3>2. warn'[s].kind = "unread"
      BY <1>0, <3>1 DEF Judged
    <3>3. QED
      BY <3>2 DEF Judged
  <2>2. CASE s <= r
    <3>1. \A q \in Runs : q < s => pc'[q] = pc[q] /\ doc'[q] = doc[q]
      <4>1. ASSUME NEW q \in Runs, q < s
            PROVE  q # r
        <5>1. q \in Nat /\ r \in Nat /\ s \in Nat
          BY <1>0
        <5>2. QED
          BY <2>2, <4>1, <5>1
      <4>2. QED
        BY <2>b, <4>1
    <3>2. CASE s # r
      <4>1. pc'[s] = pc[s] /\ warn'[s] = warn[s] /\ pc[s] # "none"
        <5>1. s < r
          <6>1. s \in Nat /\ r \in Nat
            BY <1>0
          <6>2. QED
            BY <2>2, <3>2, <6>1
        <5>2. pc[s] \in Ended
          BY <2>a, <3>2, <5>1, WorkerIsNewest
        <5>3. QED
          BY <2>b, <3>2, <5>2 DEF Ended
      <4>2. QED
        BY <1>0, <3>1, <4>1, VerdictStands
    <3>3. CASE s = r /\ CheckPrior(r)
      BY <3>3, VerdictIsRight
    <3>4. CASE s = r /\ CheckPriorFails(r)
      <4>1. pc'[r] = "checked" /\ warn'[r].kind = "unchecked"
        BY <3>4 DEF CheckPriorFails, Go, TypeOK
      <4>2. QED
        BY <3>4, <4>1 DEF Judged
    <3>5. CASE s = r /\ ~CheckPrior(r) /\ ~CheckPriorFails(r)
      <4>1. warn' = warn
        BY <1>2, <3>5 DEF RunStep, ScreenStep, PushStep, Start, StartFails, ScreenFails,
           Finish, FinishFails, Render, RenderFails, PushGet, PushPut, PushRefused,
           PushFails, PushLost, Correct, CorrectFails, Kill
      <4>2. pc'[r] # "built"
        BY <1>2, <3>5 DEF RunStep, ScreenStep, PushStep, Start, StartFails, ScreenFails,
           Finish, FinishFails, Render, RenderFails, PushGet, PushPut, PushRefused,
           PushFails, PushLost, Correct, CorrectFails, Kill, Go, TypeOK
      <4>3. pc[r] # "none" /\ pc'[r] # "none"
        BY <2>0 DEF Touches, Working
      <4>4. QED
        BY <1>0, <3>1, <3>5, <4>1, <4>2, <4>3, VerdictStands
    <3>6. QED
      BY <3>2, <3>3, <3>4, <3>5
  <2>3. QED
    BY <1>0, <2>1, <2>2
<1>3. CASE UNCHANGED monthlyVars
  BY <1>0, <1>3 DEF monthlyVars, Judged, BeforeUnseen
<1>4. QED
  BY <1>1, <1>2, <1>3 DEF MonthlyNext, RunStep

(***************************************************************************)
(* The sha a run holds between its GET and its PUT.                        *)
(***************************************************************************)
ShaOK(r) ==
  /\ pc[r] = "pushing" /\ asked[r] /\ OnMain(r) = r => sha[r] \in {0, r}
  /\ pc[r] \in {"none", "built", "checked", "screening", "rendering"} => ~asked[r]

ShaInv == \A r \in Runs : ShaOK(r)

\* Only a run itself puts its files, and it asks again after each attempt.
LEMMA StepShaInv ==
  ASSUME TypeOK, Dated, ShaInv, [MonthlyNext]_monthlyVars
  PROVE  ShaInv'
<1> SUFFICES ASSUME NEW q \in Runs PROVE ShaOK(q)'
  BY DEF ShaInv
<1>0. ShaOK(q)
  BY DEF ShaInv
<1>1. ASSUME NEW r \in Runs, NEW m \in Months, Begin(r, m)
      PROVE  ShaOK(q)'
  BY <1>0, <1>1 DEF Begin, Go, TypeOK, OnMain, ShaOK
<1>2. ASSUME NEW r \in Runs, RunStep(r)
      PROVE  ShaOK(q)'
  <2>0. Touches(r)
    BY <1>2, StepTouches
  <2>1. CASE q # r
    <3>1. pc'[q] = pc[q] /\ next'[q] = next[q] /\ month' = month
      BY <2>0, <2>1 DEF Touches
    <3>2. pc[q] = "pushing" => month[q] \in Months /\ next[q] \in Files
      BY DEF Dated, TypeOK
    <3>3. pc[q] = "pushing" /\ OnMain(q)' = q => OnMain(q) = q
      BY <2>0, <2>1, <3>1, <3>2 DEF Touches, OnMain
    <3>4. asked'[q] = asked[q] /\ sha'[q] = sha[q]
      BY <1>2, <2>1 DEF RunStep, ScreenStep, PushStep, CheckPrior, CheckPriorFails, Start,
         StartFails, ScreenFails, Finish, FinishFails, Render, RenderFails, PushGet,
         PushPut, PushRefused, PushFails, PushLost, Correct, CorrectFails, Kill, Go, TypeOK
    <3>5. QED
      BY <1>0, <3>1, <3>3, <3>4 DEF ShaOK
  <2>2. CASE q = r
    <3>1. CASE PushGet(r)
      BY <2>2, <3>1 DEF PushGet, Go, OnMain, TypeOK, ShaOK
    <3>2. CASE PushPut(r) \/ PushLost(r)
      <4>1. ~asked'[r]
        BY <3>2 DEF PushPut, PushLost, TypeOK
      <4>2. QED
        BY <2>2, <4>1 DEF ShaOK
    <3>3. CASE Render(r)
      <4>1. ~asked'[r]
        BY <1>0, <2>2, <3>3 DEF Render, Go, ShaOK
      <4>2. QED
        BY <2>2, <4>1 DEF ShaOK
    <3>4. CASE PushRefused(r) \/ Correct(r) \/ CorrectFails(r) \/ Kill(r)
      BY <2>2, <3>4 DEF PushRefused, Correct, CorrectFails, Kill, Go, TypeOK, ShaOK
    <3>5. CASE \/ CheckPrior(r) \/ CheckPriorFails(r) \/ Start(r) \/ StartFails(r)
               \/ ScreenFails(r) \/ Finish(r) \/ FinishFails(r) \/ RenderFails(r)
      BY <1>0, <2>2, <3>5 DEF CheckPrior, CheckPriorFails, Start, StartFails, ScreenFails,
         Finish, FinishFails, RenderFails, Go, TypeOK, ShaOK
    <3>6. CASE PushFails(r)
      BY <2>2, <3>6 DEF PushFails, Go, TypeOK, ShaOK
    <3>7. QED
      BY <1>2, <3>1, <3>2, <3>3, <3>4, <3>5, <3>6 DEF RunStep, ScreenStep, PushStep
  <2>3. QED
    BY <2>1, <2>2
<1>3. CASE UNCHANGED monthlyVars
  BY <1>0, <1>3 DEF monthlyVars, OnMain, ShaOK
<1>4. QED
  BY <1>1, <1>2, <1>3 DEF MonthlyNext, RunStep

-----------------------------------------------------------------------------
\* The first state satisfies every part of the invariants.
LEMMA InitInv == MonthlyInit => JobInv /\ ShaInv
<1> SUFFICES ASSUME MonthlyInit PROVE JobInv /\ ShaInv
  OBVIOUS
<1> USE MonthlyConstants DEF MonthlyInit
<1>1. TypeOK
  BY DEF TypeOK, Runs, Months, Files, Working, Ended, Statuses, Warnings
<1>2. Dated /\ OrderInv /\ DocInv
  BY DEF Dated, OrderInv, DocInv, DocOK
<1>3. PushInv /\ ShaInv
  BY DEF PushInv, ShaInv, ShaOK
<1>4. WarnInv
  BY DEF WarnInv, SilentOnlyAfterSuccess
<1>5. QED
  BY <1>1, <1>2, <1>3, <1>4 DEF JobInv

\* Every variable keeps its type, with overlapping runs as well.
THEOREM MonthlyTypeCorrect == MonthlySpec => []TypeOK
<1>1. MonthlyInit => TypeOK /\ Dated
  BY InitInv DEF JobInv
<1>2. TypeOK /\ Dated /\ [MonthlyNext]_monthlyVars => TypeOK' /\ Dated'
  BY StepTypeOK
<1>3. QED
  BY <1>1, <1>2, PTL DEF MonthlySpec

\* A retry is never refused because of the file its own lost attempt has put,
\* however many runs push at once.
THEOREM RetryIsIdempotent == MonthlySpec => NeverRefusedByOwnPut
<1> DEFINE Inv == TypeOK /\ Dated /\ ShaInv
<1>1. MonthlyInit => Inv
  BY InitInv DEF JobInv
<1>2. Inv /\ [MonthlyNext]_monthlyVars => Inv'
  BY StepTypeOK, StepShaInv
<1>3. Inv /\ [MonthlyNext]_monthlyVars =>
        [\A r \in Runs : PushRefused(r) /\ OnMain(r) = r => sha[r] = 0]_monthlyVars
  BY DEF ShaInv, ShaOK, PushRefused, Go
<1>4. QED
  BY <1>1, <1>2, <1>3, PTL DEF MonthlySpec, NeverRefusedByOwnPut

\* The invariant of the job alone.
THEOREM JobInvariantHolds ==
  ASSUME ~Overlap
  PROVE  MonthlySpec => []JobInv
<1>1. JobInv /\ [MonthlyNext]_monthlyVars => JobInv'
  BY StepTypeOK, StepOrderInv, StepDocInv, StepPushInv, StepWarnInv DEF JobInv
<1>2. QED
  BY InitInv, <1>1, PTL DEF MonthlySpec

\* A run document that says "success" stands for a published set of files.
THEOREM SuccessMeansPublished ==
  ASSUME ~Overlap
  PROVE  MonthlySpec => []SuccessIsPublished
<1>1. JobInv => SuccessIsPublished
  BY DEF JobInv, DocInv, DocOK, PushInv, SuccessIsPublished
<1>2. QED
  BY JobInvariantHolds, <1>1, PTL

\* Silence about the run before, and about the newest one with a document, means that it
\* ended well, or was killed or uncorrected with "success" behind it, or ended before it
\* had a document.
THEOREM SilenceIsEarned ==
  ASSUME ~Overlap
  PROVE  MonthlySpec => []SilentOnlyAfterSuccess
<1>1. JobInv => SilentOnlyAfterSuccess
  BY DEF JobInv, WarnInv
<1>2. QED
  BY JobInvariantHolds, <1>1, PTL

-------------------------------------------------------------------------------
(***************************************************************************)
(* The scoring.                                                            *)
(***************************************************************************)
\* Every axis of a scored title is a whole number of points.
ScoredInv ==
  pass \in {"report", "done"} => \A t \in Titles, a \in Axes : scored[t].dims[a] \in 0..5

\* The report is what its lists are made of.
ReportInv ==
  pass = "done" =>
    /\ report.min \in 1..3
    /\ report.crosshits = Shown(Ranked({t \in Titles : IsCrosshit(t, report.min)}))
    /\ report.steadiness = Ranked(ComputeSteadinessFailures(report.min))
    /\ report.leverage = Ranked(ComputeLeverageFailures(report.min))
    /\ report.takers = Ranked({t \in Titles : IsExcludedPriceTaker(t, report.min)})
    /\ \A a \in Axes : /\ report.axes[a] = Shown(ByAxis(a))
                       /\ report.counts[a] = Len(ByAxis(a))
-----------------------------------------------------------------------------
(***************************************************************************)
(* The points.                                                             *)
(***************************************************************************)
\* Whatever the percentiles are, every axis gives from nought to five points.
LEMMA PointsAreFew ==
  /\ \A sum, n : PercentileToScore(sum, n) \in 1..5
  /\ \A g : ConsistencyCap(g) \in 3..5
  /\ \A x, y \in 0..5 : Min2(x, y) \in 0..5 /\ Max2(x, y) \in 0..5
  /\ \A t : ScoreGrowth(t) \in 0..5 /\ ScoreProfitability(t) \in 0..5
  /\ \A gross, lev : ResilienceScore(gross, lev) \in 0..5
<1>1. /\ \A sum, n : PercentileToScore(sum, n) \in 1..5
      /\ \A g : ConsistencyCap(g) \in 3..5
  BY DEF PercentileToScore, ConsistencyCap
<1>2. \A x, y \in 0..5 : Min2(x, y) \in 0..5 /\ Max2(x, y) \in 0..5
  BY DEF Min2, Max2
<1>3. 1..5 \subseteq 0..5 /\ 3..5 \subseteq 0..5 /\ MISSING_INPUT_CAP \in 0..5 /\ 4 \in 0..5 /\ 0 \in 0..5
      /\ 3 \in 0..5
  BY DEF MISSING_INPUT_CAP
<1>4. ASSUME NEW t
      PROVE  ScoreGrowth(t) \in 0..5
  <2>1. CASE pct[t].median # None
    <3> DEFINE capped == Min2(PercentileToScore(pct[t].median, 1), ConsistencyCap(growth[t]))
    <3>1. capped \in 0..5 /\ Max2(capped, 4) \in 0..5
      BY <1>1, <1>2, <1>3
    <3> HIDE DEF capped
    <3>2. ScoreGrowth(t) = IF growth[t].median >= 10 /\ growth[t].down = 0
                           THEN Max2(capped, 4) ELSE capped
      BY <2>1, Zenon DEF ScoreGrowth, capped
    <3>3. QED
      BY <3>1, <3>2
  <2>2. CASE pct[t].median = None
    <3> DEFINE base == IF pct[t].yoy = None THEN 3 ELSE PercentileToScore(pct[t].yoy, 1)
    <3>1. base \in 0..5
      BY <1>1, <1>3
    <3> HIDE DEF base
    <3>2. ScoreGrowth(t) = Min2(Min2(base, MISSING_INPUT_CAP), ConsistencyCap(growth[t]))
      BY <2>2, Zenon DEF ScoreGrowth, base
    <3>3. QED
      BY <1>1, <1>2, <1>3, <3>1, <3>2
  <2>3. QED
    BY <2>1, <2>2
<1>5. ASSUME NEW t
      PROVE  ScoreProfitability(t) \in 0..5
  BY <1>1, <1>2, <1>3, Zenon DEF ScoreProfitability
<1>6. ASSUME NEW gross, NEW lev
      PROVE  ResilienceScore(gross, lev) \in 0..5
  BY <1>1, <1>2, <1>3, Zenon DEF ResilienceScore
<1>7. QED
  BY <1>1, <1>2, <1>4, <1>5, <1>6
-----------------------------------------------------------------------------
(***************************************************************************)
(* Numbers.                                                                *)
(***************************************************************************)
\* Rounding down keeps an order.
LEMMA DivisionIsMonotone ==
  ASSUME NEW a \in Int, NEW b \in Int, NEW n \in Nat \ {0}, a <= b
  PROVE  a \div n \in Int /\ b \div n \in Int /\ a \div n <= b \div n
  OBVIOUS

Positions(q) == {p \in (1..Len(q)) \X (1..Len(q)) :
                   q[p[1]] < q[p[2]] \/ (q[p[1]] = q[p[2]] /\ p[1] < p[2])}

\* Fewer than k values of a list are below its k-th smallest, and at least k are not above.
LEMMA KthExists ==
  ASSUME NEW q \in Seq(Int), NEW k \in 1..Len(q)
  PROVE  \E x \in {q[i] : i \in 1..Len(q)} :
           /\ Cardinality({i \in 1..Len(q) : q[i] < x}) < k
           /\ Cardinality({i \in 1..Len(q) : q[i] <= x}) >= k
<1> DEFINE n == Len(q)
           N == 1..n
           before == Positions(q)
<1>1. n \in Nat /\ \A i \in N : q[i] \in Int
  BY LenProperties, ElementOfSeq
<1>2. IsFiniteSet(N) /\ Cardinality(N) = n
  BY <1>1, FS_Interval
<1>3. \A i, j \in N : <<i, j>> \in before <=> q[i] < q[j] \/ (q[i] = q[j] /\ i < j)
  BY DEF Positions
<1> HIDE DEF n, before
<1>4. IsStrictOrder(before, N)
  BY <1>1, <1>3 DEF IsStrictOrder
<1> HIDE DEF N
<1>5. PICK l \in [1..Cardinality(N) -> N] :
        /\ \A i, j \in 1..Cardinality(N) : i < j => <<l[i], l[j]>> \in before
        /\ \A i, j \in 1..Cardinality(N) : l[i] = l[j] => i = j
        /\ \A x \in N : \E i \in 1..Cardinality(N) : l[i] = x
  BY <1>2, <1>4, SortedListOfAll
<1>6. N = 1..n /\ 1..Cardinality(N) = N
  BY <1>2 DEF N
<1>7. /\ l \in [N -> N]
      /\ \A i, j \in N : i < j => <<l[i], l[j]>> \in before
      /\ \A i, j \in N : l[i] = l[j] => i = j
      /\ \A x \in N : \E i \in N : l[i] = x
  BY <1>5, <1>6
<1> DEFINE x == q[l[k]]
           First(m) == {l[j] : j \in 1..m}
           below == {i \in N : q[i] < x}
           notAbove == {i \in N : q[i] <= x}
<1>8. k \in N /\ l[k] \in N /\ x \in Int
  BY <1>1, <1>7 DEF n, N
<1>9. ASSUME NEW m \in 0..n
      PROVE  IsFiniteSet(First(m)) /\ Cardinality(First(m)) = m /\ First(m) \in SUBSET N
  <2> DEFINE f == [j \in 1..m |-> l[j]]
             T == First(m)
  <2>1. m \in Nat /\ \A j \in 1..m : j \in N
    BY <1>1 DEF N
  <2>2. f \in [1..m -> T] /\ (\A t \in T : \E j \in 1..m : f[j] = t)
    OBVIOUS
  <2>3. \A i, j \in 1..m : f[i] = f[j] => i = j
    BY <1>7, <2>1
  <2>4. T \in SUBSET N
    <3>1. \A j \in 1..m : l[j] \in N
      BY <1>7, <2>1
    <3>2. QED
      BY <3>1
  <2> HIDE DEF f, T
  <2>5. IsFiniteSet(T) /\ Cardinality(T) = m
    BY <2>1, <2>2, <2>3, CardinalityOfListed
  <2>6. QED
    BY <2>4, <2>5 DEF T
<1>10. ASSUME NEW i \in N, NEW j \in N, i < j
      PROVE  q[l[i]] <= q[l[j]]
  <2>1. l[i] \in N /\ l[j] \in N /\ <<l[i], l[j]>> \in before
    BY <1>7, <1>10
  <2>2. ASSUME NEW a \in N, NEW b \in N, <<a, b>> \in before
        PROVE  q[a] <= q[b]
    BY <1>1, <1>3, <2>2
  <2>3. QED
    BY <2>1, <2>2
<1>11. below \in SUBSET First(k - 1)
  <2>1. SUFFICES ASSUME NEW i \in N, q[i] < x
                 PROVE  \E j \in 1..(k - 1) : l[j] = i
    OBVIOUS
  <2>2. PICK j \in N : l[j] = i
    BY <1>7
  <2>3. ~(k < j) /\ j # k
    BY <1>1, <1>8, <1>10, <2>1, <2>2
  <2>4. QED
    BY <1>1, <1>8, <2>2, <2>3 DEF N
<1>12. First(k) \in SUBSET notAbove
  <2>1. SUFFICES ASSUME NEW j \in 1..k
                 PROVE  l[j] \in N /\ q[l[j]] <= x
    OBVIOUS
  <2>2. j \in N /\ (j = k \/ j < k)
    BY <1>1, <1>8 DEF N
  <2>3. l[j] \in N /\ q[l[j]] \in Int
    BY <1>1, <1>7, <2>2
  <2>4. QED
    BY <1>8, <1>10, <2>2, <2>3
<1> HIDE DEF First, below, notAbove, x
<1>13. k - 1 \in 0..n /\ k \in 0..n
  BY <1>1, <1>8 DEF N
<1>14. Cardinality(below) < k
  <2>1. Cardinality(below) <= Cardinality(First(k - 1)) /\ IsFiniteSet(below)
    BY <1>9, <1>11, <1>13, FS_Subset
  <2>2. Cardinality(below) \in Nat
    BY <2>1, FS_CardinalityType
  <2>3. QED
    BY <1>9, <1>13, <2>1, <2>2
<1>15. Cardinality(notAbove) >= k
  <2>1. IsFiniteSet(notAbove)
    BY <1>2, FS_Subset DEF notAbove
  <2>2. Cardinality(First(k)) <= Cardinality(notAbove) /\ Cardinality(notAbove) \in Nat
    BY <1>12, <2>1, FS_Subset, FS_CardinalityType
  <2>3. QED
    BY <1>9, <1>13, <2>2
<1>16. x \in {q[i] : i \in N}
  BY <1>8 DEF x
<1>17. QED
  BY <1>14, <1>15, <1>16 DEF below, notAbove, N, n

\* The median of a list that is not empty, doubled, is a whole number.
LEMMA MedianType ==
  ASSUME NEW q \in Seq(Int), Len(q) # 0
  PROVE  Median2(q) \in Int
<1> DEFINE At(k) == CHOOSE x \in {q[i] : i \in 1..Len(q)} :
                      /\ Cardinality({i \in 1..Len(q) : q[i] < x}) < k
                      /\ Cardinality({i \in 1..Len(q) : q[i] <= x}) >= k
<1>1. Len(q) \in Nat /\ \A i \in 1..Len(q) : q[i] \in Int
  BY LenProperties, ElementOfSeq
<1>2. ASSUME NEW k \in 1..Len(q)
      PROVE  At(k) \in Int
  <2>1. At(k) \in {q[i] : i \in 1..Len(q)}
    BY KthExists
  <2>2. QED
    BY <1>1, <2>1
<1>3. (Len(q) + 1) \div 2 \in 1..Len(q) /\ (Len(q) + 2) \div 2 \in 1..Len(q)
  BY <1>1
<1>4. Median2(q) = At((Len(q) + 1) \div 2) + At((Len(q) + 2) \div 2)
  BY DEF Median2
<1> HIDE DEF At
<1>5. QED
  BY <1>2, <1>3, <1>4
-----------------------------------------------------------------------------
(***************************************************************************)
(* The figures of the cohort.                                              *)
(***************************************************************************)
Figure(x) == x # None => x \in Int

\* Growth has a median and its down years together, over one transition at least.
LEMMA GrowthType ==
  ASSUME NEW r \in Seq(Nat \ {0})
  PROVE  \/ GrowthOf(r).down = None /\ GrowthOf(r).years = None /\ GrowthOf(r).median = None
         \/ /\ GrowthOf(r).down \in Nat /\ GrowthOf(r).years \in Nat \ {0}
            /\ GrowthOf(r).median \in Int
<1>1. Len(r) \in Nat /\ \A k \in 1..Len(r) : r[k] \in Nat \ {0}
  BY LenProperties, ElementOfSeq
<1>2. CASE Len(r) < 4
  BY <1>2 DEF GrowthOf, NoGrowth
<1>3. CASE ~(Len(r) < 4)
  <2> DEFINE n == Len(r) - 1
             down == {k \in 2..Len(r) : r[k] < r[k - 1]}
  <2>1. n \in Nat \ {0}
    BY <1>1, <1>3
  <2>2. \A k \in 1..n : (100 * (r[k + 1] - r[k])) \div r[k] \in Int
    <3>1. \A k \in 1..n : r[k] \in Nat \ {0} /\ r[k + 1] \in Nat
      BY <1>1
    <3>2. \A a \in Int, b \in Nat \ {0} : a \div b \in Int
      OBVIOUS
    <3>3. QED
      BY <3>1, <3>2
  <2>3. Rates(r) \in Seq(Int) /\ Len(Rates(r)) = n
    <3>1. Rates(r) \in [1..n -> Int] /\ DOMAIN Rates(r) = 1..n
      BY <2>2 DEF Rates
    <3>2. Rates(r) \in Seq(Int)
      BY <2>1, <3>1
    <3>3. QED
      BY <2>1, <3>1, <3>2, LenProperties
  <2>4. Median2(Rates(r)) \in Int
    BY <2>1, <2>3, MedianType
  <2>5. IsFiniteSet(2..Len(r))
    <3>1. 2..Len(r) \subseteq 1..Len(r) /\ IsFiniteSet(1..Len(r))
      BY <1>1, FS_Interval
    <3>2. QED
      BY <3>1, FS_Subset
  <2>6. Cardinality(down) \in Nat
    BY <2>5, FS_Subset, FS_CardinalityType
  <2>7. /\ GrowthOf(r).down = Cardinality(down) /\ GrowthOf(r).years = n
        /\ GrowthOf(r).median = Median2(Rates(r))
    BY <1>3 DEF GrowthOf
  <2>8. QED
    BY <2>1, <2>4, <2>6, <2>7
<1>4. QED
  BY <1>2, <1>3

\* A return on capital needs a margin, and is a whole number of percent.
LEMMA RoicType ==
  ASSUME NEW p \in Profiles
  PROVE  /\ Figure(ComputeRoic(p).value)
         /\ p.margin = None => ComputeRoic(p) = Roic(None, "no_ebit")
<1>1. /\ Figure(p.margin) /\ Figure(p.revenue) /\ Figure(p.debt) /\ Figure(p.de) /\ Figure(p.cash)
      /\ Figure(p.book)
  BY ProfileFigures DEF Figure
<1>2. p.margin = None => ComputeRoic(p) = Roic(None, "no_ebit")
  BY DEF ComputeRoic
<1>3. \A a \in Int, b \in Nat \ {0} : a \div b \in Int
  OBVIOUS
<1>4. Figure(Equity(p))
  <2>1. CASE p.debt # None /\ p.de # None /\ Or0(p.debt) > 0 /\ Or0(p.de) # 0
    <3>1. p.debt \in Int /\ p.de \in Int /\ p.de # 0 /\ 100 * p.debt \in Int
      BY <1>1, <2>1 DEF Or0, Figure
    <3>2. p.de > 0 => (100 * p.debt) \div p.de \in Int
      BY <1>3, <3>1
    <3>3. ~(p.de > 0) => -((100 * p.debt) \div (-p.de)) \in Int
      <4>1. ~(p.de > 0) => -p.de \in Nat \ {0}
        BY <3>1
      <4>2. \A x \in Int : -x \in Int
        OBVIOUS
      <4>3. QED
        BY <1>3, <3>1, <4>1, <4>2
    <3>4. QED
      BY <2>1, <3>2, <3>3 DEF Equity, Figure
  <2>2. QED
    BY <1>1, <2>1 DEF Equity, Figure
<1>5. Figure(ComputeRoic(p).value)
  <2> DEFINE capital == Or0(p.debt) + Equity(p) - Or0(p.cash)
  <2> DEFINE unknown == \/ p.margin = None
                        \/ p.revenue = None
                        \/ Equity(p) = None
                        \/ (p.debt = None /\ p.cash = None)
                        \/ capital <= 0
  <2>1. CASE unknown
    BY <2>1 DEF ComputeRoic, Roic, Figure
  <2>2. CASE ~unknown
    <3>1. ComputeRoic(p).value = (p.margin * p.revenue) \div capital
      BY <2>2 DEF ComputeRoic, Roic
    <3>2. Or0(p.debt) \in Int /\ Or0(p.cash) \in Int /\ Equity(p) \in Int
      BY <1>1, <1>4, <2>2 DEF Or0, Figure
    <3>3. capital \in Nat \ {0}
      BY <2>2, <3>2
    <3>4. p.margin * p.revenue \in Int
      BY <1>1, <2>2 DEF Figure
    <3> HIDE DEF capital
    <3>5. QED
      BY <1>3, <3>1, <3>3, <3>4 DEF Figure
  <2>3. QED
    BY <2>1, <2>2
<1>6. QED
  BY <1>2, <1>5
-----------------------------------------------------------------------------
(***************************************************************************)
(* What each pass leaves behind.                                           *)
(***************************************************************************)
\* Each pass has written what it computes of the statements, and none was changed after.
Growths == \A t \in Titles : growth[t] = GrowthOf(profile[t].revenues)
Returns == \A t \in Titles : roic[t] = ComputeRoic(profile[t])
Percentiles ==
  \A t \in Titles, i \in Inputs :
    pct[t][i] = IF Value(t)[i] = None THEN None ELSE PercentileRank(t, i)
Scores == \A t \in Titles : scored[t] = ScoreRecord(t)

CohortInv ==
  /\ profile \in [Titles -> Profiles]
  /\ pass \notin {"revenues"} => Growths
  /\ pass \notin {"revenues", "roic"} => Returns
  /\ pass \notin {"revenues", "roic", "percentiles"} => Percentiles
  /\ pass \in {"report", "done"} => Scores

\* The percentiles are made of the statements, the growth and the returns.
PercentilesStay ==
  \A t, i : /\ Value(t)' = Value(t)
            /\ PercentileRank(t, i)' = PercentileRank(t, i)

\* Who leaves the figures alone leaves the percentiles alone.
LEMMA PercentilesAreOfFigures ==
  ASSUME UNCHANGED <<profile, growth, roic>>
  PROVE  PercentilesStay
  BY DEF PercentilesStay, PercentileRank, Pool, SectorPool, UseSector, Value

\* The scores are made of those and of the percentiles.
LEMMA ScoresAreOfPercentiles ==
  ASSUME UNCHANGED <<profile, growth, roic, pct>>
  PROVE  \A t : ScoreRecord(t)' = ScoreRecord(t)
  BY DEF ScoreRecord, ScoreGrowth, ScoreProfitability, ResilienceScore, DataGaps, PartialAxes,
     AssessLeverage, Loss, RoicCapApplies, ConsistencyCap, NetDebt

\* Before the first pass nothing has been computed.
LEMMA CohortInit ==
  ASSUME Init
  PROVE  CohortInv
  BY DEF Init, CohortInv

\* Every pass writes what it computes and leaves the earlier ones alone.
LEMMA CohortStep ==
  ASSUME CohortInv, [Next]_vars
  PROVE  CohortInv'
<1>1. CASE ReadRevenues
  <2>1. profile' = profile /\ pass' = "roic" /\ \A t \in Titles : growth'[t] = GrowthOf(profile[t].revenues)
    BY <1>1 DEF ReadRevenues
  <2>2. QED
    BY <2>1 DEF CohortInv, Growths
<1>2. CASE AnnotateRoic
  <2>1. /\ profile' = profile /\ growth' = growth /\ pass = "roic" /\ pass' = "percentiles"
        /\ \A t \in Titles : roic'[t] = ComputeRoic(profile[t])
    BY <1>2 DEF AnnotateRoic
  <2>2. QED
    BY <2>1 DEF CohortInv, Growths, Returns
<1>3. CASE AnnotatePercentiles
  <2>1. /\ profile' = profile /\ growth' = growth /\ roic' = roic
        /\ pass = "percentiles" /\ pass' = "steadiness"
    BY <1>3 DEF AnnotatePercentiles
  <2>2. \A t \in Titles, i \in Inputs :
          pct'[t][i] = IF Value(t)[i] = None THEN None ELSE PercentileRank(t, i)
    BY <1>3, Zenon DEF AnnotatePercentiles
  <2>3. PercentilesStay
    BY <2>1, PercentilesAreOfFigures
  <2>4. Percentiles'
    BY <2>2, <2>3 DEF Percentiles, PercentilesStay
  <2>5. QED
    BY <2>1, <2>4 DEF CohortInv, Growths, Returns
<1>4. CASE (\E on \in BOOLEAN : AnnotateSteadiness(on)) \/ (\E min \in MinDimensions : Generate(min))
           \/ UNCHANGED vars
  <2>1. /\ profile' = profile /\ growth' = growth /\ roic' = roic /\ pct' = pct
        /\ scored' = scored
        /\ \/ pass' = pass
           \/ pass = "steadiness" /\ pass' = "score"
           \/ pass = "report" /\ pass' = "done"
    BY <1>4 DEF AnnotateSteadiness, Generate, vars
  <2>2. PercentilesStay
    BY <2>1, PercentilesAreOfFigures
  <2>3. \A t : ScoreRecord(t)' = ScoreRecord(t)
    BY <2>1, ScoresAreOfPercentiles
  <2>4. (Growths' <=> Growths) /\ (Returns' <=> Returns)
    BY <2>1 DEF Growths, Returns
  <2>5. Percentiles => Percentiles'
    BY <2>1, <2>2 DEF Percentiles, PercentilesStay
  <2>6. Scores => Scores'
    BY <2>1, <2>3 DEF Scores
  <2>7. QED
    BY <2>1, <2>4, <2>5, <2>6 DEF CohortInv
<1>5. CASE ScoreRecords
  <2>1. /\ profile' = profile /\ growth' = growth /\ roic' = roic /\ pct' = pct
        /\ pass = "score" /\ pass' = "report"
        /\ \A t \in Titles : scored'[t] = ScoreRecord(t)
    BY <1>5 DEF ScoreRecords
  <2>2. PercentilesStay
    BY <2>1, PercentilesAreOfFigures
  <2>3. \A t : ScoreRecord(t)' = ScoreRecord(t)
    BY <2>1, ScoresAreOfPercentiles
  <2>4. (Growths' <=> Growths) /\ (Returns' <=> Returns)
    BY <2>1 DEF Growths, Returns
  <2>5. Percentiles => Percentiles'
    BY <2>1, <2>2 DEF Percentiles, PercentilesStay
  <2>6. Scores'
    BY <2>1, <2>3 DEF Scores
  <2>7. QED
    BY <2>1, <2>4, <2>5, <2>6 DEF CohortInv
<1>6. QED
  BY <1>1, <1>2, <1>3, <1>4, <1>5 DEF Next
-----------------------------------------------------------------------------
(***************************************************************************)
(* No input of an axis, when better, gives less.                           *)
(***************************************************************************)
Annotated == profile \in [Titles -> Profiles] /\ Growths /\ Returns /\ Percentiles

\* What the percentiles rank are numbers, where they are known.
LEMMA ValueTypes ==
  ASSUME Annotated, NEW t \in Titles
  PROVE  \A i \in Inputs : Figure(Value(t)[i])
<1>1. profile[t] \in Profiles
  BY DEF Annotated
<1>2. Figure(growth[t].median) /\ Figure(roic[t].value)
  <2>1. profile[t].revenues \in Seq(Nat \ {0})
    BY <1>1, ProfileFigures
  <2>2. growth[t] = GrowthOf(profile[t].revenues) /\ roic[t] = ComputeRoic(profile[t])
    BY DEF Annotated, Growths, Returns
  <2>3. QED
    BY <1>1, <2>1, <2>2, GrowthType, RoicType DEF Figure
<1>3. Figure(profile[t].yoy) /\ Figure(profile[t].margin) /\ Figure(profile[t].gross)
  BY <1>1, ProfileFigures DEF Figure
<1>4. QED
  BY <1>2, <1>3 DEF Value, Inputs

Rank(S, v, a) ==
  (1200 * (2 * Cardinality({x \in S : v[x] < a}) + Cardinality({x \in S : v[x] = a})))
    \div Cardinality(S)

\* The percentile rank of a greater value in the same pool is not less.
LEMMA RankIsMonotone ==
  ASSUME NEW S, IsFiniteSet(S), S # {}, NEW v, \A x \in S : v[x] \in Int,
         NEW a \in Int, NEW b \in Int, a <= b
  PROVE  Rank(S, v, a) \in Int /\ Rank(S, v, b) \in Int /\ Rank(S, v, a) <= Rank(S, v, b)
<1> DEFINE Below(y) == {x \in S : v[x] < y}
           Equal(y) == {x \in S : v[x] = y}
           B(y) == Cardinality(Below(y))
           E(y) == Cardinality(Equal(y))
           n == Cardinality(S)
           Sum(y) == 1200 * (2 * B(y) + E(y))
<1>1. ASSUME NEW y \in Int
      PROVE  /\ IsFiniteSet(Below(y)) /\ IsFiniteSet(Equal(y)) /\ B(y) \in Nat /\ E(y) \in Nat
             /\ IsFiniteSet(Below(y) \cup Equal(y))
             /\ Cardinality(Below(y) \cup Equal(y)) = B(y) + E(y)
  <2>1. Below(y) \in SUBSET S /\ Equal(y) \in SUBSET S /\ Below(y) \cap Equal(y) = {}
    OBVIOUS
  <2> HIDE DEF Below, Equal
  <2>2. IsFiniteSet(Below(y)) /\ IsFiniteSet(Equal(y))
    BY <2>1, FS_Subset
  <2>3. B(y) \in Nat /\ E(y) \in Nat
    BY <2>2, FS_CardinalityType
  <2>4. /\ IsFiniteSet(Below(y) \cup Equal(y))
        /\ Cardinality(Below(y) \cup Equal(y)) = B(y) + E(y) - Cardinality({})
    BY <2>1, <2>2, FS_Union
  <2>5. Cardinality({}) = 0
    BY FS_EmptySet
  <2>6. QED
    BY <2>2, <2>3, <2>4, <2>5
<1>2. Below(a) \in SUBSET Below(b)
  OBVIOUS
<1>3. Below(a) \cup Equal(a) \in SUBSET (Below(b) \cup Equal(b))
  OBVIOUS
<1>4. \A y : Rank(S, v, y) = Sum(y) \div n
  BY DEF Rank
<1>5. n \in Nat \ {0}
  BY FS_CardinalityType, FS_EmptySet
<1> HIDE DEF Below, Equal, n
<1>6. B(a) <= B(b)
  BY <1>1, <1>2, FS_Subset
<1>7. B(a) + E(a) <= B(b) + E(b)
  <2>1. Cardinality(Below(a) \cup Equal(a)) <= Cardinality(Below(b) \cup Equal(b))
    BY <1>1, <1>3, FS_Subset
  <2>2. QED
    BY <1>1, <2>1
<1>8. B(a) \in Nat /\ E(a) \in Nat /\ B(b) \in Nat /\ E(b) \in Nat
  BY <1>1
<1> HIDE DEF B, E
<1>9. Sum(a) \in Int /\ Sum(b) \in Int /\ Sum(a) <= Sum(b)
  BY <1>6, <1>7, <1>8
<1> HIDE DEF Sum
<1>10. QED
  BY <1>4, <1>5, <1>9, DivisionIsMonotone

\* Titles of one sector are ranked in one pool.
LEMMA PercentileIsMonotone ==
  ASSUME Annotated, NEW t \in Titles, NEW u \in Titles, NEW i \in Inputs,
         profile[t].sector = profile[u].sector,
         Value(t)[i] # None, Value(u)[i] # None, Value(u)[i] <= Value(t)[i]
  PROVE  pct[t][i] \in Int /\ pct[u][i] \in Int /\ pct[u][i] <= pct[t][i]
<1> DEFINE v == [x \in Titles |-> Value(x)[i]]
           S == Pool(t, i)
<1>1. Pool(u, i) = S
  BY DEF Pool, SectorPool, UseSector
<1>2. S \in SUBSET Titles /\ t \in S
  BY DEF Pool, SectorPool
<1>3. IsFiniteSet(S)
  BY <1>2, ScoringConstants, FS_Subset
<1>4. \A x \in S : Value(x)[i] \in Int
  <2>1. \A x \in S : Value(x)[i] # None
    BY DEF Pool
  <2>2. QED
    BY <1>2, <2>1, ValueTypes DEF Figure
<1>5. Value(t)[i] \in Int /\ Value(u)[i] \in Int
  BY ValueTypes DEF Figure
<1> HIDE DEF S
<1>6. ASSUME NEW x \in {t, u}
      PROVE  PercentileRank(x, i) = Rank(S, v, Value(x)[i])
  <2>1. Pool(x, i) = S
    BY <1>1 DEF S
  <2>2. /\ {y \in S : v[y] < Value(x)[i]} = {y \in S : Value(y)[i] < Value(x)[i]}
        /\ {y \in S : v[y] = Value(x)[i]} = {y \in S : Value(y)[i] = Value(x)[i]}
    BY <1>2
  <2> DEFINE Ranks(P) == (1200 * (2 * Cardinality({y \in P : Value(y)[i] < Value(x)[i]})
                                    + Cardinality({y \in P : Value(y)[i] = Value(x)[i]})))
                           \div Cardinality(P)
  <2>3. PercentileRank(x, i) = Ranks(Pool(x, i))
    BY Zenon DEF PercentileRank
  <2> HIDE DEF v
  <2>4. /\ Cardinality({y \in S : v[y] < Value(x)[i]}) = Cardinality({y \in S : Value(y)[i] < Value(x)[i]})
        /\ Cardinality({y \in S : v[y] = Value(x)[i]}) = Cardinality({y \in S : Value(y)[i] = Value(x)[i]})
    BY <2>2
  <2>5. Rank(S, v, Value(x)[i]) =
          (1200 * (2 * Cardinality({y \in S : v[y] < Value(x)[i]})
                     + Cardinality({y \in S : v[y] = Value(x)[i]}))) \div Cardinality(S)
    BY DEF Rank
  <2>6. Rank(S, v, Value(x)[i]) = Ranks(S)
    BY <2>4, <2>5
  <2> HIDE DEF Ranks
  <2>7. QED
    BY <2>1, <2>3, <2>6
<1>7. \A x \in S : v[x] \in Int
  BY <1>2, <1>4
<1> HIDE DEF v
<1>8. /\ Rank(S, v, Value(u)[i]) \in Int /\ Rank(S, v, Value(t)[i]) \in Int
      /\ Rank(S, v, Value(u)[i]) <= Rank(S, v, Value(t)[i])
  <2>1. S # {}
    BY <1>2
  <2>2. QED
    BY <1>3, <1>5, <1>7, <2>1, RankIsMonotone
<1>9. pct[t][i] = PercentileRank(t, i) /\ pct[u][i] = PercentileRank(u, i)
  BY DEF Annotated, Percentiles
<1>10. QED
  BY <1>6, <1>8, <1>9

\* A greater mean has no lower points.
LEMMA PointsAreMonotone ==
  ASSUME NEW a \in Int, NEW b \in Int, a <= b, NEW n \in {1, 2}
  PROVE  PercentileToScore(a, n) <= PercentileToScore(b, n)
<1>1. PercentileToScore(a, 1) <= PercentileToScore(b, 1)
  BY DEF PercentileToScore
<1>2. PercentileToScore(a, 2) <= PercentileToScore(b, 2)
  BY DEF PercentileToScore
<1>3. QED
  BY <1>1, <1>2

\* A greater share of down years has no higher cap.
LEMMA CapIsMonotone ==
  ASSUME NEW g, NEW h, g.down \in Nat, h.down \in Nat, g.years \in Nat \ {0}, h.years \in Nat \ {0},
         h.down * g.years >= g.down * h.years
  PROVE  ConsistencyCap(h) <= ConsistencyCap(g)
<1>1. \A a, b, n \in Int : n > 0 /\ a * n <= b * n => a <= b
  OBVIOUS
<1> DEFINE dg == g.down
           dh == h.down
           yg == g.years
           yh == h.years
<1>2. dg \in Nat /\ dh \in Nat /\ yg \in Nat \ {0} /\ yh \in Nat \ {0} /\ dh * yg >= dg * yh
  OBVIOUS
<1>3. /\ ConsistencyCap(g) = IF 4 * (yg - dg) >= 3 * yg THEN 5 ELSE IF 2 * (yg - dg) >= yg THEN 4 ELSE 3
      /\ ConsistencyCap(h) = IF 4 * (yh - dh) >= 3 * yh THEN 5 ELSE IF 2 * (yh - dh) >= yh THEN 4 ELSE 3
  BY ProfileFigures DEF ConsistencyCap
<1> HIDE DEF dg, dh, yg, yh
<1>4. ASSUME NEW k \in Nat \ {0}, k * dh <= yh
      PROVE  k * dg <= yg
  <2>1. (k * dg) * yh = k * (dg * yh) /\ (k * dh) * yg = k * (dh * yg)
    BY <1>2
  <2>2. k * (dg * yh) <= k * (dh * yg)
    BY <1>2
  <2>3. (k * dh) * yg <= yh * yg
    BY <1>2, <1>4
  <2>4. (k * dg) * yh <= yg * yh
    BY <1>2, <2>1, <2>2, <2>3
  <2>5. QED
    BY <1>1, <1>2, <2>4
<1>5. (4 * dh <= yh => 4 * dg <= yg) /\ (2 * dh <= yh => 2 * dg <= yg)
  BY <1>4
<1>6. QED
  BY <1>2, <1>3, <1>5
-----------------------------------------------------------------------------
(***************************************************************************)
(* The axes, one by one.                                                   *)
(***************************************************************************)
\* What WithholdingNeverPays says of two titles and the points x and y of an axis.
NotAbove(u, a, x, y) == x <= IF MissesInput(u, a) THEN Max2(3, y) ELSE y

\* Fewer points are never above more; with a missing input three are neutral.
LEMMA NotAboveHolds ==
  ASSUME NEW u, NEW a, NEW x \in 0..5, NEW y \in 0..5,
         x <= y \/ (MissesInput(u, a) /\ x <= 3)
  PROVE  NotAbove(u, a, x, y)
  BY DEF NotAbove, Max2

\* Which figures of the cohort each axis is ranked by.
LEMMA InputsOfAxes ==
  /\ AxisInputs("growth") = {"median"}
  /\ AxisInputs("profitability") = {"margin", "roic"}
  /\ AxisInputs("resilience") = {"gross"}
  /\ {"median", "margin", "roic", "gross"} \subseteq Inputs
  BY DEF AxisInputs, Inputs

\* Growth: a worse median or dip never gives more points, a missing one never more than three.
LEMMA GrowthIsMonotone ==
  ASSUME Annotated, NEW t \in Titles, NEW u \in Titles, NotBetter(u, t, "growth")
  PROVE  NotAbove(u, "growth", ScoreGrowth(u), ScoreGrowth(t))
<1>1. /\ profile[t].sector = profile[u].sector /\ Value(t).median # None
      /\ Value(u).median # None => Value(u).median <= Value(t).median
      /\ \/ growth[u].down = None
         \/ growth[u].down * growth[t].years >= growth[t].down * growth[u].years
  BY InputsOfAxes DEF NotBetter
<1>2. \A x \in Titles : Value(x).median = growth[x].median
  BY DEF Value
<1>3. ScoreGrowth(t) \in 0..5 /\ ScoreGrowth(u) \in 0..5
  BY PointsAreFew
<1>4. CASE Value(u).median = None
  <2>1. pct[u].median = None
    BY <1>4, InputsOfAxes DEF Annotated, Percentiles
  <2>2. MissesInput(u, "growth")
    BY <1>4, InputsOfAxes DEF MissesInput
  <2> DEFINE base == IF pct[u].yoy = None THEN 3 ELSE PercentileToScore(pct[u].yoy, 1)
  <2>3. base \in 0..5 /\ ConsistencyCap(growth[u]) \in 0..5
    BY PointsAreFew
  <2> HIDE DEF base
  <2>4. ScoreGrowth(u) = Min2(Min2(base, 3), ConsistencyCap(growth[u]))
    BY <2>1, Zenon DEF ScoreGrowth, base, MISSING_INPUT_CAP
  <2>5. ScoreGrowth(u) <= 3
    BY <2>3, <2>4 DEF Min2
  <2>6. QED
    BY <1>3, <2>2, <2>5, NotAboveHolds
<1>5. CASE Value(u).median # None
  <2>1. pct[u].median \in Int /\ pct[t].median \in Int /\ pct[u].median <= pct[t].median
    BY <1>1, <1>5, InputsOfAxes, PercentileIsMonotone
  <2>2. /\ pct[u].median # None /\ pct[t].median # None
    BY <2>1, ProfileFigures
  <2>3. ASSUME NEW x \in {t, u}
        PROVE  /\ growth[x].down \in Nat /\ growth[x].years \in Nat \ {0} /\ growth[x].median \in Int
    <3>1. profile[x].revenues \in Seq(Nat \ {0})
      BY ProfileFigures DEF Annotated
    <3>2. growth[x] = GrowthOf(profile[x].revenues) /\ growth[x].median # None
      BY <1>1, <1>2, <1>5 DEF Annotated, Growths
    <3>3. QED
      BY <3>1, <3>2, GrowthType
  <2>4. growth[u].down * growth[t].years >= growth[t].down * growth[u].years
    BY <1>1, <2>3, ProfileFigures
  <2> DEFINE P(x) == PercentileToScore(pct[x].median, 1)
             C(x) == ConsistencyCap(growth[x])
             capped(x) == Min2(P(x), C(x))
             steady(x) == growth[x].median >= 10 /\ growth[x].down = 0
  <2>5. C(u) <= C(t)
    BY <2>3, <2>4, CapIsMonotone
  <2>6. P(u) <= P(t)
    BY <2>1, PointsAreMonotone
  <2>7. \A x \in {t, u} : P(x) \in 0..5 /\ C(x) \in 0..5
    BY PointsAreFew
  <2>8. \A x \in {t, u} : ScoreGrowth(x) = IF steady(x) THEN Max2(capped(x), 4) ELSE capped(x)
    BY <2>2, Zenon DEF ScoreGrowth
  <2>9. steady(u) => steady(t)
    <3>1. SUFFICES ASSUME steady(u) PROVE steady(t)
      OBVIOUS
    <3>2. growth[t].median >= 10
      BY <1>1, <1>2, <1>5, <2>3, <3>1
    <3>3. growth[t].down = 0
      <4>1. \A a, b \in Nat : b # 0 /\ 0 >= a * b => a = 0
        OBVIOUS
      <4>2. growth[u].down * growth[t].years = 0
        BY <2>3, <3>1
      <4>3. QED
        BY <2>3, <2>4, <4>1, <4>2
    <3>4. QED
      BY <3>2, <3>3
  <2> HIDE DEF P, C, steady
  <2>10. ScoreGrowth(u) <= ScoreGrowth(t)
    BY <2>5, <2>6, <2>7, <2>8, <2>9 DEF Min2, Max2
  <2>11. QED
    BY <1>3, <2>10, NotAboveHolds
<1>6. QED
  BY <1>4, <1>5

\* Profitability: nor does a worse or missing margin or return on capital.
LEMMA ProfitabilityIsMonotone ==
  ASSUME Annotated, NEW t \in Titles, NEW u \in Titles, NotBetter(u, t, "profitability")
  PROVE  NotAbove(u, "profitability", ScoreProfitability(u), ScoreProfitability(t))
<1>1. /\ profile[t].sector = profile[u].sector
      /\ Value(t).margin # None /\ Value(t).roic # None
      /\ Value(u).margin # None => Value(u).margin <= Value(t).margin
      /\ Value(u).roic # None => Value(u).roic <= Value(t).roic
      /\ Value(u).roic # None \/ RoicCapApplies(u)
  BY InputsOfAxes DEF NotBetter
<1>2. \A x \in Titles : Value(x).margin = profile[x].margin /\ Value(x).roic = roic[x].value
  BY DEF Value
<1>3. ScoreProfitability(t) \in 0..5 /\ ScoreProfitability(u) \in 0..5
  BY PointsAreFew
<1> DEFINE known(x) == {i \in {"margin", "roic"} : pct[x][i] # None}
           sum(x) == (IF "margin" \in known(x) THEN pct[x].margin ELSE 0)
                       + (IF "roic" \in known(x) THEN pct[x].roic ELSE 0)
           mean(x) == IF known(x) = {} THEN 3
                      ELSE PercentileToScore(sum(x), Cardinality(known(x)))
           score(x) == IF Loss(x) THEN 0 ELSE mean(x)
<1>4. \A x \in Titles :
        ScoreProfitability(x) =
          IF roic[x].value = None /\ RoicCapApplies(x) THEN Min2(score(x), 3) ELSE score(x)
  BY Zenon DEF ScoreProfitability, MISSING_INPUT_CAP
<1>5. \A x \in Titles : mean(x) \in 0..5 /\ score(x) \in 0..5
  <2>1. \A x \in Titles : mean(x) \in 0..5
    BY PointsAreFew
  <2> HIDE DEF mean
  <2>2. QED
    BY <2>1
<1>6. CASE Value(u).roic = None
  <2>1. MissesInput(u, "profitability")
    BY <1>6, InputsOfAxes DEF MissesInput
  <2> HIDE DEF score
  <2>2. ScoreProfitability(u) <= 3
    BY <1>1, <1>2, <1>4, <1>5, <1>6 DEF Min2
  <2>3. QED
    BY <1>3, <2>1, <2>2, NotAboveHolds
<1>7. CASE Value(u).roic # None
  <2>1. Value(u).margin # None
    <3>1. profile[u] \in Profiles /\ roic[u] = ComputeRoic(profile[u])
      BY DEF Annotated, Returns
    <3>2. profile[u].margin = None => roic[u].value = None
      BY <3>1, RoicType DEF Roic
    <3>3. QED
      BY <1>2, <1>7, <3>2
  <2>2. ASSUME NEW i \in {"margin", "roic"}
        PROVE  pct[u][i] \in Int /\ pct[t][i] \in Int /\ pct[u][i] <= pct[t][i]
    <3>1. i \in Inputs /\ Value(t)[i] # None /\ Value(u)[i] # None /\ Value(u)[i] <= Value(t)[i]
      BY <1>1, <1>7, <2>1, InputsOfAxes
    <3>2. QED
      BY <1>1, <3>1, PercentileIsMonotone
  <2>3. known(u) = {"margin", "roic"} /\ known(t) = {"margin", "roic"}
    BY <2>2, ProfileFigures
  <2>4. Cardinality({"margin", "roic"}) = 2
    <3>1. /\ IsFiniteSet({"margin"}) /\ Cardinality({"margin"}) = 1
          /\ IsFiniteSet({"roic"}) /\ Cardinality({"roic"}) = 1
      BY FS_Singleton
    <3>2. Cardinality({"margin"} \cup {"roic"}) = 1 + 1 - Cardinality({"margin"} \cap {"roic"})
      BY <3>1, FS_Union
    <3>3. {"margin"} \cap {"roic"} = {} /\ {"margin"} \cup {"roic"} = {"margin", "roic"}
      OBVIOUS
    <3>4. QED
      BY <3>2, <3>3, FS_EmptySet
  <2>5. ASSUME NEW x \in {t, u}
        PROVE  mean(x) = PercentileToScore(sum(x), 2) /\ sum(x) = pct[x].margin + pct[x].roic
    BY <2>3, <2>4
  <2> HIDE DEF known, sum
  <2>6. sum(u) \in Int /\ sum(t) \in Int /\ sum(u) <= sum(t)
    <3>1. /\ pct[u].margin \in Int /\ pct[t].margin \in Int /\ pct[u].margin <= pct[t].margin
          /\ pct[u].roic \in Int /\ pct[t].roic \in Int /\ pct[u].roic <= pct[t].roic
      BY <2>2
    <3>2. sum(u) = pct[u].margin + pct[u].roic /\ sum(t) = pct[t].margin + pct[t].roic
      BY <2>5
    <3>3. QED
      BY <3>1, <3>2
  <2>7. mean(u) <= mean(t)
    <3>1. PercentileToScore(sum(u), 2) <= PercentileToScore(sum(t), 2)
      BY <2>6, PointsAreMonotone
    <3>2. QED
      BY <2>5, <3>1
  <2>8. Loss(t) => Loss(u)
    <3>1. /\ \A x \in {t, u} : Value(x).margin \in Int /\ Value(x).roic \in Int
      BY <1>1, <1>7, <2>1, ValueTypes, InputsOfAxes DEF Figure
    <3>2. QED
      BY <1>1, <1>2, <1>7, <2>1, <3>1 DEF Loss, Or0
  <2> HIDE DEF mean
  <2>9. score(u) <= score(t)
    BY <1>5, <2>7, <2>8
  <2> HIDE DEF score
  <2>10. ScoreProfitability(u) = score(u) /\ ScoreProfitability(t) = score(t)
    BY <1>1, <1>2, <1>4, <1>7
  <2>11. QED
    BY <1>3, <2>9, <2>10, NotAboveHolds
<1>8. QED
  BY <1>6, <1>7

\* Less debt for the profit has no lower band.
LEMMA BandIsMonotone ==
  ASSUME NEW nt \in Int, NEW et \in Nat \ {0}, NEW nu \in Int, NEW eu \in Nat \ {0},
         nt * eu <= nu * et
  PROVE  /\ BandFor(nu, eu) # None => BandFor(nt, et) # None /\ BandFor(nu, eu) <= BandFor(nt, et)
         /\ BandFor(nt, et) # None => BandFor(nt, et) \in 0..100
         /\ BandFor(nu, eu) # None => BandFor(nu, eu) \in 0..100
<1>1. \A a, b, n \in Int : n > 0 /\ a * n <= b * n => a <= b
  OBVIOUS
<1>2. ASSUME NEW k \in Nat, nu <= k * eu
      PROVE  nt <= k * et
  <2>1. nu * et <= (k * eu) * et /\ (k * eu) * et = (k * et) * eu
    BY <1>2
  <2>2. nt * eu <= (k * et) * eu
    BY <2>1
  <2>3. QED
    BY <1>1, <2>2
<1>3. /\ nu <= 0 => nt <= 0
      /\ nu <= eu => nt <= et
      /\ nu <= 2 * eu => nt <= 2 * et
      /\ nu <= 3 * eu => nt <= 3 * et
      /\ nu <= 4 * eu => nt <= 4 * et
  <2>1. nu <= 0 * eu => nt <= 0 * et
    BY <1>2
  <2>2. nu <= 1 * eu => nt <= 1 * et
    BY <1>2
  <2>3. QED
    BY <1>2, <2>1, <2>2
<1>4. \A a \in Int, b \in Nat \ {0} :
        \/ a <= 0 /\ BandFor(a, b) = 100
        \/ ~(a <= 0) /\ a <= b /\ BandFor(a, b) = 85
        \/ ~(a <= b) /\ a <= 2 * b /\ BandFor(a, b) = 65
        \/ ~(a <= 2 * b) /\ a <= 3 * b /\ BandFor(a, b) = 45
        \/ ~(a <= 3 * b) /\ a <= 4 * b /\ BandFor(a, b) = 25
        \/ ~(a <= 4 * b) /\ BandFor(a, b) = None
  BY DEF BandFor
<1>5. /\ BandFor(nt, et) # None => BandFor(nt, et) \in 0..100
      /\ BandFor(nu, eu) # None => BandFor(nu, eu) \in 0..100
  BY <1>4
<1>6. ASSUME BandFor(nu, eu) # None
      PROVE  BandFor(nt, et) # None
  BY <1>3, <1>4, <1>6, ProfileFigures
<1>7. ASSUME BandFor(nu, eu) # None
      PROVE  BandFor(nu, eu) <= BandFor(nt, et)
  BY <1>3, <1>4, <1>6, <1>7
<1>8. QED
  BY <1>5, <1>6, <1>7

\* The leverage of a title whose debt and profit are known has a band or a flag.
LEMMA KnownLeverage ==
  ASSUME NEW p, NetDebt(p) \in Int, p.ebitda \in Nat \ {0}
  PROVE  AssessLeverage(p) =
           IF BandFor(NetDebt(p), p.ebitda) # None
           THEN Leverage(BandFor(NetDebt(p), p.ebitda), None, {})
           ELSE IF p.sector \in STRUCTURAL_LEVERAGE_SECTORS THEN Leverage(0, None, {})
           ELSE Leverage(None, "net_debt_to_ebitda_above_4", {})
<1>1. NetDebt(p) # None /\ p.ebitda # None /\ ~(p.ebitda <= 0)
  BY ProfileFigures
<1>2. QED
  BY <1>1 DEF AssessLeverage

\* Where the leverage has gaps, it has neither band nor flag.
LEMMA GapsAreGaps ==
  ASSUME NEW p, AssessLeverage(p).gaps # {}
  PROVE  AssessLeverage(p).band = None /\ AssessLeverage(p).flag = None
<1>1. CASE NetDebt(p) = None \/ p.ebitda = None
  BY <1>1 DEF AssessLeverage, Leverage
<1>2. CASE ~(NetDebt(p) = None \/ p.ebitda = None)
  BY <1>2 DEF AssessLeverage, Leverage
<1>3. QED
  BY <1>1, <1>2

\* Resilience: nor does a worse leverage, an unknown one, or a worse gross margin.
LEMMA ResilienceIsMonotone ==
  ASSUME Annotated, NEW t \in Titles, NEW u \in Titles, NotBetter(u, t, "resilience")
  PROVE  NotAbove(u, "resilience", ResilienceScore(pct[u].gross, AssessLeverage(profile[u])),
                                   ResilienceScore(pct[t].gross, AssessLeverage(profile[t])))
<1> DEFINE lev(x) == AssessLeverage(profile[x])
           R(x) == ResilienceScore(pct[x].gross, lev(x))
<1>1. /\ profile[t].sector = profile[u].sector /\ Value(t).gross # None
      /\ Value(u).gross # None => Value(u).gross <= Value(t).gross
      /\ LessIndebted(t, u) \/ lev(u).gaps # {}
  BY InputsOfAxes DEF NotBetter
<1>2. \A x \in Titles : R(x) \in 0..5
  BY PointsAreFew
<1>3. CASE Value(u).gross = None
  <2>1. pct[u].gross = None
    BY <1>3, InputsOfAxes DEF Annotated, Percentiles
  <2>2. MissesInput(u, "resilience")
    BY <1>3, InputsOfAxes DEF MissesInput
  <2>3. PercentileToScore(24 * lev(u).band, 1) \in 0..5
    BY PointsAreFew
  <2> HIDE DEF lev
  <2>4. R(u) <= 3
    BY <2>1, <2>3 DEF ResilienceScore, Min2, MISSING_INPUT_CAP
  <2> HIDE DEF R
  <2>5. NotAbove(u, "resilience", R(u), R(t))
    BY <1>2, <2>2, <2>4, NotAboveHolds
  <2>6. QED
    BY <2>5 DEF R, lev
<1>4. CASE lev(u).gaps # {}
  <2>1. lev(u).band = None /\ lev(u).flag = None
    BY <1>4, GapsAreGaps
  <2>2. MissesInput(u, "resilience")
    BY <1>4 DEF MissesInput
  <2>3. PercentileToScore(pct[u].gross, 1) \in 0..5
    BY PointsAreFew
  <2> HIDE DEF lev
  <2>4. R(u) <= 3
    BY <2>1, <2>3 DEF ResilienceScore, Min2, MISSING_INPUT_CAP
  <2> HIDE DEF R
  <2>5. NotAbove(u, "resilience", R(u), R(t))
    BY <1>2, <2>2, <2>4, NotAboveHolds
  <2>6. QED
    BY <2>5 DEF R, lev
<1>5. CASE Value(u).gross # None /\ LessIndebted(t, u)
  <2>1. pct[u].gross \in Int /\ pct[t].gross \in Int /\ pct[u].gross <= pct[t].gross
    BY <1>1, <1>5, InputsOfAxes, PercentileIsMonotone
  <2>2. pct[u].gross # None /\ pct[t].gross # None
    BY <2>1, ProfileFigures
  <2> DEFINE nd(x) == NetDebt(profile[x])
             e(x) == profile[x].ebitda
             band(x) == BandFor(nd(x), e(x))
  <2>3. ASSUME NEW x \in {t, u}
        PROVE  nd(x) \in Int /\ e(x) \in Nat \ {0}
    <3>1. profile[x] \in Profiles
      BY DEF Annotated
    <3>2. Figure(profile[x].debt) /\ Figure(profile[x].cash) /\ Figure(profile[x].ebitda)
      BY <3>1, ProfileFigures DEF Figure
    <3>3. nd(x) # None /\ e(x) # None /\ e(x) > 0
      BY <1>5 DEF LessIndebted
    <3>4. e(x) \in Nat \ {0}
      BY <3>2, <3>3 DEF Figure
    <3>5. nd(x) = Or0(profile[x].debt) - Or0(profile[x].cash)
      BY <3>3 DEF NetDebt
    <3>6. Or0(profile[x].debt) \in Int /\ Or0(profile[x].cash) \in Int
      BY <3>2 DEF Or0, Figure
    <3>7. QED
      BY <3>4, <3>5, <3>6
  <2>4. nd(t) * e(u) <= nd(u) * e(t)
    BY <1>5 DEF LessIndebted
  <2>5. ASSUME NEW x \in {t, u}
        PROVE  lev(x) = IF band(x) # None THEN Leverage(band(x), None, {})
                        ELSE IF profile[t].sector \in STRUCTURAL_LEVERAGE_SECTORS
                        THEN Leverage(0, None, {})
                        ELSE Leverage(None, "net_debt_to_ebitda_above_4", {})
    <3>1. profile[x].sector = profile[t].sector
      BY <1>1
    <3>2. QED
      BY <2>3, <3>1, KnownLeverage
  <2> HIDE DEF nd, e
  <2>6. /\ band(u) # None => band(t) # None /\ band(u) <= band(t)
        /\ band(t) # None => band(t) \in 0..100
        /\ band(u) # None => band(u) \in 0..100
    BY <2>3, <2>4, BandIsMonotone
  <2> HIDE DEF band, lev
  <2>7. CASE lev(u).flag # None
    <3>1. R(u) = 0
      BY <2>7 DEF ResilienceScore
    <3> HIDE DEF R
    <3>2. NotAbove(u, "resilience", R(u), R(t))
      BY <1>2, <3>1, NotAboveHolds
    <3>3. QED
      BY <3>2 DEF R, lev
  <2>8. CASE lev(u).flag = None
    <3>1. /\ lev(t).flag = None
          /\ lev(u).band \in 0..100 /\ lev(t).band \in 0..100 /\ lev(u).band <= lev(t).band
      <4>1. "net_debt_to_ebitda_above_4" # None
        BY ProfileFigures
      <4>2. QED
        BY <2>5, <2>6, <2>8, <4>1 DEF Leverage
    <3>2. lev(u).band # None /\ lev(t).band # None
      BY <3>1, ProfileFigures
    <3> DEFINE sum(x) == 24 * lev(x).band + pct[x].gross
    <3>3. R(u) = PercentileToScore(sum(u), 2) /\ R(t) = PercentileToScore(sum(t), 2)
      BY <2>2, <2>8, <3>1, <3>2 DEF ResilienceScore
    <3>4. sum(u) \in Int /\ sum(t) \in Int /\ sum(u) <= sum(t)
      <4>1. \A a, b \in 0..100, c, d \in Int :
              /\ 24 * a + c \in Int
              /\ a <= b /\ c <= d => 24 * a + c <= 24 * b + d
        OBVIOUS
      <4>2. QED
        BY <2>1, <3>1, <4>1
    <3> HIDE DEF sum, R
    <3>5. R(u) <= R(t)
      BY <3>3, <3>4, PointsAreMonotone
    <3>6. NotAbove(u, "resilience", R(u), R(t))
      BY <1>2, <3>5, NotAboveHolds
    <3>7. QED
      BY <3>6 DEF R, lev
  <2>9. QED
    BY <2>7, <2>8
<1>6. QED
  BY <1>1, <1>3, <1>4, <1>5

\* For any cohort, any figures and any pools: no input of an axis, left out or made worse,
\* gives a title more points on it.
THEOREM NoInputPaysByAbsence == Spec => []WithholdingNeverPays
<1>1. ASSUME CohortInv PROVE WithholdingNeverPays
  <2>1. SUFFICES ASSUME pass \in {"report", "done"}, NEW t \in Titles, NEW u \in Titles,
                        NEW a \in Axes, NotBetter(u, t, a)
                 PROVE  NotAbove(u, a, scored[u].dims[a], scored[t].dims[a])
    BY DEF WithholdingNeverPays, NotAbove
  <2>2. Annotated /\ Scores
    BY <1>1, <2>1 DEF CohortInv, Annotated
  <2>3. ASSUME NEW x \in {t, u}
        PROVE  /\ scored[x].dims["growth"] = ScoreGrowth(x)
               /\ scored[x].dims["profitability"] = ScoreProfitability(x)
               /\ scored[x].dims["resilience"] =
                    ResilienceScore(pct[x].gross, AssessLeverage(profile[x]))
    <3>1. scored[x] = ScoreRecord(x)
      BY <2>2 DEF Scores
    <3>2. ScoreRecord(x).dims =
            [y \in Axes |-> CASE y = "growth" -> ScoreGrowth(x)
                              [] y = "profitability" -> ScoreProfitability(x)
                              [] y = "resilience" ->
                                   ResilienceScore(pct[x].gross, AssessLeverage(profile[x]))]
      BY Zenon DEF ScoreRecord
    <3>3. "growth" \in Axes /\ "profitability" \in Axes /\ "resilience" \in Axes
      BY DEF Axes
    <3>4. QED
      BY <3>1, <3>2, <3>3
  <2>4. CASE a = "growth"
    BY <2>1, <2>2, <2>3, <2>4, GrowthIsMonotone
  <2>5. CASE a = "profitability"
    BY <2>1, <2>2, <2>3, <2>5, ProfitabilityIsMonotone
  <2>6. CASE a = "resilience"
    BY <2>1, <2>2, <2>3, <2>6, ResilienceIsMonotone
  <2>7. QED
    BY <2>4, <2>5, <2>6 DEF Axes
<1>2. QED
  BY <1>1, CohortInit, CohortStep, PTL DEF Spec
-----------------------------------------------------------------------------
(***************************************************************************)
(* Steadiness.                                                             *)
(***************************************************************************)
Common(s) ==
  {y \in DOMAIN s.revenue \cap DOMAIN s.operating \cap DOMAIN s.net : s.revenue[y] > 0}

Window(s) ==
  {y \in Common(s) : /\ \A z \in Common(s) : z <= y + 9
                     /\ \A z \in y..(y + 9) : (\E w \in Common(s) : w >= z) => z \in Common(s)}

\* A year that counts has all three figures, and margins.
LEMMA CommonYears ==
  ASSUME NEW s, IsSeries(s)
  PROVE  /\ IsFiniteSet(Common(s)) /\ Common(s) \in SUBSET Nat
         /\ \A y \in Common(s) : MarginIn(s, s.operating, y) \in Int /\ MarginIn(s, s.net, y) \in Int
<1>1. /\ IsFiniteSet(DOMAIN s.revenue) /\ DOMAIN s.revenue \subseteq Nat
      /\ \A y \in DOMAIN s.revenue : s.revenue[y] \in Int
      /\ \A y \in DOMAIN s.operating : s.operating[y] \in Int
      /\ \A y \in DOMAIN s.net : s.net[y] \in Int
  BY DEF IsSeries
<1>2. Common(s) \in SUBSET DOMAIN s.revenue
  BY DEF Common
<1>3. IsFiniteSet(Common(s))
  BY <1>1, <1>2, FS_Subset
<1>4. \A a \in Int, b \in Nat \ {0} : (100000 * a) \div b \in Int
  OBVIOUS
<1>5. ASSUME NEW y \in Common(s)
      PROVE  s.revenue[y] \in Nat \ {0} /\ s.operating[y] \in Int /\ s.net[y] \in Int
  BY <1>1 DEF Common
<1>6. QED
  BY <1>1, <1>2, <1>3, <1>4, <1>5 DEF MarginIn

\* The years of a set that reach its newest without a gap and are at most k before it.
Back(common, last, k) == {y \in common : y + k >= last /\ \A z \in y..last : z \in common}

IsBack(b, common, last) ==
  b = [k \in 0..(WINDOW_MAX - 1) |->
         IF k = 0 THEN {last}
         ELSE IF last - k \in common /\ last - k + 1 \in b[k - 1]
              THEN b[k - 1] \cup {last - k} ELSE b[k - 1]]

\* Walking back from the last year adds the year before, until one is not there.
LEMMA BackSteps ==
  ASSUME NEW common \in SUBSET Nat, NEW last \in common, \A z \in common : z <= last
  PROVE  /\ Back(common, last, 0) = {last}
         /\ \A k \in Nat \ {0} :
              Back(common, last, k) =
                IF last - k \in common /\ last - k + 1 \in Back(common, last, k - 1)
                THEN Back(common, last, k - 1) \cup {last - k}
                ELSE Back(common, last, k - 1)
<1>1. Back(common, last, 0) = {last}
  <2>1. last \in Nat /\ \A z \in last..last : z = last
    OBVIOUS
  <2>2. last \in Back(common, last, 0)
    BY <2>1 DEF Back
  <2>3. ASSUME NEW y \in Back(common, last, 0)
        PROVE  y = last
    <3>1. y \in common /\ y + 0 >= last
      BY DEF Back
    <3>2. y \in Nat /\ y <= last
      BY <3>1
    <3>3. QED
      BY <2>1, <3>1, <3>2
  <2>4. QED
    BY <2>2, <2>3
<1>2. ASSUME NEW k \in Nat \ {0}
      PROVE  Back(common, last, k) =
               IF last - k \in common /\ last - k + 1 \in Back(common, last, k - 1)
               THEN Back(common, last, k - 1) \cup {last - k}
               ELSE Back(common, last, k - 1)
  <2> DEFINE A == Back(common, last, k)
             B == Back(common, last, k - 1)
  <2>1. \A y \in common : (y \in A <=> (y + k >= last /\ \A z \in y..last : z \in common))
    BY DEF Back
  <2>2. \A y \in common : (y \in B <=> (y + (k - 1) >= last /\ \A z \in y..last : z \in common))
    BY DEF Back
  <2>3. A \in SUBSET common /\ B \in SUBSET common
    BY DEF Back
  <2> HIDE DEF A, B
  <2>4. B \in SUBSET A
    BY <2>1, <2>2, <2>3
  <2>5. ASSUME NEW y \in A, y \notin B
        PROVE  y = last - k /\ last - k + 1 \in B
    <3>1. y \in Nat /\ y + k >= last /\ \A z \in y..last : z \in common
      BY <2>1, <2>3
    <3>2. y = last - k
      BY <2>2, <2>3, <2>5, <3>1
    <3>3. y + 1 \in y..last /\ \A z \in (y + 1)..last : z \in y..last
      BY <3>1, <3>2
    <3>4. y + 1 \in common /\ \A z \in (y + 1)..last : z \in common
      BY <3>1, <3>3
    <3>5. y + 1 \in B
      BY <2>2, <3>1, <3>2, <3>4
    <3>6. QED
      BY <3>2, <3>5
  <2>6. ASSUME last - k \in common, last - k + 1 \in B
        PROVE  last - k \in A
    <3> DEFINE y == last - k
    <3>1. y \in Nat /\ y + k >= last
      BY <2>6
    <3>2. y + 1 \in common /\ \A z \in (y + 1)..last : z \in common
      BY <2>2, <2>3, <2>6
    <3>3. \A z \in y..last : z = y \/ z \in (y + 1)..last
      BY <3>1
    <3>4. \A z \in y..last : z \in common
      BY <2>6, <3>2, <3>3
    <3>5. QED
      BY <2>1, <2>6, <3>1, <3>4
  <2>7. CASE last - k \in common /\ last - k + 1 \in B
    <3>1. A = B \cup {last - k}
      BY <2>4, <2>5, <2>6, <2>7
    <3>2. QED
      BY <2>7, <3>1 DEF A, B
  <2>8. CASE ~(last - k \in common /\ last - k + 1 \in B)
    <3>1. A = B
      BY <2>3, <2>4, <2>5, <2>8
    <3>2. QED
      BY <2>8, <3>1 DEF A, B
  <2>9. QED
    BY <2>7, <2>8
<1>3. QED
  BY <1>1, <1>2

\* The pass over the years, newest first, stops where that set ends.
LEMMA AdjacentYears ==
  ASSUME NEW common \in SUBSET Nat, NEW last \in common, \A z \in common : z <= last
  PROVE  Adjacent(common, last)[WINDOW_MAX - 1] = Back(common, last, 9)
<1> DEFINE b == Adjacent(common, last)
           w == [k \in 0..(WINDOW_MAX - 1) |-> Back(common, last, k)]
<1>1. WINDOW_MAX - 1 = 9
  BY DEF WINDOW_MAX
<1>2. /\ Back(common, last, 0) = {last}
      /\ \A k \in Nat \ {0} :
           Back(common, last, k) =
             IF last - k \in common /\ last - k + 1 \in Back(common, last, k - 1)
             THEN Back(common, last, k - 1) \cup {last - k}
             ELSE Back(common, last, k - 1)
  BY BackSteps
<1>3. b = CHOOSE f : IsBack(f, common, last)
  BY DEF Adjacent, IsBack
<1>4. IsBack(w, common, last)
  <2>1. ASSUME NEW k \in 0..9
        PROVE  w[k] = IF k = 0 THEN {last}
                      ELSE IF last - k \in common /\ last - k + 1 \in w[k - 1]
                           THEN w[k - 1] \cup {last - k} ELSE w[k - 1]
    <3>1. w[k] = Back(common, last, k)
      BY <1>1
    <3>2. CASE k = 0
      BY <1>2, <3>1, <3>2
    <3>3. CASE k # 0
      <4>1. k \in Nat \ {0} /\ k - 1 \in 0..9
        BY <3>3
      <4>2. w[k - 1] = Back(common, last, k - 1)
        BY <1>1, <4>1
      <4>3. Back(common, last, k) =
              IF last - k \in common /\ last - k + 1 \in Back(common, last, k - 1)
              THEN Back(common, last, k - 1) \cup {last - k}
              ELSE Back(common, last, k - 1)
        BY <1>2, <4>1
      <4> HIDE DEF w
      <4>4. QED
        BY <3>1, <3>3, <4>2, <4>3
    <3>4. QED
      BY <3>2, <3>3
  <2>2. w = [k \in 0..(WINDOW_MAX - 1) |-> w[k]]
    OBVIOUS
  <2> HIDE DEF w
  <2>3. QED
    BY <1>1, <2>1, <2>2 DEF IsBack
<1>5. IsBack(b, common, last)
  <2> HIDE DEF b, w
  <2> QED BY <1>3, <1>4
<1> HIDE DEF b
<1>6. \A k \in 0..9 : b[k] = IF k = 0 THEN {last}
                             ELSE IF last - k \in common /\ last - k + 1 \in b[k - 1]
                                  THEN b[k - 1] \cup {last - k} ELSE b[k - 1]
  BY <1>1, <1>5 DEF IsBack
<1> DEFINE T == {k \in Nat : k <= 9 => b[k] = Back(common, last, k)}
<1>7. 0 \in T
  <2>1. b[0] = {last}
    BY <1>6
  <2>2. QED
    BY <1>2, <2>1
<1>8. ASSUME NEW k \in T
      PROVE  k + 1 \in T
  <2>1. SUFFICES ASSUME k + 1 <= 9 PROVE b[k + 1] = Back(common, last, k + 1)
    OBVIOUS
  <2>2. b[k] = Back(common, last, k) /\ k \in Nat
    BY <2>1
  <2>3. k + 1 \in 0..9 /\ k + 1 \in Nat \ {0} /\ (k + 1) - 1 = k
    BY <2>1, <2>2
  <2> HIDE DEF T
  <2>4. b[k + 1] = IF last - (k + 1) \in common /\ last - (k + 1) + 1 \in b[k]
                   THEN b[k] \cup {last - (k + 1)} ELSE b[k]
    BY <1>6, <2>2, <2>3
  <2>5. Back(common, last, k + 1) =
          IF last - (k + 1) \in common /\ last - (k + 1) + 1 \in Back(common, last, k)
          THEN Back(common, last, k) \cup {last - (k + 1)} ELSE Back(common, last, k)
    <3>1. Back(common, last, k + 1) =
            IF last - (k + 1) \in common /\ last - (k + 1) + 1 \in Back(common, last, (k + 1) - 1)
            THEN Back(common, last, (k + 1) - 1) \cup {last - (k + 1)}
            ELSE Back(common, last, (k + 1) - 1)
      BY <1>2, <2>3
    <3>2. QED
      BY <2>3, <3>1
  <2>6. QED
    BY <2>2, <2>4, <2>5
<1>9. T = Nat
  <2>1. T \in SUBSET Nat
    OBVIOUS
  <2> HIDE DEF T
  <2>2. QED
    BY <1>7, <1>8, <2>1, NumbersInduction
<1>10. 9 \in T
  BY <1>9
<1>11. QED
  BY <1>1, <1>10 DEF b

\* The window of the passes is the window of the definition: an interval of years that count.
LEMMA WindowIsWindow ==
  ASSUME NEW s, IsSeries(s)
  PROVE  /\ WindowYears(s) = Window(s)
         /\ IsFiniteSet(Window(s)) /\ Window(s) \in SUBSET Common(s)
         /\ \A a, b \in Window(s) : \A y \in a..b : y \in Window(s)
<1> DEFINE common == Common(s)
           last == CHOOSE y \in common : \A z \in common : z <= y
<1>1. IsFiniteSet(common) /\ common \in SUBSET Nat
  BY CommonYears
<1>2. WindowYears(s) = IF common = {} THEN {} ELSE Adjacent(common, last)[WINDOW_MAX - 1]
  BY DEF WindowYears, Common
<1>3. Window(s) = {y \in common : /\ \A z \in common : z <= y + 9
                                  /\ \A z \in y..(y + 9) : (\E w \in common : w >= z) => z \in common}
  BY DEF Window
<1> HIDE DEF common
<1>4. Window(s) \in SUBSET common /\ IsFiniteSet(Window(s))
  BY <1>1, <1>3, FS_Subset
<1>5. CASE common = {}
  BY <1>2, <1>4, <1>5 DEF common
<1>6. CASE common # {}
  <2>1. \E y \in common : \A z \in common : z <= y
    <3>1. common \in SUBSET Int
      BY <1>1
    <3>2. QED
      BY <1>1, <1>6, <3>1, ExtremesExist
  <2>2. last \in common /\ \A z \in common : z <= last
    BY <2>1
  <2> HIDE DEF last
  <2>3. WindowYears(s) = Back(common, last, 9)
    BY <1>1, <1>2, <1>6, <2>2, AdjacentYears
  <2>4. ASSUME NEW y \in common
        PROVE  y \in Window(s) <=> (y + 9 >= last /\ \A z \in y..last : z \in common)
    <3>1. y \in Nat /\ last \in Nat /\ y <= last
      BY <1>1, <2>2
    <3>2. (\A z \in common : z <= y + 9) <=> y + 9 >= last
      BY <1>1, <2>2, <3>1
    <3>3. ASSUME y + 9 >= last
          PROVE  (\A z \in y..(y + 9) : (\E w \in common : w >= z) => z \in common)
                   <=> (\A z \in y..last : z \in common)
      <4>1. \A z \in y..last : z \in y..(y + 9) /\ last >= z
        BY <3>1, <3>3
      <4>2. \A z \in y..(y + 9) : (\E w \in common : w >= z) => z \in y..last
        BY <1>1, <2>2, <3>1
      <4>3. QED
        BY <2>2, <4>1, <4>2
    <3>4. QED
      BY <1>3, <3>2, <3>3
  <2>5. WindowYears(s) = Window(s)
    BY <1>4, <2>3, <2>4 DEF Back
  <2>6. ASSUME NEW a \in Window(s), NEW b \in Window(s), NEW y \in a..b
        PROVE  y \in Window(s)
    <3>1. a \in common /\ b \in common
      BY <1>4
    <3>2. a \in Nat /\ b \in Nat /\ last \in Nat /\ b <= last
      BY <1>1, <2>2, <3>1
    <3>3. a \in Nat /\ b \in Nat /\ last \in Nat /\ b <= last /\ y \in Nat /\ a <= y /\ y <= b
      BY <3>2
    <3>4. a + 9 >= last /\ \A z \in a..last : z \in common
      BY <1>4, <2>4
    <3>5. y + 9 >= last /\ y \in a..last /\ \A z \in y..last : z \in a..last
      BY <3>3, <3>4
    <3>6. QED
      BY <2>4, <3>4, <3>5
  <2>7. QED
    BY <1>4, <2>5, <2>6 DEF common
<1>7. QED
  BY <1>5, <1>6

\* The drawdown of one pass is the largest fall from an earlier margin to a later one.
LEMMA DrawdownIsLargestFall ==
  ASSUME NEW s, NEW first \in Nat, NEW last \in Nat, first <= last,
         \A y \in first..last : MarginIn(s, s.operating, y) \in Int
  PROVE  /\ MarginDrawdown(s, first, last) \in Int
         /\ \A a, b \in first..last : a <= b =>
              MarginIn(s, s.operating, a) - MarginIn(s, s.operating, b)
                <= MarginDrawdown(s, first, last)
         /\ \E a, b \in first..last : a <= b /\
              MarginIn(s, s.operating, a) - MarginIn(s, s.operating, b)
                = MarginDrawdown(s, first, last)
<1> DEFINE M(y) == MarginIn(s, s.operating, y)
           v == [y \in first..last |-> M(y)]
           peak == Peak(s, first, last)
           d == [y \in first..last |-> peak[y] - M(y)]
           worst == CHOOSE f : f = [y \in first..last |->
                      IF y = first THEN 0 ELSE Max2(f[y - 1], peak[y] - M(y))]
<1>1. \A y \in first..last : M(y) \in Int
  OBVIOUS
<1>2. peak = CHOOSE f : f = [y \in first..last |->
                               IF y = first THEN M(y) ELSE Max2(f[y - 1], M(y))]
  BY Zenon DEF Peak
<1>3. MarginDrawdown(s, first, last) = worst[last]
  BY Zenon DEF MarginDrawdown
<1> HIDE DEF M, peak
<1>4. \A f : Running(f, v, first, last) <=>
               f = [y \in first..last |-> IF y = first THEN M(y) ELSE Max2(f[y - 1], M(y))]
  BY DEF Running, Greater, Max2
<1>5. \A y \in first..last : v[y] \in Int
  BY <1>1
<1>6. Running(peak, v, first, last)
  <2> HIDE DEF v
  <2> QED BY <1>2, <1>4, <1>5, RunningExists
<1>7. \A y \in first..last : IsGreatestSoFar(peak, v, first, y)
  <2> HIDE DEF v
  <2> QED BY <1>5, <1>6, RunningIsGreatest
<1>8. \A y \in first..last :
        /\ peak[y] \in Int /\ d[y] = peak[y] - M(y) /\ d[y] \in Int
        /\ \A x \in first..y : M(x) <= peak[y]
        /\ \E x \in first..y : peak[y] = M(x)
  <2>1. SUFFICES ASSUME NEW y \in first..last
                 PROVE  /\ peak[y] \in Int /\ d[y] = peak[y] - M(y) /\ d[y] \in Int
                        /\ \A x \in first..y : M(x) <= peak[y]
                        /\ \E x \in first..y : peak[y] = M(x)
    BY Zenon
  <2>2. \A x \in first..y : v[x] = M(x)
    OBVIOUS
  <2>3. d[y] = peak[y] - M(y) /\ M(y) \in Int
    BY <1>1
  <2> HIDE DEF v, d, worst
  <2>4. /\ peak[y] \in Int
        /\ \A x \in first..y : v[x] <= peak[y]
        /\ \E x \in first..y : peak[y] = v[x]
    BY <1>7 DEF IsGreatestSoFar
  <2>5. QED
    BY <2>2, <2>3, <2>4
<1>9. d[first] = 0
  <2>1. first \in first..last /\ \A x \in first..first : x = first
    OBVIOUS
  <2>2. peak[first] = M(first) /\ M(first) \in Int /\ d[first] = peak[first] - M(first)
    BY <1>1, <1>8, <2>1
  <2>3. QED
    BY <2>2
<1>10. \A f : Running(f, d, first, last) <=>
               f = [y \in first..last |-> IF y = first THEN 0 ELSE Max2(f[y - 1], peak[y] - M(y))]
  BY <1>9 DEF Running, Greater, Max2
<1> HIDE DEF v, d
<1>11. Running(worst, d, first, last)
  BY <1>8, <1>10, RunningExists
<1> HIDE DEF worst
<1>12. IsGreatestSoFar(worst, d, first, last)
  BY <1>8, <1>11, RunningIsGreatest
<1>13. ASSUME NEW a \in first..last, NEW b \in first..last, a <= b
       PROVE  M(a) - M(b) <= worst[last]
  <2>1. M(a) <= peak[b]
    BY <1>8, <1>13
  <2>2. d[b] <= worst[last]
    BY <1>12 DEF IsGreatestSoFar
  <2>3. M(a) \in Int /\ M(b) \in Int /\ peak[b] \in Int /\ d[b] = peak[b] - M(b) /\ worst[last] \in Int
    BY <1>1, <1>8, <1>12 DEF IsGreatestSoFar
  <2>4. QED
    BY <2>1, <2>2, <2>3
<1>14. PICK b \in first..last : worst[last] = d[b]
  BY <1>12 DEF IsGreatestSoFar
<1>15. PICK a \in first..b : peak[b] = M(a)
  BY <1>8
<1>16. a \in first..last /\ a <= b /\ M(a) - M(b) = worst[last]
  BY <1>8, <1>14, <1>15
<1>17. worst[last] \in Int
  BY <1>12 DEF IsGreatestSoFar
<1>18. QED
  BY <1>3, <1>13, <1>16, <1>17 DEF M

\* A set has one greatest and one least number.
LEMMA ExtremesAreOne ==
  ASSUME NEW S \in SUBSET Int, NEW m \in S, NEW n \in S
  PROVE  /\ (\A x \in S : x <= m) /\ (\A x \in S : x <= n) => m = n
         /\ (\A x \in S : m <= x) /\ (\A x \in S : n <= x) => m = n
<1>1. m \in Int /\ n \in Int
  OBVIOUS
<1>2. (\A x \in S : x <= m) /\ (\A x \in S : x <= n) => m <= n /\ n <= m
  OBVIOUS
<1>3. (\A x \in S : m <= x) /\ (\A x \in S : n <= x) => m <= n /\ n <= m
  OBVIOUS
<1>4. QED
  BY <1>1, <1>2, <1>3

\* The axis computed in passes is the axis its text defines, for any series.
LEMMA SteadinessIsDefined ==
  ASSUME NEW s, IsSeries(s)
  PROVE  ComputeSteadiness(s) = SteadinessByDefinition(s)
<1> DEFINE years == WindowYears(s)
           window == Window(s)
           M(y) == MarginIn(s, s.operating, y)
           N(y) == MarginIn(s, s.net, y)
           first == CHOOSE y \in years : \A z \in years : y <= z
           last == CHOOSE y \in years : \A z \in years : z <= y
           falls == Cardinality({y \in years : y - 1 \in years /\ s.revenue[y] < s.revenue[y - 1]})
           drawdown == MarginDrawdown(s, first, last)
           net == CHOOSE m \in {N(y) : y \in years} : \A y \in years : m <= N(y)
           pairs == {p \in window \X window : p[1] <= p[2]}
           drops == {M(p[1]) - M(p[2]) : p \in pairs}
           nets == {N(y) : y \in window}
           fallsD == {y \in window : y - 1 \in window /\ s.revenue[y] < s.revenue[y - 1]}
           greatest == CHOOSE d \in drops : \A e \in drops : e <= d
           least == CHOOSE m \in nets : \A n \in nets : m <= n
           Result(Y, f, d, n) ==
             IF Cardinality(Y) < WINDOW_MIN THEN Neutral("series_too_short")
             ELSE Steadiness(SteadinessScore(Cardinality(Y),
                               FallsBand(f) + DrawdownBand(Tenths(d)) + NetBand(Tenths(n))), None)
<1>1. ComputeSteadiness(s) = Result(years, falls, drawdown, net)
  BY Zenon DEF ComputeSteadiness
<1>2. SteadinessByDefinition(s) = Result(window, Cardinality(fallsD), greatest, least)
  BY Zenon DEF SteadinessByDefinition, Window, Common
<1>3. /\ years = window /\ IsFiniteSet(window) /\ window \in SUBSET Common(s)
      /\ \A a, b \in window : \A y \in a..b : y \in window
  BY WindowIsWindow
<1>4. /\ window \in SUBSET Nat
      /\ \A y \in window : M(y) \in Int /\ N(y) \in Int
  BY <1>3, CommonYears
<1>5. falls = Cardinality(fallsD)
  BY <1>3
<1>6. CASE Cardinality(window) < WINDOW_MIN
  <2> HIDE DEF years, window, falls, fallsD, drawdown, net, greatest, least
  <2>1. QED
    BY <1>1, <1>2, <1>3, <1>6
<1>7. CASE ~(Cardinality(window) < WINDOW_MIN)
  <2>1. window # {}
    BY <1>7, FS_EmptySet DEF WINDOW_MIN
  <2> HIDE DEF window
  <2>2. /\ first \in window /\ last \in window
        /\ \A z \in window : first <= z /\ z <= last
    <3>1. window \in SUBSET Int
      BY <1>4
    <3>2. /\ \E y \in window : \A z \in window : z <= y
          /\ \E y \in window : \A z \in window : y <= z
      BY <1>3, <2>1, <3>1, ExtremesExist
    <3> HIDE DEF years
    <3>3. QED
      BY <1>3, <3>2
  <2> HIDE DEF first, last
  <2>3. /\ first \in Nat /\ last \in Nat /\ first <= last
        /\ \A y \in first..last : y \in window
        /\ \A y \in window : y \in first..last
    <3>1. first \in Nat /\ last \in Nat /\ first <= last
      BY <1>4, <2>2
    <3>2. \A y \in window : y \in first..last
      BY <1>4, <2>2, <3>1
    <3>3. QED
      BY <1>3, <2>2, <3>1, <3>2
  <2> HIDE DEF M
  <2>4. /\ drawdown \in Int
        /\ \A a, b \in first..last : a <= b => M(a) - M(b) <= drawdown
        /\ \E a, b \in first..last : a <= b /\ M(a) - M(b) = drawdown
    <3>1. \A y \in first..last : MarginIn(s, s.operating, y) \in Int
      BY <1>4, <2>3 DEF M
    <3>2. QED
      BY <2>3, <3>1, DrawdownIsLargestFall DEF M
  <2> HIDE DEF drawdown
  <2>5. drawdown = greatest
    <3>1. drops \in SUBSET Int
      <4>1. SUFFICES ASSUME NEW p \in pairs PROVE M(p[1]) - M(p[2]) \in Int
        OBVIOUS
      <4>2. p[1] \in window /\ p[2] \in window
        OBVIOUS
      <4>3. M(p[1]) \in Int /\ M(p[2]) \in Int
        BY <1>4, <4>2
      <4>4. QED
        BY <4>3
    <3>2. drawdown \in drops
      <4>1. PICK a \in first..last, b \in first..last : a <= b /\ M(a) - M(b) = drawdown
        BY <2>4
      <4>2. <<a, b>> \in pairs
        BY <2>3, <4>1
      <4>3. QED
        BY <4>1, <4>2
    <3>3. \A e \in drops : e <= drawdown
      <4>1. SUFFICES ASSUME NEW p \in pairs PROVE M(p[1]) - M(p[2]) <= drawdown
        OBVIOUS
      <4>2. p[1] \in first..last /\ p[2] \in first..last /\ p[1] <= p[2]
        BY <2>3
      <4>3. QED
        BY <2>4, <4>2
    <3> HIDE DEF drops
    <3>4. greatest \in drops /\ \A e \in drops : e <= greatest
      BY <3>2, <3>3
    <3> HIDE DEF greatest
    <3>5. QED
      BY <3>1, <3>2, <3>3, <3>4, ExtremesAreOne
  <2>6. net = least
    <3>1. nets \in SUBSET Int /\ IsFiniteSet(nets) /\ nets # {}
      <4> DEFINE g == [y \in window |-> N(y)]
      <4>1. IsFiniteSet({g[y] : y \in window})
        BY <1>3, FinitelyManyValues
      <4>2. {g[y] : y \in window} = nets
        OBVIOUS
      <4>3. QED
        BY <1>4, <2>1, <4>1, <4>2
    <3>2. \A m : (\A y \in window : m <= N(y)) <=> (\A n \in nets : m <= n)
      OBVIOUS
    <3>3. \E m \in nets : \A n \in nets : m <= n
      <4> HIDE DEF nets
      <4> QED BY <3>1, ExtremesExist
    <3>4. net = CHOOSE m \in nets : \A y \in window : m <= N(y)
      <4> HIDE DEF years
      <4> QED BY <1>3
    <3> HIDE DEF nets, net, years
    <3>5. net \in nets /\ \A n \in nets : net <= n
      BY <3>2, <3>3, <3>4
    <3>6. least \in nets /\ \A n \in nets : least <= n
      BY <3>3
    <3> HIDE DEF least
    <3>7. QED
      BY <3>1, <3>5, <3>6, ExtremesAreOne
  <2> HIDE DEF years, falls, fallsD, net, greatest, least
  <2>7. QED
    BY <1>1, <1>2, <1>3, <1>5, <2>5, <2>6
<1>8. QED
  BY <1>6, <1>7

\* The pass of the axis has written what it computes of the statements, or nothing.
SteadinessInv ==
  /\ profile \in [Titles -> Profiles]
  /\ pass \in {"score", "report", "done"} =>
       \A t \in Titles : steadiness[t] = None \/ steadiness[t] = SteadinessOf(profile[t])

\* The axis is written in its pass, or switched off, and stays.
LEMMA SteadinessStep ==
  ASSUME SteadinessInv, [Next]_vars
  PROVE  SteadinessInv'
<1>1. CASE \E on \in BOOLEAN : AnnotateSteadiness(on)
  <2>1. PICK on \in BOOLEAN : AnnotateSteadiness(on)
    BY <1>1
  <2>2. /\ profile' = profile
        /\ \A t \in Titles : steadiness'[t] = IF on THEN SteadinessOf(profile[t]) ELSE None
    BY <2>1 DEF AnnotateSteadiness
  <2>3. QED
    BY <2>2 DEF SteadinessInv
<1>2. CASE pass' \notin {"score", "report", "done"} /\ profile' = profile
  BY <1>2 DEF SteadinessInv
<1>3. CASE ScoreRecords \/ (\E min \in MinDimensions : Generate(min)) \/ UNCHANGED vars
  <2>1. /\ profile' = profile /\ steadiness' = steadiness
        /\ pass' \in {"score", "report", "done"} => pass \in {"score", "report", "done"}
    BY <1>3 DEF ScoreRecords, Generate, vars
  <2>2. QED
    BY <2>1 DEF SteadinessInv
<1>4. QED
  BY <1>1, <1>2, <1>3 DEF Next, ReadRevenues, AnnotateRoic, AnnotatePercentiles

\* For any cohort and any series of annual figures: the axis measures what it says, a
\* title it cannot measure carries the sentinel with its reason and is kept off no list, and
\* a measured score below the bar keeps a title off the cross hits, whatever its value.
THEOREM SentinelsDoNotMeasure == Spec => []SentinelIsNoMeasurement
<1>1. Init => SteadinessInv
  BY DEF Init, SteadinessInv
<1>2. ASSUME SteadinessInv PROVE SentinelIsNoMeasurement
  <2>1. SUFFICES ASSUME pass \in {"score", "report", "done"}, NEW t \in Titles,
                        steadiness[t] # None
                 PROVE  /\ ~profile[t].cik => steadiness[t] = Neutral("no_sec_registrant")
                        /\ profile[t].cik /\ profile[t].series = None =>
                             steadiness[t] = Neutral("no_concept")
                        /\ profile[t].cik /\ profile[t].series # None =>
                             steadiness[t] = SteadinessByDefinition(profile[t].series)
                        /\ pass = "done" /\ ~scored[t].taker =>
                             (IsCrosshit(t, report.min) <=>
                                /\ Cardinality(Qualifying(t)) >= report.min
                                /\ ~(/\ steadiness[t].reason = None
                                     /\ steadiness[t].score < 100 * ScoreThreshold))
    BY Zenon DEF SentinelIsNoMeasurement
  <2>2. steadiness[t] = SteadinessOf(profile[t])
    BY <1>2, <2>1 DEF SteadinessInv
  <2>3. ASSUME profile[t].cik, profile[t].series # None
        PROVE  steadiness[t] = SteadinessByDefinition(profile[t].series)
    <3>1. IsSeries(profile[t].series)
      BY <1>2, <2>3, ProfileFigures DEF SteadinessInv
    <3>2. SteadinessOf(profile[t]) = ComputeSteadiness(profile[t].series)
      BY <2>3 DEF SteadinessOf
    <3>3. QED
      BY <2>2, <3>1, <3>2, SteadinessIsDefined
  <2>4. ASSUME ~scored[t].taker
        PROVE  IsCrosshit(t, report.min) <=>
                 /\ Cardinality(Qualifying(t)) >= report.min
                 /\ ~(steadiness[t].reason = None /\ steadiness[t].score < 100 * ScoreThreshold)
    BY <2>1, <2>4, Zenon DEF IsCrosshit, ClearsCrosshitBar, SteadinessFails, SteadinessIsAssessable
  <2>5. ~profile[t].cik => steadiness[t] = Neutral("no_sec_registrant")
    BY <2>2 DEF SteadinessOf
  <2>6. profile[t].cik /\ profile[t].series = None => steadiness[t] = Neutral("no_concept")
    BY <2>2 DEF SteadinessOf
  <2>7. QED
    BY <2>3, <2>4, <2>5, <2>6
<1>3. QED
  BY <1>1, <1>2, SteadinessStep, PTL DEF Spec
-----------------------------------------------------------------------------
(***************************************************************************)
(* The lists of the reports.                                               *)
(***************************************************************************)
Points == \A t \in Titles, a \in Axes : scored[t].dims[a] \in 0..5

\* How many axes qualify, how many of them are fives, and their average are numbers.
LEMMA KeyTypes ==
  ASSUME Points, NEW t \in Titles, Qualifying(t) # {}
  PROVE  /\ Cardinality(Qualifying(t)) \in Nat /\ NumFives(t) \in Nat /\ AvgScore(t) \in Int
<1>1. IsFiniteSet(Axes)
  <2>1. /\ IsFiniteSet({"growth"}) /\ IsFiniteSet({"profitability"})
        /\ IsFiniteSet({"resilience"})
    BY FS_Singleton
  <2>2. IsFiniteSet({"growth"} \cup {"profitability"} \cup {"resilience"})
    BY <2>1, FS_Union
  <2>3. Axes = {"growth"} \cup {"profitability"} \cup {"resilience"}
    BY DEF Axes
  <2>4. QED
    BY <2>2, <2>3
<1>2. IsFiniteSet(Qualifying(t)) /\ IsFiniteSet({a \in Qualifying(t) : scored[t].dims[a] = 5})
  BY <1>1, FS_Subset DEF Qualifying
<1>3. Cardinality(Qualifying(t)) \in Nat /\ Cardinality(Qualifying(t)) # 0
  BY <1>2, FS_CardinalityType, FS_EmptySet
<1>4. NumFives(t) \in Nat
  BY <1>2, FS_CardinalityType DEF NumFives
<1>5. AvgScore(t) \in Int
  <2> DEFINE n == Cardinality(Qualifying(t))
             Part(a) == IF a \in Qualifying(t) THEN scored[t].dims[a] ELSE 0
             sum == Part("growth") + Part("profitability") + Part("resilience")
  <2>1. \A a \in Axes : Part(a) \in 0..5
    BY DEF Points
  <2>2. sum \in Nat
    <3>1. Part("growth") \in 0..5 /\ Part("profitability") \in 0..5 /\ Part("resilience") \in 0..5
      BY <2>1 DEF Axes
    <3> HIDE DEF Part
    <3> QED BY <3>1
  <2>3. AvgScore(t) = (200 * sum + n) \div (2 * n)
    BY DEF AvgScore
  <2> HIDE DEF sum, n
  <2>4. QED
    BY <1>3, <2>2, <2>3 DEF n
<1>6. QED
  BY <1>3, <1>4, <1>5

BeforeIn(S) == {p \in S \X S : Before(p[1], p[2])}

\* The key of the sort, with the position in the list of records behind it, is a strict order.
LEMMA RankIsOrder ==
  ASSUME Points, NEW S \in SUBSET Titles, \A t \in S : Qualifying(t) # {}
  PROVE  IsStrictOrder(BeforeIn(S), S)
<1>1. \A t \in S : /\ Cardinality(Qualifying(t)) \in Int /\ NumFives(t) \in Int
                   /\ AvgScore(t) \in Int /\ t \in Int
  BY KeyTypes, ScoringConstants
<1>2. \A t, u \in S : <<t, u>> \in BeforeIn(S) <=> Before(t, u)
  BY DEF BeforeIn
<1>3. \A t \in S : ~Before(t, t)
  BY <1>1 DEF Before
<1>4. \A t, u, v \in S : Before(t, u) /\ Before(u, v) => Before(t, v)
  BY <1>1 DEF Before
<1>5. \A t, u \in S : t = u \/ Before(t, u) \/ Before(u, t)
  BY <1>1 DEF Before
<1>6. QED
  BY <1>2, <1>3, <1>4, <1>5 DEF IsStrictOrder

\* A ranked list has every title once, best first.
LEMMA RankedIsWhole ==
  ASSUME Points, NEW S \in SUBSET Titles, \A t \in S : Qualifying(t) # {}
  PROVE  /\ Ranked(S) \in Seq(S) /\ Len(Ranked(S)) = Cardinality(S)
         /\ \A i, j \in 1..Len(Ranked(S)) : i < j => Before(Ranked(S)[i], Ranked(S)[j])
         /\ \A t \in S : \E i \in 1..Len(Ranked(S)) : Ranked(S)[i] = t
<1> DEFINE n == Cardinality(S)
           q == Ranked(S)
<1>1. IsFiniteSet(S) /\ n \in Nat
  BY ScoringConstants, FS_Subset, FS_CardinalityType
<1>2. IsStrictOrder(BeforeIn(S), S)
  BY RankIsOrder
<1>3. \E l \in [1..n -> S] : IsInOrder(l, BeforeIn(S))
  BY <1>1, <1>2, SortedListExists
<1>4. \A l \in [1..n -> S] :
        IsInOrder(l, BeforeIn(S)) <=> \A i, j \in DOMAIN l : i < j => Before(l[i], l[j])
  BY DEF IsInOrder, BeforeIn
<1>5. q = CHOOSE l \in [1..Cardinality(S) -> S] :
            \A i, j \in DOMAIN l : i < j => Before(l[i], l[j])
  BY DEF Ranked
<1>6. q \in [1..n -> S] /\ \A i, j \in DOMAIN q : i < j => Before(q[i], q[j])
  BY <1>3, <1>4, <1>5
<1> HIDE DEF q, n
<1>7. IsInOrder(q, BeforeIn(S))
  BY <1>4, <1>6
<1>8. \A t \in S : \E i \in 1..n : q[i] = t
  BY <1>1, <1>2, <1>6, <1>7, SortedListIsWhole DEF n
<1>9. DOMAIN q = 1..n /\ q \in Seq(S)
  BY <1>1, <1>6 DEF n
<1>10. Len(q) = n
  BY <1>1, <1>9, LenProperties
<1>11. QED
  BY <1>6, <1>8, <1>9, <1>10 DEF q, n

Better(a, S) ==
  {p \in S \X S : \/ scored[p[1]].dims[a] > scored[p[2]].dims[a]
                  \/ scored[p[1]].dims[a] = scored[p[2]].dims[a] /\ p[1] < p[2]}

\* So has the list of an axis.
LEMMA ByAxisIsWhole ==
  ASSUME Points, NEW a \in Axes
  PROVE  LET S == {t \in Titles : a \in Qualifying(t)}
         IN /\ ByAxis(a) \in Seq(S)
            /\ \A t \in S : \E i \in 1..Len(ByAxis(a)) : ByAxis(a)[i] = t
<1> DEFINE S == {t \in Titles : a \in Qualifying(t)}
           n == Cardinality(S)
           q == ByAxis(a)
<1>1. IsFiniteSet(S) /\ n \in Nat
  BY ScoringConstants, FS_Subset, FS_CardinalityType
<1>2. IsStrictOrder(Better(a, S), S)
  <2>1. \A t \in S : t \in Int /\ scored[t].dims[a] \in Int
    BY ScoringConstants DEF Points
  <2> HIDE DEF S
  <2>2. QED
    BY <2>1 DEF IsStrictOrder, Better
<1>3. q = CHOOSE l \in [1..Cardinality(S) -> S] :
            \A i, j \in DOMAIN l : i < j =>
              \/ scored[l[i]].dims[a] > scored[l[j]].dims[a]
              \/ scored[l[i]].dims[a] = scored[l[j]].dims[a] /\ l[i] < l[j]
  BY DEF ByAxis
<1> HIDE DEF S, q
<1>4. \E l \in [1..n -> S] : IsInOrder(l, Better(a, S))
  BY <1>1, <1>2, SortedListExists
<1>5. \A l \in [1..n -> S] :
        IsInOrder(l, Better(a, S)) <=>
          \A i, j \in DOMAIN l : i < j =>
            \/ scored[l[i]].dims[a] > scored[l[j]].dims[a]
            \/ scored[l[i]].dims[a] = scored[l[j]].dims[a] /\ l[i] < l[j]
  BY DEF IsInOrder, Better
<1>6. q \in [1..n -> S] /\ IsInOrder(q, Better(a, S))
  BY <1>3, <1>4, <1>5
<1>7. \A t \in S : \E i \in 1..n : q[i] = t
  BY <1>1, <1>2, <1>6, SortedListIsWhole
<1>8. q \in Seq(S) /\ DOMAIN q = 1..n
  BY <1>1, <1>6
<1>9. Len(q) = n
  BY <1>1, <1>8, LenProperties
<1>10. QED
  BY <1>7, <1>8, <1>9 DEF S, q

\* What is shown of a list is its beginning, as much as there is room for.
LEMMA ShownIsBeginning ==
  ASSUME NEW S, NEW q \in Seq(S)
  PROVE  /\ Min2(Cap, Len(q)) \in Nat /\ Len(Shown(q)) = Min2(Cap, Len(q))
         /\ \A k \in 1..Min2(Cap, Len(q)) : k \in 1..Len(q) /\ Shown(q)[k] = q[k]
<1> DEFINE n == Len(q)
           m == Min2(Cap, n)
<1>1. DOMAIN q = 1..n /\ n \in Nat
  BY LenProperties
<1>3. m \in Nat /\ m <= n
  BY <1>1, ScoringConstants DEF Min2
<1>4. Shown(q) = SubSeq(q, 1, m)
  BY DEF Shown
<1> HIDE DEF m, n
<1>5. \A i \in 1..m : q[i] \in S
  BY <1>1, <1>3, ElementOfSeq DEF n
<1>6. /\ SubSeq(q, 1, m) \in Seq(S)
      /\ Len(SubSeq(q, 1, m)) = IF 1 <= m THEN m - 1 + 1 ELSE 0
      /\ \A i \in 1..(m - 1 + 1) : SubSeq(q, 1, m)[i] = q[1 + i - 1]
  BY <1>3, <1>5, SubSeqProperties
<1>7. Len(Shown(q)) = m /\ \A k \in 1..m : k \in 1..n /\ Shown(q)[k] = q[k]
  BY <1>1, <1>3, <1>4, <1>6
<1>8. QED
  BY <1>3, <1>7 DEF m, n

\* A list of a set that has all of it at some place.
LEMMA ElemsOfWhole ==
  ASSUME NEW S, NEW q \in Seq(S), \A t \in S : \E i \in 1..Len(q) : q[i] = t
  PROVE  Elems(q) = S
  BY ElementOfSeq DEF Elems

\* A title that reaches the threshold on enough axes has an axis that qualifies.
LEMMA ReachingIsQualifying ==
  ASSUME NEW t, NEW min \in 1..3, Cardinality(Qualifying(t)) >= min
  PROVE  Qualifying(t) # {}
<1>1. Cardinality({}) = 0
  BY FS_EmptySet
<1>2. QED
  BY <1>1

\* Lists made this way say of each title where it stands, and only there.
LEMMA SectionsAreDisjoint ==
  ASSUME ScoredInv, ReportInv
  PROVE  OneSectionPerTitle
<1>1. SUFFICES ASSUME pass = "done"
               PROVE  OneSectionPerTitle
  BY DEF OneSectionPerTitle
<1> DEFINE min == report.min
           hits == {t \in Titles : IsCrosshit(t, min)}
           fails == ComputeSteadinessFailures(min)
           flagged == ComputeLeverageFailures(min)
           takers == {t \in Titles : IsExcludedPriceTaker(t, min)}
           q == Ranked(hits)
           n == Len(q)
           sections == <<hits, Elems(report.steadiness), Elems(report.leverage),
                         Elems(report.takers)>>
<1>2. Points
  BY <1>1 DEF ScoredInv, Points
<1>3. min \in 1..3
  BY <1>1 DEF ReportInv
<1>4. /\ hits \in SUBSET Titles /\ \A t \in hits : Qualifying(t) # {}
      /\ fails \in SUBSET Titles /\ \A t \in fails : Qualifying(t) # {}
      /\ flagged \in SUBSET Titles /\ \A t \in flagged : Qualifying(t) # {}
      /\ takers \in SUBSET Titles /\ \A t \in takers : Qualifying(t) # {}
  BY <1>3, ReachingIsQualifying DEF IsCrosshit, IsExcludedPriceTaker, ClearsCrosshitBar,
     ComputeSteadinessFailures, ComputeLeverageFailures
<1>5. ASSUME NEW S \in SUBSET Titles, \A t \in S : Qualifying(t) # {}
      PROVE  Elems(Ranked(S)) = S
  BY <1>2, <1>5, RankedIsWhole, ElemsOfWhole
<1>6. sections = <<hits, fails, flagged, takers>>
  BY <1>1, <1>4, <1>5 DEF ReportInv
<1>7. \A i, j \in 1..4 : i # j => sections[i] \cap sections[j] = {}
  <2>1. /\ hits \cap fails = {} /\ hits \cap flagged = {} /\ hits \cap takers = {}
        /\ fails \cap flagged = {} /\ fails \cap takers = {} /\ flagged \cap takers = {}
    BY DEF IsCrosshit, IsExcludedPriceTaker, ClearsCrosshitBar, ComputeSteadinessFailures,
       ComputeLeverageFailures
  <2> HIDE DEF hits, fails, flagged, takers, sections
  <2>2. QED
    BY <1>6, <2>1
<1>8. \A t \in Titles : Cardinality(Qualifying(t)) >= min
        => t \in sections[1] \cup sections[2] \cup sections[4]
  <2>1. \A t \in Titles : Cardinality(Qualifying(t)) >= min => t \in hits \cup fails \cup takers
    BY DEF IsCrosshit, IsExcludedPriceTaker, ClearsCrosshitBar, ComputeSteadinessFailures
  <2>2. sections[1] = hits /\ sections[2] = fails /\ sections[4] = takers
    BY <1>6
  <2>3. QED
    BY <2>1, <2>2
<1> HIDE DEF hits
<1>9. /\ q \in Seq(hits) /\ n = Cardinality(hits)
      /\ \A i, j \in 1..n : i < j => Before(q[i], q[j])
      /\ \A t \in hits : \E i \in 1..n : q[i] = t
  BY <1>2, <1>4, RankedIsWhole
<1>10. report.crosshits = Shown(q)
  BY <1>1 DEF ReportInv, hits
<1> HIDE DEF q
<1>11. /\ n \in Nat /\ Min2(Cap, n) \in Nat /\ Len(report.crosshits) = Min2(Cap, n)
       /\ \A k \in 1..Min2(Cap, n) : k \in 1..n /\ report.crosshits[k] = q[k]
  BY <1>9, <1>10, ShownIsBeginning, LenProperties
<1> HIDE DEF n
<1>12. ASSUME NEW t \in hits \ Elems(report.crosshits), NEW u \in Elems(report.crosshits)
       PROVE  Before(u, t)
  <2>1. PICK k \in 1..Min2(Cap, n) : u = q[k]
    BY <1>11 DEF Elems
  <2>2. PICK i \in 1..n : q[i] = t
    BY <1>9
  <2>3. i \notin 1..Min2(Cap, n)
    BY <1>11, <2>2 DEF Elems
  <2>5. k \in 1..n /\ k < i
    BY <1>11, <2>1, <2>2, <2>3
  <2>6. QED
    BY <1>9, <2>1, <2>2, <2>5
<1>13. ASSUME NEW t \in hits, NEW a \in Qualifying(t)
       PROVE  t \in Elems(report.axes[a]) \/ report.counts[a] > Cap
  <2> DEFINE S == {x \in Titles : a \in Qualifying(x)}
             l == ByAxis(a)
             m == Len(l)
  <2>1. a \in Axes /\ t \in S
    BY <1>4 DEF Qualifying
  <2>2. l \in Seq(S) /\ \A x \in S : \E i \in 1..m : l[i] = x
    BY <1>2, <2>1, ByAxisIsWhole
  <2>3. report.axes[a] = Shown(l) /\ report.counts[a] = Len(l)
    BY <1>1, <2>1 DEF ReportInv
  <2> HIDE DEF S, l
  <2>4. /\ m \in Nat /\ Len(Shown(l)) = Min2(Cap, m)
        /\ \A k \in 1..Min2(Cap, m) : Shown(l)[k] = l[k]
    BY <2>2, ShownIsBeginning, LenProperties
  <2> HIDE DEF m
  <2>5. CASE m > Cap
    BY <2>3, <2>5 DEF m
  <2>6. CASE ~(m > Cap)
    <3>1. Min2(Cap, m) = m
      BY <2>4, <2>6, ScoringConstants DEF Min2
    <3>2. PICK i \in 1..m : l[i] = t
      BY <2>1, <2>2 DEF m
    <3>3. QED
      BY <2>3, <2>4, <3>1, <3>2 DEF Elems
  <2>7. QED
    BY <2>5, <2>6
<1> HIDE DEF sections, min
<1>14. Len(report.crosshits) = Min2(Cap, Cardinality(hits))
  BY <1>9, <1>11
<1>15. QED
  BY <1>7, <1>8, <1>12, <1>13, <1>14, Zenon DEF OneSectionPerTitle, sections, hits, min

\* The lists are made of the scores and of the steadiness, and of nothing else.
ListsStay ==
  /\ \A t, m : /\ Qualifying(t)' = Qualifying(t)
               /\ IsCrosshit(t, m)' = IsCrosshit(t, m)
               /\ IsExcludedPriceTaker(t, m)' = IsExcludedPriceTaker(t, m)
  /\ \A S : Ranked(S)' = Ranked(S)
  /\ \A m : /\ ComputeSteadinessFailures(m)' = ComputeSteadinessFailures(m)
            /\ ComputeLeverageFailures(m)' = ComputeLeverageFailures(m)
  /\ \A a : ByAxis(a)' = ByAxis(a)

\* Who leaves the scores alone leaves the lists alone.
LEMMA ListsAreOfScores ==
  ASSUME UNCHANGED <<scored, steadiness>>
  PROVE  ListsStay
  BY DEF ListsStay, Ranked, ByAxis, Before, Qualifying, NumFives, AvgScore, IsCrosshit,
     IsExcludedPriceTaker, ClearsCrosshitBar, SteadinessFails, SteadinessIsAssessable,
     ComputeSteadinessFailures, ComputeLeverageFailures

\* Before the first pass there is no report.
LEMMA ReportInit ==
  ASSUME Init
  PROVE  ScoredInv /\ ReportInv
  BY DEF Init, ScoredInv, ReportInv

\* The report is written of the scores of its cohort and stays.
LEMMA ReportStep ==
  ASSUME ScoredInv, ReportInv, [Next]_vars
  PROVE  ScoredInv' /\ ReportInv'
<1>1. CASE ScoreRecords
  <2>1. \A t \in Titles, a \in Axes : scored'[t].dims[a] \in 0..5
    <3>1. \A t \in Titles : scored'[t] = ScoreRecord(t)
      BY <1>1 DEF ScoreRecords
    <3>2. \A t \in Titles, a \in Axes : ScoreRecord(t).dims[a] \in 0..5
      BY PointsAreFew DEF ScoreRecord, Axes
    <3>3. QED
      BY <3>1, <3>2
  <2>2. pass' = "report"
    BY <1>1 DEF ScoreRecords
  <2>3. QED
    BY <2>1, <2>2 DEF ScoredInv, ReportInv
<1>2. ASSUME NEW min \in MinDimensions, Generate(min)
      PROVE  ScoredInv' /\ ReportInv'
  <2>1. /\ scored' = scored /\ steadiness' = steadiness /\ pass = "report" /\ pass' = "done"
        /\ min \in 1..3
    BY <1>2, ScoringConstants DEF Generate
  <2>2. /\ report'.min = min
        /\ report'.crosshits = Shown(Ranked({t \in Titles : IsCrosshit(t, min)}))
        /\ report'.steadiness = Ranked(ComputeSteadinessFailures(min))
        /\ report'.leverage = Ranked(ComputeLeverageFailures(min))
        /\ report'.takers = Ranked({t \in Titles : IsExcludedPriceTaker(t, min)})
        /\ \A a \in Axes : /\ report'.axes[a] = Shown(ByAxis(a))
                           /\ report'.counts[a] = Len(ByAxis(a))
    BY <1>2 DEF Generate
  <2>3. ScoredInv'
    BY <2>1 DEF ScoredInv
  <2>4. ListsStay
    BY <2>1, ListsAreOfScores
  <2>5. ReportInv'
    BY <2>1, <2>2, <2>4 DEF ReportInv, ListsStay
  <2>6. QED
    BY <2>3, <2>5
<1>3. CASE pass' \notin {"report", "done"}
  BY <1>3 DEF ScoredInv, ReportInv
<1>4. CASE UNCHANGED vars
  <2>1. /\ pass' = pass /\ scored' = scored /\ steadiness' = steadiness /\ report' = report
        /\ ListsStay
    BY <1>4, ListsAreOfScores DEF vars
  <2>2. ScoredInv'
    BY <2>1 DEF ScoredInv
  <2>3. ReportInv'
    BY <2>1 DEF ReportInv, ListsStay
  <2>4. QED
    BY <2>2, <2>3
<1>5. QED
  BY <1>1, <1>2, <1>3, <1>4 DEF Next, ReadRevenues, AnnotateRoic, AnnotatePercentiles,
     AnnotateSteadiness

\* For any cohort: a title that reaches the threshold on enough axes stands in one section
\* of the report and in no other, and each list is cut from its weaker end.
THEOREM TitlesStandInOneSection == Spec => []OneSectionPerTitle
<1>1. Init => ScoredInv /\ ReportInv
  BY ReportInit
<1>2. ScoredInv /\ ReportInv /\ [Next]_vars => (ScoredInv /\ ReportInv)'
  BY ReportStep
<1>3. ScoredInv /\ ReportInv => OneSectionPerTitle
  BY SectionsAreDisjoint
<1>4. QED
  BY <1>1, <1>2, <1>3, PTL DEF Spec
===============================================================================
