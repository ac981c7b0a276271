------------------------------ MODULE RunLedger ------------------------------
(***************************************************************************)
(* What the run history of the deep-dive start page promises its reader,   *)
(* whatever threads, crashes and disk faults lie underneath: every run is  *)
(* announced once, at most one run is announced as running, and an outcome *)
(* is final.  DeepDiveRuns implements it with the <run_id>.json files.     *)
(***************************************************************************)
CONSTANT RunIds          \* names a run can get (timestamp, ticker, suffix)

VARIABLE ledger          \* ledger[r]: what the history says of run r

Outcomes == {"ok", "failed"}

Init == ledger = [r \in RunIds |-> "none"]

Announce(r) ==
  /\ ledger[r] = "none"
  /\ \A q \in RunIds : ledger[q] # "running"
  /\ ledger' = [ledger EXCEPT ![r] = "running"]

Settle(r, o) ==
  /\ ledger[r] = "running"
  /\ ledger' = [ledger EXCEPT ![r] = o]

Next == \E r \in RunIds : Announce(r) \/ \E o \in Outcomes : Settle(r, o)

Spec == Init /\ [][Next]_ledger
=============================================================================
