---------------------------- MODULE FunnelVerdicts ----------------------------
(* What the funnel of the screener owes the reader of its report: every    *)
(* title of the universe is put into one basket, once, and stays there.    *)
(* Nothing is said here about how a basket is found.                       *)
EXTENDS FiniteSets

CONSTANTS
  Universe,   \* the titles to be screened
  Baskets,    \* where a title can end
  Open        \* not decided yet

VARIABLE verdict

Undecided == {t \in Universe : verdict[t] = Open}

Init == verdict = [t \in Universe |-> Open]

\* Several titles may be decided at once; a decided title is never touched.
Decide ==
  \E new \in [Undecided -> Baskets \cup {Open}] :
    verdict' = [t \in Universe |-> IF t \in Undecided THEN new[t] ELSE verdict[t]]

Spec == Init /\ [][Decide]_verdict
===============================================================================
