----------------------------- MODULE SourceValues -----------------------------
(* What every payload of a data source shares: a value that is not there.  *)
CONSTANT None

\* What Python takes for true in a figure: neither absent nor 0.
Truthy(x) == x # None /\ x # 0
===============================================================================
