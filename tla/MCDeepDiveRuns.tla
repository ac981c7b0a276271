--------------------------- MODULE MCDeepDiveRuns ---------------------------
(* Constant values and symmetry for the runs of DeepDiveRuns.              *)
EXTENDS DeepDiveRuns, TLC

CONSTANTS t1, t2, k1, k2

\* t1 is bound to k1, t2 to k2 and to a quant-only acknowledgement.
MCKeyOf == [t \in Tokens |-> IF t = t1 THEN k1 ELSE k2]

Sym == Permutations(Procs) \cup Permutations(RunIds) \cup Permutations(Handlers)
=============================================================================
