---------------------------- MODULE MCDeepDiveCli ----------------------------
(* Two runs and a pre-flight over an EU issuer that files, US symbols      *)
(* without an annual form and of nobody, and one in the override table;    *)
(* and the names of issuers that MCIssuerNames lists.                      *)
EXTENDS DeepDiveCli, MCIssuerNames, TLC

CONSTANTS p1, r1, r2, eu1, us1, us2, us3

MCTruth ==
  [t \in Tickers |-> CASE t = eu1 -> "filing"
                       [] t = us2 -> "no_such_symbol"
                       [] OTHER -> "no_annual_form"]

MCTable == [t \in Tickers |-> IF t = us3 THEN MCTruth[t] ELSE None]

MCNamesOf == [t \in EuTickers |-> MCIssuers]

\* A run is like another.
MCSymmetry == Permutations(Runs)
=============================================================================
