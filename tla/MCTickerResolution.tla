------------------------- MODULE MCTickerResolution --------------------------
(* Every kind of symbol: EU issuers that file, have no US line, or a US    *)
(* line without a CIK; US symbols without an annual form, of nobody, and   *)
(* in the override table.                                                  *)
EXTENDS MCIssuerNames, TLC

CONSTANTS eu1, eu2, eu3, us1, us2, us3

MCTable == [t \in Tickers |-> IF t = us3 THEN "filing" ELSE None]

MCTruth ==
  [t \in Tickers |-> CASE t = eu1 -> "filing"
                       [] t = eu2 -> "no_us_line"
                       [] t = eu3 -> "not_sec_registrant"
                       [] t = us1 -> "no_annual_form"
                       [] t = us2 -> "no_such_symbol"
                       [] t = us3 -> "filing"]

\* A process is like another.
MCSymmetry == Permutations(Procs)

\* Names of one word, with a single letter, and of several words.
MCNamesOf ==
  [t \in EuTickers |->
     CASE t = eu1 -> {i \in MCIssuers : Len(i) = 1}
       [] t = eu2 -> {i \in MCIssuers : \E k \in DOMAIN i : i[k].text \in MCLetters}
       [] t = eu3 -> {i \in MCIssuers : Len(i) > 1}]
=============================================================================
