-------------------------------- MODULE Insider --------------------------------
(***************************************************************************)
(* From the Form 4 filings to the insider block of a dossier.              *)
(*                                                                         *)
(* A filing is [owner, title, director, officer, tenPct, aff, noaff, rows] *)
(* (title "ceo", "cfo", "other" or None), rows the transactions of its two *)
(* tables: [derivative, code, shares, price, side, after, holding].        *)
(* Amounts are in thousands of dollars.                                    *)
(***************************************************************************)
EXTENDS SourceValues, Integers, FiniteSets, Sequences, SequencesExt

INSIDER_SIGNIFICANCE_USD == 1000

ClassifyBucket(code, derivative) ==
  CASE derivative -> "routine"
    [] ~derivative /\ code = "P" -> "buy"
    [] ~derivative /\ code = "S" -> "sell"
    [] OTHER -> "routine"

DeriveRole(f) ==
  CASE f.title = "ceo" -> "CEO"
    [] f.title = "cfo" -> "CFO"
    [] f.title \notin {"ceo", "cfo"} /\ f.officer -> "Officer"
    [] f.title \notin {"ceo", "cfo"} /\ ~f.officer /\ f.director -> "Director"
    [] f.title \notin {"ceo", "cfo"} /\ ~f.officer /\ ~f.director /\ f.tenPct -> "TenPercentOwner"
    [] OTHER -> "Other"

\* The pair of flags of the 10b5-1 plans: planned, unplanned, not said.
Parse10b51(f) ==
  IF f.aff = "1" THEN "planned"
  ELSE IF f.noaff = "1" \/ f.aff = "0" THEN "unplanned" ELSE None

Abs(x) == IF x < 0 THEN -x ELSE x

Transaction(f, r) ==
  [owner |-> f.owner, role |-> DeriveRole(f), plan |-> Parse10b51(f),
   bucket |-> ClassifyBucket(r.code, r.derivative),
   shares |-> r.shares, side |-> r.side, after |-> r.after, holding |-> r.holding,
   value |-> IF r.shares # None /\ r.price # None THEN r.shares * r.price ELSE None]

\* The transactions of the forms by form and row; a derivative one is routine, in whatever
\* table it is listed.
ParseForm4(forms) ==
  [p \in UNION {{k} \X DOMAIN forms[k].rows : k \in DOMAIN forms} |->
    Transaction(forms[p[1]], forms[p[1]].rows[p[2]])]

(***************************************************************************)
(* The summary.                                                            *)
(***************************************************************************)
InsiderSummary(state) ==
  [state |-> state, filings |-> 0, parsed |-> 0, total |-> 0, buys |-> <<>>, sells |-> <<>>,
   immaterial |-> 0, routine |-> 0, netBuy |-> 0, netSell |-> 0]

SumOf(q, side) ==
  MapThenSumSet(LAMBDA p : q[p].value, {p \in DOMAIN q : q[p].value # None /\ q[p].side = side})

OwnerSellTotal(q, owner) ==
  MapThenSumSet(LAMBDA p : Abs(q[p].value),
    {p \in DOMAIN q : q[p].owner = owner /\ q[p].bucket = "sell" /\ q[p].value # None})

\* Every purchase counts; a sale when it is large, when all of its owner's are, or when a
\* chief officer sells.
IsSignificantSale(q, t) ==
  /\ t.bucket = "sell"
  /\ \/ t.value # None /\ Abs(t.value) > INSIDER_SIGNIFICANCE_USD
     \/ t.role \in {"CEO", "CFO"}
     \/ OwnerSellTotal(q, t.owner) > INSIDER_SIGNIFICANCE_USD

ComputeInsiderSummary(q, state, filings, parsed) ==
  LET buys == {p \in DOMAIN q : q[p].bucket = "buy"}
      sales == {p \in DOMAIN q : q[p].bucket = "sell"}
      large == {p \in sales : IsSignificantSale(q, q[p])}
      others == DOMAIN q \ (buys \cup sales)
  IN [state |-> state, filings |-> filings, parsed |-> parsed, total |-> Cardinality(DOMAIN q),
      buys |-> Restrict(q, buys), sells |-> Restrict(q, large),
      immaterial |-> Cardinality(sales \ large), routine |-> Cardinality(others),
      netBuy |-> SumOf(Restrict(q, buys), "A"), netSell |-> SumOf(Restrict(q, large), "D")]

\* Mutant: without a filing, nothing is said of why.
INSIDER_STATE_BY_REASON_OneState ==
  [reason \in {"no_us_line", "not_sec_registrant", "no_annual_form", "unverifiable_identity"} |->
    "no_sec_source"]

\* Why there is no filing decides what may be said of insiders.
INSIDER_STATE_BY_REASON ==
  [reason \in {"no_us_line", "not_sec_registrant", "no_annual_form", "unverifiable_identity"} |->
    IF reason = "unverifiable_identity" THEN "issuer_unidentified" ELSE "no_sec_source"]

\* What the fetcher gives is [state, filings, forms], or None when it fails; the forms are
\* those it could parse.
BuildInsiderSummary(form, skip, fetched) ==
  IF skip THEN InsiderSummary("skipped")
  ELSE IF form = "20-F" THEN InsiderSummary("fpi_exempt")
  ELSE IF fetched = None THEN InsiderSummary("fetch_failed")
  ELSE ComputeInsiderSummary(ParseForm4(fetched.forms), fetched.state, fetched.filings,
                             Len(fetched.forms))

(***************************************************************************)
(* The block: a sentence and a line for each significant transaction.      *)
(***************************************************************************)
\* The share of the direct holdings, only with a denominator that makes sense.
PctSuffix(t) ==
  LET before == IF t.side = "D" THEN t.after + t.shares ELSE t.after - t.shares
  IN IF t.shares = None \/ t.after = None \/ t.holding # "direct" \/ t.side \notin {"A", "D"} THEN None
     ELSE IF before <= 0 THEN None ELSE (100 * t.shares) \div before

InsiderSentence(summary) ==
  IF summary.state \in {"no_sec_source", "issuer_unidentified", "fpi_exempt", "skipped",
                        "fetch_failed", "empty"}
  THEN summary.state
  ELSE "counted"

RenderInsiderBlock(summary) ==
  LET significant == summary.buys @@ summary.sells
  IN [sentence |-> InsiderSentence(summary),
      partial |-> summary.state = "partial",
      counts |-> IF InsiderSentence(summary) # "counted" THEN None
                 ELSE [total |-> summary.total, buys |-> Cardinality(DOMAIN summary.buys),
                       sells |-> Cardinality(DOMAIN summary.sells), immaterial |-> summary.immaterial,
                       routine |-> summary.routine],
      lines |-> IF InsiderSentence(summary) # "counted" THEN <<>>
                ELSE [p \in DOMAIN significant |->
                       [owner |-> significant[p].owner, value |-> significant[p].value,
                        share |-> PctSuffix(significant[p]), plan |-> significant[p].plan]]]

InsiderCoverageLabel(summary) == InsiderSentence(summary)
===============================================================================
