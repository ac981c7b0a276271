---------------------------- MODULE ScreenerFunnel ----------------------------
(***************************************************************************)
(* The screening of one month (app/screener/runner.py, filters.py,         *)
(* funnel.py, filter_report.py): every title of the universe is fetched,   *)
(* gated, looked up at the SEC and scored, and the funnel counts where     *)
(* each of them went.                                                      *)
(*                                                                         *)
(* One thread runs the stages in order.  Only the first loop keeps state   *)
(* from title to title (the FX memo), so it takes one step per title; a    *)
(* later loop treats its titles independently and is one step.  What       *)
(* Yahoo, the FX feed and the SEC answer, and which call fails, is free.   *)
(* Market caps are in billions of EUR, daily values in 100,000 EUR,        *)
(* margins and growth in percent; a rate converts a currency to EUR.       *)
(***************************************************************************)
EXTENDS Integers, FiniteSets, Sequences

CONSTANTS
  Universe,        \* the titles of data/universe.json
  Infos,           \* payloads Yahoo may answer with, as from_yfinance_info reads them
  Statements,      \* income statements Yahoo may answer with
  Rate,            \* Rate[c]: EUR for one unit of currency c
  Bucket,          \* Bucket[industry]: nodes of the median table, finest first
  Median,          \* Median[node]: median gross margin of a node that has enough peers
  SectorWideSize,  \* SECTOR_WIDE_MIN_SIZE
  None

Currencies == DOMAIN Rate

MIN_MARKET_CAP_EUR == 2
MIN_AVG_DAILY_VALUE_EUR == 10
MIN_GROSS_MARGIN == 30
MIN_REVENUE_GROWTH == 0
MIN_FISCAL_YEARS == 4
LARGE_CAP_VOLUME_EUR == 3
LARGE_CAP_GROWTH_EUR == 10
SECTORS_WITHOUT_GROSS_MARGIN == {"Financial Services", "Real Estate"}

BasisReason ==
  [r \in {"avg_volume", "market_cap", "metric_na", "statement_unavailable",
          "gross_margin", "revenue_growth"} |->
     CASE r = "avg_volume" -> "GATE_VOLUME"
       [] r = "market_cap" -> "GATE_MARKET_CAP"
       [] r = "metric_na" -> "FRAMEWORK_METRIK_NA"
       [] r = "statement_unavailable" -> "RESOLUTION_STATEMENT_UNAVAILABLE"
       [] r = "gross_margin" -> "GATE_GROSS_MARGIN"
       [] r = "revenue_growth" -> "GATE_REVENUE_GROWTH"]

EdgarReason ==
  [r \in {"restatement", "going_concern", "enforcement"} |->
     CASE r = "restatement" -> "GATE_RESTATEMENT"
       [] r = "going_concern" -> "GATE_GOING_CONCERN"
       [] r = "enforcement" -> "GATE_ENFORCEMENT"]

AlwaysReview == {"RESOLUTION_DEGRADED_DICT", "RESOLUTION_NO_SYMBOL_DATA",
                 "RESOLUTION_FX_UNAVAILABLE", "RESOLUTION_STATEMENT_UNAVAILABLE",
                 "SCORE_NOT_SCORED"}

Values(f) == {f[x] : x \in DOMAIN f}

ReasonCodes ==
  Values(BasisReason) \cup Values(EdgarReason) \cup AlwaysReview
    \cup {"RESOLUTION_UNRESOLVED", "SCORE_BELOW_THRESHOLD", "PRICE_TAKER_EXCLUDED"}

ASSUME FunnelConstants ==
  /\ IsFiniteSet(Universe)
  /\ \A i \in Infos : i.currency \in Currencies \cup {None} /\ i.cap \in Int \cup {None}
  /\ \A c \in Currencies : Rate[c] \in Int
  /\ None \notin Int
  /\ None \notin Universe /\ None \notin Infos /\ None \notin Currencies
  /\ None \notin ReasonCodes \cup DOMAIN BasisReason \cup DOMAIN EdgarReason
  /\ None \notin {"passed", "failed", "yes", "no", "no_cik", "data_source_error", "CROSSHIT"}

VARIABLES
  stage,        \* what the run does next
  todo,         \* titles the fetch loop has not reached
  info,         \* the record of a title that could be fetched
  fx,           \* fx_cache of the run
  unresolved, degraded, noSymbolData, fxUnavailable, resolved,
                \* the lists of BasisFilterResult
  definedness,  \* verdict of the income-statement pre-pass
  trajectory,   \* verdict of the multi-year revenue pre-pass
  basisGate,    \* filter_passed_basis
  edgarGate,    \* filter_passed_edgar
  failReason,   \* filter_failed_reason, which the EDGAR gate overwrites
  signals,      \* has_restatement and has_going_concern
  skipped,      \* edgar_skipped_reason, None when not skipped
  map,          \* the SEC ticker map of the client
  report,       \* FilterReport
  dropouts, crosshits, stages,   \* what build_funnel returns
  missed        \* history: calls that failed, as <<title, call>>

lists == <<unresolved, degraded, noSymbolData, fxUnavailable, resolved>>
gates == <<basisGate, edgarGate, failReason>>
edgarVars == <<signals, skipped, map, report>>
funnelVars == <<dropouts, crosshits, stages>>
vars == <<stage, todo, info, fx, lists, definedness, trajectory, gates, edgarVars,
          funnelVars, missed>>

StageNames == {"resolution", "basis_gates", "edgar_gates", "scoring", "crosshits"}

NoSignals == [restatement |-> None, goingConcern |-> None]
NoReport == [goingConcern |-> {}, noCik |-> {}, sourceError |-> {}]

\* The records that survived the basis gates (basis.passed).
Passed == {t \in resolved : basisGate[t] = "passed"}

\* apply_edgar_filters hands on whoever has not failed.
EdgarPassed == {t \in Passed : edgarGate[t] # "failed"}

(***************************************************************************)
(* Resolution: one fetch per title, one retry for a missing market cap.    *)
(***************************************************************************)
Reason(i, memo) ==
  IF i.cap = None THEN "NO_RAW_MC"
  ELSE IF i.currency = None THEN "NO_CURRENCY"
  ELSE IF memo[i.currency] = "none" THEN "NO_FX" ELSE "OK"

\* A currency is asked for once a run; the euro without a call.
Asked(i, memo) ==
  IF i.cap = None \/ i.currency = None THEN {memo}
  ELSE IF memo[i.currency] # "unasked" THEN {memo}
  ELSE {[memo EXCEPT ![i.currency] = a] :
          a \in IF i.currency = "EUR" THEN {"rate"} ELSE {"rate", "none"}}

MarketCapEur(i) ==
  IF i.cap = None \/ i.currency = None \/ fx[i.currency] # "rate" THEN None
  ELSE i.cap * Rate[i.currency]

\* Mutant: the price is not looked at.
Destination_AnyPrice(i, memo) ==
  IF Reason(i, memo) \in {"NO_RAW_MC", "NO_CURRENCY"} \/ i.volume = None
  THEN "no_symbol_data"
  ELSE IF Reason(i, memo) = "NO_FX" THEN "fx_unavailable" ELSE "resolved"

\* Where run_basis_filter puts a record: symbol data first, then FX.
Destination(i, memo) ==
  IF Reason(i, memo) \in {"NO_RAW_MC", "NO_CURRENCY"} \/ i.volume = None \/ i.price = None
  THEN "no_symbol_data"
  ELSE IF Reason(i, memo) = "NO_FX" THEN "fx_unavailable" ELSE "resolved"

Put(t, i, memo) ==
  /\ info' = [info EXCEPT ![t] = i]
  /\ fx' = memo
  /\ noSymbolData' = noSymbolData \cup {x \in {t} : Destination(i, memo) = "no_symbol_data"}
  /\ fxUnavailable' = fxUnavailable \cup {x \in {t} : Destination(i, memo) = "fx_unavailable"}
  /\ resolved' = resolved \cup {x \in {t} : Destination(i, memo) = "resolved"}
  /\ UNCHANGED <<unresolved, degraded>>

\* Mutant: the universe lists a symbol twice, and nobody notices.
InLoop_SymbolTwice(t) ==
  /\ stage = "resolve"
  /\ t \in todo
  /\ todo' \in {todo, todo \ {t}}
  /\ UNCHANGED <<stage, definedness, trajectory, gates, edgarVars, funnelVars>>

InLoop(t) ==
  /\ stage = "resolve"
  /\ t \in todo
  /\ todo' = todo \ {t}
  /\ UNCHANGED <<stage, definedness, trajectory, gates, edgarVars, funnelVars>>

\* DataSourceError, ValidationError, or a payload without name and cap.
FetchFails(t, isDegraded) ==
  /\ InLoop(t)
  /\ unresolved' = unresolved \cup {t}
  /\ degraded' = IF isDegraded THEN degraded \cup {t} ELSE degraded
  /\ missed' = missed \cup {<<t, "info">>}
  /\ UNCHANGED <<info, fx, noSymbolData, fxUnavailable, resolved>>

Fetch(t, i) ==
  /\ InLoop(t)
  /\ \E memo \in Asked(i, fx) :
       /\ Reason(i, memo) # "NO_RAW_MC"
       /\ Put(t, i, memo)
  /\ UNCHANGED missed

FetchAgain(t, i) ==
  /\ InLoop(t)
  /\ \E first \in Infos : first.cap = None
  /\ \E memo \in Asked(i, fx) : Put(t, i, memo)
  /\ UNCHANGED missed

\* The failed retry keeps the first record and its diversion.
RetryFails(t, i) ==
  /\ InLoop(t)
  /\ i.cap = None
  /\ Put(t, i, fx)
  /\ missed' = missed \cup {<<t, "retry">>}

(***************************************************************************)
(* Pre-passes: two lazy looks at the income statement.                     *)
(***************************************************************************)
\* FilterConfigError if the record does not carry what the volume gate needs.
Computable(t) ==
  /\ info[t].volume # None /\ info[t].price # None
  /\ MarketCapEur(info[t]) # None

PassesVolume(t) ==
  info[t].volume * info[t].price * Rate[info[t].currency] >= MIN_AVG_DAILY_VALUE_EUR

PassesMarketCap(t) == MarketCapEur(info[t]) >= MIN_MARKET_CAP_EUR

Suspect(t) ==
  \/ info[t].sector \in SECTORS_WITHOUT_GROSS_MARGIN
  \/ info[t].margin = None
  \/ info[t].margin # None /\ info[t].margin <= 0

Abs(n) == IF n < 0 THEN -n ELSE n

\* The shape of a statement, not the presence of a cost line.
ClassifyWaterfall(s) ==
  LET revenue == s.years[1] IN
  IF \/ s.cost = None \/ revenue <= 0 \/ s.gross = None
     \/ 100 * Abs(s.cost) < revenue
     \/ 50 * Abs(s.gross - (revenue - s.cost)) > revenue
  THEN "UNDEFINED"
  ELSE IF s.gross <= 0 THEN "DEFINED_NEGATIVE" ELSE "DEFINED"

\* Mutant: a statement that could not be had is taken for a metric that is not defined.
AssessDefinedness_LostIsUndefined(t, s) ==
  IF s = None \/ s.years = <<>> \/ s.years[1] = None \/ info[t].reit THEN "METRIK_NA"
  ELSE IF ClassifyWaterfall(s) = "UNDEFINED" THEN "METRIK_NA" ELSE "DEFINED"

\* years: annual revenue, newest first; None stands for NaN.  No frame: <<>>.
AssessDefinedness(t, s) ==
  IF info[t].reit THEN "METRIK_NA"
  ELSE IF s = None \/ s.years = <<>> \/ s.years[1] = None THEN "UNASSESSABLE"
  ELSE IF ClassifyWaterfall(s) = "UNDEFINED" THEN "METRIK_NA" ELSE "DEFINED"

AssessDefinednessBasket ==
  LET basket == {t \in resolved : PassesVolume(t) /\ PassesMarketCap(t) /\ Suspect(t)}
      asked == {t \in basket : ~info[t].reit}
  IN /\ stage = "definedness"
     /\ \A t \in resolved : Computable(t)
     /\ \E answer \in [asked -> Statements \cup {None}] :
          /\ definedness' =
               [t \in Universe |->
                  IF t \in asked THEN AssessDefinedness(t, answer[t])
                  ELSE IF t \in basket THEN "METRIK_NA" ELSE None]
          /\ missed' = missed \cup {<<t, "definedness">> : t \in {x \in asked : answer[x] = None}}
     /\ stage' = "trajectory"
     /\ UNCHANGED <<todo, info, fx, lists, trajectory, gates, edgarVars, funnelVars>>

BucketMedian(t) ==
  LET nodes == {k \in DOMAIN Bucket[info[t].industry] :
                  Bucket[info[t].industry][k] \in DOMAIN Median}
  IN IF nodes = {} THEN None
     ELSE Median[Bucket[info[t].industry][CHOOSE k \in nodes : \A j \in nodes : k <= j]]

GrossMarginPassReason(t) ==
  LET margin == info[t].margin IN
  IF margin = None THEN None
  ELSE IF margin >= MIN_GROSS_MARGIN THEN "ABSOLUTE_PASS"
  ELSE IF BucketMedian(t) = None THEN None
  ELSE IF 2 * margin >= BucketMedian(t) THEN "RELATIVE_RESCUE" ELSE None

TtmPass(t) == info[t].growth # None /\ info[t].growth >= MIN_REVENUE_GROWTH

\* Oldest first, without NaN and values that are not positive.
RevenueSeries(s) ==
  LET n == Len(s.years) IN
  SelectSeq([k \in 1..n |-> s.years[n + 1 - k]], LAMBDA x : x # None /\ x > 0)

\* Only the sign of the endpoint CAGR is read: whether the last year is below the first.
ClassifyRevenueTrajectory(r) ==
  LET downs == {k \in 2..Len(r) : r[k] < r[k - 1]} IN
  IF Len(r) < MIN_FISCAL_YEARS THEN "UNASSESSABLE"
  ELSE IF r[Len(r)] < r[1] /\ Cardinality(downs) >= 2 THEN "DECLINE" ELSE "RESCUE"

AssessRevenueTrajectory ==
  LET cohort == {t \in resolved :
                   /\ PassesVolume(t) /\ PassesMarketCap(t)
                   /\ definedness[t] \notin {"UNASSESSABLE", "METRIK_NA"}
                   /\ GrossMarginPassReason(t) # None
                   /\ ~TtmPass(t)}
  IN /\ stage = "trajectory"
     /\ \E answer \in [cohort -> Statements \cup {None}] :
          /\ trajectory' =
               [t \in Universe |->
                  IF t \notin cohort THEN None
                  ELSE IF answer[t] = None THEN "UNASSESSABLE"
                  ELSE ClassifyRevenueTrajectory(RevenueSeries(answer[t]))]
          /\ missed' = missed \cup {<<t, "trajectory">> : t \in {x \in cohort : answer[x] = None}}
     /\ stage' = "basis"
     /\ UNCHANGED <<todo, info, fx, lists, definedness, gates, edgarVars, funnelVars>>

(***************************************************************************)
(* Gates                                                                   *)
(***************************************************************************)
RevenueGrowthOutcome(t) ==
  IF TtmPass(t) THEN "TTM_PASS"
  ELSE IF trajectory[t] = "UNASSESSABLE" THEN "UNASSESSABLE_PASS"
  ELSE IF trajectory[t] = "DECLINE" THEN "DECLINE_DROP" ELSE "TRAJECTORY_RESCUE"

\* Mutant: the margin gate comes before the verdict on the metric.
GetFailReason_MarginFirst(t) ==
  CASE ~PassesVolume(t) -> "avg_volume"
    [] PassesVolume(t) /\ ~PassesMarketCap(t) -> "market_cap"
    [] OTHER ->
         IF GrossMarginPassReason(t) = None THEN "gross_margin"
         ELSE IF definedness[t] = "UNASSESSABLE" THEN "statement_unavailable"
         ELSE IF definedness[t] = "METRIK_NA" THEN "metric_na"
         ELSE IF RevenueGrowthOutcome(t) = "DECLINE_DROP" THEN "revenue_growth" ELSE None

GetFailReason(t) ==
  CASE ~PassesVolume(t) -> "avg_volume"
    [] PassesVolume(t) /\ ~PassesMarketCap(t) -> "market_cap"
    [] OTHER ->
         IF definedness[t] = "UNASSESSABLE" THEN "statement_unavailable"
         ELSE IF definedness[t] = "METRIK_NA" THEN "metric_na"
         ELSE IF GrossMarginPassReason(t) = None THEN "gross_margin"
         ELSE IF RevenueGrowthOutcome(t) = "DECLINE_DROP" THEN "revenue_growth" ELSE None

ApplyBasisFilters ==
  /\ stage = "basis"
  /\ failReason' = [t \in Universe |-> IF t \in resolved THEN GetFailReason(t) ELSE None]
  /\ basisGate' = [t \in Universe |->
                     IF t \notin resolved THEN None
                     ELSE IF GetFailReason(t) = None THEN "passed" ELSE "failed"]
  /\ stage' = "edgar"
  /\ UNCHANGED <<todo, info, fx, lists, definedness, trajectory, edgarGate, edgarVars,
                 funnelVars, missed>>

\* Mutant: only the first of the two calls is guarded.
Lost_RestatementOnly(restated, doubt) == restated = "lost"

\* One handler for both calls: either of them failing marks the title as skipped.
Lost(restated, doubt) == restated = "lost" \/ doubt = "lost"

\* The ticker map is loaded at the first title that needs it; a failed load is an
\* empty map for the rest of the run.  "lost": the call raised DataSourceError.
EvaluateEdgar ==
  LET asks == {t \in Passed : ~info[t].cik}
      Answers == {"yes", "no", "lost"}
  IN
  /\ stage = "edgar"
  /\ map' \in IF asks = {} THEN {map} ELSE {"loaded", "failed"}
  /\ \E known \in SUBSET asks :
     LET found == IF map' = "failed" THEN {} ELSE known
         called == (Passed \ asks) \cup found
     IN \E restated \in [called -> Answers], doubt \in [called -> Answers] :
          LET lost == {t \in called : Lost(restated[t], doubt[t])}
          IN /\ signals' =
                  [t \in Universe |->
                     IF t \notin called \/ restated[t] = "lost" THEN NoSignals
                     ELSE [restatement |-> restated[t],
                           goingConcern |-> IF doubt[t] = "lost" THEN None ELSE doubt[t]]]
             /\ skipped' =
                  [t \in Universe |-> IF t \in lost THEN "data_source_error"
                                      ELSE IF t \in Passed \ called THEN "no_cik" ELSE None]
             /\ missed' = missed \cup {<<t, "edgar">> : t \in lost}
  /\ stage' = "edgar_gate"
  /\ UNCHANGED <<todo, info, fx, lists, definedness, trajectory, gates, report, funnelVars>>

EdgarReasonOf(t) ==
  IF skipped[t] # None THEN None
  ELSE IF signals[t].restatement = "yes" THEN "restatement"
  ELSE IF signals[t].goingConcern = "yes" THEN "going_concern" ELSE None

\* apply_edgar_filters, then build_filter_report over the same records.  The
\* enforcement call always answers FALSE.
ApplyEdgarFilters ==
  /\ stage = "edgar_gate"
  /\ edgarGate' = [t \in Universe |->
                     IF t \notin Passed \/ skipped[t] # None THEN None
                     ELSE IF EdgarReasonOf(t) = None THEN "passed" ELSE "failed"]
  /\ failReason' = [t \in Universe |->
                      IF t \in Passed /\ EdgarReasonOf(t) # None
                      THEN EdgarReasonOf(t) ELSE failReason[t]]
  /\ report' = [goingConcern |-> {t \in Passed : EdgarReasonOf(t) = "going_concern"},
                noCik |-> {t \in Passed : skipped[t] = "no_cik"},
                sourceError |-> {t \in Passed : skipped[t] = "data_source_error"}]
  /\ stage' = "funnel"
  /\ UNCHANGED <<todo, info, fx, lists, definedness, trajectory, basisGate, signals,
                 skipped, map, funnelVars, missed>>

(***************************************************************************)
(* The funnel.                                                             *)
(***************************************************************************)
\* Sectors in which the margin gate dropped half of the titles that reached it.
SectorWide ==
  LET Reached(s) == {t \in resolved : /\ info[t].sector = s
                                      /\ \/ basisGate[t] = "passed"
                                         \/ failReason[t] \in {"gross_margin", "revenue_growth"}}
      Dropped(s) == {t \in resolved : info[t].sector = s /\ failReason[t] = "gross_margin"}
  IN {s \in {info[t].sector : t \in resolved} \ SECTORS_WITHOUT_GROSS_MARGIN :
        /\ Cardinality(Reached(s)) >= SectorWideSize
        /\ 2 * Cardinality(Dropped(s)) >= Cardinality(Reached(s))}

AtLeast(cap, floor) == IF cap = None THEN FALSE ELSE cap >= floor

Severity(code, cap, wide) ==
  LET review == CASE code = "GATE_VOLUME" -> AtLeast(cap, LARGE_CAP_VOLUME_EUR)
                  [] code = "GATE_REVENUE_GROWTH" -> AtLeast(cap, LARGE_CAP_GROWTH_EUR)
                  [] code = "GATE_GROSS_MARGIN" -> wide
                  [] OTHER -> code \in AlwaysReview
  IN IF review THEN "REVIEW" ELSE "BENIGN"

Dropout(t, where, code, severity) ==
  [ticker |-> t, stage |-> where, code |-> code, severity |-> severity]

MakeDropout(t, where, code) ==
  LET wide == code = "GATE_GROSS_MARGIN" /\ info[t].sector \in SectorWide
  IN Dropout(t, where, code, Severity(code, MarketCapEur(info[t]), wide))

BasisDrops == {t \in resolved : basisGate[t] = "failed"}
EdgarDrops == {t \in Passed : edgarGate[t] = "failed"}

\* Mutant: a degraded payload is listed as unresolved as well.
GateDropouts_DegradedTwice ==
  {Dropout(t, "resolution", "RESOLUTION_DEGRADED_DICT", "REVIEW") : t \in degraded}
  \cup {Dropout(t, "resolution", "RESOLUTION_UNRESOLVED", "BENIGN") : t \in unresolved}
  \cup {MakeDropout(t, "resolution", "RESOLUTION_NO_SYMBOL_DATA") : t \in noSymbolData}
  \cup {MakeDropout(t, "resolution", "RESOLUTION_FX_UNAVAILABLE") : t \in fxUnavailable}
  \cup {MakeDropout(t, "basis_gates", BasisReason[failReason[t]]) : t \in BasisDrops}
  \cup {MakeDropout(t, "edgar_gates", EdgarReason[failReason[t]]) : t \in EdgarDrops}

GateDropouts ==
  {Dropout(t, "resolution", "RESOLUTION_DEGRADED_DICT", "REVIEW") : t \in degraded}
  \cup {Dropout(t, "resolution", "RESOLUTION_UNRESOLVED", "BENIGN") : t \in unresolved \ degraded}
  \cup {MakeDropout(t, "resolution", "RESOLUTION_NO_SYMBOL_DATA") : t \in noSymbolData}
  \cup {MakeDropout(t, "resolution", "RESOLUTION_FX_UNAVAILABLE") : t \in fxUnavailable}
  \cup {MakeDropout(t, "basis_gates", BasisReason[failReason[t]]) : t \in BasisDrops}
  \cup {MakeDropout(t, "edgar_gates", EdgarReason[failReason[t]]) : t \in EdgarDrops}

Stage(entered, dropped, remaining) ==
  [entered |-> entered, dropped |-> dropped, remaining |-> remaining]

\* Mutant: the list of titles without a rate is not counted.
GateStages_FxForgotten ==
  LET n == Cardinality(Universe)
      nPassed == Cardinality(Passed)
      nEdgarDrops == Cardinality(EdgarDrops)
  IN [resolution |-> Stage(n, Cardinality(unresolved) + Cardinality(noSymbolData),
                           Cardinality(resolved)),
      basis_gates |-> Stage(Cardinality(resolved), Cardinality(BasisDrops), nPassed),
      edgar_gates |-> Stage(nPassed, nEdgarDrops, nPassed - nEdgarDrops)]

GateStages ==
  LET n == Cardinality(Universe)
      nPassed == Cardinality(Passed)
      nEdgarDrops == Cardinality(EdgarDrops)
  IN [resolution |-> Stage(n, Cardinality(unresolved) + Cardinality(noSymbolData)
                                + Cardinality(fxUnavailable), Cardinality(resolved)),
      basis_gates |-> Stage(Cardinality(resolved), Cardinality(BasisDrops), nPassed),
      edgar_gates |-> Stage(nPassed, nEdgarDrops, nPassed - nEdgarDrops)]

FunnelReads == <<todo, info, fx, lists, definedness, trajectory, gates, edgarVars, missed>>

\* The free preview: no scoring, the last two stages did not run.
BuildPreviewFunnel ==
  LET left == GateStages.edgar_gates.remaining IN
  /\ stage = "funnel"
  /\ dropouts' = GateDropouts
  /\ crosshits' = EdgarPassed
  /\ stages' = [s \in StageNames |-> IF s \in DOMAIN GateStages THEN GateStages[s]
                                     ELSE Stage(left, 0, left)]
  /\ stage' = "done"
  /\ UNCHANGED FunnelReads

\* run_deterministic_scoring scores every record it is given; clears: the titles
\* above the merit bar, takers: the price takers (is_crosshit in dimensions.py).
BuildFunnel(clears, takers) ==
  LET hits == clears \ takers
      below == EdgarPassed \ hits
      left == GateStages.edgar_gates.remaining
      Code(t) == IF t \in takers \cap clears THEN "PRICE_TAKER_EXCLUDED"
                                             ELSE "SCORE_BELOW_THRESHOLD"
  IN /\ stage = "funnel"
     /\ clears \cup takers \subseteq EdgarPassed
     /\ dropouts' = GateDropouts \cup {MakeDropout(t, "crosshits", Code(t)) : t \in below}
     /\ crosshits' = hits
     /\ stages' = [s \in StageNames |->
                     CASE s = "scoring" -> Stage(left, 0, Cardinality(EdgarPassed))
                       [] s = "crosshits" -> Stage(Cardinality(EdgarPassed),
                                                   Cardinality(below), Cardinality(hits))
                       [] OTHER -> GateStages[s]]
     /\ stage' = "done"
     /\ UNCHANGED FunnelReads

\* The loop is over.
EndFetch ==
  /\ stage = "resolve"
  /\ todo = {}
  /\ stage' = "definedness"
  /\ UNCHANGED <<todo, info, fx, lists, definedness, trajectory, gates, edgarVars,
                 funnelVars, missed>>

Init ==
  /\ stage = "resolve"
  /\ todo = Universe
  /\ info = [t \in Universe |-> None]
  /\ fx = [c \in Currencies |-> "unasked"]
  /\ unresolved = {} /\ degraded = {} /\ noSymbolData = {} /\ fxUnavailable = {}
  /\ resolved = {}
  /\ definedness = [t \in Universe |-> None]
  /\ trajectory = [t \in Universe |-> None]
  /\ basisGate = [t \in Universe |-> None]
  /\ edgarGate = [t \in Universe |-> None]
  /\ failReason = [t \in Universe |-> None]
  /\ signals = [t \in Universe |-> NoSignals]
  /\ skipped = [t \in Universe |-> None]
  /\ map = "unloaded"
  /\ report = NoReport
  /\ dropouts = {} /\ crosshits = {} /\ stages = None
  /\ missed = {}

Resolve(t) ==
  \/ \E d \in BOOLEAN : FetchFails(t, d)
  \/ \E i \in Infos : Fetch(t, i) \/ FetchAgain(t, i) \/ RetryFails(t, i)

Next ==
  \/ \E t \in Universe : Resolve(t)
  \/ EndFetch
  \/ AssessDefinednessBasket
  \/ AssessRevenueTrajectory
  \/ ApplyBasisFilters
  \/ EvaluateEdgar
  \/ ApplyEdgarFilters
  \/ BuildPreviewFunnel
  \/ \E clears, takers \in SUBSET Universe : BuildFunnel(clears, takers)

Spec == Init /\ [][Next]_vars

-------------------------------------------------------------------------------
TypeOK ==
  /\ stage \in {"resolve", "definedness", "trajectory", "basis", "edgar", "edgar_gate",
                "funnel", "done"}
  /\ {todo, unresolved, degraded, noSymbolData, fxUnavailable, resolved, crosshits}
       \subseteq SUBSET Universe
  /\ info \in [Universe -> Infos \cup {None}]
  /\ fx \in [Currencies -> {"unasked", "rate", "none"}]
  /\ definedness \in [Universe -> {"DEFINED", "METRIK_NA", "UNASSESSABLE", None}]
  /\ trajectory \in [Universe -> {"RESCUE", "DECLINE", "UNASSESSABLE", None}]
  /\ basisGate \in [Universe -> {"passed", "failed", None}]
  /\ edgarGate \in [Universe -> {"passed", "failed", None}]
  /\ failReason \in [Universe -> DOMAIN BasisReason \cup DOMAIN EdgarReason \cup {None}]
  /\ signals \in [Universe -> [restatement : {"yes", "no", None},
                               goingConcern : {"yes", "no", None}]]
  /\ skipped \in [Universe -> {"no_cik", "data_source_error", None}]
  /\ map \in {"unloaded", "loaded", "failed"}
  /\ report \in [DOMAIN NoReport -> SUBSET Universe]
  /\ \A d \in dropouts : /\ d.ticker \in Universe /\ d.code \in ReasonCodes
                         /\ d.stage \in StageNames /\ d.severity \in {"REVIEW", "BENIGN"}
  /\ missed \subseteq
       Universe \X {"info", "retry", "definedness", "trajectory", "edgar"}

\* The codes by which a title is judged on its figures or its filings.
QualityCodes ==
  {"FRAMEWORK_METRIK_NA", "GATE_GROSS_MARGIN", "GATE_REVENUE_GROWTH",
   "GATE_RESTATEMENT", "GATE_GOING_CONCERN", "GATE_ENFORCEMENT"}

\* Every title of the universe is found once in the report, either among the dropouts or
\* among the titles that remain, although a dozen lists filled by four stages feed it.
EveryTitleInOneBasket ==
  stage = "done" =>
    /\ \A t \in Universe : t \in crosshits <=> \A d \in dropouts : d.ticker # t
    /\ \A d, e \in dropouts : d.ticker = e.ticker => d = e

\* The table of the report adds up: a stage drops what it does not hand on, the next one
\* gets the rest, and the dropouts CSV has one line for each title counted as dropped.
StagesAddUp ==
  stage = "done" =>
    /\ \A s \in StageNames : /\ stages[s].entered = stages[s].dropped + stages[s].remaining
                             /\ stages[s].dropped = Cardinality({d \in dropouts : d.stage = s})
    /\ stages.resolution.entered = Cardinality(Universe)
    /\ stages.basis_gates.entered = stages.resolution.remaining
    /\ stages.edgar_gates.entered = stages.basis_gates.remaining
    /\ stages.scoring.entered = stages.edgar_gates.remaining
    /\ stages.crosshits.entered = stages.scoring.remaining
    /\ stages.crosshits.remaining = Cardinality(crosshits)

\* Failure is not an empty result: a title of which a call failed in this run is never
\* dropped on its figures or its filings, it is diverted or goes on.
OutageIsNoVerdict ==
  \A d \in dropouts, call \in {"info", "retry", "definedness", "trajectory", "edgar"} :
    <<d.ticker, call>> \in missed =>
      \/ d.code \notin QualityCodes
      \/ call = "trajectory" /\ d.code \in Values(EdgarReason)

\* A title that gets past the EDGAR gate without both answers of the SEC is listed as a
\* pass-through, once, and the count of the funnel is the length of the two lists.
UncheckedIsReported ==
  stage \in {"funnel", "done"} =>
    /\ \A t \in EdgarPassed :
         (signals[t] # [restatement |-> "no", goingConcern |-> "no"])
           => t \in report.noCik \cup report.sourceError
    /\ report.noCik \cap report.sourceError = {}
    /\ report.noCik \cup report.sourceError = {t \in Passed : skipped[t] # None}
    /\ (report.noCik \cup report.sourceError) \cap report.goingConcern = {}

\* The volume gate never raises FilterConfigError: whatever was diverted, retried or
\* resolved, a gateable record carries volume, price and rate.
GateNeverThrows == \A t \in resolved : Computable(t)

\* The sector flag is computed afterwards, from fields the EDGAR gate may overwrite: its
\* cohort is still the set of titles that reached the margin gate.
MarginCohortReachedTheGate ==
  stage \in {"funnel", "done"} =>
    \A t \in resolved :
      (basisGate[t] = "passed" \/ failReason[t] \in {"gross_margin", "revenue_growth"})
        <=> /\ PassesVolume(t) /\ PassesMarketCap(t)
            /\ definedness[t] \notin {"UNASSESSABLE", "METRIK_NA"}

-------------------------------------------------------------------------------
\* What FunnelVerdicts sees of a title: the basket it is in by now.
Verdict(t) ==
  IF t \in degraded THEN "RESOLUTION_DEGRADED_DICT"
  ELSE IF t \in unresolved THEN "RESOLUTION_UNRESOLVED"
  ELSE IF t \in noSymbolData THEN "RESOLUTION_NO_SYMBOL_DATA"
  ELSE IF t \in fxUnavailable THEN "RESOLUTION_FX_UNAVAILABLE"
  ELSE IF basisGate[t] = "failed" THEN BasisReason[failReason[t]]
  ELSE IF edgarGate[t] = "failed" THEN EdgarReason[failReason[t]]
  ELSE IF stage # "done" THEN None
  ELSE IF t \in crosshits THEN "CROSSHIT"
  ELSE (CHOOSE d \in dropouts : d.ticker = t).code

Verdicts == INSTANCE FunnelVerdicts
  WITH Baskets <- ReasonCodes \cup {"CROSSHIT"}, Open <- None,
       verdict <- [t \in Universe |-> Verdict(t)]

\* The pipeline implements the promise: one basket per title, and none is changed later.
DecidesOnce == Verdicts!Spec
===============================================================================
