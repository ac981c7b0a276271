------------------------------- MODULE Scoring -------------------------------
(***************************************************************************)
(* The deterministic scoring of one month (app/screener/                   *)
(* deterministic_scorer.py, percentiles.py, sector_percentiles.py, roic.py, *)
(* growth_consistency.py, steadiness.py, dimensions.py) and the lists that *)
(* the two reports make of it (app/output/crosshits_generator.py,          *)
(* dimensions_generator.py).                                               *)
(*                                                                         *)
(* The cohort is what the gates of ScreenerFunnel let through.  Each pass  *)
(* over the cohort is one step; the percentiles of a title depend on the   *)
(* whole cohort.  Margins and growth are in percent, a percentile in 1/24  *)
(* of a percent (exact, halves included, for up to six values), the        *)
(* steadiness in hundredths.                                               *)
(***************************************************************************)
EXTENDS Integers, FiniteSets, Sequences

CONSTANTS
  Titles,          \* positions in the list of records: a set of numbers
  Profiles,        \* what the sources say of a title
  Takers,          \* industries of data/price_takers.json
  MinSectorN,      \* MIN_SECTOR_N
  ScoreThreshold,  \* score_threshold of the reports
  MinDimensions,   \* settings of min_dimensions to look at
  Cap,             \* longest list shown
  None

ASSUME ScoringConstants ==
  /\ Titles \subseteq Nat /\ IsFiniteSet(Titles)
  /\ MinSectorN \in Nat /\ ScoreThreshold \in 1..5 /\ MinDimensions \subseteq 1..3 /\ Cap \in Nat

\* Annual figures by year; revenue, operating income and net income have years of their own.
IsSeries(s) ==
  \A part \in {s.revenue, s.operating, s.net} :
    /\ IsFiniteSet(DOMAIN part) /\ DOMAIN part \subseteq Nat
    /\ \A y \in DOMAIN part : part[y] \in Int

\* What is known of a title are numbers, and its revenues are positive
\* (extract_revenue_series drops the others).
ASSUME ProfileFigures ==
  /\ None \notin Int
  /\ None \notin {"net_debt_with_nonpositive_ebitda", "net_debt_to_ebitda_above_4"}
  /\ \A p \in Profiles :
       /\ p.revenues \in Seq(Nat \ {0})
       /\ \A x \in {p.margin, p.revenue, p.debt, p.de, p.cash, p.book, p.ebitda, p.gross, p.yoy} :
            x # None => x \in Int
       /\ p.series # None => IsSeries(p.series)

VARIABLES
  pass,        \* the pass that comes next
  profile,     \* the record before scoring
  growth,      \* growth_consistency (down years, transitions) and revenue_growth_median
  roic,        \* return_on_invested_capital and roic_missing_reason
  pct,         \* input_percentiles; None for a value that has none
  steadiness,  \* score and reason, None when the axis is switched off
  scored,      \* what score_record leaves in the record
  report       \* the lists of Crosshits.md and of Dimensions.md

vars == <<pass, profile, growth, roic, pct, steadiness, scored, report>>

Axes == {"growth", "profitability", "resilience"}
Inputs == {"median", "yoy", "margin", "roic", "gross"}

Max2(a, b) == IF a >= b THEN a ELSE b
Min2(a, b) == IF a <= b THEN a ELSE b
Or0(x) == IF x = None THEN 0 ELSE x

(***************************************************************************)
(* Growth: down years and the median of the annual rates (4 years or more) *)
(***************************************************************************)
\* The rate of transition k, in percent.
Rates(r) == [k \in 1..(Len(r) - 1) |-> (100 * (r[k + 1] - r[k])) \div r[k]]

\* The mean of the two middle values when their number is even; twice the median.
Median2(q) ==
  LET n == Len(q)
      At(k) == CHOOSE x \in {q[i] : i \in 1..n} :
                 /\ Cardinality({i \in 1..n : q[i] < x}) < k
                 /\ Cardinality({i \in 1..n : q[i] <= x}) >= k
  IN At((n + 1) \div 2) + At((n + 2) \div 2)

NoGrowth == [down |-> None, years |-> None, median |-> None]

GrowthOf(r) ==
  IF Len(r) < 4 THEN NoGrowth
  ELSE [down |-> Cardinality({k \in 2..Len(r) : r[k] < r[k - 1]}),
        years |-> Len(r) - 1,
        median |-> Median2(Rates(r))]

\* A series that could not be had is empty here, and then too short.
ReadRevenues ==
  /\ pass = "revenues"
  /\ growth' = [t \in Titles |-> GrowthOf(profile[t].revenues)]
  /\ pass' = "roic"
  /\ UNCHANGED <<profile, roic, pct, steadiness, scored, report>>

(***************************************************************************)
(* Return on invested capital.                                             *)
(***************************************************************************)
\* A negative ratio is that of a negative equity.
Equity(p) ==
  IF p.debt # None /\ p.de # None /\ Or0(p.debt) > 0 /\ Or0(p.de) # 0
  THEN IF p.de > 0 THEN (100 * p.debt) \div p.de ELSE -((100 * p.debt) \div (-p.de))
  ELSE IF ~p.sameCurrency THEN None ELSE p.book

Roic(value, reason) == [value |-> value, reason |-> reason]

ComputeRoic(p) ==
  IF p.margin = None \/ p.revenue = None THEN Roic(None, "no_ebit")
  ELSE IF Equity(p) = None THEN Roic(None, "no_equity")
  ELSE IF p.debt = None /\ p.cash = None THEN Roic(None, "no_debt_cash")
  ELSE LET capital == Or0(p.debt) + Equity(p) - Or0(p.cash)
       IN IF capital <= 0 THEN Roic(None, "invested_capital_nonpositive")
          ELSE Roic((p.margin * p.revenue) \div capital, None)

AnnotateRoic ==
  /\ pass = "roic"
  /\ roic' = [t \in Titles |-> ComputeRoic(profile[t])]
  /\ pass' = "percentiles"
  /\ UNCHANGED <<profile, growth, pct, steadiness, scored, report>>

(***************************************************************************)
(* Percentiles in the sector if it is large enough, else in the cohort.    *)
(***************************************************************************)
Value(t) ==
  [median |-> growth[t].median, yoy |-> profile[t].yoy, margin |-> profile[t].margin,
   roic |-> roic[t].value, gross |-> profile[t].gross]

SectorPool(t) == {u \in Titles : profile[u].sector = profile[t].sector}
UseSector(t) == profile[t].sector # None /\ Cardinality(SectorPool(t)) >= MinSectorN

Pool(t, input) ==
  {u \in IF input \in {"median", "yoy"} \/ ~UseSector(t) THEN Titles ELSE SectorPool(t) :
     Value(u)[input] # None}

PercentileRank(t, input) ==
  LET pool == Pool(t, input)
      below == Cardinality({u \in pool : Value(u)[input] < Value(t)[input]})
      equal == Cardinality({u \in pool : Value(u)[input] = Value(t)[input]})
  IN (1200 * (2 * below + equal)) \div Cardinality(pool)

AnnotatePercentiles ==
  /\ pass = "percentiles"
  /\ pct' = [t \in Titles |-> [i \in Inputs |->
               IF Value(t)[i] = None THEN None ELSE PercentileRank(t, i)]]
  /\ pass' = "steadiness"
  /\ UNCHANGED <<profile, growth, roic, steadiness, scored, report>>

(***************************************************************************)
(* Steadiness: ten years of annual figures from the EDGAR cache.           *)
(***************************************************************************)
WINDOW_MAX == 10
WINDOW_MIN == 7

Steadiness(score, reason) == [score |-> score, reason |-> reason]
Neutral(reason) == Steadiness(300, reason)

\* From the newest common year backwards, as long as the years are adjacent.
Adjacent(common, last) ==
  LET back[k \in 0..(WINDOW_MAX - 1)] ==
        IF k = 0 THEN {last}
        ELSE IF last - k \in common /\ last - k + 1 \in back[k - 1]
             THEN back[k - 1] \cup {last - k} ELSE back[k - 1]
  IN back

WindowYears(s) ==
  LET common == {y \in DOMAIN s.revenue \cap DOMAIN s.operating \cap DOMAIN s.net :
                   s.revenue[y] > 0}
      last == CHOOSE y \in common : \A z \in common : z <= y
  IN IF common = {} THEN {} ELSE Adjacent(common, last)[WINDOW_MAX - 1]

\* In thousandths of a percent point, and rounded to tenths before the bands.
MarginIn(s, part, y) == (100000 * part[y]) \div s.revenue[y]
Tenths(x) == (x + 50) \div 100

\* One pass with the highest margin so far.
Peak(s, first, last) ==
  LET peak[y \in first..last] ==
        IF y = first THEN MarginIn(s, s.operating, y)
        ELSE Max2(peak[y - 1], MarginIn(s, s.operating, y))
  IN peak

MarginDrawdown(s, first, last) ==
  LET worst[y \in first..last] ==
        IF y = first THEN 0
        ELSE Max2(worst[y - 1], Peak(s, first, last)[y] - MarginIn(s, s.operating, y))
  IN worst[last]

FallsBand(n) == CASE n <= 0 -> 5 [] n = 1 -> 4 [] n = 2 -> 3 [] n = 3 -> 2 [] OTHER -> 1
DrawdownBand(d) ==
  IF d <= 50 THEN 5 ELSE IF d <= 120 THEN 4 ELSE IF d <= 240 THEN 3 ELSE IF d <= 480 THEN 2 ELSE 1
NetBand(m) ==
  IF m >= 50 THEN 5 ELSE IF m >= 0 THEN 4 ELSE IF m >= -50 THEN 3 ELSE IF m >= -150 THEN 2 ELSE 1

\* Seven to nine years count, but never for more than a 4.
SteadinessScore(years, bands) ==
  Min2(IF years >= WINDOW_MAX THEN 500 ELSE 400, (200 * bands + 3) \div 6)

ComputeSteadiness(s) ==
  LET years == WindowYears(s)
      first == CHOOSE y \in years : \A z \in years : y <= z
      last == CHOOSE y \in years : \A z \in years : z <= y
      falls == Cardinality({y \in years : y - 1 \in years /\ s.revenue[y] < s.revenue[y - 1]})
      net == CHOOSE m \in {MarginIn(s, s.net, y) : y \in years} :
               \A y \in years : m <= MarginIn(s, s.net, y)
  IN IF Cardinality(years) < WINDOW_MIN THEN Neutral("series_too_short")
     ELSE Steadiness(SteadinessScore(Cardinality(years),
                       FallsBand(falls) + DrawdownBand(Tenths(MarginDrawdown(s, first, last)))
                         + NetBand(Tenths(net))), None)

SteadinessOf(p) ==
  IF ~p.cik THEN Neutral("no_sec_registrant")
  ELSE IF p.series = None THEN Neutral("no_concept") ELSE ComputeSteadiness(p.series)

\* on: an annual series was handed to run_deterministic_scoring.
AnnotateSteadiness(on) ==
  /\ pass = "steadiness"
  /\ steadiness' = [t \in Titles |-> IF on THEN SteadinessOf(profile[t]) ELSE None]
  /\ pass' = "score"
  /\ UNCHANGED <<profile, growth, roic, pct, scored, report>>

(***************************************************************************)
(* The three axes.                                                         *)
(***************************************************************************)
MISSING_INPUT_CAP == 3
STRUCTURAL_LEVERAGE_SECTORS == {"Utilities", "Real Estate"}

\* The score of the mean of n percentiles with this sum.
PercentileToScore(sum, n) ==
  IF sum >= 88 * 24 * n THEN 5 ELSE IF sum >= 70 * 24 * n THEN 4
  ELSE IF sum >= 40 * 24 * n THEN 3 ELSE IF sum >= 15 * 24 * n THEN 2 ELSE 1

ConsistencyCap(g) ==
  IF g.down = None THEN 4
  ELSE IF 4 * (g.years - g.down) >= 3 * g.years THEN 5
  ELSE IF 2 * (g.years - g.down) >= g.years THEN 4 ELSE 3

\* Mutant: the quarter stands in for the median without the cap.
ScoreGrowth_QuarterIsFree(t) ==
  IF pct[t].median # None
  THEN LET capped == Min2(PercentileToScore(pct[t].median, 1), ConsistencyCap(growth[t]))
       IN IF growth[t].median >= 10 /\ growth[t].down = 0 THEN Max2(capped, 4) ELSE capped
  ELSE LET base == IF pct[t].yoy = None THEN 3 ELSE PercentileToScore(pct[t].yoy, 1)
       IN Min2(base, ConsistencyCap(growth[t]))

\* A steady grower (5 percent in the median, no down year) gets at least a 4.
ScoreGrowth(t) ==
  IF pct[t].median # None
  THEN LET capped == Min2(PercentileToScore(pct[t].median, 1), ConsistencyCap(growth[t]))
       IN IF growth[t].median >= 10 /\ growth[t].down = 0 THEN Max2(capped, 4) ELSE capped
  ELSE LET base == IF pct[t].yoy = None THEN 3 ELSE PercentileToScore(pct[t].yoy, 1)
       IN Min2(Min2(base, MISSING_INPUT_CAP), ConsistencyCap(growth[t]))

RoicCapApplies(t) ==
  \/ roic[t].reason # "invested_capital_nonpositive"
  \/ profile[t].sector = "Financial Services"

Loss(t) ==
  \/ profile[t].margin # None /\ Or0(profile[t].margin) < 0
  \/ roic[t].value # None /\ Or0(roic[t].value) < 0

ScoreProfitability(t) ==
  LET known == {i \in {"margin", "roic"} : pct[t][i] # None}
      mean == IF known = {} THEN 3
              ELSE PercentileToScore((IF "margin" \in known THEN pct[t].margin ELSE 0)
                                       + (IF "roic" \in known THEN pct[t].roic ELSE 0),
                                     Cardinality(known))
      score == IF Loss(t) THEN 0 ELSE mean
  IN IF roic[t].value = None /\ RoicCapApplies(t) THEN Min2(score, MISSING_INPUT_CAP) ELSE score

NetDebt(p) == IF p.debt = None /\ p.cash = None THEN None ELSE Or0(p.debt) - Or0(p.cash)

Leverage(band, flag, gaps) == [band |-> band, flag |-> flag, gaps |-> gaps]

BandFor(nd, ebitda) ==
  IF nd <= 0 THEN 100 ELSE IF nd <= ebitda THEN 85 ELSE IF nd <= 2 * ebitda THEN 65
  ELSE IF nd <= 3 * ebitda THEN 45 ELSE IF nd <= 4 * ebitda THEN 25 ELSE None

AssessLeverage(p) ==
  LET nd == NetDebt(p)
      TooMuch(why) == IF p.sector \in STRUCTURAL_LEVERAGE_SECTORS
                      THEN Leverage(0, None, {}) ELSE Leverage(None, why, {})
  IN IF nd = None \/ p.ebitda = None
     THEN Leverage(None, None, (IF p.ebitda = None THEN {"ebitda"} ELSE {})
                                 \cup (IF nd = None THEN {"net_debt"} ELSE {}))
     ELSE IF p.ebitda <= 0
     THEN IF nd <= 0 THEN Leverage(None, None, {"ebitda_nonpositive"})
                     ELSE TooMuch("net_debt_with_nonpositive_ebitda")
     ELSE IF BandFor(nd, p.ebitda) = None THEN TooMuch("net_debt_to_ebitda_above_4")
     ELSE Leverage(BandFor(nd, p.ebitda), None, {})

ResilienceScore(gross, lev) ==
  IF lev.flag # None THEN 0
  ELSE IF lev.band # None /\ gross # None THEN PercentileToScore(24 * lev.band + gross, 2)
  ELSE IF lev.band # None THEN Min2(MISSING_INPUT_CAP, PercentileToScore(24 * lev.band, 1))
  ELSE IF gross # None THEN Min2(MISSING_INPUT_CAP, PercentileToScore(gross, 1))
  ELSE MISSING_INPUT_CAP

DataGaps(t) ==
  (IF pct[t].median = None THEN {"revenue_growth_median"} ELSE {})
  \cup (IF pct[t].median = None /\ pct[t].yoy = None THEN {"revenue_growth_yoy"} ELSE {})
  \cup (IF pct[t].margin = None /\ pct[t].roic = None
        THEN {"operating_margin/return_on_invested_capital"} ELSE {})
  \cup (IF roic[t].value = None THEN {"roic"} ELSE {})
  \cup AssessLeverage(profile[t]).gaps
  \cup (IF pct[t].gross = None THEN {"gross_margin"} ELSE {})

\* Axes scored on one of their two inputs.
PartialAxes(t) ==
  LET lev == AssessLeverage(profile[t])
      known == lev.band # None \/ lev.flag # None
  IN (IF (pct[t].margin = None) # (pct[t].roic = None) THEN {"profitability"} ELSE {})
     \cup (IF (pct[t].gross # None) # known THEN {"resilience"} ELSE {})

ScoreRecord(t) ==
  [dims |-> [a \in Axes |-> CASE a = "growth" -> ScoreGrowth(t)
                              [] a = "profitability" -> ScoreProfitability(t)
                              [] a = "resilience" ->
                                   ResilienceScore(pct[t].gross, AssessLeverage(profile[t]))],
   gaps |-> DataGaps(t),
   confidence |-> IF growth[t].down = None \/ DataGaps(t) # {} THEN "low" ELSE "ok",
   partial |-> PartialAxes(t),
   redFlag |-> AssessLeverage(profile[t]).flag,
   taker |-> profile[t].industry \in Takers]

ScoreRecords ==
  /\ pass = "score"
  /\ scored' = [t \in Titles |-> ScoreRecord(t)]
  /\ pass' = "report"
  /\ UNCHANGED <<profile, growth, roic, pct, steadiness, report>>

(***************************************************************************)
(* Cross hits, and the sections of the titles that just miss it.           *)
(***************************************************************************)
Qualifying(t) == {a \in Axes : scored[t].dims[a] >= ScoreThreshold}

\* Mutant: the sentinel is known by its value.
SteadinessIsAssessable_ByScore(t) ==
  IF steadiness[t] = None THEN FALSE ELSE steadiness[t].score # 300

SteadinessIsAssessable(t) ==
  IF steadiness[t] = None THEN FALSE ELSE steadiness[t].reason = None

SteadinessFails(t) ==
  SteadinessIsAssessable(t) /\ steadiness[t].score < 100 * ScoreThreshold

ClearsCrosshitBar(t, min) ==
  Cardinality(Qualifying(t)) >= min /\ ~SteadinessFails(t)

IsCrosshit(t, min) == ~scored[t].taker /\ ClearsCrosshitBar(t, min)
IsExcludedPriceTaker(t, min) == scored[t].taker /\ ClearsCrosshitBar(t, min)

NumFives(t) == Cardinality({a \in Qualifying(t) : scored[t].dims[a] = 5})

\* In hundredths; every title asked has a qualifying axis.
AvgScore(t) ==
  LET n == Cardinality(Qualifying(t))
      Part(a) == IF a \in Qualifying(t) THEN scored[t].dims[a] ELSE 0
      sum == Part("growth") + Part("profitability") + Part("resilience")
  IN (200 * sum + n) \div (2 * n)

\* The key of the sort; the sort is stable, so the position decides among equals.
Before(t, u) ==
  LET nt == Cardinality(Qualifying(t))
      nu == Cardinality(Qualifying(u))
  IN \/ nt > nu
     \/ nt = nu /\ NumFives(t) > NumFives(u)
     \/ nt = nu /\ NumFives(t) = NumFives(u) /\ AvgScore(t) > AvgScore(u)
     \/ nt = nu /\ NumFives(t) = NumFives(u) /\ AvgScore(t) = AvgScore(u) /\ t < u

Ranked(S) ==
  CHOOSE q \in [1..Cardinality(S) -> S] : \A i, j \in DOMAIN q : i < j => Before(q[i], q[j])

Shown(q) == SubSeq(q, 1, Min2(Cap, Len(q)))

ComputeSteadinessFailures(min) ==
  {t \in Titles : Cardinality(Qualifying(t)) >= min /\ ~ClearsCrosshitBar(t, min)}

\* Mutant: a title that clears the bar in spite of its red flag is listed too.
ComputeLeverageFailures_AllFlagged(min) ==
  {t \in Titles : /\ scored[t].redFlag # None
                  /\ {"growth", "profitability"} \subseteq Qualifying(t)
                  /\ ~SteadinessFails(t)}

ComputeLeverageFailures(min) ==
  {t \in Titles : /\ scored[t].redFlag # None
                  /\ ~ClearsCrosshitBar(t, min)
                  /\ {"growth", "profitability"} \subseteq Qualifying(t)
                  /\ ~SteadinessFails(t)}

\* The tickers of an axis in Dimensions.md, best first.
ByAxis(a) ==
  LET S == {t \in Titles : a \in Qualifying(t)}
  IN CHOOSE q \in [1..Cardinality(S) -> S] :
       \A i, j \in DOMAIN q : i < j =>
         \/ scored[q[i]].dims[a] > scored[q[j]].dims[a]
         \/ scored[q[i]].dims[a] = scored[q[j]].dims[a] /\ q[i] < q[j]

NoReport == [min |-> 0, crosshits |-> <<>>, steadiness |-> <<>>, leverage |-> <<>>, takers |-> <<>>,
             axes |-> [a \in Axes |-> <<>>], counts |-> [a \in Axes |-> 0]]

Generate(min) ==
  /\ pass = "report"
  /\ report' =
       [min |-> min,
        crosshits |-> Shown(Ranked({t \in Titles : IsCrosshit(t, min)})),
        steadiness |-> Ranked(ComputeSteadinessFailures(min)),
        leverage |-> Ranked(ComputeLeverageFailures(min)),
        takers |-> Ranked({t \in Titles : IsExcludedPriceTaker(t, min)}),
        axes |-> [a \in Axes |-> Shown(ByAxis(a))],
        counts |-> [a \in Axes |-> Len(ByAxis(a))]]
  /\ pass' = "done"
  /\ UNCHANGED <<profile, growth, roic, pct, steadiness, scored>>

Init ==
  /\ pass = "revenues"
  /\ profile \in [Titles -> Profiles]
  /\ growth = [t \in Titles |-> NoGrowth]
  /\ roic = [t \in Titles |-> Roic(None, None)]
  /\ pct = [t \in Titles |-> [i \in Inputs |-> None]]
  /\ steadiness = [t \in Titles |-> None]
  /\ scored = None
  /\ report = NoReport

Next ==
  \/ ReadRevenues
  \/ AnnotateRoic
  \/ AnnotatePercentiles
  \/ \E on \in BOOLEAN : AnnotateSteadiness(on)
  \/ ScoreRecords
  \/ \E min \in MinDimensions : Generate(min)

Spec == Init /\ [][Next]_vars

-------------------------------------------------------------------------------
\* The inputs of an axis: higher is better.
AxisInputs(a) ==
  CASE a = "growth" -> {"median"} [] a = "profitability" -> {"margin", "roic"}
    [] a = "resilience" -> {"gross"}

\* Net debt over EBITDA of u is defined and not below that of t.
LessIndebted(t, u) ==
  /\ \A x \in {t, u} : NetDebt(profile[x]) # None /\ profile[x].ebitda # None
  /\ \A x \in {t, u} : profile[x].ebitda > 0
  /\ NetDebt(profile[t]) * profile[u].ebitda <= NetDebt(profile[u]) * profile[t].ebitda

\* What is known of u on this axis is not better than what is known of t.
NotBetter(u, t, a) ==
  /\ profile[t].sector = profile[u].sector
  /\ \A i \in AxisInputs(a) : Value(t)[i] # None
  /\ \A i \in AxisInputs(a) :
       Value(u)[i] # None => Value(u)[i] <= Value(t)[i]
  /\ a = "growth" => \/ growth[u].down = None
                     \/ growth[u].down * growth[t].years >= growth[t].down * growth[u].years
  /\ a = "resilience" => LessIndebted(t, u) \/ AssessLeverage(profile[u]).gaps # {}
  /\ a = "profitability" => Value(u).roic # None \/ RoicCapApplies(u)

MissesInput(u, a) ==
  \/ \E i \in AxisInputs(a) : Value(u)[i] = None
  \/ a = "resilience" /\ AssessLeverage(profile[u]).gaps # {}

\* "A missing input must never score better than neutral" (deterministic_scorer.py:80),
\* and no axis ranks a title above one that is as good in every input of the axis: not
\* through pools, bands, caps, floors or red flags.
WithholdingNeverPays ==
  pass \in {"report", "done"} =>
    \A t, u \in Titles, a \in Axes :
      NotBetter(u, t, a) =>
        scored[u].dims[a] <= IF MissesInput(u, a) THEN Max2(3, scored[t].dims[a])
                                                  ELSE scored[t].dims[a]

Elems(q) == {q[i] : i \in 1..Len(q)}

\* A title that reaches the threshold on enough axes stands in one place of the report and
\* no other: among the cross hits, or in the section that says what keeps it off the list.
\* The list is cut from its weaker end.
OneSectionPerTitle ==
  pass = "done" =>
    LET hits == {t \in Titles : IsCrosshit(t, report.min)}
        sections == <<hits, Elems(report.steadiness), Elems(report.leverage),
                      Elems(report.takers)>>
    IN /\ \A i, j \in 1..4 : i # j => sections[i] \cap sections[j] = {}
       /\ \A t \in Titles : Cardinality(Qualifying(t)) >= report.min
            => t \in sections[1] \cup sections[2] \cup sections[4]
       /\ Len(report.crosshits) = Min2(Cap, Cardinality(hits))
       /\ \A t \in hits \ Elems(report.crosshits), u \in Elems(report.crosshits) : Before(u, t)
       /\ \A t \in hits : \A a \in Qualifying(t) :
            t \in Elems(report.axes[a]) \/ report.counts[a] > Cap

\* What the text of steadiness.py says of the window and its three parts, without passes:
\* the adjacent newest years, the largest fall from an earlier margin, the worst year.
SteadinessByDefinition(s) ==
  LET common == {y \in DOMAIN s.revenue \cap DOMAIN s.operating \cap DOMAIN s.net :
                   s.revenue[y] > 0}
      window == {y \in common : /\ \A z \in common : z <= y + 9
                                /\ \A z \in y..(y + 9) :
                                     (\E w \in common : w >= z) => z \in common}
      pairs == {p \in window \X window : p[1] <= p[2]}
      drops == {MarginIn(s, s.operating, p[1]) - MarginIn(s, s.operating, p[2]) : p \in pairs}
      nets == {MarginIn(s, s.net, y) : y \in window}
      falls == {y \in window : y - 1 \in window /\ s.revenue[y] < s.revenue[y - 1]}
      sum == FallsBand(Cardinality(falls))
             + DrawdownBand(Tenths(CHOOSE d \in drops : \A e \in drops : e <= d))
             + NetBand(Tenths(CHOOSE m \in nets : \A n \in nets : m <= n))
  IN IF Cardinality(window) < WINDOW_MIN THEN Neutral("series_too_short")
     ELSE Steadiness(SteadinessScore(Cardinality(window), sum), None)

\* The axis measures what it says, and a title it cannot measure, without a CIK, without a
\* series or with too short a one, carries the sentinel with its reason.  The sentinel
\* keeps no title off the list of the cross hits, and a measured score below the bar does,
\* a measured 3.0, which looks like the sentinel, included.
SentinelIsNoMeasurement ==
  pass \in {"score", "report", "done"} =>
    \A t \in Titles : steadiness[t] # None =>
      /\ ~profile[t].cik => steadiness[t] = Neutral("no_sec_registrant")
      /\ profile[t].cik /\ profile[t].series = None => steadiness[t] = Neutral("no_concept")
      /\ profile[t].cik /\ profile[t].series # None =>
           steadiness[t] = SteadinessByDefinition(profile[t].series)
      /\ pass = "done" /\ ~scored[t].taker =>
           (IsCrosshit(t, report.min) <=>
              /\ Cardinality(Qualifying(t)) >= report.min
              /\ ~(steadiness[t].reason = None /\ steadiness[t].score < 100 * ScoreThreshold))
===============================================================================
