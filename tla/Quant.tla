--------------------------------- MODULE Quant ---------------------------------
(***************************************************************************)
(* The figures of a dossier: deepdive/quant_join.py, trend_metrics.py,     *)
(* valuation_history.py, peer_quant.py and valuation_block.py.             *)
(*                                                                         *)
(* Amounts are whole numbers, ratios hundredths, yields and margins basis  *)
(* points; a date is a day number.  Rounding is that of \div.  Fields that *)
(* are only passed on are left out.                                        *)
(***************************************************************************)
EXTENDS SourceValues, YFinanceClient, FiniteSets, Sequences, SequencesExt

Or(x, y) == IF Truthy(x) THEN x ELSE y
SomeNone(S) == None \in S

(***************************************************************************)
(* The dividend yield comes in per cent or as a fraction; below 1 it says  *)
(* nothing by itself, and the payout over the price-earnings ratio tells.  *)
(***************************************************************************)
ONE == 10000
NormDividendYield(raw) == IF raw > ONE THEN raw \div 100 ELSE raw

ResolveDividendYield(raw, payout, pe) ==
  IF raw = None THEN None
  ELSE IF raw = 0 THEN 0
  ELSE IF (IF payout = None \/ pe = None THEN FALSE ELSE payout > 0 /\ pe > 0)
       THEN IF NormDividendYield(raw) * pe > 10 * payout THEN raw \div 100 ELSE NormDividendYield(raw)
  ELSE IF raw >= ONE THEN NormDividendYield(raw)
  ELSE None

(***************************************************************************)
(* Trends over the annual series, newest first; a gap in a series is no    *)
(* trend.  A growth rate stays the fraction and the years it is drawn from.*)
(***************************************************************************)
Clean(q) == q # <<>> /\ \A k \in DOMAIN q : q[k] # None
FirstAndLast(q) == Clean(q) /\ Len(q) >= 2 /\ q[1] > 0 /\ q[Len(q)] > 0
SumSeq(q) == FoldLeft(LAMBDA s, x : s + x, 0, q)

ComputeCagr(q) ==
  IF FirstAndLast(q) THEN [newest |-> q[1], oldest |-> q[Len(q)], years |-> Len(q) - 1] ELSE None

ComputeDilutionPct(q) ==
  IF FirstAndLast(q) THEN (ONE * (q[1] - q[Len(q)])) \div q[Len(q)] ELSE None

\* The slope of the least squares, oldest first.
ComputeMarginSlope(q) ==
  IF ~Clean(q) \/ Len(q) < 2 THEN None
  ELSE LET n == Len(q)
           x(k) == n - k
           sxy == SumSeq([k \in 1..n |-> x(k) * q[k]])
           sx == SumSeq([k \in 1..n |-> x(k)])
           sxx == SumSeq([k \in 1..n |-> x(k) * x(k)])
       IN (100 * (n * sxy - sx * SumSeq(q))) \div (n * sxx - sx * sx)

ComputeBuybackIntensity(q, cap) ==
  IF ~Clean(q) \/ ~Truthy(cap) THEN None
  ELSE LET s == SumSeq(q) IN (ONE * (IF s < 0 THEN -s ELSE s)) \div cap

LatestNonNone(q) ==
  LET some == SelectSeq(q, LAMBDA x : x # None) IN IF some = <<>> THEN None ELSE some[1]

(***************************************************************************)
(* The multiples of the past years, week by week.                          *)
(***************************************************************************)
VALUATION_PARTIAL_MIN_OBS == 52
VALUATION_COMPLETE_MIN_DENSITY == 40
VALUATION_COMPLETE_MIN_SPAN_DAYS == 1022
REPORTING_LAG_DAYS == 90

Stats(status, n, median, p25) == [status |-> status, obs |-> n, median |-> median, p25 |-> p25]
NoStats(status) == Stats(status, 0, None, None)
History(pe, ev, fcf) == [pe |-> pe, evEbit |-> ev, fcfYield |-> fcf]

\* The quarter k of the sorted values, with the interpolation of both ends included.
Quartile(values, k) ==
  LET s == SortSeq(values, <)
      j == ((Len(s) - 1) * k) \div 4
      r == ((Len(s) - 1) * k) % 4
  IN IF r = 0 THEN s[j + 1] ELSE (s[j + 1] * (4 - r) + s[j + 2] * r) \div 4

\* points are pairs of a week and a value.
Classify(points) ==
  LET n == Len(points)
      span == points[n].week - points[1].week
      values == [k \in DOMAIN points |-> points[k].value]
  IN IF n < VALUATION_PARTIAL_MIN_OBS THEN Stats("na_data", n, None, None)
     ELSE Stats(IF /\ span >= VALUATION_COMPLETE_MIN_SPAN_DAYS
                   /\ n * 365 >= VALUATION_COMPLETE_MIN_DENSITY * span
                THEN "complete" ELSE "partial",
                n, Quartile(values, 2), Quartile(values, 1))

AsOfIndex(week, annual) ==
  LET known == {k \in DOMAIN annual : annual[k].end + REPORTING_LAG_DAYS <= week}
  IN IF known = {} THEN None ELSE CHOOSE k \in known : \A l \in known : k <= l

CumSplitFactor(end, splits) ==
  FoldLeft(LAMBDA f, s : IF s.ex > end THEN f * s.ratio ELSE f, 1, splits)

\* The market value that the price, the result and the result per share imply.
ImpliedCap(close, a, factor) == (close.price * factor * a.income) \div a.eps

ComputeValuationHistory(closes, annual, splits, listing, financial) ==
  LET Known(close) == close.price > 0 /\ AsOfIndex(close.week, annual) # None
      year(close) == annual[AsOfIndex(close.week, annual)]
      factor(close) == CumSplitFactor(year(close).end, splits)
      HasPe(close) == Known(close) /\ year(close).eps # None /\ year(close).eps > 0
      HasShares(close) ==
        /\ Known(close) /\ ~SomeNone({year(close).eps, year(close).income})
        /\ year(close).eps * year(close).income > 0
      HasEv(close) == /\ HasShares(close)
                      /\ ~SomeNone({year(close).ebit, year(close).debt, year(close).cash})
                      /\ year(close).ebit > 0
      HasFcf(close) == HasShares(close) /\ year(close).fcf # None
                       /\ ImpliedCap(close, year(close), factor(close)) > 0
      Points(Has(_), value(_)) ==
        LET some == SelectSeq(closes, Has)
        IN [k \in DOMAIN some |-> [week |-> some[k].week, value |-> value(some[k])]]
  IN IF listing = None \/ financial = None
     THEN History(NoStats("na_data"), NoStats("na_data"), NoStats("na_data"))
     ELSE IF listing # financial
     THEN History(NoStats("skipped_fx"), NoStats("skipped_fx"), NoStats("skipped_fx"))
     ELSE History(
       Classify(Points(HasPe, LAMBDA c : (100 * c.price * factor(c)) \div year(c).eps)),
       Classify(Points(HasEv, LAMBDA c :
         (100 * (ImpliedCap(c, year(c), factor(c)) + year(c).debt - year(c).cash)) \div year(c).ebit)),
       Classify(Points(HasFcf, LAMBDA c :
         (ONE * year(c).fcf) \div ImpliedCap(c, year(c), factor(c)))))

(***************************************************************************)
(* The snapshot.  cached is the document of the screener's cache, without  *)
(* regard to its age; live the payload of a call, raw the historical       *)
(* series, forward the estimates, or None when the call fails.             *)
(***************************************************************************)
PitSource(cached) ==
  IF cached # None /\ ~IsUnnormalised(cached) THEN "tool-a-cache" ELSE "live-yfinance"

PitFromInfo(info, raw) ==
  [name |-> info.name, currency |-> info.currency, cap |-> IF Truthy(info.cap) THEN info.cap ELSE None,
   price |-> Or(info.current, info.regular), pe |-> info.pe, payout |-> info.payout,
   dividend |-> ResolveDividendYield(info.dividend, info.payout, info.pe),
   ev |-> info.ev, fcf |-> info.fcf, target |-> info.target,
   ebit |-> LatestNonNone(raw.ebit), interest |-> LatestNonNone(raw.interest)]

CurrencyNote(raw, currency) ==
  raw.currency # None /\ currency # None /\ raw.currency # currency

BuildQuantSnapshot(cached, live, raw, forward) ==
  LET source == PitSource(cached)
      pit == PitFromInfo(IF source = "tool-a-cache" THEN cached ELSE live, raw)
  IN [pit |-> pit, source |-> source,
      years |-> Len(raw.revenue), revenue |-> LatestNonNone(raw.revenue),
      historical |-> IF raw.complete THEN "complete" ELSE "partial",
      currencyNote |-> CurrencyNote(raw, pit.currency),
      trends |-> [cagr |-> ComputeCagr(raw.revenue), slope |-> ComputeMarginSlope(raw.margins),
                  dilution |-> ComputeDilutionPct(raw.shares),
                  buyback |-> ComputeBuybackIntensity(raw.buybacks, pit.cap)],
      forward |-> forward, history |-> raw.history, peers |-> None]

\* A peer whose info fails stays in the table without figures.
PeerFromInfo(ticker, info) ==
  IF info = None THEN [ticker |-> ticker, pe |-> None, fcf |-> None, cap |-> None]
  ELSE [ticker |-> ticker, pe |-> info.pe, fcf |-> info.fcf, cap |-> info.cap]

(***************************************************************************)
(* The block of the dossier: lines of labelled segments.  A segment has a  *)
(* value or the reason for its absence.                                    *)
(***************************************************************************)
Shown(label, val) == [label |-> label, val |-> val, why |-> None]
Absent(label, why) == [label |-> label, val |-> None, why |-> why]
Maybe(label, val) == IF val = None THEN Absent(label, "n/a") ELSE Shown(label, val)
Line(label, segments) == [label |-> label, segments |-> segments]

EvEbit(pit) ==
  CASE pit.ev = None -> Absent("EV/EBIT", "EV")
    [] pit.ev # None /\ pit.ebit = None -> Absent("EV/EBIT", "EBIT")
    [] pit.ev # None /\ pit.ebit = 0 -> Absent("EV/EBIT", "EBIT=0")
    [] OTHER -> Shown("EV/EBIT", (100 * pit.ev) \div pit.ebit)

EvSales(q) ==
  CASE q.pit.ev = None -> Absent("EV/Sales", "EV")
    [] q.pit.ev # None /\ ~Truthy(q.revenue) -> Absent("EV/Sales", "Revenue")
    [] OTHER -> Shown("EV/Sales", (100 * q.pit.ev) \div q.revenue)

FcfYield(label, fcf, cap) ==
  CASE fcf = None -> Absent(label, "FCF")
    [] fcf # None /\ ~Truthy(cap) -> Absent(label, "Market Cap")
    [] OTHER -> Shown(label, (ONE * fcf) \div cap)

InterestCoverage(pit) ==
  CASE pit.ebit = None -> Absent("Interest Coverage", "EBIT")
    [] pit.ebit # None /\ pit.interest = None -> Absent("Interest Coverage", "Interest Expense")
    [] pit.ebit # None /\ pit.interest = 0 -> Absent("Interest Coverage", "Interest Expense=0")
    [] OTHER -> Shown("Interest Coverage",
                  (100 * pit.ebit) \div (IF pit.interest < 0 THEN -pit.interest ELSE pit.interest))

\* The dividend now and the yearly mean of the buybacks, over five years when none are known.
TotalShareholderYield(q) ==
  LET years == IF q.years = 0 THEN 5 ELSE q.years
  IN IF q.pit.dividend = None \/ q.trends.buyback = None THEN Absent("Total Shareholder Yield", "n/a")
     ELSE Shown("Total Shareholder Yield", q.pit.dividend + q.trends.buyback \div years)

RangeSegment(label, ttm, stats) ==
  IF stats.status \in {"skipped_fx", "na_data"} THEN Absent(label, stats.status)
  ELSE [label |-> label, val |-> [ttm |-> ttm, median |-> stats.median, p25 |-> stats.p25], why |-> None]

RenderValuationRange(q) ==
  LET statuses == {q.history.pe.status, q.history.evEbit.status, q.history.fcfYield.status}
  IN Line("Bewertungs-Range",
       IF q.history = None THEN <<Absent(None, "unavailable")>>
       ELSE IF statuses = {"skipped_fx"} THEN <<Absent(None, "skipped_fx")>>
       ELSE IF statuses = {"na_data"} THEN <<Absent(None, "na_data")>>
       ELSE <<RangeSegment("P/E", q.pit.pe, q.history.pe),
              RangeSegment("EV/EBIT", EvEbit(q.pit).val, q.history.evEbit),
              RangeSegment("FCF-Yield", FcfYield("FCF-Yield", q.pit.fcf, q.pit.cap).val,
                           q.history.fcfYield)>>)

\* Without a mean target the whole line is absent.
RenderConsensus(pit) ==
  Line("Analyst Consensus",
    IF pit.target = None THEN <<Absent(None, "n/a")>>
    ELSE <<Shown("Target", pit.target),
           IF ~Truthy(pit.price) THEN Absent("Upside", "Kurs")
           ELSE Shown("Upside", (ONE * (pit.target - pit.price)) \div pit.price)>>)

RenderForward(forward) ==
  Line("Forward-Konsens",
    IF forward = None THEN <<Absent(None, "n/a")>>
    ELSE IF \A k \in DOMAIN forward : forward[k] = None THEN <<Absent(None, "n/a")>>
    ELSE <<Maybe("Revenue", forward.revenue), Maybe("EPS", forward.eps)>>)

RenderPeerTable(q) ==
  IF q.peers = None THEN <<>>
  ELSE [k \in DOMAIN q.peers |->
         [ticker |-> q.peers[k].ticker, pe |-> q.peers[k].pe,
          fcfYield |-> FcfYield("FCF-Yield", q.peers[k].fcf, q.peers[k].cap).val]]

RenderValuationBlock(q) ==
  [lines |-> <<Line("Bewertung", <<Maybe("P/E trail.", q.pit.pe), EvEbit(q.pit), EvSales(q),
                                   FcfYield("FCF-Yield", q.pit.fcf, q.pit.cap),
                                   Maybe("Div-Yield", q.pit.dividend), Maybe("Payout", q.pit.payout)>>),
               RenderValuationRange(q),
               Line("Kapitalstruktur", <<InterestCoverage(q.pit), TotalShareholderYield(q)>>),
               RenderConsensus(q.pit), RenderForward(q.forward)>>,
   peers |-> RenderPeerTable(q)]
===============================================================================
